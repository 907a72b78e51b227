----------------------------- MODULE MCVideoQoS -----------------------------
(* Instances of the rate and quality controller.                           *)
EXTENDS VideoQoS, TLC

MCRises == {30, 67, 140}
=============================================================================
