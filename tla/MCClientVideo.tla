---------------------------- MODULE MCClientVideo ----------------------------
EXTENDS ClientVideo
=============================================================================
