---------------------------- MODULE ServiceAccess ----------------------------
(***************************************************************************)
(* What the server promises about its services, whatever the permissions,  *)
(* the options, the requests and the order of the calls: a connection sees *)
(* services only between its login and its end, only those its kind can    *)
(* have, and what one connection does changes nothing for another.         *)
(*                                                                         *)
(* Two kinds of services can be seen outside that rule, and are named for  *)
(* it: Early ones are handed out by a switch in the connection manager     *)
(* before the login is answered, Loose ones by an option of the login or   *)
(* by a switch, to a connection of any kind.  The kinds tell less apart    *)
(* than one may think: whoever did not log in for the camera can have the  *)
(* video of every display.                                                 *)
(***************************************************************************)
CONSTANTS Conns,    \* connection ids
          Services, \* names of services
          Early,    \* Early[c]: those a switch hands out before the login
          Loose,    \* services that an option or a switch hands out to any kind
          Own       \* Own[c]: the services that the kind of c can have

VARIABLES stage, \* stage[c]: "out", "in", "done"
          sees   \* sees[c]: the services c is subscribed to

vars == <<stage, sees>>

Init == /\ stage = [c \in Conns |-> "out"]
        /\ sees = [c \in Conns |-> {}]

\* One connection moves on and sees what it sees; no other one notices.
Moves(c, next) == /\ stage' = [stage EXCEPT ![c] = next]
                  /\ \A d \in Conns \ {c} : sees'[d] = sees[d]

\* A switch for a connection whose login is not answered.
Switch(c) == /\ stage[c] = "out"
             /\ Moves(c, "out")
             /\ sees'[c] \subseteq Early[c]

\* The login is answered, and every later change: options, permissions,
\* displays, voice calls.
Inside(c) == /\ stage[c] \in {"out", "in"}
             /\ Moves(c, "in")
             /\ sees'[c] \subseteq Own[c] \cup Early[c] \cup Loose

\* The end, from which nothing leads back.
End(c) == /\ stage[c] # "done"
          /\ Moves(c, "done")
          /\ sees'[c] = {}

Next == /\ sees' \in [Conns -> SUBSET Services]
        /\ \E c \in Conns : Switch(c) \/ Inside(c) \/ End(c)

Spec == Init /\ [][Next]_vars
=============================================================================
