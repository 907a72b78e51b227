---------------------------- MODULE ServiceInner ----------------------------
(***************************************************************************)
(* The shared state of one service, ServiceInner<T> of server/service.rs,  *)
(* and the operations of ServiceTmpl<T> and ServiceSwap<T> on it.          *)
(*                                                                         *)
(* The state is behind one RwLock.  Every operator below is one critical   *)
(* section of that lock: a predicate for a section under the read guard,   *)
(* an action for a section under the write guard.  Code that takes the     *)
(* lock twice is two of them, and the module that composes them says what  *)
(* may run in between.                                                     *)
(*                                                                         *)
(* A subscriber is identified by the id of its connection; a message       *)
(* handed to a subscriber goes to that connection's channel, which the     *)
(* composing module models.                                                *)
(*                                                                         *)
(* A definition whose name starts with Bug_ is no part of the model: it is *)
(* the definition that follows it with a plausible mistake, kept to show   *)
(* which property finds that mistake.                                      *)
(***************************************************************************)
EXTENDS Naturals, FiniteSets

CONSTANTS Conns,         \* connection ids
          NeedSnapshot   \* ServiceInner::need_snapshot of this service

ASSUME ServiceAssumption == NeedSnapshot \in BOOLEAN

VARIABLES subscribes,      \* ids that get every message sent
          new_subscribes,  \* ids that still wait for a snapshot
          active           \* cleared by join, read by the service thread

innerVars == <<subscribes, new_subscribes, active>>

InnerTypeOK == /\ subscribes \subseteq Conns
               /\ new_subscribes \subseteq Conns
               /\ active \in BOOLEAN

InnerInit == /\ subscribes = {}
             /\ new_subscribes = {}
             /\ active = TRUE

HasSubscribes == subscribes # {} \/ new_subscribes # {}

ok == active /\ HasSubscribes

-----------------------------------------------------------------------------
(* Subscription, called by the server for a connection.                    *)

Bug_OnSubscribeTwice(c) ==
    /\ IF NeedSnapshot
       THEN /\ new_subscribes' = new_subscribes \cup {c}
            /\ UNCHANGED subscribes
       ELSE /\ subscribes' = subscribes \cup {c}
            /\ UNCHANGED new_subscribes
    /\ UNCHANGED active

OnSubscribe(c) ==
    /\ IF c \in subscribes
       THEN UNCHANGED <<subscribes, new_subscribes>>
       ELSE IF NeedSnapshot
            THEN /\ new_subscribes' = new_subscribes \cup {c}
                 /\ UNCHANGED subscribes
            ELSE /\ subscribes' = subscribes \cup {c}
                 /\ UNCHANGED new_subscribes
    /\ UNCHANGED active

Bug_OnUnsubscribeOldOnly(c) ==
    /\ subscribes' = subscribes \ {c}
    /\ UNCHANGED <<new_subscribes, active>>

\* new_subscribes is looked at only when the id was not in subscribes.
OnUnsubscribe(c) ==
    /\ subscribes' = subscribes \ {c}
    /\ new_subscribes' = IF c \in subscribes THEN new_subscribes
                                             ELSE new_subscribes \ {c}
    /\ UNCHANGED active

\* join: the first of its sections.
Deactivate == /\ active' = FALSE
              /\ UNCHANGED <<subscribes, new_subscribes>>

-----------------------------------------------------------------------------
(* Snapshots.  ServiceTmpl::snapshot looks for new subscribers, hands the  *)
(* callback a ServiceSwap, and that ServiceSwap's destructor moves every   *)
(* new subscriber over, whether the callback succeeded or not.             *)

SnapshotDue == new_subscribes # {}

SwapNewSubscribes == /\ subscribes' = subscribes \cup new_subscribes
                     /\ new_subscribes' = {}
                     /\ UNCHANGED active
=============================================================================
