------------------------- MODULE CursorServiceProofs -------------------------
(* What holds of CursorService for any set of connections and of cursors.  *)
EXTENDS CursorService, TLAPS

LEMMA TypeInit == Init => TypeOK
BY CursorAssumption DEF Init, InnerInit, TypeOK, InnerTypeOK, CursorOrNone,
                        Workers, Calls, InCall

\* One step of any action keeps the types and the discipline of the server's
\* lock: a call is in progress exactly for the connection that holds it.
LEMMA TypeStep == TypeOK /\ [Next]_vars => TypeOK'
<1> SUFFICES ASSUME TypeOK, [Next]_vars
             PROVE  TypeOK'
  OBVIOUS
<1> USE CursorAssumption DEF TypeOK, InnerTypeOK, CursorOrNone, Workers, Calls,
        InCall, innerVars, threadVars, connVars, ghostVars
<1>1. ASSUME NEW c \in Conns, AddConnection(c)
      PROVE  TypeOK'
  BY <1>1 DEF AddConnection, OnSubscribe, NoteSubscribe
<1>2. ASSUME NEW c \in Conns, AddConnectionWithout(c)
      PROVE  TypeOK'
  BY <1>2 DEF AddConnectionWithout
<1>3. ASSUME NEW c \in Conns, NEW sub \in BOOLEAN, Call(c, sub)
      PROVE  TypeOK'
  BY <1>3 DEF Call
<1>4. ASSUME NEW c \in Conns, IsSubed(c)
      PROVE  TypeOK'
  BY <1>4 DEF IsSubed, Answer
<1>5. ASSUME NEW c \in Conns, IsSubedNew(c)
      PROVE  TypeOK'
  BY <1>5 DEF IsSubedNew, Answer
<1>6. ASSUME NEW c \in Conns, Update(c)
      PROVE  TypeOK'
  BY <1>6 DEF Update, OnSubscribe, OnUnsubscribe, NoteSubscribe, NoteUnsubscribe
<1>7. ASSUME NEW c \in Conns, RemoveConnection(c)
      PROVE  TypeOK'
  BY <1>7 DEF RemoveConnection, OnUnsubscribe, NoteUnsubscribe
<1>8. CASE DropServer
  BY <1>8 DEF DropServer, Deactivate
<1>9. CASE ChangeCursor
  BY <1>9 DEF ChangeCursor
<1>10. CASE Worker
  <2>1. CASE Top \/ Check \/ Reset \/ SameCursor \/ CursorError \/ Snapshot \/ Sleep
    BY <2>1 DEF Top, Check, HasSubscribes, Reset, SameCursor, CursorError, Snapshot, Sleep
  <2>2. CASE SendCursor \/ SwapSend
    BY <2>2 DEF SendCursor, SwapSend, Deliver
  <2>3. CASE SwapDrop
    BY <2>3 DEF SwapDrop, SwapNewSubscribes
  <2> QED
    BY <1>10, <2>1, <2>2, <2>3 DEF Worker
<1>11. CASE UNCHANGED vars
  BY <1>11 DEF vars
<1> QED
  BY <1>1, <1>2, <1>3, <1>4, <1>5, <1>6, <1>7, <1>8, <1>9, <1>10, <1>11
     DEF Next, Connection, Serve, Terminated

\* The type invariant and the discipline of the server's lock.
THEOREM TypeCorrect == Spec => []TypeOK
BY TypeInit, TypeStep, PTL DEF Spec

-----------------------------------------------------------------------------
(* Disjoint and Informed are not inductive by themselves: the swap moves   *)
(* whoever waits, so what the waiting ids have seen when the message is    *)
(* out has to be known, and resetting the state is harmless only because   *)
(* nobody is past a snapshot then.                                         *)

SwapInformed == worker = "swap_drop" =>
                    \A c \in new_subscribes \ late : last[c] = hcursor

ResetAlone == worker = "reset" => subscribes = {}

SnapshotInv == /\ Disjoint
               /\ Informed
               /\ SwapInformed
               /\ ResetAlone

LEMMA SnapshotInit == Init => SnapshotInv
BY DEF Init, InnerInit, SnapshotInv, Disjoint, Informed, SwapInformed, ResetAlone

\* What a connection's call does to the four parts.
LEMMA ConnectionStep ==
    ASSUME TypeOK, SnapshotInv, NEW c \in Conns, Connection(c)
    PROVE  SnapshotInv'
<1> USE CursorAssumption DEF TypeOK, InnerTypeOK, Calls, Workers, InCall,
        innerVars, threadVars, ghostVars,
        SnapshotInv, Disjoint, Informed, SwapInformed, ResetAlone
<1>1. CASE AddConnection(c)
  BY <1>1 DEF AddConnection, OnSubscribe, NoteSubscribe
<1>2. CASE AddConnectionWithout(c)
  BY <1>2 DEF AddConnectionWithout
<1>3. CASE \E sub \in BOOLEAN : Call(c, sub)
  BY <1>3 DEF Call
<1>4. CASE IsSubed(c) \/ IsSubedNew(c)
  BY <1>4 DEF IsSubed, IsSubedNew
<1>5. CASE Update(c)
  BY <1>5 DEF Update, OnSubscribe, OnUnsubscribe, NoteSubscribe, NoteUnsubscribe
<1>6. CASE RemoveConnection(c)
  BY <1>6 DEF RemoveConnection, OnUnsubscribe, NoteUnsubscribe
<1> QED
  BY <1>1, <1>2, <1>3, <1>4, <1>5, <1>6 DEF Connection, Serve

\* What a section of the service thread does to the four parts.
LEMMA WorkerStep ==
    ASSUME TypeOK, SnapshotInv, Worker
    PROVE  SnapshotInv'
<1> USE DEF TypeOK, InnerTypeOK, Workers, innerVars, connVars, ghostVars,
        SnapshotInv, Disjoint, Informed, SwapInformed, ResetAlone
<1>1. CASE Top \/ SameCursor \/ CursorError \/ Snapshot \/ Sleep
  BY <1>1 DEF Top, SameCursor, CursorError, Snapshot, Sleep
<1>2. CASE Check
  BY <1>2 DEF Check, HasSubscribes
<1>3. CASE Reset
  BY <1>3 DEF Reset
<1>4. CASE SendCursor
  BY <1>4 DEF SendCursor, Deliver
<1>5. CASE SwapSend
  BY <1>5 DEF SwapSend, Deliver
<1>6. CASE SwapDrop
  BY <1>6 DEF SwapDrop, SwapNewSubscribes
<1> QED
  BY <1>1, <1>2, <1>3, <1>4, <1>5, <1>6 DEF Worker

LEMMA SnapshotStep == TypeOK /\ SnapshotInv /\ [Next]_vars => SnapshotInv'
<1> SUFFICES ASSUME TypeOK, SnapshotInv, [Next]_vars
             PROVE  SnapshotInv'
  OBVIOUS
<1>1. CASE \E c \in Conns : Connection(c)
  BY <1>1, ConnectionStep
<1>2. CASE Worker
  BY <1>2, WorkerStep
<1>3. CASE DropServer \/ ChangeCursor \/ UNCHANGED vars
  BY <1>3 DEF DropServer, Deactivate, ChangeCursor, vars, innerVars, threadVars,
              ghostVars, SnapshotInv, Disjoint, Informed, SwapInformed, ResetAlone
<1> QED
  BY <1>1, <1>2, <1>3 DEF Next, Terminated

LEMMA SnapshotCorrect == Spec => []SnapshotInv
BY TypeCorrect, SnapshotInit, SnapshotStep, PTL DEF Spec

\* An id never waits for a snapshot and gets the messages at the same time,
\* on which on_unsubscribe relies.
THEOREM DisjointTheorem == Spec => []Disjoint
BY SnapshotCorrect, PTL DEF SnapshotInv

\* Whoever gets the messages has seen the cursor last sent, unless it came
\* between a snapshot's message and its swap.
THEOREM InformedTheorem == Spec => []Informed
BY SnapshotCorrect, PTL DEF SnapshotInv

-----------------------------------------------------------------------------
(* A removed id stays out of both maps, so nothing is delivered to it.     *)

GoneIsForgotten == \A c \in Conns : conn[c] = "gone" => ~Subscribed(c)

LEMMA GoneStep ==
    ASSUME TypeOK, SnapshotInv, GoneIsForgotten, [Next]_vars
    PROVE  GoneIsForgotten' /\ \A c \in Conns : conn[c] = "gone" => last'[c] = last[c]
<1> USE DEF TypeOK, InnerTypeOK, Calls, InCall, innerVars, threadVars, connVars,
        ghostVars, SnapshotInv, Disjoint, GoneIsForgotten, Subscribed
<1>1. ASSUME NEW d \in Conns, Connection(d)
      PROVE  GoneIsForgotten' /\ last' = last
  <2>1. CASE AddConnection(d) \/ AddConnectionWithout(d)
    BY <2>1 DEF AddConnection, AddConnectionWithout, OnSubscribe, NoteSubscribe
  <2>2. CASE \E sub \in BOOLEAN : Call(d, sub)
    BY <2>2 DEF Call
  <2>3. CASE IsSubed(d) \/ IsSubedNew(d)
    BY <2>3 DEF IsSubed, IsSubedNew, Answer
  <2>4. CASE Update(d)
    BY <2>4 DEF Update, OnSubscribe, OnUnsubscribe, NoteSubscribe, NoteUnsubscribe
  <2>5. CASE RemoveConnection(d)
    BY <2>5 DEF RemoveConnection, OnUnsubscribe, NoteUnsubscribe
  <2> QED
    BY <1>1, <2>1, <2>2, <2>3, <2>4, <2>5 DEF Connection, Serve
<1>2. CASE SendCursor \/ SwapSend
  BY <1>2 DEF SendCursor, SwapSend, Deliver
<1>3. CASE SwapDrop
  BY <1>3 DEF SwapDrop, SwapNewSubscribes
<1>4. CASE Worker /\ ~(SendCursor \/ SwapSend \/ SwapDrop)
  BY <1>4 DEF Worker, Top, Check, Reset, SameCursor, CursorError, Snapshot, Sleep
<1>5. CASE DropServer \/ ChangeCursor \/ UNCHANGED vars
  BY <1>5 DEF DropServer, Deactivate, ChangeCursor, vars
<1> QED
  BY <1>1, <1>2, <1>3, <1>4, <1>5 DEF Next, Terminated

\* Once remove_connection ran for an id, no message reaches it.
THEOREM NothingAfterRemovalTheorem == Spec => NothingAfterRemoval
<1>1. Init => GoneIsForgotten
  BY DEF Init, InnerInit, GoneIsForgotten, Subscribed
<1>2. ASSUME TypeOK, SnapshotInv, GoneIsForgotten, [Next]_vars
      PROVE  [\A c \in Conns : conn[c] = "gone" => last'[c] = last[c] /\ ~Subscribed(c)']_vars
  <2>1. GoneIsForgotten' /\ \A c \in Conns : conn[c] = "gone" => last'[c] = last[c]
    BY <1>2, GoneStep
  <2>2. \A c \in Conns : conn[c] = "gone" => conn'[c] = "gone"
    BY <1>2 DEF Next, Connection, Serve, AddConnection, AddConnectionWithout, Call,
                IsSubed, IsSubedNew, Answer, Update, RemoveConnection, DropServer,
                ChangeCursor, Worker, Top, Check, Reset, SameCursor, SendCursor,
                CursorError, Snapshot, SwapSend, SwapDrop, Sleep, Terminated,
                TypeOK, Calls, InCall, connVars, vars
  <2> QED
    BY <2>1, <2>2 DEF GoneIsForgotten
<1> QED
  BY <1>1, <1>2, GoneStep, TypeCorrect, SnapshotCorrect, PTL
     DEF Spec, NothingAfterRemoval

-----------------------------------------------------------------------------
(* A connection between the two reads of is_subed was not in subscribes,   *)
(* and only a swap can have moved it there since: its own calls are done   *)
(* one after the other, and nobody else subscribes for it.                 *)

MovedIsMissed ==
    \A c \in Conns : conn[c] = "is_subed_new" /\ c \in subscribes => c \in missed

LEMMA MovedStep ==
    ASSUME TypeOK, MovedIsMissed, [Next]_vars
    PROVE  MovedIsMissed'
<1> USE DEF TypeOK, InnerTypeOK, Calls, InCall, innerVars, threadVars, connVars,
        ghostVars, MovedIsMissed
<1>1. ASSUME NEW d \in Conns, Connection(d)
      PROVE  MovedIsMissed'
  <2>1. CASE AddConnection(d) \/ AddConnectionWithout(d)
    BY <2>1 DEF AddConnection, AddConnectionWithout, OnSubscribe, NoteSubscribe
  <2>2. CASE \E sub \in BOOLEAN : Call(d, sub)
    BY <2>2 DEF Call
  <2>3. CASE IsSubed(d)
    BY <2>3 DEF IsSubed, Answer
  <2>4. CASE IsSubedNew(d)
    BY <2>4 DEF IsSubedNew, Answer
  <2>5. CASE Update(d)
    BY <2>5 DEF Update, OnSubscribe, OnUnsubscribe, NoteSubscribe, NoteUnsubscribe
  <2>6. CASE RemoveConnection(d)
    BY <2>6 DEF RemoveConnection, OnUnsubscribe, NoteUnsubscribe
  <2> QED
    BY <1>1, <2>1, <2>2, <2>3, <2>4, <2>5, <2>6 DEF Connection, Serve
<1>2. CASE SwapDrop
  BY <1>2 DEF SwapDrop, SwapNewSubscribes
<1>3. CASE Worker /\ ~SwapDrop
  BY <1>3 DEF Worker, Top, Check, Reset, SameCursor, SendCursor, CursorError, Snapshot,
              SwapSend, Deliver, Sleep
<1>4. CASE DropServer \/ ChangeCursor \/ UNCHANGED vars
  BY <1>4 DEF DropServer, Deactivate, ChangeCursor, vars
<1> QED
  BY <1>1, <1>2, <1>3, <1>4 DEF Next, Terminated

\* Server::subscribe returns with the connection subscribed as asked, or a call
\* to unsubscribe was overtaken by a swap.
THEOREM CallTheorem == Spec => CallTakesEffect
<1> DEFINE Effect(c) == Subscribed(c)' = want[c] \/ (~want[c] /\ c \in missed)
<1>1. Init => MovedIsMissed
  BY DEF Init, InnerInit, MovedIsMissed
<1>2. ASSUME TypeOK, SnapshotInv, MovedIsMissed, [Next]_vars, NEW c \in Conns, Returns(c)
      PROVE  Effect(c)
  <2> USE <1>2 DEF TypeOK, InnerTypeOK, innerVars, threadVars, Subscribed, Returns
  <2>1. IsSubed(c) \/ IsSubedNew(c) \/ Update(c)
    <3>1. conn' # conn
      BY DEF InCall
    <3>2. PICK d \in Conns : Connection(d)
      BY <3>1 DEF Next, vars, connVars, DropServer, ChangeCursor, Worker, Top, Check, Reset,
                  SameCursor, SendCursor, CursorError, Snapshot, SwapSend, SwapDrop, Sleep,
                  Terminated
    <3>3. conn[d] # conn'[d] /\ d = c
      BY <3>1, <3>2 DEF Connection, Serve, AddConnection, AddConnectionWithout, Call, IsSubed,
                  IsSubedNew, Answer, Update, RemoveConnection, Calls, InCall
    <3> QED
      BY <3>2, <3>3 DEF Connection, Serve, AddConnection, AddConnectionWithout, Call,
                  RemoveConnection, InCall
  <2>2. CASE IsSubed(c)
    BY <2>2 DEF IsSubed, Answer, Calls
  <2>3. CASE IsSubedNew(c)
    BY <2>3 DEF IsSubedNew, Answer, Calls, MovedIsMissed
  <2>4. CASE Update(c)
    <3>1. CASE want[c]
      BY <2>4, <3>1, CursorAssumption DEF Update, OnSubscribe
    <3>2. CASE ~want[c]
      BY <2>4, <3>2 DEF Update, OnUnsubscribe, SnapshotInv, Disjoint
    <3> QED
      BY <3>1, <3>2
  <2> QED
    BY <2>1, <2>2, <2>3, <2>4
<1>3. ASSUME TypeOK, SnapshotInv, MovedIsMissed, [Next]_vars
      PROVE  [\A c \in Conns : Returns(c) =>
                   \/ Subscribed(c)' = want[c]
                   \/ ~want[c] /\ c \in missed]_vars
  BY <1>2, <1>3
<1> HIDE DEF Effect
<1> QED
  BY <1>1, <1>3, MovedStep, TypeCorrect, SnapshotCorrect, PTL DEF Spec, CallTakesEffect
=============================================================================
