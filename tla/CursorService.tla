---------------------------- MODULE CursorService ----------------------------
(***************************************************************************)
(* The mouse cursor service: a service whose thread is ServiceTmpl::repeat *)
(* around run_cursor (server/input_service.rs), the connections that       *)
(* subscribe to it through Server::subscribe, add_connection and           *)
(* remove_connection (server.rs), and the drop of the Server.              *)
(*                                                                         *)
(* Connections run in their own tasks and go through the server's write    *)
(* lock; the service thread takes only the service's lock, so it runs      *)
(* between any two sections of a connection's call.  Two history           *)
(* variables: `late', the ids that registered between the snapshot's       *)
(* message and the swap that follows it, and that got no message since;    *)
(* `missed', the ids a swap moved between the two reads of is_subed.       *)
(*                                                                         *)
(* A definition whose name starts with Bug_ is no part of the model: it is *)
(* the definition that follows it with a plausible mistake, kept to show   *)
(* which property finds that mistake.                                      *)
(***************************************************************************)
EXTENDS ServiceInner

CONSTANTS Cursors,       \* handles of the cursors the OS shows
          NoCursor,      \* StateCursor::default(): hcursor 0, an empty message
          Nobody         \* the server's lock is free

\* new_cursor creates the service with need_snapshot.
ASSUME CursorAssumption == /\ NeedSnapshot
                           /\ NoCursor \notin Cursors
                           /\ Nobody \notin Conns

VARIABLES cursor,        \* the cursor the OS shows, None as NoCursor
          hcursor,       \* StateCursor: the cursor of the last message
          may_reset,     \* local of repeat: init was called and reset was not
          worker,        \* where the service thread is
          conn,          \* per connection: where its call to the server is
          want,          \* per connection: `sub' of the call in progress
          server,        \* who holds the server's write lock
          alive,         \* FALSE once the last reference to the Server is gone
          last,          \* per connection: the last cursor message delivered
          late, missed   \* history, see above

threadVars == <<cursor, hcursor, may_reset, worker>>
connVars == <<conn, want, server, alive>>
ghostVars == <<last, late, missed>>
vars == <<innerVars, threadVars, connVars, ghostVars>>

CursorOrNone == Cursors \cup {NoCursor}

Workers == {"top", "check", "reset", "run", "snapshot", "swap_send",
            "swap_drop", "sleep", "exited"}
Calls == {"new", "idle", "is_subed", "is_subed_new", "update", "gone"}

InCall == {"is_subed", "is_subed_new", "update"}

TypeOK == /\ InnerTypeOK
          /\ cursor \in CursorOrNone
          /\ hcursor \in CursorOrNone
          /\ may_reset \in BOOLEAN
          /\ worker \in Workers
          /\ conn \in [Conns -> Calls]
          /\ want \in [Conns -> BOOLEAN]
          /\ server \in Conns \cup {Nobody}
          /\ alive \in BOOLEAN
          /\ last \in [Conns -> CursorOrNone]
          /\ late \subseteq Conns
          /\ missed \subseteq Conns
          /\ \A c \in Conns : conn[c] \in InCall <=> server = c

Init == /\ InnerInit
        /\ cursor \in CursorOrNone
        /\ hcursor = NoCursor
        /\ may_reset = FALSE
        /\ worker = "top"
        /\ conn = [c \in Conns |-> "new"]
        /\ want = [c \in Conns |-> FALSE]
        /\ server = Nobody
        /\ alive = TRUE
        /\ last = [c \in Conns |-> NoCursor]
        /\ late = {}
        /\ missed = {}

\* Subscriber::send to every id of S: the message that shows cursor h.
Deliver(S, h) == /\ last' = [c \in Conns |-> IF c \in S THEN h ELSE last[c]]
                 /\ late' = late \ S
                 /\ UNCHANGED missed

-----------------------------------------------------------------------------
(* Connections.                                                            *)

\* What registering and leaving do to the history.
NoteSubscribe(c) ==
    /\ late' = IF c \notin subscribes \cup new_subscribes /\ worker = "swap_drop"
               THEN late \cup {c} ELSE late
    /\ UNCHANGED <<last, missed>>

NoteUnsubscribe(c) == late' = late \ {c} /\ UNCHANGED <<last, missed>>

\* add_connection: the service is not among the connection's noperms.
AddConnection(c) ==
    /\ conn[c] = "new" /\ alive /\ server = Nobody
    /\ OnSubscribe(c)
    /\ NoteSubscribe(c)
    /\ conn' = [conn EXCEPT ![c] = "idle"]
    /\ UNCHANGED <<threadVars, want, server, alive>>

\* add_connection with the service among noperms.
AddConnectionWithout(c) ==
    /\ conn[c] = "new" /\ alive /\ server = Nobody
    /\ conn' = [conn EXCEPT ![c] = "idle"]
    /\ UNCHANGED <<innerVars, threadVars, want, server, alive, ghostVars>>

\* Server::subscribe(name, conn, sub): the server's write lock is taken.
Call(c, sub) ==
    /\ conn[c] = "idle" /\ alive /\ server = Nobody
    /\ server' = c
    /\ want' = [want EXCEPT ![c] = sub]
    /\ conn' = [conn EXCEPT ![c] = "is_subed"]
    /\ missed' = missed \ {c}
    /\ UNCHANGED <<innerVars, threadVars, alive, last, late>>

\* is_subed(c) turned out to be r: return when that is what is wanted.
Answer(c, r) ==
    IF want[c] = r
    THEN conn' = [conn EXCEPT ![c] = "idle"] /\ server' = Nobody
    ELSE conn' = [conn EXCEPT ![c] = "update"] /\ UNCHANGED server

\* is_subed, the first read guard; the left operand's guard is dropped
\* before the right operand takes its own.
IsSubed(c) ==
    /\ conn[c] = "is_subed"
    /\ IF c \in subscribes
       THEN Answer(c, TRUE)
       ELSE /\ conn' = [conn EXCEPT ![c] = "is_subed_new"]
            /\ UNCHANGED server
    /\ UNCHANGED <<innerVars, threadVars, want, alive, ghostVars>>

Bug_IsSubedOnlyOldOnes(c) ==
    /\ conn[c] = "is_subed_new"
    /\ Answer(c, FALSE)
    /\ UNCHANGED <<innerVars, threadVars, want, alive, ghostVars>>

\* is_subed, the second read guard.
IsSubedNew(c) ==
    /\ conn[c] = "is_subed_new"
    /\ Answer(c, c \in new_subscribes)
    /\ UNCHANGED <<innerVars, threadVars, want, alive, ghostVars>>

\* on_subscribe or on_unsubscribe, then the server's lock is released.
Update(c) ==
    /\ conn[c] = "update"
    /\ IF want[c] THEN OnSubscribe(c) /\ NoteSubscribe(c)
                  ELSE OnUnsubscribe(c) /\ NoteUnsubscribe(c)
    /\ conn' = [conn EXCEPT ![c] = "idle"]
    /\ server' = Nobody
    /\ UNCHANGED <<threadVars, want, alive>>

\* remove_connection, after the connection's loop.  The id is never reused.
RemoveConnection(c) ==
    /\ conn[c] \in {"new", "idle"} /\ alive /\ server = Nobody
    /\ OnUnsubscribe(c)
    /\ NoteUnsubscribe(c)
    /\ conn' = [conn EXCEPT ![c] = "gone"]
    /\ UNCHANGED <<threadVars, want, server, alive>>

\* Drop for Server, then join: connections hold only a Weak reference, so
\* they are unaffected, and find the server gone at their next upgrade().
DropServer ==
    /\ alive /\ server = Nobody
    /\ alive' = FALSE
    /\ Deactivate
    /\ UNCHANGED <<threadVars, conn, want, server, ghostVars>>

-----------------------------------------------------------------------------
(* The service thread.                                                     *)

ChangeCursor ==
    /\ \E h \in CursorOrNone \ {cursor} : cursor' = h
    /\ UNCHANGED <<innerVars, hcursor, may_reset, worker, connVars, ghostVars>>

Bug_TopIgnoresJoin ==
    /\ worker = "top"
    /\ worker' = "check"
    /\ UNCHANGED <<innerVars, cursor, hcursor, may_reset, connVars, ghostVars>>

\* while sp.active()
Top == /\ worker = "top"
       /\ worker' = IF active THEN "check" ELSE "exited"
       /\ UNCHANGED <<innerVars, cursor, hcursor, may_reset, connVars, ghostVars>>

Bug_CheckOnlyOldOnes ==
    /\ worker = "check"
    /\ may_reset' = (may_reset \/ subscribes # {})
    /\ worker' = IF subscribes # {} THEN "run"
                 ELSE IF may_reset THEN "reset" ELSE "sleep"
    /\ UNCHANGED <<innerVars, cursor, hcursor, connVars, ghostVars>>

Bug_CheckForgetsReset ==
    /\ worker = "check"
    /\ worker' = IF HasSubscribes THEN "run" ELSE "sleep"
    /\ UNCHANGED <<innerVars, cursor, hcursor, may_reset, connVars, ghostVars>>

\* if sp.has_subscribes(); init() is the default, which does nothing.
Check == /\ worker = "check"
         /\ may_reset' = (may_reset \/ HasSubscribes)
         /\ worker' = IF HasSubscribes THEN "run"
                      ELSE IF may_reset THEN "reset" ELSE "sleep"
         /\ UNCHANGED <<innerVars, cursor, hcursor, connVars, ghostVars>>

\* state.reset(), outside the lock.
Reset == /\ worker = "reset"
         /\ hcursor' = NoCursor
         /\ may_reset' = FALSE
         /\ worker' = "sleep"
         /\ UNCHANGED <<innerVars, cursor, connVars, ghostVars>>

\* run_cursor sees no cursor, or the one it knows.
SameCursor ==
    /\ worker = "run"
    /\ cursor \in {NoCursor, hcursor}
    /\ worker' = "snapshot"
    /\ UNCHANGED <<innerVars, cursor, hcursor, may_reset, connVars, ghostVars>>

\* run_cursor sees another cursor: send_shared under the write lock.
SendCursor ==
    /\ worker = "run"
    /\ cursor \notin {NoCursor, hcursor}
    /\ hcursor' = cursor
    /\ Deliver(subscribes, cursor)
    /\ worker' = "snapshot"
    /\ UNCHANGED <<innerVars, cursor, may_reset, connVars>>

Bug_CursorErrorAfterUpdate ==
    /\ worker = "run"
    /\ worker' = "sleep"
    /\ hcursor' = cursor
    /\ UNCHANGED <<innerVars, cursor, may_reset, connVars, ghostVars>>

\* get_cursor()? or get_cursor_data()? fails: the iteration ends there.
CursorError ==
    /\ worker = "run"
    /\ worker' = "sleep"
    /\ UNCHANGED <<innerVars, cursor, hcursor, may_reset, connVars, ghostVars>>

\* snapshot: the read of new_subscribes.len().
Snapshot ==
    /\ worker = "snapshot"
    /\ worker' = IF SnapshotDue THEN "swap_send" ELSE "sleep"
    /\ UNCHANGED <<innerVars, cursor, hcursor, may_reset, connVars, ghostVars>>

Bug_SwapSendToOldOnes ==
    /\ worker = "swap_send"
    /\ Deliver(subscribes, hcursor)
    /\ worker' = "swap_drop"
    /\ UNCHANGED <<innerVars, cursor, hcursor, may_reset, connVars>>

\* sps.send_shared(state.cursor_data)
SwapSend == /\ worker = "swap_send"
            /\ Deliver(new_subscribes, hcursor)
            /\ worker' = "swap_drop"
            /\ UNCHANGED <<innerVars, cursor, hcursor, may_reset, connVars>>

\* Drop for ServiceSwap.
SwapDrop == /\ worker = "swap_drop"
            /\ SwapNewSubscribes
            /\ worker' = "sleep"
            /\ missed' = missed \cup
                  {c \in new_subscribes : conn[c] = "is_subed_new"}
            /\ UNCHANGED <<cursor, hcursor, may_reset, connVars, last, late>>

\* The interval has passed, or the pause after an error.
Sleep == /\ worker = "sleep"
         /\ worker' = "top"
         /\ UNCHANGED <<innerVars, cursor, hcursor, may_reset, connVars, ghostVars>>

\* Nothing is left to do once the server is dropped and its thread joined.
Terminated == /\ worker = "exited"
              /\ ~alive
              /\ UNCHANGED vars

Worker == \/ Top \/ Check \/ Reset \/ SameCursor \/ SendCursor \/ CursorError
          \/ Snapshot \/ SwapSend \/ SwapDrop \/ Sleep

Serve(c) == IsSubed(c) \/ IsSubedNew(c) \/ Update(c)

Connection(c) == \/ AddConnection(c)
                 \/ AddConnectionWithout(c)
                 \/ \E sub \in BOOLEAN : Call(c, sub)
                 \/ Serve(c)
                 \/ RemoveConnection(c)

Next == \/ \E c \in Conns : Connection(c)
        \/ DropServer
        \/ ChangeCursor
        \/ Worker
        \/ Terminated

Spec == Init /\ [][Next]_vars

\* The thread runs, a call that started is finished, and reading the cursor
\* does not fail for ever.
Fairness == /\ WF_vars(Worker)
            /\ SF_vars(SameCursor \/ SendCursor)
            /\ \A c \in Conns : WF_vars(Serve(c))

FairSpec == Spec /\ Fairness

-----------------------------------------------------------------------------
(* Properties.                                                             *)

Subscribed(c) == c \in subscribes \cup new_subscribes

\* An id waits for a snapshot or gets the messages, never both: on_unsubscribe
\* looks into new_subscribes only when subscribes did not hold the id, so an
\* id in both would go on receiving after it left.
Disjoint == subscribes \cap new_subscribes = {}

\* Whoever gets the messages has seen the cursor run_cursor last sent, and so
\* has whoever the pending swap is about to move over, except the ids that
\* came between a snapshot's message and its swap and nothing was sent since.
Informed ==
    \A c \in subscribes \ late : last[c] = hcursor

\* Once remove_connection ran for an id, no message is delivered to it, however
\* far the service thread was in a snapshot.
NothingAfterRemoval ==
    [][\A c \in Conns : conn[c] = "gone" => last'[c] = last[c] /\ ~Subscribed(c)']_vars

\* When Server::subscribe returns, the connection is subscribed exactly as asked,
\* unless a swap moved it between the two reads of is_subed, in which case
\* the call to unsubscribe is lost; the call to subscribe never is.
Returns(c) == conn[c] \in InCall /\ conn'[c] = "idle"
CallTakesEffect ==
    [][\A c \in Conns : Returns(c) =>
          \/ Subscribed(c)' = want[c]
          \/ ~want[c] /\ c \in missed]_vars

\* A subscriber that stays is moved over by a snapshot of the thread, as long
\* as the service is not joined.
SnapshotIsTaken ==
    \A c \in Conns : c \in new_subscribes ~> (c \notin new_subscribes \/ ~active)

\* A subscriber that stays while the cursor rests ends up with that cursor, if
\* it is not one of the ids that missed a snapshot.
CatchesUp ==
    \A c \in Conns, h \in Cursors :
        <>[](active /\ Subscribed(c) /\ cursor = h) => <>[](last[c] = h \/ c \in late)

\* join() returns: the thread ends after the server is dropped.
JoinReturns == ~active ~> worker = "exited"

\* When the last subscriber is gone for good, reset() runs, which releases the
\* keys held down, and the state of the idle service is the initial one.
ResetWhenIdle ==
    <>[](active /\ ~HasSubscribes) => <>[](hcursor = NoCursor /\ ~may_reset)
=============================================================================
