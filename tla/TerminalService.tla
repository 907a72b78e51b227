--------------------------- MODULE TerminalService ---------------------------
(***************************************************************************)
(* Remote terminals (server/terminal_service.rs): the registry of services *)
(* that outlive connections, the shells of a service with the threads that *)
(* read them, the connections that log in to a service, open, close and    *)
(* read its terminals, and the thread that removes idle services.          *)
(*                                                                         *)
(* Services are objects: the registry maps an id to one, and a connection  *)
(* in the middle of a call may hold one the registry no longer has.  All   *)
(* are made by logins and none is persistent.  Output is counted, input    *)
(* only renews the service's activity, and stopping a shell is one step:   *)
(* it is assumed not to be stuck with unread input.                        *)
(*                                                                         *)
(* The machine runs Windows, where a shell is a process with pipes, or a   *)
(* system where it has a PTY (piped): the two differ in who writes to the  *)
(* channel of a shell, and in what counts as a dead one.                   *)
(*                                                                         *)
(* Bug_ definitions are the definition that follows them with a mistake.   *)
(***************************************************************************)
EXTENDS Naturals, FiniteSets

CONSTANTS Conns,        \* connections of terminal peers
          Ids,          \* service ids
          Tids,         \* terminal ids
          Free,         \* nobody holds the lock of a session
          MAX_SERVICES,
          CHANNEL_BUFFER_SIZE,
          MaxServices,  \* bound: services made
          MaxShells     \* bound: shells started

ASSUME TerminalAssumption ==
    /\ IsFiniteSet(Ids) /\ Ids # {} /\ Tids # {} /\ Free \notin Conns
    /\ MAX_SERVICES \in Nat /\ CHANNEL_BUFFER_SIZE \in Nat \ {0}
    /\ MaxServices \in Nat /\ MaxShells \in Nat

Services == 1..MaxServices
Shells == 1..MaxShells

VARIABLES registry,   \* TERMINAL_SERVICES: the service of an id, or 0
          made,       \* number of services made
          idle,       \* services without an action for an hour
          needs_session_sync,
          sessions,   \* of each service: the shell of a terminal, or 0
          started,    \* number of shells started
          child,      \* "running", "exited", or "taken" by the reaper
          finished,   \* shells whose reader thread has ended
          channel,    \* pieces of output in a shell's channel
          is_opened,
          closed_message_sent,
          lock        \* who holds a shell's session

VARIABLES conn,       \* "off", "login" until authorized, then "on"
          id,         \* terminal_service_id
          pc,         \* what the connection is doing
          hold,       \* the service it has from the registry
          arg,        \* the terminal it opens or closes, or is reading
          todo,       \* terminals it has still to look at, with their shells
          closed_terminals,
          doomed,     \* ids the cleanup thread has found idle
          piped       \* the machine runs Windows: shells have pipes, not a PTY

\* What the peers see, and whether a connection has had its service alone.
VARIABLES knows,      \* terminals it was told are open
          named,      \* terminals it was told to restore
          alone

serviceVars == <<registry, made, idle, needs_session_sync, sessions>>
shellVars == <<started, child, finished, channel, is_opened, closed_message_sent, lock>>
callVars == <<pc, hold, arg, todo, closed_terminals>>
peerVars == <<knows, named, alone>>
vars == <<serviceVars, shellVars, conn, id, callVars, doomed, piped, peerVars>>

TypeOK ==
    /\ registry \in [Ids -> 0..made] /\ made \in 0..MaxServices
    /\ idle \subseteq Services /\ needs_session_sync \subseteq Services
    /\ sessions \in [Services -> [Tids -> 0..started]] /\ started \in 0..MaxShells
    /\ child \in [Shells -> {"running", "exited", "taken"}]
    /\ finished \subseteq Shells /\ is_opened \subseteq Shells
    /\ closed_message_sent \subseteq finished
    /\ channel \in [Shells -> 0..CHANNEL_BUFFER_SIZE]
    /\ lock \in [Shells -> Conns \cup {Free}]
    /\ conn \in [Conns -> {"off", "login", "on"}] /\ id \in [Conns -> Ids]
    /\ pc \in [Conns -> {"idle", "open", "read", "scan", "drain"}]
    /\ hold \in [Conns -> 0..made] /\ arg \in [Conns -> Tids]
    /\ todo \in [Conns -> SUBSET (Tids \X Shells)]
    /\ closed_terminals \in [Conns -> SUBSET Tids] /\ doomed \subseteq Ids
    /\ knows \in [Conns -> SUBSET Tids] /\ named \in [Conns -> SUBSET Tids]
    /\ alone \subseteq Conns /\ piped \in BOOLEAN
    /\ Cardinality({i \in Ids : registry[i] # 0}) <= MAX_SERVICES
    /\ \A c \in Conns : pc[c] # "idle" => conn[c] = "on"
    /\ \A s \in Shells : lock[s] # Free => pc[lock[s]] = "drain"
    /\ \A s \in 1..started : child[s] = "taken" => s \in finished \ is_opened

AnyTid == CHOOSE t \in Tids : TRUE

Init ==
    /\ registry = [i \in Ids |-> 0] /\ made = 0 /\ idle = {} /\ needs_session_sync = {}
    /\ sessions = [v \in Services |-> [t \in Tids |-> 0]]
    /\ started = 0 /\ child = [s \in Shells |-> "taken"] /\ finished = {}
    /\ channel = [s \in Shells |-> 0] /\ is_opened = {} /\ closed_message_sent = {}
    /\ lock = [s \in Shells |-> Free]
    /\ conn = [c \in Conns |-> "off"] /\ id = [c \in Conns |-> CHOOSE i \in Ids : TRUE]
    /\ pc = [c \in Conns |-> "idle"] /\ hold = [c \in Conns |-> 0]
    /\ arg = [c \in Conns |-> AnyTid]
    /\ todo = [c \in Conns |-> {}] /\ closed_terminals = [c \in Conns |-> {}]
    /\ doomed = {} /\ piped \in BOOLEAN
    /\ knows = [c \in Conns |-> {}] /\ named = [c \in Conns |-> {}] /\ alone = {}

ShellsOf(v) == {sessions[v][t] : t \in Tids} \ {0}
TerminalsOf(v) == {t \in Tids : sessions[v][t] # 0}

-----------------------------------------------------------------------------
(* Logins, before and after the password.                                  *)

\* reset_status: the peer is to hear of the service's terminals, and to open
\* those it wants, before their output is read.
Reset(v) ==
    /\ is_opened' = is_opened \ ShellsOf(v)
    /\ needs_session_sync' = needs_session_sync \cup {v}

\* The ghost part of a login to i: nobody has the service alone from then on.
Others(c, i) == {d \in Conns \ {c} : conn[d] # "off" /\ id[d] = i}
Joins(c, i) ==
    /\ conn' = [conn EXCEPT ![c] = "login"] /\ id' = [id EXCEPT ![c] = i]
    /\ knows' = [knows EXCEPT ![c] = {}] /\ named' = [named EXCEPT ![c] = {}]
    /\ alone' = IF Others(c, i) = {} THEN alone \cup {c} ELSE alone \ ({c} \cup Others(c, i))

\* get_or_create_service, while answering the login request.
LoginToOld(c, i) ==
    /\ conn[c] = "off" /\ registry[i] # 0
    /\ \A s \in ShellsOf(registry[i]) : lock[s] = Free
    /\ Reset(registry[i]) /\ Joins(c, i)
    /\ UNCHANGED <<registry, made, idle, sessions, started, child, finished, channel,
                   closed_message_sent, lock, callVars, doomed, piped>>
LoginToNew(c, i) ==
    /\ conn[c] = "off" /\ registry[i] = 0 /\ made < MaxServices
    /\ Cardinality({j \in Ids : registry[j] # 0}) < MAX_SERVICES
    /\ made' = made + 1 /\ registry' = [registry EXCEPT ![i] = made + 1]
    /\ Reset(made + 1) /\ Joins(c, i)
    /\ UNCHANGED <<idle, sessions, started, child, finished, channel, closed_message_sent, lock,
                   callVars, doomed, piped>>

Authorize(c) ==
    /\ conn[c] = "login" /\ conn' = [conn EXCEPT ![c] = "on"]
    /\ UNCHANGED <<serviceVars, shellVars, id, callVars, doomed, piped, peerVars>>

\* Nothing is told to the service: its shells go on.
Disconnect(c) ==
    /\ conn[c] # "off" /\ pc[c] = "idle" /\ conn' = [conn EXCEPT ![c] = "off"]
    /\ UNCHANGED <<serviceVars, shellVars, id, callVars, doomed, piped, peerVars>>

-----------------------------------------------------------------------------
(* The peer's actions: handle_action, after which the outputs are read.    *)

Goes(c, place) == pc' = [pc EXCEPT ![c] = place]

\* Without the service the peer gets an error.  Data and sizes only renew the
\* activity here.
Touch(c) ==
    /\ conn[c] = "on" /\ pc[c] = "idle" /\ registry[id[c]] \in idle
    /\ idle' = idle \ {registry[id[c]]} /\ Goes(c, "read")
    /\ UNCHANGED <<registry, made, needs_session_sync, sessions, shellVars, conn, id, hold, arg,
                   todo, closed_terminals, doomed, piped, peerVars>>

\* The service is taken from the registry, and locked to open the terminal in it
\* a moment later.
Open(c, t) ==
    /\ conn[c] = "on" /\ pc[c] = "idle" /\ registry[id[c]] # 0
    /\ Goes(c, "open")
    /\ hold' = [hold EXCEPT ![c] = registry[id[c]]] /\ arg' = [arg EXCEPT ![c] = t]
    /\ idle' = idle \ {registry[id[c]]}
    /\ UNCHANGED <<registry, made, needs_session_sync, sessions, shellVars, conn, id, todo,
                   closed_terminals, doomed, piped, peerVars>>

\* A dropped session stops its shell, which is killed or hung up on, and joins
\* its threads.  (A little later if another connection is looking at it.)
Bug_Stop(dropped) ==
    /\ child' = [s \in Shells |-> IF s \in dropped THEN "taken" ELSE child[s]]
    /\ finished' = finished \cup dropped
    /\ channel' = [s \in Shells |-> IF s \in dropped THEN 0 ELSE channel[s]]
    /\ UNCHANGED <<started, is_opened, closed_message_sent, lock>>
Stop(dropped) ==
    /\ child' = [s \in Shells |-> IF s \in dropped THEN "taken" ELSE child[s]]
    /\ finished' = finished \cup dropped
    /\ channel' = [s \in Shells |-> IF s \in dropped THEN 0 ELSE channel[s]]
    /\ is_opened' = is_opened \ dropped
    /\ UNCHANGED <<started, closed_message_sent, lock>>

\* The answer names the other terminals, once after a login.
Opened(c, t, v, others) ==
    /\ knows' = [knows EXCEPT ![c] = @ \cup {t}]
    /\ named' = [named EXCEPT ![c] = IF v \in needs_session_sync THEN others ELSE @]
    /\ needs_session_sync' = needs_session_sync \ {v}
    /\ UNCHANGED alone

\* With pipes the session never has a child to look at.
Dead(s) == piped \/ child[s] = "taken" \/ s \in closed_message_sent

OpenOld(c) ==
    LET v == hold[c]
        t == arg[c]
        s == sessions[v][t]
    IN  /\ pc[c] = "open" /\ s # 0 /\ lock[s] = Free /\ ~Dead(s)
        /\ is_opened' = is_opened \cup {s}
        /\ Opened(c, t, v, TerminalsOf(v) \ {t})
        /\ Goes(c, "read")
        /\ UNCHANGED <<registry, made, idle, sessions, started, child, finished, channel,
                       closed_message_sent, lock, conn, id, hold, arg, todo, closed_terminals,
                       doomed, piped>>

\* A new shell, in the place of a dead one if there is one, which is stopped: the
\* reader of one with pipes may still be at work.
Vacant(c) ==
    LET s == sessions[hold[c]][arg[c]] IN s # 0 => lock[s] = Free /\ Dead(s)
OpenNew(c) ==
    LET v == hold[c]
        t == arg[c]
        s == started + 1
    IN  /\ pc[c] = "open" /\ Vacant(c) /\ started < MaxShells /\ registry[id[c]] = v
        /\ started' = s
        /\ child' = [x \in Shells |-> IF x = s THEN "running"
                                      ELSE IF x = sessions[v][t] THEN "taken" ELSE child[x]]
        /\ finished' = finished \cup ({sessions[v][t]} \ {0})
        /\ channel' = [x \in Shells |-> IF x = sessions[v][t] THEN 0 ELSE channel[x]]
        /\ is_opened' = (is_opened \ {sessions[v][t]}) \cup {s}
        /\ sessions' = [sessions EXCEPT ![v][t] = s]
        /\ Opened(c, t, v, TerminalsOf(v) \ {t})
        /\ Goes(c, "read")
        /\ UNCHANGED <<registry, made, idle, closed_message_sent, lock, conn, id, hold, arg,
                       todo, closed_terminals, doomed, piped>>

\* The service was removed meanwhile: the peer is told that the terminal is
\* open, and the shell ends with the last reference to the service.
OpenInVain(c) ==
    /\ pc[c] = "open" /\ Vacant(c) /\ registry[id[c]] # hold[c]
    /\ Opened(c, arg[c], hold[c], TerminalsOf(hold[c]) \ {arg[c]})
    /\ Goes(c, "read")
    /\ UNCHANGED <<registry, made, idle, sessions, shellVars, conn, id, hold, arg, todo,
                   closed_terminals, doomed, piped>>

\* The shell cannot be started; a dead one is gone nevertheless.
OpenFails(c) ==
    /\ pc[c] = "open" /\ Vacant(c)
    /\ Stop({sessions[hold[c]][arg[c]]} \ {0})
    /\ sessions' = [sessions EXCEPT ![hold[c]][arg[c]] = 0]
    /\ Goes(c, "read")
    /\ UNCHANGED <<registry, made, idle, needs_session_sync, conn, id, hold, arg, todo,
                   closed_terminals, doomed, piped, peerVars>>

\* handle_close; in a service removed meanwhile it would find nothing to kill.
Close(c, t) ==
    LET v == registry[id[c]]
        s == sessions[v][t]
    IN  /\ conn[c] = "on" /\ pc[c] = "idle" /\ v # 0 /\ s # 0 /\ lock[s] = Free
        /\ idle' = idle \ {v}
        /\ sessions' = [sessions EXCEPT ![v][t] = 0]
        /\ Stop({s})
        /\ knows' = [knows EXCEPT ![c] = @ \ {t}]
        /\ Goes(c, "read")
        /\ UNCHANGED <<registry, made, needs_session_sync, conn, id, hold, arg, todo,
                       closed_terminals, doomed, piped, named, alone>>

-----------------------------------------------------------------------------
(* read_outputs, after an action and once a second.                        *)

List(c) ==
    LET v == registry[id[c]]
    IN  /\ conn[c] = "on" /\ pc[c] \in {"idle", "read"}
        /\ IF v = 0 THEN /\ Goes(c, "idle") /\ UNCHANGED todo
                         /\ hold' = [hold EXCEPT ![c] = 0]
           ELSE /\ Goes(c, "scan") /\ hold' = [hold EXCEPT ![c] = v]
                /\ todo' = [todo EXCEPT ![c] = {<<t, sessions[v][t]>> : t \in TerminalsOf(v)}]
        /\ UNCHANGED <<serviceVars, shellVars, conn, id, arg, closed_terminals, doomed, piped,
                       peerVars>>

\* Whether the reader has ended is looked at before the channel is read: all it
\* sent is in the channel then.  A session another thread holds is passed over.
PassOver(c, p) ==
    /\ pc[c] = "scan" /\ p \in todo[c] /\ lock[p[2]] # Free
    /\ todo' = [todo EXCEPT ![c] = @ \ {p}]
    /\ UNCHANGED <<serviceVars, shellVars, conn, id, pc, hold, arg, closed_terminals, doomed,
                   piped, peerVars>>
Bug_LookAtChild(c, p) ==
    LET s == p[2]
        ends == (s \in finished \/ child[s] = "exited") /\ s \notin closed_message_sent
    IN  /\ pc[c] = "scan" /\ p \in todo[c] /\ lock[s] = Free
        /\ closed_message_sent' = IF ends THEN closed_message_sent \cup {s}
                                  ELSE closed_message_sent
        /\ closed_terminals' = [closed_terminals EXCEPT ![c] = IF ends THEN @ \cup {p[1]} ELSE @]
        /\ IF s \in is_opened
           THEN /\ lock' = [lock EXCEPT ![s] = c] /\ arg' = [arg EXCEPT ![c] = p[1]]
                /\ Goes(c, "drain") /\ UNCHANGED todo
           ELSE todo' = [todo EXCEPT ![c] = @ \ {p}] /\ UNCHANGED <<lock, arg, pc>>
        /\ UNCHANGED <<serviceVars, started, child, finished, channel, is_opened, conn, id, hold,
                       doomed, piped, peerVars>>
Bug_LookForgets(c, p) ==
    LET s == p[2]
        ends == s \in finished \ closed_message_sent
    IN  /\ pc[c] = "scan" /\ p \in todo[c] /\ lock[s] = Free
        /\ closed_message_sent' = IF ends THEN closed_message_sent \cup {s}
                                  ELSE closed_message_sent
        /\ closed_terminals' = [closed_terminals EXCEPT ![c] = IF ends /\ s \notin is_opened THEN @ \cup {p[1]}
                                                    ELSE @]
        /\ IF s \in is_opened
           THEN /\ lock' = [lock EXCEPT ![s] = c] /\ arg' = [arg EXCEPT ![c] = p[1]]
                /\ Goes(c, "drain") /\ UNCHANGED todo
           ELSE todo' = [todo EXCEPT ![c] = @ \ {p}] /\ UNCHANGED <<lock, arg, pc>>
        /\ UNCHANGED <<serviceVars, started, child, finished, channel, is_opened, conn, id, hold,
                       doomed, piped, peerVars>>
Look(c, p) ==
    LET s == p[2]
        ends == s \in finished \ closed_message_sent
    IN  /\ pc[c] = "scan" /\ p \in todo[c] /\ lock[s] = Free
        /\ closed_message_sent' = IF ends THEN closed_message_sent \cup {s}
                                  ELSE closed_message_sent
        /\ closed_terminals' = [closed_terminals EXCEPT ![c] = IF ends THEN @ \cup {p[1]} ELSE @]
        /\ IF s \in is_opened
           THEN /\ lock' = [lock EXCEPT ![s] = c] /\ arg' = [arg EXCEPT ![c] = p[1]]
                /\ Goes(c, "drain") /\ UNCHANGED todo
           ELSE todo' = [todo EXCEPT ![c] = @ \ {p}] /\ UNCHANGED <<lock, arg, pc>>
        /\ UNCHANGED <<serviceVars, started, child, finished, channel, is_opened, conn, id, hold,
                       doomed, piped, peerVars>>

\* The channel is emptied and the session let go of.
Drain(c) ==
    /\ pc[c] = "drain" /\ Goes(c, "scan")
    /\ LET p == CHOOSE p \in todo[c] : p[1] = arg[c]
       IN  /\ channel' = [channel EXCEPT ![p[2]] = 0]
           /\ lock' = [lock EXCEPT ![p[2]] = Free]
           /\ todo' = [todo EXCEPT ![c] = @ \ {p}]
    /\ UNCHANGED <<serviceVars, started, child, finished, is_opened, closed_message_sent, conn,
                   id, hold, arg, closed_terminals, doomed, piped, peerVars>>

\* What was found closed is taken out of the service, by its number: it may be
\* another shell by now.
Clean(c, t) ==
    /\ pc[c] = "scan" /\ todo[c] = {} /\ t \in closed_terminals[c]
    /\ LET s == sessions[hold[c]][t]
       IN  (s # 0 => lock[s] = Free) /\ Stop({s} \ {0})
    /\ sessions' = [sessions EXCEPT ![hold[c]][t] = 0]
    /\ knows' = [knows EXCEPT ![c] = @ \ {t}]
    /\ closed_terminals' = [closed_terminals EXCEPT ![c] = @ \ {t}]
    /\ UNCHANGED <<registry, made, idle, needs_session_sync, conn, id, pc, hold, arg, todo,
                   doomed, piped, named, alone>>
ReadDone(c) ==
    /\ pc[c] = "scan" /\ todo[c] = {} /\ closed_terminals[c] = {} /\ Goes(c, "idle")
    /\ hold' = [hold EXCEPT ![c] = 0] /\ arg' = [arg EXCEPT ![c] = AnyTid]
    /\ UNCHANGED <<serviceVars, shellVars, conn, id, todo, closed_terminals, doomed, piped,
                   peerVars>>

-----------------------------------------------------------------------------
(* Shells, and the thread that removes services.                           *)

\* The reader thread takes what the shell prints, also after the shell's end,
\* and drops what the channel has no room for.  With pipes it reads the standard
\* output only; a second thread, which nobody looks at or joins, reads the errors,
\* and typed characters are echoed, until the session is stopped.
Writing == {s \in 1..started : s \notin finished \/ (piped /\ child[s] # "taken")}
Prints(s) ==
    /\ s \in Writing /\ channel[s] < CHANNEL_BUFFER_SIZE
    /\ channel' = [channel EXCEPT ![s] = @ + 1]
    /\ UNCHANGED <<serviceVars, started, child, finished, is_opened, closed_message_sent, lock,
                   conn, id, callVars, doomed, piped, peerVars>>
Exit(s) ==
    /\ child[s] = "running" /\ child' = [child EXCEPT ![s] = "exited"]
    /\ UNCHANGED <<serviceVars, started, finished, channel, is_opened, closed_message_sent, lock,
                   conn, id, callVars, doomed, piped, peerVars>>
ReaderEnds(s) ==
    /\ child[s] = "exited" /\ s \notin finished /\ finished' = finished \cup {s}
    /\ UNCHANGED <<serviceVars, started, child, channel, is_opened, closed_message_sent, lock,
                   conn, id, callVars, doomed, piped, peerVars>>

\* An hour passes without an action; output does not count.
BecomesIdle(v) ==
    /\ v \in {registry[i] : i \in Ids} \ ({0} \cup idle) /\ idle' = idle \cup {v}
    /\ UNCHANGED <<registry, made, needs_session_sync, sessions, shellVars, conn, id, callVars,
                   doomed, piped, peerVars>>

\* cleanup_inactive_services chooses the ids under the lock of the registry, and
\* takes it again to remove each, whatever came in between.
Judge ==
    /\ doomed = {}
    /\ doomed' = {i \in Ids : registry[i] \in idle} /\ doomed' # {}
    /\ UNCHANGED <<serviceVars, shellVars, conn, id, callVars, peerVars, piped>>
RemoveService(i) ==
    /\ i \in doomed /\ doomed' = doomed \ {i}
    /\ LET v == registry[i]
       IN  IF v = 0 THEN UNCHANGED <<registry, idle, shellVars>>
           ELSE /\ \A s \in ShellsOf(v) : lock[s] = Free
                /\ Stop(ShellsOf(v))
                /\ registry' = [registry EXCEPT ![i] = 0] /\ idle' = idle \ {v}
    /\ UNCHANGED <<made, needs_session_sync, sessions, conn, id, callVars, peerVars, piped>>

Works(c) ==
    \/ OpenOld(c) \/ OpenNew(c) \/ OpenInVain(c) \/ OpenFails(c) 
    \/ List(c) \/ Drain(c) \/ ReadDone(c)
    \/ \E p \in todo[c] : PassOver(c, p) \/ Look(c, p)
    \/ \E t \in closed_terminals[c] : Clean(c, t)

Next ==
    \/ \E c \in Conns :
          \/ \E i \in Ids : LoginToOld(c, i) \/ LoginToNew(c, i)
          \/ Authorize(c) \/ Disconnect(c)
          \/ Touch(c) \/ \E t \in Tids : Open(c, t) \/ Close(c, t)
          \/ Works(c)
    \/ \E s \in Shells : Prints(s) \/ Exit(s) \/ ReaderEnds(s)
    \/ \E v \in Services : BecomesIdle(v)
    \/ Judge \/ \E i \in Ids : RemoveService(i)

Spec == Init /\ [][Next]_vars

\* The timers of connections tick and their calls get on.
Fairness == \A c \in Conns : WF_vars(Works(c))
FairSpec == Spec /\ Fairness

-----------------------------------------------------------------------------
\* "Used to restore the persistent sessions" (message.proto, TerminalOpened): a
\* peer that came back alone to its service and has opened a terminal knows all
\* the terminals the service has, by its own opens or by name (needs_session_sync).
Restored ==
    \A c \in alone :
        /\ conn[c] = "on" /\ knows[c] # {} /\ registry[id[c]] # 0
        => TerminalsOf(registry[id[c]]) \subseteq knows[c] \cup named[c]

\* A peer that has its service alone gets what its terminals print, and hears
\* when one has ended, as long as it stays and the service is not removed.  The
\* exception the code has: with pipes, opening a terminal again stops its shell
\* first, and if no other can be started the peer is told nothing.
Stays(c) == conn[c] = "on" /\ c \in alone /\ registry[id[c]] # 0
ShellOf(c, t) == sessions[registry[id[c]]][t]
Gone(c, t) == IF ShellOf(c, t) = 0 THEN ~piped ELSE ShellOf(c, t) \in finished
Unread(c, t) == ShellOf(c, t) # 0 /\ channel[ShellOf(c, t)] > 0
Served ==
    \A c \in Conns, t \in Tids :
        /\ (Stays(c) /\ t \in knows[c] /\ Gone(c, t))
              ~> ~(Stays(c) /\ t \in knows[c] /\ Gone(c, t))
        /\ (Stays(c) /\ t \in knows[c] /\ Unread(c, t))
              ~> ~(Stays(c) /\ t \in knows[c] /\ Unread(c, t))

\* read_outputs tells the peer that a terminal is closed in the end, after
\* looking at all of them.  By then, for a peer that has its service alone, the
\* terminal still has the shell that was found ended, none begun since, and its
\* channel is empty: the peer gets the end after all the output.  The exceptions
\* the code has: a shell that the peer did not open again after its login, whose
\* output is skipped, and what a shell with pipes still writes to its errors.
OutputFirst ==
    \A c \in Conns : Stays(c) =>
        \A t \in closed_terminals[c] :
            LET s == ShellOf(c, t)
            IN  /\ s \in closed_message_sent
                /\ s \in is_opened /\ lock[s] = Free /\ ~piped => channel[s] = 0
=============================================================================
