----------------------- MODULE TerminalServiceProofs -----------------------
(* What holds of TerminalService for any connections, ids and terminals,   *)
(* and any bounds.                                                         *)
EXTENDS TerminalService, FiniteSetTheorems, TLAPS

-----------------------------------------------------------------------------
(* TypeOK in parts.  It is not inductive: Drain frees the shell it finds   *)
(* in `todo', and only if that is the locked one does TypeOK last.         *)

Calls == {"idle", "open", "read", "scan", "drain"}
Registered == {i \in Ids : registry[i] # 0}

ServiceTypes ==
    /\ registry \in [Ids -> 0..made] /\ made \in 0..MaxServices
    /\ idle \subseteq Services /\ needs_session_sync \subseteq Services
    /\ sessions \in [Services -> [Tids -> 0..started]]
ShellTypes ==
    /\ started \in 0..MaxShells
    /\ child \in [Shells -> {"running", "exited", "taken"}]
    /\ finished \subseteq Shells /\ is_opened \subseteq Shells
    /\ closed_message_sent \subseteq finished
    /\ channel \in [Shells -> 0..CHANNEL_BUFFER_SIZE]
    /\ lock \in [Shells -> Conns \cup {Free}]
CallTypes ==
    /\ conn \in [Conns -> {"off", "login", "on"}] /\ id \in [Conns -> Ids]
    /\ pc \in [Conns -> Calls]
    /\ hold \in [Conns -> 0..made] /\ arg \in [Conns -> Tids]
    /\ todo \in [Conns -> SUBSET (Tids \X Shells)]
    /\ closed_terminals \in [Conns -> SUBSET Tids]
PeerTypes ==
    /\ doomed \subseteq Ids
    /\ knows \in [Conns -> SUBSET Tids] /\ named \in [Conns -> SUBSET Tids]
    /\ alone \subseteq Conns /\ piped \in BOOLEAN
Flat == ServiceTypes /\ ShellTypes /\ CallTypes /\ PeerTypes
Few == Cardinality(Registered) <= MAX_SERVICES
Taken == \A s \in 1..started : child[s] = "taken" => s \in finished \ is_opened
Locks ==
    /\ \A c \in Conns : pc[c] # "idle" => conn[c] = "on"
    /\ \A s \in Shells : lock[s] # Free => pc[lock[s]] = "drain"

\* A connection in a call has a service, looks at each terminal once, and holds
\* the lock of the shell it drains and no other.
Holding ==
    /\ \A c \in Conns : pc[c] \in {"open", "scan", "drain"} => hold[c] # 0
    /\ \A c \in Conns : pc[c] = "idle" => hold[c] = 0
    /\ \A c \in Conns : \A p, q \in todo[c] : p[1] = q[1] => p = q
    /\ \A s \in Shells : lock[s] # Free => <<arg[lock[s]], s>> \in todo[lock[s]]
    /\ \A c \in Conns : pc[c] = "drain" => \E s \in Shells : lock[s] = c

LEMMA Parts == TypeOK <=> Flat /\ Few /\ Taken /\ Locks
  BY DEF TypeOK, Flat, ServiceTypes, ShellTypes, CallTypes, PeerTypes, Few, Taken, Locks, Calls, Registered

LEMMA Numbers ==
    ASSUME Flat
    PROVE  /\ made \in Nat /\ started \in Nat /\ MaxServices \in Nat /\ MaxShells \in Nat
           /\ \A v \in 0..made : v # 0 => v \in Services
           /\ \A s \in 0..started : s # 0 => s \in Shells /\ s \in 1..started
  BY TerminalAssumption DEF Flat, ServiceTypes, ShellTypes, Services, Shells

\* The shells of a service are shells.
LEMMA ShellFacts ==
    ASSUME Flat, NEW v \in Services
    PROVE  /\ ShellsOf(v) \subseteq Shells /\ TerminalsOf(v) \subseteq Tids
           /\ \A t \in Tids : /\ sessions[v][t] \in 0..started
                              /\ sessions[v][t] # 0 => sessions[v][t] \in Shells /\ sessions[v][t] \in ShellsOf(v)
  BY Numbers DEF Flat, ServiceTypes, ShellsOf, TerminalsOf

\* Stopping shells keeps their types, and that a reaped shell is not open.
LEMMA StopTypes ==
    ASSUME Flat, Taken, NEW dropped \in SUBSET Shells, Stop(dropped)
    PROVE  /\ child' \in [Shells -> {"running", "exited", "taken"}]
           /\ finished' \subseteq Shells /\ is_opened' \subseteq Shells
           /\ closed_message_sent' \subseteq finished'
           /\ channel' \in [Shells -> 0..CHANNEL_BUFFER_SIZE]
           /\ UNCHANGED <<started, closed_message_sent, lock>>
           /\ Taken'
<1>1. \A s \in 1..started : s \in Shells
  BY TerminalAssumption DEF Flat, ShellTypes, Shells
<1>2. \A s \in Shells : child'[s] = IF s \in dropped THEN "taken" ELSE child[s]
  BY Zenon DEF Stop
<1>3. Taken'
  <2>1. started' = started /\ finished' = finished \cup dropped /\ is_opened' = is_opened \ dropped
    BY DEF Stop
  <2>2. SUFFICES ASSUME NEW s \in 1..started, child'[s] = "taken"
                 PROVE  s \in finished' \ is_opened'
    BY <2>1 DEF Taken
  <2>3. CASE s \in dropped
    BY <2>1, <2>3
  <2>4. CASE s \notin dropped
    BY <1>1, <1>2, <2>1, <2>2, <2>4 DEF Taken
  <2> QED BY <2>3, <2>4
<1>4. channel' \in [Shells -> 0..CHANNEL_BUFFER_SIZE]
  <2>1. 0 \in 0..CHANNEL_BUFFER_SIZE
    BY TerminalAssumption
  <2> QED BY <2>1 DEF Stop, Flat, ShellTypes
<1>5. child' \in [Shells -> {"running", "exited", "taken"}]
  BY DEF Stop, Flat, ShellTypes
<1> QED BY <1>3, <1>4, <1>5 DEF Stop, Flat, ShellTypes

LEMMA FreeNotConn == Free \notin Conns
  BY TerminalAssumption

LEMMA OpenedTypes ==
    ASSUME Flat, NEW c \in Conns, NEW t \in Tids, NEW v, NEW others \in SUBSET Tids,
           Opened(c, t, v, others)
    PROVE  /\ knows' \in [Conns -> SUBSET Tids] /\ named' \in [Conns -> SUBSET Tids]
           /\ alone' = alone
  BY Zenon DEF Opened, Flat, PeerTypes

LEMMA FlatStep ==
    ASSUME Flat, Taken, Holding, [Next]_vars
    PROVE  Flat' /\ Taken'
<1> USE Numbers DEF Flat
<1>1. CASE UNCHANGED vars
  <2>1. ServiceTypes'
    BY <1>1 DEF ServiceTypes, vars, serviceVars, shellVars, callVars, peerVars
  <2>2. ShellTypes'
    BY <1>1 DEF ShellTypes, vars, serviceVars, shellVars, callVars, peerVars
  <2>3. Taken'
    BY <1>1 DEF ShellTypes, Taken, vars, serviceVars, shellVars, callVars, peerVars
  <2>4. CallTypes'
    BY <1>1 DEF CallTypes, vars, serviceVars, shellVars, callVars, peerVars
  <2>5. PeerTypes'
    BY <1>1 DEF PeerTypes, vars, serviceVars, shellVars, callVars, peerVars
  <2> QED BY <2>1, <2>2, <2>3, <2>4, <2>5
<1>2. ASSUME NEW c \in Conns, NEW i \in Ids, LoginToOld(c, i)
      PROVE  Flat' /\ Taken'
  <2>1. ServiceTypes'
    BY <1>2 DEF ServiceTypes, LoginToOld, Reset, Joins, callVars
  <2>2. ShellTypes'
    BY <1>2 DEF ShellTypes, LoginToOld, Reset, Joins, callVars
  <2>3. Taken'
    BY <1>2 DEF ShellTypes, Taken, LoginToOld, Reset, Joins, callVars
  <2>4. CallTypes'
    BY <1>2 DEF CallTypes, LoginToOld, Reset, Joins, callVars
  <2>5. PeerTypes'
    BY <1>2 DEF PeerTypes, LoginToOld, Reset, Joins, callVars
  <2> QED BY <2>1, <2>2, <2>3, <2>4, <2>5
<1>3. ASSUME NEW c \in Conns, NEW i \in Ids, LoginToNew(c, i)
      PROVE  Flat' /\ Taken'
  <2>0. /\ made' = made + 1 /\ made + 1 \in 1..MaxServices /\ made + 1 \in Services
        /\ needs_session_sync' = needs_session_sync \cup {made + 1}
        /\ UNCHANGED <<idle, sessions, started>>
    BY <1>3 DEF LoginToNew, Reset, ServiceTypes, Services
  <2>1. ServiceTypes'
    <3>1. registry' = [registry EXCEPT ![i] = made + 1]
      BY <1>3 DEF LoginToNew
    <3>2. registry' \in [Ids -> 0..made']
      <4>1. 0..made \subseteq 0..made' /\ made + 1 \in 0..made'
        BY <2>0
      <4> QED BY <3>1, <4>1 DEF ServiceTypes
    <3>3. made' \in 0..MaxServices
      BY <2>0
    <3> QED BY <2>0, <3>2, <3>3 DEF ServiceTypes
  <2>2. ShellTypes'
    BY <1>3 DEF ShellTypes, LoginToNew, Reset, Joins, callVars
  <2>3. Taken'
    BY <1>3 DEF ShellTypes, Taken, LoginToNew, Reset, Joins, callVars
  <2>4. CallTypes'
    BY <1>3 DEF CallTypes, LoginToNew, Reset, Joins, callVars
  <2>5. PeerTypes'
    BY <1>3 DEF PeerTypes, LoginToNew, Reset, Joins, callVars
  <2> QED BY <2>1, <2>2, <2>3, <2>4, <2>5
<1>4. ASSUME NEW c \in Conns, Authorize(c) \/ Disconnect(c)
      PROVE  Flat' /\ Taken'
  <2>1. ServiceTypes'
    BY <1>4 DEF ServiceTypes, Authorize, Disconnect, serviceVars, shellVars, callVars, peerVars
  <2>2. ShellTypes'
    BY <1>4 DEF ShellTypes, Authorize, Disconnect, serviceVars, shellVars, callVars, peerVars
  <2>3. Taken'
    BY <1>4 DEF ShellTypes, Taken, Authorize, Disconnect, serviceVars, shellVars, callVars, peerVars
  <2>4. CallTypes'
    BY <1>4 DEF CallTypes, Authorize, Disconnect, serviceVars, shellVars, callVars, peerVars
  <2>5. PeerTypes'
    BY <1>4 DEF PeerTypes, Authorize, Disconnect, serviceVars, shellVars, callVars, peerVars
  <2> QED BY <2>1, <2>2, <2>3, <2>4, <2>5
<1>5. ASSUME NEW c \in Conns, Touch(c)
      PROVE  Flat' /\ Taken'
  <2>1. ServiceTypes'
    BY <1>5 DEF ServiceTypes, Touch, Goes, shellVars, peerVars, Calls
  <2>2. ShellTypes'
    BY <1>5 DEF ShellTypes, Touch, Goes, shellVars, peerVars, Calls
  <2>3. Taken'
    BY <1>5 DEF ShellTypes, Taken, Touch, Goes, shellVars, peerVars, Calls
  <2>4. CallTypes'
    BY <1>5 DEF CallTypes, Touch, Goes, shellVars, peerVars, Calls
  <2>5. PeerTypes'
    BY <1>5 DEF PeerTypes, Touch, Goes, shellVars, peerVars, Calls
  <2> QED BY <2>1, <2>2, <2>3, <2>4, <2>5
<1>6. ASSUME NEW c \in Conns, NEW t \in Tids, Open(c, t)
      PROVE  Flat' /\ Taken'
  <2>1. ServiceTypes'
    BY <1>6 DEF ServiceTypes, Open, Goes, shellVars, peerVars, Calls
  <2>2. ShellTypes'
    BY <1>6 DEF ShellTypes, Open, Goes, shellVars, peerVars, Calls
  <2>3. Taken'
    BY <1>6 DEF ShellTypes, Taken, Open, Goes, shellVars, peerVars, Calls
  <2>4. CallTypes'
    <3>1. hold' \in [Conns -> 0..made']
      BY <1>6 DEF Open, ServiceTypes, CallTypes
    <3>2. arg' \in [Conns -> Tids] /\ pc' \in [Conns -> Calls]
      BY <1>6 DEF Open, Goes, CallTypes, Calls
    <3> QED BY <1>6, <3>1, <3>2 DEF Open, CallTypes
  <2>5. PeerTypes'
    BY <1>6 DEF PeerTypes, Open, Goes, shellVars, peerVars, Calls
  <2> QED BY <2>1, <2>2, <2>3, <2>4, <2>5
<1>7. ASSUME NEW c \in Conns, NEW t \in Tids, Close(c, t)
      PROVE  Flat' /\ Taken'
  <2> DEFINE v == registry[id[c]]
  <2>0. v \in Services /\ sessions[v][t] \in Shells
    BY <1>7, ShellFacts DEF Close, ServiceTypes, CallTypes
  <2>s. Stop({sessions[v][t]})
    BY <1>7 DEF Close
  <2>1. ServiceTypes'
    <3>1. /\ sessions' = [sessions EXCEPT ![v][t] = 0] /\ idle' = idle \ {v}
          /\ UNCHANGED <<registry, made, needs_session_sync>>
      BY <1>7 DEF Close
    <3>2. started' = started
      BY <2>s DEF Stop
    <3>3. sessions' \in [Services -> [Tids -> 0..started']]
      BY <2>0, <3>1, <3>2 DEF ServiceTypes
    <3> QED BY <3>1, <3>3 DEF ServiceTypes
  <2>2. ShellTypes'
    BY <2>0, <2>s, StopTypes DEF ShellTypes
  <2>3. Taken'
    BY <2>0, <2>s, StopTypes
  <2>4. CallTypes'
    BY <1>7 DEF CallTypes, Close, Goes, Calls
  <2>5. PeerTypes'
    BY <1>7 DEF PeerTypes, Close, Goes, Calls
  <2> QED BY <2>1, <2>2, <2>3, <2>4, <2>5
<1>8. ASSUME NEW c \in Conns, OpenOld(c)
      PROVE  Flat' /\ Taken'
  <2> DEFINE v == hold[c]
             s == sessions[v][arg[c]]
  <2>0. v \in Services /\ arg[c] \in Tids /\ s \in Shells /\ s \in 1..started
    BY <1>8, ShellFacts DEF OpenOld, Holding, CallTypes
  <2>o. /\ ~Dead(s) /\ is_opened' = is_opened \cup {s}
        /\ UNCHANGED <<started, child, finished, channel, closed_message_sent, lock>>
    BY <1>8 DEF OpenOld
  <2>1. ServiceTypes'
    BY <1>8 DEF ServiceTypes, OpenOld, Opened, Goes, Calls
  <2>2. ShellTypes'
    BY <2>0, <2>o DEF ShellTypes
  <2>3. Taken'
    BY <2>0, <2>o DEF Taken, Dead
  <2>4. CallTypes'
    BY <1>8 DEF CallTypes, OpenOld, Opened, Goes, Calls
  <2>5. PeerTypes'
    <3>1. TerminalsOf(v) \subseteq Tids
      BY DEF TerminalsOf
    <3> QED BY <1>8, <2>0, <3>1, OpenedTypes DEF OpenOld, PeerTypes
  <2> QED BY <2>1, <2>2, <2>3, <2>4, <2>5
<1>9. ASSUME NEW c \in Conns, OpenNew(c)
      PROVE  Flat' /\ Taken'
  <2> DEFINE v == hold[c]
             old == sessions[v][arg[c]]
             s == started + 1
  <2>0. v \in Services /\ arg[c] \in Tids /\ s \in Shells /\ old \in 0..started
    BY <1>9, ShellFacts DEF OpenNew, Holding, CallTypes, ShellTypes, Shells
  <2>o. /\ started' = s /\ is_opened' = (is_opened \ {old}) \cup {s}
        /\ child' = [x \in Shells |-> IF x = s THEN "running"
                                       ELSE IF x = old THEN "taken" ELSE child[x]]
        /\ sessions' = [sessions EXCEPT ![v][arg[c]] = s]
        /\ finished' = finished \cup ({old} \ {0})
        /\ channel' = [x \in Shells |-> IF x = old THEN 0 ELSE channel[x]]
        /\ UNCHANGED <<closed_message_sent, lock>>
    BY <1>9 DEF OpenNew
  <2>p. /\ Vacant(c) /\ Opened(c, arg[c], v, TerminalsOf(v) \ {arg[c]})
        /\ UNCHANGED <<registry, made, idle, doomed, piped>>
    BY <1>9 DEF OpenNew
  <2>1. ServiceTypes'
    <3>1. 0..started \subseteq 0..started' /\ s \in 0..started'
      BY <2>o
    <3>2. sessions' \in [Services -> [Tids -> 0..started']]
      <4>1. sessions \in [Services -> [Tids -> 0..started']]
        BY <3>1 DEF ServiceTypes
      <4> QED BY <2>0, <2>o, <3>1, <4>1
    <3>3. needs_session_sync' \subseteq Services
      BY <2>p DEF Opened, ServiceTypes
    <3> QED BY <2>p, <3>2, <3>3 DEF ServiceTypes
  <2>2. ShellTypes'
    <3>1. started' \in 0..MaxShells
      BY <2>0, <2>o DEF Shells
    <3>2. child' \in [Shells -> {"running", "exited", "taken"}]
      BY <2>o DEF ShellTypes
    <3>3. finished' \subseteq Shells
      BY <2>0, <2>o DEF ShellTypes
    <3>4. channel' \in [Shells -> 0..CHANNEL_BUFFER_SIZE]
      <4>1. 0 \in 0..CHANNEL_BUFFER_SIZE
        BY TerminalAssumption
      <4> QED BY <2>o, <4>1 DEF ShellTypes
    <3> QED BY <2>0, <2>o, <3>1, <3>2, <3>3, <3>4 DEF ShellTypes
  <2>3. Taken'
    <3>1. old # 0 => old \in finished'
      BY <2>o
    <3>2. SUFFICES ASSUME NEW x \in 1..s, child'[x] = "taken"
                   PROVE  x \in finished' \ is_opened'
      BY <2>o DEF Taken
    <3>3. x \in Shells
      BY <2>0 DEF Shells
    <3>4. x # s
      BY <2>o, <3>2, <3>3
    <3>5. CASE x = old
      BY <2>o, <3>1, <3>4, <3>5
    <3>6. CASE x # old
      BY <2>o, <3>2, <3>3, <3>4, <3>6 DEF Taken
    <3> QED BY <3>5, <3>6
  <2>4. CallTypes'
    BY <1>9 DEF CallTypes, OpenNew, Opened, Goes, Calls
  <2>5. PeerTypes'
    <3>1. TerminalsOf(v) \subseteq Tids
      BY DEF TerminalsOf
    <3> QED BY <2>0, <2>p, <3>1, OpenedTypes DEF PeerTypes
  <2> QED BY <2>1, <2>2, <2>3, <2>4, <2>5
<1>10. ASSUME NEW c \in Conns, OpenInVain(c)
      PROVE  Flat' /\ Taken'
  <2>1. ServiceTypes'
    BY <1>10 DEF ServiceTypes, OpenInVain, Opened, Goes, shellVars, Calls
  <2>2. ShellTypes'
    BY <1>10 DEF ShellTypes, OpenInVain, Opened, Goes, shellVars, Calls
  <2>3. Taken'
    BY <1>10 DEF ShellTypes, Taken, OpenInVain, Opened, Goes, shellVars, Calls
  <2>4. CallTypes'
    BY <1>10 DEF CallTypes, OpenInVain, Opened, Goes, shellVars, Calls
  <2>5. PeerTypes'
    <3>1. arg[c] \in Tids /\ TerminalsOf(hold[c]) \subseteq Tids
      BY DEF TerminalsOf, CallTypes
    <3> QED BY <1>10, <3>1, OpenedTypes DEF OpenInVain, PeerTypes
  <2> QED BY <2>1, <2>2, <2>3, <2>4, <2>5
<1>11. ASSUME NEW c \in Conns, OpenFails(c)
      PROVE  Flat' /\ Taken'
  <2> DEFINE v == hold[c]
             dropped == {sessions[v][arg[c]]} \ {0}
  <2>0. v \in Services /\ arg[c] \in Tids /\ dropped \in SUBSET Shells
    BY <1>11, ShellFacts DEF OpenFails, Holding, CallTypes
  <2>s. Stop(dropped)
    BY <1>11 DEF OpenFails
  <2>1. ServiceTypes'
    <3>1. /\ sessions' = [sessions EXCEPT ![v][arg[c]] = 0]
          /\ UNCHANGED <<registry, made, idle, needs_session_sync>>
      BY <1>11 DEF OpenFails
    <3>2. started' = started
      BY <2>s DEF Stop
    <3>3. sessions' \in [Services -> [Tids -> 0..started']]
      BY <2>0, <3>1, <3>2 DEF ServiceTypes
    <3> QED BY <3>1, <3>3 DEF ServiceTypes
  <2>2. ShellTypes'
    BY <2>0, <2>s, StopTypes DEF ShellTypes
  <2>3. Taken'
    BY <2>0, <2>s, StopTypes
  <2>4. CallTypes'
    BY <1>11 DEF CallTypes, OpenFails, Goes, peerVars, Calls
  <2>5. PeerTypes'
    BY <1>11 DEF PeerTypes, OpenFails, Goes, peerVars, Calls
  <2> QED BY <2>1, <2>2, <2>3, <2>4, <2>5
<1>12. ASSUME NEW c \in Conns, List(c)
      PROVE  Flat' /\ Taken'
  <2>1. ServiceTypes'
    BY <1>12 DEF ServiceTypes, List, Goes, serviceVars, shellVars, peerVars, Calls
  <2>2. ShellTypes'
    BY <1>12 DEF ShellTypes, List, Goes, serviceVars, shellVars, peerVars, Calls
  <2>3. Taken'
    BY <1>12 DEF ShellTypes, Taken, List, Goes, serviceVars, shellVars, peerVars, Calls
  <2>4. CallTypes'
    <3> DEFINE v == registry[id[c]]
    <3>1. v \in 0..made /\ (v # 0 => v \in Services)
      BY DEF ServiceTypes, CallTypes
    <3>2. /\ conn' = conn /\ id' = id /\ arg' = arg /\ closed_terminals' = closed_terminals
          /\ made' = made /\ pc' \in [Conns -> Calls]
      BY <1>12 DEF List, Goes, serviceVars, CallTypes, Calls
    <3>3. hold' \in [Conns -> 0..made]
      BY <1>12, <3>1 DEF List, CallTypes
    <3>4. todo' \in [Conns -> SUBSET (Tids \X Shells)]
      <4>1. v # 0 => {<<t, sessions[v][t]>> : t \in TerminalsOf(v)} \in SUBSET (Tids \X Shells)
        BY <3>1, ShellFacts DEF TerminalsOf
      <4>2. v = 0 => todo' = todo
        BY <1>12 DEF List
      <4>3. v # 0 => todo' = [todo EXCEPT ![c] = {<<t, sessions[v][t]>> : t \in TerminalsOf(v)}]
        BY <1>12 DEF List
      <4> HIDE DEF v
      <4> QED BY <4>1, <4>2, <4>3 DEF CallTypes
    <3> QED BY <3>2, <3>3, <3>4 DEF CallTypes
  <2>5. PeerTypes'
    BY <1>12 DEF PeerTypes, List, Goes, serviceVars, shellVars, peerVars, Calls
  <2> QED BY <2>1, <2>2, <2>3, <2>4, <2>5
<1>13. ASSUME NEW c \in Conns, Drain(c)
      PROVE  Flat' /\ Taken'
  <2> DEFINE p == CHOOSE p \in todo[c] : p[1] = arg[c]
  <2>0. PICK s \in Shells : <<arg[c], s>> \in todo[c]
    BY <1>13, FreeNotConn DEF Drain, Holding
  <2>p. p \in todo[c] /\ p \in Tids \X Shells
    BY <2>0 DEF CallTypes
  <2>1. ServiceTypes'
    BY <1>13 DEF ServiceTypes, Drain, Goes, serviceVars, peerVars, Calls
  <2>2. ShellTypes'
    <3>1. /\ channel' = [channel EXCEPT ![p[2]] = 0] /\ lock' = [lock EXCEPT ![p[2]] = Free]
          /\ UNCHANGED <<started, child, finished, is_opened, closed_message_sent>>
      BY <1>13 DEF Drain
    <3>2. p[2] \in Shells
      BY <2>p
    <3>3. 0 \in 0..CHANNEL_BUFFER_SIZE
      BY TerminalAssumption
    <3> HIDE DEF p
    <3>4. channel' \in [Shells -> 0..CHANNEL_BUFFER_SIZE] /\ lock' \in [Shells -> Conns \cup {Free}]
      BY <3>1, <3>2, <3>3 DEF ShellTypes
    <3> QED BY <3>1, <3>4 DEF ShellTypes
  <2>3. Taken'
    BY <1>13 DEF ShellTypes, Taken, Drain, Goes, serviceVars, peerVars, Calls
  <2>4. CallTypes'
    BY <1>13 DEF CallTypes, Drain, Goes, serviceVars, peerVars, Calls
  <2>5. PeerTypes'
    BY <1>13 DEF PeerTypes, Drain, Goes, serviceVars, peerVars, Calls
  <2> QED BY <2>1, <2>2, <2>3, <2>4, <2>5
<1>14. ASSUME NEW c \in Conns, ReadDone(c)
      PROVE  Flat' /\ Taken'
  <2>1. ServiceTypes'
    BY <1>14 DEF ServiceTypes, ReadDone, Goes, serviceVars, shellVars, peerVars, Calls
  <2>2. ShellTypes'
    BY <1>14 DEF ShellTypes, ReadDone, Goes, serviceVars, shellVars, peerVars, Calls
  <2>3. Taken'
    BY <1>14 DEF ShellTypes, Taken, ReadDone, Goes, serviceVars, shellVars, peerVars, Calls
  <2>4. CallTypes'
    <3>1. AnyTid \in Tids
      BY TerminalAssumption DEF AnyTid
    <3>2. /\ hold' = [hold EXCEPT ![c] = 0] /\ arg' = [arg EXCEPT ![c] = AnyTid]
          /\ UNCHANGED <<made, conn, id, todo, closed_terminals>>
      BY <1>14 DEF ReadDone, serviceVars
    <3>3. pc' \in [Conns -> Calls]
      BY <1>14 DEF ReadDone, Goes, CallTypes, Calls
    <3>4. hold' \in [Conns -> 0..made'] /\ arg' \in [Conns -> Tids]
      <4>1. 0 \in 0..made'
        BY <3>2
      <4> QED BY <3>1, <3>2, <4>1 DEF CallTypes
    <3> QED BY <3>2, <3>3, <3>4 DEF CallTypes
  <2>5. PeerTypes'
    BY <1>14 DEF PeerTypes, ReadDone, Goes, serviceVars, shellVars, peerVars, Calls
  <2> QED BY <2>1, <2>2, <2>3, <2>4, <2>5
<1>15. ASSUME NEW c \in Conns, NEW p \in todo[c], PassOver(c, p)
      PROVE  Flat' /\ Taken'
  <2>1. ServiceTypes'
    BY <1>15 DEF ServiceTypes, PassOver, serviceVars, shellVars, peerVars, Calls
  <2>2. ShellTypes'
    BY <1>15 DEF ShellTypes, PassOver, serviceVars, shellVars, peerVars, Calls
  <2>3. Taken'
    BY <1>15 DEF ShellTypes, Taken, PassOver, serviceVars, shellVars, peerVars, Calls
  <2>4. CallTypes'
    BY <1>15 DEF CallTypes, PassOver, serviceVars, shellVars, peerVars, Calls
  <2>5. PeerTypes'
    BY <1>15 DEF PeerTypes, PassOver, serviceVars, shellVars, peerVars, Calls
  <2> QED BY <2>1, <2>2, <2>3, <2>4, <2>5
<1>16. ASSUME NEW c \in Conns, NEW p \in todo[c], Look(c, p)
      PROVE  Flat' /\ Taken'
  <2>1. ServiceTypes'
    BY <1>16 DEF ServiceTypes, Look, Goes, serviceVars, peerVars, Calls
  <2>2. ShellTypes'
    BY <1>16 DEF ShellTypes, Look, Goes, serviceVars, peerVars, Calls
  <2>3. Taken'
    BY <1>16 DEF ShellTypes, Taken, Look, Goes, serviceVars, peerVars, Calls
  <2>4. CallTypes'
    BY <1>16 DEF CallTypes, Look, Goes, serviceVars, peerVars, Calls
  <2>5. PeerTypes'
    BY <1>16 DEF PeerTypes, Look, Goes, serviceVars, peerVars, Calls
  <2> QED BY <2>1, <2>2, <2>3, <2>4, <2>5
<1>17. ASSUME NEW c \in Conns, NEW t \in closed_terminals[c], Clean(c, t)
      PROVE  Flat' /\ Taken'
  <2> DEFINE v == hold[c]
             dropped == {sessions[v][t]} \ {0}
  <2>0. v \in Services /\ t \in Tids /\ dropped \in SUBSET Shells
    BY <1>17, ShellFacts DEF Clean, Holding, CallTypes
  <2>s. Stop(dropped)
    BY <1>17 DEF Clean
  <2>1. ServiceTypes'
    <3>1. /\ sessions' = [sessions EXCEPT ![v][t] = 0]
          /\ UNCHANGED <<registry, made, idle, needs_session_sync>>
      BY <1>17 DEF Clean
    <3>2. started' = started
      BY <2>s DEF Stop
    <3>3. sessions' \in [Services -> [Tids -> 0..started']]
      BY <2>0, <3>1, <3>2 DEF ServiceTypes
    <3> QED BY <3>1, <3>3 DEF ServiceTypes
  <2>2. ShellTypes'
    BY <2>0, <2>s, StopTypes DEF ShellTypes
  <2>3. Taken'
    BY <2>0, <2>s, StopTypes
  <2>4. CallTypes'
    BY <1>17 DEF CallTypes, Clean
  <2>5. PeerTypes'
    BY <1>17 DEF PeerTypes, Clean
  <2> QED BY <2>1, <2>2, <2>3, <2>4, <2>5
<1>18. ASSUME NEW s \in Shells, Prints(s) \/ Exit(s) \/ ReaderEnds(s)
      PROVE  Flat' /\ Taken'
  <2>1. ServiceTypes'
    BY <1>18 DEF ServiceTypes, Prints, Exit, ReaderEnds, serviceVars, callVars, peerVars
  <2>2. ShellTypes'
    <3>1. CASE Prints(s)
      <4>1. channel[s] + 1 \in 0..CHANNEL_BUFFER_SIZE
        BY <3>1, TerminalAssumption DEF Prints, ShellTypes
      <4>2. channel' \in [Shells -> 0..CHANNEL_BUFFER_SIZE]
        BY <3>1, <4>1 DEF Prints, ShellTypes
      <4> QED BY <3>1, <4>2 DEF Prints, ShellTypes
    <3>2. CASE Exit(s)
      BY <3>2 DEF Exit, ShellTypes
    <3>3. CASE ReaderEnds(s)
      BY <3>3 DEF ReaderEnds, ShellTypes
    <3> QED BY <1>18, <3>1, <3>2, <3>3
  <2>3. Taken'
    BY <1>18 DEF ShellTypes, Taken, Prints, Exit, ReaderEnds, serviceVars, callVars, peerVars
  <2>4. CallTypes'
    BY <1>18 DEF CallTypes, Prints, Exit, ReaderEnds, serviceVars, callVars, peerVars
  <2>5. PeerTypes'
    BY <1>18 DEF PeerTypes, Prints, Exit, ReaderEnds, serviceVars, callVars, peerVars
  <2> QED BY <2>1, <2>2, <2>3, <2>4, <2>5
<1>19. ASSUME NEW v \in Services, BecomesIdle(v)
      PROVE  Flat' /\ Taken'
  <2>1. ServiceTypes'
    BY <1>19 DEF ServiceTypes, BecomesIdle, shellVars, callVars, peerVars
  <2>2. ShellTypes'
    BY <1>19 DEF ShellTypes, BecomesIdle, shellVars, callVars, peerVars
  <2>3. Taken'
    BY <1>19 DEF ShellTypes, Taken, BecomesIdle, shellVars, callVars, peerVars
  <2>4. CallTypes'
    BY <1>19 DEF CallTypes, BecomesIdle, shellVars, callVars, peerVars
  <2>5. PeerTypes'
    BY <1>19 DEF PeerTypes, BecomesIdle, shellVars, callVars, peerVars
  <2> QED BY <2>1, <2>2, <2>3, <2>4, <2>5
<1>20. CASE Judge
  <2>1. ServiceTypes'
    BY <1>20 DEF ServiceTypes, Judge, serviceVars, shellVars, callVars, peerVars
  <2>2. ShellTypes'
    BY <1>20 DEF ShellTypes, Judge, serviceVars, shellVars, callVars, peerVars
  <2>3. Taken'
    BY <1>20 DEF ShellTypes, Taken, Judge, serviceVars, shellVars, callVars, peerVars
  <2>4. CallTypes'
    BY <1>20 DEF CallTypes, Judge, serviceVars, shellVars, callVars, peerVars
  <2>5. PeerTypes'
    BY <1>20 DEF PeerTypes, Judge, serviceVars, shellVars, callVars, peerVars
  <2> QED BY <2>1, <2>2, <2>3, <2>4, <2>5
<1>21. ASSUME NEW i \in Ids, RemoveService(i)
      PROVE  Flat' /\ Taken'
  <2> DEFINE v == registry[i]
  <2>0. v \in 0..made /\ (v # 0 => v \in Services /\ ShellsOf(v) \in SUBSET Shells)
    BY ShellFacts DEF ServiceTypes
  <2>n. v = 0 => UNCHANGED <<registry, idle, shellVars>>
    BY <1>21 DEF RemoveService
  <2>s. v # 0 => /\ Stop(ShellsOf(v)) /\ registry' = [registry EXCEPT ![i] = 0]
                 /\ idle' = idle \ {v}
    BY <1>21 DEF RemoveService
  <2>u. UNCHANGED <<made, needs_session_sync, sessions>>
    BY <1>21 DEF RemoveService
  <2> HIDE DEF v
  <2>1. ServiceTypes'
    <3>1. started' = started
      BY <2>n, <2>s DEF Stop, shellVars
    <3>2. registry' \in [Ids -> 0..made] /\ idle' \subseteq Services
      BY <2>n, <2>s DEF ServiceTypes
    <3> QED BY <2>u, <3>1, <3>2 DEF ServiceTypes
  <2>2. ShellTypes'
    <3>1. CASE v = 0
      BY <2>n, <3>1 DEF ShellTypes, shellVars
    <3>2. CASE v # 0
      BY <2>0, <2>s, <3>2, StopTypes DEF ShellTypes
    <3> QED BY <3>1, <3>2
  <2>3. Taken'
    <3>1. CASE v = 0
      BY <2>n, <3>1 DEF Taken, shellVars
    <3>2. CASE v # 0
      BY <2>0, <2>s, <3>2, StopTypes
    <3> QED BY <3>1, <3>2
  <2>4. CallTypes'
    BY <1>21 DEF CallTypes, RemoveService, callVars, peerVars
  <2>5. PeerTypes'
    BY <1>21 DEF PeerTypes, RemoveService, callVars, peerVars
  <2> QED BY <2>1, <2>2, <2>3, <2>4, <2>5
<1> QED
  BY <1>1, <1>2, <1>3, <1>4, <1>5, <1>6, <1>7, <1>8, <1>9, <1>10, <1>11, <1>12, <1>13, <1>14,
     <1>15, <1>16, <1>17, <1>18, <1>19, <1>20, <1>21 DEF Next, Works

-----------------------------------------------------------------------------
(* The connections in the middle of a call, and the lock of a session.     *)

LEMMA LocksStep ==
    ASSUME Flat, Locks, Holding, [Next]_vars
    PROVE  Locks' /\ Holding'
<1> USE FreeNotConn DEF Flat
<1>1. CASE UNCHANGED vars
  <2>1. Locks'
    BY <1>1 DEF Locks, vars, shellVars, callVars
  <2>2. Holding'
    BY <1>1 DEF Holding, vars, shellVars, callVars
  <2> QED BY <2>1, <2>2
<1>2. ASSUME NEW c \in Conns, NEW i \in Ids, LoginToOld(c, i)
      PROVE  Locks' /\ Holding'
  <2>1. Locks'
    BY <1>2 DEF Locks, ShellTypes, CallTypes, LoginToOld, Reset, Joins, callVars
  <2>2. Holding'
    BY <1>2 DEF Holding, Locks, ShellTypes, CallTypes, LoginToOld, Reset, Joins, callVars
  <2> QED BY <2>1, <2>2
<1>3. ASSUME NEW c \in Conns, NEW i \in Ids, LoginToNew(c, i)
      PROVE  Locks' /\ Holding'
  <2>1. Locks'
    BY <1>3 DEF Locks, ShellTypes, CallTypes, LoginToNew, Reset, Joins, callVars
  <2>2. Holding'
    BY <1>3 DEF Holding, Locks, ShellTypes, CallTypes, LoginToNew, Reset, Joins, callVars
  <2> QED BY <2>1, <2>2
<1>4. ASSUME NEW c \in Conns, Authorize(c) \/ Disconnect(c)
      PROVE  Locks' /\ Holding'
  <2>1. Locks'
    BY <1>4 DEF Locks, ShellTypes, CallTypes, Authorize, Disconnect, shellVars, callVars
  <2>2. Holding'
    BY <1>4 DEF Holding, Locks, ShellTypes, CallTypes, Authorize, Disconnect, shellVars, callVars
  <2> QED BY <2>1, <2>2
<1>5. ASSUME NEW c \in Conns, Touch(c)
      PROVE  Locks' /\ Holding'
  <2>1. Locks'
    BY <1>5 DEF Locks, ShellTypes, CallTypes, Touch, Goes, shellVars
  <2>2. Holding'
    BY <1>5 DEF Holding, Locks, ShellTypes, CallTypes, Touch, Goes, shellVars
  <2> QED BY <2>1, <2>2
<1>6. ASSUME NEW c \in Conns, NEW t \in Tids, Open(c, t)
      PROVE  Locks' /\ Holding'
  <2>1. Locks'
    BY <1>6 DEF Locks, ShellTypes, CallTypes, Open, Goes, shellVars
  <2>2. Holding'
    BY <1>6 DEF Holding, Locks, ShellTypes, CallTypes, Open, Goes, shellVars
  <2> QED BY <2>1, <2>2
<1>7. ASSUME NEW c \in Conns, NEW t \in Tids, Close(c, t)
      PROVE  Locks' /\ Holding'
  <2>1. Locks'
    BY <1>7 DEF Locks, ShellTypes, CallTypes, Close, Stop, Goes
  <2>2. Holding'
    BY <1>7 DEF Holding, Locks, ShellTypes, CallTypes, Close, Stop, Goes
  <2> QED BY <2>1, <2>2
<1>8. ASSUME NEW c \in Conns, OpenOld(c)
      PROVE  Locks' /\ Holding'
  <2>1. Locks'
    BY <1>8 DEF Locks, ShellTypes, CallTypes, OpenOld, Goes
  <2>2. Holding'
    BY <1>8 DEF Holding, Locks, ShellTypes, CallTypes, OpenOld, Goes
  <2> QED BY <2>1, <2>2
<1>9. ASSUME NEW c \in Conns, OpenNew(c)
      PROVE  Locks' /\ Holding'
  <2>1. Locks'
    BY <1>9 DEF Locks, ShellTypes, CallTypes, OpenNew, Goes
  <2>2. Holding'
    BY <1>9 DEF Holding, Locks, ShellTypes, CallTypes, OpenNew, Goes
  <2> QED BY <2>1, <2>2
<1>10. ASSUME NEW c \in Conns, OpenInVain(c)
      PROVE  Locks' /\ Holding'
  <2>1. Locks'
    BY <1>10 DEF Locks, ShellTypes, CallTypes, OpenInVain, Goes, shellVars
  <2>2. Holding'
    BY <1>10 DEF Holding, Locks, ShellTypes, CallTypes, OpenInVain, Goes, shellVars
  <2> QED BY <2>1, <2>2
<1>11. ASSUME NEW c \in Conns, OpenFails(c)
      PROVE  Locks' /\ Holding'
  <2>1. Locks'
    BY <1>11 DEF Locks, ShellTypes, CallTypes, OpenFails, Stop, Goes
  <2>2. Holding'
    BY <1>11 DEF Holding, Locks, ShellTypes, CallTypes, OpenFails, Stop, Goes
  <2> QED BY <2>1, <2>2
<1>12. ASSUME NEW c \in Conns, List(c)
      PROVE  Locks' /\ Holding'
  <2>1. Locks'
    BY <1>12 DEF Locks, ShellTypes, CallTypes, List, Goes, shellVars
  <2>2. Holding'
    BY <1>12 DEF Holding, Locks, ShellTypes, CallTypes, List, Goes, shellVars
  <2> QED BY <2>1, <2>2
<1>13. ASSUME NEW c \in Conns, Drain(c)
      PROVE  Locks' /\ Holding'
  <2> DEFINE p == CHOOSE p \in todo[c] : p[1] = arg[c]
  <2>1. PICK s \in Shells : lock[s] = c /\ <<arg[c], s>> \in todo[c]
    BY <1>13 DEF Drain, Holding
  <2>2. p \in todo[c] /\ p[1] = arg[c]
    <3>1. <<arg[c], s>>[1] = arg[c]
      OBVIOUS
    <3> QED BY <2>1, <3>1
  <2>3. p = <<arg[c], s>>
    BY <2>1, <2>2 DEF Holding
  <2>4. /\ pc' = [pc EXCEPT ![c] = "scan"] /\ lock' = [lock EXCEPT ![p[2]] = Free]
        /\ todo' = [todo EXCEPT ![c] = @ \ {p}] /\ UNCHANGED <<conn, hold, arg>>
    BY <1>13 DEF Drain, Goes
  <2>5. /\ lock' = [lock EXCEPT ![s] = Free]
        /\ todo' = [todo EXCEPT ![c] = @ \ {<<arg[c], s>>}]
    <3> HIDE DEF p
    <3>1. p[2] = s
      BY <2>3
    <3> QED BY <2>3, <2>4, <3>1
  <2>6. \A x \in Shells : lock[x] = c => x = s
    BY <2>1 DEF Holding
  <2> HIDE DEF p
  <2>7. Locks'
    BY <1>13, <2>4, <2>5, <2>6 DEF Locks, ShellTypes, CallTypes, Drain
  <2>8. Holding'
    <3>1. \A d \in Conns : pc'[d] \in {"open", "scan", "drain"} => hold'[d] # 0
      BY <1>13, <2>4 DEF Holding, CallTypes, Drain
    <3>2. \A d \in Conns : pc'[d] = "idle" => hold'[d] = 0
      BY <2>4 DEF Holding, CallTypes
    <3>3. \A d \in Conns : \A x, y \in todo'[d] : x[1] = y[1] => x = y
      BY <2>5 DEF Holding, CallTypes
    <3>4. \A x \in Shells : lock'[x] # Free => <<arg'[lock'[x]], x>> \in todo'[lock'[x]]
      BY <2>1, <2>4, <2>5, <2>6 DEF Holding, CallTypes, ShellTypes
    <3>5. \A d \in Conns : pc'[d] = "drain" => \E x \in Shells : lock'[x] = d
      BY <2>1, <2>4, <2>5 DEF Holding, CallTypes, ShellTypes
    <3> QED BY <3>1, <3>2, <3>3, <3>4, <3>5 DEF Holding
  <2> QED BY <2>7, <2>8
<1>14. ASSUME NEW c \in Conns, ReadDone(c)
      PROVE  Locks' /\ Holding'
  <2>1. Locks'
    BY <1>14 DEF Locks, ShellTypes, CallTypes, ReadDone, Goes, shellVars
  <2>2. Holding'
    BY <1>14 DEF Holding, Locks, ShellTypes, CallTypes, ReadDone, Goes, shellVars
  <2> QED BY <2>1, <2>2
<1>15. ASSUME NEW c \in Conns, NEW p \in todo[c], PassOver(c, p)
      PROVE  Locks' /\ Holding'
  <2>1. Locks'
    BY <1>15 DEF Locks, ShellTypes, CallTypes, PassOver, shellVars
  <2>2. Holding'
    BY <1>15 DEF Holding, Locks, ShellTypes, CallTypes, PassOver, shellVars
  <2> QED BY <2>1, <2>2
<1>16. ASSUME NEW c \in Conns, NEW p \in todo[c], Look(c, p)
      PROVE  Locks' /\ Holding'
  <2>1. Locks'
    BY <1>16 DEF Locks, ShellTypes, CallTypes, Look, Goes
  <2>2. Holding'
    <3>1. /\ UNCHANGED <<hold, conn>> /\ lock[p[2]] = Free /\ p[2] \in Shells
          /\ \A d \in Conns : d # c => pc'[d] = pc[d] /\ todo'[d] = todo[d] /\ arg'[d] = arg[d]
      BY <1>16 DEF Look, Goes, CallTypes
    <3>2. CASE p[2] \in is_opened
      <4>1. /\ lock' = [lock EXCEPT ![p[2]] = c] /\ arg' = [arg EXCEPT ![c] = p[1]]
            /\ pc' = [pc EXCEPT ![c] = "drain"] /\ todo' = todo /\ pc[c] = "scan"
        BY <1>16, <3>2 DEF Look, Goes
      <4> QED BY <3>1, <4>1 DEF Holding, Locks, ShellTypes, CallTypes
    <3>3. CASE p[2] \notin is_opened
      <4>1. todo' = [todo EXCEPT ![c] = @ \ {p}] /\ UNCHANGED <<lock, arg, pc>> /\ pc[c] = "scan"
        BY <1>16, <3>3 DEF Look
      <4> QED BY <3>1, <4>1 DEF Holding, Locks, ShellTypes, CallTypes
    <3> QED BY <3>2, <3>3
  <2> QED BY <2>1, <2>2
<1>17. ASSUME NEW c \in Conns, NEW t \in closed_terminals[c], Clean(c, t)
      PROVE  Locks' /\ Holding'
  <2>1. Locks'
    BY <1>17 DEF Locks, ShellTypes, CallTypes, Clean, Stop
  <2>2. Holding'
    BY <1>17 DEF Holding, Locks, ShellTypes, CallTypes, Clean, Stop
  <2> QED BY <2>1, <2>2
<1>18. ASSUME NEW s \in Shells, Prints(s) \/ Exit(s) \/ ReaderEnds(s)
      PROVE  Locks' /\ Holding'
  BY <1>18 DEF Locks, Holding, Prints, Exit, ReaderEnds, callVars
<1>19. ASSUME NEW v \in Services, BecomesIdle(v)
      PROVE  Locks' /\ Holding'
  BY <1>19 DEF Locks, Holding, BecomesIdle, shellVars, callVars
<1>20. CASE Judge
  BY <1>20 DEF Locks, Holding, Judge, shellVars, callVars
<1>21. ASSUME NEW i \in Ids, RemoveService(i)
      PROVE  Locks' /\ Holding'
  <2>1. UNCHANGED <<lock, conn, callVars>>
    BY <1>21 DEF RemoveService, Stop, shellVars
  <2> QED BY <2>1 DEF Locks, Holding, callVars
<1> QED
  BY <1>1, <1>2, <1>3, <1>4, <1>5, <1>6, <1>7, <1>8, <1>9, <1>10, <1>11, <1>12, <1>13, <1>14,
     <1>15, <1>16, <1>17, <1>18, <1>19, <1>20, <1>21 DEF Next, Works

-----------------------------------------------------------------------------
(* The registry never has more than MAX_SERVICES services.                 *)

LEMMA FewStep ==
    ASSUME Flat, Few, [Next]_vars
    PROVE  Few'
<1>1. IsFiniteSet(Registered) /\ Cardinality(Registered) \in Nat /\ MAX_SERVICES \in Nat
  <2>1. Registered \subseteq Ids
    BY DEF Registered
  <2> QED BY <2>1, FS_Subset, FS_CardinalityType, TerminalAssumption
<1>2. ASSUME NEW c \in Conns, NEW i \in Ids, LoginToNew(c, i)
      PROVE  Few'
  <2>1. registry[i] = 0 /\ registry' = [registry EXCEPT ![i] = made + 1] /\ made + 1 # 0
    BY <1>2, Numbers DEF LoginToNew
  <2>2. Registered' = Registered \cup {i} /\ i \notin Registered
    BY <2>1 DEF Registered, Flat, ServiceTypes
  <2>3. Cardinality(Registered) < MAX_SERVICES
    BY <1>2 DEF LoginToNew, Registered
  <2>4. Cardinality(Registered') = Cardinality(Registered) + 1
    BY <1>1, <2>2, FS_AddElement
  <2> QED BY <1>1, <2>3, <2>4 DEF Few
<1>3. ASSUME NEW i \in Ids, RemoveService(i)
      PROVE  Few'
  <2>1. Registered' \subseteq Registered
    BY <1>3 DEF RemoveService, Registered, Flat, ServiceTypes
  <2>2. Cardinality(Registered') \in Nat /\ Cardinality(Registered') <= Cardinality(Registered)
    BY <1>1, <2>1, FS_Subset, FS_CardinalityType
  <2> QED BY <1>1, <2>2 DEF Few
<1>4. CASE registry' = registry
  BY <1>4 DEF Few, Registered
<1> QED
  <2>1. CASE UNCHANGED vars
    BY <1>4, <2>1 DEF vars, serviceVars
  <2>2. CASE \E c \in Conns, i \in Ids : LoginToOld(c, i)
    BY <1>4, <2>2 DEF LoginToOld
  <2>3. CASE \E c \in Conns : Authorize(c) \/ Disconnect(c) \/ Touch(c)
    BY <1>4, <2>3 DEF Authorize, Disconnect, Touch, serviceVars
  <2>4. CASE \E c \in Conns : \E t \in Tids : Open(c, t) \/ Close(c, t)
    BY <1>4, <2>4 DEF Open, Close
  <2>5. CASE \E c \in Conns : Works(c)
    <3>1. PICK c \in Conns : Works(c)
      BY <2>5
    <3>2. CASE OpenOld(c) \/ OpenNew(c) \/ OpenInVain(c) \/ OpenFails(c)
      BY <1>4, <3>2 DEF OpenOld, OpenNew, OpenInVain, OpenFails
    <3>3. CASE List(c) \/ Drain(c) \/ ReadDone(c)
      BY <1>4, <3>3 DEF List, Drain, ReadDone, serviceVars
    <3>4. CASE \E p \in todo[c] : PassOver(c, p) \/ Look(c, p)
      BY <1>4, <3>4 DEF PassOver, Look, serviceVars
    <3>5. CASE \E t \in closed_terminals[c] : Clean(c, t)
      BY <1>4, <3>5 DEF Clean
    <3> QED BY <3>1, <3>2, <3>3, <3>4, <3>5 DEF Works
  <2>6. CASE \E s \in Shells : Prints(s) \/ Exit(s) \/ ReaderEnds(s)
    BY <1>4, <2>6 DEF Prints, Exit, ReaderEnds, serviceVars
  <2>7. CASE Judge \/ \E v \in Services : BecomesIdle(v)
    BY <1>4, <2>7 DEF Judge, BecomesIdle, serviceVars
  <2> QED BY <1>2, <1>3, <2>1, <2>2, <2>3, <2>4, <2>5, <2>6, <2>7 DEF Next

-----------------------------------------------------------------------------

LEMMA InitHolds ==
    ASSUME Init
    PROVE  TypeOK /\ Holding
<1> USE TerminalAssumption
<1>1. 0 \in 0..MaxServices /\ 0 \in 0..MaxShells /\ 0 \in 0..CHANNEL_BUFFER_SIZE
  OBVIOUS
<1>2. ServiceTypes
  BY <1>1 DEF Init, ServiceTypes
<1>3. ShellTypes
  BY <1>1 DEF Init, ShellTypes
<1>4. CallTypes
  <2>1. (CHOOSE i \in Ids : TRUE) \in Ids /\ AnyTid \in Tids
    BY DEF AnyTid
  <2> QED BY <1>1, <2>1 DEF Init, CallTypes, Calls
<1>5. PeerTypes
  BY DEF Init, PeerTypes
<1>6. Few
  <2>1. Registered = {}
    BY DEF Init, Registered
  <2> QED BY <2>1, FS_EmptySet DEF Few
<1>7. Taken /\ Locks
  BY DEF Init, Taken, Locks
<1>8. Holding
  BY DEF Init, Holding
<1> QED BY <1>2, <1>3, <1>4, <1>5, <1>6, <1>7, <1>8, Parts DEF Flat

LEMMA HoldingCorrect == Spec => [](TypeOK /\ Holding)
<1>1. TypeOK /\ Holding /\ [Next]_vars => (TypeOK /\ Holding)'
  <2> SUFFICES ASSUME TypeOK, Holding, [Next]_vars
               PROVE  TypeOK' /\ Holding'
    OBVIOUS
  <2>1. Flat /\ Few /\ Taken /\ Locks
    BY Parts
  <2>2. Flat' /\ Few' /\ Taken' /\ Locks' /\ Holding'
    BY <2>1, FlatStep, LocksStep, FewStep
  <2>3. TypeOK'
    BY <2>2, Parts, PTL
  <2> QED BY <2>2, <2>3
<1> QED BY <1>1, InitHolds, PTL DEF Spec

\* The types; that there are no more services than allowed; that only a connection
\* that drains holds a lock; and that a reaped shell has no reader and is not open.
THEOREM TypeCorrect == Spec => []TypeOK
  BY HoldingCorrect, PTL

-----------------------------------------------------------------------------
(* Restored.  A service belongs to one id; what a connection holds belongs *)
(* to its id; so nobody else can touch the service of a connection that    *)
(* has it alone, and a service made for its id since would have come with  *)
(* a login that ended its being alone.                                     *)

Alone(c) == c \in alone /\ conn[c] # "off"
Owned ==
    /\ \A i, j \in Ids : registry[i] # 0 /\ registry[i] = registry[j] => i = j
    /\ \A d \in Conns, i \in Ids : hold[d] # 0 /\ registry[i] = hold[d] => id[d] = i
Solo ==
    /\ \A c, d \in Conns : Alone(c) /\ conn[d] # "off" /\ id[d] = id[c] => c = d
    /\ \A c \in Conns : Alone(c) /\ hold[c] # 0 /\ registry[id[c]] # 0
                        => registry[id[c]] = hold[c]
Synced ==
    \A c \in Conns : Alone(c) /\ registry[id[c]] # 0 =>
        /\ knows[c] # {} => registry[id[c]] \notin needs_session_sync
        /\ registry[id[c]] \notin needs_session_sync
             => TerminalsOf(registry[id[c]]) \subseteq knows[c] \cup named[c]

LEMMA OwnedStep ==
    ASSUME Flat, Locks, Holding, Owned, [Next]_vars
    PROVE  Owned'
<1> USE DEF Flat, ServiceTypes, CallTypes
<1>1. CASE UNCHANGED <<registry, hold, id>>
  BY <1>1 DEF Owned
<1>2. ASSUME NEW c \in Conns, NEW i \in Ids, LoginToOld(c, i)
      PROVE  Owned'
  <2>1. hold[c] = 0
    BY <1>2 DEF LoginToOld, Locks, Holding
  <2> QED BY <1>2, <2>1 DEF Owned, LoginToOld, Joins, callVars
<1>3. ASSUME NEW c \in Conns, NEW i \in Ids, LoginToNew(c, i)
      PROVE  Owned'
  <2>1. hold[c] = 0
    BY <1>3 DEF LoginToNew, Locks, Holding
  <2>2. /\ registry' = [registry EXCEPT ![i] = made + 1] /\ id' = [id EXCEPT ![c] = i]
        /\ hold' = hold
    BY <1>3 DEF LoginToNew, Joins, callVars
  <2>3. \A j \in Ids : registry[j] # made + 1
    BY Numbers
  <2>4. \A d \in Conns : hold[d] # made + 1
    BY Numbers
  <2> QED BY <2>1, <2>2, <2>3, <2>4 DEF Owned
<1>4. ASSUME NEW c \in Conns, NEW t \in Tids, Open(c, t)
      PROVE  Owned'
  BY <1>4 DEF Owned, Open
<1>5. ASSUME NEW c \in Conns, List(c) \/ ReadDone(c)
      PROVE  Owned'
  <2>1. hold'[c] = 0 \/ hold'[c] = registry[id[c]]
    BY <1>5 DEF List, ReadDone
  <2>2. \A d \in Conns : d # c => hold'[d] = hold[d]
    BY <1>5 DEF List, ReadDone
  <2>3. UNCHANGED <<registry, id>>
    BY <1>5 DEF List, ReadDone, serviceVars
  <2> QED BY <2>1, <2>2, <2>3 DEF Owned
<1>6. ASSUME NEW i \in Ids, RemoveService(i)
      PROVE  Owned'
  <2>1. \A j \in Ids : registry'[j] # 0 => registry'[j] = registry[j]
    BY <1>6 DEF RemoveService
  <2>2. UNCHANGED <<hold, id>>
    BY <1>6 DEF RemoveService, callVars
  <2>3. \A j, k \in Ids : registry'[j] # 0 /\ registry'[j] = registry'[k] => j = k
    BY <2>1 DEF Owned
  <2>4. \A d \in Conns, j \in Ids : hold[d] # 0 /\ registry'[j] = hold[d] => id[d] = j
    BY <2>1 DEF Owned
  <2> QED BY <2>2, <2>3, <2>4 DEF Owned
<1> QED
  <2>1. CASE UNCHANGED vars
    BY <1>1, <2>1 DEF vars, serviceVars, callVars
  <2>2. CASE \E c \in Conns : Authorize(c) \/ Disconnect(c) \/ Touch(c)
    BY <1>1, <2>2 DEF Authorize, Disconnect, Touch, serviceVars, callVars
  <2>3. CASE \E c \in Conns : \E t \in Tids : Close(c, t)
    BY <1>1, <2>3 DEF Close
  <2>4. CASE \E c \in Conns : Works(c)
    <3>1. PICK c \in Conns : Works(c)
      BY <2>4
    <3>2. CASE OpenOld(c) \/ OpenNew(c) \/ OpenInVain(c) \/ OpenFails(c)
      BY <1>1, <3>2 DEF OpenOld, OpenNew, OpenInVain, OpenFails
    <3>3. CASE Drain(c)
      BY <1>1, <3>3 DEF Drain, serviceVars
    <3>4. CASE \E p \in todo[c] : PassOver(c, p) \/ Look(c, p)
      BY <1>1, <3>4 DEF PassOver, Look, serviceVars
    <3>5. CASE \E t \in closed_terminals[c] : Clean(c, t)
      BY <1>1, <3>5 DEF Clean
    <3> QED BY <1>5, <3>1, <3>2, <3>3, <3>4, <3>5 DEF Works
  <2>5. CASE \E s \in Shells : Prints(s) \/ Exit(s) \/ ReaderEnds(s)
    BY <1>1, <2>5 DEF Prints, Exit, ReaderEnds, serviceVars, callVars
  <2>6. CASE Judge \/ \E v \in Services : BecomesIdle(v)
    BY <1>1, <2>6 DEF Judge, BecomesIdle, serviceVars, callVars
  <2> QED BY <1>2, <1>3, <1>4, <1>6, <2>1, <2>2, <2>3, <2>4, <2>5, <2>6 DEF Next

\* A login leaves alone at most those it does not join.
LEMMA JoinsAlone ==
    ASSUME Flat, NEW c \in Conns, NEW i \in Ids, conn[c] = "off", Joins(c, i)
    PROVE  /\ \A d \in Conns : d # c /\ Alone(d)' => Alone(d) /\ id[d] # i
           /\ Alone(c)' => \A d \in Conns : d # c /\ conn[d] # "off" => id[d] # i
           /\ \A d \in Conns : d # c => /\ conn'[d] = conn[d] /\ id'[d] = id[d]
                                         /\ knows'[d] = knows[d] /\ named'[d] = named[d]
           /\ conn'[c] = "login" /\ id'[c] = i /\ knows'[c] = {} /\ named'[c] = {}
<1> USE DEF Flat, CallTypes, PeerTypes
<1>1. /\ \A d \in Conns : d # c => /\ conn'[d] = conn[d] /\ id'[d] = id[d]
                                    /\ knows'[d] = knows[d] /\ named'[d] = named[d]
      /\ conn'[c] = "login" /\ id'[c] = i /\ knows'[c] = {} /\ named'[c] = {}
  BY DEF Joins
<1>2. CASE Others(c, i) = {}
  <2>1. alone' = alone \cup {c}
    BY <1>2 DEF Joins
  <2>2. \A d \in Conns : d # c /\ conn[d] # "off" => id[d] # i
    BY <1>2 DEF Others
  <2> QED BY <1>1, <2>1, <2>2 DEF Alone
<1>3. CASE Others(c, i) # {}
  <2>1. alone' = alone \ ({c} \cup Others(c, i))
    BY <1>3 DEF Joins
  <2>2. \A d \in Conns : d # c /\ conn[d] # "off" /\ id[d] = i => d \in Others(c, i)
    BY DEF Others
  <2> QED BY <1>1, <2>1, <2>2 DEF Alone
<1> QED BY <1>2, <1>3

LEMMA SoloStep ==
    ASSUME Flat, Locks, Holding, Solo, [Next]_vars
    PROVE  Solo'
<1> USE DEF Flat, ServiceTypes, CallTypes
<1>1. CASE UNCHANGED <<registry, hold, id, conn, alone>>
  BY <1>1 DEF Solo, Alone
<1>2. ASSUME NEW c \in Conns, NEW i \in Ids, LoginToOld(c, i) \/ LoginToNew(c, i)
      PROVE  Solo'
  <2>1. hold' = hold /\ hold[c] = 0 /\ Joins(c, i) /\ conn[c] = "off"
    BY <1>2 DEF LoginToOld, LoginToNew, Locks, Holding, callVars
  <2>2. \A j \in Ids : j # i => registry'[j] = registry[j]
    BY <1>2 DEF LoginToOld, LoginToNew
  <2>3. /\ \A d \in Conns : d # c /\ Alone(d)' => Alone(d) /\ id[d] # i
        /\ Alone(c)' => \A d \in Conns : d # c /\ conn[d] # "off" => id[d] # i
        /\ \A d \in Conns : d # c => conn'[d] = conn[d] /\ id'[d] = id[d]
        /\ id'[c] = i
    BY <2>1, JoinsAlone
  <2>4. \A b, d \in Conns : Alone(b)' /\ conn'[d] # "off" /\ id'[d] = id'[b] => b = d
    BY <2>3 DEF Solo
  <2>5. \A b \in Conns : Alone(b)' /\ hold'[b] # 0 /\ registry'[id'[b]] # 0
                          => registry'[id'[b]] = hold'[b]
    BY <2>1, <2>2, <2>3 DEF Solo
  <2> QED BY <2>4, <2>5 DEF Solo
<1>3. ASSUME NEW c \in Conns, Authorize(c) \/ Disconnect(c)
      PROVE  Solo'
  <2>1. UNCHANGED <<registry, hold, id, alone>>
    BY <1>3 DEF Authorize, Disconnect, serviceVars, callVars, peerVars
  <2>2. \A d \in Conns : conn'[d] # "off" => conn[d] # "off"
    BY <1>3 DEF Authorize, Disconnect
  <2> QED BY <2>1, <2>2 DEF Solo, Alone
<1>4. ASSUME NEW c \in Conns, hold'[c] = 0 \/ hold'[c] = registry[id[c]],
             \A d \in Conns : d # c => hold'[d] = hold[d],
             UNCHANGED <<registry, id, conn, alone>>
      PROVE  Solo'
  BY <1>4 DEF Solo, Alone
<1>5. ASSUME NEW i \in Ids, RemoveService(i)
      PROVE  Solo'
  <2>1. \A j \in Ids : registry'[j] # 0 => registry'[j] = registry[j]
    BY <1>5 DEF RemoveService
  <2>2. UNCHANGED <<hold, id, conn, alone>>
    BY <1>5 DEF RemoveService, callVars, peerVars
  <2> QED BY <2>1, <2>2 DEF Solo, Alone
<1> QED
  <2>1. CASE UNCHANGED vars
    BY <1>1, <2>1 DEF vars, serviceVars, callVars, peerVars
  <2>2. CASE \E c \in Conns : Touch(c)
    BY <1>1, <2>2 DEF Touch, peerVars
  <2>3. CASE \E c \in Conns : \E t \in Tids : Close(c, t)
    BY <1>1, <2>3 DEF Close
  <2>4. CASE \E c \in Conns : \E t \in Tids : Open(c, t)
    BY <1>4, <2>4 DEF Open, peerVars
  <2>5. CASE \E c \in Conns : Works(c)
    <3>1. PICK c \in Conns : Works(c)
      BY <2>5
    <3>2. CASE OpenOld(c) \/ OpenNew(c) \/ OpenInVain(c) \/ OpenFails(c)
      BY <1>1, <3>2 DEF OpenOld, OpenNew, OpenInVain, OpenFails, Opened, peerVars
    <3>3. CASE Drain(c)
      BY <1>1, <3>3 DEF Drain, serviceVars, peerVars
    <3>4. CASE \E p \in todo[c] : PassOver(c, p) \/ Look(c, p)
      BY <1>1, <3>4 DEF PassOver, Look, serviceVars, peerVars
    <3>5. CASE \E t \in closed_terminals[c] : Clean(c, t)
      BY <1>1, <3>5 DEF Clean
    <3>6. CASE List(c) \/ ReadDone(c)
      <4>1. hold'[c] = 0 \/ hold'[c] = registry[id[c]]
        BY <3>6 DEF List, ReadDone
      <4>2. \A d \in Conns : d # c => hold'[d] = hold[d]
        BY <3>6 DEF List, ReadDone
      <4>3. UNCHANGED <<registry, id, conn, alone>>
        BY <3>6 DEF List, ReadDone, serviceVars, peerVars
      <4> QED BY <1>4, <4>1, <4>2, <4>3
    <3> QED BY <3>1, <3>2, <3>3, <3>4, <3>5, <3>6 DEF Works
  <2>6. CASE \E s \in Shells : Prints(s) \/ Exit(s) \/ ReaderEnds(s)
    BY <1>1, <2>6 DEF Prints, Exit, ReaderEnds, serviceVars, callVars, peerVars
  <2>7. CASE Judge \/ \E v \in Services : BecomesIdle(v)
    BY <1>1, <2>7 DEF Judge, BecomesIdle, serviceVars, callVars, peerVars
  <2> QED BY <1>2, <1>3, <1>5, <2>1, <2>2, <2>3, <2>4, <2>5, <2>6, <2>7 DEF Next

\* A connection that holds, or has in the registry, the service of one that has
\* it alone is that one.
LEMMA NobodyElse ==
    ASSUME Flat, Locks, Holding, Owned, Solo, NEW c \in Conns, Alone(c), registry[id[c]] # 0,
           NEW d \in Conns, conn[d] = "on",
           registry[id[c]] = hold[d] \/ registry[id[c]] = registry[id[d]]
    PROVE  c = d
<1>1. id[c] \in Ids /\ id[d] \in Ids
  BY DEF Flat, CallTypes
<1>2. id[d] = id[c]
  BY <1>1 DEF Owned
<1> QED BY <1>2 DEF Solo

\* What Synced says of the next state, with its terminals spelled out.
In(all, v) == {t \in Tids : all[v][t] # 0}

LEMMA SyncedNext ==
    ASSUME \A d \in Conns :
              /\ d \in alone' /\ conn'[d] # "off" /\ registry'[id'[d]] # 0
              => /\ knows'[d] # {} => registry'[id'[d]] \notin needs_session_sync'
                 /\ registry'[id'[d]] \notin needs_session_sync'
                      => In(sessions', registry'[id'[d]]) \subseteq knows'[d] \cup named'[d]
    PROVE  Synced'
  BY Zenon DEF Synced, Alone, TerminalsOf, In

LEMMA InNow == ASSUME NEW v PROVE TerminalsOf(v) = In(sessions, v)
  BY DEF TerminalsOf, In

LEMMA SyncedStep ==
    ASSUME Flat, Locks, Holding, Owned, Solo, Synced, [Next]_vars
    PROVE  Synced'
<1> USE DEF Flat, CallTypes
<1> DEFINE Same == UNCHANGED <<registry, needs_session_sync, sessions, id, alone>>
<1>1. ASSUME Same, UNCHANGED <<knows, named>>, \A d \in Conns : conn'[d] # "off" => conn[d] # "off"
      PROVE  Synced'
  BY <1>1, SyncedNext, InNow DEF Synced, Alone, In
\* A login joins nobody who stays alone, and is told of nothing yet.
<1>2. ASSUME NEW c \in Conns, NEW i \in Ids, LoginToOld(c, i) \/ LoginToNew(c, i)
      PROVE  Synced'
  <2>1. Joins(c, i) /\ conn[c] = "off" /\ sessions' = sessions
    BY <1>2 DEF LoginToOld, LoginToNew
  <2>2. \A j \in Ids : j # i => registry'[j] = registry[j]
    BY <1>2 DEF LoginToOld, LoginToNew, ServiceTypes
  <2>3. needs_session_sync' = needs_session_sync \cup {registry'[i]}
    BY <1>2 DEF LoginToOld, LoginToNew, Reset, ServiceTypes
  <2>4. \A j \in Ids : j # i /\ registry[j] # 0 => registry[j] # registry'[i]
    <3>1. CASE LoginToOld(c, i)
      BY <3>1 DEF LoginToOld, Owned
    <3>2. CASE LoginToNew(c, i)
      BY <3>2, Numbers DEF LoginToNew, ServiceTypes
    <3> QED BY <1>2, <3>1, <3>2
  <2>5. SUFFICES ASSUME NEW d \in Conns, d \in alone', conn'[d] # "off", registry'[id'[d]] # 0
                 PROVE  /\ knows'[d] # {} => registry'[id'[d]] \notin needs_session_sync'
                        /\ registry'[id'[d]] \notin needs_session_sync'
                             => In(sessions', registry'[id'[d]]) \subseteq knows'[d] \cup named'[d]
    BY SyncedNext
  <2>6. CASE d = c
    BY <2>1, <2>3, <2>6, JoinsAlone DEF Alone
  <2>7. CASE d # c
    <3>1. /\ Alone(d) /\ id'[d] = id[d] /\ id[d] # i /\ id[d] \in Ids
          /\ knows'[d] = knows[d] /\ named'[d] = named[d]
      BY <2>1, <2>5, <2>7, JoinsAlone DEF Alone
    <3>2. registry'[id'[d]] = registry[id[d]] /\ registry[id[d]] # registry'[i]
      BY <2>2, <2>4, <2>5, <3>1
    <3>3. In(sessions', registry'[id'[d]]) = TerminalsOf(registry[id[d]])
      BY <2>1, <3>2 DEF In, TerminalsOf
    <3> QED BY <2>3, <2>5, <3>1, <3>2, <3>3 DEF Synced
  <2> QED BY <2>6, <2>7
\* A connection that opens a terminal t of the service v it holds.
<1>3. ASSUME NEW c \in Conns, pc[c] = "open", Opened(c, arg[c], hold[c], TerminalsOf(hold[c]) \ {arg[c]}),
             UNCHANGED <<registry, id, conn>>, hold[c] \in Services,
             \A v \in Services : v # hold[c] => In(sessions', v) = TerminalsOf(v),
             registry[id[c]] = hold[c]
               => In(sessions', hold[c]) \subseteq TerminalsOf(hold[c]) \cup {arg[c]}
      PROVE  Synced'
  <2> DEFINE v == hold[c]
             t == arg[c]
  <2>1. conn[c] = "on"
    BY <1>3 DEF Locks
  <2>2. /\ knows' = [knows EXCEPT ![c] = knows[c] \cup {t}]
        /\ named' = [named EXCEPT ![c] = IF v \in needs_session_sync THEN TerminalsOf(v) \ {t}
                                         ELSE named[c]]
        /\ needs_session_sync' = needs_session_sync \ {v} /\ alone' = alone
    BY <1>3 DEF Opened
  <2>3. SUFFICES ASSUME NEW d \in Conns, d \in alone', conn'[d] # "off", registry'[id'[d]] # 0
                 PROVE  /\ knows'[d] # {} => registry'[id'[d]] \notin needs_session_sync'
                        /\ registry'[id'[d]] \notin needs_session_sync'
                             => In(sessions', registry'[id'[d]]) \subseteq knows'[d] \cup named'[d]
    BY SyncedNext
  <2> DEFINE w == registry[id[d]]
  <2>4. Alone(d) /\ registry'[id'[d]] = w /\ w # 0 /\ w \in Services
    BY <1>3, <2>2, <2>3, Numbers DEF Alone, ServiceTypes
  <2>5. In(sessions', registry'[id'[d]]) = In(sessions', w)
    BY <2>4 DEF In, TerminalsOf
  <2>6. CASE d # c
    <3>1. w # v
      BY <2>1, <2>4, <2>6, NobodyElse
    <3>2. In(sessions', w) = TerminalsOf(w)
      BY <1>3, <2>4, <3>1
    <3>3. knows'[d] = knows[d] /\ named'[d] = named[d]
      BY <2>2, <2>6 DEF PeerTypes
    <3> QED BY <2>2, <2>4, <2>5, <3>1, <3>2, <3>3 DEF Synced
  <2>7. CASE d = c
    <3>1. w = v
      BY <1>3, <2>4, <2>7 DEF Solo, Holding
    <3>2. In(sessions', w) \subseteq TerminalsOf(v) \cup {t}
      BY <1>3, <2>7, <3>1
    <3>3. knows'[c] = knows[c] \cup {t}
      BY <2>2 DEF PeerTypes
    <3>4. w \notin needs_session_sync'
      BY <2>2, <3>1
    <3>5. CASE v \in needs_session_sync
      <4>1. named'[c] = TerminalsOf(v) \ {t}
        BY <2>2, <3>5 DEF PeerTypes
      <4> QED BY <2>4, <2>5, <2>7, <3>2, <3>3, <3>4, <4>1
    <3>6. CASE v \notin needs_session_sync
      <4>1. named'[c] = named[c]
        BY <2>2, <3>6 DEF PeerTypes
      <4>2. TerminalsOf(v) \subseteq knows[c] \cup named[c]
        BY <2>4, <2>7, <3>1, <3>6 DEF Synced
      <4> QED BY <2>4, <2>5, <2>7, <3>2, <3>3, <3>4, <4>1, <4>2
    <3> QED BY <3>5, <3>6
  <2> QED BY <2>6, <2>7
\* A connection that loses a terminal t of a service v that is its own.
<1>4. ASSUME NEW c \in Conns, conn[c] = "on", NEW v \in Services, NEW t \in Tids,
             v = hold[c] \/ v = registry[id[c]],
             sessions' = [sessions EXCEPT ![v][t] = 0],
             knows' = [knows EXCEPT ![c] = knows[c] \ {t}] \/ knows' = knows,
             UNCHANGED <<registry, needs_session_sync, id, conn, alone, named>>
      PROVE  Synced'
  <2>1. SUFFICES ASSUME NEW d \in Conns, d \in alone', conn'[d] # "off", registry'[id'[d]] # 0
                 PROVE  /\ knows'[d] # {} => registry'[id'[d]] \notin needs_session_sync'
                        /\ registry'[id'[d]] \notin needs_session_sync'
                             => In(sessions', registry'[id'[d]]) \subseteq knows'[d] \cup named'[d]
    BY SyncedNext
  <2> DEFINE w == registry[id[d]]
  <2>2. Alone(d) /\ registry'[id'[d]] = w /\ w # 0 /\ w \in Services
    BY <1>4, <2>1, Numbers DEF Alone, ServiceTypes
  <2>3. In(sessions', registry'[id'[d]]) = In(sessions', w)
    BY <2>2 DEF In, TerminalsOf
  <2>4. /\ knows[d] # {} => w \notin needs_session_sync
        /\ w \notin needs_session_sync => TerminalsOf(w) \subseteq knows[d] \cup named[d]
    BY <2>2 DEF Synced
  <2>5. knows'[d] \subseteq knows[d]
    BY <1>4 DEF PeerTypes
  <2>6. CASE d # c
    <3>1. w # v
      BY <1>4, <2>2, <2>6, NobodyElse
    <3>2. knows'[d] = knows[d]
      BY <1>4, <2>6 DEF PeerTypes
    <3>3. In(sessions', w) = TerminalsOf(w)
      BY <1>4, <2>2, <3>1 DEF In, TerminalsOf, ServiceTypes
    <3> QED BY <1>4, <2>2, <2>3, <2>4, <3>2, <3>3
  <2>7. CASE d = c
    <3>1. w = v
      <4>1. v # 0
        BY DEF Services
      <4> QED BY <1>4, <2>2, <2>7, <4>1 DEF Solo
    <3>2. In(sessions', w) = TerminalsOf(w) \ {t}
      BY <1>4, <3>1 DEF In, TerminalsOf, ServiceTypes
    <3>3. knows[d] \ {t} \subseteq knows'[d]
      BY <1>4, <2>7 DEF PeerTypes
    <3> QED BY <1>4, <2>2, <2>3, <2>4, <2>5, <3>2, <3>3
  <2> QED BY <2>6, <2>7
<1>5. ASSUME NEW c \in Conns, OpenOld(c) \/ OpenNew(c) \/ OpenInVain(c)
      PROVE  Synced'
  <2>1. /\ pc[c] = "open" /\ Opened(c, arg[c], hold[c], TerminalsOf(hold[c]) \ {arg[c]})
        /\ UNCHANGED <<registry, id, conn>>
    BY <1>5 DEF OpenOld, OpenNew, OpenInVain
  <2>2. hold[c] \in Services /\ arg[c] \in Tids
    BY <2>1, Numbers DEF Holding
  <2>3. sessions' = sessions \/ sessions' = [sessions EXCEPT ![hold[c]][arg[c]] = started + 1]
    BY <1>5 DEF OpenOld, OpenNew, OpenInVain
  <2>4. \A v \in Services : v # hold[c] => In(sessions', v) = TerminalsOf(v)
    BY <2>2, <2>3 DEF In, TerminalsOf, ServiceTypes
  <2>5. In(sessions', hold[c]) \subseteq TerminalsOf(hold[c]) \cup {arg[c]}
    <3>1. hold' = hold
      BY <1>5 DEF OpenOld, OpenNew, OpenInVain
    <3> QED BY <2>2, <2>3, <3>1 DEF In, TerminalsOf, ServiceTypes
  <2> QED BY <1>3, <2>1, <2>2, <2>4, <2>5
<1>6. ASSUME NEW c \in Conns, OpenFails(c)
      PROVE  Synced'
  <2>1. conn[c] = "on" /\ hold[c] \in Services /\ arg[c] \in Tids
    BY <1>6, Numbers DEF OpenFails, Holding, Locks
  <2>2. /\ sessions' = [sessions EXCEPT ![hold[c]][arg[c]] = 0]
        /\ UNCHANGED <<registry, needs_session_sync, id, conn, alone, named, knows>>
    BY <1>6 DEF OpenFails, peerVars
  <2> QED BY <1>4, <2>1, <2>2
<1>7. ASSUME NEW c \in Conns, NEW t \in Tids, Close(c, t)
      PROVE  Synced'
  <2>1. conn[c] = "on" /\ registry[id[c]] \in Services
    BY <1>7, Numbers DEF Close, ServiceTypes
  <2>2. /\ sessions' = [sessions EXCEPT ![registry[id[c]]][t] = 0]
        /\ knows' = [knows EXCEPT ![c] = knows[c] \ {t}]
        /\ UNCHANGED <<registry, needs_session_sync, id, conn, alone, named>>
    BY <1>7 DEF Close
  <2> QED BY <1>4, <2>1, <2>2
<1>8. ASSUME NEW c \in Conns, NEW t \in closed_terminals[c], Clean(c, t)
      PROVE  Synced'
  <2>1. conn[c] = "on" /\ hold[c] \in Services /\ t \in Tids
    BY <1>8, Numbers DEF Clean, Holding, Locks
  <2>2. /\ sessions' = [sessions EXCEPT ![hold[c]][t] = 0]
        /\ knows' = [knows EXCEPT ![c] = knows[c] \ {t}]
        /\ UNCHANGED <<registry, needs_session_sync, id, conn, alone, named>>
    BY <1>8 DEF Clean
  <2> QED BY <1>4, <2>1, <2>2
<1>9. ASSUME NEW i \in Ids, RemoveService(i)
      PROVE  Synced'
  <2>1. \A j \in Ids : registry'[j] # 0 => registry'[j] = registry[j]
    BY <1>9 DEF RemoveService, ServiceTypes
  <2>2. UNCHANGED <<needs_session_sync, sessions, id, conn, alone, knows, named>>
    BY <1>9 DEF RemoveService, peerVars
  <2>3. SUFFICES ASSUME NEW d \in Conns, d \in alone', conn'[d] # "off", registry'[id'[d]] # 0
                 PROVE  /\ knows'[d] # {} => registry'[id'[d]] \notin needs_session_sync'
                        /\ registry'[id'[d]] \notin needs_session_sync'
                             => In(sessions', registry'[id'[d]]) \subseteq knows'[d] \cup named'[d]
    BY SyncedNext
  <2>4. Alone(d) /\ registry'[id'[d]] = registry[id[d]] /\ registry[id[d]] # 0
    BY <2>1, <2>2, <2>3 DEF Alone
  <2>5. In(sessions', registry'[id'[d]]) = TerminalsOf(registry[id[d]])
    BY <2>2, <2>4 DEF In, TerminalsOf
  <2> QED BY <2>2, <2>4, <2>5 DEF Synced
<1> QED
  <2>1. CASE UNCHANGED vars
    BY <1>1, <2>1 DEF vars, serviceVars, peerVars
  <2>2. CASE \E c \in Conns : Authorize(c) \/ Disconnect(c) \/ Touch(c)
    BY <1>1, <2>2 DEF Authorize, Disconnect, Touch, serviceVars, peerVars
  <2>3. CASE \E c \in Conns : \E t \in Tids : Open(c, t)
    BY <1>1, <2>3 DEF Open, peerVars
  <2>4. CASE \E c \in Conns : Works(c)
    <3>1. PICK c \in Conns : Works(c)
      BY <2>4
    <3>2. CASE List(c) \/ Drain(c) \/ ReadDone(c)
      BY <1>1, <3>2 DEF List, Drain, ReadDone, serviceVars, peerVars
    <3>3. CASE \E p \in todo[c] : PassOver(c, p) \/ Look(c, p)
      BY <1>1, <3>3 DEF PassOver, Look, serviceVars, peerVars
    <3> QED BY <1>5, <1>6, <1>8, <3>1, <3>2, <3>3 DEF Works
  <2>5. CASE \E s \in Shells : Prints(s) \/ Exit(s) \/ ReaderEnds(s)
    BY <1>1, <2>5 DEF Prints, Exit, ReaderEnds, serviceVars, peerVars
  <2>6. CASE Judge \/ \E v \in Services : BecomesIdle(v)
    BY <1>1, <2>6 DEF Judge, BecomesIdle, serviceVars, peerVars
  <2> QED BY <1>2, <1>7, <1>9, <2>1, <2>2, <2>3, <2>4, <2>5, <2>6 DEF Next

\* "Used to restore the persistent sessions": a peer that came back alone to its
\* service, and has opened a terminal there, knows every terminal the service has,
\* by its own opens or by name (needs_session_sync).
THEOREM AlwaysRestored == Spec => []Restored
<1> DEFINE Inv == TypeOK /\ Holding /\ Owned /\ Solo /\ Synced
<1>1. Init => Inv
  <2> SUFFICES ASSUME Init PROVE Owned /\ Solo /\ Synced
    BY InitHolds
  <2>1. Flat
    BY InitHolds, Parts
  <2>2. alone = {} /\ \A i \in Ids : registry[i] = 0
    BY DEF Init
  <2>3. Solo /\ Synced
    BY <2>2 DEF Solo, Synced, Alone
  <2>4. Owned
    BY <2>2 DEF Owned
  <2> QED BY <2>3, <2>4
<1>2. Inv /\ [Next]_vars => Inv'
  <2> SUFFICES ASSUME Inv, [Next]_vars
               PROVE  TypeOK' /\ Holding' /\ Owned' /\ Solo' /\ Synced'
    OBVIOUS
  <2>1. Flat /\ Few /\ Taken /\ Locks
    BY Parts
  <2>2. Flat' /\ Few' /\ Taken' /\ Locks' /\ Holding'
    BY <2>1, FlatStep, LocksStep, FewStep
  <2>3. TypeOK'
    BY <2>2, Parts, PTL
  <2> QED BY <2>1, <2>2, <2>3, OwnedStep, SoloStep, SyncedStep
<1>3. Inv => Restored
  <2> SUFFICES ASSUME Inv, NEW c \in alone, conn[c] = "on", knows[c] # {}, registry[id[c]] # 0
               PROVE  TerminalsOf(registry[id[c]]) \subseteq knows[c] \cup named[c]
    BY DEF Restored
  <2>1. c \in Conns /\ Alone(c)
    BY Parts DEF Alone, Flat, PeerTypes
  <2> QED BY <2>1 DEF Synced
<1> QED BY <1>1, <1>2, <1>3, PTL DEF Spec
-----------------------------------------------------------------------------
(* OutputFirst.  A shell that is marked as closed and open has an empty    *)
(* channel while nobody holds its session; and while a connection reads, a *)
(* terminal of a service it has alone keeps its shell, so what it noted    *)
(* as closed is marked.                                                    *)

Reading == {"scan", "drain"}
Fresh == \A s \in Shells : s > started => s \notin finished /\ child[s] = "taken"
Ended == \A c \in Conns : pc[c] \notin Reading => closed_terminals[c] = {}
Emptied ==
    \A s \in closed_message_sent :
        s \in is_opened /\ lock[s] = Free /\ ~piped => channel[s] = 0
Settled ==
    \A c \in Conns : Stays(c) /\ pc[c] \in Reading =>
        /\ \A p \in todo[c] : ShellOf(c, p[1]) = p[2]
        /\ \A t \in closed_terminals[c] : ShellOf(c, t) \in closed_message_sent

\* What is stopped has been started.
LEMMA StopsStarted ==
    ASSUME Flat, NEW v \in Services
    PROVE  /\ ShellsOf(v) \subseteq 1..started
           /\ \A t \in Tids : {sessions[v][t]} \ {0} \subseteq 1..started
  BY Numbers, ShellFacts DEF ShellsOf

LEMMA FreshStep ==
    ASSUME Flat, Locks, Holding, Fresh, [Next]_vars
    PROVE  Fresh'
<1> USE Numbers DEF Flat, ShellTypes, Shells
<1>1. CASE UNCHANGED <<started, child, finished>>
  BY <1>1 DEF Fresh
<1>2. ASSUME NEW dropped, dropped \subseteq 1..started, Stop(dropped)
      PROVE  Fresh'
  <2>1. \A s \in Shells : s > started => s \notin dropped
    BY <1>2
  <2>2. \A s \in Shells : s \notin dropped => child'[s] = child[s]
    BY <1>2 DEF Stop
  <2>3. started' = started /\ finished' = finished \cup dropped
    BY <1>2 DEF Stop
  <2> QED BY <2>1, <2>2, <2>3 DEF Fresh
<1>3. ASSUME NEW c \in Conns, OpenFails(c) \/ \E t \in closed_terminals[c] : Clean(c, t)
      PROVE  Fresh'
  <2>1. PICK t \in Tids : Stop({sessions[hold[c]][t]} \ {0})
    BY <1>3 DEF OpenFails, Clean, CallTypes
  <2>2. hold[c] \in Services
    BY <1>3 DEF OpenFails, Clean, Holding, CallTypes
  <2> QED BY <1>2, <2>1, <2>2, StopsStarted
<1>4. ASSUME NEW c \in Conns, NEW t \in Tids, Close(c, t)
      PROVE  Fresh'
  <2> DEFINE s == sessions[registry[id[c]]][t]
  <2>1. registry[id[c]] \in Services /\ s # 0 /\ Stop({s})
    BY <1>4 DEF Close, ServiceTypes, CallTypes
  <2>2. {s} \subseteq 1..started
    BY <2>1, StopsStarted
  <2> QED BY <1>2, <2>1, <2>2
<1>5. ASSUME NEW i \in Ids, RemoveService(i)
      PROVE  Fresh'
  <2>1. CASE registry[i] = 0
    BY <1>1, <1>5, <2>1 DEF RemoveService, shellVars
  <2>2. CASE registry[i] # 0
    <3>1. registry[i] \in Services /\ Stop(ShellsOf(registry[i]))
      BY <1>5, <2>2 DEF RemoveService, ServiceTypes
    <3> QED BY <1>2, <3>1, StopsStarted
  <2> QED BY <2>1, <2>2
<1>6. ASSUME NEW c \in Conns, OpenNew(c)
      PROVE  Fresh'
  <2> DEFINE old == sessions[hold[c]][arg[c]]
  <2>1. old \in 0..started
    BY <1>6, ShellFacts DEF OpenNew, Holding, CallTypes
  <2>2. /\ started' = started + 1 /\ finished' = finished \cup ({old} \ {0})
        /\ child' = [x \in Shells |-> IF x = started + 1 THEN "running"
                                      ELSE IF x = old THEN "taken" ELSE child[x]]
    BY <1>6 DEF OpenNew
  <2> HIDE DEF old
  <2> QED BY <2>1, <2>2 DEF Fresh
<1>7. ASSUME NEW s \in Shells, Prints(s) \/ Exit(s) \/ ReaderEnds(s)
      PROVE  Fresh'
  <2>1. started' = started
    BY <1>7 DEF Prints, Exit, ReaderEnds
  <2>2. \A x \in Shells : x # s => child'[x] = child[x] /\ (x \in finished' <=> x \in finished)
    BY <1>7 DEF Prints, Exit, ReaderEnds
  <2>3. s > started => child'[s] = child[s] /\ (s \in finished' <=> s \in finished)
    BY <1>7 DEF Prints, Exit, ReaderEnds, Fresh
  <2> QED BY <2>1, <2>2, <2>3 DEF Fresh
<1> QED
  <2>1. CASE UNCHANGED vars
    BY <1>1, <2>1 DEF vars, shellVars
  <2>2. CASE \E c \in Conns, i \in Ids : LoginToOld(c, i) \/ LoginToNew(c, i)
    BY <1>1, <2>2 DEF LoginToOld, LoginToNew, Reset
  <2>3. CASE \E c \in Conns : Authorize(c) \/ Disconnect(c) \/ Touch(c)
    BY <1>1, <2>3 DEF Authorize, Disconnect, Touch, shellVars
  <2>4. CASE \E c \in Conns, t \in Tids : Open(c, t)
    BY <1>1, <2>4 DEF Open, shellVars
  <2>5. CASE \E c \in Conns : Works(c)
    <3>1. PICK c \in Conns : Works(c)
      BY <2>5
    <3>2. CASE OpenOld(c) \/ OpenInVain(c) \/ List(c) \/ Drain(c) \/ ReadDone(c)
      BY <1>1, <3>2 DEF OpenOld, OpenInVain, List, Drain, ReadDone, shellVars
    <3>3. CASE \E p \in todo[c] : PassOver(c, p) \/ Look(c, p)
      BY <1>1, <3>3 DEF PassOver, Look, shellVars
    <3> QED BY <1>3, <1>6, <3>1, <3>2, <3>3 DEF Works
  <2>6. CASE Judge \/ \E v \in Services : BecomesIdle(v)
    BY <1>1, <2>6 DEF Judge, BecomesIdle, shellVars
  <2> QED BY <1>4, <1>5, <1>7, <2>1, <2>2, <2>3, <2>4, <2>5, <2>6 DEF Next

LEMMA EndedStep ==
    ASSUME Flat, Locks, Ended, [Next]_vars
    PROVE  Ended'
<1> USE DEF Flat, CallTypes, Reading
<1>1. CASE UNCHANGED <<pc, closed_terminals>>
  BY <1>1 DEF Ended
<1>2. ASSUME NEW c \in Conns, \A d \in Conns : d # c => pc'[d] = pc[d] /\ closed_terminals'[d] = closed_terminals[d],
             pc'[c] \notin Reading => closed_terminals'[c] = {}
      PROVE  Ended'
  BY <1>2 DEF Ended
<1>3. ASSUME NEW c \in Conns, Touch(c) \/ \E t \in Tids : Open(c, t) \/ Close(c, t)
      PROVE  Ended'
  BY <1>2, <1>3 DEF Touch, Open, Close, Goes, Ended
<1>4. ASSUME NEW c \in Conns, Works(c)
      PROVE  Ended'
  <2>1. CASE OpenOld(c) \/ OpenNew(c) \/ OpenInVain(c) \/ OpenFails(c)
    BY <1>2, <2>1 DEF OpenOld, OpenNew, OpenInVain, OpenFails, Goes, Ended
  <2>2. CASE List(c)
    BY <1>2, <2>2 DEF List, Goes, Ended
  <2>3. CASE Drain(c) \/ ReadDone(c)
    BY <1>2, <2>3 DEF Drain, ReadDone, Goes, Ended
  <2>4. CASE \E p \in todo[c] : PassOver(c, p)
    BY <1>1, <2>4 DEF PassOver
  <2>5. CASE \E p \in todo[c] : Look(c, p)
    BY <1>2, <2>5 DEF Look, Goes
  <2>6. CASE \E t \in closed_terminals[c] : Clean(c, t)
    BY <1>2, <2>6 DEF Clean
  <2> QED BY <1>4, <2>1, <2>2, <2>3, <2>4, <2>5, <2>6 DEF Works
<1> QED
  <2>1. CASE UNCHANGED vars
    BY <1>1, <2>1 DEF vars, callVars
  <2>2. CASE \E c \in Conns, i \in Ids : LoginToOld(c, i) \/ LoginToNew(c, i)
    BY <1>1, <2>2 DEF LoginToOld, LoginToNew, callVars
  <2>3. CASE \E c \in Conns : Authorize(c) \/ Disconnect(c)
    BY <1>1, <2>3 DEF Authorize, Disconnect, callVars
  <2>4. CASE \E s \in Shells : Prints(s) \/ Exit(s) \/ ReaderEnds(s)
    BY <1>1, <2>4 DEF Prints, Exit, ReaderEnds, callVars
  <2>5. CASE Judge \/ \E v \in Services : BecomesIdle(v)
    BY <1>1, <2>5 DEF Judge, BecomesIdle, callVars
  <2>6. CASE \E i \in Ids : RemoveService(i)
    BY <1>1, <2>6 DEF RemoveService, callVars
  <2> QED BY <1>3, <1>4, <2>1, <2>2, <2>3, <2>4, <2>5, <2>6 DEF Next

LEMMA EmptiedStep ==
    ASSUME Flat, Locks, Holding, Fresh, Emptied, [Next]_vars
    PROVE  Emptied'
<1> USE Numbers DEF Flat, ShellTypes
<1>1. CASE UNCHANGED <<closed_message_sent, channel, lock, piped>> /\ is_opened' \subseteq is_opened
  BY <1>1 DEF Emptied
<1>2. ASSUME NEW dropped, Stop(dropped), piped' = piped
      PROVE  Emptied'
  <2>1. \A s \in Shells : channel'[s] = 0 \/ channel'[s] = channel[s]
    BY <1>2 DEF Stop
  <2> QED BY <1>2, <2>1 DEF Stop, Emptied
\* One that is marked is not opened.
<1>3. ASSUME NEW c \in Conns, OpenOld(c)
      PROVE  Emptied'
  <2>1. sessions[hold[c]][arg[c]] \notin closed_message_sent
    BY <1>3 DEF OpenOld, Dead
  <2> QED BY <1>3, <2>1 DEF OpenOld, Emptied
<1>4. ASSUME NEW c \in Conns, OpenNew(c)
      PROVE  Emptied'
  <2>1. started + 1 \in Shells /\ started + 1 \notin closed_message_sent
    BY <1>4 DEF OpenNew, Fresh, Shells
  <2>2. \A s \in Shells : channel'[s] = 0 \/ channel'[s] = channel[s]
    BY <1>4 DEF OpenNew
  <2>3. /\ is_opened' \subseteq is_opened \cup {started + 1}
        /\ UNCHANGED <<closed_message_sent, lock, piped>>
    BY <1>4 DEF OpenNew
  <2> QED BY <2>1, <2>2, <2>3 DEF Emptied
\* An open one is marked with its session held.
<1>5. ASSUME NEW c \in Conns, NEW p \in todo[c], Look(c, p)
      PROVE  Emptied'
  <2>1. p[2] \in Shells
    BY DEF CallTypes
  <2>2. UNCHANGED <<channel, is_opened, piped>>
    BY <1>5 DEF Look
  <2>3. closed_message_sent' \subseteq closed_message_sent \cup {p[2]}
    BY <1>5 DEF Look
  <2>4. p[2] \in is_opened => lock'[p[2]] # Free
    BY <1>5, <2>1, FreeNotConn DEF Look
  <2>5. \A s \in Shells : s # p[2] => lock'[s] = lock[s]
    BY <1>5 DEF Look
  <2> QED BY <2>1, <2>2, <2>3, <2>4, <2>5 DEF Emptied
\* A session that is let go of has just been emptied.
<1>6. ASSUME NEW c \in Conns, Drain(c)
      PROVE  Emptied'
  <2> DEFINE p == CHOOSE p \in todo[c] : p[1] = arg[c]
  <2>1. /\ channel' = [channel EXCEPT ![p[2]] = 0] /\ lock' = [lock EXCEPT ![p[2]] = Free]
        /\ UNCHANGED <<is_opened, closed_message_sent, piped>>
    BY <1>6 DEF Drain
  <2> HIDE DEF p
  <2> QED BY <2>1 DEF Emptied
\* Only a reader that has not ended writes, where there is a PTY.
<1>7. ASSUME NEW s \in Shells, Prints(s)
      PROVE  Emptied'
  <2>1. s \notin closed_message_sent \/ piped
    BY <1>7 DEF Prints, Writing
  <2>2. \A x \in Shells : x # s => channel'[x] = channel[x]
    BY <1>7 DEF Prints
  <2>3. UNCHANGED <<is_opened, closed_message_sent, lock, piped>>
    BY <1>7 DEF Prints
  <2> QED BY <2>1, <2>2, <2>3 DEF Emptied
<1> QED
  <2>1. CASE UNCHANGED vars
    BY <1>1, <2>1 DEF vars, shellVars
  <2>2. CASE \E c \in Conns, i \in Ids : LoginToOld(c, i) \/ LoginToNew(c, i)
    BY <1>1, <2>2 DEF LoginToOld, LoginToNew, Reset
  <2>3. CASE \E c \in Conns : Authorize(c) \/ Disconnect(c) \/ Touch(c)
    BY <1>1, <2>3 DEF Authorize, Disconnect, Touch, shellVars
  <2>4. CASE \E c \in Conns, t \in Tids : Open(c, t)
    BY <1>1, <2>4 DEF Open, shellVars
  <2>5. CASE \E c \in Conns, t \in Tids : Close(c, t)
    BY <1>2, <2>5 DEF Close
  <2>6. CASE \E c \in Conns : Works(c)
    <3>1. PICK c \in Conns : Works(c)
      BY <2>6
    <3>2. CASE OpenInVain(c) \/ List(c) \/ ReadDone(c)
      BY <1>1, <3>2 DEF OpenInVain, List, ReadDone, shellVars
    <3>3. CASE OpenFails(c) \/ \E t \in closed_terminals[c] : Clean(c, t)
      BY <1>2, <3>3 DEF OpenFails, Clean
    <3>4. CASE \E p \in todo[c] : PassOver(c, p)
      BY <1>1, <3>4 DEF PassOver, shellVars
    <3> QED BY <1>3, <1>4, <1>5, <1>6, <3>1, <3>2, <3>3, <3>4 DEF Works
  <2>7. CASE \E s \in Shells : Exit(s) \/ ReaderEnds(s)
    BY <1>1, <2>7 DEF Exit, ReaderEnds
  <2>8. CASE Judge \/ \E v \in Services : BecomesIdle(v)
    BY <1>1, <2>8 DEF Judge, BecomesIdle, shellVars
  <2>9. CASE \E i \in Ids : RemoveService(i)
    <3>1. PICK i \in Ids : RemoveService(i)
      BY <2>9
    <3>2. piped' = piped /\ (UNCHANGED shellVars \/ Stop(ShellsOf(registry[i])))
      BY <3>1 DEF RemoveService
    <3> QED BY <1>1, <1>2, <3>2 DEF shellVars
  <2> QED BY <1>7, <2>1, <2>2, <2>3, <2>4, <2>5, <2>6, <2>7, <2>8, <2>9 DEF Next

\* What Settled says of the next state, spelled out.
LEMMA SettledNext ==
    ASSUME \A d \in Conns :
              /\ conn'[d] = "on" /\ d \in alone' /\ registry'[id'[d]] # 0 /\ pc'[d] \in Reading
              => /\ \A p \in todo'[d] : sessions'[registry'[id'[d]]][p[1]] = p[2]
                 /\ \A t \in closed_terminals'[d] :
                       sessions'[registry'[id'[d]]][t] \in closed_message_sent'
    PROVE  Settled'
  BY Zenon DEF Settled, Stays, ShellOf

LEMMA SettledStep ==
    ASSUME Flat, Locks, Holding, Owned, Solo, Ended, Settled, [Next]_vars
    PROVE  Settled'
<1> USE DEF Flat, CallTypes
\* A connection that stays and reads finds what it has still to do with no more
\* than it had, and the terminals of its service as they were.
<1>1. ASSUME closed_message_sent \subseteq closed_message_sent',
             \A d \in Conns :
                /\ conn'[d] = "on" /\ d \in alone' /\ registry'[id'[d]] # 0 /\ pc'[d] \in Reading
                => /\ d \in alone /\ pc[d] \in Reading /\ registry'[id'[d]] = registry[id[d]]
                   /\ todo'[d] \subseteq todo[d] /\ closed_terminals'[d] \subseteq closed_terminals[d]
                   /\ sessions'[registry[id[d]]] = sessions[registry[id[d]]]
      PROVE  Settled'
  <2>1. SUFFICES ASSUME NEW d \in Conns, conn'[d] = "on", d \in alone', registry'[id'[d]] # 0,
                        pc'[d] \in Reading
                 PROVE  /\ \A p \in todo'[d] : sessions'[registry'[id'[d]]][p[1]] = p[2]
                        /\ \A t \in closed_terminals'[d] :
                              sessions'[registry'[id'[d]]][t] \in closed_message_sent'
    BY SettledNext
  <2>2. /\ d \in alone /\ pc[d] \in Reading /\ registry'[id'[d]] = registry[id[d]]
        /\ todo'[d] \subseteq todo[d] /\ closed_terminals'[d] \subseteq closed_terminals[d]
        /\ sessions'[registry[id[d]]] = sessions[registry[id[d]]]
    BY <1>1, <2>1
  <2>3. Stays(d)
    BY <2>1, <2>2 DEF Stays, Locks, Reading
  <2>4. /\ \A p \in todo[d] : sessions[registry[id[d]]][p[1]] = p[2]
        /\ \A t \in closed_terminals[d] : sessions[registry[id[d]]][t] \in closed_message_sent
    BY <2>2, <2>3 DEF Settled, ShellOf
  <2> QED BY <1>1, <2>2, <2>4
<1>2. ASSUME closed_message_sent \subseteq closed_message_sent',
             UNCHANGED <<registry, sessions, id, alone>>,
             \A d \in Conns : pc'[d] \in Reading =>
                /\ pc[d] \in Reading
                /\ todo'[d] \subseteq todo[d] /\ closed_terminals'[d] \subseteq closed_terminals[d]
      PROVE  Settled'
  BY <1>1, <1>2
\* A login joins nobody who stays alone.
<1>3. ASSUME NEW c \in Conns, NEW i \in Ids, LoginToOld(c, i) \/ LoginToNew(c, i)
      PROVE  Settled'
  <2>1. Joins(c, i) /\ conn[c] = "off" /\ UNCHANGED <<sessions, closed_message_sent, callVars>>
    BY <1>3 DEF LoginToOld, LoginToNew
  <2>2. \A j \in Ids : j # i => registry'[j] = registry[j]
    BY <1>3 DEF LoginToOld, LoginToNew, ServiceTypes
  <2>3. ASSUME NEW d \in Conns, conn'[d] = "on", d \in alone'
        PROVE  d # c /\ Alone(d) /\ id'[d] = id[d] /\ id[d] # i /\ id[d] \in Ids
    <3>1. d # c /\ Alone(d)'
      BY <2>1, <2>3, JoinsAlone DEF Alone
    <3> QED BY <2>1, <2>3, <3>1, JoinsAlone
  <2> QED BY <1>1, <2>1, <2>2, <2>3 DEF Alone, callVars
\* A connection that changes the terminals of a service that is its own, if the
\* other one it has alone, does not read, or has looked at all.
<1>4. ASSUME NEW c \in Conns, conn[c] = "on", NEW v \in Services,
             v = hold[c] \/ v = registry[id[c]],
             \A w \in Services : w # v => sessions'[w] = sessions[w],
             UNCHANGED <<registry, id, conn, alone, closed_message_sent>>,
             \A d \in Conns : d # c => /\ pc'[d] = pc[d] /\ todo'[d] = todo[d]
                                       /\ closed_terminals'[d] = closed_terminals[d],
             pc'[c] \notin Reading
      PROVE  Settled'
  <2>1. ASSUME NEW d \in Conns, conn'[d] = "on", d \in alone', registry'[id'[d]] # 0, pc'[d] \in Reading
        PROVE  sessions'[registry[id[d]]] = sessions[registry[id[d]]] /\ d # c
    <3>1. d # c /\ Alone(d) /\ registry[id[d]] # 0 /\ registry[id[d]] \in Services
      BY <1>4, <2>1, Numbers DEF Alone, ServiceTypes
    <3>2. registry[id[d]] # v
      BY <1>4, <3>1, NobodyElse
    <3> QED BY <1>4, <3>1, <3>2
  <2> QED BY <1>1, <1>4, <2>1
<1>5. ASSUME NEW c \in Conns, OpenOld(c) \/ OpenInVain(c)
      PROVE  Settled'
  BY <1>2, <1>5 DEF OpenOld, OpenInVain, Opened, Goes, Reading, shellVars
<1>6. ASSUME NEW c \in Conns, OpenNew(c) \/ OpenFails(c)
      PROVE  Settled'
  <2>1. conn[c] = "on" /\ hold[c] \in Services /\ arg[c] \in Tids
    BY <1>6, Numbers DEF OpenNew, OpenFails, Holding, Locks
  <2>2. \A w \in Services : w # hold[c] => sessions'[w] = sessions[w]
    BY <1>6, <2>1 DEF OpenNew, OpenFails, ServiceTypes
  <2>3. /\ UNCHANGED <<registry, id, conn, alone, closed_message_sent, todo, closed_terminals>>
        /\ pc' = [pc EXCEPT ![c] = "read"]
    BY <1>6 DEF OpenNew, OpenFails, Opened, Stop, Goes, peerVars
  <2> QED BY <1>4, <2>1, <2>2, <2>3 DEF Reading
<1>7. ASSUME NEW c \in Conns, NEW t \in Tids, Close(c, t)
      PROVE  Settled'
  <2>1. conn[c] = "on" /\ registry[id[c]] \in Services
    BY <1>7, Numbers DEF Close, ServiceTypes
  <2>2. \A w \in Services : w # registry[id[c]] => sessions'[w] = sessions[w]
    BY <1>7, <2>1 DEF Close, ServiceTypes
  <2>3. /\ UNCHANGED <<registry, id, conn, alone, closed_message_sent, todo, closed_terminals>>
        /\ pc' = [pc EXCEPT ![c] = "read"]
    BY <1>7 DEF Close, Stop, Goes
  <2> QED BY <1>4, <2>1, <2>2, <2>3 DEF Reading
\* The terminals of the service are listed with their shells.
<1>8. ASSUME NEW c \in Conns, List(c)
      PROVE  Settled'
  <2>1. SUFFICES ASSUME NEW d \in Conns, conn'[d] = "on", d \in alone', registry'[id'[d]] # 0,
                        pc'[d] \in Reading
                 PROVE  /\ \A p \in todo'[d] : sessions'[registry'[id'[d]]][p[1]] = p[2]
                        /\ \A t \in closed_terminals'[d] :
                              sessions'[registry'[id'[d]]][t] \in closed_message_sent'
    BY SettledNext
  <2>2. UNCHANGED <<registry, sessions, id, alone, conn, closed_terminals, closed_message_sent>>
    BY <1>8 DEF List, serviceVars, shellVars, peerVars
  <2>3. CASE d = c
    <3>1. closed_terminals[c] = {}
      BY <1>8 DEF List, Ended, Reading
    <3>2. todo'[c] = {<<t, sessions[registry[id[c]]][t]>> : t \in TerminalsOf(registry[id[c]])}
      BY <1>8, <2>1, <2>2, <2>3 DEF List
    <3> QED BY <2>2, <2>3, <3>1, <3>2
  <2>4. CASE d # c
    <3>1. pc'[d] = pc[d] /\ todo'[d] = todo[d]
      BY <1>8, <2>4 DEF List, Goes
    <3> QED BY <2>1, <2>2, <3>1 DEF Settled, Stays, ShellOf
  <2> QED BY <2>3, <2>4
\* What is noted as closed is the terminal of the shell that is marked.
<1>9. ASSUME NEW c \in Conns, NEW p \in todo[c], Look(c, p)
      PROVE  Settled'
  <2>1. SUFFICES ASSUME NEW d \in Conns, conn'[d] = "on", d \in alone', registry'[id'[d]] # 0,
                        pc'[d] \in Reading
                 PROVE  /\ \A q \in todo'[d] : sessions'[registry'[id'[d]]][q[1]] = q[2]
                        /\ \A t \in closed_terminals'[d] :
                              sessions'[registry'[id'[d]]][t] \in closed_message_sent'
    BY SettledNext
  <2>2. UNCHANGED <<registry, sessions, id, alone, conn>>
    BY <1>9 DEF Look, serviceVars, peerVars
  <2>3. closed_message_sent \subseteq closed_message_sent' /\ todo'[d] \subseteq todo[d]
    BY <1>9 DEF Look
  <2>4. pc[d] \in Reading
    BY <1>9, <2>1 DEF Look, Goes, Reading
  <2>5. \A t \in closed_terminals'[d] :
           t \in closed_terminals[d] \/ (d = c /\ t = p[1] /\ p[2] \in closed_message_sent')
    BY <1>9 DEF Look
  <2>6. /\ \A q \in todo[d] : sessions[registry[id[d]]][q[1]] = q[2]
        /\ \A t \in closed_terminals[d] : sessions[registry[id[d]]][t] \in closed_message_sent
    BY <2>1, <2>2, <2>4 DEF Settled, Stays, ShellOf
  <2> QED BY <2>2, <2>3, <2>5, <2>6
\* What is cleaned is not noted any more, and nothing is left to look at.
<1>10. ASSUME NEW c \in Conns, NEW t \in closed_terminals[c], Clean(c, t)
       PROVE  Settled'
  <2>1. SUFFICES ASSUME NEW d \in Conns, conn'[d] = "on", d \in alone', registry'[id'[d]] # 0,
                        pc'[d] \in Reading
                 PROVE  /\ \A q \in todo'[d] : sessions'[registry'[id'[d]]][q[1]] = q[2]
                        /\ \A u \in closed_terminals'[d] :
                              sessions'[registry'[id'[d]]][u] \in closed_message_sent'
    BY SettledNext
  <2>2. /\ UNCHANGED <<registry, id, conn, alone, closed_message_sent, pc, todo>>
        /\ sessions' = [sessions EXCEPT ![hold[c]][t] = 0]
        /\ closed_terminals' = [closed_terminals EXCEPT ![c] = closed_terminals[c] \ {t}]
        /\ todo[c] = {}
    BY <1>10 DEF Clean, Stop
  <2>3. conn[c] = "on" /\ hold[c] \in Services /\ t \in Tids
    BY <1>10, Numbers DEF Clean, Holding, Locks
  <2> DEFINE w == registry[id[d]]
  <2>4. Alone(d) /\ w # 0 /\ w \in Services
    BY <2>1, <2>2, Numbers DEF Alone, ServiceTypes
  <2>5. /\ \A q \in todo[d] : sessions[w][q[1]] = q[2]
        /\ \A u \in closed_terminals[d] : sessions[w][u] \in closed_message_sent
    BY <2>1, <2>2 DEF Settled, Stays, ShellOf
  <2>6. CASE d = c
    <3>1. \A u \in Tids : u # t => sessions'[w][u] = sessions[w][u]
      BY <2>2, <2>3, <2>4 DEF ServiceTypes
    <3> QED BY <2>2, <2>5, <2>6, <3>1
  <2>7. CASE d # c
    <3>1. w # hold[c]
      BY <2>3, <2>4, <2>7, NobodyElse
    <3>2. sessions'[w] = sessions[w]
      BY <2>2, <2>3, <2>4, <3>1 DEF ServiceTypes
    <3> QED BY <2>2, <2>5, <2>7, <3>2
  <2> QED BY <2>6, <2>7
<1>11. ASSUME NEW i \in Ids, RemoveService(i)
       PROVE  Settled'
  <2>1. \A j \in Ids : registry'[j] # 0 => registry'[j] = registry[j]
    BY <1>11 DEF RemoveService, ServiceTypes
  <2>2. UNCHANGED <<sessions, id, conn, alone, callVars, closed_message_sent>>
    BY <1>11 DEF RemoveService, Stop, shellVars, peerVars
  <2> QED BY <1>1, <2>1, <2>2 DEF callVars
<1> QED
  <2>1. CASE UNCHANGED vars
    BY <1>2, <2>1 DEF vars, serviceVars, shellVars, callVars, peerVars
  <2>2. CASE \E c \in Conns : Authorize(c) \/ Disconnect(c)
    BY <1>2, <2>2 DEF Authorize, Disconnect, serviceVars, shellVars, callVars, peerVars
  <2>3. CASE \E c \in Conns : Touch(c) \/ \E t \in Tids : Open(c, t)
    BY <1>2, <2>3 DEF Touch, Open, Goes, Reading, shellVars, peerVars
  <2>4. CASE \E c \in Conns : Works(c)
    <3>1. PICK c \in Conns : Works(c)
      BY <2>4
    <3>2. CASE Drain(c) \/ ReadDone(c)
      BY <1>2, <3>2 DEF Drain, ReadDone, Goes, Reading, serviceVars, shellVars, peerVars
    <3>3. CASE \E p \in todo[c] : PassOver(c, p)
      BY <1>2, <3>3 DEF PassOver, serviceVars, shellVars, peerVars
    <3> QED BY <1>5, <1>6, <1>8, <1>9, <1>10, <3>1, <3>2, <3>3 DEF Works
  <2>5. CASE \E s \in Shells : Prints(s) \/ Exit(s) \/ ReaderEnds(s)
    BY <1>2, <2>5 DEF Prints, Exit, ReaderEnds, serviceVars, callVars, peerVars
  <2>6. CASE Judge \/ \E v \in Services : BecomesIdle(v)
    BY <1>2, <2>6 DEF Judge, BecomesIdle, serviceVars, shellVars, callVars, peerVars
  <2> QED BY <1>3, <1>7, <1>11, <2>1, <2>2, <2>3, <2>4, <2>5, <2>6 DEF Next

\* read_outputs: when a peer that has its service alone is about to hear that a
\* terminal is closed, the terminal has the shell that was found ended, and if the
\* peer had opened it, and it has a PTY, its channel has been emptied to the end.
THEOREM OutputFirstTheorem == Spec => []OutputFirst
<1> DEFINE Inv == TypeOK /\ Holding /\ Owned /\ Solo /\ Fresh /\ Ended /\ Emptied /\ Settled
<1>1. Init => Inv
  <2> SUFFICES ASSUME Init PROVE Owned /\ Solo /\ Fresh /\ Ended /\ Emptied /\ Settled
    BY InitHolds
  <2>1. alone = {} /\ finished = {} /\ closed_message_sent = {} /\ \A i \in Ids : registry[i] = 0
    BY DEF Init
  <2>2. (\A s \in Shells : child[s] = "taken") /\ \A c \in Conns : closed_terminals[c] = {}
    BY DEF Init
  <2>3. Solo /\ Settled
    BY <2>1 DEF Solo, Settled, Alone, Stays
  <2>4. Owned
    BY <2>1 DEF Owned
  <2> QED BY <2>1, <2>2, <2>3, <2>4 DEF Fresh, Ended, Emptied
<1>2. Inv /\ [Next]_vars => Inv'
  <2> SUFFICES ASSUME Inv, [Next]_vars
               PROVE  TypeOK' /\ Holding' /\ Owned' /\ Solo' /\ Fresh' /\ Ended' /\ Emptied' /\ Settled'
    OBVIOUS
  <2>1. Flat /\ Few /\ Taken /\ Locks
    BY Parts
  <2>2. Flat' /\ Few' /\ Taken' /\ Locks' /\ Holding'
    BY <2>1, FlatStep, LocksStep, FewStep
  <2>3. TypeOK'
    BY <2>2, Parts, PTL
  <2> QED
    BY <2>1, <2>2, <2>3, OwnedStep, SoloStep, FreshStep, EndedStep, EmptiedStep, SettledStep
<1>3. Inv => OutputFirst
  <2> SUFFICES ASSUME Inv, NEW c \in Conns, Stays(c), NEW t \in closed_terminals[c]
               PROVE  /\ ShellOf(c, t) \in closed_message_sent
                      /\ ShellOf(c, t) \in is_opened /\ lock[ShellOf(c, t)] = Free /\ ~piped
                           => channel[ShellOf(c, t)] = 0
    BY DEF OutputFirst
  <2>1. ShellOf(c, t) \in closed_message_sent
    BY DEF Ended, Settled
  <2> QED BY <2>1 DEF Emptied
<1> QED BY <1>1, <1>2, <1>3, PTL DEF Spec
=============================================================================
