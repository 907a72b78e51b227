-------------------------- MODULE PrivacyModeProofs --------------------------
(* What holds of PrivacyMode for any set of connections and of workers, and *)
(* any bounds.                                                              *)
EXTENDS PrivacyMode, TLAPS

-----------------------------------------------------------------------------
(* Types, the lock with the worker that is at work, and a task that waits  *)
(* with a worker of its own: the three parts of TypeOK.                    *)

Calls == [conn : Conns \cup {NoConn}, key : Impls, at : Stages, async : BOOLEAN]
Tasks == Authed \cup {"new", "checked", "gone"}
Types ==
    /\ platform \in {"x64", "x86"}
    /\ mutex \in Threads \cup {Free}
    /\ current \in Impls
    /\ holder \in Conns \cup {NoConn} /\ seen \in Conns \cup {NoConn}
    /\ window \in BOOLEAN /\ dark \in BOOLEAN /\ recovery \in BOOLEAN
    /\ hook \in {"none", "set", "leaving"}
    /\ thread \in [Threads -> Calls]
    /\ task \in [Conns -> Tasks]
    /\ waits \in [Conns -> Threads \cup {NoThread}]
    /\ told \subseteq Conns /\ notice \subseteq Conns /\ sentaway \subseteq Conns
    /\ robbed \subseteq Conns /\ late \in BOOLEAN
    /\ torn \in BOOLEAN /\ jammed \in BOOLEAN /\ crashes \in 0..MaxCrashes
    /\ calls \in 0..MaxCalls
Lock == \A t \in Threads : mutex = t <=> thread[t].at \in Working
Waits == \A c \in Conns : IF task[c] = "turning"
                          THEN waits[c] \in Threads /\ thread[waits[c]].conn = c
                          ELSE waits[c] = NoThread

LEMMA TypeParts == TypeOK <=> Types /\ Lock /\ Waits
BY DEF TypeOK, Types, Lock, Waits, Calls, Tasks

LEMMA TypeInit == Init => TypeOK
<1> SUFFICES ASSUME Init PROVE Types /\ Lock /\ Waits
  BY TypeParts
<1> USE PrivacyAssumption DEF Init
<1>1. Types
  <2>1. current \in Impls /\ platform \in {"x64", "x86"}
    BY DEF Default, Impls
  <2>2. Idle \in Calls
    BY DEF Idle, Calls, Impls, Stages
  <2>3. crashes \in 0..MaxCrashes /\ calls \in 0..MaxCalls
    OBVIOUS
  <2>4. thread \in [Threads -> Calls] /\ task \in [Conns -> Tasks]
    BY <2>2 DEF Tasks
  <2> QED
    BY <2>1, <2>3, <2>4 DEF Types
<1>2. Lock
  BY DEF Lock, Idle, Working
<1>3. Waits
  BY DEF Waits
<1> QED
  BY <1>1, <1>2, <1>3

\* Turning off keeps the types.
LEMMA TurnOffTypes ==
    ASSUME Types, TurnOff
    PROVE  /\ window' \in BOOLEAN /\ dark' \in BOOLEAN /\ recovery' \in BOOLEAN
           /\ jammed' \in BOOLEAN /\ hook' \in {"none", "set", "leaving"}
           /\ holder' = NoConn
<1>1. dark' \in BOOLEAN /\ recovery' \in BOOLEAN
  BY Zenon DEF TurnOff
<1> QED
  BY <1>1 DEF Types, TurnOff, Unhook

\* How a worker's record changes: to the record of no call, or to another stage.
LEMMA ThreadSteps ==
    ASSUME Types, NEW t \in Threads, NEW stage \in Stages
    PROVE  /\ [thread EXCEPT ![t].at = stage] \in [Threads -> Calls]
           /\ [thread EXCEPT ![t] = Idle] \in [Threads -> Calls]
<1>1. thread[t] \in Calls
  BY DEF Types
<1>2. [thread[t] EXCEPT !.at = stage] \in Calls
  BY <1>1 DEF Calls
<1>3. Idle \in Calls
  BY DEF Idle, Calls, Impls, Stages
<1> QED
  BY <1>2, <1>3 DEF Types

LEMMA EndsTypes ==
    ASSUME Types, NEW t \in Threads, NEW answer \in {"true", "false", "err"}, Ends(t, answer)
    PROVE  thread' \in [Threads -> Calls]
<1>1. thread' = [thread EXCEPT ![t].at = answer] \/ thread' = [thread EXCEPT ![t] = Idle]
  BY DEF Ends
<1>2. answer \in Stages
  BY DEF Stages
<1>3. /\ [thread EXCEPT ![t].at = answer] \in [Threads -> Calls]
      /\ [thread EXCEPT ![t] = Idle] \in [Threads -> Calls]
  BY <1>2, ThreadSteps
<1> QED
  BY <1>1, <1>3

\* The answer of a worker is taken, and the task goes on.
LEMMA CollectTypes ==
    ASSUME Types, NEW c \in Conns, waits[c] \in Threads, NEW to \in Tasks, Collect(c, to)
    PROVE  /\ thread' \in [Threads -> Calls]
           /\ waits' \in [Conns -> Threads \cup {NoThread}]
           /\ task' \in [Conns -> Tasks]
<1>1. [thread EXCEPT ![waits[c]] = Idle] \in [Threads -> Calls]
  <2>1. "idle" \in Stages
    BY DEF Stages
  <2> QED
    BY <2>1, ThreadSteps
<1>2. waits' \in [Conns -> Threads \cup {NoThread}]
  BY DEF Collect, Types
<1>3. task' \in [Conns -> Tasks]
  BY DEF Collect, Goes, Types
<1> QED
  BY <1>1, <1>2, <1>3 DEF Collect

LEMMA TypesStep == TypeOK /\ [Next]_vars => Types'
<1> SUFFICES ASSUME TypeOK, [Next]_vars
             PROVE  Types'
  OBVIOUS
<1>0. Types /\ Lock /\ Waits
  BY TypeParts
<1> USE <1>0 DEF Types, Tasks, offVars, implVars, taskVars, videoVars, noteVars, processVars
<1>1. ASSUME NEW t \in Threads, BeginTurnOn(t)
      PROVE  Types'
  <2>1. thread' \in [Threads -> Calls]
    <3>1. CASE \E answer \in {"true", "false", "err"} : Ends(t, answer)
      BY <3>1, EndsTypes
    <3>2. CASE \E stage \in Stages : thread' = [thread EXCEPT ![t].at = stage]
      BY <3>2, ThreadSteps
    <3> QED
      BY <1>1, <3>1, <3>2 DEF BeginTurnOn, Stages
  <2>2. mutex' \in Threads \cup {Free} /\ current' \in Impls /\ robbed' \subseteq Conns
    BY <1>1 DEF BeginTurnOn, Silently, Calls
  <2>3. /\ window' \in BOOLEAN /\ dark' \in BOOLEAN /\ recovery' \in BOOLEAN
        /\ jammed' \in BOOLEAN /\ hook' \in {"none", "set", "leaving"}
        /\ holder' \in Conns \cup {NoConn}
    <3>1. CASE TurnOff
      BY <3>1, TurnOffTypes
    <3>2. CASE UNCHANGED offVars
      BY <3>2
    <3> QED
      BY <1>1, <3>1, <3>2 DEF BeginTurnOn
  <2> QED
    BY <1>1, <2>1, <2>2, <2>3 DEF BeginTurnOn
<1>2. ASSUME NEW t \in Threads, Commit(t)
      PROVE  Types'
  <2>1. "committed" \in Stages
    BY DEF Stages
  <2>2. [thread EXCEPT ![t].at = "committed"] \in [Threads -> Calls]
    BY <2>1, ThreadSteps
  <2> QED
    BY <1>2, <2>2 DEF Commit
<1>3. ASSUME NEW t \in Threads, FinishTurnOn(t)
      PROVE  Types'
  <2>1. thread' \in [Threads -> Calls]
    BY <1>3, EndsTypes DEF FinishTurnOn
  <2>2. holder' \in Conns \cup {NoConn} /\ window' \in BOOLEAN /\ recovery' \in BOOLEAN
    BY <1>3 DEF FinishTurnOn, Calls
  <2>3. late' \in BOOLEAN
    BY <1>3 DEF FinishTurnOn, Abandoned
  <2> QED
    BY <1>3, <2>1, <2>2, <2>3 DEF FinishTurnOn
<1>4. ASSUME NEW t \in Threads, FailTurnOn(t)
      PROVE  Types'
  <2>1. thread' \in [Threads -> Calls]
    BY <1>4, EndsTypes DEF FailTurnOn
  <2>2. /\ window' \in BOOLEAN /\ dark' \in BOOLEAN /\ recovery' \in BOOLEAN
        /\ jammed' \in BOOLEAN /\ hook' \in {"none", "set", "leaving"}
        /\ holder' \in Conns \cup {NoConn}
    BY <1>4, TurnOffTypes DEF FailTurnOn
  <2> QED
    BY <1>4, <2>1, <2>2 DEF FailTurnOn
<1>5. ASSUME NEW c \in Conns, Login(c)
      PROVE  Types'
  BY <1>5 DEF Login, Goes, Authed
<1>6. ASSUME NEW c \in Conns, Accept(c)
      PROVE  Types'
  BY <1>6 DEF Accept, Goes, Authed
<1>7. ASSUME NEW c \in Conns, Refuse(c)
      PROVE  Types'
  BY <1>7 DEF Refuse, Goes, Authed
<1>8. ASSUME NEW c \in Conns, TurnedOn(c)
      PROVE  Types'
  <2>1. waits[c] \in Threads
    BY <1>8 DEF TurnedOn, Waits
  <2>2. /\ thread' \in [Threads -> Calls]
        /\ waits' \in [Conns -> Threads \cup {NoThread}]
        /\ task' \in [Conns -> Tasks]
    <3>1. \E to \in Tasks : Collect(c, to)
      BY <1>8 DEF TurnedOn, Authed
    <3> QED
      BY <2>1, <3>1, CollectTypes
  <2>3. told' \subseteq Conns /\ robbed' \subseteq Conns /\ notice' \subseteq Conns /\ late' \in BOOLEAN
    BY <1>8 DEF TurnedOn, Says, Collect
  <2> QED
    BY <1>8, <2>2, <2>3 DEF TurnedOn, Collect
<1>9. ASSUME NEW c \in Conns, NotTurnedOn(c)
      PROVE  Types'
  <2>1. waits[c] \in Threads
    BY <1>9 DEF NotTurnedOn, Waits
  <2>2. /\ thread' \in [Threads -> Calls]
        /\ waits' \in [Conns -> Threads \cup {NoThread}]
        /\ task' \in [Conns -> Tasks]
    <3>1. \E to \in Tasks : Collect(c, to)
      BY <1>9 DEF NotTurnedOn, Authed
    <3> QED
      BY <2>1, <3>1, CollectTypes
  <2>3. told' \subseteq Conns /\ robbed' \subseteq Conns /\ notice' \subseteq Conns /\ late' \in BOOLEAN
    BY <1>9 DEF NotTurnedOn, Says, Collect
  <2> QED
    BY <1>9, <2>2, <2>3 DEF NotTurnedOn, Collect
<1>10. ASSUME NEW c \in Conns, TimesOut(c)
      PROVE  Types'
  BY <1>10 DEF TimesOut, Goes, Authed
<1>11. ASSUME NEW c \in Conns, SeesFailure(c)
      PROVE  Types'
  BY <1>11 DEF SeesFailure, Goes, Authed, Says
<1>12. ASSUME NEW c \in Conns, CleansUp(c)
      PROVE  Types'
  <2>1. /\ window' \in BOOLEAN /\ dark' \in BOOLEAN /\ recovery' \in BOOLEAN
        /\ jammed' \in BOOLEAN /\ hook' \in {"none", "set", "leaving"}
        /\ holder' \in Conns \cup {NoConn}
    BY <1>12, TurnOffTypes DEF CleansUp
  <2>2. told' \subseteq Conns /\ robbed' \subseteq Conns /\ notice' \subseteq Conns
    BY <1>12 DEF CleansUp, Says, Silently, In
  <2>3. task' \in [Conns -> Tasks]
    BY <1>12 DEF CleansUp, Goes, Authed
  <2> QED
    BY <1>12, <2>1, <2>2, <2>3 DEF CleansUp
<1>13. ASSUME NEW c \in Conns, Undoes(c)
      PROVE  Types'
  <2>1. /\ window' \in BOOLEAN /\ dark' \in BOOLEAN /\ recovery' \in BOOLEAN
        /\ jammed' \in BOOLEAN /\ hook' \in {"none", "set", "leaving"}
        /\ holder' \in Conns \cup {NoConn}
    BY <1>13, TurnOffTypes DEF Undoes
  <2>2. told' \subseteq Conns /\ robbed' \subseteq Conns /\ notice' \subseteq Conns
    BY <1>13 DEF Undoes, Says, Silently, In
  <2>3. task' \in [Conns -> Tasks]
    BY <1>13 DEF Undoes, Goes, Authed
  <2> QED
    BY <1>13, <2>1, <2>2, <2>3 DEF Undoes
<1>14. ASSUME NEW c \in Conns, ToggleOff(c)
      PROVE  Types'
  <2>1. /\ window' \in BOOLEAN /\ dark' \in BOOLEAN /\ recovery' \in BOOLEAN
        /\ jammed' \in BOOLEAN /\ hook' \in {"none", "set", "leaving"}
        /\ holder' \in Conns \cup {NoConn}
    BY <1>14, TurnOffTypes DEF ToggleOff
  <2>2. told' \subseteq Conns /\ robbed' \subseteq Conns /\ notice' \subseteq Conns
    BY <1>14 DEF ToggleOff, Says, Silently, In
  <2>3. task' \in [Conns -> Tasks]
    BY <1>14 DEF ToggleOff, Goes, Authed
  <2> QED
    BY <1>14, <2>1, <2>2, <2>3 DEF ToggleOff
<1>15. ASSUME NEW c \in Conns, Leave(c)
      PROVE  Types'
  <2>1. /\ window' \in BOOLEAN /\ dark' \in BOOLEAN /\ recovery' \in BOOLEAN
        /\ jammed' \in BOOLEAN /\ hook' \in {"none", "set", "leaving"}
        /\ holder' \in Conns \cup {NoConn}
    BY <1>15, TurnOffTypes DEF Leave
  <2>2. told' \subseteq Conns /\ robbed' \subseteq Conns /\ notice' \subseteq Conns
    BY <1>15 DEF Leave, Says, Silently, In
  <2>3. task' \in [Conns -> Tasks]
    BY <1>15 DEF Leave, Goes, Authed
  <2> QED
    BY <1>15, <2>1, <2>2, <2>3 DEF Leave
<1>16. ASSUME NEW c \in Conns, Drop(c)
      PROVE  Types'
  <2>1. /\ window' \in BOOLEAN /\ dark' \in BOOLEAN /\ recovery' \in BOOLEAN
        /\ jammed' \in BOOLEAN /\ hook' \in {"none", "set", "leaving"}
        /\ holder' \in Conns \cup {NoConn}
    BY <1>16, TurnOffTypes DEF Drop
  <2>2. told' \subseteq Conns /\ robbed' \subseteq Conns /\ sentaway' \subseteq Conns
    BY <1>16 DEF Drop, Says, Silently, In
  <2>3. task' \in [Conns -> Tasks]
    BY <1>16 DEF Drop, Goes, Authed
  <2> QED
    BY <1>16, <2>1, <2>2, <2>3 DEF Drop
<1>17. ASSUME NEW c \in Conns, Notified(c)
      PROVE  Types'
  BY <1>17 DEF Notified, Says
<1>18. ASSUME NEW c \in Conns, NEW key \in Supported[platform], NEW t \in Threads, ToggleOn(c, key, t)
      PROVE  Types'
  <2>1. [conn |-> c, key |-> key, at |-> "queued", async |-> current = "virtual"] \in Calls
    BY <1>18 DEF ToggleOn, Supported, Calls, Impls, Stages
  <2> QED
    BY <1>18, <2>1, PrivacyAssumption DEF ToggleOn, Goes, Authed
<1>19. ASSUME NEW reached \in BOOLEAN, LocalOff(reached)
      PROVE  Types'
  <2>1. /\ window' \in BOOLEAN /\ dark' \in BOOLEAN /\ recovery' \in BOOLEAN
        /\ jammed' \in BOOLEAN /\ hook' \in {"none", "set", "leaving"}
        /\ holder' \in Conns \cup {NoConn}
    BY <1>19, TurnOffTypes DEF LocalOff
  <2>2. told' \subseteq Conns /\ robbed' \subseteq Conns /\ notice' \subseteq Conns
    BY <1>19 DEF LocalOff, Says, Silently, In
  <2>3. task' \in [Conns -> Tasks]
    BY <1>19 DEF LocalOff, Goes, Authed
  <2> QED
    BY <1>19, <2>1, <2>2, <2>3 DEF LocalOff
<1>20. ASSUME NEW key \in Supported[platform], Switch(key)
      PROVE  Types'
  <2>1. /\ window' \in BOOLEAN /\ dark' \in BOOLEAN /\ recovery' \in BOOLEAN
        /\ jammed' \in BOOLEAN /\ hook' \in {"none", "set", "leaving"}
        /\ holder' \in Conns \cup {NoConn}
    BY <1>20, TurnOffTypes DEF Switch
  <2>2. told' \subseteq Conns /\ robbed' \subseteq Conns /\ notice' \subseteq Conns
    BY <1>20 DEF Switch, Says, Silently, In
  <2>3. task' \in [Conns -> Tasks]
    BY <1>20 DEF Switch, Goes, Authed
  <2> QED
    BY <1>20, <2>1, <2>2, <2>3 DEF Switch, Supported, Impls
<1>21. CASE HookExits
  BY <1>21 DEF HookExits
<1>22. CASE CheckPrivacyModeChanged
  BY <1>22 DEF CheckPrivacyModeChanged, In
<1>23. CASE NewCapturer
  BY <1>23 DEF NewCapturer, In
<1>24. CASE Restart
  <2>1. Idle \in Calls
    BY DEF Idle, Calls, Impls, Stages
  <2>2. dark' \in BOOLEAN /\ torn' \in BOOLEAN
    BY <1>24 DEF Restart
  <2>3. crashes' \in 0..MaxCrashes
    BY <1>24, PrivacyAssumption DEF Restart
  <2>4. current' \in Impls
    BY <1>24 DEF Restart, Default, Impls
  <2> QED
    BY <1>24, <2>1, <2>2, <2>3, <2>4 DEF Restart
<1>25. CASE UNCHANGED vars
  BY <1>25 DEF vars
<1> QED
  BY <1>1, <1>2, <1>3, <1>4, <1>5, <1>6, <1>7, <1>8, <1>9, <1>10, <1>11, <1>12, <1>13, <1>14, <1>15, <1>16, <1>17, <1>18, <1>19, <1>20, <1>21, <1>22, <1>23, <1>24, <1>25 DEF Next

\* The lock and the workers, for the actions that touch either.
LEMMA LockStep == TypeOK /\ [Next]_vars => Lock'
<1> SUFFICES ASSUME TypeOK, [Next]_vars
             PROVE  Lock'
  OBVIOUS
<1>0. Types /\ Lock /\ Waits
  BY TypeParts
<1> USE <1>0, PrivacyAssumption DEF Types, Lock, Working
<1>1. ASSUME NEW t \in Threads, BeginTurnOn(t)
      PROVE  Lock'
  BY <1>1 DEF BeginTurnOn, Ends, Idle, Calls
<1>2. ASSUME NEW t \in Threads, Commit(t)
      PROVE  Lock'
  BY <1>2 DEF Commit, Calls
<1>3. ASSUME NEW t \in Threads, FinishTurnOn(t)
      PROVE  Lock'
  BY <1>3 DEF FinishTurnOn, Ends, Idle, Calls
<1>4. ASSUME NEW t \in Threads, FailTurnOn(t)
      PROVE  Lock'
  BY <1>4 DEF FailTurnOn, Ends, Idle, Calls
<1>5. ASSUME NEW c \in Conns, NEW key \in Supported[platform], NEW t \in Threads, ToggleOn(c, key, t)
      PROVE  Lock'
  BY <1>5 DEF ToggleOn, Idle
<1>6. ASSUME NEW c \in Conns, TurnedOn(c) \/ NotTurnedOn(c)
      PROVE  Lock'
  <2>1. /\ waits[c] \in Threads /\ thread[waits[c]].at \in {"true", "false", "err"}
        /\ thread' = [thread EXCEPT ![waits[c]] = Idle] /\ mutex' = mutex
    BY <1>6 DEF TurnedOn, NotTurnedOn, Collect, implVars, Waits
  <2> QED
    BY <2>1 DEF Idle
<1>7. CASE Restart
  BY <1>7 DEF Restart, Idle
<1>8. CASE UNCHANGED <<mutex, thread>>
  BY <1>8
<1> QED
  BY <1>1, <1>2, <1>3, <1>4, <1>5, <1>6, <1>7, <1>8
     DEF Next, vars, taskVars, HookExits, Login, Accept, Refuse, TimesOut, SeesFailure, CleansUp,
         Undoes, ToggleOff, Leave, Drop, Notified, LocalOff, Switch, CheckPrivacyModeChanged,
         NewCapturer

\* A worker's answer leaves who waits for whom alone.
LEMMA EndsWaits ==
    ASSUME Types, Waits, NEW t \in Threads, NEW answer, Ends(t, answer), UNCHANGED <<task, waits>>
    PROVE  Waits'
BY PrivacyAssumption DEF Types, Waits, Ends, Idle, Calls

\* The waiting tasks, for the actions that touch them or their workers.
LEMMA WaitsStep == TypeOK /\ [Next]_vars => Waits'
<1> SUFFICES ASSUME TypeOK, [Next]_vars
             PROVE  Waits'
  OBVIOUS
<1>0. Types /\ Lock /\ Waits
  BY TypeParts
<1> USE <1>0, PrivacyAssumption DEF Types, Waits
<1>1. ASSUME NEW t \in Threads, BeginTurnOn(t)
      PROVE  Waits'
  <2>1. CASE \E answer : Ends(t, answer)
    BY <1>1, <2>1, EndsWaits DEF BeginTurnOn
  <2>2. CASE thread' = [thread EXCEPT ![t].at = "platform"]
    BY <1>1, <2>2 DEF BeginTurnOn, Calls
  <2> QED
    BY <1>1, <2>1, <2>2 DEF BeginTurnOn
<1>2. ASSUME NEW t \in Threads, Commit(t)
      PROVE  Waits'
  BY <1>2 DEF Commit, Calls
<1>3. ASSUME NEW t \in Threads, FinishTurnOn(t) \/ FailTurnOn(t)
      PROVE  Waits'
  BY <1>3, EndsWaits DEF FinishTurnOn, FailTurnOn
<1>4. ASSUME NEW c \in Conns, NEW key \in Supported[platform], NEW t \in Threads, ToggleOn(c, key, t)
      PROVE  Waits'
  BY <1>4 DEF ToggleOn, Goes, Idle
<1>5. ASSUME NEW c \in Conns, NEW to \in Tasks \ {"turning"}, Collect(c, to)
      PROVE  Waits'
  <2>1. \A d \in Conns \ {c} : task[d] = "turning" => waits[d] # waits[c]
    BY <1>5 DEF Collect, Goes
  <2> QED
    BY <1>5, <2>1 DEF Collect, Goes, Idle
<1>6. ASSUME NEW c \in Conns, TurnedOn(c) \/ NotTurnedOn(c)
      PROVE  Waits'
  BY <1>5, <1>6 DEF TurnedOn, NotTurnedOn, Tasks, Authed
<1>7. ASSUME NEW c \in Conns, TimesOut(c)
      PROVE  Waits'
  BY <1>7 DEF TimesOut, Goes
<1>8. ASSUME NEW c \in Conns, NEW from \in Tasks \ {"turning"}, NEW to \in Tasks \ {"turning"},
             Goes(c, from, to), UNCHANGED <<thread, waits>>
      PROVE  Waits'
  BY <1>8 DEF Goes
<1>9. ASSUME NEW c \in Conns,
             \/ Login(c) \/ Accept(c) \/ Refuse(c) \/ SeesFailure(c) \/ CleansUp(c)
             \/ Undoes(c) \/ Leave(c) \/ Drop(c)
      PROVE  Waits'
  BY <1>8, <1>9 DEF Login, Accept, Refuse, SeesFailure, CleansUp, Undoes, Leave, Drop, Tasks, Authed
<1>10. CASE Restart
  BY <1>10 DEF Restart
<1>11. CASE UNCHANGED taskVars
  BY <1>11 DEF taskVars
<1> QED
  BY <1>1, <1>2, <1>3, <1>4, <1>6, <1>7, <1>9, <1>10, <1>11
     DEF Next, vars, HookExits, ToggleOff, Notified, LocalOff, Switch,
         CheckPrivacyModeChanged, NewCapturer

\* The type invariant.
THEOREM TypeCorrect == Spec => []TypeOK
<1>1. TypeOK /\ [Next]_vars => TypeOK'
  BY TypesStep, LockStep, WaitsStep, TypeParts DEF TypeOK, Types, Lock, Waits, Calls, Tasks
<1> QED
  BY <1>1, TypeInit, PTL DEF Spec

-----------------------------------------------------------------------------
\* A worker that has a call to make has a connection to make it for.
Called == \A t \in Threads : thread[t].at \in {"queued"} \cup Working => thread[t].conn \in Conns

\* While a worker holds the lock nobody holds the mode, and displays that are
\* off are either beyond recovery, or the holder's, or the worker's.
Commits == mutex # Free /\ thread[mutex].at = "committed"
Screens ==
    /\ mutex # Free => holder = NoConn
    /\ holder # NoConn => Covers
    /\ window => holder # NoConn \/ jammed
    /\ torn => dark
    /\ dark => torn \/ (current = "virtual" /\ ((holder # NoConn /\ recovery) \/ Commits))
    /\ Commits => dark /\ current = "virtual"

\* Only a connection in service was told something or is about to be, and one
\* that is about to hear that the mode is on has it, or hears of its end.
InService == {c \in Conns : task[c] \in Authed \ {"leaving"}}
Answered ==
    /\ told \subseteq InService /\ notice \subseteq InService
    /\ \A c \in Conns : task[c] = "turning" /\ thread[waits[c]].at = "true" =>
                           holder = c \/ c \in notice \cup robbed

PrivacyInv == Called /\ Screens /\ HeldByLive /\ Answered /\ ToldWhileOn /\ OthersSentAway

LEMMA PrivacyInit == Init => PrivacyInv
BY PrivacyAssumption
   DEF Init, PrivacyInv, Called, Screens, Commits, Covers, HeldByLive, Answered, InService,
       ToldWhileOn, OthersSentAway, Idle, Working

LEMMA CalledStep ==
    ASSUME TypeOK, Called, [Next]_vars
    PROVE  Called'
<1>0. Types /\ Lock /\ Waits
  BY TypeParts
<1> USE <1>0 DEF Types, Called, Working
<1>1. ASSUME NEW t \in Threads, BeginTurnOn(t)
      PROVE  Called'
  BY <1>1 DEF BeginTurnOn, Ends, Idle, Calls
<1>2. ASSUME NEW t \in Threads, Commit(t)
      PROVE  Called'
  BY <1>2 DEF Commit, Calls
<1>3. ASSUME NEW t \in Threads, FinishTurnOn(t)
      PROVE  Called'
  BY <1>3 DEF FinishTurnOn, Ends, Idle, Calls
<1>4. ASSUME NEW t \in Threads, FailTurnOn(t)
      PROVE  Called'
  BY <1>4 DEF FailTurnOn, Ends, Idle, Calls
<1>5. ASSUME NEW c \in Conns, NEW key \in Supported[platform], NEW t \in Threads, ToggleOn(c, key, t)
      PROVE  Called'
  BY <1>5 DEF ToggleOn, Idle
<1>6. ASSUME NEW c \in Conns, TurnedOn(c) \/ NotTurnedOn(c)
      PROVE  Called'
  <2>1. waits[c] \in Threads /\ thread' = [thread EXCEPT ![waits[c]] = Idle]
    BY <1>6 DEF TurnedOn, NotTurnedOn, Collect, Waits
  <2> QED
    BY <2>1 DEF Idle
<1>7. CASE Restart
  BY <1>7 DEF Restart, Idle
<1>8. CASE UNCHANGED thread
  BY <1>8
<1> QED
  BY <1>1, <1>2, <1>3, <1>4, <1>5, <1>6, <1>7, <1>8
     DEF Next, vars, taskVars, HookExits, Login, Accept, Refuse, TimesOut, SeesFailure, CleansUp,
         Undoes, ToggleOff, Leave, Drop, Notified, LocalOff, Switch, CheckPrivacyModeChanged,
         NewCapturer

-----------------------------------------------------------------------------
\* Turning off leaves no holder and no window, and only displays that cannot be
\* recovered dark.
LEMMA TurnOffScreens ==
    ASSUME Types, Screens, TurnOff
    PROVE  holder' = NoConn /\ ~window' /\ (dark' <=> torn)
<1>1. dark' <=> dark /\ (torn \/ current # "virtual")
  BY DEF TurnOff
<1> QED
  BY <1>1 DEF TurnOff, Screens

LEMMA OffScreens ==
    ASSUME Types, Screens, TurnOff, UNCHANGED torn, ~Commits'
    PROVE  Screens'
BY TurnOffScreens DEF Screens, Covers

LEMMA ScreensStep ==
    ASSUME TypeOK, Called, Screens, [Next]_vars
    PROVE  Screens'
<1>0. Types /\ Lock /\ Waits
  BY TypeParts
<1> USE <1>0, PrivacyAssumption
<1>1. ASSUME NEW t \in Threads, BeginTurnOn(t)
      PROVE  Screens'
  <2>1. CASE AlreadyOn(t) \/ Occupied(t)
    BY <1>1, <2>1 DEF BeginTurnOn, Types, Screens, Commits, Covers, implVars, offVars, processVars
  <2>2. CASE ~AlreadyOn(t) /\ ~Occupied(t)
    <3>1. ~Commits' /\ UNCHANGED torn /\ mutex # t
      BY <1>1, <2>2 DEF BeginTurnOn, Types, Calls, Commits, processVars
    <3>2. CASE current # thread[t].key
      BY <1>1, <2>2, <3>1, <3>2, OffScreens DEF BeginTurnOn
    <3>3. CASE current = thread[t].key
      <4>1. holder = NoConn /\ UNCHANGED <<current, offVars>>
        BY <1>1, <2>2, <3>3 DEF BeginTurnOn, AlreadyOn, Occupied
      <4> QED
        BY <1>1, <3>1, <4>1 DEF BeginTurnOn, Screens, Commits, Covers, offVars
    <3> QED
      BY <3>2, <3>3
  <2> QED
    BY <2>1, <2>2
<1>2. ASSUME NEW t \in Threads, Commit(t)
      PROVE  Screens'
  <2>1. mutex = t
    BY <1>2 DEF Commit, Lock, Working
  <2> QED
    BY <1>2, <2>1 DEF Commit, Types, Screens, Commits, Covers, processVars
<1>3. ASSUME NEW t \in Threads, FinishTurnOn(t)
      PROVE  Screens'
  <2>1. mutex = t /\ thread[t].conn \in Conns
    BY <1>3 DEF FinishTurnOn, Lock, Called, Working
  <2>2. /\ mutex' = Free /\ holder' \in Conns /\ ~Commits'
        /\ UNCHANGED <<current, dark, jammed, torn>>
    BY <1>3, <2>1 DEF FinishTurnOn, Commits, processVars
  <2>3. CASE thread[t].at = "platform"
    BY <1>3, <2>1, <2>2, <2>3 DEF FinishTurnOn, Screens, Commits, Covers
  <2>4. CASE thread[t].at = "committed"
    BY <1>3, <2>1, <2>2, <2>4 DEF FinishTurnOn, Screens, Commits, Covers
  <2> QED
    BY <1>3, <2>3, <2>4 DEF FinishTurnOn
<1>4. ASSUME NEW t \in Threads, FailTurnOn(t)
      PROVE  Screens'
  <2>1. mutex = t /\ mutex' = Free /\ ~Commits' /\ UNCHANGED <<current, torn>>
    BY <1>4 DEF FailTurnOn, Lock, Commits, processVars
  <2>2. CASE TurnOff
    BY <2>1, <2>2, OffScreens
  <2>3. CASE /\ current # "virtual" /\ (window' => window \/ jammed') /\ (jammed => jammed')
             /\ UNCHANGED <<holder, dark, recovery>>
    BY <2>1, <2>3 DEF Screens, Covers
  <2> QED
    BY <1>4, <2>2, <2>3 DEF FailTurnOn, offVars
<1>5. ASSUME mutex = Free, mutex' = Free, TurnOff \/ UNCHANGED offVars, UNCHANGED <<current, torn>>
      PROVE  Screens'
  <2>1. ~Commits /\ ~Commits'
    BY <1>5 DEF Commits
  <2>2. CASE TurnOff
    BY <1>5, <2>1, <2>2, OffScreens
  <2>3. CASE UNCHANGED offVars
    BY <1>5, <2>1, <2>3 DEF Screens, Covers, offVars
  <2> QED
    BY <1>5, <2>2, <2>3
<1>6. ASSUME NEW c \in Conns, CleansUp(c) \/ Undoes(c) \/ ToggleOff(c) \/ Leave(c) \/ Drop(c)
      PROVE  Screens'
  BY <1>5, <1>6 DEF CleansUp, Undoes, ToggleOff, Leave, Drop, processVars
<1>7. ASSUME NEW reached \in BOOLEAN, LocalOff(reached)
      PROVE  Screens'
  BY <1>5, <1>7 DEF LocalOff, processVars
<1>8. ASSUME NEW key \in Supported[platform], Switch(key)
      PROVE  Screens'
  <2>1. mutex = Free /\ ~Commits' /\ UNCHANGED torn
    BY <1>8 DEF Switch, Commits, processVars
  <2>2. CASE holder # NoConn
    BY <1>8, <2>1, <2>2, OffScreens DEF Switch
  <2>3. CASE holder = NoConn
    BY <1>8, <2>1, <2>3 DEF Switch, Screens, Covers, offVars, Commits
  <2> QED
    BY <2>2, <2>3
<1>9. CASE Restart
  <2>1. ~Commits' /\ mutex' = Free /\ holder' = NoConn /\ ~window'
    BY <1>9 DEF Restart, Commits
  <2>2. /\ torn' <=> (torn \/ (dark /\ ~recovery))
        /\ dark' <=> (dark /\ (torn \/ ~recovery))
    BY <1>9 DEF Restart
  <2> QED
    BY <2>1, <2>2 DEF Screens
<1>10. ASSUME UNCHANGED <<mutex, current, torn, window, dark, holder, recovery, jammed>>,
              mutex # Free => thread'[mutex].at = thread[mutex].at
       PROVE  Screens'
  BY <1>10 DEF Screens, Commits, Covers
<1>11. ASSUME NEW c \in Conns, NEW key \in Supported[platform], NEW t \in Threads, ToggleOn(c, key, t)
       PROVE  Screens'
  BY <1>10, <1>11 DEF ToggleOn, implVars, offVars
<1>12. ASSUME NEW c \in Conns, TurnedOn(c) \/ NotTurnedOn(c)
       PROVE  Screens'
  <2>1. /\ waits[c] \in Threads /\ thread[waits[c]].at \notin Working
        /\ thread' = [thread EXCEPT ![waits[c]] = Idle]
        /\ UNCHANGED <<mutex, implVars, torn>>
    BY <1>12 DEF TurnedOn, NotTurnedOn, Collect, Waits, Working, processVars
  <2>2. mutex # Free => mutex \in Threads /\ mutex # waits[c]
    BY <2>1 DEF Lock, Types
  <2> QED
    BY <1>10, <2>1, <2>2 DEF implVars, offVars, Types
<1>13. CASE UNCHANGED <<mutex, thread, current, holder, window, dark, recovery, jammed, torn>>
  BY <1>10, <1>13
<1> QED
  BY <1>1, <1>2, <1>3, <1>4, <1>6, <1>7, <1>8, <1>9, <1>11, <1>12, <1>13
     DEF Next, vars, taskVars, implVars, offVars, processVars, HookExits, Login, Accept, Refuse,
         TimesOut, SeesFailure, Notified, CheckPrivacyModeChanged, NewCapturer

-----------------------------------------------------------------------------
\* Whose mode it is: only FinishTurnOn gives it to anybody.
LEMMA Holders ==
    ASSUME TypeOK, Screens, [Next]_vars, holder' # NoConn
    PROVE  \/ UNCHANGED holder
           \/ /\ holder = NoConn
              /\ \E t \in Threads : FinishTurnOn(t)
<1>1. ASSUME TurnOff PROVE FALSE
  BY <1>1 DEF TurnOff
<1>2. ASSUME NEW t \in Threads, FinishTurnOn(t)
      PROVE  holder = NoConn
  BY <1>2, TypeParts, PrivacyAssumption DEF FinishTurnOn, Screens, Lock, Working
<1>3. CASE Restart
  BY <1>3 DEF Restart
<1> QED
  BY <1>1, <1>2, <1>3
     DEF Next, vars, implVars, offVars, BeginTurnOn, Commit, FailTurnOn, HookExits, Login, Accept,
         Refuse, ToggleOn, TurnedOn, NotTurnedOn, Collect, TimesOut, SeesFailure, CleansUp, Undoes,
         ToggleOff, Leave, Drop, Notified, LocalOff, Switch, CheckPrivacyModeChanged, NewCapturer

\* A connection in service stays there, unless it is its own step to leave.
LEMMA Tasked ==
    ASSUME TypeOK, [Next]_vars, ~Restart, NEW c \in Conns, task[c] \in Authed \ {"leaving"}
    PROVE  task'[c] \in Authed \ {"leaving"} \/ Leave(c)
<1>1. ASSUME NEW d \in Conns, NEW from, NEW to \in Authed \ {"leaving"}, Goes(d, from, to)
      PROVE  task'[c] \in Authed \ {"leaving"}
  BY <1>1, TypeParts DEF Goes, Types
<1>2. ASSUME NEW d \in Conns, NEW from \in {"new", "checked", "leaving"}, NEW to, Goes(d, from, to)
      PROVE  task'[c] \in Authed \ {"leaving"}
  BY <1>2, TypeParts DEF Goes, Types, Authed
<1>3. ASSUME NEW d \in Conns, Leave(d), d # c
      PROVE  task'[c] \in Authed \ {"leaving"}
  BY <1>3, TypeParts DEF Leave, Goes, Types
<1>4. ASSUME NEW d \in Conns, Login(d) \/ Accept(d) \/ Refuse(d) \/ Drop(d)
      PROVE  task'[c] \in Authed \ {"leaving"}
  BY <1>2, <1>4 DEF Login, Accept, Refuse, Drop
<1>5. ASSUME NEW d \in Conns,
             \/ \E key \in Supported[platform], t \in Threads : ToggleOn(d, key, t)
             \/ TurnedOn(d) \/ NotTurnedOn(d) \/ TimesOut(d) \/ SeesFailure(d)
             \/ CleansUp(d) \/ Undoes(d)
      PROVE  task'[c] \in Authed \ {"leaving"}
  BY <1>1, <1>5 DEF ToggleOn, TurnedOn, NotTurnedOn, Collect, TimesOut, SeesFailure, CleansUp,
                    Undoes, Authed
<1>6. CASE UNCHANGED task
  BY <1>6
<1> QED
  BY <1>3, <1>4, <1>5, <1>6
     DEF Next, vars, taskVars, BeginTurnOn, Commit, FinishTurnOn, FailTurnOn, HookExits, ToggleOff,
         Notified, LocalOff, Switch, CheckPrivacyModeChanged, NewCapturer

LEMMA HeldStep ==
    ASSUME TypeOK, Called, Screens, HeldByLive, [Next]_vars
    PROVE  HeldByLive'
<1> SUFFICES ASSUME holder' # NoConn
             PROVE  task'[holder'] \in Authed \ {"leaving"} \/ late'
  BY DEF HeldByLive
<1>0. Types /\ Lock /\ Waits
  BY TypeParts
<1>1. ASSUME NEW t \in Threads, FinishTurnOn(t)
      PROVE  task'[holder'] \in Authed \ {"leaving"} \/ late'
  <2>1. thread[t].conn \in Conns
    BY <1>1 DEF FinishTurnOn, Called, Working
  <2>2. CASE Abandoned(t)
    BY <1>1, <2>2 DEF FinishTurnOn
  <2>3. CASE ~Abandoned(t)
    BY <1>0, <1>1, <2>1, <2>3, PrivacyAssumption DEF FinishTurnOn, Abandoned, Waits, Authed
  <2> QED
    BY <2>2, <2>3
<1>2. CASE UNCHANGED holder /\ ~ \E t \in Threads : FinishTurnOn(t)
  <2>1. ~Restart
    BY <1>2 DEF Restart
  <2>2. late' = late
    BY <1>2, <2>1
       DEF Next, vars, noteVars, BeginTurnOn, Commit, FailTurnOn, HookExits, Login, Accept,
           Refuse, ToggleOn, TurnedOn, NotTurnedOn, TimesOut, SeesFailure, CleansUp, Undoes,
           ToggleOff, Leave, Drop, Notified, LocalOff, Switch, CheckPrivacyModeChanged, NewCapturer
  <2>3. CASE task[holder] \in Authed \ {"leaving"}
    <3>1. holder \in Conns
      BY <1>0, <1>2 DEF Types
    <3>2. ~Leave(holder)
      BY <1>2 DEF Leave, TurnOff
    <3> QED
      BY <1>2, <2>1, <2>3, <3>1, <3>2, Tasked
  <2> QED
    BY <1>2, <2>2, <2>3 DEF HeldByLive
<1> QED
  BY <1>1, <1>2, Holders

-----------------------------------------------------------------------------
LEMMA ToldInService ==
    ASSUME TypeOK, Answered, [Next]_vars
    PROVE  told' \subseteq InService' /\ notice' \subseteq InService'
<1>0. Types
  BY TypeParts
<1>1. CASE Restart
  BY <1>1 DEF Restart
<1>2. ASSUME NEW c \in Conns, Leave(c)
      PROVE  told' \subseteq InService' /\ notice' \subseteq InService'
  <2>1. InService \ {c} \subseteq InService'
    BY <1>0, <1>2 DEF Leave, Goes, InService, Types
  <2> QED
    BY <1>2, <2>1 DEF Leave, Answered
<1>3. ASSUME ~Restart, \A c \in Conns : ~Leave(c)
      PROVE  told' \subseteq InService' /\ notice' \subseteq InService'
  <2>1. InService \subseteq InService'
    BY <1>3, Tasked DEF InService
  <2>2. ASSUME NEW c \in Conns, TurnedOn(c)
        PROVE  told' \subseteq InService' /\ notice' \subseteq InService'
    <3>1. /\ notice' = notice
          /\ told' = told \/ (told' = told \cup {c} /\ task'[c] = "in")
      BY <1>0, <2>2 DEF TurnedOn, Says, Collect, Goes, noteVars, Types
    <3>2. task'[c] = "in" => c \in InService'
      BY DEF InService, Authed
    <3> QED
      BY <2>1, <3>1, <3>2 DEF Answered
  <2>3. ASSUME NEW reached \in BOOLEAN, LocalOff(reached)
        PROVE  told' \subseteq InService' /\ notice' \subseteq InService'
    BY <2>1, <2>3 DEF LocalOff, Answered, In, InService, taskVars
  <2>4. CASE told' \subseteq told /\ notice' \subseteq notice
    BY <2>1, <2>4 DEF Answered
  <2> QED
    BY <1>3, <2>2, <2>3, <2>4
       DEF Next, vars, noteVars, BeginTurnOn, Commit, FinishTurnOn, FailTurnOn, HookExits, Login,
           Accept, Refuse, ToggleOn, NotTurnedOn, TimesOut, SeesFailure, CleansUp, Undoes,
           ToggleOff, Drop, Notified, Switch, CheckPrivacyModeChanged, NewCapturer, Says
<1> QED
  BY <1>1, <1>2, <1>3

\* What accounts for a connection that thinks the mode is on, or will: it is its
\* own, or a message is under way, or it was turned off without one.
Accounts(c) == holder = c \/ c \in notice \cup robbed

\* That stays so, until the connection is told or turns the mode on anew.
LEMMA Kept ==
    ASSUME TypeOK, Called, Screens, [Next]_vars, ~Restart, NEW c \in InService, Accounts(c)
    PROVE  \/ Accounts(c)'
           \/ c \notin told' /\ task'[c] # "turning"
           \/ task'[c] = "turning" /\ thread'[waits'[c]].at = "platform"
<1> DEFINE Goal == \/ Accounts(c)'
                   \/ c \notin told' /\ task'[c] # "turning"
                   \/ task'[c] = "turning" /\ thread'[waits'[c]].at = "platform"
<1> SUFFICES Goal
  OBVIOUS
<1>0. Types /\ Lock /\ Waits /\ c \in Conns /\ c # NoConn
  BY TypeParts, PrivacyAssumption DEF InService
<1>1. ASSUME NEW t \in Threads, BeginTurnOn(t)
      PROVE  Goal
  <2>1. CASE UNCHANGED <<holder, notice>> /\ robbed \subseteq robbed'
    BY <2>1 DEF Accounts
  <2>2. CASE ~UNCHANGED holder
    <3>1. /\ thread[t].at = "queued" /\ thread[t].conn \in Conns
          /\ holder \in {NoConn, thread[t].conn}
          /\ thread' = [thread EXCEPT ![t].at = "platform"]
          /\ UNCHANGED <<notice, task, waits>>
          /\ robbed \subseteq robbed'
          /\ Abandoned(t) => Silently
      BY <1>1, <2>2 DEF BeginTurnOn, Occupied, implVars, offVars, Silently, Called
    <3>2. CASE Abandoned(t)
      BY <1>0, <3>1, <3>2 DEF Silently, Accounts
    <3>3. CASE ~Abandoned(t) /\ thread[t].conn = c
      <4>1. waits[c] = t /\ task[c] = "turning"
        BY <1>0, <3>3, PrivacyAssumption DEF Abandoned, Waits
      <4> QED
        BY <1>0, <3>1, <4>1 DEF Types, Calls
    <3>4. CASE thread[t].conn # c
      BY <1>0, <3>1, <3>4 DEF Accounts
    <3> QED
      BY <3>2, <3>3, <3>4
  <2>3. notice' = notice /\ robbed \subseteq robbed'
    BY <1>1 DEF BeginTurnOn, Silently
  <2> QED
    BY <2>1, <2>2, <2>3
<1>2. ASSUME NEW t \in Threads, FinishTurnOn(t)
      PROVE  Goal
  <2>1. holder = NoConn
    BY <1>0, <1>2, PrivacyAssumption DEF FinishTurnOn, Screens, Lock, Working
  <2> QED
    BY <1>0, <1>2, <2>1 DEF FinishTurnOn, Accounts
<1>3. ASSUME NEW t \in Threads, Commit(t) \/ FailTurnOn(t)
      PROVE  Goal
  <2>1. holder = NoConn
    BY <1>0, <1>3, PrivacyAssumption DEF Commit, FailTurnOn, Screens, Lock, Working
  <2> QED
    BY <1>0, <1>3, <2>1 DEF Commit, FailTurnOn, Accounts, noteVars
<1>4. ASSUME NEW d \in Conns, TurnedOn(d) \/ NotTurnedOn(d)
      PROVE  Goal
  <2>1. UNCHANGED <<holder, notice>> /\ (d # c => robbed \ {d} \subseteq robbed')
    BY <1>4 DEF TurnedOn, NotTurnedOn, Says, Collect, noteVars, implVars, offVars
  <2>2. robbed' = robbed \/ (d \notin told' /\ task'[d] = "in")
    BY <1>0, <1>4 DEF TurnedOn, NotTurnedOn, Says, Collect, Goes, Types, noteVars
  <2> QED
    BY <2>1, <2>2 DEF Accounts
<1>5. ASSUME NEW d \in Conns, SeesFailure(d) \/ CleansUp(d) \/ Undoes(d) \/ ToggleOff(d) \/ Notified(d)
      PROVE  Goal
  <2>1. CASE d = c
    <3>1. (c \notin told' /\ task'[c] # "turning") \/ UNCHANGED <<holder, notice, robbed>>
      BY <1>0, <1>5, <2>1
         DEF SeesFailure, CleansUp, Undoes, ToggleOff, Notified, Says, Goes, Types, taskVars,
             noteVars, implVars, offVars
    <3> QED
      BY <3>1 DEF Accounts
  <2>2. CASE d # c
    <3>1. c \in notice => c \in notice'
      BY <1>5, <2>2 DEF SeesFailure, CleansUp, Undoes, ToggleOff, Notified, noteVars
    <3>2. c \in robbed => c \in robbed'
      BY <1>5, <2>2 DEF SeesFailure, CleansUp, Undoes, ToggleOff, Notified, Says, noteVars
    <3>3. holder = c => holder' = c \/ c \in robbed'
      BY <1>0, <1>5, <2>2
         DEF SeesFailure, CleansUp, Undoes, ToggleOff, Notified, Owns, implVars, offVars
    <3> QED
      BY <3>1, <3>2, <3>3 DEF Accounts
  <2> QED
    BY <2>1, <2>2
<1>6. ASSUME NEW d \in Conns, Leave(d)
      PROVE  Goal
  <2>1. CASE d = c
    BY <1>0, <1>6, <2>1 DEF Leave, Goes, Types
  <2>2. CASE d # c
    BY <1>0, <1>6, <2>2 DEF Leave, Accounts, offVars
  <2> QED
    BY <2>1, <2>2
<1>7. ASSUME NEW d \in Conns, Drop(d)
      PROVE  Goal
  BY <1>0, <1>7 DEF Drop, Accounts, Silently, offVars
<1>8. ASSUME NEW reached \in BOOLEAN, LocalOff(reached)
      PROVE  Goal
  <2>1. c \in In \ {d \in In : task[d] = "leaving"}
    BY DEF InService, In
  <2>2. CASE robbed' = robbed /\ notice' = In \ {d \in In : task[d] = "leaving"}
    BY <2>1, <2>2 DEF Accounts
  <2>3. CASE Silently /\ UNCHANGED notice
    BY <1>0, <2>3 DEF Accounts, Silently
  <2> QED
    BY <1>8, <2>2, <2>3 DEF LocalOff
<1>9. ASSUME NEW key \in Supported[platform], Switch(key)
      PROVE  Goal
  BY <1>0, <1>9 DEF Switch, Accounts, Silently, offVars
<1>10. CASE UNCHANGED <<holder, notice, robbed>>
  BY <1>10 DEF Accounts
<1> QED
  BY <1>1, <1>2, <1>3, <1>4, <1>5, <1>6, <1>7, <1>8, <1>9, <1>10
     DEF Next, vars, noteVars, implVars, offVars, HookExits, Login, Accept, Refuse, ToggleOn,
         TimesOut, CheckPrivacyModeChanged, NewCapturer

LEMMA AnsweredStep ==
    ASSUME TypeOK, Called, Screens, Answered, [Next]_vars
    PROVE  Answered'
<1> SUFFICES ASSUME NEW c \in Conns, task'[c] = "turning", thread'[waits'[c]].at = "true"
             PROVE  Accounts(c)'
  BY ToldInService DEF Answered, Accounts
<1>0. Types /\ Lock /\ Waits /\ ~Restart
  BY TypeParts DEF Restart
<1>1. CASE task[c] # "turning"
  <2>1. \E key \in Supported[platform], t \in Threads : ToggleOn(c, key, t)
    <3>1. ASSUME NEW d \in Conns, NEW from, NEW to, Goes(d, from, to), to # "turning" \/ d # c
          PROVE  FALSE
      BY <1>0, <1>1, <3>1 DEF Goes, Types
    <3>2. ASSUME NEW d \in Conns, NEW key \in Supported[platform], NEW t \in Threads, ToggleOn(d, key, t)
          PROVE  d = c
      BY <3>1, <3>2 DEF ToggleOn
    <3>3. ~UNCHANGED task
      BY <1>1
    <3> QED
      BY <1>0, <3>1, <3>2, <3>3
         DEF Next, vars, taskVars, BeginTurnOn, Commit, FinishTurnOn, FailTurnOn, HookExits, Login,
             Accept, Refuse, TurnedOn, NotTurnedOn, Collect, TimesOut, SeesFailure, CleansUp,
             Undoes, ToggleOff, Leave, Drop, Notified, LocalOff, Switch, CheckPrivacyModeChanged,
             NewCapturer
  <2> QED
    BY <1>0, <2>1 DEF ToggleOn, Types
<1>2. CASE task[c] = "turning" /\ thread[waits[c]].at = "true"
  <2>1. c \in InService /\ Accounts(c)
    BY <1>2 DEF Answered, Accounts, InService, Authed
  <2> QED
    BY <1>0, <2>1, Kept
<1>3. CASE task[c] = "turning" /\ thread[waits[c]].at # "true"
  <2>1. waits[c] \in Threads /\ thread[waits[c]].conn = c
    BY <1>0, <1>3 DEF Waits
  <2>2. BeginTurnOn(waits[c]) \/ FinishTurnOn(waits[c])
    <3>1. ASSUME NEW d \in Conns, TurnedOn(d) \/ NotTurnedOn(d)
          PROVE  FALSE
      <4>1. d # c
        BY <1>0, <3>1 DEF TurnedOn, NotTurnedOn, Collect, Goes, Types
      <4>2. /\ waits[d] # waits[c] /\ waits[d] \in Threads
            /\ thread' = [thread EXCEPT ![waits[d]] = Idle] /\ waits'[c] = waits[c]
        BY <1>0, <2>1, <3>1, <4>1 DEF TurnedOn, NotTurnedOn, Collect, Goes, Waits, Types
      <4> QED
        BY <1>0, <1>3, <2>1, <4>2 DEF Types
    <3>2. ASSUME NEW d \in Conns, NEW key \in Supported[platform], NEW t \in Threads, ToggleOn(d, key, t)
          PROVE  FALSE
      BY <1>0, <1>3, <2>1, <3>2, PrivacyAssumption DEF ToggleOn, Goes, Types, Idle
    <3>3. ASSUME NEW t \in Threads, Commit(t)
          PROVE  FALSE
      BY <1>0, <1>3, <2>1, <3>3 DEF Commit, Types, Calls
    <3>4. ASSUME NEW t \in Threads, FailTurnOn(t)
          PROVE  FALSE
      BY <1>0, <1>3, <2>1, <3>4 DEF FailTurnOn, Ends, Idle, Types, Calls
    <3>5. ASSUME NEW t \in Threads, BeginTurnOn(t) \/ FinishTurnOn(t), t # waits[c]
          PROVE  FALSE
      BY <1>0, <1>3, <2>1, <3>5 DEF BeginTurnOn, FinishTurnOn, Ends, Idle, Types
    <3>6. ASSUME NEW d \in Conns, TimesOut(d)
          PROVE  FALSE
      BY <1>0, <1>3, <2>1, <3>6 DEF TimesOut, Goes, Types
    <3>7. ~UNCHANGED <<thread, waits>>
      BY <1>3
    <3> QED
      BY <1>0, <3>1, <3>2, <3>3, <3>4, <3>5, <3>6, <3>7
         DEF Next, vars, taskVars, HookExits, Login, Accept, Refuse, SeesFailure, CleansUp, Undoes,
             ToggleOff, Leave, Drop, Notified, LocalOff, Switch, CheckPrivacyModeChanged, NewCapturer
  <2>3. CASE BeginTurnOn(waits[c])
    <3>1. waits' = waits
      BY <2>3 DEF BeginTurnOn
    <3>2. AlreadyOn(waits[c]) /\ UNCHANGED holder
      BY <1>0, <2>1, <2>3, <3>1 DEF BeginTurnOn, Ends, Types, Calls, implVars, offVars
    <3> QED
      BY <2>1, <3>2 DEF AlreadyOn, Accounts
  <2>4. CASE FinishTurnOn(waits[c])
    BY <2>1, <2>4 DEF FinishTurnOn, Accounts
  <2> QED
    BY <2>2, <2>3, <2>4
<1> QED
  BY <1>1, <1>2, <1>3

LEMMA ToldStep ==
    ASSUME TypeOK, Called, Screens, Answered, ToldWhileOn, [Next]_vars
    PROVE  ToldWhileOn'
<1> DEFINE Busy == {"turning", "failed", "cleaning", "undoing"}
<1> SUFFICES ASSUME NEW c \in told'
             PROVE  Accounts(c)' \/ task'[c] \in Busy
  BY DEF ToldWhileOn, Accounts
<1>0. Types /\ Lock /\ Waits /\ ~Restart
  BY TypeParts DEF Restart
<1>1. CASE c \in Conns /\ TurnedOn(c)
  <2>1. CASE task'[c] = "undoing"
    BY <2>1
  <2>2. CASE task'[c] # "undoing"
    <3>1. Accounts(c) /\ UNCHANGED <<holder, notice, robbed>>
      BY <1>0, <1>1, <2>2
         DEF TurnedOn, Collect, Goes, Types, Says, Answered, Accounts, implVars, offVars
    <3> QED
      BY <3>1 DEF Accounts
  <2> QED
    BY <2>1, <2>2
<1>2. CASE c \notin Conns \/ ~TurnedOn(c)
  <2>1. c \in told /\ c \in Conns /\ c \in InService
    <3>1. c \in told
      BY <1>0, <1>2
         DEF Next, vars, noteVars, BeginTurnOn, Commit, FinishTurnOn, FailTurnOn, HookExits, Login,
             Accept, Refuse, ToggleOn, TurnedOn, NotTurnedOn, TimesOut, SeesFailure, CleansUp,
             Undoes, ToggleOff, Leave, Drop, Notified, LocalOff, Switch, CheckPrivacyModeChanged,
             NewCapturer, Says
    <3> QED
      BY <3>1 DEF Answered, InService
  <2>2. CASE Accounts(c)
    BY <1>0, <2>1, <2>2, Kept
  <2>3. CASE task[c] \in Busy
    <3>1. ASSUME NEW d \in Conns, NEW from, NEW to, Goes(d, from, to), d # c
          PROVE  task'[c] \in Busy
      BY <1>0, <2>1, <2>3, <3>1 DEF Goes, Types
    <3>2. ASSUME NEW from \in {"in", "new", "checked", "leaving"}, NEW to, Goes(c, from, to)
          PROVE  task'[c] \in Busy
      BY <2>3, <3>2 DEF Goes
    <3>3. CASE NotTurnedOn(c) \/ TimesOut(c) \/ SeesFailure(c) \/ CleansUp(c) \/ Undoes(c)
      BY <1>0, <2>1, <3>3
         DEF NotTurnedOn, TimesOut, SeesFailure, CleansUp, Undoes, Collect, Goes, Types, Says
    <3>4. CASE UNCHANGED task
      BY <2>3, <3>4
    <3>5. ASSUME NEW d \in Conns, NEW key, NEW t \in Threads, ToggleOn(d, key, t)
          PROVE  task'[c] \in Busy
      BY <3>1, <3>2, <3>5 DEF ToggleOn
    <3>6. ASSUME NEW d \in Conns, Login(d) \/ Accept(d) \/ Refuse(d) \/ Leave(d) \/ Drop(d)
          PROVE  task'[c] \in Busy
      BY <3>1, <3>2, <3>6 DEF Login, Accept, Refuse, Leave, Drop
    <3>7. ASSUME NEW d \in Conns,
                 TurnedOn(d) \/ NotTurnedOn(d) \/ TimesOut(d) \/ SeesFailure(d) \/ CleansUp(d) \/ Undoes(d)
          PROVE  Accounts(c)' \/ task'[c] \in Busy
      <4>1. CASE d # c
        <5>1. CASE TurnedOn(d) \/ NotTurnedOn(d)
          BY <3>1, <4>1, <5>1 DEF TurnedOn, NotTurnedOn, Collect
        <5>2. CASE TimesOut(d) \/ CleansUp(d) \/ Undoes(d)
          BY <3>1, <4>1, <5>2 DEF TimesOut, CleansUp, Undoes
        <5>3. CASE SeesFailure(d)
          BY <3>1, <4>1, <5>3 DEF SeesFailure
        <5> QED
          BY <3>7, <5>1, <5>2, <5>3
      <4>2. CASE d = c
        BY <1>2, <2>1, <3>3, <3>7, <4>2
      <4> QED
        BY <4>1, <4>2
    <3> QED
      BY <1>0, <3>4, <3>5, <3>6, <3>7
         DEF Next, vars, taskVars, BeginTurnOn, Commit, FinishTurnOn, FailTurnOn, HookExits,
             ToggleOff, Notified, LocalOff, Switch, CheckPrivacyModeChanged, NewCapturer
  <2> QED
    BY <2>1, <2>2, <2>3 DEF ToldWhileOn, Accounts
<1> QED
  BY <1>1, <1>2

LEMMA SentStep ==
    ASSUME TypeOK, OthersSentAway, [Next]_vars
    PROVE  OthersSentAway'
<1> SUFFICES ASSUME seen' # NoConn, NEW d \in Conns, d \in In', d # seen'
             PROVE  d \in sentaway'
  BY DEF OthersSentAway, In
<1>0. Types /\ ~Restart
  BY TypeParts DEF Restart
<1>1. CASE d \notin In
  <2>1. Accept(d)
    <3>1. ASSUME NEW e \in Conns, NEW from, NEW to, Goes(e, from, to),
                 e # d \/ from \in Authed \/ to \in {"checked", "gone"}
          PROVE  FALSE
      BY <1>0, <1>1, <3>1 DEF Goes, Types, In, Authed
    <3>2. ~UNCHANGED task
      BY <1>1 DEF In
    <3>3. {"in", "turning", "failed", "cleaning", "undoing", "leaving"} \subseteq Authed
      BY DEF Authed
    <3> QED
      BY <1>0, <3>1, <3>2, <3>3
         DEF Next, vars, taskVars, BeginTurnOn, Commit, FinishTurnOn, FailTurnOn, HookExits, Login,
             Accept, Refuse, ToggleOn, TurnedOn, NotTurnedOn, Collect, TimesOut, SeesFailure,
             CleansUp, Undoes, ToggleOff, Leave, Drop, Notified, LocalOff, Switch,
             CheckPrivacyModeChanged, NewCapturer
  <2> QED
    BY <2>1 DEF Accept
<1>2. CASE d \in In /\ seen' # seen
  <2>1. CheckPrivacyModeChanged \/ NewCapturer
    BY <1>0, <1>2
       DEF Next, vars, videoVars, BeginTurnOn, Commit, FinishTurnOn, FailTurnOn, HookExits, Login,
           Accept, Refuse, ToggleOn, TurnedOn, NotTurnedOn, Collect, TimesOut, SeesFailure,
           CleansUp, Undoes, ToggleOff, Leave, Drop, Notified, LocalOff, Switch
  <2> QED
    BY <1>2, <2>1 DEF CheckPrivacyModeChanged, NewCapturer
<1>3. CASE d \in In /\ seen' = seen
  <2>1. d \in sentaway
    BY <1>3 DEF OthersSentAway
  <2>2. ~Drop(d)
    BY <1>0 DEF Drop, Goes, In, Authed, Types
  <2> QED
    BY <1>0, <2>1, <2>2
       DEF Next, vars, videoVars, BeginTurnOn, Commit, FinishTurnOn, FailTurnOn, HookExits, Login,
           Accept, Refuse, ToggleOn, TurnedOn, NotTurnedOn, Collect, TimesOut, SeesFailure,
           CleansUp, Undoes, ToggleOff, Leave, Drop, Notified, LocalOff, Switch,
           CheckPrivacyModeChanged, NewCapturer
<1> QED
  BY <1>1, <1>2, <1>3

LEMMA InvStep == TypeOK /\ PrivacyInv /\ [Next]_vars => PrivacyInv'
BY CalledStep, ScreensStep, HeldStep, AnsweredStep, ToldStep, SentStep DEF PrivacyInv

LEMMA Inductive == Spec => [](TypeOK /\ PrivacyInv)
<1>1. TypeOK /\ PrivacyInv /\ [Next]_vars => TypeOK'
  BY TypesStep, LockStep, WaitsStep, TypeParts DEF TypeOK, Types, Lock, Waits, Calls, Tasks
<1> QED
  BY <1>1, TypeInit, PrivacyInit, InvStep, PTL DEF Spec

\* Accounted, for every instance: the holder is covered and nobody else is, it is
\* a connection that is there, those who were told have the mode or hear of its
\* end, and the others were sent away.
THEOREM AlwaysAccounted == Spec => []Accounted
<1>1. TypeOK /\ PrivacyInv => Accounted
  <2> SUFFICES ASSUME TypeOK, PrivacyInv
               PROVE  CoveredForHolder
    BY DEF PrivacyInv, Accounted
  <2>1. mutex = Free => ~Commits
    BY DEF Commits
  <2> QED
    BY <2>1 DEF CoveredForHolder, PrivacyInv, Screens
<1> QED
  BY <1>1, Inductive, PTL

\* HandedOver, for every instance: nobody takes the mode from its holder by
\* asking for it or by turning it off, and what would undo it outlives it.
THEOREM AlwaysHandedOver == Spec => HandedOver
<1> DEFINE Step ==
      /\ holder # NoConn /\ holder' # NoConn => holder' = holder
      /\ \A t \in Threads : BeginTurnOn(t) => holder \in {thread[t].conn, holder'}
      /\ \A c \in Conns : Undoes(c) \/ ToggleOff(c) => holder \in {c, holder'}
      /\ recovery /\ ~recovery' => ~dark' \/ torn
<1>1. ASSUME TypeOK, PrivacyInv, [Next]_vars
      PROVE  Step
  <2>0. Types /\ Screens
    BY <1>1, TypeParts DEF PrivacyInv
  <2>1. holder # NoConn /\ holder' # NoConn => holder' = holder
    BY <1>1, <2>0, Holders
  <2>2. ASSUME NEW t \in Threads, BeginTurnOn(t)
        PROVE  holder \in {thread[t].conn, holder'}
    <3>1. CASE AlreadyOn(t) \/ Occupied(t)
      BY <2>2, <3>1 DEF BeginTurnOn, implVars, offVars
    <3>2. CASE ~Occupied(t)
      BY <2>2, <3>2 DEF BeginTurnOn, Occupied, TurnOff, implVars, offVars
    <3> QED
      BY <3>1, <3>2
  <2>3. ASSUME NEW c \in Conns, Undoes(c) \/ ToggleOff(c)
        PROVE  holder \in {c, holder'}
    BY <2>3 DEF Undoes, ToggleOff, Owns, TurnOff, offVars
  <2>4. recovery /\ ~recovery' => ~dark' \/ torn
    <3>1. CASE TurnOff
      BY <2>0, <3>1, TurnOffScreens
    <3>2. CASE Restart
      BY <3>2 DEF Restart
    <3>3. CASE recovery => recovery'
      BY <3>3
    <3> QED
      BY <1>1, <3>1, <3>2, <3>3
         DEF Next, vars, implVars, offVars, BeginTurnOn, Commit, FinishTurnOn, FailTurnOn,
             HookExits, Login, Accept, Refuse, ToggleOn, TurnedOn, NotTurnedOn, Collect, TimesOut,
             SeesFailure, CleansUp, Undoes, ToggleOff, Leave, Drop, Notified, LocalOff, Switch,
             CheckPrivacyModeChanged, NewCapturer
  <2> QED
    BY <2>1, <2>2, <2>3, <2>4
<1>2. TypeOK /\ PrivacyInv /\ [Next]_vars => [Step]_vars
  BY <1>1
<1>3. Spec => [][Step]_vars
  BY <1>2, Inductive, PTL DEF Spec
<1> QED
  BY <1>3 DEF HandedOver
=============================================================================
