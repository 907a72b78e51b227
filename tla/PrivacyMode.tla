---------------------------- MODULE PrivacyMode -----------------------------
(***************************************************************************)
(* The privacy mode of Windows (privacy_mode.rs, privacy_mode/win_*.rs)    *)
(* with the connections that turn it on and off (connection.rs), the local *)
(* user who leaves it with Ctrl+P, the video service that sends everybody  *)
(* else away and the recovery of the displays after a crash.               *)
(*                                                                         *)
(* One implementation at a time is behind the lock PRIVACY_MODE, which is  *)
(* held while the platform works: seconds for a virtual display.  So that  *)
(* one is turned on by a thread, for which its connection waits 7.5 s and  *)
(* no longer, while the thread goes on.                                    *)
(*                                                                         *)
(* Bug_ definitions are the definition that follows them with a mistake.   *)
(***************************************************************************)
EXTENDS Naturals, FiniteSets

CONSTANTS Conns,     \* connections that ask for the mode
          Threads,   \* workers: the calls of turn_on_privacy_sync
          NoConn,    \* INVALID_PRIVACY_MODE_CONN_ID
          NoThread,  \* nothing is waited for
          Free,      \* nobody holds PRIVACY_MODE
          Platforms, \* the kinds of Windows of an instance
          MaxCalls,  \* bound: calls of turn_on_privacy
          MaxCrashes \* bound: ends of the server process

\* What get_supported_privacy_mode_impl offers on each kind of Windows: a
\* window on top drawn by a helper, a virtual display that replaces the
\* displays, or a window of the process itself.
Supported == [x64 |-> {"mag", "virtual"}, x86 |-> {"inline"}]
Default == [x64 |-> "mag", x86 |-> "inline"]
Impls == {"mag", "virtual", "inline"}

ASSUME PrivacyAssumption ==
    /\ NoConn \notin Conns /\ NoThread \notin Threads /\ Free \notin Threads
    /\ Platforms \subseteq {"x64", "x86"}
    /\ MaxCalls \in Nat /\ MaxCrashes \in Nat

VARIABLES platform,
          mutex,     \* who holds PRIVACY_MODE over a call of the platform
          current,   \* key of the implementation in PRIVACY_MODE
          holder,    \* its conn_id
          window,    \* a privacy window covers the screen
          dark,      \* the displays are disabled, the registry says so too
          recovery,  \* CONFIG_KEY_REG_RECOVERY is set
          hook,      \* the thread that swallows the input of the local user
          thread,    \* the workers
          task,      \* where the task of a connection is
          waits,     \* the worker a task waits for
          told,      \* connections whose peer was last told the mode is on
          notice,    \* connections with an OffByPeer of the manager under way
          seen,      \* CapturerInfo::privacy_mode_id of the video service
          sentaway,  \* peers told that another one turned the mode on, or (history)
                     \* passed over: a new capturer, or they, came too late
          calls,     \* calls of turn_on_privacy so far
          crashes

\* History, read by properties only.
VARIABLES robbed,  \* told it is on; turned off since without a message
          late,    \* the holder is one whose call had stopped waiting for its worker
          torn,    \* the process died with the displays off and no recovery
          jammed   \* an inline window is left over by a refused hook

offVars == <<holder, window, dark, recovery, hook, jammed>>
implVars == <<current, offVars>>
taskVars == <<thread, task, waits>>
videoVars == <<seen, sentaway>>
noteVars == <<told, notice, robbed, late>>
processVars == <<platform, crashes, torn, calls>>
vars == <<mutex, implVars, taskVars, videoVars, noteVars, processVars>>

Stages == {"idle", "queued", "platform", "committed", "true", "false", "err"}
Authed == {"in", "turning", "failed", "cleaning", "undoing", "leaving"}
In == {c \in Conns : task[c] \in Authed}
Working == {"platform", "committed"}

TypeOK ==
    /\ platform \in {"x64", "x86"}
    /\ mutex \in Threads \cup {Free}
    /\ current \in Impls
    /\ holder \in Conns \cup {NoConn} /\ seen \in Conns \cup {NoConn}
    /\ window \in BOOLEAN /\ dark \in BOOLEAN /\ recovery \in BOOLEAN
    /\ hook \in {"none", "set", "leaving"}
    /\ thread \in [Threads -> [conn : Conns \cup {NoConn}, key : Impls, at : Stages,
                               async : BOOLEAN]]
    /\ task \in [Conns -> Authed \cup {"new", "checked", "gone"}]
    /\ waits \in [Conns -> Threads \cup {NoThread}]
    /\ told \subseteq Conns /\ notice \subseteq Conns /\ sentaway \subseteq Conns
    /\ robbed \subseteq Conns /\ late \in BOOLEAN
    /\ \A t \in Threads : mutex = t <=> thread[t].at \in Working
    /\ \A c \in Conns : IF task[c] = "turning"
                        THEN waits[c] \in Threads /\ thread[waits[c]].conn = c
                        ELSE waits[c] = NoThread
    /\ torn \in BOOLEAN /\ jammed \in BOOLEAN /\ crashes \in 0..MaxCrashes
    /\ calls \in 0..MaxCalls

Idle == [conn |-> NoConn, key |-> "mag", at |-> "idle", async |-> FALSE]

Init ==
    /\ platform \in Platforms
    /\ mutex = Free
    /\ current = Default[platform] /\ holder = NoConn
    /\ window = FALSE /\ dark = FALSE /\ recovery = FALSE /\ hook = "none"
    /\ thread = [t \in Threads |-> Idle]
    /\ task = [c \in Conns |-> "new"]
    /\ waits = [c \in Conns |-> NoThread]
    /\ told = {} /\ notice = {} /\ seen = NoConn /\ sentaway = {}
    /\ crashes = 0 /\ calls = 0
    /\ robbed = {} /\ late = FALSE /\ torn = FALSE /\ jammed = FALSE

-----------------------------------------------------------------------------
(* The implementations, under the lock.                                    *)

\* unhook posts a message to the hook's thread and does not wait for it.
Unhook == hook' = IF hook = "set" THEN "leaving" ELSE hook

\* The turn_off_privacy of an implementation, its check passed: the input is
\* free, the window hidden, and the virtual display puts back the displays it
\* has saved and drops the recovery.
TurnOff ==
    /\ Unhook
    /\ window' = FALSE /\ jammed' = FALSE
    /\ dark' = (dark /\ (torn \/ current # "virtual"))
    /\ recovery' = (recovery /\ current # "virtual")
    /\ holder' = NoConn

\* A turn-off that tells no peer.
Silently == robbed' = robbed \cup ({holder} \cap Conns)

\* Whether turn_on_privacy_sync is answered by its checks: already on for
\* this connection (TRUE), or taken by another one.
AlreadyOn(t) == holder = thread[t].conn /\ current = thread[t].key
Bug_Occupied(t) == FALSE
Occupied(t) == holder \notin {NoConn, thread[t].conn}

\* A worker's answer: to the task that waits for it, or to nobody.
Ends(t, answer) ==
    thread' = [thread EXCEPT ![t] =
                  IF waits[thread[t].conn] = t THEN [@ EXCEPT !.at = answer] ELSE Idle]
Abandoned(t) == waits[thread[t].conn] # t

\* turn_on_privacy_sync has the lock: it is answered at once, or the old
\* implementation is cleared and the platform gets to work.
BeginTurnOn(t) ==
    /\ thread[t].at = "queued" /\ mutex = Free
    /\ IF AlreadyOn(t) \/ Occupied(t)
       THEN /\ Ends(t, IF AlreadyOn(t) THEN "true" ELSE "err")
            /\ UNCHANGED <<mutex, implVars, robbed>>
       ELSE /\ mutex' = t
            /\ thread' = [thread EXCEPT ![t].at = "platform"]
            /\ current' = thread[t].key
            /\ IF current # thread[t].key THEN TurnOff ELSE UNCHANGED offVars
            /\ IF Abandoned(t) THEN Silently ELSE UNCHANGED robbed
    /\ UNCHANGED <<task, waits, videoVars, told, notice, late, processVars>>

\* The virtual display: disable_physical_displays and the commit.
Commit(t) ==
    /\ thread[t].at = "platform" /\ current = "virtual"
    /\ ~dark
    /\ dark' = TRUE
    /\ thread' = [thread EXCEPT ![t].at = "committed"]
    /\ UNCHANGED <<mutex, current, holder, window, recovery, hook, jammed, task, waits,
                   videoVars, noteVars, processVars>>

\* The end of turn_on_privacy.  The windows need the hook, which is refused
\* while the thread of the last one has not gone; the virtual display saves
\* the recovery first and does without the hook.
FinishTurnOn(t) ==
    /\ \/ thread[t].at = "platform" /\ current # "virtual" /\ hook = "none"
          /\ (current = "inline" => ~window)
          /\ window' = TRUE /\ UNCHANGED recovery
       \/ thread[t].at = "committed" /\ recovery' = TRUE /\ UNCHANGED window
    /\ hook' = IF hook = "none" THEN "set" ELSE hook
    /\ holder' = thread[t].conn
    /\ mutex' = Free
    /\ Ends(t, "true")
    /\ late' = Abandoned(t)
    /\ robbed' = robbed \ {thread[t].conn}
    /\ UNCHANGED <<current, dark, jammed, task, waits, told, notice, videoVars, processVars>>

\* It fails: no helper, no window, no display.  The virtual display's guard
\* undoes what it did; an inline window is shown before its hook is refused.
FailTurnOn(t) ==
    /\ thread[t].at \in Working
    /\ \/ /\ current = "virtual"
          /\ TurnOff
       \/ /\ current = "inline" /\ hook # "none" /\ ~window
          /\ window' = TRUE /\ jammed' = TRUE
          /\ UNCHANGED <<holder, dark, recovery, hook>>
       \/ /\ current # "virtual"
          /\ UNCHANGED offVars
    /\ mutex' = Free
    /\ \E answer \in IF current = "mag" THEN {"err", "false"} ELSE {"err"} : Ends(t, answer)
    /\ UNCHANGED <<current, task, waits, videoVars, noteVars, processVars>>

\* The hook's thread gets the message to leave.
HookExits ==
    /\ hook = "leaving" /\ hook' = "none"
    /\ UNCHANGED <<mutex, current, holder, window, dark, recovery, jammed, taskVars,
                   videoVars, noteVars, processVars>>

-----------------------------------------------------------------------------
(* The connections.                                                        *)

Goes(c, from, to) == task[c] = from /\ task' = [task EXCEPT ![c] = to]
Says(c, on) ==
    /\ told' = IF on THEN told \cup {c} ELSE told \ {c}
    /\ robbed' = IF on THEN robbed ELSE robbed \ {c}

\* check_privacy_mode_on at the request, and the answer, which may wait for the
\* local user: someone else may have turned the mode on in between.
Login(c) ==
    /\ mutex = Free
    /\ Goes(c, "new", IF holder = NoConn THEN "checked" ELSE "gone")
    /\ UNCHANGED <<mutex, implVars, thread, waits, videoVars, noteVars, processVars>>
Accept(c) ==
    /\ Goes(c, "checked", "in")
    /\ sentaway' = IF seen # NoConn THEN sentaway \cup {c} ELSE sentaway
    /\ UNCHANGED <<mutex, implVars, thread, waits, seen, noteVars, processVars>>
Refuse(c) ==
    /\ Goes(c, "checked", "gone")
    /\ UNCHANGED <<mutex, implVars, thread, waits, videoVars, noteVars, processVars>>

\* turn_on_privacy up to its await: whether a thread does it is asked of the
\* implementation there is, not of the one to turn on.
ToggleOn(c, key, t) ==
    /\ mutex = Free /\ Goes(c, "in", "turning")
    /\ thread[t] = Idle
    /\ thread' = [thread EXCEPT ![t] = [conn |-> c, key |-> key, at |-> "queued",
                                        async |-> (current = "virtual")]]
    /\ waits' = [waits EXCEPT ![c] = t]
    /\ calls < MaxCalls /\ calls' = calls + 1
    /\ UNCHANGED <<mutex, implVars, videoVars, noteVars, platform, crashes, torn>>

\* The await returns.  With the magnifier a capturer is tried.
Collect(c, to) ==
    /\ Goes(c, "turning", to)
    /\ thread' = [thread EXCEPT ![waits[c]] = Idle]
    /\ waits' = [waits EXCEPT ![c] = NoThread]
    /\ UNCHANGED <<mutex, implVars, videoVars, processVars>>
TurnedOn(c) ==
    /\ task[c] = "turning" /\ thread[waits[c]].at = "true"
    /\ \/ Collect(c, "in") /\ Says(c, TRUE) /\ UNCHANGED <<notice, late>>
       \/ current = "mag" /\ Collect(c, "undoing") /\ UNCHANGED noteVars
NotTurnedOn(c) ==
    /\ task[c] = "turning"
    /\ \/ thread[waits[c]].at = "false" /\ Collect(c, "in") /\ Says(c, FALSE) /\ UNCHANGED <<notice, late>>
       \/ thread[waits[c]].at = "err" /\ Collect(c, "failed") /\ UNCHANGED noteVars

\* 7.5 s are over: the worker goes on without anybody to hear of its end.
TimesOut(c) ==
    /\ Goes(c, "turning", "failed")
    /\ thread[waits[c]].async /\ thread[waits[c]].at \in {"queued"} \cup Working
    /\ waits' = [waits EXCEPT ![c] = NoThread]
    /\ UNCHANGED <<mutex, implVars, thread, videoVars, noteVars, processVars>>

\* The error of an attempt: a mode that is on, whoever holds it, is turned off.
SeesFailure(c) ==
    /\ mutex = Free
    /\ \/ holder = NoConn /\ Goes(c, "failed", "in") /\ Says(c, FALSE) /\ UNCHANGED <<notice, late>>
       \/ holder # NoConn /\ Goes(c, "failed", "cleaning") /\ UNCHANGED noteVars
    /\ UNCHANGED <<mutex, implVars, thread, waits, videoVars, processVars>>
CleansUp(c) ==
    /\ mutex = Free /\ Goes(c, "cleaning", "in")
    /\ TurnOff
    /\ told' = told \ {c}
    /\ robbed' = (robbed \cup ({holder} \cap Conns)) \ {c}
    /\ UNCHANGED <<mutex, current, notice, late, thread, waits, videoVars, processVars>>

\* turn_off_privacy(id): refused when another one holds the mode.
Owns(c) == holder \in {NoConn, c}
Undoes(c) ==
    /\ mutex = Free /\ Goes(c, "undoing", "in")
    /\ IF Owns(c) THEN TurnOff ELSE UNCHANGED offVars
    /\ Says(c, FALSE)
    /\ UNCHANGED <<mutex, current, notice, late, thread, waits, videoVars, processVars>>
ToggleOff(c) ==
    /\ mutex = Free /\ task[c] = "in"
    /\ IF Owns(c) THEN TurnOff /\ Says(c, FALSE)
       ELSE UNCHANGED <<offVars, told, robbed>>
    /\ UNCHANGED <<mutex, current, notice, late, taskVars, videoVars, processVars>>

\* The end of a connection, with its own mode, and the drop of its entry among
\* the authorized: the last one to go resets the virtual displays, and that
\* turns off whatever is on.
Bug_Leave(c) ==
    /\ Goes(c, "in", "leaving")
    /\ UNCHANGED <<mutex, implVars, told, robbed, notice, late, thread, waits, videoVars,
                   processVars>>
Leave(c) ==
    /\ mutex = Free /\ Goes(c, "in", "leaving")
    /\ IF holder = c THEN TurnOff ELSE UNCHANGED offVars
    /\ told' = told \ {c} /\ robbed' = robbed \ {c} /\ notice' = notice \ {c}
    /\ UNCHANGED <<mutex, current, late, thread, waits, videoVars, processVars>>
Drop(c) ==
    /\ mutex = Free /\ Goes(c, "leaving", "gone")
    /\ IF In = {c} THEN TurnOff /\ Silently
       ELSE UNCHANGED <<offVars, robbed>>
    /\ sentaway' = sentaway \ {c}
    /\ UNCHANGED <<mutex, current, told, notice, late, thread, waits, seen, processVars>>

-----------------------------------------------------------------------------
(* The local user, the options, the video service, the process.            *)

\* Ctrl+P is seen by the hook only.  The manager, told over its socket, tells
\* every connection, unless it cannot be reached.
LocalOff(reached) ==
    /\ mutex = Free /\ hook = "set"
    /\ TurnOff
    /\ IF holder # NoConn /\ reached THEN notice' = In \ {c \in In : task[c] = "leaving"} /\ UNCHANGED robbed
       ELSE Silently /\ UNCHANGED notice
    /\ UNCHANGED <<mutex, current, told, late, taskVars, videoVars, processVars>>
Notified(c) ==
    /\ c \in notice /\ task[c] = "in"
    /\ notice' = notice \ {c} /\ Says(c, FALSE)
    /\ UNCHANGED <<mutex, implVars, late, taskVars, videoVars, processVars>>

\* The option names another implementation: the one there is, is dropped.
Switch(key) ==
    /\ mutex = Free /\ current # key
    /\ current' = key
    /\ IF holder # NoConn THEN TurnOff /\ Silently
       ELSE UNCHANGED <<offVars, robbed>>
    /\ UNCHANGED <<mutex, told, notice, late, taskVars, videoVars, processVars>>

\* The video service sees another holder than at the start of its capturer, and
\* sends all others away; made anew for any other reason, it tells nobody.
CheckPrivacyModeChanged ==
    /\ mutex = Free /\ In # {} /\ seen # holder
    /\ seen' = holder
    /\ sentaway' = IF holder = NoConn THEN sentaway ELSE sentaway \cup (In \ {holder})
    /\ UNCHANGED <<mutex, implVars, taskVars, noteVars, processVars>>
NewCapturer ==
    /\ mutex = Free /\ seen # holder
    /\ seen' = holder
    /\ sentaway' = sentaway \cup (In \ {holder})
    /\ UNCHANGED <<mutex, implVars, taskVars, noteVars, processVars>>

\* The server dies.  When it starts again it restores the displays from the
\* recovery, if there is one.
Restart ==
    /\ crashes < MaxCrashes /\ crashes' = crashes + 1
    /\ torn' = (torn \/ (dark /\ ~recovery))
    /\ dark' = (dark /\ (torn \/ ~recovery)) /\ recovery' = FALSE
    /\ mutex' = Free
    /\ current' = Default[platform] /\ holder' = NoConn
    /\ window' = FALSE /\ hook' = "none" /\ jammed' = FALSE
    /\ thread' = [t \in Threads |-> Idle]
    /\ task' = [c \in Conns |-> IF task[c] = "new" THEN "new" ELSE "gone"]
    /\ waits' = [c \in Conns |-> NoThread]
    /\ told' = {} /\ notice' = {} /\ robbed' = {} /\ late' = FALSE
    /\ seen' = NoConn /\ sentaway' = {}
    /\ UNCHANGED <<platform, calls>>

Next ==
    \/ \E t \in Threads : BeginTurnOn(t) \/ Commit(t) \/ FinishTurnOn(t) \/ FailTurnOn(t)
    \/ HookExits
    \/ \E c \in Conns :
          \/ Login(c) \/ Accept(c) \/ Refuse(c)
          \/ \E key \in Supported[platform], t \in Threads : ToggleOn(c, key, t)
          \/ TurnedOn(c) \/ NotTurnedOn(c) \/ TimesOut(c)
          \/ SeesFailure(c) \/ CleansUp(c) \/ Undoes(c) \/ ToggleOff(c)
          \/ Leave(c) \/ Drop(c) \/ Notified(c)
    \/ \E reached \in BOOLEAN : LocalOff(reached)
    \/ \E key \in Supported[platform] : Switch(key)
    \/ CheckPrivacyModeChanged \/ NewCapturer
    \/ Restart

Spec == Init /\ [][Next]_vars

-----------------------------------------------------------------------------
\* The screen is covered, by a window or by the virtual display.
Covers == window \/ dark

\* A holder's screen is covered, and whenever no call is at work the displays
\* are off, or a window is up, for a holder only; the exceptions are a window
\* left over by a refused hook (win_inline_privacy.rs:310) and a crash before
\* the recovery was saved (win_virtual_display.rs:489).
CoveredForHolder ==
    mutex = Free => /\ holder # NoConn => Covers
                    /\ window => holder # NoConn \/ jammed
                    /\ dark => torn \/ (holder # NoConn /\ recovery)

\* The holder is a connection that is there, unless a worker turned the mode on
\* after its connection had stopped waiting (privacy_mode.rs:251).
HeldByLive == holder # NoConn => task[holder] \in Authed \ {"leaving"} \/ late

\* A peer last told that the mode is on has it, is being answered about it, has
\* a message under way, or was turned off by one of those that tell nobody: the
\* attempt of another one, the options, the last drop (connection.rs:4037,
\* privacy_mode.rs:195, connection.rs:5060).
ToldWhileOn ==
    \A c \in told : \/ holder = c
                    \/ c \in notice \cup robbed
                    \/ task[c] \in {"turning", "failed", "cleaning", "undoing"}

\* Once the video service knows of a holder, everybody else in service was told
\* to leave, or got in or got a new capturer in the meantime.
OthersSentAway ==
    seen # NoConn => \A d \in In \ {seen} : d \in sentaway

Accounted == CoveredForHolder /\ HeldByLive /\ ToldWhileOn /\ OthersSentAway

\* The mode passes from one connection to another only by being off in between;
\* nobody loses it to another one's wish to have it or to be rid of his own
\* (privacy_mode.rs:75, 89), only to another one's failure; and a recovery is
\* given up with the displays back, so that what would undo a mode is never
\* lost before it was undone (win_virtual_display.rs:529).
HandedOver ==
    [][/\ holder # NoConn /\ holder' # NoConn => holder' = holder
       /\ \A t \in Threads : BeginTurnOn(t) => holder \in {thread[t].conn, holder'}
       /\ \A c \in Conns : Undoes(c) \/ ToggleOff(c) => holder \in {c, holder'}
       /\ recovery /\ ~recovery' => ~dark' \/ torn]_vars
=============================================================================
