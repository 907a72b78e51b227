--------------------------- MODULE DisplayService ---------------------------
(***************************************************************************)
(* The list of displays a peer is told of (server/display_service.rs): in  *)
(* the response to its login, and by a service whose thread compares the   *)
(* displays of the machine with SYNC_DISPLAYS every 300 ms.                *)
(*                                                                         *)
(* SYNC_DISPLAYS is changed by the service thread, by every login, and by  *)
(* the capture thread of a display that refreshes; each of them reads the  *)
(* displays of the machine first and locks afterwards.  While a privacy    *)
(* mode plugs displays in and out, it has TEMP_IGNORE_DISPLAYS_CHANGED     *)
(* set; one privacy mode exists at a time.                                 *)
(*                                                                         *)
(* What a list of displays holds is left out, and so are Wayland, where    *)
(* displays do not change, and the end of the Server (see CursorService).  *)
(* The history variable `missed' holds the ids whose login response was    *)
(* older than a message they did not get.                                  *)
(*                                                                         *)
(* A definition whose name starts with Bug_ is no part of the model: it is *)
(* the definition that follows it with a plausible mistake, kept to show   *)
(* which property finds that mistake.                                      *)
(***************************************************************************)
EXTENDS ServiceInner

CONSTANTS Lists,       \* lists of displays the machine may have
          NoDisplays,  \* SyncDisplaysInfo::default(): the empty list
          MaxChanges,  \* bound: changes of the displays of the machine
          MaxIgnores   \* bound: times a privacy mode is turned off

ASSUME DisplayAssumption == /\ NeedSnapshot
                            /\ NoDisplays \notin Lists
                            /\ MaxChanges \in Nat /\ MaxIgnores \in Nat

VARIABLES actual,     \* the displays of the machine
          displays,   \* SYNC_DISPLAYS: the list
          is_synced,  \* SYNC_DISPLAYS: the last message told it
          ignoring,   \* where the privacy mode is that ignores changes
          worker,     \* where the service thread is
          read,       \* what it has read, or is about to send
          video,      \* what a capture thread has read, NoDisplays if nothing
          conn,       \* per connection: where it is
          shown,      \* per connection: what it has read, then what it was told
          changes, ignores,  \* counters of the two bounds
          missed      \* history, see above

syncVars == <<displays, is_synced>>
threadVars == <<worker, read>>
connVars == <<conn, shown>>
worldVars == <<actual, changes, ignoring, ignores, video>>
vars == <<innerVars, syncVars, threadVars, connVars, worldVars, missed>>

ListOrNone == Lists \cup {NoDisplays}
Workers == {"top", "ok", "due", "flag", "has", "unsync", "swap", "swap_bail",
            "read", "check", "sync", "send"}
Stages == {"new", "check", "clone", "logged", "sub", "gone"}

TypeOK == /\ InnerTypeOK
          /\ subscribes \cap new_subscribes = {}
          /\ \A c \in Conns : c \in subscribes \cup new_subscribes => conn[c] = "sub"
          /\ actual \in Lists /\ displays \in ListOrNone
          /\ is_synced \in BOOLEAN
          /\ ignoring \in {"no", "on", "trigger"}
          /\ worker \in Workers /\ read \in ListOrNone
          /\ video \in ListOrNone
          /\ conn \in [Conns -> Stages]
          /\ shown \in [Conns -> ListOrNone]
          /\ changes \in 0 .. MaxChanges /\ ignores \in 0 .. MaxIgnores
          /\ missed \subseteq Conns

Init == /\ InnerInit
        /\ actual \in Lists /\ displays = NoDisplays /\ is_synced = FALSE
        /\ ignoring = "no"
        /\ worker = "top" /\ read = NoDisplays
        /\ video = NoDisplays
        /\ conn = [c \in Conns |-> "new"]
        /\ shown = [c \in Conns |-> NoDisplays]
        /\ changes = 0 /\ ignores = 0
        /\ missed = {}

\* check_changed
CheckChanged(list) ==
    /\ displays' = list
    /\ is_synced' = (is_synced /\ (displays = list \/ ignoring = "on"))
    /\ missed' = IF is_synced' THEN missed ELSE {}

-----------------------------------------------------------------------------
(* The machine, a capture thread and a privacy mode.                       *)

ChangeDisplays == /\ changes < MaxChanges
                  /\ changes' = changes + 1
                  /\ actual' \in Lists \ {actual}
                  /\ UNCHANGED <<innerVars, syncVars, threadVars, connVars, ignoring, ignores, video, missed>>

\* check_displays_changed
VideoRead == /\ video = NoDisplays
             /\ subscribes # {}
             /\ video' = actual
             /\ UNCHANGED <<innerVars, syncVars, threadVars, connVars, actual, changes, ignoring, ignores, missed>>

VideoCheck == /\ video # NoDisplays
              /\ CheckChanged(video)
              /\ video' = NoDisplays
              /\ UNCHANGED <<innerVars, threadVars, connVars, actual, changes, ignoring, ignores>>

\* temp_ignore_displays_changed, and the two steps of what it returns.
Ignore == /\ ignoring = "no" /\ ignores < MaxIgnores
          /\ ignoring' = "on" /\ ignores' = ignores + 1
          /\ UNCHANGED <<innerVars, syncVars, threadVars, connVars, actual, changes, video, missed>>

StopIgnoring == /\ ignoring = "on"
                /\ ignoring' = "trigger"
                /\ UNCHANGED <<innerVars, syncVars, threadVars, connVars, actual, changes, ignores, video, missed>>

Bug_TriggerNothing ==
    /\ ignoring = "trigger"
    /\ ignoring' = "no" /\ missed' = {}
    /\ UNCHANGED <<innerVars, syncVars, threadVars, connVars, actual, changes, ignores, video>>

Trigger == /\ ignoring = "trigger"
           /\ ignoring' = "no"
           /\ is_synced' = FALSE /\ missed' = {}
           /\ UNCHANGED <<innerVars, displays, threadVars, connVars, actual, changes, ignores, video>>

-----------------------------------------------------------------------------
(* Connections.                                                            *)

\* update_get_sync_displays_on_login: the displays are read, compared, and what
\* the list is by then goes into the login response.
LoginRead(c) == /\ conn[c] = "new"
                /\ conn' = [conn EXCEPT ![c] = "check"]
                /\ shown' = [shown EXCEPT ![c] = actual]
                /\ UNCHANGED <<innerVars, syncVars, threadVars, worldVars, missed>>

LoginCheck(c) == /\ conn[c] = "check"
                 /\ CheckChanged(shown[c])
                 /\ conn' = [conn EXCEPT ![c] = "clone"]
                 /\ UNCHANGED <<innerVars, threadVars, shown, worldVars>>

LoginClone(c) == /\ conn[c] = "clone"
                 /\ conn' = [conn EXCEPT ![c] = "logged"]
                 /\ shown' = [shown EXCEPT ![c] = displays]
                 /\ UNCHANGED <<innerVars, syncVars, threadVars, worldVars, missed>>

\* Server::add_connection and remove_connection
AddConnection(c) == /\ conn[c] = "logged"
                    /\ OnSubscribe(c)
                    /\ conn' = [conn EXCEPT ![c] = "sub"]
                    /\ UNCHANGED <<syncVars, threadVars, shown, worldVars, missed>>

RemoveConnection(c) == /\ conn[c] \in {"logged", "sub"}
                       /\ OnUnsubscribe(c)
                       /\ conn' = [conn EXCEPT ![c] = "gone"]
                       /\ UNCHANGED <<syncVars, threadVars, shown, worldVars, missed>>

-----------------------------------------------------------------------------
(* The service thread: ServiceTmpl::run around `run'.                      *)

Goto(from, to) == worker = from /\ worker' = to
KeepOthers == UNCHANGED <<innerVars, syncVars, read, connVars, worldVars, missed>>

Top == HasSubscribes /\ Goto("top", "ok") /\ KeepOthers
Loop == Goto("ok", IF ok THEN "due" ELSE "top") /\ KeepOthers
Due == Goto("due", IF SnapshotDue THEN "flag" ELSE "read") /\ KeepOthers

\* The snapshot: unless changes are ignored, new subscribers beside old ones have
\* the message sent again, to all of them, after the run started anew.
Flag == Goto("flag", IF ignoring = "on" THEN "swap" ELSE "has") /\ KeepOthers
Has == Goto("has", IF subscribes # {} THEN "unsync" ELSE "swap") /\ KeepOthers

Bug_UnsyncOnlyBails ==
    /\ Goto("unsync", "swap_bail")
    /\ missed' = {}
    /\ UNCHANGED <<innerVars, syncVars, read, connVars, worldVars>>

Unsync == /\ Goto("unsync", "swap_bail")
          /\ is_synced' = FALSE /\ missed' = {}
          /\ UNCHANGED <<innerVars, displays, read, connVars, worldVars>>

Swap == /\ Goto("swap", "read") \/ Goto("swap_bail", "top")
        /\ SwapNewSubscribes
        /\ UNCHANGED <<syncVars, read, connVars, worldVars, missed>>

\* check_get_displays_changed_msg
Read == /\ Goto("read", "check")
        /\ read' = actual
        /\ UNCHANGED <<innerVars, syncVars, connVars, worldVars, missed>>
ReadFails == Goto("read", "ok") /\ KeepOthers

Check == /\ Goto("check", "sync")
         /\ CheckChanged(read)
         /\ UNCHANGED <<innerVars, read, connVars, worldVars>>

\* get_update_sync_displays
Sync == /\ Goto("sync", IF is_synced THEN "ok" ELSE "send")
        /\ is_synced' = TRUE
        /\ read' = IF is_synced THEN read ELSE displays
        /\ UNCHANGED <<innerVars, displays, connVars, worldVars, missed>>

Waiting(c) == conn[c] = "logged" \/ c \in new_subscribes

Send == /\ Goto("send", "ok")
        /\ shown' = [c \in Conns |-> IF c \in subscribes THEN read ELSE shown[c]]
        /\ missed' = (missed \ subscribes) \cup
                     {c \in Conns \ subscribes : Waiting(c) /\ shown[c] # read}
        /\ UNCHANGED <<innerVars, syncVars, read, conn, worldVars>>

Run == Top \/ Loop \/ Due \/ Flag \/ Has \/ Unsync \/ Swap \/ Check \/ Sync \/ Send
Connection(c) == LoginRead(c) \/ LoginCheck(c) \/ LoginClone(c) \/ AddConnection(c)
World == ChangeDisplays \/ VideoRead \/ VideoCheck \/ Ignore \/ StopIgnoring \/ Trigger

Next == \/ Run \/ Read \/ ReadFails
        \/ \E c \in Conns : Connection(c) \/ RemoveConnection(c)
        \/ World

Spec == Init /\ [][Next]_vars

\* The threads run; what a thread began it goes on with; reading the displays
\* does not fail for ever; privacy modes end what they ignore.
FairSpec == /\ Spec
            /\ WF_vars(Run) /\ SF_vars(Read)
            /\ WF_vars(VideoCheck) /\ WF_vars(StopIgnoring) /\ WF_vars(Trigger)
            /\ \A c \in Conns : WF_vars(LoginCheck(c) \/ LoginClone(c))

-----------------------------------------------------------------------------
(* Properties.                                                             *)

\* get_update_sync_displays: once the list is marked as synced and the message is
\* out, every subscriber was told this list, by a message or at its login.  The
\* exceptions the code has: changes are being ignored; and a subscriber whose
\* login came before a change, and that subscribed after the message, when the
\* subscribers that got it had left.
InSync == is_synced /\ worker # "send" /\ ignoring = "no" =>
              \A c \in subscribes \ missed : shown[c] = displays

\* A subscriber that stays learns the displays of the machine once they cease to
\* change, also those that changed while changes were ignored; missed as above.
Stays(c) == c \in (subscribes \cup new_subscribes) \ missed
AllLearn == \A c \in Conns : <>[]Stays(c) => <>[](shown[c] = actual)
=============================================================================
