----------------------------- MODULE AuthedConns -----------------------------
(***************************************************************************)
(* What the connections of a server share without a service: the lists     *)
(* ALIVE_CONNS and AUTHED_CONNS, the SESSIONS that let a peer reconnect,   *)
(* the wake lock, and what the last remote session restores (server/       *)
(* connection.rs, mod raii, start_wakelock_thread, on_remote_authorized,   *)
(* change_resolution, and CHANGED_RESOLUTIONS of display_service.rs).      *)
(*                                                                         *)
(* Connections run on the threads of one runtime.  Every step below is one *)
(* critical section: AUTHED_CONNS is locked and unlocked by each reading,  *)
(* while check_remove_session holds SESSIONS all along, which is why a     *)
(* connection at "remove" keeps the others from SESSIONS.                  *)
(*                                                                         *)
(* A connection is remote or not for all its life (AuthConnType) and has   *)
(* one session key.  The other types differ in one thing that counts here: *)
(* a port forward takes no messages, so it never changes the resolution.   *)
(* One display stands for all, and the wake lock is the one of Windows and *)
(* macOS: on Linux it keeps the display on as long as it is held.  Left    *)
(* out: the failures of the platform to change what it is asked to, which  *)
(* are only logged, and the hook that runs when the process exits.         *)
(*                                                                         *)
(* A definition whose name starts with Bug_ is no part of the model: it is *)
(* the definition that follows it with a plausible mistake, kept to show   *)
(* which property finds that mistake.                                      *)
(***************************************************************************)
EXTENDS Naturals, Sequences

CONSTANTS Conns,    \* connection ids
          Remotes,  \* those that log in for remote control
          Keys,     \* session keys: peer and session id
          Key,      \* per connection: its session key
          MaxCounts \* bound: counts on the way to the wake lock's thread

ASSUME AuthedAssumption == /\ Remotes \subseteq Conns
                           /\ Key \in [Conns -> Keys]
                           /\ MaxCounts \in Nat \ {0}

VARIABLES stage,        \* per connection: where its task is
          alive,        \* ALIVE_CONNS
          authed,       \* AUTHED_CONNS
          sessions,     \* the keys of SESSIONS
          counted,      \* per connection: conn_count > 0, remote_count > 0
          channel,      \* WAKELOCK_SENDER: what was counted, not yet received
          wakelock,     \* the wake lock is held
          last_display, \* it keeps the display on
          wallpaper,    \* WALLPAPER_REMOVER: the wallpaper is taken away
          mode,         \* the resolution of the display
          recorded,     \* CHANGED_RESOLUTIONS: the original one, if any
          original,     \* per connection: the one it is about to record
          alone,        \* history: the last change of authed met no other one
          asked,        \* history: who changed it and is logged in, until the
                        \* records are cleared
          assumed       \* history: nobody changed it during a restoration

sharedVars == <<alive, authed, sessions>>
lockVars == <<counted, channel, wakelock, last_display>>
desktopVars == <<wallpaper, mode, recorded, original>>
ghostVars == <<alone, asked, assumed>>
vars == <<stage, sharedVars, lockVars, desktopVars, ghostVars>>

Stages == {"new", "alive", "login", "any", "remote", "send", "setup", "on",
           "record", "apply", "check", "remove", "drop", "last", "wallpaper",
           "resolution", "clear", "unlist", "gone"}
Modes == {"own", "chosen"}
Counts == [any : BOOLEAN, remote : BOOLEAN]

\* A connection is listed from its login to its drop.  It passes the stages of
\* check_wake_lock after both, and those of check_remove_session with or without
\* a login.
Listed == {"setup", "on", "record", "apply", "drop"}
Counting == {"any", "remote", "send"}
Closing == {"check", "remove"}

TypeOK == /\ stage \in [Conns -> Stages]
          /\ alive \subseteq Conns
          /\ authed \subseteq Conns
          /\ \A c \in authed : stage[c] \in Listed \cup Counting \cup Closing
          /\ \A c \in Conns : stage[c] \in Listed => c \in authed
          /\ sessions \subseteq Keys
          /\ counted \in [Conns -> Counts]
          /\ channel \in Seq(Counts)
          /\ wakelock \in BOOLEAN /\ last_display \in BOOLEAN
          /\ wallpaper \in BOOLEAN
          /\ mode \in Modes /\ recorded \in Modes \cup {"none"}
          /\ original \in [Conns -> Modes]
          /\ asked \subseteq authed
          /\ alone \in BOOLEAN /\ assumed \in BOOLEAN

Init == /\ stage = [c \in Conns |-> "new"]
        /\ alive = {} /\ authed = {} /\ sessions = {}
        /\ counted = [c \in Conns |-> [any |-> FALSE, remote |-> FALSE]]
        /\ channel = <<>>
        /\ wakelock = FALSE /\ last_display = FALSE
        /\ wallpaper = FALSE
        /\ mode = "own" /\ recorded = "none"
        /\ original = [c \in Conns |-> "own"]
        /\ alone = TRUE /\ asked = {} /\ assumed = TRUE

Goto(c, from, to) == stage[c] = from /\ stage' = [stage EXCEPT ![c] = to]

SessionsFree == \A c \in Conns : stage[c] # "remove"

\* Between a change of AUTHED_CONNS and the message about it.
Changing(c) == stage[c] \in Counting \cup {"last", "wallpaper", "resolution", "clear"}
NoteChange(c) == alone' = ~\E d \in Conns \ {c} : Changing(d)

-----------------------------------------------------------------------------
(* From the start of a connection to its login.                            *)

\* ConnectionID::new
Start(c) == /\ Goto(c, "new", "alive")
            /\ alive' = alive \cup {c}
            /\ UNCHANGED <<authed, sessions, lockVars, desktopVars, ghostVars>>

\* The temporary password: the session is remembered.
LoginTemporary(c) == /\ Goto(c, "alive", "login")
                     /\ SessionsFree
                     /\ sessions' = sessions \cup {Key[c]}
                     /\ UNCHANGED <<alive, authed, lockVars, desktopVars, ghostVars>>

\* is_recent_session
LoginRecent(c) == /\ Goto(c, "alive", "login")
                  /\ SessionsFree
                  /\ Key[c] \in sessions
                  /\ UNCHANGED <<sharedVars, lockVars, desktopVars, ghostVars>>

\* The permanent password, or the user of this machine accepts.
LoginOther(c) == /\ Goto(c, "alive", "login")
                 /\ UNCHANGED <<sharedVars, lockVars, desktopVars, ghostVars>>

\* is_recent_session drops what was not used for SESSION_TIMEOUT.  A living
\* connection does not prevent it: one that logged in before the session was
\* made anew renews the time of the old one.
Expire(k) == /\ SessionsFree
             /\ k \in sessions
             /\ sessions' = sessions \ {k}
             /\ UNCHANGED <<stage, alive, authed, lockVars, desktopVars, ghostVars>>

\* AuthedConnID::new
Push(c) == /\ Goto(c, "login", "any")
           /\ authed' = authed \cup {c}
           /\ NoteChange(c)
           /\ UNCHANGED <<alive, sessions, lockVars, desktopVars, asked, assumed>>

\* check_wake_lock, after the login or the drop: two readings and the message.
CountAny(c) == /\ Goto(c, "any", "remote")
               /\ counted' = [counted EXCEPT ![c].any = authed # {}]
               /\ UNCHANGED <<sharedVars, channel, wakelock, last_display, desktopVars, ghostVars>>

CountRemote(c) == /\ Goto(c, "remote", "send")
                  /\ counted' = [counted EXCEPT ![c].remote = authed \cap Remotes # {}]
                  /\ UNCHANGED <<sharedVars, channel, wakelock, last_display, desktopVars, ghostVars>>

Send(c) == /\ Goto(c, "send", IF c \in authed THEN "setup" ELSE "unlist")
           /\ Len(channel) < MaxCounts
           /\ channel' = Append(channel, counted[c])
           /\ UNCHANGED <<sharedVars, counted, wakelock, last_display, desktopVars, ghostVars>>

\* The wake lock's thread.
Bug_ReceiveKeepsMode ==
    /\ channel # <<>>
    /\ channel' = Tail(channel)
    /\ wakelock' = Head(channel).any
    /\ last_display' = IF wakelock THEN last_display ELSE Head(channel).remote
    /\ UNCHANGED <<stage, sharedVars, counted, desktopVars, ghostVars>>

Receive == /\ channel # <<>>
           /\ channel' = Tail(channel)
           /\ wakelock' = Head(channel).any
           /\ last_display' = IF Head(channel).any THEN Head(channel).remote ELSE last_display
           /\ UNCHANGED <<stage, sharedVars, counted, desktopVars, ghostVars>>

-----------------------------------------------------------------------------
(* A connection that is logged in, and its end.                            *)

\* on_remote_authorized, with or without the option, and its failure.
Setup(c) == /\ Goto(c, "setup", "on")
            /\ wallpaper' \in {wallpaper, wallpaper \/ c \in Remotes}
            /\ UNCHANGED <<sharedVars, lockVars, mode, recorded, original, ghostVars>>

\* change_resolution, for whoever may use the keyboard, remote or not: the original
\* resolution is read, recorded unless there is a record already, and the new one
\* is set.
ChangeResolution(c) ==
    /\ Goto(c, "on", "record")
    /\ original' = [original EXCEPT ![c] = mode]
    /\ asked' = asked \cup {c}
    /\ assumed' = (assumed /\ \A d \in Conns : stage[d] # "clear")
    /\ UNCHANGED <<sharedVars, lockVars, wallpaper, mode, recorded, alone>>

Bug_RecordLatest(c) ==
    /\ Goto(c, "record", "apply")
    /\ recorded' = original[c]
    /\ original' = [original EXCEPT ![c] = "own"]
    /\ UNCHANGED <<sharedVars, lockVars, wallpaper, mode, ghostVars>>

Record(c) == /\ Goto(c, "record", "apply")
             /\ recorded' = IF recorded = "none" THEN original[c] ELSE recorded
             /\ original' = [original EXCEPT ![c] = "own"]
             /\ UNCHANGED <<sharedVars, lockVars, wallpaper, mode, ghostVars>>

Apply(c) == /\ Goto(c, "apply", "on")
            /\ mode' = "chosen"
            /\ UNCHANGED <<sharedVars, lockVars, wallpaper, recorded, original, ghostVars>>

\* A close with no retry, by either side; any other end of the connection.
CloseNoRetry(c) == /\ Goto(c, "alive", "check") \/ Goto(c, "on", "check")
                   /\ UNCHANGED <<sharedVars, lockVars, desktopVars, ghostVars>>
Lost(c) == /\ Goto(c, "alive", "unlist") \/ Goto(c, "on", "drop")
           /\ UNCHANGED <<sharedVars, lockVars, desktopVars, ghostVars>>

\* check_remove_session: the reading of AUTHED_CONNS, then the removal.
AnotherRemote(c) == \E d \in (authed \cap Remotes) \ {c} : Key[d] = Key[c]
IsRemote(c) == c \in authed \cap Remotes
AfterCheck(c) == IF c \in authed THEN "drop" ELSE "unlist"

Check(c) == /\ SessionsFree
            /\ Goto(c, "check", IF Key[c] \in sessions /\ (IsRemote(c) \/ ~AnotherRemote(c))
                                THEN "remove" ELSE AfterCheck(c))
            /\ UNCHANGED <<sharedVars, lockVars, desktopVars, ghostVars>>

RemoveSession(c) == /\ Goto(c, "remove", AfterCheck(c))
                    /\ sessions' = sessions \ {Key[c]}
                    /\ UNCHANGED <<alive, authed, lockVars, desktopVars, ghostVars>>

Bug_RetainUnlists(c) ==
    /\ Goto(c, "drop", "last")
    /\ alive' = alive \ {c}
    /\ UNCHANGED <<authed, sessions, lockVars, desktopVars, ghostVars>>

\* Drop for AuthedConnID
Retain(c) == /\ Goto(c, "drop", "last")
             /\ authed' = authed \ {c}
             /\ NoteChange(c)
             /\ asked' = asked \ {c}
             /\ UNCHANGED <<alive, sessions, lockVars, desktopVars, assumed>>

Bug_LastOfAny(c) ==
    /\ Goto(c, "last", IF authed = {} THEN "wallpaper" ELSE "any")
    /\ UNCHANGED <<sharedVars, lockVars, desktopVars, ghostVars>>

LastRemote(c) == /\ Goto(c, "last", IF authed \cap Remotes = {} THEN "wallpaper" ELSE "any")
           /\ UNCHANGED <<sharedVars, lockVars, desktopVars, ghostVars>>

RestoreWallpaper(c) == /\ Goto(c, "wallpaper", "resolution")
                       /\ wallpaper' = FALSE
                       /\ UNCHANGED <<sharedVars, lockVars, mode, recorded, original, ghostVars>>

\* restore_resolutions: under the read guard, then under the write guard.
NoRemote == authed \cap Remotes = {}

RestoreResolutions(c) ==
    /\ Goto(c, "resolution", "clear")
    /\ mode' = IF recorded = "none" THEN mode ELSE recorded
    /\ assumed' = (assumed /\ \A d \in Conns : stage[d] \notin {"record", "apply"})
    /\ UNCHANGED <<sharedVars, lockVars, wallpaper, recorded, original, alone, asked>>

ClearResolutions(c) ==
    /\ Goto(c, "clear", "any")
    /\ recorded' = "none"
    /\ asked' = {}
    /\ UNCHANGED <<sharedVars, lockVars, wallpaper, mode, original, alone, assumed>>

\* Drop for ConnectionID: the first local of Connection::start is dropped last.
Unlist(c) == /\ Goto(c, "unlist", "gone")
             /\ alive' = alive \ {c}
             /\ UNCHANGED <<authed, sessions, lockVars, desktopVars, ghostVars>>

Terminated == /\ \A c \in Conns : stage[c] = "gone"
              /\ channel = <<>> /\ sessions = {}
              /\ UNCHANGED vars

Login(c) == \/ Start(c) \/ LoginTemporary(c) \/ LoginRecent(c) \/ LoginOther(c)
            \/ Push(c) \/ Setup(c)
Resolution(c) == ChangeResolution(c) \/ Record(c) \/ Apply(c)
WakeLock(c) == CountAny(c) \/ CountRemote(c) \/ Send(c)
Close(c) == \/ CloseNoRetry(c) \/ Lost(c)
            \/ Check(c) \/ RemoveSession(c)
            \/ Retain(c) \/ LastRemote(c) \/ RestoreWallpaper(c)
            \/ RestoreResolutions(c) \/ ClearResolutions(c)
            \/ Unlist(c)

Next == \/ \E c \in Conns : Login(c) \/ WakeLock(c) \/ Resolution(c) \/ Close(c)
        \/ \E k \in Keys : Expire(k)
        \/ Receive
        \/ Terminated

Spec == Init /\ [][Next]_vars

-----------------------------------------------------------------------------
(* Properties.                                                             *)

\* "ALIVE_CONNS: all connections, including unauthorized connections",
\* "AUTHED_CONNS: all authorized connections": the one contains the other, at
\* every moment of a connection's end too, since the entry that came first is
\* dropped last.
AuthedAlive == authed \subseteq alive

\* The wallpaper is back by the time the last remote session is dropped, however
\* several of them come and go at once.
WallpaperRestored ==
    wallpaper => \E c \in Remotes : c \in authed \/ stage[c] \in {"last", "wallpaper"}

\* The display has its own resolution when no remote session is left, whoever
\* changed it how often.  Two exceptions the code has: a connection that is not
\* remote can change it too, and if no remote session ends after that it stays
\* changed until a connection is dropped, at the latest the one that asked; and a
\* change that is under way during a restoration can lose its record.
ResolutionRestored ==
    (assumed /\ NoRemote /\ asked = {} /\ \A c \in Conns : ~Changing(c)) =>
        mode = "own" /\ recorded = "none"

\* When nothing is under way the wake lock is held exactly if a connection is
\* logged in, and keeps the display on exactly if one of them is remote.  The
\* exception the code has: two connections that come or go at the same time
\* count and send in different orders, and the last message may be the wrong one.
WakeLockFollows ==
    (channel = <<>> /\ alone /\ \A c \in Conns : ~Changing(c)) =>
        /\ wakelock = (authed # {})
        /\ wakelock => last_display = (authed \cap Remotes # {})

\* restore_resolutions, of its clearing the records: "Can be cleared because
\* restore resolutions is called when there is no client connected."
RestoredAlone == [][\A c \in Conns : ClearResolutions(c) => NoRemote]_vars
=============================================================================
