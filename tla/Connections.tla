---------------------------- MODULE Connections -----------------------------
(***************************************************************************)
(* The connections of a server (Connection::start and the handlers it      *)
(* calls, server/connection.rs) and the registry they share (Server,       *)
(* server.rs): which services each connection is subscribed to, from what  *)
(* its user allows in the connection manager, what its peer asks for in    *)
(* options and messages, and the order in which a connection ends.         *)
(*                                                                         *)
(* A connection is one task, so its own state changes in no await of its   *)
(* handlers; what it shares is behind the server's lock or in globals, and *)
(* each action takes the part of a handler between two uses of those.  A   *)
(* subscription is one step here: CursorService splits it.  One camera     *)
(* stands for all there may be.                                            *)
(*                                                                         *)
(* A definition whose name starts with Bug_ is no part of the model: it is *)
(* the definition that follows it with a plausible mistake, kept to show   *)
(* which property finds that mistake.                                      *)
(***************************************************************************)
EXTENDS Naturals, FiniteSets

CONSTANTS Conns,     \* connection ids
          Kind,      \* Kind[c]: what the peer logs in for
          Displays,  \* names of the video services of displays
          Primary,   \* the one of the primary display
          Grants,    \* permissions a configuration may start with
          Switches,  \* Switches[c]: permissions the user switches for c
          Messages,  \* Messages[c]: option messages of the peer of c
          Callers,   \* connections whose peers ask for voice calls
          OldPeers,  \* connections whose peers know one display at a time
          MaxChoices \* bound: choices of an input device

Kinds == {"remote", "camera", "terminal", "file"}
Permissions == {"keyboard", "clipboard", "audio", "camera"}
Options == {"show_remote_cursor", "follow_remote_window", "disable_keyboard",
            "disable_clipboard", "disable_audio"}
\* An option message sets some options to Yes, some to No, and leaves the rest.
OptionMessages == [yes : SUBSET Options, no : SUBSET Options]
NoOptions == [yes |-> {}, no |-> {}]

\* The services that exist from the start; add_connection skips none of them.
Plain == {"audio", "display", "clipboard", "cursor", "pos", "focus"}
Services == Plain \cup Displays \cup {"camera"}
Videos == Displays \cup {"camera"}

ASSUME ConnectionsAssumption ==
    /\ IsFiniteSet(Conns)
    /\ Kind \in [Conns -> Kinds]
    /\ Primary \in Displays
    /\ Displays \cap (Plain \cup {"camera"}) = {}
    /\ Grants \subseteq SUBSET (Permissions \ {"camera"})
    /\ Switches \in [Conns -> SUBSET Permissions]
    /\ Messages \in [Conns -> SUBSET OptionMessages]
    /\ \A c \in Conns : \A o \in Messages[c] : o.yes \cap o.no = {}
    /\ Callers \subseteq Conns
    /\ OldPeers \subseteq Conns
    /\ MaxChoices \in Nat

VARIABLES conn,             \* where the task of a connection is
          authorized,       \* connections whose login was answered
          closed,           \* connections that ran on_close
          perm,             \* what the user allows: keyboard, clipboard, audio
          opt,              \* what the peer asks for
          services_subed,
          multi_ui_session,
          display_idx,
          seen,             \* seen[c]: services that have c as a subscriber
          services,         \* video services the server has
          connections,      \* Server::connections
          CONN_COUNT,
          running,          \* RECORD_CURSOR_POS_RUNNING
          recorders,        \* threads that record the cursor's position
          requested,        \* voice_call_request_timestamp is set
          voice_calling,
          device,           \* VOICE_CALL_INPUT_DEVICE is set
          choices,          \* choices of a device sent over IPC, not arrived
          cm                \* what the connection manager shows of c

\* History, read by properties only.
VARIABLES forced,    \* got the cursor service by the switch, view-only or not
          refocused, \* asked to follow windows while it shows many displays
          uncounted, \* camera connections added after the last count
          robbed,    \* in a call when another connection reset the device
          stray,     \* the device was chosen after the last call had ended
          wanted,    \* the peer asked for a call and did not hang up
          crossed    \* a call was accepted after its peer had hung up

taskVars == <<conn, closed, cm>>
rightVars == <<perm, opt>>
loginVars == <<authorized, services_subed>>
viewVars == <<multi_ui_session, display_idx, refocused>>
registryVars == <<connections, CONN_COUNT, running, recorders, uncounted>>
callVars == <<requested, voice_calling, wanted, crossed>>
deviceVars == <<device, choices, robbed, stray>>
vars == <<taskVars, rightVars, loginVars, viewVars, seen, services, registryVars,
          callVars, deviceVars, forced>>

\* Only answered connections are registered, and none stays that was removed.
TaskTypes ==
    /\ conn \in [Conns -> {"new", "open", "leaving", "removed", "gone"}]
    /\ cm \in [Conns -> {"none", "asked", "authorized", "told"}]
    /\ authorized \subseteq Conns /\ closed \subseteq Conns
    /\ perm \in [Conns -> SUBSET Permissions]
    /\ opt \in [Conns -> SUBSET Options]
    /\ services_subed \subseteq Conns
    /\ connections \subseteq {c \in authorized : conn[c] \in {"open", "leaving"}}
    /\ CONN_COUNT \in Nat /\ recorders \in Nat /\ running \in BOOLEAN
    /\ uncounted \subseteq Conns
ViewTypes ==
    /\ seen \in [Conns -> SUBSET Services]
    /\ services \subseteq Videos
    /\ display_idx \in [Conns -> Displays]
    /\ multi_ui_session \subseteq Conns
    /\ forced \subseteq Conns /\ refocused \subseteq Conns
CallTypes ==
    /\ device \in BOOLEAN /\ stray \in BOOLEAN
    /\ choices \in 0..MaxChoices
    /\ requested \subseteq Conns /\ voice_calling \subseteq Conns
    /\ robbed \subseteq Conns /\ wanted \subseteq Conns /\ crossed \subseteq Conns
TypeOK == TaskTypes /\ ViewTypes /\ CallTypes

Init ==
    /\ conn = [c \in Conns |-> "new"]
    /\ authorized = {} /\ closed = {}
    /\ perm = [c \in Conns |-> {}]
    /\ opt = [c \in Conns |-> {}]
    /\ services_subed = {} /\ multi_ui_session = {}
    /\ display_idx = [c \in Conns |-> Primary]
    /\ seen = [c \in Conns |-> {}]
    /\ services = {}
    /\ connections = {} /\ CONN_COUNT = 0
    /\ running = FALSE /\ recorders = 0
    /\ requested = {} /\ voice_calling = {}
    /\ device = FALSE /\ choices = 0
    /\ cm = [c \in Conns |-> "none"]
    /\ forced = {} /\ refocused = {} /\ uncounted = {} /\ robbed = {}
    /\ stray = FALSE /\ wanted = {} /\ crossed = {}

-----------------------------------------------------------------------------
(* What permissions and options amount to.                                 *)

peer_keyboard_enabled(p, o) == "keyboard" \in p /\ "disable_keyboard" \notin o
clipboard_enabled(p, o) == "clipboard" \in p /\ "disable_clipboard" \notin o
can_sub_clipboard_service(p, o) == clipboard_enabled(p, o) /\ peer_keyboard_enabled(p, o)
audio_enabled(p, o) == "audio" \in p /\ "disable_audio" \notin o
wants_cursor(p, o) == peer_keyboard_enabled(p, o) \/ "show_remote_cursor" \in o

is_authed_view_camera_conn(c) == Kind[c] = "camera" /\ c \in authorized

Open(c) == conn[c] = "open"

\* Its peer's requests are looked at, whatever it logged in for.
Answered(c) == Open(c) /\ c \in authorized
Goes(c) == conn' = [conn EXCEPT ![c] = "leaving"]

-----------------------------------------------------------------------------
(* The registry, under the server's write lock.                            *)

\* try_start_record_cursor_pos.
StartRecorder == /\ running' = TRUE
                 /\ recorders' = IF running THEN recorders ELSE recorders + 1

\* try_stop_record_cursor_pos, with the count as remove_connection leaves it.
StopRecorder(n) == /\ running' = IF n > 0 THEN running ELSE FALSE
                   /\ UNCHANGED recorders

add_connection(c) ==
    /\ connections' = connections \cup {c}
    /\ CONN_COUNT' = Cardinality(connections')
    /\ uncounted' = {}

\* Registers the connection, and does not count it.
add_camera_connection(c) ==
    /\ connections' = connections \cup {c}
    /\ uncounted' = uncounted \cup ({c} \ connections)
    /\ UNCHANGED CONN_COUNT

\* The permissions a login subscribes with: noperms is what it leaves out.
noperms(p, o) ==
    {n \in Plain : \/ n = "cursor" /\ ~wants_cursor(p, o)
                   \/ n = "pos" /\ "show_remote_cursor" \notin o
                   \/ n = "focus" /\ "follow_remote_window" \notin o
                   \/ n = "clipboard" /\ ~can_sub_clipboard_service(p, o)
                   \/ n = "audio" /\ ~audio_enabled(p, o)}

\* The services of c after try_sub_monitor_services, from S and what c may have.
monitor_services(S, p, o) == S \cup (Plain \ noperms(p, o)) \cup {Primary}

\* Of a desktop; services_subed makes it happen once.
try_sub_monitor_services(c, S, p, o) ==
    IF c \in services_subed
    THEN /\ seen' = [seen EXCEPT ![c] = S]
         /\ UNCHANGED <<services, services_subed, registryVars>>
    ELSE /\ services_subed' = services_subed \cup {c}
         /\ StartRecorder
         /\ services' = services \cup {Primary}
         /\ add_connection(c)
         /\ seen' = [seen EXCEPT ![c] = monitor_services(S, p, o)]

try_sub_camera_displays(c, S) ==
    /\ services' = services \cup {"camera"}
    /\ add_camera_connection(c)
    /\ seen' = [seen EXCEPT ![c] = S \cup {"camera"}]
    /\ UNCHANGED <<services_subed, running, recorders>>

-----------------------------------------------------------------------------
(* Options and permissions.                                                *)

\* The services an option message makes the handler subscribe or unsubscribe.
Bug_touched(c, p, q, o) ==
    LET m == o.yes \cup o.no
    IN  {n \in Plain : \/ n = "cursor" /\ m \cap {"show_remote_cursor", "disable_keyboard"} # {}
                       \/ n = "focus" /\ "follow_remote_window" \in m
                       \/ n = "clipboard" /\ m \cap {"disable_clipboard", "disable_keyboard"} # {}
                       \/ n = "audio" /\ "disable_audio" \in m}

touched(c, p, q, o) ==
    LET m == o.yes \cup o.no
    IN  {n \in Plain : \/ n = "cursor" /\ m \cap {"show_remote_cursor", "disable_keyboard"} # {}
                       \/ n = "pos" /\ "show_remote_cursor" \in m
                       \/ n = "focus" /\ "follow_remote_window" \in m
                       \/ n = "clipboard" /\ m \cap {"disable_clipboard", "disable_keyboard"} # {}
                       \/ /\ n = "audio" /\ "disable_audio" \in m
                          /\ Kind[c] = "camera" => c \in voice_calling \/ ~audio_enabled(p, q)}

\* update_options(o): every service touched ends as the new options have it.
new_options(c, o) == (opt[c] \cup o.yes) \ o.no
after_options(c, o) ==
    LET q == new_options(c, o)
        T == touched(c, perm[c], q, o)
    IN  (seen[c] \ T) \cup (T \ noperms(perm[c], q))
Unforced(c, o) ==
    forced' = IF (o.yes \cup o.no) \cap {"show_remote_cursor", "disable_keyboard"} # {}
              THEN forced \ {c} ELSE forced

\* Misc::Option.
UpdateOptions(c, o) ==
    /\ Answered(c)
    /\ opt' = [opt EXCEPT ![c] = new_options(c, o)]
    /\ seen' = [seen EXCEPT ![c] = after_options(c, o)]
    /\ Unforced(c, o)
    /\ refocused' = IF "follow_remote_window" \in o.yes /\ c \in multi_ui_session
                    THEN refocused \cup {c}
                    ELSE IF "follow_remote_window" \in o.no THEN refocused \ {c} ELSE refocused
    /\ UNCHANGED <<taskVars, perm, loginVars, multi_ui_session, display_idx, services,
                   registryVars, callVars, deviceVars>>

\* ipc::Data::SwitchPermission: p is perm[c] afterwards.
switched(c, name, on, p) ==
    LET T == {n \in Plain : \/ n = "clipboard" /\ name \in {"keyboard", "clipboard"}
                            \/ /\ n = "audio" /\ name = "audio" /\ c \in authorized
                               /\ Kind[c] = "camera" => c \in voice_calling \/ ~audio_enabled(p, opt[c])}
        C == IF on \/ "show_remote_cursor" \in opt[c] THEN {"cursor"} ELSE {}
        V == {"camera"} \cap services
    IN  CASE name = "keyboard" -> (seen[c] \ (T \cup {"cursor"})) \cup (T \ noperms(p, opt[c])) \cup C
          [] name = "camera" /\ Kind[c] = "camera" -> IF on THEN seen[c] \cup V ELSE seen[c] \ V
          [] OTHER -> (seen[c] \ T) \cup (T \ noperms(p, opt[c]))

\* The manager shows the switches from the first login attempt on, whether it
\* was answered or not.
SwitchPermission(c, name, on) ==
    /\ Open(c) /\ cm[c] \in {"asked", "authorized"}
    /\ LET p == IF name = "camera" THEN perm[c]
                ELSE IF on THEN perm[c] \cup {name} ELSE perm[c] \ {name}
       IN  /\ perm' = [perm EXCEPT ![c] = p]
           /\ seen' = [seen EXCEPT ![c] = switched(c, name, on, p)]
           /\ forced' = IF name # "keyboard" THEN forced
                        ELSE IF on /\ ~wants_cursor(p, opt[c]) THEN forced \cup {c}
                        ELSE forced \ {c}
    /\ UNCHANGED <<taskVars, opt, loginVars, viewVars, services, registryVars, callVars,
                   deviceVars>>

-----------------------------------------------------------------------------
(* Opening and logging in.                                                 *)

\* Connection::start up to its loop.
Start(c, p) ==
    /\ conn[c] = "new"
    /\ conn' = [conn EXCEPT ![c] = "open"]
    /\ perm' = [perm EXCEPT ![c] = p]
    /\ UNCHANGED <<closed, cm, opt, loginVars, viewVars, seen, services, registryVars,
                   callVars, deviceVars, forced>>

\* on_open fails.
Refuse(c) ==
    /\ conn[c] = "new"
    /\ conn' = [conn EXCEPT ![c] = "gone"]
    /\ closed' = closed \cup {c}
    /\ UNCHANGED <<cm, rightVars, loginVars, viewVars, seen, services, registryVars,
                   callVars, deviceVars, forced>>

\* A login that has to be accepted by the user, or comes with a wrong password.
LoginAsks(c) ==
    /\ Open(c) /\ c \notin authorized
    /\ cm[c] = "none"
    /\ cm' = [cm EXCEPT ![c] = "asked"]
    /\ UNCHANGED <<conn, closed, rightVars, loginVars, viewVars, seen, services,
                   registryVars, callVars, deviceVars, forced>>

\* send_logon_response, after the password or after ipc::Data::Authorize, with the
\* options of the login.  Windows may have the session to be confirmed (wait), and
\* the displays may not be known (ok).
Login(c, o, wait, ok) ==
    /\ Open(c) /\ c \notin authorized
    /\ authorized' = authorized \cup {c}
    /\ cm' = [cm EXCEPT ![c] = "authorized"]
    /\ opt' = [opt EXCEPT ![c] = new_options(c, o)]
    /\ Unforced(c, o)
    /\ perm' = IF Kind[c] = "camera" THEN [perm EXCEPT ![c] = @ \ {"keyboard"}] ELSE perm
    /\ \/ /\ Kind[c] = "remote" /\ ok /\ ~wait
          /\ try_sub_monitor_services(c, after_options(c, o), perm[c], new_options(c, o))
       \/ /\ Kind[c] = "camera" /\ ~wait
          /\ try_sub_camera_displays(c, after_options(c, o))
       \/ /\ Kind[c] = "remote" => ~ok \/ wait
          /\ Kind[c] = "camera" => wait
          /\ seen' = [seen EXCEPT ![c] = after_options(c, o)]
          /\ UNCHANGED <<services, services_subed, registryVars>>
    /\ UNCHANGED <<conn, closed, viewVars, callVars, deviceVars>>

\* Misc::SelectedSid with the session of this process, asked for or not; from a
\* connection of another kind it does nothing here.
Subscribes(c) == Kind[c] = "remote" /\ c \notin services_subed
SelectSid(c) ==
    /\ Answered(c) /\ Kind[c] \in {"remote", "camera"}
    /\ IF Kind[c] = "camera" THEN try_sub_camera_displays(c, seen[c])
       ELSE try_sub_monitor_services(c, seen[c], perm[c], opt[c])
    /\ refocused' = IF Subscribes(c) THEN refocused \cup ({c} \cap multi_ui_session) ELSE refocused
    /\ UNCHANGED <<taskVars, rightVars, authorized, multi_ui_session, display_idx, callVars,
                   deviceVars, forced>>

-----------------------------------------------------------------------------
(* Displays.  The peer of any answered connection may ask for them, also   *)
(* before the registry has it; only who logged in for the camera gets      *)
(* cameras.                                                                *)

\* video_source, with the name of the service of a display or of a camera.
Named(c, d) == IF Kind[c] = "camera" THEN "camera" ELSE d
Sources(c) == {Named(c, d) : d \in Displays}

\* The end of capture_displays: S is what c sees of the videos and the rest.
Captured(c, S) ==
    LET many == Cardinality(S \cap Videos) > 1
    IN  /\ multi_ui_session' = IF many THEN multi_ui_session \cup {c} ELSE multi_ui_session \ {c}
        /\ refocused' = refocused \ {c}
        /\ seen' = [seen EXCEPT ![c] =
                      IF "follow_remote_window" \notin opt[c] THEN S
                      ELSE IF many THEN S \ {"focus"} ELSE S \cup {"focus"}]

AddDisplays(c, D) ==
    /\ Answered(c) /\ D # {}
    /\ services' = services \cup D
    /\ Captured(c, seen[c] \cup D)
    /\ UNCHANGED <<taskVars, rightVars, loginVars, display_idx, registryVars, callVars,
                   deviceVars, forced>>

\* The list sub names the displays that stay: all others are left.
KeepDisplays(c, D) ==
    /\ Answered(c) /\ D # {}
    /\ Captured(c, seen[c] \ (Videos \ D))
    /\ UNCHANGED <<taskVars, rightVars, loginVars, display_idx, services, registryVars,
                   callVars, deviceVars, forced>>

SetDisplays(c, D) ==
    /\ Answered(c)
    /\ services' = services \cup D
    /\ Captured(c, (seen[c] \ Videos) \cup D)
    /\ UNCHANGED <<taskVars, rightVars, loginVars, display_idx, registryVars, callVars,
                   deviceVars, forced>>

\* switch_display_to.  Which camera it is, is not kept: another one can always be
\* asked for.
SwitchDisplay(c, d) ==
    LET old == Named(c, display_idx[c])
        new == Named(c, d)
    IN  /\ Answered(c) /\ display_idx[c] # d
        /\ services' = IF d = Primary THEN services ELSE services \cup {new}
        /\ seen' = [seen EXCEPT ![c] =
                      (IF c \in OldPeers THEN @ \ {old} ELSE @) \cup ({new} \cap services')]
        /\ display_idx' = IF Kind[c] = "camera" THEN display_idx
                          ELSE [display_idx EXCEPT ![c] = d]
        /\ UNCHANGED <<taskVars, rightVars, loginVars, multi_ui_session, refocused,
                       registryVars, callVars, deviceVars, forced>>

-----------------------------------------------------------------------------
(* Voice calls.  One input device serves the calls of all connections.     *)

InCall == {c \in voice_calling : c \notin closed}

\* set_voice_call_input_device(None, true), by c.
ResetDevice(c) == /\ device' = FALSE
                  /\ stray' = FALSE
                  /\ robbed' = robbed \cup (voice_calling \ {c})
                  /\ UNCHANGED choices

VoiceCallRequest(c) ==
    /\ Answered(c) /\ c \in Callers /\ c \notin wanted
    /\ requested' = requested \cup {c}
    /\ wanted' = wanted \cup {c}
    /\ UNCHANGED <<taskVars, rightVars, loginVars, viewVars, seen, services, registryVars,
                   voice_calling, crossed, deviceVars, forced>>

Bug_VoiceCallResponse(c, accepted) ==
    /\ Open(c) /\ c \in requested
    /\ requested' = requested \ {c}
    /\ voice_calling' = IF accepted THEN voice_calling \cup {c} ELSE voice_calling \ {c}
    /\ wanted' = IF accepted THEN wanted ELSE wanted \ {c}
    /\ crossed' = IF accepted /\ c \notin wanted THEN crossed \cup {c} ELSE crossed \ {c}
    /\ robbed' = IF accepted THEN {} ELSE robbed
    /\ UNCHANGED <<taskVars, rightVars, loginVars, viewVars, seen, services, registryVars,
                   device, choices, stray, forced>>

\* handle_voice_call.  The answer may cross the peer's hanging up.
VoiceCallResponse(c, accepted) ==
    /\ Open(c) /\ c \in requested
    /\ requested' = requested \ {c}
    /\ voice_calling' = IF accepted THEN voice_calling \cup {c} ELSE voice_calling \ {c}
    /\ wanted' = IF accepted THEN wanted ELSE wanted \ {c}
    /\ crossed' = IF accepted /\ c \notin wanted THEN crossed \cup {c} ELSE crossed \ {c}
    /\ device' = (device \/ accepted)
    /\ robbed' = IF accepted THEN {} ELSE robbed
    /\ stray' = IF accepted THEN FALSE ELSE stray \/ (device /\ InCall \ {c} = {})
    /\ seen' = IF is_authed_view_camera_conn(c)
               THEN [seen EXCEPT ![c] = IF accepted /\ audio_enabled(perm[c], opt[c])
                                        THEN @ \cup {"audio"} ELSE @ \ {"audio"}]
               ELSE seen
    /\ UNCHANGED <<taskVars, rightVars, loginVars, viewVars, services, registryVars, choices,
                   forced>>

\* close_voice_call, by the peer or in the connection manager.
Bug_CloseVoiceCall(c) ==
    /\ Open(c) /\ c \in wanted \cup voice_calling
    /\ ResetDevice(c)
    /\ voice_calling' = voice_calling \ {c}
    /\ wanted' = wanted \ {c}
    /\ crossed' = crossed \ {c}
    /\ UNCHANGED <<taskVars, rightVars, loginVars, viewVars, seen, services, registryVars,
                   requested, forced>>
CloseVoiceCall(c) ==
    /\ Open(c) /\ c \in wanted \cup voice_calling
    /\ ResetDevice(c)
    /\ voice_calling' = voice_calling \ {c}
    /\ wanted' = wanted \ {c}
    /\ crossed' = crossed \ {c}
    /\ seen' = IF is_authed_view_camera_conn(c) THEN [seen EXCEPT ![c] = @ \ {"audio"}] ELSE seen
    /\ UNCHANGED <<taskVars, rightVars, loginVars, viewVars, services, registryVars,
                   requested, forced>>

\* The user chooses another device during a call; the choice comes over IPC.
ChooseDevice ==
    /\ InCall # {} /\ choices < MaxChoices
    /\ choices' = choices + 1
    /\ UNCHANGED <<taskVars, rightVars, loginVars, viewVars, seen, services, registryVars,
                   callVars, device, robbed, stray, forced>>

\* ipc: voice-call-input.
SetDevice ==
    /\ choices > 0
    /\ choices' = choices - 1
    /\ device' = TRUE
    /\ robbed' = {}
    /\ stray' = (InCall = {})
    /\ UNCHANGED <<taskVars, rightVars, loginVars, viewVars, seen, services, registryVars,
                   callVars, forced>>

-----------------------------------------------------------------------------
(* The end of a connection.                                                *)

\* on_close, which does something the first time only.
on_close(c) ==
    IF c \in closed THEN UNCHANGED <<closed, cm, deviceVars>>
    ELSE /\ closed' = closed \cup {c}
         /\ cm' = [cm EXCEPT ![c] = IF @ = "none" THEN @ ELSE "told"]
         /\ ResetDevice(c)

\* The connection is lost, times out, or is closed by the peer, the manager or
\* the server: on_close, then out of the loop.
Disconnect(c) ==
    /\ Open(c)
    /\ on_close(c)
    /\ Goes(c)
    /\ UNCHANGED <<rightVars, loginVars, viewVars, seen, services, registryVars, callVars,
                   forced>>

\* on_message returns false: out of the loop at once.
Leave(c) ==
    /\ Open(c)
    /\ Goes(c)
    /\ UNCHANGED <<closed, cm, rightVars, loginVars, viewVars, seen, services, registryVars,
                   callVars, deviceVars, forced>>

Bug_RemoveConnection(c) ==
    /\ conn[c] = "leaving"
    /\ conn' = [conn EXCEPT ![c] = "removed"]
    /\ seen' = [seen EXCEPT ![c] = IF c \in connections THEN {} ELSE @]
    /\ connections' = connections \ {c}
    /\ CONN_COUNT' = Cardinality(connections')
    /\ uncounted' = {}
    /\ StopRecorder(CONN_COUNT')
    /\ UNCHANGED <<closed, cm, rightVars, loginVars, viewVars, services, callVars,
                   deviceVars, forced>>
Bug_RemoveConnectionStops(c) ==
    /\ conn[c] = "leaving"
    /\ conn' = [conn EXCEPT ![c] = "removed"]
    /\ seen' = [seen EXCEPT ![c] = {}]
    /\ connections' = connections \ {c}
    /\ CONN_COUNT' = Cardinality(connections')
    /\ uncounted' = {}
    /\ running' = FALSE
    /\ UNCHANGED <<closed, cm, rightVars, loginVars, viewVars, services, callVars,
                   deviceVars, forced, recorders>>

\* remove_connection and try_stop_record_cursor_pos, under one lock.
RemoveConnection(c) ==
    /\ conn[c] = "leaving"
    /\ conn' = [conn EXCEPT ![c] = "removed"]
    /\ seen' = [seen EXCEPT ![c] = {}]
    /\ connections' = connections \ {c}
    /\ CONN_COUNT' = Cardinality(connections')
    /\ uncounted' = {}
    /\ StopRecorder(CONN_COUNT')
    /\ UNCHANGED <<closed, cm, rightVars, loginVars, viewVars, services, callVars,
                   deviceVars, forced>>

Bug_Finish(c) ==
    /\ conn[c] = "removed"
    /\ conn' = [conn EXCEPT ![c] = "gone"]
    /\ UNCHANGED <<closed, cm, rightVars, loginVars, viewVars, seen, services, registryVars,
                   callVars, deviceVars, forced>>

\* on_close("End"), for those that have not run it.
Finish(c) ==
    /\ conn[c] = "removed"
    /\ on_close(c)
    /\ conn' = [conn EXCEPT ![c] = "gone"]
    /\ UNCHANGED <<rightVars, loginVars, viewVars, seen, services, registryVars, callVars,
                   forced>>

\* A thread that records the cursor's position sees that it shall stop.
RecorderStops ==
    /\ recorders > 0 /\ ~running
    /\ recorders' = recorders - 1
    /\ UNCHANGED <<taskVars, rightVars, loginVars, viewVars, seen, services, connections,
                   CONN_COUNT, running, uncounted, callVars, deviceVars, forced>>

-----------------------------------------------------------------------------
\* The options a login brings are all set to Yes.
AtLogin(c) == {o \in Messages[c] : o.no = {}} \cup {NoOptions}

Step(c) ==
    \/ \E p \in Grants : Start(c, p)
    \/ Refuse(c)
    \/ LoginAsks(c)
    \/ \E o \in AtLogin(c), wait \in BOOLEAN, ok \in BOOLEAN : Login(c, o, wait, ok)
    \/ SelectSid(c)
    \/ \E o \in Messages[c] : UpdateOptions(c, o)
    \/ \E name \in Switches[c], on \in BOOLEAN : SwitchPermission(c, name, on)
    \/ \E D \in SUBSET Sources(c) :
           AddDisplays(c, D) \/ KeepDisplays(c, D) \/ SetDisplays(c, D)
    \/ \E d \in Displays : SwitchDisplay(c, d)
    \/ VoiceCallRequest(c)
    \/ \E accepted \in BOOLEAN : VoiceCallResponse(c, accepted)
    \/ CloseVoiceCall(c)
    \/ Disconnect(c)
    \/ Leave(c)
    \/ RemoveConnection(c)
    \/ Finish(c)

Next == \/ \E c \in Conns : Step(c)
        \/ ChooseDevice
        \/ SetDevice
        \/ RecorderStops

Spec == Init /\ [][Next]_vars

-----------------------------------------------------------------------------
(* Properties.                                                             *)

\* A desktop connection the registry has.
Desktop(c) == Open(c) /\ c \in connections /\ Kind[c] = "remote"

\* What such a connection is subscribed to follows the last permissions and
\* options, in whatever order the switches of the user, the options of the login
\* and those of the session came: connection.rs:597-682, 1726-1759, 3742-3890.  Two
\* exceptions: the switch of the keyboard gives the cursor to a view-only peer too;
\* and capture_displays stops following windows while many displays are shown, but
\* an option or the confirmation of the session starts it again.
Follows ==
    \A c \in Conns : Desktop(c) =>
        /\ ("pos" \in seen[c]) <=> ("show_remote_cursor" \in opt[c])
        /\ ("clipboard" \in seen[c]) <=> can_sub_clipboard_service(perm[c], opt[c])
        /\ ("audio" \in seen[c]) <=> audio_enabled(perm[c], opt[c])
        /\ ("cursor" \in seen[c]) <=> (wants_cursor(perm[c], opt[c]) \/ c \in forced)
        /\ ("focus" \in seen[c]) <=> /\ "follow_remote_window" \in opt[c]
                                     /\ c \in multi_ui_session => c \in refocused

\* A camera connection hears sound exactly during a voice call, and then only if
\* the user and the peer let it: connection.rs:628-641, 3617-3642, 3816-3832.
CameraHears ==
    \A c \in Conns : Open(c) /\ is_authed_view_camera_conn(c) =>
        (("audio" \in seen[c]) <=> (c \in voice_calling /\ audio_enabled(perm[c], opt[c])))

\* CONN_COUNT, which the portable service and the recorder of the cursor read, is
\* the number of connections, but for cameras added since (server.rs:389).
Counted == CONN_COUNT + Cardinality(uncounted) = Cardinality(connections)

\* As long as a desktop connection is registered, a thread records the position of
\* its cursor, and without connections none is told to go on, although who stops it
\* and who starts it are different connections (input_service.rs:483-516).
Recorded ==
    /\ \A c \in Conns : Desktop(c) => running /\ recorders > 0
    /\ connections = {} => ~running

\* What outlives a connection: how many there are, and whether their cursor is
\* recorded (server.rs:389-428, input_service.rs:483-516).
Attended == Counted /\ Recorded

\* During a call a device is set, unless another connection ended or hung up
\* meanwhile: connection.rs:4111-4120 describes that case.
InputKept == \A c \in InCall : c \in robbed \/ device

\* The device is given back with the last call, unless the user chose one that
\* arrived too late, or a call that had crossed a hang-up is followed by one that
\* the user declines.
DeviceFreed == device => InCall # {} \/ stray

\* A connection is in a call only if its peer is, unless the acceptance crossed the
\* peer's hanging up, which close_voice_call does not note (connection.rs:3631).
CallAgreed == \A c \in InCall : c \in wanted \cup crossed

\* The three for voice calls together: connection.rs:3273-3284, 3601-3643, 4106-4136.
CallsSettled == InputKept /\ DeviceFreed /\ CallAgreed

\* The connection manager is told of the end of every connection it shows, on
\* whatever way the task leaves its loop.
ToldOfEnd ==
    /\ \A c \in Conns : conn[c] = "gone" => cm[c] \in {"none", "told"}
    /\ \A c \in Conns : cm[c] = "told" => c \in closed

-----------------------------------------------------------------------------
(* Connections implement what ServiceAccess promises.                      *)

Stage(c) == IF conn[c] \in {"removed", "gone"} THEN "done"
            ELSE IF c \in authorized THEN "in" ELSE "out"
EarlyServices ==
    [c \in Conns |-> {"cursor", "clipboard"} \cup (IF Kind[c] = "camera" THEN {"camera"} ELSE {})]
LooseServices == {"cursor", "pos", "focus", "clipboard", "audio"}
OwnServices == [c \in Conns |-> Sources(c) \cup (IF Kind[c] = "remote" THEN {"display"} ELSE {})]

Access == INSTANCE ServiceAccess
              WITH stage <- [c \in Conns |-> Stage(c)], sees <- seen,
                   Early <- EarlyServices, Loose <- LooseServices, Own <- OwnServices

\* Each step of one connection changes what that connection sees, between its login
\* and its end, and never shows a desktop to who logged in for the camera or a camera
\* to anyone else; a connection that ended sees nothing ever again.
RefinesAccess == Access!Spec
=============================================================================
