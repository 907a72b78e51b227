-------------------------- MODULE ConnectionsProofs -------------------------
(* Theorems about Connections, for any connections of any kinds, any         *)
(* displays, permissions, options and any number of late device choices.     *)
EXTENDS Connections, FiniteSetTheorems, TLAPS

-----------------------------------------------------------------------------
(* The operators of permissions and options stay among the services.         *)

LEMMA OptionServices ==
  ASSUME NEW c \in Conns, NEW S, seen[c] \subseteq S,
         NEW o, touched(c, perm[c], new_options(c, o), o) \subseteq S
  PROVE  after_options(c, o) \subseteq S
BY DEF after_options

LEMMA SwitchServices ==
  ASSUME NEW c \in Conns, NEW name, NEW on, NEW p, seen[c] \subseteq Services
  PROVE  switched(c, name, on, p) \subseteq Services
BY DEF switched, Services, Plain

LEMMA NewOptions ==
  ASSUME NEW c \in Conns, NEW o \in OptionMessages, opt[c] \subseteq Options
  PROVE  new_options(c, o) \subseteq Options
BY DEF new_options, OptionMessages

\* A message of a login or of a session is one.
LEMMA MessageType ==
  ASSUME NEW c \in Conns
  PROVE  /\ Messages[c] \subseteq OptionMessages
         /\ AtLogin(c) \subseteq OptionMessages
BY ConnectionsAssumption DEF AtLogin, NoOptions, OptionMessages

LEMMA DisplayServices ==
  ASSUME NEW c \in Conns
  PROVE  /\ Sources(c) \subseteq Videos
         /\ Videos \subseteq Services
         /\ Plain \subseteq Services
BY DEF Sources, Named, Videos, Services

LEMMA SeenUpdate ==
  ASSUME NEW f \in [Conns -> SUBSET Services], NEW c \in Conns, NEW S \in SUBSET Services
  PROVE  [f EXCEPT ![c] = S] \in [Conns -> SUBSET Services]
OBVIOUS

LEMMA CapturedType ==
  ASSUME ViewTypes, NEW c \in Conns, NEW S \in SUBSET Services, Captured(c, S)
  PROVE  /\ seen' \in [Conns -> SUBSET Services]
         /\ multi_ui_session' \subseteq Conns /\ refocused' \subseteq Conns
<1> DEFINE many == Cardinality(S \cap Videos) > 1
           X == IF "follow_remote_window" \notin opt[c] THEN S
                ELSE IF many THEN S \ {"focus"} ELSE S \cup {"focus"}
<1>1. seen' = [seen EXCEPT ![c] = X]
  BY DEF Captured
<1>2. X \in SUBSET Services
  BY DEF Services, Plain
<1>3. multi_ui_session' \subseteq Conns /\ refocused' \subseteq Conns
  BY DEF Captured, ViewTypes
<1> HIDE DEF X
<1>4. QED
  BY <1>1, <1>2, <1>3, SeenUpdate DEF ViewTypes

\* What the voice calls leave to the end of a connection.
LEMMA OnCloseType ==
  ASSUME TaskTypes, CallTypes, NEW c \in Conns, on_close(c)
  PROVE  /\ closed' \subseteq Conns
         /\ cm' \in [Conns -> {"none", "asked", "authorized", "told"}]
         /\ device' \in BOOLEAN /\ stray' \in BOOLEAN
         /\ choices' = choices /\ robbed' \subseteq Conns
<1>1. CASE c \in closed
  BY <1>1 DEF on_close, deviceVars, TaskTypes, CallTypes
<1>2. CASE c \notin closed
  <2>1. cm' = [cm EXCEPT ![c] = IF cm[c] = "none" THEN cm[c] ELSE "told"]
    BY <1>2 DEF on_close
  <2>2. QED
    BY <1>2, <2>1 DEF on_close, ResetDevice, TaskTypes, CallTypes
<1>3. QED
  BY <1>1, <1>2

-----------------------------------------------------------------------------
(* Types.                                                                    *)

LEMMA RegistryFinite ==
  ASSUME NEW S, S \subseteq Conns
  PROVE  IsFiniteSet(S) /\ Cardinality(S) \in Nat
BY ConnectionsAssumption, FS_Subset, FS_CardinalityType

LEMMA InitType == Init => TypeOK
<1> SUFFICES ASSUME Init PROVE TypeOK
  OBVIOUS
<1>1. Primary \in Displays /\ 0 \in 0 .. MaxChoices
  BY ConnectionsAssumption
<1>2. QED
  BY <1>1 DEF Init, TypeOK, TaskTypes, ViewTypes, CallTypes

\* What is registered has logged in, and is not removed yet.
LEMMA TypeStep ==
  ASSUME TypeOK, [Next]_vars
  PROVE  TypeOK'
<1> USE ConnectionsAssumption DEF taskVars, rightVars, loginVars, viewVars, registryVars,
          callVars, deviceVars,
          TypeOK, TaskTypes, ViewTypes, CallTypes
<1>1. ASSUME NEW c \in Conns, NEW p \in Grants, Start(c, p) PROVE TypeOK'
  BY <1>1 DEF Start
<1>2. ASSUME NEW c \in Conns, Refuse(c) PROVE TypeOK'
  BY <1>2 DEF Refuse
<1>3. ASSUME NEW c \in Conns, LoginAsks(c) PROVE TypeOK'
  BY <1>3 DEF LoginAsks, Open
<1>4. ASSUME NEW c \in Conns, NEW o \in AtLogin(c), NEW wait \in BOOLEAN, NEW ok \in
   BOOLEAN, Login(c, o, wait, ok) PROVE TypeOK'
  <2>1. after_options(c, o) \subseteq Services
    BY OptionServices, DisplayServices DEF touched
  <2>2. new_options(c, o) \subseteq Options
    BY NewOptions, MessageType
  <2>3. CASE Kind[c] = "remote" /\ ok /\ ~wait
    <3>1. try_sub_monitor_services(c, after_options(c, o), perm[c], new_options(c, o))
      BY <1>4, <2>3 DEF Login
    <3>2. monitor_services(after_options(c, o), perm[c], new_options(c, o)) \subseteq Services
      BY <2>1 DEF monitor_services, Services
    <3>3. /\ seen' \in [Conns -> SUBSET Services]
          /\ services' \subseteq Videos
          /\ services_subed' \subseteq Conns
          /\ connections' \subseteq connections \cup {c}
          /\ CONN_COUNT' \in Nat /\ recorders' \in Nat /\ running' \in BOOLEAN
          /\ uncounted' \subseteq Conns
      <4>1. CASE c \in services_subed
        BY <2>1, <3>1, <4>1 DEF try_sub_monitor_services, registryVars
      <4>2. CASE c \notin services_subed
        <5>1. add_connection(c) /\ StartRecorder
          BY <3>1, <4>2 DEF try_sub_monitor_services
        <5>2. CONN_COUNT' \in Nat
          BY <5>1, RegistryFinite DEF add_connection
        <5>3. recorders' \in Nat /\ running' \in BOOLEAN
          BY <5>1 DEF StartRecorder
        <5>4. QED
          BY <2>1, <3>1, <3>2, <4>2, <5>1, <5>2, <5>3
          DEF try_sub_monitor_services, add_connection, Videos
      <4>3. QED
        BY <4>1, <4>2
    <3>4. TaskTypes'
      BY <1>4, <2>2, <3>3 DEF Login, Open
    <3>5. ViewTypes'
      BY <1>4, <3>3 DEF Login, Unforced
    <3>6. CallTypes'
      BY <1>4 DEF Login
    <3>7. QED
      BY <3>4, <3>5, <3>6
  <2>4. CASE Kind[c] = "camera" /\ ~wait
    <3>1. try_sub_camera_displays(c, after_options(c, o))
      BY <1>4, <2>4 DEF Login
    <3>2. QED
      BY <1>4, <2>1, <2>2, <2>4, <3>1
      DEF Login, Open, Unforced, try_sub_camera_displays, add_camera_connection, Services, Videos
  <2>5. CASE ~(Kind[c] = "remote" /\ ok /\ ~wait) /\ ~(Kind[c] = "camera" /\ ~wait)
    BY <1>4, <2>1, <2>2, <2>5 DEF Login, Open, Unforced
  <2>6. QED
    BY <2>3, <2>4, <2>5
<1>5. ASSUME NEW c \in Conns, SelectSid(c) PROVE TypeOK'
  <2>1. CASE Kind[c] = "camera"
    <3>1. try_sub_camera_displays(c, seen[c])
      BY <1>5, <2>1 DEF SelectSid
    <3>2. /\ seen' = [seen EXCEPT ![c] = seen[c] \cup {"camera"}]
          /\ seen[c] \cup {"camera"} \in SUBSET Services
      BY <3>1 DEF try_sub_camera_displays, Services
    <3>3. seen' \in [Conns -> SUBSET Services]
      BY <3>2, SeenUpdate
    <3>4. TaskTypes'
      BY <1>5, <3>1 DEF SelectSid, Answered, Open, try_sub_camera_displays, add_camera_connection
    <3>5. ViewTypes'
      BY <1>5, <2>1, <3>1, <3>3 DEF SelectSid, Subscribes, try_sub_camera_displays, Videos
    <3>6. CallTypes'
      BY <1>5 DEF SelectSid
    <3>7. QED
      BY <3>4, <3>5, <3>6
  <2>2. CASE Kind[c] # "camera"
    <3>1. try_sub_monitor_services(c, seen[c], perm[c], opt[c])
      BY <1>5, <2>2 DEF SelectSid
    <3> DEFINE X == monitor_services(seen[c], perm[c], opt[c])
    <3>0. refocused' \subseteq Conns
      BY <1>5 DEF SelectSid
    <3>2. X \in SUBSET Services
      BY DEF monitor_services, Services
    <3>3. CASE c \in services_subed
      BY <1>5, <2>2, <3>0, <3>1, <3>3 DEF SelectSid, Answered, Open, try_sub_monitor_services
    <3>4. CASE c \notin services_subed
      <4>1. add_connection(c) /\ StartRecorder /\ seen' = [seen EXCEPT ![c] = X]
        BY <3>1, <3>4 DEF try_sub_monitor_services
      <4> HIDE DEF X
      <4>2. CONN_COUNT' \in Nat
        BY <4>1, RegistryFinite DEF add_connection
      <4>3. recorders' \in Nat /\ running' \in BOOLEAN
        BY <4>1 DEF StartRecorder
      <4>4. seen' \in [Conns -> SUBSET Services]
        BY <3>2, <4>1, SeenUpdate
      <4>5. services_subed' \subseteq Conns /\ services' \subseteq Videos
        BY <3>1, <3>4 DEF try_sub_monitor_services, Videos
      <4>6. TaskTypes'
        BY <1>5, <4>1, <4>2, <4>3, <4>5 DEF SelectSid, Answered, Open, add_connection
      <4>7. ViewTypes'
        BY <1>5, <3>0, <4>4, <4>5 DEF SelectSid
      <4>8. CallTypes'
        BY <1>5 DEF SelectSid
      <4>9. QED
        BY <4>6, <4>7, <4>8
    <3>5. QED
      BY <3>3, <3>4
  <2>3. QED
    BY <2>1, <2>2
<1>6. ASSUME NEW c \in Conns, NEW o \in Messages[c], UpdateOptions(c, o) PROVE TypeOK'
  <2>1. after_options(c, o) \subseteq Services
    BY OptionServices, DisplayServices DEF touched
  <2>2. new_options(c, o) \subseteq Options
    BY NewOptions, MessageType
  <2>3. QED
    BY <1>6, <2>1, <2>2 DEF UpdateOptions, Answered, Open, Unforced
<1>7. ASSUME NEW c \in Conns, NEW name \in Switches[c], NEW on \in BOOLEAN,
   SwitchPermission(c, name, on) PROVE TypeOK'
  <2> DEFINE p == IF name = "camera" THEN perm[c]
                 ELSE IF on THEN perm[c] \cup {name} ELSE perm[c] \ {name}
  <2>1. switched(c, name, on, p) \subseteq Services
    BY SwitchServices
  <2>2. p \subseteq Permissions
    OBVIOUS
  <2>3. QED
    BY <1>7, <2>1, <2>2 DEF SwitchPermission, Open
<1>8. ASSUME NEW c \in Conns, NEW D \in SUBSET Sources(c), AddDisplays(c, D) PROVE
   TypeOK'
  <2>1. TaskTypes'
    BY <1>8 DEF AddDisplays, Answered, Open, Captured
  <2>2. ViewTypes'
    <3>1. Captured(c, seen[c] \cup D) /\ seen[c] \cup D \in SUBSET Services
      BY <1>8, DisplayServices DEF AddDisplays
    <3>2. QED
      BY <1>8, <3>1, CapturedType, DisplayServices DEF AddDisplays
  <2>3. CallTypes'
    BY <1>8 DEF AddDisplays, Answered, Open, Captured
  <2>4. QED
    BY <2>1, <2>2, <2>3
<1>9. ASSUME NEW c \in Conns, NEW D \in SUBSET Sources(c), KeepDisplays(c, D) PROVE
   TypeOK'
  <2>1. TaskTypes'
    BY <1>9 DEF KeepDisplays, Answered, Open, Captured
  <2>2. ViewTypes'
    <3>1. Captured(c, seen[c] \ (Videos \ D)) /\ seen[c] \ (Videos \ D) \in SUBSET Services
      BY <1>9, DisplayServices DEF KeepDisplays
    <3>2. QED
      BY <1>9, <3>1, CapturedType, DisplayServices DEF KeepDisplays
  <2>3. CallTypes'
    BY <1>9 DEF KeepDisplays, Answered, Open, Captured
  <2>4. QED
    BY <2>1, <2>2, <2>3
<1>10. ASSUME NEW c \in Conns, NEW D \in SUBSET Sources(c), SetDisplays(c, D) PROVE
   TypeOK'
  <2>1. TaskTypes'
    BY <1>10 DEF SetDisplays, Answered, Open, Captured
  <2>2. ViewTypes'
    <3>1. Captured(c, (seen[c] \ Videos) \cup D) /\ (seen[c] \ Videos) \cup D \in SUBSET Services
      BY <1>10, DisplayServices DEF SetDisplays
    <3>2. QED
      BY <1>10, <3>1, CapturedType, DisplayServices DEF SetDisplays
  <2>3. CallTypes'
    BY <1>10 DEF SetDisplays, Answered, Open, Captured
  <2>4. QED
    BY <2>1, <2>2, <2>3
<1>11. ASSUME NEW c \in Conns, NEW d \in Displays, SwitchDisplay(c, d) PROVE TypeOK'
  <2>1. TaskTypes'
    BY <1>11 DEF SwitchDisplay, Answered, Open
  <2>2. ViewTypes'
    <3> DEFINE X == (IF c \in OldPeers THEN seen[c] \ {Named(c, display_idx[c])} ELSE seen[c])
                    \cup ({Named(c, d)} \cap services')
    <3>1. Named(c, d) \in Videos
      BY DEF Named, Videos
    <3>2. X \in SUBSET Services /\ seen' = [seen EXCEPT ![c] = X]
      BY <1>11, <3>1, DisplayServices DEF SwitchDisplay
    <3> HIDE DEF X
    <3>3. seen' \in [Conns -> SUBSET Services]
      BY <3>2, SeenUpdate
    <3>4. services' \subseteq Videos
      BY <1>11, <3>1 DEF SwitchDisplay
    <3>5. QED
      BY <1>11, <3>3, <3>4 DEF SwitchDisplay
  <2>3. CallTypes'
    BY <1>11 DEF SwitchDisplay, Answered, Open
  <2>4. QED
    BY <2>1, <2>2, <2>3
<1>12. ASSUME NEW c \in Conns, VoiceCallRequest(c) PROVE TypeOK'
  BY <1>12 DEF VoiceCallRequest, Answered, Open
<1>13. ASSUME NEW c \in Conns, NEW accepted \in BOOLEAN, VoiceCallResponse(c,
   accepted) PROVE TypeOK'
  <2>1. TaskTypes'
    BY <1>13 DEF VoiceCallResponse, Open
  <2>2. ViewTypes'
    <3>1. CASE is_authed_view_camera_conn(c)
      <4> DEFINE X == IF accepted /\ audio_enabled(perm[c], opt[c])
                      THEN seen[c] \cup {"audio"} ELSE seen[c] \ {"audio"}
      <4>1. X \in SUBSET Services /\ seen' = [seen EXCEPT ![c] = X]
        BY <1>13, <3>1, DisplayServices DEF VoiceCallResponse, Plain
      <4> HIDE DEF X
      <4>2. QED
        BY <1>13, <4>1, SeenUpdate DEF VoiceCallResponse
    <3>2. CASE ~is_authed_view_camera_conn(c)
      BY <1>13, <3>2 DEF VoiceCallResponse
    <3>3. QED
      BY <3>1, <3>2
  <2>3. CallTypes'
    BY <1>13 DEF VoiceCallResponse, Open
  <2>4. QED
    BY <2>1, <2>2, <2>3
<1>14. ASSUME NEW c \in Conns, CloseVoiceCall(c) PROVE TypeOK'
  <2>1. TaskTypes'
    BY <1>14 DEF CloseVoiceCall, Open, ResetDevice
  <2>2. ViewTypes'
    BY <1>14 DEF CloseVoiceCall, Open, ResetDevice
  <2>3. CallTypes'
    BY <1>14 DEF CloseVoiceCall, Open, ResetDevice
  <2>4. QED
    BY <2>1, <2>2, <2>3
<1>15. ASSUME NEW c \in Conns, Disconnect(c) PROVE TypeOK'
  <2>1. TaskTypes'
    BY <1>15, OnCloseType DEF Disconnect, Open, Goes
  <2>2. ViewTypes'
    BY <1>15 DEF Disconnect
  <2>3. CallTypes'
    BY <1>15, OnCloseType DEF Disconnect
  <2>4. QED
    BY <2>1, <2>2, <2>3
<1>16. ASSUME NEW c \in Conns, Leave(c) PROVE TypeOK'
  BY <1>16 DEF Leave, Open, Goes
<1>17. ASSUME NEW c \in Conns, RemoveConnection(c) PROVE TypeOK'
  <2>1. CONN_COUNT' \in Nat
    BY <1>17, RegistryFinite DEF RemoveConnection
  <2>2. QED
    BY <1>17, <2>1 DEF RemoveConnection, StopRecorder
<1>18. ASSUME NEW c \in Conns, Finish(c) PROVE TypeOK'
  <2>1. TaskTypes'
    BY <1>18, OnCloseType DEF Finish, Open, Goes
  <2>2. ViewTypes'
    BY <1>18 DEF Finish
  <2>3. CallTypes'
    BY <1>18, OnCloseType DEF Finish
  <2>4. QED
    BY <2>1, <2>2, <2>3
<1>19. ASSUME ChooseDevice PROVE TypeOK'
  BY <1>19 DEF ChooseDevice
<1>20. ASSUME SetDevice PROVE TypeOK'
  BY <1>20 DEF SetDevice
<1>21. ASSUME RecorderStops PROVE TypeOK'
  BY <1>21 DEF RecorderStops
<1>22. ASSUME UNCHANGED vars PROVE TypeOK'
  BY <1>22 DEF vars
<1>23. QED
  BY <1>1, <1>2, <1>3, <1>4, <1>5, <1>6, <1>7, <1>8, <1>9, <1>10, <1>11, <1>12, <1>13,
     <1>14, <1>15, <1>16, <1>17, <1>18, <1>19, <1>20, <1>21, <1>22 DEF Next, Step

\* A connection is registered only between its answered login and its removal,
\* whatever it is asked in between: server.rs:398-428 and the loop's end,
\* connection.rs:951-993.
THEOREM TypeCorrect == Spec => []TypeOK
<1>1. Init => TypeOK
  BY InitType
<1>2. TypeOK /\ [Next]_vars => TypeOK'
  BY TypeStep
<1>3. QED
  BY <1>1, <1>2, PTL DEF Spec

-----------------------------------------------------------------------------
(* Connections implement ServiceAccess.                                      *)

Allowed(c) == OwnServices[c] \cup EarlyServices[c] \cup LooseServices

\* What a connection sees at each stage.
AccessInv ==
    \A c \in Conns :
        /\ Stage(c) = "out" => seen[c] \subseteq EarlyServices[c]
        /\ Stage(c) = "in" => seen[c] \subseteq Allowed(c)
        /\ Stage(c) = "done" => seen[c] = {}

\* A connection begins with nothing, and only two kinds are ever registered.
OpenInv ==
    \A c \in Conns :
        /\ conn[c] = "new" => seen[c] = {} /\ c \notin authorized
        /\ c \in connections => Kind[c] \in {"remote", "camera"}

\* The steps of ServiceAccess in the terms of this module: c moves, no other one.
Moved(c) ==
    /\ \A d \in Conns \ {c} : Stage(d)' = Stage(d) /\ seen'[d] = seen[d]
    /\ \/ Stage(c) = "out" /\ Stage(c)' = "out" /\ seen'[c] \subseteq EarlyServices[c]
       \/ Stage(c) \in {"out", "in"} /\ Stage(c)' = "in" /\ seen'[c] \subseteq Allowed(c)
       \/ Stage(c) # "done" /\ Stage(c)' = "done" /\ seen'[c] = {}
Quiet == \A d \in Conns : Stage(d)' = Stage(d) /\ seen'[d] = seen[d]
Shaped == Quiet \/ \E c \in Conns : Moved(c)

LEMMA AllowedServices ==
  ASSUME NEW c \in Conns
  PROVE  /\ {"cursor", "pos", "focus", "clipboard", "audio"} \subseteq Allowed(c)
         /\ EarlyServices[c] \subseteq Allowed(c)
         /\ Kind[c] = "remote" => Plain \cup Displays \subseteq Allowed(c)
         /\ Kind[c] = "camera" => "camera" \in Allowed(c)
         /\ Sources(c) \subseteq Allowed(c)
<1>1. Allowed(c) = Sources(c) \cup (IF Kind[c] = "remote" THEN {"display"} ELSE {})
                   \cup EarlyServices[c] \cup LooseServices
  BY DEF Allowed, OwnServices
<1>2. Kind[c] = "remote" => Sources(c) = Displays
  BY DEF Sources, Named
<1>3. Kind[c] = "camera" => "camera" \in EarlyServices[c]
  BY DEF EarlyServices
<1>4. QED
  BY <1>1, <1>2, <1>3 DEF LooseServices, Plain

\* Options touch what every kind may have.
LEMMA OptionsAllowed ==
  ASSUME NEW c \in Conns, NEW o, seen[c] \subseteq Allowed(c)
  PROVE  after_options(c, o) \subseteq Allowed(c)
<1>1. touched(c, perm[c], new_options(c, o), o) \subseteq Allowed(c)
  BY AllowedServices DEF touched, Plain
<1>2. QED
  BY <1>1 DEF after_options

LEMMA SwitchAllowed ==
  ASSUME NEW c \in Conns, NEW name, NEW on, NEW p
  PROVE  /\ seen[c] \subseteq Allowed(c) => switched(c, name, on, p) \subseteq Allowed(c)
         /\ c \notin authorized /\ seen[c] \subseteq EarlyServices[c]
                => switched(c, name, on, p) \subseteq EarlyServices[c]
BY AllowedServices DEF switched, EarlyServices, Plain

LEMMA CapturedAllowed ==
  ASSUME NEW c \in Conns, NEW S, S \subseteq Allowed(c), Captured(c, S)
  PROVE  \E Y : Y \subseteq Allowed(c) /\ seen' = [seen EXCEPT ![c] = Y]
<1> DEFINE many == Cardinality(S \cap Videos) > 1
           X == IF "follow_remote_window" \notin opt[c] THEN S
                ELSE IF many THEN S \ {"focus"} ELSE S \cup {"focus"}
<1>1. seen' = [seen EXCEPT ![c] = X]
  BY DEF Captured
<1>2. X \subseteq Allowed(c)
  BY AllowedServices
<1>3. QED
  BY <1>1, <1>2

\* Every step moves at most one connection, as ServiceAccess lets it.
LEMMA AccessShape ==
  ASSUME TypeOK, AccessInv, OpenInv, [Next]_vars
  PROVE  Shaped
<1> USE ConnectionsAssumption DEF TypeOK, TaskTypes, ViewTypes
<1>1. ASSUME NEW c \in Conns, NEW p \in Grants, Start(c, p) PROVE Shaped
  BY <1>1 DEF Start, Shaped, Quiet, Stage, taskVars, loginVars
<1>2. ASSUME NEW c \in Conns, Refuse(c) PROVE Shaped
  <2>1. Moved(c)
    BY <1>2 DEF Refuse, Moved, Stage, loginVars, OpenInv
  <2>2. QED
    BY <2>1 DEF Shaped
<1>3. ASSUME NEW c \in Conns, LoginAsks(c) PROVE Shaped
  BY <1>3 DEF LoginAsks, Open, Shaped, Quiet, Stage, taskVars, loginVars
<1>4. ASSUME NEW c \in Conns, NEW o \in AtLogin(c), NEW wait \in BOOLEAN, NEW ok \in
   BOOLEAN, Login(c, o, wait, ok) PROVE Shaped
  <2>1. conn[c] = "open" /\ c \notin authorized /\ conn' = conn
    BY <1>4 DEF Login, Open
  <2>2. authorized' = authorized \cup {c}
    BY <1>4 DEF Login
  <2>3. after_options(c, o) \subseteq Allowed(c)
    <3>1. seen[c] \subseteq EarlyServices[c]
      BY <2>1 DEF AccessInv, Stage
    <3>2. QED
      BY <3>1, OptionsAllowed, AllowedServices
  <2>4. \E X : X \subseteq Allowed(c) /\ seen' = [seen EXCEPT ![c] = X]
    <3>1. CASE Kind[c] = "remote" /\ ok /\ ~wait
      <4>1. try_sub_monitor_services(c, after_options(c, o), perm[c], new_options(c, o))
        BY <1>4, <3>1 DEF Login
      <4>2. monitor_services(after_options(c, o), perm[c], new_options(c, o)) \subseteq Allowed(c)
        BY <2>3, <3>1, AllowedServices DEF monitor_services
      <4>3. QED
        BY <2>3, <4>1, <4>2 DEF try_sub_monitor_services
    <3>2. CASE Kind[c] = "camera" /\ ~wait
      <4>1. try_sub_camera_displays(c, after_options(c, o))
        BY <1>4, <3>2 DEF Login
      <4>2. after_options(c, o) \cup {"camera"} \subseteq Allowed(c)
        BY <2>3, <3>2, AllowedServices
      <4>3. QED
        BY <4>1, <4>2 DEF try_sub_camera_displays
    <3>3. CASE ~(Kind[c] = "remote" /\ ok /\ ~wait) /\ ~(Kind[c] = "camera" /\ ~wait)
      BY <1>4, <2>3, <3>3 DEF Login
    <3>4. QED
      BY <3>1, <3>2, <3>3
  <2>5. Moved(c)
    BY <2>1, <2>2, <2>4 DEF Moved, Stage
  <2>6. QED
    BY <2>5 DEF Shaped
<1>5. ASSUME NEW c \in Conns, SelectSid(c) PROVE Shaped
  <2>1. conn[c] = "open" /\ c \in authorized /\ conn' = conn /\ authorized' = authorized
    BY <1>5 DEF SelectSid, Answered, Open, taskVars
  <2>2. seen[c] \subseteq Allowed(c) /\ Kind[c] \in {"remote", "camera"}
    BY <1>5, <2>1 DEF SelectSid, AccessInv, Stage
  <2>3. \E X : X \subseteq Allowed(c) /\ seen' = [seen EXCEPT ![c] = X]
    <3>1. CASE Kind[c] = "remote"
      <4>1. try_sub_monitor_services(c, seen[c], perm[c], opt[c])
        BY <1>5, <3>1 DEF SelectSid
      <4>2. monitor_services(seen[c], perm[c], opt[c]) \subseteq Allowed(c)
        BY <2>2, <3>1, AllowedServices DEF monitor_services
      <4>3. QED
        BY <2>2, <4>1, <4>2 DEF try_sub_monitor_services
    <3>2. CASE Kind[c] = "camera"
      <4>1. try_sub_camera_displays(c, seen[c])
        BY <1>5, <3>2 DEF SelectSid
      <4>2. seen[c] \cup {"camera"} \subseteq Allowed(c)
        BY <2>2, <3>2, AllowedServices
      <4>3. QED
        BY <4>1, <4>2 DEF try_sub_camera_displays
    <3>3. QED
      BY <2>2, <3>1, <3>2
  <2>4. Moved(c)
    BY <2>1, <2>3 DEF Moved, Stage
  <2>5. QED
    BY <2>4 DEF Shaped
<1>6. ASSUME NEW c \in Conns, NEW o \in Messages[c], UpdateOptions(c, o) PROVE Shaped
  <2>1. c \in authorized /\ conn[c] = "open" /\ seen[c] \subseteq Allowed(c)
    BY <1>6 DEF UpdateOptions, Answered, Open, AccessInv, Stage
  <2>2. after_options(c, o) \subseteq Allowed(c)
    BY <2>1, OptionsAllowed
  <2>3. Moved(c)
    BY <1>6, <2>1, <2>2 DEF UpdateOptions, Moved, Stage, taskVars, loginVars
  <2>4. QED
    BY <2>3 DEF Shaped
<1>7. ASSUME NEW c \in Conns, NEW name \in Switches[c], NEW on \in BOOLEAN,
   SwitchPermission(c, name, on) PROVE Shaped
  <2> DEFINE p == IF name = "camera" THEN perm[c]
                 ELSE IF on THEN perm[c] \cup {name} ELSE perm[c] \ {name}
  <2>1. seen' = [seen EXCEPT ![c] = switched(c, name, on, p)]
    BY <1>7 DEF SwitchPermission
  <2> HIDE DEF p
  <2>2. conn[c] = "open" /\ conn' = conn /\ authorized' = authorized
    BY <1>7 DEF SwitchPermission, Open, taskVars, loginVars
  <2>3. CASE c \in authorized
    <3>1. seen[c] \subseteq Allowed(c)
      BY <2>2, <2>3 DEF AccessInv, Stage
    <3>2. switched(c, name, on, p) \subseteq Allowed(c)
      BY <3>1, SwitchAllowed
    <3>3. QED
      BY <2>1, <2>2, <2>3, <3>2 DEF Moved, Shaped, Stage
  <2>4. CASE c \notin authorized
    <3>1. seen[c] \subseteq EarlyServices[c]
      BY <2>2, <2>4 DEF AccessInv, Stage
    <3>2. switched(c, name, on, p) \subseteq EarlyServices[c]
      BY <2>4, <3>1, SwitchAllowed
    <3>3. QED
      BY <2>1, <2>2, <2>4, <3>2 DEF Moved, Shaped, Stage
  <2>5. QED
    BY <2>3, <2>4
<1>8. ASSUME NEW c \in Conns, NEW D \in SUBSET Sources(c), AddDisplays(c, D) PROVE
   Shaped
  <2>1. /\ conn[c] = "open" /\ c \in authorized /\ seen[c] \subseteq Allowed(c)
    BY <1>8 DEF AddDisplays, Answered, Open, AccessInv, OpenInv, Stage
  <2>2. seen[c] \cup D \subseteq Allowed(c) /\ Captured(c, seen[c] \cup D)
    BY <1>8, <2>1, AllowedServices DEF AddDisplays
  <2>3. \E Y : Y \subseteq Allowed(c) /\ seen' = [seen EXCEPT ![c] = Y]
    BY <2>2, CapturedAllowed
  <2>4. conn' = conn /\ authorized' = authorized
    BY <1>8 DEF AddDisplays, taskVars, loginVars
  <2>5. QED
    BY <2>1, <2>3, <2>4 DEF Moved, Shaped, Stage
<1>9. ASSUME NEW c \in Conns, NEW D \in SUBSET Sources(c), KeepDisplays(c, D) PROVE
   Shaped
  <2>1. /\ conn[c] = "open" /\ c \in authorized /\ seen[c] \subseteq Allowed(c)
    BY <1>9 DEF KeepDisplays, Answered, Open, AccessInv, OpenInv, Stage
  <2>2. (seen[c] \ (Videos \ D)) \subseteq Allowed(c) /\ Captured(c, (seen[c] \ (Videos \ D)))
    BY <1>9, <2>1, AllowedServices DEF KeepDisplays
  <2>3. \E Y : Y \subseteq Allowed(c) /\ seen' = [seen EXCEPT ![c] = Y]
    BY <2>2, CapturedAllowed
  <2>4. conn' = conn /\ authorized' = authorized
    BY <1>9 DEF KeepDisplays, taskVars, loginVars
  <2>5. QED
    BY <2>1, <2>3, <2>4 DEF Moved, Shaped, Stage
<1>10. ASSUME NEW c \in Conns, NEW D \in SUBSET Sources(c), SetDisplays(c, D) PROVE
   Shaped
  <2>1. /\ conn[c] = "open" /\ c \in authorized /\ seen[c] \subseteq Allowed(c)
    BY <1>10 DEF SetDisplays, Answered, Open, AccessInv, OpenInv, Stage
  <2>2. ((seen[c] \ Videos) \cup D) \subseteq Allowed(c) /\ Captured(c, ((seen[c] \ Videos) \cup D))
    BY <1>10, <2>1, AllowedServices DEF SetDisplays
  <2>3. \E Y : Y \subseteq Allowed(c) /\ seen' = [seen EXCEPT ![c] = Y]
    BY <2>2, CapturedAllowed
  <2>4. conn' = conn /\ authorized' = authorized
    BY <1>10 DEF SetDisplays, taskVars, loginVars
  <2>5. QED
    BY <2>1, <2>3, <2>4 DEF Moved, Shaped, Stage
<1>11. ASSUME NEW c \in Conns, NEW d \in Displays, SwitchDisplay(c, d) PROVE Shaped
  <2>1. /\ conn[c] = "open" /\ c \in authorized /\ seen[c] \subseteq Allowed(c)
        /\ Named(c, d) \in Sources(c) /\ conn' = conn /\ authorized' = authorized
    BY <1>11 DEF SwitchDisplay, Answered, Open, AccessInv, Stage, Sources, taskVars, loginVars
  <2>2. seen'[c] \subseteq seen[c] \cup {Named(c, d)} /\ \A e \in Conns \ {c} : seen'[e] = seen[e]
    BY <1>11 DEF SwitchDisplay
  <2>3. seen'[c] \subseteq Allowed(c)
    BY <2>1, <2>2, AllowedServices
  <2>4. QED
    BY <2>1, <2>2, <2>3 DEF Moved, Shaped, Stage
<1>12. ASSUME NEW c \in Conns, VoiceCallRequest(c) PROVE Shaped
  BY <1>12 DEF VoiceCallRequest, Answered, Open, Shaped, Quiet, Stage, taskVars, loginVars
<1>13. ASSUME NEW c \in Conns, NEW accepted \in BOOLEAN, VoiceCallResponse(c,
   accepted) PROVE Shaped
  <2>1. conn[c] = "open" /\ conn' = conn /\ authorized' = authorized
    BY <1>13 DEF VoiceCallResponse, Open, taskVars, loginVars
  <2>2. CASE is_authed_view_camera_conn(c)
    <3>1. c \in authorized /\ seen[c] \subseteq Allowed(c)
      BY <2>1, <2>2 DEF is_authed_view_camera_conn, AccessInv, Stage
    <3>2. seen'[c] \subseteq seen[c] \cup {"audio"} /\ \A e \in Conns \ {c} : seen'[e] = seen[e]
      BY <1>13, <2>2 DEF VoiceCallResponse
    <3>3. seen'[c] \subseteq Allowed(c)
      BY <3>1, <3>2, AllowedServices
    <3>4. QED
      BY <2>1, <3>1, <3>2, <3>3 DEF Moved, Shaped, Stage
  <2>3. CASE ~is_authed_view_camera_conn(c)
    BY <1>13, <2>1, <2>3 DEF VoiceCallResponse, Shaped, Quiet, Stage
  <2>4. QED
    BY <2>2, <2>3
<1>14. ASSUME NEW c \in Conns, CloseVoiceCall(c) PROVE Shaped
  <2>1. conn[c] = "open" /\ conn' = conn /\ authorized' = authorized
    BY <1>14 DEF CloseVoiceCall, Open, taskVars, loginVars
  <2>2. CASE is_authed_view_camera_conn(c)
    <3>1. c \in authorized /\ seen[c] \subseteq Allowed(c)
      BY <2>1, <2>2 DEF is_authed_view_camera_conn, AccessInv, Stage
    <3>2. seen'[c] \subseteq seen[c] \cup {"audio"} /\ \A e \in Conns \ {c} : seen'[e] = seen[e]
      BY <1>14, <2>2 DEF CloseVoiceCall
    <3>3. seen'[c] \subseteq Allowed(c)
      BY <3>1, <3>2, AllowedServices
    <3>4. QED
      BY <2>1, <3>1, <3>2, <3>3 DEF Moved, Shaped, Stage
  <2>3. CASE ~is_authed_view_camera_conn(c)
    BY <1>14, <2>1, <2>3 DEF CloseVoiceCall, Shaped, Quiet, Stage
  <2>4. QED
    BY <2>2, <2>3
<1>15. ASSUME NEW c \in Conns, Disconnect(c) PROVE Shaped
  BY <1>15 DEF Disconnect, Open, Goes, on_close, ResetDevice, Shaped, Quiet, Stage,
     taskVars, loginVars
<1>16. ASSUME NEW c \in Conns, Leave(c) PROVE Shaped
  BY <1>16 DEF Leave, Open, Goes, Shaped, Quiet, Stage, taskVars, loginVars
<1>17. ASSUME NEW c \in Conns, RemoveConnection(c) PROVE Shaped
  <2>1. Moved(c)
    BY <1>17 DEF RemoveConnection, Moved, Stage, loginVars
  <2>2. QED
    BY <2>1 DEF Shaped
<1>18. ASSUME NEW c \in Conns, Finish(c) PROVE Shaped
  BY <1>18 DEF Finish, on_close, ResetDevice, Shaped, Quiet, Stage, taskVars, loginVars
<1>19. ASSUME ChooseDevice PROVE Shaped
  BY <1>19 DEF ChooseDevice, Shaped, Quiet, Stage, taskVars, loginVars
<1>20. ASSUME SetDevice PROVE Shaped
  BY <1>20 DEF SetDevice, Shaped, Quiet, Stage, taskVars, loginVars
<1>21. ASSUME RecorderStops PROVE Shaped
  BY <1>21 DEF RecorderStops, Shaped, Quiet, Stage, taskVars, loginVars
<1>22. ASSUME UNCHANGED vars PROVE Shaped
  BY <1>22 DEF vars, Shaped, Quiet, Stage, taskVars, loginVars
<1>23. QED
  BY <1>1, <1>2, <1>3, <1>4, <1>5, <1>6, <1>7, <1>8, <1>9, <1>10, <1>11, <1>12, <1>13,
     <1>14, <1>15, <1>16, <1>17, <1>18, <1>19, <1>20, <1>21, <1>22 DEF Next, Step

LEMMA AccessStep ==
  ASSUME TypeOK, AccessInv, OpenInv, [Next]_vars
  PROVE  AccessInv'
<1>1. Shaped
  BY AccessShape
<1>2. \A c \in Conns : /\ Stage(c)' = "out" => seen'[c] \subseteq EarlyServices[c]
                       /\ Stage(c)' = "in" => seen'[c] \subseteq Allowed(c)
                       /\ Stage(c)' = "done" => seen'[c] = {}
  BY <1>1 DEF Shaped, Moved, Quiet, AccessInv
<1>3. QED
  BY <1>2 DEF AccessInv, Allowed

LEMMA OpenStep ==
  ASSUME TypeOK, OpenInv, [Next]_vars
  PROVE  OpenInv'
<1> USE ConnectionsAssumption DEF taskVars, rightVars, loginVars, viewVars, registryVars,
          TypeOK, TaskTypes, ViewTypes, OpenInv
<1>1. ASSUME NEW c \in Conns, NEW p \in Grants, Start(c, p) PROVE OpenInv'
  BY <1>1 DEF Start
<1>2. ASSUME NEW c \in Conns, Refuse(c) PROVE OpenInv'
  BY <1>2 DEF Refuse
<1>3. ASSUME NEW c \in Conns, LoginAsks(c) PROVE OpenInv'
  BY <1>3 DEF LoginAsks, Open
<1>4. ASSUME NEW c \in Conns, NEW o \in AtLogin(c), NEW wait \in BOOLEAN, NEW ok \in
   BOOLEAN, Login(c, o, wait, ok) PROVE OpenInv'
  <2>1. conn[c] = "open" /\ \A d \in Conns \ {c} : seen'[d] = seen[d]
    BY <1>4 DEF Login, Open, try_sub_monitor_services, try_sub_camera_displays
  <2>2. \/ connections' = connections
        \/ connections' = connections \cup {c} /\ Kind[c] \in {"remote", "camera"}
    BY <1>4 DEF Login, try_sub_monitor_services, try_sub_camera_displays, add_connection,
       add_camera_connection
  <2>3. QED
    BY <1>4, <2>1, <2>2 DEF Login
<1>5. ASSUME NEW c \in Conns, SelectSid(c) PROVE OpenInv'
  <2>1. conn[c] = "open" /\ \A d \in Conns \ {c} : seen'[d] = seen[d]
    BY <1>5 DEF SelectSid, Answered, Open, try_sub_monitor_services, try_sub_camera_displays
  <2>2. connections' \subseteq connections \cup {c}
    BY <1>5 DEF SelectSid, try_sub_monitor_services, try_sub_camera_displays, add_connection,
       add_camera_connection
  <2>3. QED
    BY <1>5, <2>1, <2>2 DEF SelectSid
<1>6. ASSUME NEW c \in Conns, NEW o \in Messages[c], UpdateOptions(c, o) PROVE OpenInv'
  BY <1>6 DEF UpdateOptions, Answered, Open
<1>7. ASSUME NEW c \in Conns, NEW name \in Switches[c], NEW on \in BOOLEAN,
   SwitchPermission(c, name, on) PROVE OpenInv'
  BY <1>7 DEF SwitchPermission, Open
<1>8. ASSUME NEW c \in Conns, NEW D \in SUBSET Sources(c), AddDisplays(c, D) PROVE
   OpenInv'
  <2>1. conn[c] = "open" /\ \A d \in Conns \ {c} : seen'[d] = seen[d]
    BY <1>8 DEF AddDisplays, Answered, Open, Captured
  <2>2. QED
    BY <1>8, <2>1 DEF AddDisplays
<1>9. ASSUME NEW c \in Conns, NEW D \in SUBSET Sources(c), KeepDisplays(c, D) PROVE
   OpenInv'
  <2>1. conn[c] = "open" /\ \A d \in Conns \ {c} : seen'[d] = seen[d]
    BY <1>9 DEF KeepDisplays, Answered, Open, Captured
  <2>2. QED
    BY <1>9, <2>1 DEF KeepDisplays
<1>10. ASSUME NEW c \in Conns, NEW D \in SUBSET Sources(c), SetDisplays(c, D) PROVE
   OpenInv'
  <2>1. conn[c] = "open" /\ \A d \in Conns \ {c} : seen'[d] = seen[d]
    BY <1>10 DEF SetDisplays, Answered, Open, Captured
  <2>2. QED
    BY <1>10, <2>1 DEF SetDisplays
<1>11. ASSUME NEW c \in Conns, NEW d \in Displays, SwitchDisplay(c, d) PROVE OpenInv'
  BY <1>11 DEF SwitchDisplay, Answered, Open
<1>12. ASSUME NEW c \in Conns, VoiceCallRequest(c) PROVE OpenInv'
  BY <1>12 DEF VoiceCallRequest, Answered, Open
<1>13. ASSUME NEW c \in Conns, NEW accepted \in BOOLEAN, VoiceCallResponse(c,
   accepted) PROVE OpenInv'
  BY <1>13 DEF VoiceCallResponse, Open
<1>14. ASSUME NEW c \in Conns, CloseVoiceCall(c) PROVE OpenInv'
  BY <1>14 DEF CloseVoiceCall, Open, ResetDevice
<1>15. ASSUME NEW c \in Conns, Disconnect(c) PROVE OpenInv'
  BY <1>15 DEF Disconnect, Open, Goes, on_close, ResetDevice
<1>16. ASSUME NEW c \in Conns, Leave(c) PROVE OpenInv'
  BY <1>16 DEF Leave, Open, Goes
<1>17. ASSUME NEW c \in Conns, RemoveConnection(c) PROVE OpenInv'
  BY <1>17 DEF RemoveConnection, StopRecorder
<1>18. ASSUME NEW c \in Conns, Finish(c) PROVE OpenInv'
  BY <1>18 DEF Finish, on_close, ResetDevice
<1>19. ASSUME ChooseDevice PROVE OpenInv'
  BY <1>19 DEF ChooseDevice
<1>20. ASSUME SetDevice PROVE OpenInv'
  BY <1>20 DEF SetDevice
<1>21. ASSUME RecorderStops PROVE OpenInv'
  BY <1>21 DEF RecorderStops
<1>22. ASSUME UNCHANGED vars PROVE OpenInv'
  BY <1>22 DEF vars
<1>23. QED
  BY <1>1, <1>2, <1>3, <1>4, <1>5, <1>6, <1>7, <1>8, <1>9, <1>10, <1>11, <1>12, <1>13,
     <1>14, <1>15, <1>16, <1>17, <1>18, <1>19, <1>20, <1>21, <1>22 DEF Next, Step

LEMMA AccessInit == Init => AccessInv /\ OpenInv
BY DEF Init, AccessInv, OpenInv, Stage

\* A step that moves c is a step of ServiceAccess.
LEMMA MovedRefines ==
  ASSUME TypeOK, TypeOK', NEW c \in Conns, Moved(c)
  PROVE  Access!Next
<1> DEFINE stg == [d \in Conns |-> Stage(d)]
<1>1. seen' \in [Conns -> SUBSET Services]
  BY DEF TypeOK, ViewTypes
<1>2. ASSUME NEW t, Stage(c)' = t PROVE stg' = [stg EXCEPT ![c] = t]
  BY <1>2 DEF Moved
<1>3. \A d \in Conns \ {c} : seen'[d] = seen[d]
  BY DEF Moved
<1> HIDE DEF stg
<1>4. CASE Stage(c) = "out" /\ Stage(c)' = "out" /\ seen'[c] \subseteq EarlyServices[c]
  <2>1. stg[c] = "out" /\ stg' = [stg EXCEPT ![c] = "out"]
    BY <1>2, <1>4 DEF stg
  <2>2. Access!Switch(c)
    BY <1>3, <1>4, <2>1 DEF Access!Switch, Access!Moves, stg
  <2>3. QED
    BY <1>1, <2>2 DEF Access!Next
<1>5. CASE Stage(c) \in {"out", "in"} /\ Stage(c)' = "in" /\ seen'[c] \subseteq Allowed(c)
  <2>1. stg[c] \in {"out", "in"} /\ stg' = [stg EXCEPT ![c] = "in"]
    BY <1>2, <1>5 DEF stg
  <2>2. Access!Inside(c)
    BY <1>3, <1>5, <2>1 DEF Access!Inside, Access!Moves, Allowed, stg
  <2>3. QED
    BY <1>1, <2>2 DEF Access!Next
<1>6. CASE Stage(c) # "done" /\ Stage(c)' = "done" /\ seen'[c] = {}
  <2>1. stg[c] # "done" /\ stg' = [stg EXCEPT ![c] = "done"]
    BY <1>2, <1>6 DEF stg
  <2>2. Access!End(c)
    BY <1>3, <1>6, <2>1 DEF Access!End, Access!Moves, stg
  <2>3. QED
    BY <1>1, <2>2 DEF Access!Next
<1>7. QED
  BY <1>4, <1>5, <1>6 DEF Moved

\* And one that moves nobody is none.
LEMMA QuietStutters ==
  ASSUME TypeOK, TypeOK', Quiet
  PROVE  UNCHANGED Access!vars
<1>1. [d \in Conns |-> Stage(d)]' = [d \in Conns |-> Stage(d)]
  BY DEF Quiet
<1>2. seen' = seen
  BY DEF Quiet, TypeOK, ViewTypes
<1>3. QED
  BY <1>1, <1>2 DEF Access!vars

\* Whatever the peers ask for, the users switch and the sessions confirm, a
\* connection sees services between its login and its end only, no display if it
\* logged in for the camera and no camera if it did not, and no other connection changes what it sees:
\* connection.rs:597-682, 1709-1759, 3372-3487, 3742-3890, server.rs:389-463.
THEOREM RefinesServiceAccess == Spec => RefinesAccess
<1> DEFINE IInv == TypeOK /\ AccessInv /\ OpenInv
<1>1. Init => IInv
  BY InitType, AccessInit
<1>2. IInv /\ [Next]_vars => IInv'
  BY TypeStep, AccessStep, OpenStep
<1>3. Init => Access!Init
  BY DEF Init, Access!Init, Stage
<1>4. IInv /\ IInv' /\ [Next]_vars => [Access!Next]_(Access!vars)
  BY AccessShape, MovedRefines, QuietStutters DEF Shaped
<1> HIDE DEF IInv
<1>5. QED
  BY <1>1, <1>2, <1>3, <1>4, PTL DEF Spec, RefinesAccess, Access!Spec

-----------------------------------------------------------------------------
(* The registry: its count and the recorder of the cursor.                   *)

CountInv == Counted /\ uncounted \subseteq connections

\* A connection that is added is counted once, or noted as uncounted.
LEMMA CountAdded ==
  ASSUME TypeOK, CountInv, NEW c \in Conns, add_connection(c) \/ add_camera_connection(c)
  PROVE  CountInv'
<1>1. /\ IsFiniteSet(connections) /\ IsFiniteSet(uncounted)
      /\ Cardinality(connections) \in Nat /\ Cardinality(uncounted) \in Nat
  BY RegistryFinite DEF TypeOK, TaskTypes
<1>2. CASE add_connection(c)
  BY <1>2, FS_EmptySet, RegistryFinite DEF add_connection, CountInv, Counted, TypeOK, TaskTypes
<1>3. CASE add_camera_connection(c)
  <2>1. CASE c \in connections
    <3>1. connections' = connections /\ uncounted' = uncounted /\ CONN_COUNT' = CONN_COUNT
      BY <1>3, <2>1 DEF add_camera_connection
    <3>2. QED
      BY <3>1 DEF CountInv, Counted
  <2>2. CASE c \notin connections
    <3>1. /\ connections' = connections \cup {c} /\ uncounted' = uncounted \cup {c}
          /\ CONN_COUNT' = CONN_COUNT /\ c \notin uncounted
      BY <1>3, <2>2 DEF add_camera_connection, CountInv
    <3>2. /\ Cardinality(connections') = Cardinality(connections) + 1
          /\ Cardinality(uncounted') = Cardinality(uncounted) + 1
      BY <1>1, <2>2, <3>1, FS_AddElement
    <3>3. QED
      BY <1>1, <3>1, <3>2 DEF CountInv, Counted, TypeOK, TaskTypes
  <2>3. QED
    BY <2>1, <2>2
<1>4. QED
  BY <1>2, <1>3

LEMMA CountStep ==
  ASSUME TypeOK, CountInv, [Next]_vars
  PROVE  CountInv'
<1>1. ASSUME NEW c \in Conns, NEW p \in Grants, Start(c, p) PROVE CountInv'
  BY <1>1 DEF Start, registryVars, CountInv, Counted
<1>2. ASSUME NEW c \in Conns, Refuse(c) PROVE CountInv'
  BY <1>2 DEF Refuse, registryVars, CountInv, Counted
<1>3. ASSUME NEW c \in Conns, LoginAsks(c) PROVE CountInv'
  BY <1>3 DEF LoginAsks, Open, registryVars, CountInv, Counted
<1>4. ASSUME NEW c \in Conns, NEW o \in AtLogin(c), NEW wait \in BOOLEAN, NEW ok \in
   BOOLEAN, Login(c, o, wait, ok) PROVE CountInv'
  <2>1. \/ UNCHANGED registryVars
        \/ add_connection(c) \/ add_camera_connection(c)
    BY <1>4 DEF Login, try_sub_monitor_services, try_sub_camera_displays
  <2>2. QED
    BY <2>1, CountAdded DEF registryVars, CountInv, Counted
<1>5. ASSUME NEW c \in Conns, SelectSid(c) PROVE CountInv'
  <2>1. \/ UNCHANGED registryVars
        \/ add_connection(c) \/ add_camera_connection(c)
    BY <1>5 DEF SelectSid, try_sub_monitor_services, try_sub_camera_displays
  <2>2. QED
    BY <2>1, CountAdded DEF registryVars, CountInv, Counted
<1>6. ASSUME NEW c \in Conns, NEW o \in Messages[c], UpdateOptions(c, o) PROVE CountInv'
  BY <1>6 DEF UpdateOptions, Answered, Open, registryVars, CountInv, Counted
<1>7. ASSUME NEW c \in Conns, NEW name \in Switches[c], NEW on \in BOOLEAN,
   SwitchPermission(c, name, on) PROVE CountInv'
  BY <1>7 DEF SwitchPermission, Open, registryVars, CountInv, Counted
<1>8. ASSUME NEW c \in Conns, NEW D \in SUBSET Sources(c), AddDisplays(c, D) PROVE
   CountInv'
  BY <1>8 DEF AddDisplays, Answered, Open, Captured, registryVars, CountInv, Counted
<1>9. ASSUME NEW c \in Conns, NEW D \in SUBSET Sources(c), KeepDisplays(c, D) PROVE
   CountInv'
  BY <1>9 DEF KeepDisplays, Answered, Open, Captured, registryVars, CountInv, Counted
<1>10. ASSUME NEW c \in Conns, NEW D \in SUBSET Sources(c), SetDisplays(c, D) PROVE
   CountInv'
  BY <1>10 DEF SetDisplays, Answered, Open, Captured, registryVars, CountInv, Counted
<1>11. ASSUME NEW c \in Conns, NEW d \in Displays, SwitchDisplay(c, d) PROVE CountInv'
  BY <1>11 DEF SwitchDisplay, Answered, Open, registryVars, CountInv, Counted
<1>12. ASSUME NEW c \in Conns, VoiceCallRequest(c) PROVE CountInv'
  BY <1>12 DEF VoiceCallRequest, Answered, Open, registryVars, CountInv, Counted
<1>13. ASSUME NEW c \in Conns, NEW accepted \in BOOLEAN, VoiceCallResponse(c,
   accepted) PROVE CountInv'
  BY <1>13 DEF VoiceCallResponse, Open, registryVars, CountInv, Counted
<1>14. ASSUME NEW c \in Conns, CloseVoiceCall(c) PROVE CountInv'
  BY <1>14 DEF CloseVoiceCall, Open, ResetDevice, registryVars, CountInv, Counted
<1>15. ASSUME NEW c \in Conns, Disconnect(c) PROVE CountInv'
  BY <1>15 DEF Disconnect, Open, Goes, on_close, ResetDevice, registryVars, CountInv,
     Counted
<1>16. ASSUME NEW c \in Conns, Leave(c) PROVE CountInv'
  BY <1>16 DEF Leave, Open, Goes, registryVars, CountInv, Counted
<1>17. ASSUME NEW c \in Conns, RemoveConnection(c) PROVE CountInv'
  <2>1. uncounted' = {} /\ CONN_COUNT' = Cardinality(connections')
    BY <1>17 DEF RemoveConnection
  <2>2. Cardinality(connections') \in Nat
    BY <1>17, RegistryFinite DEF RemoveConnection, TypeOK, TaskTypes
  <2>3. QED
    BY <2>1, <2>2, FS_EmptySet DEF CountInv, Counted
<1>18. ASSUME NEW c \in Conns, Finish(c) PROVE CountInv'
  BY <1>18 DEF Finish, on_close, ResetDevice, registryVars, CountInv, Counted
<1>19. ASSUME ChooseDevice PROVE CountInv'
  BY <1>19 DEF ChooseDevice, registryVars, CountInv, Counted
<1>20. ASSUME SetDevice PROVE CountInv'
  BY <1>20 DEF SetDevice, registryVars, CountInv, Counted
<1>21. ASSUME RecorderStops PROVE CountInv'
  BY <1>21 DEF RecorderStops, registryVars, CountInv, Counted
<1>22. ASSUME UNCHANGED vars PROVE CountInv'
  BY <1>22 DEF vars, registryVars, CountInv, Counted
<1>23. QED
  BY <1>1, <1>2, <1>3, <1>4, <1>5, <1>6, <1>7, <1>8, <1>9, <1>10, <1>11, <1>12, <1>13,
     <1>14, <1>15, <1>16, <1>17, <1>18, <1>19, <1>20, <1>21, <1>22 DEF Next, Step

\* The recorder runs for as long as it is told to.
RecordInv == Recorded /\ (running => recorders > 0)

LEMMA RecordStep ==
  ASSUME TypeOK, OpenInv, RecordInv, [Next]_vars
  PROVE  RecordInv'
<1> USE ConnectionsAssumption DEF taskVars, rightVars, loginVars, viewVars, registryVars,
          callVars, deviceVars, Open, Desktop,
          TypeOK, TaskTypes, RecordInv, Recorded, StartRecorder
<1>1. ASSUME NEW c \in Conns, NEW p \in Grants, Start(c, p) PROVE RecordInv'
  BY <1>1 DEF Start
<1>2. ASSUME NEW c \in Conns, Refuse(c) PROVE RecordInv'
  BY <1>2 DEF Refuse
<1>3. ASSUME NEW c \in Conns, LoginAsks(c) PROVE RecordInv'
  BY <1>3 DEF LoginAsks, Open
<1>4. ASSUME NEW c \in Conns, NEW o \in AtLogin(c), NEW wait \in BOOLEAN, NEW ok \in
   BOOLEAN, Login(c, o, wait, ok) PROVE RecordInv'
  <2>1. conn' = conn
    BY <1>4 DEF Login
  <2>2. CASE Kind[c] = "remote" /\ ok /\ ~wait
    <3>1. try_sub_monitor_services(c, after_options(c, o), perm[c], new_options(c, o))
      BY <1>4, <2>2 DEF Login
    <3>2. QED
      BY <2>1, <3>1 DEF try_sub_monitor_services, add_connection
  <2>3. CASE Kind[c] = "camera" /\ ~wait
    <3>1. try_sub_camera_displays(c, after_options(c, o))
      BY <1>4, <2>3 DEF Login
    <3>2. QED
      BY <2>1, <2>3, <3>1 DEF try_sub_camera_displays, add_camera_connection
  <2>4. CASE ~(Kind[c] = "remote" /\ ok /\ ~wait) /\ ~(Kind[c] = "camera" /\ ~wait)
    BY <1>4, <2>1, <2>4 DEF Login
  <2>5. QED
    BY <2>2, <2>3, <2>4
<1>5. ASSUME NEW c \in Conns, SelectSid(c) PROVE RecordInv'
  <2>1. conn' = conn
    BY <1>5 DEF SelectSid
  <2>2. CASE Kind[c] = "camera"
    <3>1. try_sub_camera_displays(c, seen[c])
      BY <1>5, <2>2 DEF SelectSid
    <3>2. QED
      BY <2>1, <2>2, <3>1 DEF try_sub_camera_displays, add_camera_connection
  <2>3. CASE Kind[c] # "camera"
    <3>1. try_sub_monitor_services(c, seen[c], perm[c], opt[c])
      BY <1>5, <2>3 DEF SelectSid
    <3>2. QED
      BY <2>1, <3>1 DEF try_sub_monitor_services, add_connection
  <2>4. QED
    BY <2>2, <2>3
<1>6. ASSUME NEW c \in Conns, NEW o \in Messages[c], UpdateOptions(c, o) PROVE
   RecordInv'
  BY <1>6 DEF UpdateOptions, Answered, Open
<1>7. ASSUME NEW c \in Conns, NEW name \in Switches[c], NEW on \in BOOLEAN,
   SwitchPermission(c, name, on) PROVE RecordInv'
  BY <1>7 DEF SwitchPermission, Open
<1>8. ASSUME NEW c \in Conns, NEW D \in SUBSET Sources(c), AddDisplays(c, D) PROVE
   RecordInv'
  BY <1>8 DEF AddDisplays, Answered, Open, Captured
<1>9. ASSUME NEW c \in Conns, NEW D \in SUBSET Sources(c), KeepDisplays(c, D) PROVE
   RecordInv'
  BY <1>9 DEF KeepDisplays, Answered, Open, Captured
<1>10. ASSUME NEW c \in Conns, NEW D \in SUBSET Sources(c), SetDisplays(c, D) PROVE
   RecordInv'
  BY <1>10 DEF SetDisplays, Answered, Open, Captured
<1>11. ASSUME NEW c \in Conns, NEW d \in Displays, SwitchDisplay(c, d) PROVE RecordInv'
  BY <1>11 DEF SwitchDisplay, Answered, Open
<1>12. ASSUME NEW c \in Conns, VoiceCallRequest(c) PROVE RecordInv'
  BY <1>12 DEF VoiceCallRequest, Answered, Open
<1>13. ASSUME NEW c \in Conns, NEW accepted \in BOOLEAN, VoiceCallResponse(c,
   accepted) PROVE RecordInv'
  BY <1>13 DEF VoiceCallResponse, Open
<1>14. ASSUME NEW c \in Conns, CloseVoiceCall(c) PROVE RecordInv'
  BY <1>14 DEF CloseVoiceCall, Open, ResetDevice
<1>15. ASSUME NEW c \in Conns, Disconnect(c) PROVE RecordInv'
  BY <1>15 DEF Disconnect, Open, Goes, on_close, ResetDevice
<1>16. ASSUME NEW c \in Conns, Leave(c) PROVE RecordInv'
  BY <1>16 DEF Leave, Open, Goes
<1>17. ASSUME NEW c \in Conns, RemoveConnection(c) PROVE RecordInv'
  <2>1. connections' # {} => CONN_COUNT' > 0
    <3>1. IsFiniteSet(connections') /\ CONN_COUNT' = Cardinality(connections')
      BY <1>17, RegistryFinite DEF RemoveConnection
    <3>2. Cardinality(connections') \in Nat
      BY <3>1, FS_CardinalityType
    <3>3. QED
      BY <3>1, <3>2, FS_EmptySet
  <2>2. connections' = {} => CONN_COUNT' = 0
    BY <1>17, FS_EmptySet DEF RemoveConnection
  <2>3. recorders' = recorders /\ running' = IF CONN_COUNT' > 0 THEN running ELSE FALSE
    BY <1>17 DEF RemoveConnection, StopRecorder
  <2>4. \A d \in Conns : Desktop(d)' => Desktop(d) /\ connections' # {}
    BY <1>17 DEF RemoveConnection
  <2>5. running' => recorders' > 0
    BY <2>3
  <2>6. connections' = {} => ~running'
    BY <2>2, <2>3
  <2>7. \A d \in Conns : Desktop(d)' => running' /\ recorders' > 0
    BY <2>1, <2>3, <2>4
  <2>8. QED
    BY <2>5, <2>6, <2>7
<1>18. ASSUME NEW c \in Conns, Finish(c) PROVE RecordInv'
  BY <1>18 DEF Finish, on_close, ResetDevice
<1>19. ASSUME ChooseDevice PROVE RecordInv'
  BY <1>19 DEF ChooseDevice
<1>20. ASSUME SetDevice PROVE RecordInv'
  BY <1>20 DEF SetDevice
<1>21. ASSUME RecorderStops PROVE RecordInv'
  BY <1>21 DEF RecorderStops
<1>22. ASSUME UNCHANGED vars PROVE RecordInv'
  BY <1>22 DEF vars
<1>23. QED
  BY <1>1, <1>2, <1>3, <1>4, <1>5, <1>6, <1>7, <1>8, <1>9, <1>10, <1>11, <1>12, <1>13,
     <1>14, <1>15, <1>16, <1>17, <1>18, <1>19, <1>20, <1>21, <1>22 DEF Next, Step

-----------------------------------------------------------------------------
(* The end of a connection and the voice calls.                              *)

\* Who ran on_close has left the loop, and the manager knows of it.
ClosedInv == /\ ToldOfEnd
             /\ \A c \in Conns : conn[c] = "new" => cm[c] = "none"
             /\ \A c \in closed : conn[c] \notin {"new", "open"} /\ cm[c] \in {"none", "told"}

LEMMA ClosedStep ==
  ASSUME TypeOK, ClosedInv, [Next]_vars
  PROVE  ClosedInv'
<1> USE ConnectionsAssumption DEF taskVars, rightVars, loginVars, viewVars, registryVars,
          callVars, deviceVars, Open,
          TypeOK, TaskTypes, ClosedInv, ToldOfEnd
<1>1. ASSUME NEW c \in Conns, NEW p \in Grants, Start(c, p) PROVE ClosedInv'
  BY <1>1 DEF Start
<1>2. ASSUME NEW c \in Conns, Refuse(c) PROVE ClosedInv'
  BY <1>2 DEF Refuse
<1>3. ASSUME NEW c \in Conns, LoginAsks(c) PROVE ClosedInv'
  BY <1>3 DEF LoginAsks, Open
<1>4. ASSUME NEW c \in Conns, NEW o \in AtLogin(c), NEW wait \in BOOLEAN, NEW ok \in
   BOOLEAN, Login(c, o, wait, ok) PROVE ClosedInv'
  BY <1>4 DEF Login, Open
<1>5. ASSUME NEW c \in Conns, SelectSid(c) PROVE ClosedInv'
  BY <1>5 DEF SelectSid, Answered, Open
<1>6. ASSUME NEW c \in Conns, NEW o \in Messages[c], UpdateOptions(c, o) PROVE
   ClosedInv'
  BY <1>6 DEF UpdateOptions, Answered, Open
<1>7. ASSUME NEW c \in Conns, NEW name \in Switches[c], NEW on \in BOOLEAN,
   SwitchPermission(c, name, on) PROVE ClosedInv'
  BY <1>7 DEF SwitchPermission, Open
<1>8. ASSUME NEW c \in Conns, NEW D \in SUBSET Sources(c), AddDisplays(c, D) PROVE
   ClosedInv'
  BY <1>8 DEF AddDisplays, Answered, Open, Captured
<1>9. ASSUME NEW c \in Conns, NEW D \in SUBSET Sources(c), KeepDisplays(c, D) PROVE
   ClosedInv'
  BY <1>9 DEF KeepDisplays, Answered, Open, Captured
<1>10. ASSUME NEW c \in Conns, NEW D \in SUBSET Sources(c), SetDisplays(c, D) PROVE
   ClosedInv'
  BY <1>10 DEF SetDisplays, Answered, Open, Captured
<1>11. ASSUME NEW c \in Conns, NEW d \in Displays, SwitchDisplay(c, d) PROVE ClosedInv'
  BY <1>11 DEF SwitchDisplay, Answered, Open
<1>12. ASSUME NEW c \in Conns, VoiceCallRequest(c) PROVE ClosedInv'
  BY <1>12 DEF VoiceCallRequest, Answered, Open
<1>13. ASSUME NEW c \in Conns, NEW accepted \in BOOLEAN, VoiceCallResponse(c,
   accepted) PROVE ClosedInv'
  BY <1>13 DEF VoiceCallResponse, Open
<1>14. ASSUME NEW c \in Conns, CloseVoiceCall(c) PROVE ClosedInv'
  BY <1>14 DEF CloseVoiceCall, Open, ResetDevice
<1>15. ASSUME NEW c \in Conns, Disconnect(c) PROVE ClosedInv'
  BY <1>15 DEF Disconnect, Open, Goes, on_close, ResetDevice
<1>16. ASSUME NEW c \in Conns, Leave(c) PROVE ClosedInv'
  BY <1>16 DEF Leave, Open, Goes
<1>17. ASSUME NEW c \in Conns, RemoveConnection(c) PROVE ClosedInv'
  BY <1>17 DEF RemoveConnection, StopRecorder
<1>18. ASSUME NEW c \in Conns, Finish(c) PROVE ClosedInv'
  BY <1>18 DEF Finish, on_close, ResetDevice
<1>19. ASSUME ChooseDevice PROVE ClosedInv'
  BY <1>19 DEF ChooseDevice
<1>20. ASSUME SetDevice PROVE ClosedInv'
  BY <1>20 DEF SetDevice
<1>21. ASSUME RecorderStops PROVE ClosedInv'
  BY <1>21 DEF RecorderStops
<1>22. ASSUME UNCHANGED vars PROVE ClosedInv'
  BY <1>22 DEF vars
<1>23. QED
  BY <1>1, <1>2, <1>3, <1>4, <1>5, <1>6, <1>7, <1>8, <1>9, <1>10, <1>11, <1>12, <1>13,
     <1>14, <1>15, <1>16, <1>17, <1>18, <1>19, <1>20, <1>21, <1>22 DEF Next, Step

CallInv == /\ InputKept /\ DeviceFreed /\ CallAgreed
           /\ requested \cup voice_calling \subseteq authorized

LEMMA CallStep ==
  ASSUME TypeOK, OpenInv, ClosedInv, CallInv, [Next]_vars
  PROVE  CallInv'
<1> USE ConnectionsAssumption DEF taskVars, rightVars, loginVars, viewVars, registryVars,
          callVars, deviceVars, Open,
          TypeOK, TaskTypes, CallTypes, OpenInv, ClosedInv, CallInv, InputKept, DeviceFreed,
          CallAgreed, InCall
<1>1. ASSUME NEW c \in Conns, NEW p \in Grants, Start(c, p) PROVE CallInv'
  BY <1>1 DEF Start
<1>2. ASSUME NEW c \in Conns, Refuse(c) PROVE CallInv'
  BY <1>2 DEF Refuse
<1>3. ASSUME NEW c \in Conns, LoginAsks(c) PROVE CallInv'
  BY <1>3 DEF LoginAsks, Open
<1>4. ASSUME NEW c \in Conns, NEW o \in AtLogin(c), NEW wait \in BOOLEAN, NEW ok \in
   BOOLEAN, Login(c, o, wait, ok) PROVE CallInv'
  BY <1>4 DEF Login, Open
<1>5. ASSUME NEW c \in Conns, SelectSid(c) PROVE CallInv'
  BY <1>5 DEF SelectSid, Answered, Open
<1>6. ASSUME NEW c \in Conns, NEW o \in Messages[c], UpdateOptions(c, o) PROVE CallInv'
  BY <1>6 DEF UpdateOptions, Answered, Open
<1>7. ASSUME NEW c \in Conns, NEW name \in Switches[c], NEW on \in BOOLEAN,
   SwitchPermission(c, name, on) PROVE CallInv'
  BY <1>7 DEF SwitchPermission, Open
<1>8. ASSUME NEW c \in Conns, NEW D \in SUBSET Sources(c), AddDisplays(c, D) PROVE
   CallInv'
  BY <1>8 DEF AddDisplays, Answered, Open, Captured
<1>9. ASSUME NEW c \in Conns, NEW D \in SUBSET Sources(c), KeepDisplays(c, D) PROVE
   CallInv'
  BY <1>9 DEF KeepDisplays, Answered, Open, Captured
<1>10. ASSUME NEW c \in Conns, NEW D \in SUBSET Sources(c), SetDisplays(c, D) PROVE
   CallInv'
  BY <1>10 DEF SetDisplays, Answered, Open, Captured
<1>11. ASSUME NEW c \in Conns, NEW d \in Displays, SwitchDisplay(c, d) PROVE CallInv'
  BY <1>11 DEF SwitchDisplay, Answered, Open
<1>12. ASSUME NEW c \in Conns, VoiceCallRequest(c) PROVE CallInv'
  BY <1>12 DEF VoiceCallRequest, Answered, Open
<1>13. ASSUME NEW c \in Conns, NEW accepted \in BOOLEAN, VoiceCallResponse(c,
   accepted) PROVE CallInv'
  BY <1>13 DEF VoiceCallResponse, Open
<1>14. ASSUME NEW c \in Conns, CloseVoiceCall(c) PROVE CallInv'
  BY <1>14 DEF CloseVoiceCall, Open, ResetDevice
<1>15. ASSUME NEW c \in Conns, Disconnect(c) PROVE CallInv'
  BY <1>15 DEF Disconnect, Open, Goes, on_close, ResetDevice
<1>16. ASSUME NEW c \in Conns, Leave(c) PROVE CallInv'
  BY <1>16 DEF Leave, Open, Goes
<1>17. ASSUME NEW c \in Conns, RemoveConnection(c) PROVE CallInv'
  BY <1>17 DEF RemoveConnection, StopRecorder
<1>18. ASSUME NEW c \in Conns, Finish(c) PROVE CallInv'
  BY <1>18 DEF Finish, on_close, ResetDevice
<1>19. ASSUME ChooseDevice PROVE CallInv'
  BY <1>19 DEF ChooseDevice
<1>20. ASSUME SetDevice PROVE CallInv'
  BY <1>20 DEF SetDevice
<1>21. ASSUME RecorderStops PROVE CallInv'
  BY <1>21 DEF RecorderStops
<1>22. ASSUME UNCHANGED vars PROVE CallInv'
  BY <1>22 DEF vars
<1>23. QED
  BY <1>1, <1>2, <1>3, <1>4, <1>5, <1>6, <1>7, <1>8, <1>9, <1>10, <1>11, <1>12, <1>13,
     <1>14, <1>15, <1>16, <1>17, <1>18, <1>19, <1>20, <1>21, <1>22 DEF Next, Step

LEMMA RestInit == Init => CountInv /\ RecordInv /\ ClosedInv /\ CallInv
<1>1. Cardinality({}) = 0
  BY FS_EmptySet
<1>2. QED
  BY <1>1 DEF Init, CountInv, Counted, RecordInv, Recorded, Desktop, Open, ClosedInv, ToldOfEnd,
         CallInv, InputKept, DeviceFreed, CallAgreed, InCall

\* What is counted, recorded and told, and what the calls share, in one induction.
LEMMA RestCorrect ==
  Spec => [](TypeOK /\ CountInv /\ RecordInv /\ ClosedInv /\ CallInv)
<1> DEFINE IInv == TypeOK /\ OpenInv /\ CountInv /\ RecordInv /\ ClosedInv /\ CallInv
<1>1. Init => IInv
  BY InitType, AccessInit, RestInit
<1>2. IInv /\ [Next]_vars => IInv'
  BY TypeStep, OpenStep, CountStep, RecordStep, ClosedStep, CallStep
<1>3. QED
  BY <1>1, <1>2, PTL DEF Spec

\* CONN_COUNT is the number of connections but for cameras added since, and while a
\* desktop is shown its cursor is recorded, and nothing for nobody, whoever starts and
\* stops the recorder: server.rs:389-428, input_service.rs:483-516.
THEOREM AttendedTheorem == Spec => []Attended
BY RestCorrect, PTL DEF CountInv, RecordInv, Attended

\* The manager learns of every end: connection.rs:951-993, 4106-4136.
THEOREM ToldTheorem == Spec => []ToldOfEnd
BY RestCorrect, PTL DEF ClosedInv

\* The device of voice calls is there during calls and given back after them, and
\* a call is one for both sides, but for the named exceptions:
\* connection.rs:3273-3284, 3601-3643, 4106-4136.
THEOREM CallsTheorem == Spec => []CallsSettled
BY RestCorrect, PTL DEF CallInv, CallsSettled

-----------------------------------------------------------------------------
(* What a desktop connection is subscribed to follows permissions and options. *)

\* What c sees, S, under the permissions p and options o: nothing that is not
\* wanted, and all that is once it is registered (con).  The other parameters are
\* the sets forced, multi_ui_session and refocused.
Within(c, S, p, o, con, fo, mu, re) ==
    /\ "pos" \in S => "show_remote_cursor" \in o
    /\ "clipboard" \in S => can_sub_clipboard_service(p, o)
    /\ "audio" \in S => audio_enabled(p, o)
    /\ "cursor" \in S => wants_cursor(p, o) \/ c \in fo
    /\ c \in fo => "cursor" \in S
    /\ "focus" \in S => "follow_remote_window" \in o /\ (c \in mu => c \in re)
    /\ c \in con => /\ "show_remote_cursor" \in o => "pos" \in S
                    /\ can_sub_clipboard_service(p, o) => "clipboard" \in S
                    /\ audio_enabled(p, o) => "audio" \in S
                    /\ wants_cursor(p, o) => "cursor" \in S
                    /\ "follow_remote_window" \in o /\ (c \in mu => c \in re) => "focus" \in S

\* While a connection is not registered, its services may be fewer.
FollowsInv ==
    \A c \in Conns : conn[c] \in {"new", "open"} /\ Kind[c] = "remote" =>
        /\ Within(c, seen[c], perm[c], opt[c], connections, forced, multi_ui_session,
                  refocused)
        /\ c \notin authorized => c \notin services_subed /\ c \notin multi_ui_session

LEMMA WithinOptions ==
  ASSUME NEW c \in Conns, Kind[c] = "remote", NEW o \in OptionMessages, o.yes \cap o.no = {},
         NEW con, NEW fo, NEW mu, NEW re, NEW fo2, NEW re2,
         c \in fo2 <=> /\ c \in fo
                       /\ (o.yes \cup o.no) \cap {"show_remote_cursor", "disable_keyboard"} = {},
         c \in re2 <=> IF "follow_remote_window" \in o.yes /\ c \in mu THEN TRUE
                       ELSE IF "follow_remote_window" \in o.no THEN FALSE ELSE c \in re,
         Within(c, seen[c], perm[c], opt[c], con, fo, mu, re)
  PROVE  Within(c, after_options(c, o), perm[c], new_options(c, o), con, fo2, mu, re2)
<1> DEFINE q == new_options(c, o)
           T == touched(c, perm[c], q, o)
           N == noperms(perm[c], q)
<1>1. \A n \in Plain : n \in after_options(c, o) <=> IF n \in T THEN n \notin N ELSE n \in seen[c]
  BY DEF after_options, touched
<1>2. \A x \in Options : /\ x \notin o.yes \cup o.no => (x \in q <=> x \in opt[c])
                         /\ x \in o.yes => x \in q
                         /\ x \in o.no => x \notin q
  BY DEF new_options
<1>3. /\ "cursor" \in N <=> ~wants_cursor(perm[c], q)
      /\ "pos" \in N <=> "show_remote_cursor" \notin q
      /\ "focus" \in N <=> "follow_remote_window" \notin q
      /\ "clipboard" \in N <=> ~can_sub_clipboard_service(perm[c], q)
      /\ "audio" \in N <=> ~audio_enabled(perm[c], q)
  BY DEF noperms, Plain
<1>4. /\ "cursor" \in T <=> (o.yes \cup o.no) \cap {"show_remote_cursor", "disable_keyboard"} # {}
      /\ "pos" \in T <=> "show_remote_cursor" \in o.yes \cup o.no
      /\ "focus" \in T <=> "follow_remote_window" \in o.yes \cup o.no
      /\ "clipboard" \in T <=> (o.yes \cup o.no) \cap {"disable_clipboard", "disable_keyboard"} # {}
      /\ "audio" \in T <=> "disable_audio" \in o.yes \cup o.no
  BY DEF touched, Plain
<1> HIDE DEF q, T, N
<1>5. /\ "cursor" \notin T => (wants_cursor(perm[c], q) <=> wants_cursor(perm[c], opt[c]))
      /\ "clipboard" \notin T => (can_sub_clipboard_service(perm[c], q)
                                   <=> can_sub_clipboard_service(perm[c], opt[c]))
      /\ "audio" \notin T => (audio_enabled(perm[c], q) <=> audio_enabled(perm[c], opt[c]))
  BY <1>2, <1>4 DEF Options, wants_cursor, can_sub_clipboard_service, audio_enabled,
     clipboard_enabled, peer_keyboard_enabled
<1>6. QED
  <2> DEFINE S == after_options(c, o)
  <2> USE DEF Plain, Options, Within
  <2>1. /\ "pos" \in S => "show_remote_cursor" \in q
        /\ c \in con => ("show_remote_cursor" \in q => "pos" \in S)
    BY <1>1, <1>2, <1>3, <1>4
  <2>2. /\ "clipboard" \in S => can_sub_clipboard_service(perm[c], q)
        /\ c \in con => (can_sub_clipboard_service(perm[c], q) => "clipboard" \in S)
    BY <1>1, <1>3, <1>5
  <2>3. /\ "audio" \in S => audio_enabled(perm[c], q)
        /\ c \in con => (audio_enabled(perm[c], q) => "audio" \in S)
    BY <1>1, <1>3, <1>5
  <2>4. /\ "cursor" \in S => wants_cursor(perm[c], q) \/ c \in fo2
        /\ c \in fo2 => "cursor" \in S
        /\ c \in con => (wants_cursor(perm[c], q) => "cursor" \in S)
    BY <1>1, <1>3, <1>4, <1>5
  <2>5. /\ "focus" \in S => "follow_remote_window" \in q /\ (c \in mu => c \in re2)
        /\ c \in con => ("follow_remote_window" \in q /\ (c \in mu => c \in re2) => "focus" \in S)
    BY <1>1, <1>2, <1>3, <1>4
  <2>6. QED
    BY <2>1, <2>2, <2>3, <2>4, <2>5 DEF q

\* Registering adds the services that are missing, also the one that displays had
\* stopped.
LEMMA WithinMonitor ==
  ASSUME NEW c, NEW S, NEW p, NEW o, NEW con, NEW con2, NEW fo, NEW mu, NEW re, NEW re2,
         c \in mu => c \in re2,
         Within(c, S, p, o, con, fo, mu, re)
  PROVE  Within(c, monitor_services(S, p, o), p, o, con2, fo, mu, re2)
<1>1. \A n \in Plain : n \in monitor_services(S, p, o) <=> n \in S \/ n \notin noperms(p, o)
  BY ConnectionsAssumption DEF monitor_services
<1>2. /\ "cursor" \in noperms(p, o) <=> ~wants_cursor(p, o)
      /\ "pos" \in noperms(p, o) <=> "show_remote_cursor" \notin o
      /\ "focus" \in noperms(p, o) <=> "follow_remote_window" \notin o
      /\ "clipboard" \in noperms(p, o) <=> ~can_sub_clipboard_service(p, o)
      /\ "audio" \in noperms(p, o) <=> ~audio_enabled(p, o)
  BY DEF noperms, Plain
<1>3. QED
  BY <1>1, <1>2 DEF Within, Plain


\* A switch decides on what it touches.
LEMMA WithinSwitch ==
  ASSUME NEW c \in Conns, Kind[c] = "remote", NEW name \in Permissions, NEW on \in BOOLEAN,
         NEW p, p = IF name = "camera" THEN perm[c]
                    ELSE IF on THEN perm[c] \cup {name} ELSE perm[c] \ {name},
         NEW con, NEW fo, NEW mu, NEW re, NEW fo2,
         c \in fo2 <=> IF name # "keyboard" THEN c \in fo ELSE on /\ ~wants_cursor(p, opt[c]),
         c \notin authorized => c \notin con /\ "audio" \notin seen[c],
         Within(c, seen[c], perm[c], opt[c], con, fo, mu, re)
  PROVE  Within(c, switched(c, name, on, p), p, opt[c], con, fo2, mu, re)
<1> DEFINE S == switched(c, name, on, p)
<1> USE DEF Permissions, Plain
<1>1. /\ "cursor" \in noperms(p, opt[c]) <=> ~wants_cursor(p, opt[c])
      /\ "clipboard" \in noperms(p, opt[c]) <=> ~can_sub_clipboard_service(p, opt[c])
      /\ "audio" \in noperms(p, opt[c]) <=> ~audio_enabled(p, opt[c])
  BY DEF noperms
<1>2. ("pos" \in S <=> "pos" \in seen[c]) /\ ("focus" \in S <=> "focus" \in seen[c])
  BY DEF switched
<1>3. "clipboard" \in S <=> IF name \in {"keyboard", "clipboard"}
                            THEN can_sub_clipboard_service(p, opt[c]) ELSE "clipboard" \in seen[c]
  BY <1>1 DEF switched
<1>4. "audio" \in S <=> IF name = "audio" /\ c \in authorized
                        THEN audio_enabled(p, opt[c]) ELSE "audio" \in seen[c]
  BY <1>1 DEF switched
<1>5. "cursor" \in S <=> IF name = "keyboard" THEN on \/ "show_remote_cursor" \in opt[c]
                         ELSE "cursor" \in seen[c]
  BY DEF switched
<1>6. /\ name \notin {"keyboard", "clipboard"} =>
             (can_sub_clipboard_service(p, opt[c]) <=> can_sub_clipboard_service(perm[c], opt[c]))
      /\ name # "audio" => (audio_enabled(p, opt[c]) <=> audio_enabled(perm[c], opt[c]))
      /\ name # "keyboard" => (wants_cursor(p, opt[c]) <=> wants_cursor(perm[c], opt[c]))
      /\ name = "keyboard" /\ ~on => (wants_cursor(p, opt[c]) <=> "show_remote_cursor" \in opt[c])
      /\ name = "keyboard" /\ on /\ "show_remote_cursor" \in opt[c] => wants_cursor(p, opt[c])
  BY DEF wants_cursor, can_sub_clipboard_service, audio_enabled, clipboard_enabled,
     peer_keyboard_enabled
<1> HIDE DEF S
<1>7. QED
  <2> USE DEF Within
  <2>1. /\ "clipboard" \in S => can_sub_clipboard_service(p, opt[c])
        /\ c \in con => (can_sub_clipboard_service(p, opt[c]) => "clipboard" \in S)
    BY <1>3, <1>6
  <2>2. /\ "audio" \in S => audio_enabled(p, opt[c])
        /\ c \in con => (audio_enabled(p, opt[c]) => "audio" \in S)
    BY <1>4, <1>6
  <2>3. /\ "cursor" \in S => wants_cursor(p, opt[c]) \/ c \in fo2
        /\ c \in fo2 => "cursor" \in S
        /\ c \in con => (wants_cursor(p, opt[c]) => "cursor" \in S)
    <3>1. CASE name = "keyboard"
      <4>1. CASE on
        BY <1>5, <3>1, <4>1
      <4>2. CASE ~on
        BY <1>5, <1>6, <3>1, <4>2
      <4>3. QED
        BY <4>1, <4>2
    <3>2. CASE name # "keyboard"
      BY <1>5, <1>6, <3>2
    <3>3. QED
      BY <3>1, <3>2
  <2>4. QED
    BY <1>2, <2>1, <2>2, <2>3 DEF S

\* Asking for displays settles the focus service, and leaves the others.
LEMMA WithinCaptured ==
  ASSUME NEW c \in Conns, NEW S, Captured(c, S),
         seen \in [Conns -> SUBSET Services],
         \A n \in Plain : n \in S <=> n \in seen[c],
         NEW con, NEW fo, NEW mu, NEW re,
         Within(c, seen[c], perm[c], opt[c], con, fo, mu, re)
  PROVE  Within(c, seen'[c], perm[c], opt[c], con, fo, multi_ui_session', refocused')
<1> DEFINE many == Cardinality(S \cap Videos) > 1
<1>1. (c \in multi_ui_session' <=> many) /\ c \notin refocused'
  BY DEF Captured
<1>2. seen'[c] = IF "follow_remote_window" \notin opt[c] THEN S
                 ELSE IF many THEN S \ {"focus"} ELSE S \cup {"focus"}
  BY DEF Captured
<1> HIDE DEF many
<1>3. /\ \A n \in Plain \ {"focus"} : n \in seen'[c] <=> n \in seen[c]
      /\ "follow_remote_window" \in opt[c] => ("focus" \in seen'[c] <=> ~many)
      /\ "follow_remote_window" \notin opt[c] => ("focus" \in seen'[c] <=> "focus" \in seen[c])
  BY <1>2 DEF Plain
<1>4. QED
  BY <1>1, <1>3 DEF Within, Plain

LEMMA FollowsStep ==
  ASSUME TypeOK, AccessInv, OpenInv, FollowsInv, [Next]_vars
  PROVE  FollowsInv'
<1> USE ConnectionsAssumption DEF taskVars, rightVars, loginVars, viewVars, registryVars,
          callVars, deviceVars, Open, Answered,
          TypeOK, TaskTypes, ViewTypes, FollowsInv
<1>1. ASSUME NEW c \in Conns, NEW p \in Grants, Start(c, p) PROVE FollowsInv'
  <2>1. seen[c] = {} /\ c \notin connections
    BY <1>1 DEF Start, OpenInv
  <2>2. QED
    BY <1>1, <2>1 DEF Start, Within
<1>2. ASSUME NEW c \in Conns, Refuse(c) PROVE FollowsInv'
  BY <1>2 DEF Refuse
<1>3. ASSUME NEW c \in Conns, LoginAsks(c) PROVE FollowsInv'
  BY <1>3 DEF LoginAsks, Open
<1>4. ASSUME NEW c \in Conns, NEW o \in AtLogin(c), NEW wait \in BOOLEAN, NEW ok \in
   BOOLEAN, Login(c, o, wait, ok) PROVE FollowsInv'
  <2>1. o \in OptionMessages /\ o.yes \cap o.no = {}
    BY MessageType DEF AtLogin, NoOptions
  <2>2. /\ conn[c] = "open" /\ conn' = conn /\ c \notin connections
        /\ c \notin authorized /\ c \in authorized'
        /\ UNCHANGED <<multi_ui_session, refocused>>
        /\ opt'[c] = new_options(c, o)
        /\ \A d \in Conns \ {c} : /\ perm'[d] = perm[d] /\ opt'[d] = opt[d]
                                  /\ d \in forced' <=> d \in forced
                                  /\ d \in authorized' <=> d \in authorized
        /\ c \in forced' <=> c \in forced
              /\ (o.yes \cup o.no) \cap {"show_remote_cursor", "disable_keyboard"} = {}
    BY <1>4 DEF Login, Unforced
  <2>3. \A d \in Conns \ {c} : /\ seen'[d] = seen[d]
                               /\ d \in connections' <=> d \in connections
                               /\ d \in services_subed' <=> d \in services_subed
    BY <1>4 DEF Login, try_sub_monitor_services, try_sub_camera_displays, add_connection,
       add_camera_connection
  <2>4. ASSUME Kind[c] = "remote"
        PROVE  Within(c, seen'[c], perm'[c], opt'[c], connections', forced',
                      multi_ui_session, refocused)
    <3>1. "follow_remote_window" \notin o.no /\ perm' = perm
      BY <1>4, <2>4 DEF Login, AtLogin, NoOptions
    <3>2. c \notin multi_ui_session /\ c \notin services_subed
      BY <2>2, <2>4
    <3>3. Within(c, after_options(c, o), perm[c], new_options(c, o), connections, forced',
                 multi_ui_session, refocused)
      <4>1. Within(c, seen[c], perm[c], opt[c], connections, forced, multi_ui_session, refocused)
        BY <2>2, <2>4
      <4> HIDE DEF FollowsInv
      <4>2. c \in refocused <=> IF "follow_remote_window" \in o.yes /\ c \in multi_ui_session
                                THEN TRUE
                                ELSE IF "follow_remote_window" \in o.no THEN FALSE
                                ELSE c \in refocused
        BY <3>1, <3>2
      <4>3. QED
        BY <2>1, <2>2, <2>4, <4>1, <4>2, WithinOptions
    <3>4. CASE ok /\ ~wait
      <4>1. try_sub_monitor_services(c, after_options(c, o), perm[c], new_options(c, o))
        BY <1>4, <2>4, <3>4 DEF Login
      <4>2. /\ seen'[c] = monitor_services(after_options(c, o), perm[c], new_options(c, o))
            /\ c \in connections'
        BY <3>2, <4>1 DEF try_sub_monitor_services, add_connection
      <4>3. Within(c, seen'[c], perm[c], new_options(c, o), connections', forced',
                   multi_ui_session, refocused)
        BY <2>2, <3>2, <3>3, <4>2, WithinMonitor
      <4>4. QED
        BY <2>2, <3>1, <4>2, <4>3
    <3>5. CASE ~(ok /\ ~wait)
      <4>1. seen'[c] = after_options(c, o) /\ UNCHANGED <<services_subed, connections>>
        BY <1>4, <2>4, <3>5 DEF Login
      <4>2. QED
        BY <2>2, <3>1, <3>3, <4>1 DEF Within
    <3>6. QED
      BY <3>4, <3>5
  <2>5. QED
    <3>1. ASSUME NEW d \in Conns \ {c}, conn'[d] \in {"new", "open"}, Kind[d] = "remote"
          PROVE  /\ Within(d, seen[d], perm[d], opt[d], connections, forced, multi_ui_session,
                           refocused)
                 /\ d \notin authorized => d \notin services_subed /\ d \notin multi_ui_session
      BY <2>2, <3>1
    <3>2. QED
      BY <2>2, <2>3, <2>4, <3>1 DEF Within
<1>5. ASSUME NEW c \in Conns, SelectSid(c) PROVE FollowsInv'
  <2>1. /\ conn[c] = "open" /\ conn' = conn /\ c \in authorized
        /\ UNCHANGED <<authorized, multi_ui_session, perm, opt, forced>>
        /\ refocused' = IF Subscribes(c) THEN refocused \cup ({c} \cap multi_ui_session)
                        ELSE refocused
    BY <1>5 DEF SelectSid
  <2>2. \A d \in Conns \ {c} : /\ seen'[d] = seen[d]
                               /\ d \in connections' <=> d \in connections
                               /\ d \in services_subed' <=> d \in services_subed
                               /\ d \in refocused' <=> d \in refocused
    BY <1>5, <2>1 DEF SelectSid, try_sub_monitor_services, try_sub_camera_displays,
       add_connection, add_camera_connection
  <2>3. ASSUME Kind[c] = "remote"
        PROVE  Within(c, seen'[c], perm[c], opt[c], connections', forced, multi_ui_session,
                      refocused')
    <3>1. try_sub_monitor_services(c, seen[c], perm[c], opt[c])
      BY <1>5, <2>3 DEF SelectSid
    <3>2. Within(c, seen[c], perm[c], opt[c], connections, forced, multi_ui_session, refocused)
      BY <2>1, <2>3
    <3>3. CASE c \in services_subed
      <4>1. seen'[c] = seen[c] /\ connections' = connections /\ refocused' = refocused
        BY <2>1, <3>1, <3>3 DEF try_sub_monitor_services, Subscribes
      <4>2. QED
        BY <3>2, <4>1
    <3>4. CASE c \notin services_subed
      <4>1. seen'[c] = monitor_services(seen[c], perm[c], opt[c])
        BY <3>1, <3>4 DEF try_sub_monitor_services
      <4>2. c \in multi_ui_session => c \in refocused'
        BY <2>1, <2>3, <3>4 DEF Subscribes
      <4>3. QED
        BY <3>2, <4>1, <4>2, WithinMonitor
    <3>5. QED
      BY <3>3, <3>4
  <2>4. QED
    BY <2>1, <2>2, <2>3 DEF Within
<1>6. ASSUME NEW c \in Conns, NEW o \in Messages[c], UpdateOptions(c, o) PROVE
   FollowsInv'
  <2>1. o \in OptionMessages /\ o.yes \cap o.no = {}
    BY MessageType
  <2>2. \A d \in Conns \ {c} : /\ seen'[d] = seen[d] /\ opt'[d] = opt[d]
                               /\ d \in forced' <=> d \in forced
                               /\ d \in refocused' <=> d \in refocused
    BY <1>6 DEF UpdateOptions, Unforced
  <2>3. /\ UNCHANGED <<conn, connections, authorized, perm, services_subed, multi_ui_session>>
        /\ conn[c] = "open"
    BY <1>6 DEF UpdateOptions
  <2>4. ASSUME Kind[c] = "remote"
        PROVE  Within(c, seen'[c], perm[c], opt'[c], connections, forced', multi_ui_session,
                      refocused')
    <3>2. c \in forced' <=> c \in forced
              /\ (o.yes \cup o.no) \cap {"show_remote_cursor", "disable_keyboard"} = {}
      BY <1>6 DEF UpdateOptions, Unforced
    <3>3. c \in refocused' <=> IF "follow_remote_window" \in o.yes /\ c \in multi_ui_session THEN TRUE
              ELSE IF "follow_remote_window" \in o.no THEN FALSE ELSE c \in refocused
      BY <1>6 DEF UpdateOptions
    <3>4. seen'[c] = after_options(c, o) /\ opt'[c] = new_options(c, o)
      BY <1>6 DEF UpdateOptions
    <3>5. Within(c, seen[c], perm[c], opt[c], connections, forced, multi_ui_session, refocused)
      BY <2>3, <2>4
    <3> HIDE DEF FollowsInv
    <3>6. QED
      BY <2>1, <2>4, <3>2, <3>3, <3>4, <3>5, WithinOptions
  <2>5. QED
    BY <2>2, <2>3, <2>4 DEF Within
<1>7. ASSUME NEW c \in Conns, NEW name \in Switches[c], NEW on \in BOOLEAN,
   SwitchPermission(c, name, on) PROVE FollowsInv'
  <2> DEFINE p == IF name = "camera" THEN perm[c]
                 ELSE IF on THEN perm[c] \cup {name} ELSE perm[c] \ {name}
  <2>1. /\ \A d \in Conns \ {c} : /\ seen'[d] = seen[d] /\ perm'[d] = perm[d]
                                  /\ d \in forced' <=> d \in forced
        /\ UNCHANGED <<conn, connections, authorized, opt, services_subed, multi_ui_session,
                        refocused>>
        /\ conn[c] = "open" /\ perm'[c] = p /\ seen'[c] = switched(c, name, on, p)
        /\ c \in forced' <=> IF name # "keyboard" THEN c \in forced
                             ELSE on /\ ~wants_cursor(p, opt[c])
    BY <1>7 DEF SwitchPermission
  <2>2. c \notin authorized => c \notin connections /\ "audio" \notin seen[c]
    BY <2>1 DEF AccessInv, Stage, EarlyServices
  <2> HIDE DEF p
  <2>3. ASSUME Kind[c] = "remote"
        PROVE  Within(c, seen'[c], perm'[c], opt[c], connections, forced', multi_ui_session,
                      refocused)
    <3>1. Within(c, seen[c], perm[c], opt[c], connections, forced, multi_ui_session, refocused)
      BY <2>1, <2>3
    <3>2. name \in Permissions
      OBVIOUS
    <3> HIDE DEF FollowsInv
    <3>3. QED
      BY <2>1, <2>2, <2>3, <3>1, <3>2, WithinSwitch DEF p
  <2>4. QED
    BY <2>1, <2>3 DEF Within
<1>8. ASSUME NEW c \in Conns, NEW D \in SUBSET Sources(c), AddDisplays(c, D) PROVE
   FollowsInv'
  <2>1. /\ Captured(c, (seen[c] \cup D)) /\ c \in authorized /\ conn[c] = "open"
        /\ UNCHANGED <<conn, connections, authorized, perm, opt, forced, services_subed>>
    BY <1>8 DEF AddDisplays
  <2>2. /\ \A n \in Plain : n \in (seen[c] \cup D) <=> n \in seen[c]
        /\ \A d \in Conns \ {c} : /\ seen'[d] = seen[d]
                                  /\ d \in multi_ui_session' <=> d \in multi_ui_session
                                  /\ d \in refocused' <=> d \in refocused
    BY <2>1 DEF Captured, Sources, Named, Videos, Plain
  <2>3. ASSUME Kind[c] = "remote"
        PROVE  Within(c, seen'[c], perm[c], opt[c], connections, forced, multi_ui_session',
                      refocused')
    <3>1. Within(c, seen[c], perm[c], opt[c], connections, forced, multi_ui_session, refocused)
      BY <2>1, <2>3
    <3> HIDE DEF FollowsInv
    <3>2. QED
      BY <2>1, <2>2, <3>1, WithinCaptured
  <2>4. QED
    BY <2>1, <2>2, <2>3 DEF Within
<1>9. ASSUME NEW c \in Conns, NEW D \in SUBSET Sources(c), KeepDisplays(c, D) PROVE
   FollowsInv'
  <2>1. /\ Captured(c, (seen[c] \ (Videos \ D))) /\ c \in authorized /\ conn[c] = "open"
        /\ UNCHANGED <<conn, connections, authorized, perm, opt, forced, services_subed>>
    BY <1>9 DEF KeepDisplays
  <2>2. /\ \A n \in Plain : n \in (seen[c] \ (Videos \ D)) <=> n \in seen[c]
        /\ \A d \in Conns \ {c} : /\ seen'[d] = seen[d]
                                  /\ d \in multi_ui_session' <=> d \in multi_ui_session
                                  /\ d \in refocused' <=> d \in refocused
    BY <2>1 DEF Captured, Sources, Named, Videos, Plain
  <2>3. ASSUME Kind[c] = "remote"
        PROVE  Within(c, seen'[c], perm[c], opt[c], connections, forced, multi_ui_session',
                      refocused')
    <3>1. Within(c, seen[c], perm[c], opt[c], connections, forced, multi_ui_session, refocused)
      BY <2>1, <2>3
    <3> HIDE DEF FollowsInv
    <3>2. QED
      BY <2>1, <2>2, <3>1, WithinCaptured
  <2>4. QED
    BY <2>1, <2>2, <2>3 DEF Within
<1>10. ASSUME NEW c \in Conns, NEW D \in SUBSET Sources(c), SetDisplays(c, D) PROVE
   FollowsInv'
  <2>1. /\ Captured(c, ((seen[c] \ Videos) \cup D)) /\ c \in authorized /\ conn[c] = "open"
        /\ UNCHANGED <<conn, connections, authorized, perm, opt, forced, services_subed>>
    BY <1>10 DEF SetDisplays
  <2>2. /\ \A n \in Plain : n \in ((seen[c] \ Videos) \cup D) <=> n \in seen[c]
        /\ \A d \in Conns \ {c} : /\ seen'[d] = seen[d]
                                  /\ d \in multi_ui_session' <=> d \in multi_ui_session
                                  /\ d \in refocused' <=> d \in refocused
    BY <2>1 DEF Captured, Sources, Named, Videos, Plain
  <2>3. ASSUME Kind[c] = "remote"
        PROVE  Within(c, seen'[c], perm[c], opt[c], connections, forced, multi_ui_session',
                      refocused')
    <3>1. Within(c, seen[c], perm[c], opt[c], connections, forced, multi_ui_session, refocused)
      BY <2>1, <2>3
    <3> HIDE DEF FollowsInv
    <3>2. QED
      BY <2>1, <2>2, <3>1, WithinCaptured
  <2>4. QED
    BY <2>1, <2>2, <2>3 DEF Within
<1>11. ASSUME NEW c \in Conns, NEW d \in Displays, SwitchDisplay(c, d) PROVE FollowsInv'
  <2>1. /\ UNCHANGED <<conn, connections, authorized, perm, opt, forced, services_subed,
                         multi_ui_session, refocused>>
        /\ \A d2 \in Conns \ {c} : seen'[d2] = seen[d2]
    BY <1>11 DEF SwitchDisplay
  <2>2. \A n \in Plain : n \in seen'[c] <=> n \in seen[c]
    BY <1>11 DEF SwitchDisplay, Named, Plain
  <2>3. QED
    BY <2>1, <2>2 DEF Within, Plain
<1>12. ASSUME NEW c \in Conns, VoiceCallRequest(c) PROVE FollowsInv'
  BY <1>12 DEF VoiceCallRequest, Answered, Open
<1>13. ASSUME NEW c \in Conns, NEW accepted \in BOOLEAN, VoiceCallResponse(c,
   accepted) PROVE FollowsInv'
  <2>1. /\ UNCHANGED <<conn, connections, authorized, perm, opt, forced, services_subed,
                         multi_ui_session, refocused>>
        /\ \A d \in Conns : Kind[d] = "remote" => seen'[d] = seen[d]
    BY <1>13 DEF VoiceCallResponse, is_authed_view_camera_conn
  <2>2. QED
    BY <2>1
<1>14. ASSUME NEW c \in Conns, CloseVoiceCall(c) PROVE FollowsInv'
  <2>1. /\ UNCHANGED <<conn, connections, authorized, perm, opt, forced, services_subed,
                         multi_ui_session, refocused>>
        /\ \A d \in Conns : Kind[d] = "remote" => seen'[d] = seen[d]
    BY <1>14 DEF CloseVoiceCall, is_authed_view_camera_conn
  <2>2. QED
    BY <2>1
<1>15. ASSUME NEW c \in Conns, Disconnect(c) PROVE FollowsInv'
  BY <1>15 DEF Disconnect, Open, Goes, on_close, ResetDevice
<1>16. ASSUME NEW c \in Conns, Leave(c) PROVE FollowsInv'
  BY <1>16 DEF Leave, Open, Goes
<1>17. ASSUME NEW c \in Conns, RemoveConnection(c) PROVE FollowsInv'
  <2>1. \A d \in Conns : conn'[d] \in {"new", "open"} =>
            /\ conn'[d] = conn[d] /\ seen'[d] = seen[d]
            /\ d \in connections' <=> d \in connections
    BY <1>17 DEF RemoveConnection
  <2>2. UNCHANGED <<authorized, perm, opt, forced, services_subed, multi_ui_session, refocused>>
    BY <1>17 DEF RemoveConnection
  <2>3. QED
    BY <2>1, <2>2 DEF Within
<1>18. ASSUME NEW c \in Conns, Finish(c) PROVE FollowsInv'
  BY <1>18 DEF Finish, on_close, ResetDevice
<1>19. ASSUME ChooseDevice PROVE FollowsInv'
  BY <1>19 DEF ChooseDevice
<1>20. ASSUME SetDevice PROVE FollowsInv'
  BY <1>20 DEF SetDevice
<1>21. ASSUME RecorderStops PROVE FollowsInv'
  BY <1>21 DEF RecorderStops
<1>22. ASSUME UNCHANGED vars PROVE FollowsInv'
  BY <1>22 DEF vars
<1>23. QED
  BY <1>1, <1>2, <1>3, <1>4, <1>5, <1>6, <1>7, <1>8, <1>9, <1>10, <1>11, <1>12, <1>13,
     <1>14, <1>15, <1>16, <1>17, <1>18, <1>19, <1>20, <1>21, <1>22 DEF Next, Step

LEMMA FollowsInit == Init => FollowsInv
<1> SUFFICES ASSUME Init PROVE FollowsInv
  OBVIOUS
<1>2. \A c \in Conns : /\ seen[c] = {} /\ perm[c] = {} /\ opt[c] = {}
                       /\ c \notin connections /\ c \notin forced /\ c \notin services_subed
                       /\ c \notin multi_ui_session /\ c \notin refocused
  BY DEF Init
<1>3. QED
  BY <1>2 DEF FollowsInv, Within

\* A desktop connection sees what its permissions and options say, in whatever
\* order they came: connection.rs:597-682, 1726-1759, 3372-3487, 3742-3890.
THEOREM FollowsTheorem == Spec => []Follows
<1> DEFINE IInv == TypeOK /\ AccessInv /\ OpenInv /\ FollowsInv
<1>1. Init => IInv
  BY InitType, AccessInit, FollowsInit
<1>2. IInv /\ [Next]_vars => IInv'
  BY TypeStep, AccessStep, OpenStep, FollowsStep
<1>3. IInv => Follows
  BY DEF FollowsInv, Follows, Desktop, Open, Within
<1> HIDE DEF IInv
<1>4. QED
  BY <1>1, <1>2, <1>3, PTL DEF Spec


-----------------------------------------------------------------------------
(* What a camera connection hears.                                           *)

HearInv == CameraHears /\ requested \cup voice_calling \subseteq authorized

LEMMA HearStep ==
  ASSUME TypeOK, AccessInv, OpenInv, HearInv, [Next]_vars
  PROVE  HearInv'
<1> USE ConnectionsAssumption DEF taskVars, rightVars, loginVars, viewVars, registryVars,
          callVars, deviceVars, Open, Answered, is_authed_view_camera_conn,
          TypeOK, TaskTypes, ViewTypes, CallTypes, HearInv, CameraHears
<1>1. ASSUME NEW c \in Conns, NEW p \in Grants, Start(c, p) PROVE HearInv'
  <2>1. c \notin authorized
    BY <1>1 DEF Start, OpenInv
  <2>2. QED
    BY <1>1, <2>1 DEF Start
<1>2. ASSUME NEW c \in Conns, Refuse(c) PROVE HearInv'
  BY <1>2 DEF Refuse
<1>3. ASSUME NEW c \in Conns, LoginAsks(c) PROVE HearInv'
  BY <1>3 DEF LoginAsks, Open
<1>4. ASSUME NEW c \in Conns, NEW o \in AtLogin(c), NEW wait \in BOOLEAN, NEW ok \in
   BOOLEAN, Login(c, o, wait, ok) PROVE HearInv'
  <2>1. /\ conn[c] = "open" /\ c \notin authorized /\ authorized' = authorized \cup {c}
        /\ UNCHANGED <<conn, voice_calling, requested>>
        /\ \A d \in Conns \ {c} : opt'[d] = opt[d] /\ perm'[d] = perm[d]
    BY <1>4 DEF Login
  <2>2. \A d \in Conns \ {c} : seen'[d] = seen[d]
    BY <1>4 DEF Login, try_sub_monitor_services, try_sub_camera_displays
  <2>3. "audio" \notin seen[c]
    BY <2>1 DEF AccessInv, Stage, EarlyServices
  <2>4. ASSUME Kind[c] = "camera" PROVE "audio" \notin seen'[c]
    <3>1. "audio" \notin after_options(c, o)
      BY <2>1, <2>3, <2>4 DEF after_options, touched, noperms, Plain
    <3>2. seen'[c] \subseteq after_options(c, o) \cup {"camera"}
      BY <1>4, <2>4 DEF Login, try_sub_camera_displays
    <3>3. QED
      BY <3>1, <3>2
  <2>5. QED
    BY <2>1, <2>2, <2>4
<1>5. ASSUME NEW c \in Conns, SelectSid(c) PROVE HearInv'
  <2>1. /\ UNCHANGED <<conn, voice_calling, requested, authorized, opt, perm>>
        /\ \A d \in Conns \ {c} : seen'[d] = seen[d]
    BY <1>5 DEF SelectSid, try_sub_monitor_services, try_sub_camera_displays
  <2>2. Kind[c] = "camera" => seen'[c] = seen[c] \cup {"camera"}
    BY <1>5 DEF SelectSid, try_sub_camera_displays
  <2>3. QED
    BY <2>1, <2>2
<1>6. ASSUME NEW c \in Conns, NEW o \in Messages[c], UpdateOptions(c, o) PROVE HearInv'
  <2>1. /\ UNCHANGED <<conn, authorized, perm, voice_calling, requested>> /\ c \in authorized
        /\ \A d \in Conns \ {c} : seen'[d] = seen[d] /\ opt'[d] = opt[d]
        /\ seen'[c] = after_options(c, o) /\ opt'[c] = new_options(c, o)
    BY <1>6 DEF UpdateOptions
  <2>2. Kind[c] = "camera" =>
            ("audio" \in after_options(c, o) <=>
             IF "disable_audio" \in o.yes \cup o.no
                /\ (c \in voice_calling \/ ~audio_enabled(perm[c], new_options(c, o)))
             THEN audio_enabled(perm[c], new_options(c, o)) ELSE "audio" \in seen[c])
    BY DEF after_options, touched, noperms, Plain
  <2>3. "disable_audio" \notin o.yes \cup o.no =>
            (audio_enabled(perm[c], new_options(c, o)) <=> audio_enabled(perm[c], opt[c]))
    BY DEF audio_enabled, new_options
  <2>4. QED
    BY <1>6, <2>1, <2>2, <2>3 DEF UpdateOptions
<1>7. ASSUME NEW c \in Conns, NEW name \in Switches[c], NEW on \in BOOLEAN,
   SwitchPermission(c, name, on) PROVE HearInv'
  <2> DEFINE p == IF name = "camera" THEN perm[c]
                 ELSE IF on THEN perm[c] \cup {name} ELSE perm[c] \ {name}
  <2>1. /\ UNCHANGED <<conn, authorized, opt, voice_calling, requested>> /\ conn[c] = "open"
        /\ \A d \in Conns \ {c} : seen'[d] = seen[d] /\ perm'[d] = perm[d]
        /\ seen'[c] = switched(c, name, on, p) /\ perm'[c] = p
    BY <1>7 DEF SwitchPermission
  <2>2. Kind[c] = "camera" /\ c \in authorized =>
            ("audio" \in switched(c, name, on, p) <=>
             IF name = "audio" /\ (c \in voice_calling \/ ~audio_enabled(p, opt[c]))
             THEN audio_enabled(p, opt[c]) ELSE "audio" \in seen[c])
    BY DEF switched, noperms, Plain, Permissions
  <2>3. name # "audio" => (audio_enabled(p, opt[c]) <=> audio_enabled(perm[c], opt[c]))
    BY DEF audio_enabled
  <2> HIDE DEF p
  <2>4. QED
    BY <2>1, <2>2, <2>3
<1>8. ASSUME NEW c \in Conns, NEW D \in SUBSET Sources(c), AddDisplays(c, D) PROVE
   HearInv'
  <2>1. /\ UNCHANGED <<conn, voice_calling, requested, authorized, opt, perm>>
        /\ \A d \in Conns \ {c} : seen'[d] = seen[d]
    BY <1>8 DEF AddDisplays, Captured
  <2>2. "audio" \in seen'[c] <=> "audio" \in seen[c]
    BY <1>8 DEF AddDisplays, Captured, Sources, Named, Videos, Plain
  <2>3. QED
    BY <2>1, <2>2
<1>9. ASSUME NEW c \in Conns, NEW D \in SUBSET Sources(c), KeepDisplays(c, D) PROVE
   HearInv'
  <2>1. /\ UNCHANGED <<conn, voice_calling, requested, authorized, opt, perm>>
        /\ \A d \in Conns \ {c} : seen'[d] = seen[d]
    BY <1>9 DEF KeepDisplays, Captured
  <2>2. "audio" \in seen'[c] <=> "audio" \in seen[c]
    BY <1>9 DEF KeepDisplays, Captured, Sources, Named, Videos, Plain
  <2>3. QED
    BY <2>1, <2>2
<1>10. ASSUME NEW c \in Conns, NEW D \in SUBSET Sources(c), SetDisplays(c, D) PROVE
   HearInv'
  <2>1. /\ UNCHANGED <<conn, voice_calling, requested, authorized, opt, perm>>
        /\ \A d \in Conns \ {c} : seen'[d] = seen[d]
    BY <1>10 DEF SetDisplays, Captured
  <2>2. "audio" \in seen'[c] <=> "audio" \in seen[c]
    BY <1>10 DEF SetDisplays, Captured, Sources, Named, Videos, Plain
  <2>3. QED
    BY <2>1, <2>2
<1>11. ASSUME NEW c \in Conns, NEW d \in Displays, SwitchDisplay(c, d) PROVE HearInv'
  <2>1. UNCHANGED <<conn, voice_calling, requested, authorized, opt, perm>>
    BY <1>11 DEF SwitchDisplay
  <2>2. \A e \in Conns : "audio" \in seen'[e] <=> "audio" \in seen[e]
    BY <1>11 DEF SwitchDisplay, Named, Plain
  <2>3. QED
    BY <2>1, <2>2
<1>12. ASSUME NEW c \in Conns, VoiceCallRequest(c) PROVE HearInv'
  BY <1>12 DEF VoiceCallRequest, Answered, Open
<1>13. ASSUME NEW c \in Conns, NEW accepted \in BOOLEAN, VoiceCallResponse(c,
   accepted) PROVE HearInv'
  BY <1>13 DEF VoiceCallResponse, Open
<1>14. ASSUME NEW c \in Conns, CloseVoiceCall(c) PROVE HearInv'
  BY <1>14 DEF CloseVoiceCall, Open, ResetDevice
<1>15. ASSUME NEW c \in Conns, Disconnect(c) PROVE HearInv'
  BY <1>15 DEF Disconnect, Open, Goes, on_close, ResetDevice
<1>16. ASSUME NEW c \in Conns, Leave(c) PROVE HearInv'
  BY <1>16 DEF Leave, Open, Goes
<1>17. ASSUME NEW c \in Conns, RemoveConnection(c) PROVE HearInv'
  BY <1>17 DEF RemoveConnection, StopRecorder
<1>18. ASSUME NEW c \in Conns, Finish(c) PROVE HearInv'
  BY <1>18 DEF Finish, on_close, ResetDevice
<1>19. ASSUME ChooseDevice PROVE HearInv'
  BY <1>19 DEF ChooseDevice
<1>20. ASSUME SetDevice PROVE HearInv'
  BY <1>20 DEF SetDevice
<1>21. ASSUME RecorderStops PROVE HearInv'
  BY <1>21 DEF RecorderStops
<1>22. ASSUME UNCHANGED vars PROVE HearInv'
  BY <1>22 DEF vars
<1>23. QED
  BY <1>1, <1>2, <1>3, <1>4, <1>5, <1>6, <1>7, <1>8, <1>9, <1>10, <1>11, <1>12, <1>13,
     <1>14, <1>15, <1>16, <1>17, <1>18, <1>19, <1>20, <1>21, <1>22 DEF Next, Step

LEMMA HearInit == Init => HearInv
BY DEF Init, HearInv, CameraHears, is_authed_view_camera_conn, Open

\* A camera connection hears sound exactly during its calls: connection.rs:628-641,
\* 3601-3643, 3816-3832.
THEOREM CameraTheorem == Spec => []CameraHears
<1> DEFINE IInv == TypeOK /\ AccessInv /\ OpenInv /\ HearInv
<1>1. Init => IInv
  BY InitType, AccessInit, HearInit
<1>2. IInv /\ [Next]_vars => IInv'
  BY TypeStep, AccessStep, OpenStep, HearStep
<1>3. IInv => CameraHears
  BY DEF HearInv
<1> HIDE DEF IInv
<1>4. QED
  BY <1>1, <1>2, <1>3, PTL DEF Spec
=============================================================================
