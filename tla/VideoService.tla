---------------------------- MODULE VideoService ----------------------------
(***************************************************************************)
(* The capture thread of one display (server/video_service.rs, started by  *)
(* ServiceTmpl::run of server/service.rs), the connections it sends frames *)
(* to, and the flow control between them: FRAME_FETCHED_NOTIFIER, one      *)
(* channel for the threads of all displays, on which a connection reports  *)
(* every frame it took from its queue, or that its peer acknowledged.      *)
(*                                                                         *)
(* Of a frame only its place in the stream of its encoder matters: a peer  *)
(* can decode a frame when it got every frame the encoder made before.     *)
(* The reasons to leave the capture loop (codec, quality, privacy mode,    *)
(* desktop, errors) are left to chance, as is whether the display changed. *)
(* Server::subscribe is one step here; CursorService splits it.            *)
(* The frames of the other displays are abstract too: with Interference    *)
(* their reports arrive on the channel and their threads take reports.     *)
(*                                                                         *)
(* A definition whose name starts with Bug_ is no part of the model: it is *)
(* the definition that follows it with a plausible mistake, kept to show   *)
(* which property finds that mistake.                                      *)
(***************************************************************************)
EXTENDS ServiceInner, Sequences

CONSTANTS AckConns,      \* connections that logged in with video_ack_required
          Askers,        \* connections whose peers ask for refreshes
          Interference,  \* another display is captured for these connections
          Churn,         \* connections may subscribe again and again
          MaxQueue,      \* bound: frames waiting in a connection
          MaxReports     \* bound: reports of one connection on the channel

ASSUME VideoAssumption == /\ IsFiniteSet(Conns)
                          /\ NeedSnapshot
                          /\ AckConns \subseteq Conns
                          /\ Askers \subseteq Conns
                          /\ Interference \in BOOLEAN
                          /\ Churn \in BOOLEAN
                          /\ MaxQueue \in Nat \ {0}
                          /\ MaxReports \in Nat \ {0}

VARIABLES worker,        \* where the capture thread is
          fresh,         \* its encoder has sent no frame yet
          refresh,       \* OPTION_REFRESH
          send_conn_ids, \* VideoFrameController: who got the current frame
          fetched,       \* fetched_conn_ids of the current wait
          reports,       \* FRAME_FETCHED_NOTIFIER: reports per connection
          conn,          \* per connection: its life
          queue,         \* per connection: tx_video, rx_video
          owing,         \* per connection: frames its peer has to acknowledge
          behind,        \* history: ids that missed a frame of the encoder
          asked          \* history: ids that asked for a refresh, not yet served

workerVars == <<worker, fresh, refresh>>
flowVars == <<send_conn_ids, fetched>>
connVars == <<conn, queue, owing>>
ghostVars == <<behind, asked>>
vars == <<innerVars, workerVars, flowVars, reports, connVars, ghostVars>>

Workers == {"top", "check", "setup", "clear", "loop", "options", "capture",
            "swap_ask", "swap_drop", "swap_drop_switch", "encode",
            "wait", "changed", "changed_snapshot", "changed_send",
            "changed_drop", "exited"}
Payloads == {"frame", "switch_display"}

Owes(c) == c \in AckConns /\ owing[c] > 0

\* What the places of the thread and of a connection mean: no frame is counted
\* as sent before it is encoded, so that a failing encoder makes no wait for the
\* frame before; a connection that is gone is subscribed to nothing.
TypeOK == /\ InnerTypeOK
          /\ subscribes \cap new_subscribes = {}
          /\ worker \in {"capture", "swap_ask", "swap_drop", "encode"} => send_conn_ids = {}
          /\ \A c \in Conns : conn[c] \in {"new", "gone"} => c \notin subscribes \cup new_subscribes
          /\ \A c \in Conns : conn[c] # "on" => queue[c] = <<>> /\ ~Owes(c)
          /\ worker \in Workers
          /\ fresh \in BOOLEAN /\ refresh \in BOOLEAN
          /\ send_conn_ids \subseteq Conns
          /\ fetched \subseteq Conns
          /\ reports \in [Conns -> 0..MaxReports]
          /\ conn \in [Conns -> {"new", "on", "closing", "gone"}]
          /\ queue \in [Conns -> Seq(Payloads)]
          /\ \A c \in Conns : Len(queue[c]) <= MaxQueue
          /\ owing \in [AckConns -> 0..MaxReports]
          /\ behind \subseteq Conns
          /\ asked \subseteq Conns

Init == /\ InnerInit
        /\ worker = "top"
        /\ fresh = FALSE /\ refresh = FALSE
        /\ send_conn_ids = {} /\ fetched = {}
        /\ reports = [c \in Conns |-> 0]
        /\ conn = [c \in Conns |-> "new"]
        /\ queue = [c \in Conns |-> <<>>]
        /\ owing = [c \in AckConns |-> 0]
        /\ behind = {} /\ asked = {}

\* Subscriber::send to the ids of S.  A closing connection reads no more.
Enqueue(S, m) ==
    queue' = [c \in Conns |-> IF c \in S /\ conn[c] = "on"
                              THEN Append(queue[c], m) ELSE queue[c]]
\* The bound MaxQueue: the thread pauses until the connections catch up.
Room(S) == \A c \in S : Len(queue[c]) < MaxQueue

\* One more, up to the bound MaxReports: later reports would repeat these.
More(n) == IF n < MaxReports THEN n + 1 ELSE n

\* notify_video_frame_fetched(c, ..)
Notify(c) == reports' = [reports EXCEPT ![c] = More(@)]

-----------------------------------------------------------------------------
(* Connections.                                                            *)

\* add_connection, or capture_displays with this display.
Subscribe(c) ==
    /\ conn[c] = "new" \/ (Churn /\ conn[c] = "on")
    /\ OnSubscribe(c)
    /\ conn' = [conn EXCEPT ![c] = "on"]
    /\ UNCHANGED <<workerVars, flowVars, reports, queue, owing, ghostVars>>

\* capture_displays without this display.
Unsubscribe(c) ==
    /\ conn[c] = "on"
    /\ OnUnsubscribe(c)
    /\ asked' = asked \ {c}
    /\ UNCHANGED <<workerVars, flowVars, reports, connVars, behind>>

Bug_TakeMessageWrongOnes(c) ==
    /\ conn[c] = "on" /\ queue[c] # <<>>
    /\ queue' = [queue EXCEPT ![c] = Tail(@)]
    /\ IF c \in AckConns THEN Notify(c) ELSE UNCHANGED reports
    /\ UNCHANGED <<innerVars, workerVars, flowVars, conn, owing, ghostVars>>

\* The rx_video branch: the report goes out before the frame does, and for
\* whatever message was in the queue.
TakeMessage(c) ==
    /\ conn[c] = "on" /\ queue[c] # <<>>
    /\ queue' = [queue EXCEPT ![c] = Tail(@)]
    /\ IF c \in AckConns THEN UNCHANGED reports ELSE Notify(c)
    /\ owing' = IF c \in AckConns /\ Head(queue[c]) = "frame"
                THEN [owing EXCEPT ![c] = More(@)] ELSE owing
    /\ UNCHANGED <<innerVars, workerVars, flowVars, conn, ghostVars>>

\* A VideoReceived message of the peer.
VideoReceived(c) ==
    /\ conn[c] = "on" /\ Owes(c)
    /\ Notify(c)
    /\ owing' = [owing EXCEPT ![c] = @ - 1]
    /\ UNCHANGED <<innerVars, workerVars, flowVars, conn, queue, ghostVars>>

\* A RefreshVideo message, or one of the other callers of
\* refresh_video_display.  A peer that asks without end gets no frame at all,
\* so one asks again only after it was served.
RefreshVideo(c) ==
    /\ c \in Askers \ asked /\ conn[c] = "on" /\ c \in subscribes \cup new_subscribes
    /\ refresh' = TRUE
    /\ asked' = asked \cup {c}
    /\ UNCHANGED <<innerVars, worker, fresh, flowVars, reports, connVars,
                   behind>>

\* The connection's loop ends, for whatever reason; its last report.
Close(c) ==
    /\ conn[c] = "on"
    /\ conn' = [conn EXCEPT ![c] = "closing"]
    /\ queue' = [queue EXCEPT ![c] = <<>>]
    /\ owing' = [d \in AckConns |-> IF d = c THEN 0 ELSE owing[d]]
    /\ Notify(c)
    /\ UNCHANGED <<innerVars, workerVars, flowVars, ghostVars>>

\* remove_connection, some time after.
RemoveConnection(c) ==
    /\ conn[c] = "closing"
    /\ conn' = [conn EXCEPT ![c] = "gone"]
    /\ OnUnsubscribe(c)
    /\ asked' = asked \ {c}
    /\ UNCHANGED <<workerVars, flowVars, reports, queue, owing, behind>>

\* Drop for Server: join of this service.
DropServer == /\ active
              /\ Deactivate
              /\ UNCHANGED <<workerVars, flowVars, reports, connVars, ghostVars>>

-----------------------------------------------------------------------------
(* Another display, captured for the same connections.                     *)

StrayReport(c) ==
    /\ Interference /\ conn[c] = "on"
    /\ Notify(c)
    /\ UNCHANGED <<innerVars, workerVars, flowVars, connVars, ghostVars>>

StolenReport(c) ==
    /\ Interference /\ reports[c] > 0
    /\ reports' = [reports EXCEPT ![c] = @ - 1]
    /\ UNCHANGED <<innerVars, workerVars, flowVars, connVars, ghostVars>>

-----------------------------------------------------------------------------
(* The capture thread: ServiceTmpl::run around run.  A step that only      *)
(* moves the thread.                                                       *)

Goto(from, to) ==
    /\ worker = from
    /\ worker' = to
    /\ UNCHANGED <<innerVars, fresh, refresh, flowVars, reports, connVars, ghostVars>>

\* run fails with "SWITCH" or an error, with or without telling the
\* subscribers that the display changed; ServiceTmpl::run pauses and retries.
Leave(from) == Goto(from, "top") \/ Goto(from, "changed")

Top == Goto("top", IF active THEN "check" ELSE "exited")
Check == Goto("check", IF HasSubscribes THEN "setup" ELSE "top")

\* get_capturer and setup_encoder succeed.
Setup == /\ worker = "setup"
         /\ worker' = "clear"
         /\ fresh' = TRUE
         /\ behind' = {}
         /\ UNCHANGED <<innerVars, refresh, flowVars, reports, connVars, asked>>
SetupFails == Leave("setup")

\* The option is dropped once the new encoder exists; the new frame
\* controller has sent nothing.
ClearRefresh == /\ worker = "clear"
                /\ worker' = "loop"
                /\ refresh' = FALSE
                /\ send_conn_ids' = {}
                /\ UNCHANGED <<innerVars, fresh, fetched, reports, connVars, ghostVars>>

Loop == Goto("loop", IF ok THEN "options" ELSE "top")

\* Refresh asked for, or any other reason to start over.
Switch == Leave("options")

Bug_NoSwitchDropsRefresh ==
    /\ worker = "options"
    /\ worker' = "capture"
    /\ refresh' = FALSE
    /\ send_conn_ids' = {}
    /\ UNCHANGED <<innerVars, fresh, fetched, reports, connVars, ghostVars>>

\* frame_controller.reset()
NoSwitch == /\ worker = "options"
            /\ ~refresh
            /\ worker' = "capture"
            /\ send_conn_ids' = {}
            /\ UNCHANGED <<innerVars, fresh, refresh, fetched, reports, connVars, ghostVars>>

CaptureFails == Leave("capture")

\* No frame yet: the wait finds that nothing was sent.
WouldBlock == Goto("capture", "loop")

\* A frame, and handle_one_frame: sp.snapshot, in three sections.
Snapshot == Goto("capture", IF SnapshotDue THEN "swap_ask" ELSE "encode")
Bug_SwapAskNobody == Goto("swap_ask", "swap_drop")

SwapAsk == Goto("swap_ask", IF subscribes # {} THEN "swap_drop_switch" ELSE "swap_drop")

\* Who takes over from nobody is not counted as behind.
SwapDrop ==
    /\ worker = "swap_drop"
    /\ SwapNewSubscribes
    /\ behind' = IF subscribes = {} THEN behind \ new_subscribes ELSE behind
    /\ worker' = "encode"
    /\ UNCHANGED <<fresh, refresh, flowVars, reports, connVars, asked>>

\* The callback failed with "SWITCH": who is new is moved over all the same.
SwapDropSwitch ==
    /\ worker = "swap_drop_switch"
    /\ SwapNewSubscribes
    /\ worker' = "top"
    /\ UNCHANGED <<fresh, refresh, flowVars, reports, connVars, ghostVars>>

\* send_video_frame, then set_send, which keeps the empty set of reset() when
\* nobody was sent to.
SendFrame ==
    /\ worker = "encode"
    /\ Room(subscribes)
    /\ Enqueue(subscribes, "frame")
    /\ send_conn_ids' = subscribes
    /\ fetched' = {}
    /\ fresh' = FALSE
    /\ behind' = (IF fresh THEN {} ELSE behind) \cup (Conns \ subscribes)
    /\ asked' = IF fresh THEN asked \ subscribes ELSE asked
    /\ worker' = "wait"
    /\ UNCHANGED <<innerVars, refresh, reports, conn, owing>>

\* The encoder fails: nothing to wait for, or too often and it is switched.
EncodeFails == /\ Room(subscribes)
               /\ Goto("encode", "loop") \/ Goto("encode", "top")

\* One report of the channel; the break when enough ids are in.
Enough(F) == Cardinality(F) >= Cardinality(send_conn_ids)

TakeReport(c) ==
    /\ worker = "wait" /\ send_conn_ids # {}
    /\ reports[c] > 0
    /\ reports' = [reports EXCEPT ![c] = @ - 1]
    /\ fetched' = fetched \cup {c}
    /\ worker' = IF Enough(fetched') THEN "loop" ELSE "wait"
    /\ UNCHANGED <<innerVars, fresh, refresh, send_conn_ids, connVars, ghostVars>>

NothingSent == send_conn_ids = {} /\ Goto("wait", "loop")

Bug_WaitForEver == FALSE /\ Goto("wait", "loop")

\* Three seconds without enough reports.  A report on the channel is taken
\* as soon as the thread runs, so it is the channel that stayed empty, or that
\* got the reports of the other display only.
WaitTimeout == /\ send_conn_ids # {}
               /\ Interference \/ \A c \in Conns : reports[c] = 0
               /\ Goto("wait", "loop")

\* check_privacy_mode_changed, which is asked between two reports too.
PrivacyModeChanged == Leave("wait")

\* try_broadcast_display_changed: send_shared, then a snapshot that sends the
\* same, then "SWITCH".
Changed ==
    /\ worker = "changed"
    /\ Room(subscribes)
    /\ Enqueue(subscribes, "switch_display")
    /\ worker' = "changed_snapshot"
    /\ UNCHANGED <<innerVars, fresh, refresh, flowVars, reports, conn, owing, ghostVars>>

ChangedSnapshot ==
    Goto("changed_snapshot", IF SnapshotDue THEN "changed_send" ELSE "top")

ChangedSend ==
    /\ worker = "changed_send"
    /\ Room(new_subscribes)
    /\ Enqueue(new_subscribes, "switch_display")
    /\ worker' = "changed_drop"
    /\ UNCHANGED <<innerVars, fresh, refresh, flowVars, reports, conn, owing, ghostVars>>

ChangedDrop ==
    /\ worker = "changed_drop"
    /\ SwapNewSubscribes
    /\ worker' = "top"
    /\ UNCHANGED <<fresh, refresh, flowVars, reports, connVars, ghostVars>>

Terminated == /\ worker = "exited"
              /\ UNCHANGED vars

Worker == \/ Top \/ Check \/ Setup \/ SetupFails \/ ClearRefresh \/ Loop
          \/ Switch \/ NoSwitch \/ CaptureFails \/ WouldBlock
          \/ Snapshot \/ SwapAsk \/ SwapDrop \/ SwapDropSwitch
          \/ SendFrame \/ EncodeFails
          \/ \E c \in Conns : TakeReport(c)
          \/ NothingSent \/ WaitTimeout \/ PrivacyModeChanged
          \/ Changed \/ ChangedSnapshot \/ ChangedSend \/ ChangedDrop

Connection(c) == \/ Subscribe(c) \/ Unsubscribe(c)
                 \/ TakeMessage(c) \/ VideoReceived(c) \/ RefreshVideo(c)
                 \/ Close(c) \/ RemoveConnection(c)
                 \/ StrayReport(c) \/ StolenReport(c)

Next == \/ \E c \in Conns : Connection(c)
        \/ DropServer
        \/ Worker
        \/ Terminated

Spec == Init /\ [][Next]_vars

\* A connection takes what is in its queue or is closed: sending a frame to a
\* peer that does not read ends after SEND_TIMEOUT_VIDEO.
Progress(c) == TakeMessage(c) \/ (queue[c] # <<>> /\ Close(c))

\* The threads run; no reason to start over and no failure of the capturer
\* or the encoder comes back for ever; a wait lasts three seconds at most,
\* whatever reports come in.  A peer may never acknowledge.
Fairness == /\ WF_vars(Worker)
            /\ WF_vars(WaitTimeout)
            /\ SF_vars(Setup) /\ SF_vars(NoSwitch)
            /\ SF_vars(Snapshot) /\ SF_vars(SendFrame)
            /\ \A c \in Conns : /\ WF_vars(Progress(c))
                                /\ WF_vars(RemoveConnection(c))

FairSpec == Spec /\ Fairness

-----------------------------------------------------------------------------
(* Properties.                                                             *)

\* A frame is only sent to an id that got every earlier frame of the same
\* encoder, since a subscriber that joins others makes the thread start over
\* (handle_one_frame).  The one exception the code has: the id came when the
\* last subscriber had just left and the loop had not noticed.
Decodable ==
    [][\A c \in Conns : SendFrame /\ c \in subscribes => c \notin behind]_vars

\* The wait of three seconds runs out only because a connection the frame was
\* sent to has not taken it, or is closed: no report of the current frame is
\* ever lost, as long as one display is captured.
NoNeedlessTimeout ==
    [][WaitTimeout => \E c \in send_conn_ids \ fetched :
                         conn[c] # "on" \/ queue[c] # <<>> \/ Owes(c)]_vars

\* video_service.rs: "break if all connections have received current frame".
AllReceived ==
    [][\A c \in send_conn_ids :
          worker = "wait" /\ worker' = "loop" /\ Enough(fetched') /\ conn[c] = "on"
          => "frame" \notin {queue'[c][i] : i \in DOMAIN queue'[c]}]_vars

\* A peer that asked for a refresh and stays subscribed gets the first frame of
\* an encoder made for it: the request is not dropped with an older one.
RefreshIsServed == \A c \in Conns : c \in asked ~> (c \notin asked \/ ~active)

\* Peers that do not read, do not acknowledge, or are gone, delay the others by
\* timeouts only: a subscriber that stays goes on getting frames, a new one
\* too.  Connections that change displays for ever would stop the frames of
\* all, since each new subscription starts the thread over: not with Churn.
FramesKeepComing ==
    \A c \in Conns : <>[](active /\ c \in subscribes \cup new_subscribes)
                      => []<><<SendFrame /\ c \in subscribes>>_vars
=============================================================================
