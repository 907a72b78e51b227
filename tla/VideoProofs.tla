---------------------------- MODULE VideoProofs ----------------------------
(* What holds of VideoService for any connections and any bounds, and of   *)
(* VideoQoS, which sets the rate of its loop, for any users, displays,     *)
(* delays and requests.                                                    *)
EXTENDS VideoService, VideoQoS, FiniteSetTheorems, WellFoundedInduction, TLAPS

-----------------------------------------------------------------------------
(* VideoService.                                                           *)

LEMMA TypeInit == Init => TypeOK
<1> SUFFICES ASSUME Init
             PROVE  TypeOK
  OBVIOUS
<1>1. /\ queue \in [Conns -> Seq(Payloads)]
      /\ \A c \in Conns : Len(queue[c]) <= MaxQueue
  BY VideoAssumption DEF Init
<1>2. \A c \in Conns : conn[c] = "new" /\ queue[c] = <<>> /\ ~Owes(c)
  BY DEF Init, Owes
<1>3. /\ reports \in [Conns -> 0..MaxReports]
      /\ owing \in [AckConns -> 0..MaxReports]
      /\ conn \in [Conns -> {"new", "on", "closing", "gone"}]
  BY VideoAssumption DEF Init
<1> QED
  BY <1>1, <1>2, <1>3 DEF Init, InnerInit, TypeOK, InnerTypeOK, Workers

\* What the queues are after the sending of a message to the ids of S, all of
\* which had room.
LEMMA EnqueueType ==
    ASSUME TypeOK, NEW S \in SUBSET Conns, NEW m \in Payloads, Room(S), Enqueue(S, m)
    PROVE  /\ queue' \in [Conns -> Seq(Payloads)]
           /\ \A c \in Conns : Len(queue'[c]) <= MaxQueue
           /\ \A c \in Conns : conn[c] # "on" => queue'[c] = queue[c]
           /\ \A c \in Conns : queue'[c] = queue[c] \/ queue'[c] = Append(queue[c], m)
<1> USE VideoAssumption DEF TypeOK
<1>1. \A c \in Conns : /\ queue[c] \in Seq(Payloads)
                       /\ Append(queue[c], m) \in Seq(Payloads)
                       /\ Len(Append(queue[c], m)) = Len(queue[c]) + 1
  OBVIOUS
<1>2. \A c \in S : Len(queue[c]) + 1 <= MaxQueue
  BY DEF Room
<1> QED
  BY <1>1, <1>2 DEF Enqueue

LEMMA MoreType == \A n \in 0..MaxReports : More(n) \in 1..MaxReports
BY VideoAssumption DEF More

\* One step of a connection keeps the types.
LEMMA TypeConnection ==
    ASSUME TypeOK, NEW c \in Conns, Connection(c)
    PROVE  TypeOK'
<1> USE VideoAssumption
    DEF TypeOK, InnerTypeOK, Owes, innerVars, workerVars, flowVars, connVars, ghostVars
<1>0. Notify(c) => reports' \in [Conns -> 0..MaxReports]
  <2>1. More(reports[c]) \in 0..MaxReports
    BY MoreType
  <2> QED
    BY <2>1 DEF Notify
<1>1. CASE Subscribe(c)
  BY <1>1 DEF Subscribe, OnSubscribe
<1>2. CASE Unsubscribe(c)
  BY <1>2 DEF Unsubscribe, OnUnsubscribe
<1>3. CASE TakeMessage(c)
  <2>1. /\ Tail(queue[c]) \in Seq(Payloads)
        /\ Len(Tail(queue[c])) <= MaxQueue
    BY <1>3 DEF TakeMessage
  <2>2. owing' \in [AckConns -> 0..MaxReports]
    <3>1. c \in AckConns => More(owing[c]) \in 0..MaxReports
      BY MoreType
    <3> QED
      BY <1>3, <3>1 DEF TakeMessage
  <2>3. /\ queue' \in [Conns -> Seq(Payloads)]
        /\ \A d \in Conns : Len(queue'[d]) <= MaxQueue
        /\ \A d \in Conns : conn[d] # "on" => queue'[d] = queue[d] /\ Owes(d)' = Owes(d)
    BY <1>3, <2>1 DEF TakeMessage
  <2> QED
    <3>1. /\ reports' \in [Conns -> 0..MaxReports]
          /\ UNCHANGED <<subscribes, new_subscribes, active, worker, fresh, refresh,
                         send_conn_ids, fetched, conn, behind, asked>>
      BY <1>0, <1>3 DEF TakeMessage
    <3> QED
      BY <2>2, <2>3, <3>1
<1>4. CASE VideoReceived(c)
  BY <1>0, <1>4 DEF VideoReceived
<1>5. CASE RefreshVideo(c)
  BY <1>5 DEF RefreshVideo
<1>6. CASE Close(c)
  BY <1>0, <1>6 DEF Close
<1>7. CASE RemoveConnection(c)
  BY <1>7 DEF RemoveConnection, OnUnsubscribe
<1>8. CASE StrayReport(c)
  BY <1>0, <1>8 DEF StrayReport
<1>9. CASE StolenReport(c)
  BY <1>9 DEF StolenReport
<1> HIDE DEF TypeOK
<1> QED
  BY <1>1, <1>2, <1>3, <1>4, <1>5, <1>6, <1>7, <1>8, <1>9 DEF Connection

\* One step of the capture thread keeps the types.
LEMMA TypeWorker ==
    ASSUME TypeOK, Worker
    PROVE  TypeOK'
<1> USE VideoAssumption
    DEF TypeOK, InnerTypeOK, Workers, Payloads, Owes, innerVars, workerVars,
        flowVars, connVars, ghostVars
<1>1. CASE \/ Top \/ Check \/ SetupFails \/ Loop \/ Switch \/ CaptureFails
           \/ WouldBlock \/ Snapshot \/ SwapAsk \/ EncodeFails \/ NothingSent
           \/ WaitTimeout \/ PrivacyModeChanged \/ ChangedSnapshot
  BY <1>1 DEF Top, Check, SetupFails, Loop, Switch, CaptureFails, WouldBlock,
              Snapshot, SwapAsk, EncodeFails, NothingSent, WaitTimeout,
              PrivacyModeChanged, ChangedSnapshot, Leave, Goto
<1>2. CASE Setup \/ ClearRefresh \/ NoSwitch
  BY <1>2 DEF Setup, ClearRefresh, NoSwitch
<1>3. CASE SwapDrop \/ SwapDropSwitch \/ ChangedDrop
  BY <1>3 DEF SwapDrop, SwapDropSwitch, ChangedDrop, SwapNewSubscribes
<1>4. CASE SendFrame
  BY <1>4, EnqueueType DEF SendFrame
<1>5. CASE Changed \/ ChangedSend
  BY <1>5, EnqueueType DEF Changed, ChangedSend
<1>6. ASSUME NEW c \in Conns, TakeReport(c)
      PROVE  TypeOK'
  BY <1>6 DEF TakeReport
<1> QED
  BY <1>1, <1>2, <1>3, <1>4, <1>5, <1>6 DEF Worker

LEMMA TypeStep == TypeOK /\ [Next]_vars => TypeOK'
<1> SUFFICES ASSUME TypeOK, [Next]_vars
             PROVE  TypeOK'
  OBVIOUS
<1>1. CASE DropServer
  BY <1>1 DEF DropServer, Deactivate, TypeOK, InnerTypeOK, Owes, workerVars,
              flowVars, connVars, ghostVars
<1>2. CASE UNCHANGED vars
  BY <1>2 DEF vars, TypeOK, InnerTypeOK, Owes, innerVars, workerVars, flowVars,
              connVars, ghostVars
<1> QED
  BY <1>1, <1>2, TypeConnection, TypeWorker DEF Next, Terminated

\* The types, and what the places of the thread and of a connection mean.
THEOREM TypeCorrect == Spec => []TypeOK
BY TypeInit, TypeStep, PTL DEF Spec
-----------------------------------------------------------------------------
(* Decodable: while the loop runs, no subscriber is behind.  The callback  *)
(* asks for old subscribers in a section of its own; only the thread moves *)
(* ids into subscribes, so the answer still holds when the swap comes.     *)

Streaming == {"clear", "loop", "options", "capture", "swap_ask", "swap_drop",
              "encode", "wait"}

DecodableInv == /\ worker \in Streaming => subscribes \cap behind = {}
                /\ worker = "swap_drop" => subscribes = {}

LEMMA DecodableStep == TypeOK /\ DecodableInv /\ [Next]_vars => DecodableInv'
<1> SUFFICES ASSUME TypeOK, DecodableInv, [Next]_vars
             PROVE  DecodableInv'
  OBVIOUS
<1> USE VideoAssumption
    DEF DecodableInv, Streaming, innerVars, workerVars, flowVars, connVars, ghostVars
<1>1. ASSUME NEW c \in Conns, Connection(c)
      PROVE  DecodableInv'
  <2>1. subscribes' \subseteq subscribes /\ UNCHANGED <<worker, behind>>
    BY <1>1 DEF Connection, Subscribe, Unsubscribe, TakeMessage, VideoReceived,
                RefreshVideo, Close, RemoveConnection, StrayReport, StolenReport,
                OnSubscribe, OnUnsubscribe
  <2> QED
    BY <2>1
<1>2. CASE \/ Top \/ Check \/ SetupFails \/ Loop \/ Switch \/ CaptureFails
           \/ WouldBlock \/ Snapshot \/ SwapAsk \/ EncodeFails \/ NothingSent
           \/ WaitTimeout \/ PrivacyModeChanged \/ ChangedSnapshot
  BY <1>2 DEF Top, Check, SetupFails, Loop, Switch, CaptureFails, WouldBlock,
              Snapshot, SwapAsk, EncodeFails, NothingSent, WaitTimeout,
              PrivacyModeChanged, ChangedSnapshot, Leave, Goto
<1>3. CASE Setup \/ ClearRefresh \/ NoSwitch
  BY <1>3 DEF Setup, ClearRefresh, NoSwitch
<1>4. CASE SwapDrop
  BY <1>4 DEF SwapDrop, SwapNewSubscribes
<1>5. CASE SendFrame
  BY <1>5 DEF SendFrame
<1>6. CASE SwapDropSwitch \/ ChangedDrop \/ Changed \/ ChangedSend
  BY <1>6 DEF SwapDropSwitch, ChangedDrop, Changed, ChangedSend
<1>7. ASSUME NEW c \in Conns, TakeReport(c)
      PROVE  DecodableInv'
  BY <1>7 DEF TakeReport
<1>8. CASE DropServer \/ UNCHANGED vars
  BY <1>8 DEF DropServer, Deactivate, vars
<1> QED
  BY <1>1, <1>2, <1>3, <1>4, <1>5, <1>6, <1>7, <1>8 DEF Next, Worker, Terminated

\* No id is sent a frame of an encoder of which it missed an earlier one.
THEOREM DecodableTheorem == Spec => Decodable
<1>1. Init => DecodableInv
  BY DEF Init, DecodableInv, Streaming
<1>2. DecodableInv => \A c \in Conns : SendFrame /\ c \in subscribes => c \notin behind
  BY DEF DecodableInv, Streaming, SendFrame
<1> QED
  BY <1>1, <1>2, TypeCorrect, DecodableStep, PTL DEF Spec, Decodable

-----------------------------------------------------------------------------
(* NoNeedlessTimeout: as long as one display is captured, the current      *)
(* frame of every id that the thread still waits for is in the queue of    *)
(* the connection, with its peer, or reported on the channel.              *)

Accounted(c) == \/ conn[c] # "on"
                \/ \E i \in DOMAIN queue[c] : queue[c][i] = "frame"
                \/ Owes(c)
                \/ reports[c] > 0

WaitInv == /\ worker = "wait" => \A c \in send_conn_ids \ fetched : Accounted(c)
           /\ worker = "wait" => \A c \in send_conn_ids : conn[c] # "new"
           /\ worker = "wait" /\ send_conn_ids # {} => ~Enough(fetched)

\* An id that is accounted for stays so, whatever a connection does.
LEMMA AccountedStep ==
    ASSUME TypeOK, ~Interference, NEW c \in Conns, NEW d \in Conns,
           conn[c] # "new", Accounted(c), Connection(d)
    PROVE  Accounted(c)' /\ conn'[c] # "new"
<1> USE VideoAssumption DEF TypeOK, Accounted, Owes, connVars, ghostVars
<1>1. CASE Subscribe(d) \/ Unsubscribe(d) \/ RefreshVideo(d) \/ RemoveConnection(d)
  BY <1>1 DEF Subscribe, Unsubscribe, RefreshVideo, RemoveConnection
<1>2. CASE TakeMessage(d)
  <2>1. CASE d = c /\ c \notin AckConns
    BY <1>2, <2>1 DEF TakeMessage, Notify, More
  <2>2. CASE d = c /\ c \in AckConns /\ Head(queue[c]) = "frame"
    BY <1>2, <2>2 DEF TakeMessage, More
  <2>3. CASE d = c /\ c \in AckConns /\ Head(queue[c]) # "frame"
    <3>1. /\ queue'[c] = Tail(queue[c])
          /\ UNCHANGED <<owing, reports, conn>>
      BY <1>2, <2>3 DEF TakeMessage
    <3>2. ASSUME NEW i \in DOMAIN queue[c], queue[c][i] = "frame"
          PROVE  i - 1 \in DOMAIN Tail(queue[c]) /\ Tail(queue[c])[i - 1] = "frame"
      <4>1. i # 1 /\ i \in 1..Len(queue[c]) /\ queue[c] \in Seq(Payloads)
        BY <2>3, <3>2
      <4> QED
        BY <3>2, <4>1
    <3> QED
      BY <3>1, <3>2
  <2>4. CASE d # c
    BY <1>2, <2>4 DEF TakeMessage, Notify
  <2> QED
    BY <2>1, <2>2, <2>3, <2>4
<1>3. CASE VideoReceived(d)
  BY <1>3 DEF VideoReceived, Notify, More
<1>4. CASE Close(d)
  BY <1>4 DEF Close, Notify, More
<1>5. CASE StrayReport(d) \/ StolenReport(d)
  BY <1>5 DEF StrayReport, StolenReport
<1> QED
  BY <1>1, <1>2, <1>3, <1>4, <1>5, Connection(d) DEF Connection

LEMMA WaitStep == TypeOK /\ ~Interference /\ WaitInv /\ [Next]_vars => WaitInv'
<1> SUFFICES ASSUME TypeOK, ~Interference, WaitInv, [Next]_vars, worker' = "wait"
             PROVE  WaitInv'
  BY DEF WaitInv
<1> USE DEF WaitInv, innerVars, workerVars, flowVars, connVars, ghostVars
<1>1. ASSUME NEW d \in Conns, Connection(d)
      PROVE  WaitInv'
  <2>1. UNCHANGED <<worker, send_conn_ids, fetched>>
    BY <1>1 DEF Connection, Subscribe, Unsubscribe, TakeMessage, VideoReceived,
                RefreshVideo, Close, RemoveConnection, StrayReport, StolenReport
  <2>2. \A c \in Conns : conn[c] # "new" => conn'[c] # "new"
    BY <1>1 DEF TypeOK, Connection, Subscribe, Unsubscribe, TakeMessage, VideoReceived,
                RefreshVideo, Close, RemoveConnection, StrayReport, StolenReport
  <2>3. ASSUME NEW c \in send_conn_ids \ fetched
        PROVE  Accounted(c)'
    BY <1>1, <2>1, <2>3, AccountedStep DEF TypeOK
  <2>4. Enough(fetched)' = Enough(fetched)
    BY <2>1 DEF Enough
  <2> QED
    BY <2>1, <2>2, <2>3, <2>4 DEF TypeOK
<1>2. CASE SendFrame
  <2>1. \A c \in Conns : c \in subscribes => conn[c] # "new"
    BY DEF TypeOK
  <2>2. ASSUME NEW c \in subscribes, conn[c] = "on"
        PROVE  \E i \in DOMAIN queue'[c] : queue'[c][i] = "frame"
    <3>1. queue[c] \in Seq(Payloads) /\ queue'[c] = Append(queue[c], "frame")
      BY <1>2, <2>2 DEF SendFrame, Enqueue, TypeOK, InnerTypeOK
    <3>2. /\ Len(queue[c]) + 1 \in DOMAIN queue'[c]
          /\ queue'[c][Len(queue[c]) + 1] = "frame"
      BY <3>1
    <3> QED
      BY <3>2
  <2>3. subscribes # {} => ~Enough(fetched)'
    <3>1. IsFiniteSet(subscribes)
      BY VideoAssumption, FS_Subset DEF TypeOK, InnerTypeOK
    <3>2. subscribes # {} => Cardinality(subscribes) > 0
      BY <3>1, FS_EmptySet, FS_CardinalityType
    <3>3. Cardinality({}) = 0
      BY FS_EmptySet
    <3> QED
      BY <1>2, <3>1, <3>2, <3>3, FS_CardinalityType DEF SendFrame, Enough
  <2> QED
    BY <1>2, <2>1, <2>2, <2>3 DEF SendFrame, TypeOK, InnerTypeOK, Accounted
<1>3. ASSUME NEW d \in Conns, TakeReport(d)
      PROVE  WaitInv'
  <2>1. /\ worker = "wait" /\ ~Enough(fetched')
        /\ fetched' = fetched \cup {d}
        /\ UNCHANGED <<send_conn_ids, conn, queue, owing>>
    BY <1>3 DEF TakeReport
  <2>2. Enough(fetched)' = Enough(fetched')
    BY <2>1 DEF Enough
  <2>3. \A c \in Conns \ {d} : reports'[c] = reports[c]
    BY <1>3 DEF TakeReport, TypeOK
  <2>4. send_conn_ids \subseteq Conns
    BY DEF TypeOK
  <2> QED
    BY <2>1, <2>2, <2>3, <2>4 DEF Accounted, Owes
<1>4. CASE DropServer \/ UNCHANGED vars
  BY <1>4 DEF DropServer, Deactivate, vars, Accounted, Owes, Enough
<1>5. CASE Worker /\ ~SendFrame /\ ~\E d \in Conns : TakeReport(d)
  BY <1>5 DEF Worker, Top, Check, SetupFails, Loop, Switch, CaptureFails, WouldBlock,
              Snapshot, SwapAsk, EncodeFails, NothingSent, WaitTimeout,
              PrivacyModeChanged, ChangedSnapshot, Leave, Goto, Setup,
              ClearRefresh, NoSwitch, SwapDrop, SwapDropSwitch, ChangedDrop,
              Changed, ChangedSend
<1> QED
  BY <1>1, <1>2, <1>3, <1>4, <1>5 DEF Next, Terminated

\* With one display, no wait runs out although every connection has reported.
THEOREM NoNeedlessTimeoutTheorem ==
    ASSUME ~Interference
    PROVE  Spec => NoNeedlessTimeout
<1>1. Init => WaitInv
  BY DEF Init, WaitInv
<1>2. TypeOK /\ WaitInv /\ ~Interference /\ WaitTimeout =>
          \E c \in send_conn_ids \ fetched :
             conn[c] # "on" \/ queue[c] # <<>> \/ Owes(c)
  <2> SUFFICES ASSUME TypeOK, WaitInv, ~Interference, WaitTimeout
               PROVE  \E c \in send_conn_ids \ fetched :
                         conn[c] # "on" \/ queue[c] # <<>> \/ Owes(c)
    OBVIOUS
  <2>1. worker = "wait" /\ send_conn_ids # {} /\ \A c \in Conns : reports[c] = 0
    BY DEF WaitTimeout, Goto
  <2>2. PICK c \in send_conn_ids : c \notin fetched
    <3>1. IsFiniteSet(fetched) /\ fetched \subseteq Conns
      BY VideoAssumption, FS_Subset DEF TypeOK
    <3>2. send_conn_ids \subseteq fetched => Enough(fetched)
      BY <3>1, FS_Subset, FS_CardinalityType DEF Enough
    <3> QED
      BY <2>1, <3>2 DEF WaitInv
  <2>3. c \in Conns /\ queue[c] \in Seq(Payloads)
    BY <2>2 DEF TypeOK
  <2>4. Accounted(c) /\ reports[c] = 0
    BY <2>1, <2>2, <2>3 DEF WaitInv
  <2> QED
    BY <2>2, <2>3, <2>4 DEF Accounted
<1> QED
  BY <1>1, <1>2, TypeCorrect, WaitStep, PTL DEF Spec, NoNeedlessTimeout

-----------------------------------------------------------------------------
(* VideoQoS: numbers.                                                      *)

\* A set of naturals has a least one.
LEMMA MinNat ==
    ASSUME NEW S \in SUBSET Nat, S # {}
    PROVE  Min(S) \in S /\ \A x \in S : Min(S) <= x
<1> DEFINE Less == OpToRel(<, Nat)
<1>1. PICK x \in S : \A y \in S : ~(<<y, x>> \in Less)
  <2>1. IsWellFoundedOn(Less, Nat)
    BY NatLessThanWellFounded
  <2> HIDE DEF Less
  <2> QED BY <2>1, WFMin
<1>2. \A y \in S : x <= y
  <2> TAKE y \in S
  <2>1. ~(<<y, x>> \in {ss \in Nat \X Nat : ss[1] < ss[2]})
    BY <1>1 DEF OpToRel
  <2>2. ~(y < x)
    BY <2>1
  <2> QED BY <2>2
<1> QED BY <1>2 DEF Min

LEMMA LeastOrNat ==
    ASSUME NEW S \in SUBSET Nat, NEW default \in Nat
    PROVE  /\ LeastOr(S, default) \in Nat
           /\ \A x \in S : LeastOr(S, default) <= x
           /\ S = {} => LeastOr(S, default) = default
           /\ S # {} => LeastOr(S, default) \in S
  BY MinNat DEF LeastOr

LEMMA ClampNat ==
    ASSUME NEW x \in Nat, NEW low \in Nat, NEW high \in Nat, low <= high
    PROVE  /\ Clamp(x, low, high) \in low .. high
           /\ x >= low => Clamp(x, low, high) <= x
  BY DEF Clamp, Larger, Smaller

LEMMA DivNat == ASSUME NEW a \in Nat, NEW b \in Nat \ {0} PROVE a \div b \in Nat
  OBVIOUS

LEMMA RatioType ==
    /\ DOMAIN Ratio = {"Low", "Balanced", "Best", "Custom"}
    /\ \A q \in DOMAIN Ratio : Ratio[q] \in 20 .. 150
  BY DEF Ratio, BR_BALANCED, BR_BEST

\* The user who asked last, the one that latest_quality is of.
LEMMA LastOne ==
    ASSUME NEW askers \in SUBSET Users, askers # {}, QosTypeOK
    PROVE  \E u \in askers : \A v \in askers : quality[v].time <= quality[u].time
<1> DEFINE Ages == {MaxTimes - quality[u].time : u \in askers}
<1>1. \A u \in askers : quality[u].time \in 0 .. MaxTimes
  BY DEF QosTypeOK
<1>2. Ages \in SUBSET Nat /\ Ages # {}
  BY <1>1, QoSAssumption DEF QoSAssumption
<1>3. PICK u \in askers : Min(Ages) = MaxTimes - quality[u].time
  BY <1>2, MinNat
<1>4. \A v \in askers : MaxTimes - quality[u].time <= MaxTimes - quality[v].time
  <2> TAKE v \in askers
  <2>1. MaxTimes - quality[v].time \in Ages
    OBVIOUS
  <2> HIDE DEF Ages
  <2>2. \A x \in Ages : Min(Ages) <= x
    BY <1>2, MinNat
  <2> QED BY <1>3, <2>1, <2>2
<1> QED BY <1>1, <1>4, QoSAssumption DEF QoSAssumption

-----------------------------------------------------------------------------
(* What the adjustments are made of.                                       *)

LEMMA HighestType == ASSUME QosTypeOK PROVE highest_fps \in MIN_FPS .. MAX_FPS
<1>1. \A u \in users : UserLimit(u) \in Nat
  <2> TAKE u \in users
  <2>1. custom_fps[u] \in Nat /\ auto_adjust_fps[u] \in Nat
    <3>1. /\ custom_fps[u] \in {0} \cup MIN_FPS .. MAX_FPS
          /\ auto_adjust_fps[u] \in {0} \cup MIN_FPS .. MAX_FPS
      BY DEF QosTypeOK
    <3> QED BY <3>1 DEF MIN_FPS, MAX_FPS
  <2> QED BY <2>1 DEF UserLimit, Smaller, FPS
<1> DEFINE least == LeastOr({UserLimit(u) : u \in users}, FPS)
<1>2. least \in Nat
  BY <1>1, LeastOrNat DEF FPS
<1>3. highest_fps = Clamp(least, MIN_FPS, MAX_FPS)
  BY DEF highest_fps
<1> HIDE DEF least
<1>4. MIN_FPS \in Nat /\ MAX_FPS \in Nat /\ MIN_FPS <= MAX_FPS
  BY DEF MIN_FPS, MAX_FPS
<1> QED BY <1>2, <1>3, <1>4, ClampNat

LEMMA QualityType ==
    ASSUME QosTypeOK
    PROVE  /\ latest_quality \in DOMAIN Ratio
           /\ target_ratio \in 20 .. 150
           /\ latest_quality = "Best" => target_ratio = 150
           /\ latest_quality = "Balanced" => target_ratio = 67
<1> DEFINE askers == {u \in users : quality[u].time > 0}
           Last(u) == \A v \in askers : quality[v].time <= quality[u].time
<1>1. latest_quality \in DOMAIN Ratio
  <2>1. CASE askers = {}
    BY <2>1, RatioType DEF latest_quality
  <2>2. CASE askers # {}
    <3>1. askers \in SUBSET Users
      BY DEF QosTypeOK
    <3>2. \E u \in askers : Last(u)
      BY <2>2, <3>1, LastOne
    <3>3. (CHOOSE u \in askers : Last(u)) \in Users
      BY <3>1, <3>2
    <3>4. latest_quality = quality[CHOOSE u \in askers : Last(u)].of
      BY <2>2 DEF latest_quality
    <3> QED BY <3>3, <3>4 DEF QosTypeOK
  <2> QED BY <2>1, <2>2
<1>2. target_ratio = Ratio[latest_quality]
  BY DEF target_ratio
<1> QED BY <1>1, <1>2, RatioType DEF Ratio, BR_BEST, BR_BALANCED

LEMMA MinFpsType == ASSUME QosTypeOK PROVE min_fps \in 8 .. 12
  BY DEF min_fps

\* The rate adjust_fps leads to, from records of the users as they will be.
LEMMA RealFpsType ==
    ASSUME QosTypeOK, NEW newFps \in [Users -> 0 .. MAX_FPS], NEW delayed, NEW new
    PROVE  /\ RealFps(newFps, delayed, new) \in MIN_FPS .. MAX_FPS
           /\ RealFps(newFps, delayed, new) <= highest_fps
           /\ \A u \in users : newFps[u] # 0 => RealFps(newFps, delayed, new) <= newFps[u]
           /\ delayed # {} => RealFps(newFps, delayed, new) <= MIN_FPS + 1
<1> DEFINE all == {IF newFps[u] = 0 THEN INIT_FPS ELSE newFps[u] : u \in users}
           least == LeastOr(all, INIT_FPS)
           answered == IF delayed # {} THEN Smaller(least, MIN_FPS + 1) ELSE least
           real == IF new THEN Smaller(answered, INIT_FPS) ELSE answered
<1>1. \A u \in users : newFps[u] \in 0 .. MAX_FPS
  BY DEF QosTypeOK
<1>2. all \in SUBSET Nat
  BY <1>1 DEF INIT_FPS, MAX_FPS
<1>3. least \in Nat /\ \A x \in all : least <= x
  BY <1>2, LeastOrNat DEF INIT_FPS
<1>4. \A u \in users : newFps[u] # 0 => least <= newFps[u]
  BY <1>3
<1> HIDE DEF all, least
<1>5. answered \in Nat /\ answered <= least /\ (delayed # {} => answered <= MIN_FPS + 1)
  BY <1>3 DEF Smaller, MIN_FPS
<1> HIDE DEF answered
<1>6. real \in Nat /\ real <= answered
  BY <1>5 DEF Smaller, INIT_FPS
<1>7. RealFps(newFps, delayed, new) = Clamp(real, MIN_FPS, highest_fps)
  BY DEF RealFps, real, answered, least, all
<1> HIDE DEF real
<1>8. highest_fps \in MIN_FPS .. MAX_FPS
  BY HighestType
<1>9. \/ RealFps(newFps, delayed, new) = MIN_FPS
      \/ RealFps(newFps, delayed, new) <= real
  BY <1>6, <1>7, <1>8 DEF Clamp, Larger, Smaller, MIN_FPS, MAX_FPS
<1>10. RealFps(newFps, delayed, new) \in MIN_FPS .. highest_fps
  <2>1. MIN_FPS \in Nat /\ highest_fps \in Nat /\ MIN_FPS <= highest_fps
    BY <1>8 DEF MIN_FPS, MAX_FPS
  <2> QED BY <1>6, <1>7, <2>1, ClampNat
<1> QED BY <1>1, <1>3, <1>4, <1>5, <1>6, <1>8, <1>9, <1>10 DEF MIN_FPS, MAX_FPS

\* What adjust_ratio leads to.
LEMMA AdjustedType ==
    ASSUME QosTypeOK, NEW dynamic, NEW delays
    PROVE  \A r \in Adjusted(dynamic, delays) :
              r \in BR_MIN_HIGH_RESOLUTION .. BR_MAX /\ r <= target_ratio
<1>1. \A low \in Lows(latest_quality) : low \in 10 .. 60 /\ low <= target_ratio
  BY QualityType DEF Lows, BR_MIN_HIGH_RESOLUTION
<1>2. ratio \in Nat /\ Rises \subseteq Nat
  BY QoSAssumption DEF QosTypeOK, QoSAssumption, BR_MIN_HIGH_RESOLUTION, BR_MAX
<1> DEFINE worst == Max({delays[u] : u \in users})
           moved == IF worst >= DELAY_THRESHOLD_150MS THEN {r \in Rises : r < ratio} \cup {ratio}
                    ELSE IF dynamic THEN {r \in Rises : r > ratio} \cup {ratio}
                    ELSE {ratio}
<1>3. moved \subseteq Nat
  BY <1>2
<1>4. Adjusted(dynamic, delays) =
         {Clamp(v, low, target_ratio) : v \in moved, low \in Lows(latest_quality)}
  BY DEF Adjusted
<1> HIDE DEF moved
<1> TAKE r \in Adjusted(dynamic, delays)
<1>5. PICK v \in moved, low \in Lows(latest_quality) : r = Clamp(v, low, target_ratio)
  BY <1>4
<1>6. v \in Nat /\ low \in 10 .. 60 /\ low <= target_ratio
  BY <1>1, <1>3
<1>7. r \in 10 .. 4000 /\ r <= target_ratio
  <2>1. low \in Nat /\ target_ratio \in 20 .. 150
    BY <1>6, QualityType
  <2>2. Clamp(v, low, target_ratio) \in low .. target_ratio
    <3>1. v \in Nat /\ low \in Nat /\ target_ratio \in Nat /\ low <= target_ratio
      BY <1>6, <2>1
    <3> QED BY <3>1, ClampNat
  <2> QED BY <1>5, <1>6, <2>1, <2>2
<1> QED BY <1>7 DEF BR_MIN_HIGH_RESOLUTION, BR_MAX

\* What a report makes of the rate is a number.
LEMMA NewFpsType ==
    ASSUME QosTypeOK, NEW u \in Users, NEW avg \in Nat \ {0}, NEW quickNow
    PROVE  NewFps(u, avg, quickNow) \in Nat
<1> DEFINE step == IF avg < 50
                   THEN (IF quickNow = 3 THEN 5 ELSE IF fps < normal_fps THEN 1 ELSE 0)
                   ELSE IF avg < 100 /\ avg < avg_delay[u] /\ fps < normal_fps THEN 1 ELSE 0
           divided == (fps * DELAY_THRESHOLD_150MS + avg - 1) \div avg
           share == (DELAY_THRESHOLD_150MS * min_fps) \div avg
<1>1. step \in Nat
  BY Zenon
<1>2. fps \in Nat /\ min_fps \in Nat
  BY MinFpsType DEF QosTypeOK, MIN_FPS, MAX_FPS
<1>3. fps * DELAY_THRESHOLD_150MS + avg - 1 \in Nat /\ DELAY_THRESHOLD_150MS * min_fps \in Nat
  BY <1>2 DEF DELAY_THRESHOLD_150MS
<1>4. divided \in Nat /\ share \in Nat
  BY <1>3, DivNat
<1>5. NewFps(u, avg, quickNow) =
         IF avg < DELAY_THRESHOLD_150MS THEN Larger(min_fps, fps + step)
         ELSE IF avg < 200 THEN Larger(min_fps, divided)
         ELSE IF avg < 300 THEN Smaller(min_fps, divided)
         ELSE IF avg < 600 THEN share
         ELSE Smaller(share, divided)
  BY DEF NewFps
<1> HIDE DEF step, divided, share
<1> QED BY <1>1, <1>2, <1>4, <1>5 DEF Larger, Smaller

\* adjust_ratio, where it is called.
LEMMA AdjustRatioType ==
    ASSUME QosTypeOK, NEW dynamic, NEW delays, AdjustRatio(dynamic, delays)
    PROVE  /\ ratio' \in BR_MIN_HIGH_RESOLUTION .. BR_MAX
           /\ ratio' # ratio => ratio' <= target_ratio
<1>1. CASE in_vbr_state /\ users # {}
  <2>1. ratio' \in Adjusted(dynamic, delays)
    BY <1>1, Zenon DEF AdjustRatio
  <2> QED BY <2>1, AdjustedType
<1>2. CASE ~(in_vbr_state /\ users # {})
  <2>1. ratio' = ratio
    BY <1>2, Zenon DEF AdjustRatio
  <2> QED BY <2>1 DEF QosTypeOK
<1> QED BY <1>1, <1>2

-----------------------------------------------------------------------------
(* Types.                                                                  *)

UserTypes ==
    /\ users \subseteq Users /\ response_delayed \subseteq users
    /\ custom_fps \in [Users -> {0} \cup MIN_FPS..MAX_FPS]
    /\ auto_adjust_fps \in [Users -> {0} \cup MIN_FPS..MAX_FPS]
    /\ quality \in [Users -> [time : 0..MaxTimes, of : DOMAIN Ratio]]
    /\ user_fps \in [Users -> 0..MAX_FPS]
    /\ avg_delay \in [Users -> Nat \ {0}]
    /\ quick \in [Users -> 0..2] /\ stable \in [Users -> 0..2]
RateTypes ==
    /\ fps \in MIN_FPS..MAX_FPS
    /\ ratio \in BR_MIN_HIGH_RESOLUTION..BR_MAX
    /\ abr_config \in BOOLEAN /\ new_user \in BOOLEAN
    /\ times \in 0..MaxTimes
DisplayTypes ==
    /\ displays \subseteq Displays /\ supports \subseteq displays
    /\ capture \in [Displays -> {"off", "starting", "on"}]
    /\ encoder \in [Displays -> BOOLEAN]
    /\ orphans \subseteq Displays
LEMMA ThreeTypes == QosTypeOK <=> UserTypes /\ RateTypes /\ DisplayTypes
  BY DEF QosTypeOK, UserTypes, RateTypes, DisplayTypes

\* Each action, and what it leaves alone.
LEMMA QosTypeStep == QosTypeOK /\ [QosNext]_qosVars => QosTypeOK'
<1> SUFFICES ASSUME QosTypeOK, [QosNext]_qosVars PROVE QosTypeOK'
  OBVIOUS
<1>1. UserTypes /\ RateTypes /\ DisplayTypes
  BY ThreeTypes
<1>2. /\ UNCHANGED userVars => UserTypes'
      /\ UNCHANGED displayVars => DisplayTypes'
      /\ UNCHANGED <<fps, ratio, abr_config, new_user, times>> => RateTypes'
  BY <1>1 DEF userVars, displayVars, UserTypes, DisplayTypes, RateTypes
<1>3. None \in [time : 0..MaxTimes, of : DOMAIN Ratio]
  BY RatioType, QoSAssumption DEF None, QoSAssumption
<1>4. ASSUME NEW u \in Users, NEW abr \in AbrOptions, on_connection_open(u, abr)
      PROVE  UserTypes' /\ RateTypes' /\ DisplayTypes'
  <2>1. UserTypes'
    BY <1>1, <1>4 DEF on_connection_open, UserTypes
  <2>2. RateTypes'
    BY <1>1, <1>4, QoSAssumption DEF on_connection_open, RateTypes, QoSAssumption
  <2> QED BY <1>2, <1>4, <2>1, <2>2 DEF on_connection_open
<1>5. ASSUME NEW u \in Users, on_connection_close(u)
      PROVE  UserTypes' /\ RateTypes' /\ DisplayTypes'
  <2>1. UserTypes'
    <3>1. /\ users' = users \ {u} /\ response_delayed' = response_delayed \ {u}
          /\ custom_fps' = [custom_fps EXCEPT ![u] = 0]
          /\ auto_adjust_fps' = [auto_adjust_fps EXCEPT ![u] = 0]
          /\ quality' = [quality EXCEPT ![u] = None]
          /\ user_fps' = [user_fps EXCEPT ![u] = 0]
          /\ avg_delay' = [avg_delay EXCEPT ![u] = DELAY_THRESHOLD_150MS]
          /\ quick' = [quick EXCEPT ![u] = 0] /\ stable' = [stable EXCEPT ![u] = 0]
      BY <1>5, Zenon DEF on_connection_close, Default
    <3>2. DELAY_THRESHOLD_150MS \in Nat \ {0} /\ 0 \in 0 .. 2 /\ 0 \in 0 .. MAX_FPS
      BY DEF DELAY_THRESHOLD_150MS, MAX_FPS
    <3> QED BY <1>1, <1>3, <3>1, <3>2 DEF UserTypes
  <2>2. RateTypes' /\ DisplayTypes'
    <3>1. CASE users = {u}
      <4>1. /\ fps' = FPS /\ ratio' = BR_BALANCED /\ abr_config' = TRUE /\ new_user' = TRUE
            /\ times' = times
            /\ displays' = {} /\ supports' = {} /\ capture' = capture /\ encoder' = encoder
            /\ orphans' = {d \in Displays : capture[d] # "off"}
        BY <1>5, <3>1, Zenon DEF on_connection_close
      <4>2. RateTypes'
        BY <1>1, <4>1
           DEF RateTypes, FPS, BR_BALANCED, MIN_FPS, MAX_FPS, BR_MIN_HIGH_RESOLUTION, BR_MAX
      <4> QED BY <1>1, <4>1, <4>2 DEF DisplayTypes
    <3>2. CASE users # {u}
      <4>1. UNCHANGED <<displayVars, fps, ratio, abr_config, new_user, times>>
        BY <1>5, <3>2, Zenon DEF on_connection_close, displayVars
      <4> QED BY <1>2, <4>1
    <3> QED BY <3>1, <3>2
  <2> QED BY <2>1, <2>2
<1>6. ASSUME NEW u \in Users, NEW f \in FpsAsked,
             user_custom_fps(u, f) \/ user_auto_adjust_fps(u, f)
      PROVE  UserTypes' /\ RateTypes' /\ DisplayTypes'
  <2>1. UserTypes'
    BY <1>1, <1>6 DEF user_custom_fps, user_auto_adjust_fps, UserTypes, Valid
  <2>2. RateTypes'
    BY <1>1, <1>6, QoSAssumption
       DEF user_custom_fps, user_auto_adjust_fps, RateTypes, QoSAssumption
  <2>3. UNCHANGED displayVars
    BY <1>6, Zenon DEF user_custom_fps, user_auto_adjust_fps
  <2> QED BY <1>2, <2>1, <2>2, <2>3
<1>7. ASSUME NEW u \in Users, NEW q \in Qualities, user_image_quality(u, q)
      PROVE  UserTypes' /\ RateTypes' /\ DisplayTypes'
  <2>1. times + 1 \in 0 .. MaxTimes /\ times' = times + 1 /\ q \in DOMAIN Ratio
    BY <1>1, <1>7, QoSAssumption DEF user_image_quality, QoSAssumption, RateTypes
  <2>2. UserTypes'
    BY <1>1, <1>7, <2>1 DEF user_image_quality, UserTypes
  <2>3. RateTypes'
    BY <1>1, <1>7, <2>1, RatioType
       DEF user_image_quality, RateTypes, BR_MIN_HIGH_RESOLUTION, BR_MAX
  <2> QED BY <1>2, <1>7, <2>2, <2>3 DEF user_image_quality
<1>8. ASSUME NEW u \in Users, NEW avg \in Delays, user_network_delay(u, avg)
      PROVE  UserTypes' /\ RateTypes' /\ DisplayTypes'
  <2> DEFINE quickNow == IF avg < 50 THEN quick[u] + 1 ELSE quick[u]
             stableNow == IF avg < DELAY_THRESHOLD_150MS THEN stable[u] + 1 ELSE 0
             raised == NewFps(u, avg, quickNow) + (IF stableNow = 3 THEN 1 ELSE 0)
  <2>1. avg \in Nat \ {0}
    BY QoSAssumption DEF QoSAssumption
  <2>2. quickNow \in 0 .. 3 /\ stableNow \in 0 .. 3
    BY <1>1, <2>1 DEF UserTypes
  <2>3. /\ quick' = [quick EXCEPT ![u] = IF avg > 50 \/ quickNow = 3 THEN 0 ELSE quickNow]
        /\ stable' = [stable EXCEPT ![u] = IF stableNow = 3 THEN 0 ELSE stableNow]
        /\ user_fps' = [user_fps EXCEPT ![u] = Clamp(raised, MIN_FPS, highest_fps)]
        /\ avg_delay' = [avg_delay EXCEPT ![u] = avg]
        /\ fps' = RealFps(user_fps', response_delayed, new_user)
        /\ UNCHANGED <<users, custom_fps, auto_adjust_fps, quality, response_delayed,
                       displayVars, abr_config, new_user, times>>
    BY <1>8 DEF user_network_delay
  <2>4. raised \in Nat
    <3>1. NewFps(u, avg, quickNow) \in Nat
      BY <2>1, NewFpsType
    <3> HIDE DEF quickNow, stableNow
    <3> QED BY <3>1
  <2> HIDE DEF quickNow, stableNow, raised
  <2>5. Clamp(raised, MIN_FPS, highest_fps) \in 0 .. MAX_FPS
    <3>1. highest_fps \in Nat /\ MIN_FPS \in Nat /\ MIN_FPS <= highest_fps
          /\ highest_fps <= MAX_FPS
      BY HighestType DEF MIN_FPS, MAX_FPS
    <3>2. Clamp(raised, MIN_FPS, highest_fps) \in MIN_FPS .. highest_fps
      BY <2>4, <3>1, ClampNat
    <3> QED BY <3>1, <3>2 DEF MIN_FPS, MAX_FPS
  <2>6. UserTypes'
    BY <1>1, <2>1, <2>2, <2>3, <2>5 DEF UserTypes
  <2>7. fps' \in MIN_FPS .. MAX_FPS
    BY <2>3, <2>6, RealFpsType DEF UserTypes
  <2>8. ratio' \in BR_MIN_HIGH_RESOLUTION .. BR_MAX
    <3>1. CASE user_fps[u] = 0 /\ ~Linux
      <4>1. AdjustRatio(FALSE, avg_delay')
        BY <1>8, <3>1, Zenon DEF user_network_delay
      <4> QED BY <4>1, AdjustRatioType
    <3>2. CASE ~(user_fps[u] = 0 /\ ~Linux)
      <4>1. ratio' = ratio
        BY <1>8, <3>2, Zenon DEF user_network_delay
      <4> QED BY <1>1, <4>1 DEF RateTypes
    <3> QED BY <3>1, <3>2
  <2>9. RateTypes'
    BY <1>1, <2>3, <2>7, <2>8 DEF RateTypes
  <2> QED BY <1>2, <2>3, <2>6, <2>9
<1>9. ASSUME NEW u \in Users, NEW late \in BOOLEAN, user_delay_response_elapsed(u, late)
      PROVE  UserTypes' /\ RateTypes' /\ DisplayTypes'
  <2>1. /\ u \in users
        /\ UNCHANGED <<users, custom_fps, auto_adjust_fps, quality, user_fps, quick, stable,
                       displayVars, ratio, abr_config, new_user, times>>
    BY <1>9, Zenon DEF user_delay_response_elapsed
  <2>2. CASE late
    <3>1. /\ response_delayed' = response_delayed \cup {u}
          /\ \E avg \in Delays : avg_delay' = [avg_delay EXCEPT ![u] = avg]
          /\ fps' = RealFps(user_fps, response_delayed', new_user)
      BY <1>9, <2>2, Zenon DEF user_delay_response_elapsed
    <3>2. UserTypes'
      BY <1>1, <2>1, <3>1, QoSAssumption DEF UserTypes, QoSAssumption
    <3>3. fps' \in MIN_FPS .. MAX_FPS
      BY <1>1, <3>1, RealFpsType DEF UserTypes
    <3> QED BY <1>1, <1>2, <2>1, <3>2, <3>3 DEF RateTypes
  <2>3. CASE ~late
    <3>1. response_delayed' = response_delayed \ {u} /\ UNCHANGED <<avg_delay, fps>>
      BY <1>9, <2>3, Zenon DEF user_delay_response_elapsed
    <3> QED BY <1>1, <1>2, <2>1, <3>1 DEF UserTypes
  <2> QED BY <2>2, <2>3
<1>10. ASSUME NEW d \in Displays,
              new_display(d) \/ remove_display(d)
                  \/ \E support \in BOOLEAN : set_support_changing_quality(d, support)
       PROVE  UserTypes' /\ RateTypes' /\ DisplayTypes'
  <2>1. UNCHANGED <<userVars, fps, ratio, abr_config, new_user, times>>
    BY <1>10, Zenon DEF new_display, remove_display, set_support_changing_quality
  <2>2. CASE new_display(d)
    BY <1>1, <1>2, <2>1, <2>2 DEF new_display, DisplayTypes
  <2>3. CASE remove_display(d)
    BY <1>1, <1>2, <2>1, <2>3 DEF remove_display, DisplayTypes
  <2>4. ASSUME NEW support \in BOOLEAN, set_support_changing_quality(d, support)
        PROVE  DisplayTypes'
    <3>1. /\ capture' = [capture EXCEPT ![d] = "on"] /\ encoder' = [encoder EXCEPT ![d] = support]
          /\ supports' = supports \ {d} \/ (d \in displays /\ supports' = supports \cup {d})
          /\ UNCHANGED <<displays, orphans>>
      BY <2>4, Zenon DEF set_support_changing_quality
    <3> QED BY <1>1, <3>1 DEF DisplayTypes
  <2> QED BY <1>2, <1>10, <2>1, <2>2, <2>3, <2>4
<1>11. ASSUME NEW d \in Displays, NEW elapsed \in BOOLEAN, NEW dynamic \in BOOLEAN,
              update_display_data(d, elapsed, dynamic)
       PROVE  UserTypes' /\ RateTypes' /\ DisplayTypes'
  <2>1. /\ fps' = RealFps(user_fps, response_delayed, new_user)
        /\ UNCHANGED <<userVars, displayVars, abr_config, new_user, times>>
    BY <1>11, Zenon DEF update_display_data
  <2>2. fps' \in MIN_FPS .. MAX_FPS
    BY <1>1, <2>1, RealFpsType DEF UserTypes
  <2>3. ratio' \in BR_MIN_HIGH_RESOLUTION .. BR_MAX
    <3>1. ratio' = target_ratio \/ AdjustRatio(dynamic, avg_delay) \/ ratio' = ratio
      BY <1>11, Zenon DEF update_display_data
    <3>2. target_ratio \in BR_MIN_HIGH_RESOLUTION .. BR_MAX
      BY QualityType DEF BR_MIN_HIGH_RESOLUTION, BR_MAX
    <3>3. ratio \in BR_MIN_HIGH_RESOLUTION .. BR_MAX
      BY <1>1 DEF RateTypes
    <3> QED BY <3>1, <3>2, <3>3, AdjustRatioType
  <2> QED BY <1>1, <1>2, <2>1, <2>2, <2>3 DEF RateTypes
<1>12. CASE FreshEnds
  <2>1. RateTypes'
    BY <1>1, <1>12 DEF FreshEnds, RateTypes
  <2>2. UserTypes' /\ DisplayTypes'
    BY <1>2, <1>12 DEF FreshEnds
  <2> QED BY <2>1, <2>2 DEF QosTypeOK, UserTypes, RateTypes, DisplayTypes
<1>13. CASE UNCHANGED qosVars
  BY <1>2, <1>13 DEF qosVars, QosTypeOK, UserTypes, RateTypes, DisplayTypes
<1>14. UserTypes' /\ RateTypes' /\ DisplayTypes'  => QosTypeOK'
  BY DEF QosTypeOK, UserTypes, RateTypes, DisplayTypes
<1> QED
  BY <1>4, <1>5, <1>6, <1>7, <1>8, <1>9, <1>10, <1>11, <1>12, <1>13, <1>14
     DEF QosNext, Reports

THEOREM QosTypeCorrect == QosSpec => []QosTypeOK
<1>1. QosInit => QosTypeOK
  <2> SUFFICES ASSUME QosInit PROVE QosTypeOK
    OBVIOUS
  <2>1. None \in [time : 0..MaxTimes, of : DOMAIN Ratio]
    BY RatioType, QoSAssumption DEF None, QoSAssumption
  <2>2. UserTypes
    BY <2>1 DEF QosInit, UserTypes, DELAY_THRESHOLD_150MS, MAX_FPS
  <2>3. RateTypes
    <3>1. 0 \in 0 .. MaxTimes
      BY QoSAssumption DEF QoSAssumption
    <3>2. FPS \in MIN_FPS .. MAX_FPS /\ BR_BALANCED \in BR_MIN_HIGH_RESOLUTION .. BR_MAX
      BY DEF FPS, BR_BALANCED, MIN_FPS, MAX_FPS, BR_MIN_HIGH_RESOLUTION, BR_MAX
    <3> QED BY <3>1, <3>2, Zenon DEF QosInit, RateTypes
  <2>4. DisplayTypes
    BY DEF QosInit, DisplayTypes
  <2> QED BY <2>2, <2>3, <2>4, ThreeTypes
<1> QED BY <1>1, QosTypeStep, PTL DEF QosSpec

-----------------------------------------------------------------------------
(* The rate and the ratio stay where the encoders may use them.            *)

\* No request is younger than the last one, which is why the ratio of a new
\* request is that of the latest quality.
Clocked == \A u \in Users : quality[u].time <= times

LEMMA ClockedStep == QosTypeOK /\ Clocked /\ [QosNext]_qosVars => Clocked'
<1> SUFFICES ASSUME QosTypeOK, Clocked, [QosNext]_qosVars PROVE Clocked'
  OBVIOUS
<1>1. times \in Nat /\ \A u \in Users : quality[u].time \in Nat
  BY QoSAssumption DEF QosTypeOK, QoSAssumption
<1>2. UNCHANGED quality /\ times' \in {times, times + 1} => Clocked'
  BY <1>1 DEF Clocked
<1>3. ASSUME NEW u \in Users, on_connection_close(u) PROVE Clocked'
  <2>1. quality' = [quality EXCEPT ![u] = None] /\ times' = times
    BY <1>3, Zenon DEF on_connection_close, Default
  <2> QED BY <1>1, <2>1 DEF Clocked, QosTypeOK, None
<1>4. ASSUME NEW u \in Users, NEW q \in Qualities, user_image_quality(u, q) PROVE Clocked'
  <2>1. /\ quality' = [quality EXCEPT ![u] = [time |-> times + 1, of |-> q]]
        /\ times' = times + 1
    BY <1>4 DEF user_image_quality
  <2> QED BY <1>1, <2>1 DEF Clocked, QosTypeOK
<1> QED
  BY <1>2, <1>3, <1>4
     DEF QosNext, Reports, qosVars, userVars, on_connection_open, user_custom_fps,
         user_auto_adjust_fps, user_network_delay, user_delay_response_elapsed, new_display,
         remove_display, set_support_changing_quality, update_display_data, FreshEnds

LEMMA RecordsStep == QosTypeOK /\ RecordsMatch /\ [QosNext]_qosVars => RecordsMatch'
<1> SUFFICES ASSUME QosTypeOK, RecordsMatch, [QosNext]_qosVars PROVE RecordsMatch'
  OBVIOUS
<1>1. UNCHANGED displayVars => RecordsMatch'
  BY DEF displayVars, RecordsMatch
<1>2. /\ capture \in [Displays -> {"off", "starting", "on"}] /\ encoder \in [Displays -> BOOLEAN]
      /\ supports \subseteq displays
  BY DEF QosTypeOK
<1>3. ASSUME NEW u \in Users, on_connection_close(u) PROVE RecordsMatch'
  <2>1. CASE users = {u}
    <3>1. /\ displays' = {} /\ orphans' = {d \in Displays : capture[d] # "off"}
          /\ UNCHANGED capture
      BY <1>3, <2>1, Zenon DEF on_connection_close
    <3> QED BY <3>1 DEF RecordsMatch
  <2>2. CASE users # {u}
    <3>1. UNCHANGED displayVars
      BY <1>3, <2>2, Zenon DEF on_connection_close, displayVars
    <3> QED BY <1>1, <3>1
  <2> QED BY <2>1, <2>2
<1>4. ASSUME NEW d \in Displays, new_display(d) PROVE RecordsMatch'
  BY <1>2, <1>4 DEF new_display, RecordsMatch
<1>5. ASSUME NEW d \in Displays, remove_display(d) PROVE RecordsMatch'
  BY <1>2, <1>5 DEF remove_display, RecordsMatch
<1>6. ASSUME NEW d \in Displays, NEW support \in BOOLEAN, set_support_changing_quality(d, support)
      PROVE  RecordsMatch'
  <2>1. /\ capture[d] = "starting" /\ capture' = [capture EXCEPT ![d] = "on"]
        /\ encoder' = [encoder EXCEPT ![d] = support]
        /\ UNCHANGED <<displays, orphans>>
        /\ d \in displays /\ support => supports' = supports \cup {d}
        /\ ~(d \in displays /\ support) => supports' = supports \ {d}
    BY <1>6, Zenon DEF set_support_changing_quality
  <2> SUFFICES ASSUME NEW e \in Displays
               PROVE  /\ e \in displays' => capture'[e] # "off"
                      /\ capture'[e] # "off" /\ e \notin orphans' =>
                            /\ e \in displays'
                            /\ capture'[e] = "on" => (e \in supports' <=> encoder'[e])
    BY DEF RecordsMatch
  <2>2. /\ e \in displays => capture[e] # "off"
        /\ capture[e] # "off" /\ e \notin orphans =>
              e \in displays /\ (capture[e] = "on" => (e \in supports <=> encoder[e]))
    BY DEF RecordsMatch
  <2>3. CASE e = d
    <3>1. capture'[d] = "on" /\ encoder'[d] = support
      BY <1>2, <2>1
    <3>2. d \in displays => (d \in supports' <=> support)
      <4>1. CASE support
        BY <2>1, <4>1
      <4>2. CASE ~support
        BY <2>1, <4>2
      <4> QED BY <4>1, <4>2
    <3> QED BY <2>1, <2>2, <2>3, <3>1, <3>2
  <2>4. CASE e # d
    <3>1. capture'[e] = capture[e] /\ encoder'[e] = encoder[e]
      BY <1>2, <2>1, <2>4
    <3>2. e \in supports' <=> e \in supports
      BY <2>1, <2>4
    <3> QED BY <2>1, <2>2, <3>1, <3>2
  <2> QED BY <2>3, <2>4
<1> QED
  BY <1>1, <1>3, <1>4, <1>5, <1>6
     DEF QosNext, Reports, qosVars, on_connection_open, user_custom_fps, user_auto_adjust_fps,
         user_image_quality, user_network_delay, user_delay_response_elapsed,
         update_display_data, FreshEnds

\* A rate that adjust_fps gave is within what everybody asks for.
LEMMA AdjustedFps ==
    ASSUME QosTypeOK, QosTypeOK', UNCHANGED <<users, custom_fps, auto_adjust_fps>>,
           NEW new, fps' = RealFps(user_fps', response_delayed', new)
    PROVE  FpsWithin'
<1>1. highest_fps' = highest_fps
  BY DEF highest_fps, UserLimit
<1>2. user_fps' \in [Users -> 0 .. MAX_FPS]
  BY DEF QosTypeOK
<1> QED BY <1>1, <1>2, RealFpsType DEF FpsWithin

\* The ratio of the quality asked for last.
LEMMA LatestQuality ==
    ASSUME QosTypeOK, Clocked, NEW u \in Users, NEW q \in Qualities, user_image_quality(u, q)
    PROVE  ratio' = target_ratio'
<1> DEFINE askers == {v \in users' : quality'[v].time > 0}
           Last(v) == \A w \in askers : quality'[w].time <= quality'[v].time
<1>1. /\ u \in users /\ users' = users /\ ratio' = Ratio[q] /\ users \subseteq Users
      /\ quality' = [quality EXCEPT ![u] = [time |-> times + 1, of |-> q]]
  BY DEF user_image_quality, QosTypeOK
<1>2. quality'[u].time = times + 1 /\ quality'[u].of = q /\ times \in Nat
  BY <1>1, QoSAssumption DEF QosTypeOK, QoSAssumption
<1>3. \A v \in Users : v # u => quality'[v].time <= times
  BY <1>1 DEF QosTypeOK, Clocked
<1>4. u \in askers /\ Last(u)
  <2>1. \A w \in askers : quality'[w].time <= times + 1
    <3> TAKE w \in askers
    <3>1. w \in Users /\ quality'[w].time \in Nat
      BY <1>1, <1>2 DEF QosTypeOK
    <3> QED BY <1>2, <1>3, <3>1
  <2> QED BY <1>1, <1>2, <2>1
<1>5. ASSUME NEW v \in askers, Last(v) PROVE v = u
  <2>1. v \in Users /\ quality'[v].time \in Nat /\ quality'[v].time >= times + 1
    <3>1. v \in Users /\ quality'[u].time <= quality'[v].time
      BY <1>1, <1>4, <1>5
    <3>2. quality'[v].time \in Nat
      BY <1>1, <1>2, <3>1 DEF QosTypeOK
    <3> QED BY <1>2, <3>1, <3>2
  <2> QED BY <1>2, <1>3, <2>1
<1>6. (CHOOSE v \in askers : Last(v)) = u
  <2> HIDE DEF askers, Last
  <2> QED BY <1>4, <1>5
<1>7. latest_quality' = quality'[CHOOSE v \in askers : Last(v)].of
  BY <1>4 DEF latest_quality
<1> HIDE DEF askers, Last
<1> QED BY <1>1, <1>2, <1>6, <1>7 DEF target_ratio

THEOREM AlwaysBounded == QosSpec => Bounded
<1> DEFINE Step == /\ fps' # fps => FpsWithin'
                   /\ ratio' # ratio => ratio' <= target_ratio'
<1>1. ASSUME QosTypeOK, QosTypeOK', Clocked, [QosNext]_qosVars PROVE Step
  <2>1. UNCHANGED <<users, quality>> => target_ratio' = target_ratio
    BY DEF target_ratio, latest_quality
  <2>2. ratio \in Nat /\ target_ratio \in Nat
    BY <1>1, QualityType DEF QosTypeOK, BR_MIN_HIGH_RESOLUTION, BR_MAX
  <2>3. ASSUME NEW u \in Users, on_connection_close(u) PROVE Step
    <3>1. CASE users = {u}
      <4>1. /\ fps' = FPS /\ ratio' = BR_BALANCED /\ users' = users \ {u}
            /\ response_delayed' = response_delayed \ {u}
        BY <2>3, <3>1, Zenon DEF on_connection_close
      <4>2. users' = {} /\ response_delayed' = {}
        BY <1>1, <3>1, <4>1 DEF QosTypeOK
      <4>3. highest_fps' = FPS
        <5>1. {UserLimit(v)' : v \in users'} = {}
          BY <4>2
        <5>2. LeastOr({}, FPS) = FPS
          BY DEF LeastOr
        <5>3. Clamp(FPS, MIN_FPS, MAX_FPS) = FPS
          BY DEF Clamp, Larger, Smaller, FPS, MIN_FPS, MAX_FPS
        <5> QED BY <5>1, <5>2, <5>3 DEF highest_fps
      <4>4. target_ratio' = BR_BALANCED
        <5>1. {v \in users' : quality'[v].time > 0} = {}
          BY <4>2
        <5> QED BY <5>1 DEF target_ratio, latest_quality, Ratio
      <4> QED BY <4>1, <4>2, <4>3, <4>4 DEF FpsWithin, FPS, BR_BALANCED
    <3>2. CASE users # {u}
      BY <2>3, <3>2, Zenon DEF on_connection_close
    <3> QED BY <3>1, <3>2
  <2>4. ASSUME NEW u \in Users, NEW q \in Qualities, user_image_quality(u, q) PROVE Step
    <3>1. ratio' = target_ratio' /\ fps' = fps
      BY <1>1, <2>4, LatestQuality DEF user_image_quality
    <3>2. target_ratio' \in 20 .. 150
      BY <1>1, <3>1, <2>4, RatioType, QoSAssumption DEF user_image_quality, QoSAssumption
    <3> QED BY <3>1, <3>2
  <2>5. ASSUME NEW u \in Users, NEW avg \in Delays, user_network_delay(u, avg) PROVE Step
    <3>1. /\ fps' = RealFps(user_fps', response_delayed', new_user)
          /\ UNCHANGED <<users, custom_fps, auto_adjust_fps, quality>>
          /\ AdjustRatio(FALSE, avg_delay') \/ ratio' = ratio
      BY <2>5, Zenon DEF user_network_delay
    <3>2. FpsWithin'
      BY <1>1, <3>1, AdjustedFps
    <3>3. ratio' # ratio => ratio' <= target_ratio
      BY <1>1, <3>1, AdjustRatioType
    <3> QED BY <2>1, <3>1, <3>2, <3>3
  <2>6. ASSUME NEW u \in Users, NEW late \in BOOLEAN, user_delay_response_elapsed(u, late)
        PROVE  Step
    <3>1. /\ fps' = RealFps(user_fps, response_delayed', new_user) \/ fps' = fps
          /\ UNCHANGED <<users, custom_fps, auto_adjust_fps, user_fps, ratio>>
      BY <2>6, Zenon DEF user_delay_response_elapsed
    <3>2. CASE fps' = fps
      BY <3>1, <3>2
    <3>3. CASE fps' # fps
      <4>1. fps' = RealFps(user_fps', response_delayed', new_user)
        BY <3>1, <3>3
      <4> QED BY <1>1, <3>1, <4>1, AdjustedFps
    <3> QED BY <3>2, <3>3
  <2>7. ASSUME NEW d \in Displays, NEW elapsed \in BOOLEAN, NEW dynamic \in BOOLEAN,
               update_display_data(d, elapsed, dynamic)
        PROVE  Step
    <3>1. /\ fps' = RealFps(user_fps, response_delayed, new_user)
          /\ UNCHANGED <<users, custom_fps, auto_adjust_fps, user_fps, response_delayed, quality>>
          /\ ratio' = target_ratio \/ AdjustRatio(dynamic, avg_delay) \/ ratio' = ratio
      BY <2>7, Zenon DEF update_display_data, userVars
    <3>2. FpsWithin'
      BY <1>1, <3>1, AdjustedFps
    <3>3. ratio' # ratio => ratio' <= target_ratio
      BY <1>1, <2>2, <3>1, AdjustRatioType
    <3> QED BY <2>1, <3>1, <3>2, <3>3
  <2> QED
    BY <1>1, <2>3, <2>4, <2>5, <2>6, <2>7
       DEF QosNext, Reports, qosVars, on_connection_open, user_custom_fps, user_auto_adjust_fps,
           new_display, remove_display, set_support_changing_quality, FreshEnds
<1>2. QosInit => Clocked /\ RecordsMatch
  <2> SUFFICES ASSUME QosInit PROVE Clocked /\ RecordsMatch
    OBVIOUS
  <2>1. Clocked
    BY DEF QosInit, Clocked, None
  <2>2. RecordsMatch
    BY DEF QosInit, RecordsMatch
  <2> QED BY <2>1, <2>2
<1>3. QosTypeOK /\ QosTypeOK' /\ Clocked /\ RecordsMatch' /\ [QosNext]_qosVars =>
         [/\ fps' # fps => FpsWithin'
          /\ ratio' # ratio => ratio' <= target_ratio'
          /\ RecordsMatch']_qosVars
  BY <1>1
<1> QED
  BY <1>2, <1>3, ClockedStep, RecordsStep, QosTypeCorrect, PTL DEF QosSpec, Bounded
=============================================================================
