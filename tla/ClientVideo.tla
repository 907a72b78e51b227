----------------------------- MODULE ClientVideo -----------------------------
(***************************************************************************)
(* How the controlling side shows one display: the loop of the session     *)
(* (client/io_loop.rs) takes frames from the peer and requests from the    *)
(* interface, a thread decodes (start_video_thread, client.rs).  A key     *)
(* frame goes to the thread over a channel, any other frame into a bounded *)
(* queue with a note about it on the channel; a full queue drops its       *)
(* oldest frame.  A request for a new key frame makes the thread discard   *)
(* what it takes from the queue until a key frame comes.                   *)
(*                                                                         *)
(* Of a frame only its codec is kept, and its age: the number of frames    *)
(* that came after it.  The peer is what VideoService promises: an encoder *)
(* starts with a key frame, after the SwitchDisplay if there is one, and a *)
(* request is answered by a new encoder.                                   *)
(*                                                                         *)
(* Bug_ definitions are the definition that follows them with a mistake.   *)
(***************************************************************************)
EXTENDS Integers, Sequences, FiniteSets

CONSTANTS Formats,          \* codecs
          Default,          \* the codec both sides always have
          Bad,              \* codecs this computer cannot decode
          VIDEO_QUEUE_SIZE,
          MaxKeys,          \* bound: key frames on the channel
          MaxSender,        \* bound: requests waiting for the loop
          MaxOverflows,     \* bound: frames dropped
          MaxTouches        \* bound: requests of the user and of the status timer

ASSUME ClientVideoAssumption ==
    /\ "nothing" \notin Formats
    /\ Default \in Formats /\ Bad \subseteq Formats \ {Default}
    /\ VIDEO_QUEUE_SIZE \in Nat \ {0} /\ MaxKeys \in Nat \ {0}
    /\ MaxSender \in Nat \ {0} /\ MaxOverflows \in Nat /\ MaxTouches \in Nat

VARIABLES encoder,          \* the codec of the peer's frames, Nothing before a key frame
          due,              \* it has to make a new encoder
          unusable,         \* codecs it knows are not supported here
          asked, known,     \* a request for a new encoder it has not read, and such codecs
          sender,           \* requests to the loop of the session
          channel,          \* video_sender
          video_queue,
          discard_queue,
          popped,           \* the frame taken from the queue, if there is one
          decoder,          \* its codec, or Nothing before the first frame
          last,             \* the age of the last frame decoded, or NoKey
          first_frame,
          fail_counter,
          mark_unsupported

\* Bounds, and history: since the key frame that the decoder has arrived, a frame
\* was dropped or the user had the decoder reset.
VARIABLES overflows, touches, spoilt

peerVars == <<encoder, due, unusable, asked, known>>
queueVars == <<channel, video_queue>>
decoderVars == <<decoder, last, first_frame, fail_counter>>
boundVars == <<overflows, touches>>
clientVars == <<peerVars, sender, queueVars, discard_queue, popped, decoderVars,
               mark_unsupported, boundVars, spoilt>>

Nothing == "nothing"
MAX_DECODE_FAIL_COUNTER == 3

\* A decoder without a key frame; a frame too old to be followed by one of the
\* queue.
NoKey == -1
Old == VIDEO_QUEUE_SIZE + MaxKeys + 1

Key(f) == [type |-> "key", format |-> f, age |-> 0, spoilt |-> FALSE]
Token == [type |-> "token"]
Reset(byUser) == [type |-> "reset", byUser |-> byUser]
Refresh == [type |-> "refresh"]
ResetDecoder == [type |-> "reset"]
Marks(F) == [type |-> "marks", formats |-> F]

IsKey(m) == m.type = "key"
Tokens == {i \in DOMAIN channel : channel[i] = Token}
Keys == {i \in DOMAIN channel : IsKey(channel[i])}

\* There is a note for every frame of the queue.
ClientTypeOK ==
    /\ encoder \in Formats \cup {Nothing} /\ due \in BOOLEAN /\ asked \in BOOLEAN
    /\ unusable \subseteq Formats /\ known \subseteq Formats
    /\ sender \in Seq({Refresh, ResetDecoder} \cup {Marks(F) : F \in SUBSET Formats})
    /\ Len(sender) <= MaxSender + 2
    /\ channel \in Seq({Token, Reset(TRUE), Reset(FALSE)} \cup
                      [type : {"key"}, format : Formats, age : 0 .. Old, spoilt : BOOLEAN])
    /\ video_queue \in Seq([format : Formats, age : 0 .. Old - 2])
    /\ Len(video_queue) <= VIDEO_QUEUE_SIZE
    /\ Cardinality(Tokens) = Len(video_queue)
    /\ discard_queue \in BOOLEAN
    /\ popped \in Seq([format : Formats, age : 0 .. Old, follows : BOOLEAN]) /\ Len(popped) <= 1
    /\ decoder \in Formats \cup {Nothing} /\ last \in NoKey .. Old
    /\ last # NoKey => decoder # Nothing
    /\ first_frame \in BOOLEAN /\ fail_counter \in 0 .. MAX_DECODE_FAIL_COUNTER
    /\ mark_unsupported \subseteq Formats
    /\ overflows \in 0 .. MaxOverflows /\ touches \in 0 .. MaxTouches /\ spoilt \in BOOLEAN

ClientInit ==
    /\ encoder = Nothing /\ due = FALSE /\ unusable = {} /\ asked = FALSE /\ known = {}
    /\ sender = <<>> /\ channel = <<>> /\ video_queue = <<>>
    /\ discard_queue = FALSE /\ popped = <<>>
    /\ decoder = Nothing /\ last = NoKey
    /\ first_frame = TRUE /\ fail_counter = 0
    /\ mark_unsupported = {}
    /\ overflows = 0 /\ touches = 0 /\ spoilt = FALSE

-----------------------------------------------------------------------------
(* Messages of the peer: handle_msg_from_peer.                             *)

\* Every frame that is still around is one frame older.
Older(a) == IF a \in {NoKey, Old} THEN a ELSE a + 1
Aged(frames) == [i \in DOMAIN frames |-> [frames[i] EXCEPT !.age = Older(@)]]
AgedChannel ==
    [i \in DOMAIN channel |-> IF IsKey(channel[i]) THEN [channel[i] EXCEPT !.age = Older(@)]
                              ELSE channel[i]]
DecoderAges ==
    /\ popped' = Aged(popped)
    /\ last' = Older(last)
    /\ UNCHANGED <<discard_queue, decoder, first_frame, fail_counter, mark_unsupported, touches>>

\* A frame that is no key frame.  A full queue drops its oldest, asks for a key
\* frame, and notes nothing: there are as many notes as frames.
Spoilt(seq) ==
    [i \in DOMAIN seq |-> IF IsKey(seq[i]) THEN [seq[i] EXCEPT !.spoilt = TRUE] ELSE seq[i]]
Push ==
    /\ Len(video_queue) < VIDEO_QUEUE_SIZE
    /\ video_queue' = Append(Aged(video_queue), [format |-> encoder, age |-> 0])
    /\ channel' = Append(AgedChannel, Token)
    /\ UNCHANGED <<sender, overflows, spoilt>>
Bug_Drop(requests) ==
    /\ Len(video_queue) = VIDEO_QUEUE_SIZE
    /\ overflows < MaxOverflows /\ overflows' = overflows + 1
    /\ Len(sender) < MaxSender
    /\ video_queue' = Append(Tail(Aged(video_queue)), [format |-> encoder, age |-> 0])
    /\ channel' = Append(Spoilt(AgedChannel), Token)
    /\ spoilt' = TRUE
    /\ sender' = sender \o requests
Drop(requests) ==
    /\ Len(video_queue) = VIDEO_QUEUE_SIZE
    /\ overflows < MaxOverflows /\ overflows' = overflows + 1
    /\ Len(sender) < MaxSender
    /\ video_queue' = Append(Tail(Aged(video_queue)), [format |-> encoder, age |-> 0])
    /\ channel' = Spoilt(AgedChannel)
    /\ spoilt' = TRUE
    /\ sender' = sender \o requests
Bug_VideoFrameDrops ==
    /\ encoder # Nothing
    /\ Push \/ Drop(<<>>)
    /\ DecoderAges
    /\ UNCHANGED peerVars
VideoFrame ==
    /\ encoder # Nothing
    /\ Push \/ Drop(<<Refresh>>)
    /\ DecoderAges
    /\ UNCHANGED peerVars

\* A key frame: the first of a new encoder, because this side asked or for a
\* reason of the peer's own.
KeyFrame(f) ==
    /\ f \notin unusable \/ f = Default
    /\ Cardinality(Keys) < MaxKeys
    /\ encoder' = f /\ due' = FALSE
    /\ channel' = Append(AgedChannel, Key(f))
    /\ video_queue' = Aged(video_queue)
    /\ DecoderAges
    /\ UNCHANGED <<asked, known, unusable, sender, overflows, spoilt>>

\* The display's data, sent before the first frame of an encoder.
Switched(f) ==
    /\ Len(channel) < 2 * VIDEO_QUEUE_SIZE + 2 * MaxKeys
    /\ encoder # Nothing /\ encoder' = f
    /\ channel' = Append(channel, Reset(FALSE))
    /\ UNCHANGED <<due, unusable, asked, known, sender, video_queue, discard_queue, popped, decoderVars,
                   mark_unsupported, boundVars, spoilt>>
Bug_SwitchDisplay == Switched(encoder)
SwitchDisplay == Switched(Nothing)

\* The peer reads what it was sent; it needs a new encoder when it is asked for
\* one, and when its codec is not supported.
PeerReads ==
    /\ asked \/ known # unusable
    /\ asked' = FALSE
    /\ unusable' = known
    /\ due' = (due \/ asked \/ encoder \in known \ {Default})
    /\ UNCHANGED <<encoder, known, sender, queueVars, discard_queue, popped, decoderVars,
                   mark_unsupported, boundVars, spoilt>>

-----------------------------------------------------------------------------
(* Requests to the loop: handle_msg_from_ui.                               *)

\* A request for a key frame goes to the peer, and first makes the thread
\* discard what is queued.
HandleRefresh ==
    /\ sender # <<>> /\ Head(sender) = Refresh /\ sender' = Tail(sender)
    /\ discard_queue' = TRUE
    /\ asked' = TRUE
    /\ UNCHANGED <<encoder, due, unusable, known, queueVars, popped, decoderVars, mark_unsupported, boundVars,
                   spoilt>>
HandleReset ==
    /\ sender # <<>> /\ Head(sender) = ResetDecoder /\ sender' = Tail(sender)
    /\ channel' = Append(channel, Reset(TRUE))
    /\ UNCHANGED <<peerVars, video_queue, discard_queue, popped, decoderVars, mark_unsupported,
                   boundVars, spoilt>>
HandleMarks ==
    /\ sender # <<>> /\ Head(sender).type = "marks" /\ sender' = Tail(sender)
    /\ known' = Head(sender).formats
    /\ UNCHANGED <<encoder, due, unusable, asked, queueVars, discard_queue, popped, decoderVars, mark_unsupported,
                   boundVars, spoilt>>

\* The user asks for a refresh; or fps_control finds the queue long.
refresh_video ==
    /\ touches < MaxTouches /\ touches' = touches + 1
    /\ Len(sender) < MaxSender
    /\ sender' = Append(sender, Refresh)
    /\ UNCHANGED <<peerVars, queueVars, discard_queue, popped, decoderVars, mark_unsupported,
                   overflows, spoilt>>

\* The user changes how frames are drawn.
use_texture_render_changed ==
    /\ touches < MaxTouches /\ touches' = touches + 1
    /\ Len(sender) < MaxSender
    /\ sender' = sender \o <<ResetDecoder, Marks(mark_unsupported), Refresh>>
    /\ UNCHANGED <<peerVars, queueVars, discard_queue, popped, decoderVars, mark_unsupported,
                   overflows, spoilt>>

-----------------------------------------------------------------------------
(* The thread: start_video_thread, VideoHandler.                           *)

\* What handle_frame makes of a frame, and the check after it.  The decoder is
\* made anew for another codec; a frame that is neither a key frame nor follows
\* the last one decoded may be shown, wrongly, or fail.
Decode(format, age, starts, result) ==
    LET new == decoder # format
        had == IF new THEN NoKey ELSE last
        fails == IF new THEN 0 ELSE fail_counter
        able == format \notin Bad
        failed == IF result = "shown" THEN 0
                  ELSE IF new \/ first_frame \/ fails = MAX_DECODE_FAIL_COUNTER
                  THEN MAX_DECODE_FAIL_COUNTER ELSE fails + 1
        marks == failed = MAX_DECODE_FAIL_COUNTER /\ format \notin mark_unsupported
        marked == mark_unsupported \cup {format}
        asks == (IF result = "error" THEN <<Refresh>> ELSE <<>>)
                \o (IF marks THEN <<Marks(marked)>> ELSE <<>>)
    IN  /\ \/ able /\ starts /\ result = "shown" /\ last' = age
           \/ able /\ ~starts /\ had # NoKey /\ result \in {"shown", "blank", "error"} /\ last' = had
           \/ ~able /\ result \in {"blank", "error"} /\ last' = NoKey
           \/ able /\ ~starts /\ had = NoKey /\ result \in {"blank", "error"} /\ last' = NoKey
        /\ asks # <<>> => Len(sender) < MaxSender
        /\ sender' = sender \o asks
        /\ decoder' = format
        /\ first_frame' = FALSE
        /\ fail_counter' = failed
        /\ mark_unsupported' = IF marks THEN marked ELSE mark_unsupported

\* MediaData::VideoFrame: a key frame ends the discarding.
TakeKey(result) ==
    /\ popped = <<>> /\ channel # <<>> /\ IsKey(Head(channel))
    /\ LET m == Head(channel)
       IN  /\ Decode(m.format, m.age, TRUE, result)
           /\ spoilt' = m.spoilt
    /\ channel' = Tail(channel)
    /\ discard_queue' = FALSE
    /\ UNCHANGED <<peerVars, video_queue, popped, boundVars>>

\* MediaData::VideoQueue, in two steps: the frame is taken, then the flag looked
\* at.
Pop ==
    /\ popped = <<>> /\ channel # <<>> /\ Head(channel) = Token
    /\ LET vf == Head(video_queue)
       IN  popped' = <<[format |-> vf.format, age |-> vf.age,
                        follows |-> vf.format = decoder /\ last = vf.age + 1]>>
    /\ video_queue' = Tail(video_queue)
    /\ channel' = Tail(channel)
    /\ UNCHANGED <<peerVars, sender, discard_queue, decoderVars, mark_unsupported, boundVars,
                   spoilt>>
Discard(still) ==
    /\ discard_queue /\ discard_queue' = still
    /\ UNCHANGED <<sender, decoderVars, mark_unsupported>>
DecodePopped(result) ==
    /\ ~discard_queue
    /\ LET vf == Head(popped) IN Decode(vf.format, vf.age, vf.follows, result)
    /\ UNCHANGED discard_queue
Bug_Look(result) ==
    /\ popped # <<>> /\ popped' = <<>>
    /\ Discard(FALSE) \/ DecodePopped(result)
    /\ UNCHANGED <<peerVars, queueVars, boundVars, spoilt>>
Look(result) ==
    /\ popped # <<>> /\ popped' = <<>>
    /\ Discard(TRUE) \/ DecodePopped(result)
    /\ UNCHANGED <<peerVars, queueVars, boundVars, spoilt>>

\* MediaData::Reset: a new decoder of the same codec, if there is one.
TakeReset ==
    /\ popped = <<>> /\ channel # <<>> /\ Head(channel).type = "reset"
    /\ channel' = Tail(channel)
    /\ spoilt' = (spoilt \/ Head(channel).byUser)
    /\ last' = NoKey
    /\ IF decoder = Nothing THEN UNCHANGED <<first_frame, fail_counter>>
       ELSE first_frame' = TRUE /\ fail_counter' = 0
    /\ UNCHANGED <<peerVars, sender, video_queue, discard_queue, popped, decoder,
                   mark_unsupported, boundVars>>

-----------------------------------------------------------------------------
Results == {"shown", "blank", "error"}
SessionLoop == HandleRefresh \/ HandleReset \/ HandleMarks
Thread ==
    \/ Pop \/ TakeReset
    \/ \E result \in Results : TakeKey(result) \/ Look(result)
ClientNext ==
    \/ VideoFrame \/ SwitchDisplay \/ PeerReads
    \/ \E f \in Formats : KeyFrame(f)
    \/ SessionLoop
    \/ refresh_video \/ use_texture_render_changed
    \/ Thread

ClientSpec == ClientInit /\ [][ClientNext]_clientVars

\* The loop and the thread run on; the peer reads what it is sent, and a new
\* encoder of it sends its first frame.
Answer == (due \/ encoder = Nothing) /\ \E f \in Formats : KeyFrame(f)
ClientFairness == WF_clientVars(SessionLoop) /\ WF_clientVars(Thread) /\ WF_clientVars(PeerReads) /\ WF_clientVars(Answer)
ClientFairSpec == ClientSpec /\ ClientFairness

-----------------------------------------------------------------------------
\* A frame that is decoded and is no key frame follows the one decoded before,
\* unless a frame was dropped or the decoder reset on the user's behalf since the
\* key frame came, or its codec cannot be decoded: what discards frames does not stop before a key frame.
Clean ==
    popped # <<>> /\ ~discard_queue =>
        Head(popped).follows \/ spoilt \/ Head(popped).format \in Bad

\* A codec is given up for the rest of the session only if this computer cannot
\* decode it, or a frame was dropped, or the user had the decoder reset: one
\* failure is enough after a reset, so the display's data, which resets the
\* decoder, must come before the key frame and not after it ("Send SwitchDisplay
\* on the same channel as VideoFrame to avoid send order problems").
MarkedRightly == [][mark_unsupported' # mark_unsupported => decoder' \in Bad \/ spoilt']_clientVars

\* However the display came to be wrong, without a picture or at a stop, it is
\* right again: a dropped frame, a reset and a failure each have a key frame
\* asked for, which ends the discarding.
Wrong == spoilt \/ discard_queue \/ last = NoKey
Recovers == Wrong ~> ~Wrong
=============================================================================
