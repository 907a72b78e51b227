# A verification project for HopToDesk

HopToDesk (this repository, a descendant of RustDesk) shares a computer's screen, input, sound,
clipboard, files and terminals with a peer. This directory holds TLA+ specifications of the parts
whose difficulty is in their order of events, the TLC configurations that check them, and proofs
that TLAPS checks. Paths below are relative to the repository; `service.rs:354` is
`src/server/service.rs`, line 354.

1. [The system](#1-the-system)
2. [The modules](#2-the-modules)
3. [The runs](#3-the-runs)
4. [The proofs](#4-the-proofs)
5. [What the code does that one would not expect](#5-what-the-code-does-that-one-would-not-expect)
6. [What is left out](#6-what-is-left-out)
7. [The plan](#7-the-plan)

To check a run, `tlc -config MCFileTransfer.cfg MCFileTransfer`; to check proofs,
`tlapm VideoProofs.tla`. Definitions named `Bug_...` belong to no specification: each is the
definition that follows it with a plausible mistake, and the property named beside it in
`PROJECT.json` fails when it is put in place of the right one. `PROJECT.json` also maps every
definition to the lines of code it stands for.

## 1. The system

A **controlled side** runs a server: one `Server` object with a set of services and a set of
connections. Each connection is a task of the multi-threaded tokio runtime (`server.rs:579`), so
two connections really run at the same time. Each service has a thread of its own, also outside the
runtime. A **controlling side** runs one loop per session (`client/io_loop.rs`) and a user interface.

| component | state | operations | speaks to | what is hard | what makes it correct |
|---|---|---|---|---|---|
| service framework, `server/service.rs` | `subscribes`, `new_subscribes`, `active` behind one `RwLock` | subscribe, unsubscribe, `snapshot`, `send`, `run`/`repeat`, `join` | connections (through the server's lock), the thread of the service | a snapshot takes the lock twice, `is_subed` too; connections come and go in between | a subscriber is told the present state before it gets changes; nobody is sent anything after leaving; `join` returns |
| cursor service, `server/input_service.rs` | the last cursor sent | `run_cursor`, `reset` | framework, OS | what was sent is recorded when nobody listened | every subscriber shows the cursor the OS shows |
| screen capture, `server/video_service.rs` | the encoder, the frame being waited for, one channel of reports for all displays | the capture loop, refresh, display changes, the wait of at most 3 s | connections, video quality, privacy mode | subscribers that come during an iteration; late, foreign and lost reports; encoders that fail | a peer gets no frame it cannot decode; frames never stop; a refresh request is served |
| display list, `server/display_service.rs` | `SYNC_DISPLAYS`, its `is_synced`, a flag to ignore changes | check, broadcast, answer at login, ignore and catch up; recorded resolutions | three kinds of threads | reading the displays and recording them are two steps of three actors | every subscriber ends up with the present list |
| connection lists and sessions, `server/connection.rs` (`raii`) | `ALIVE_CONNS`, `AUTHED_CONNS`, `SESSIONS`, wake lock, wallpaper | log in, drop, end of a session, count | desktop, wake lock thread | guards are dropped between reading and acting | what the first remote session changed, the last one restores |
| file transfer, `libs/hbb_common/src/fs.rs` and its four callers | a job on each side, `.download` and `.digest` files | send, receive, digest, confirm, block, done, error, cancel, resume | two processes and a user | lost connections, crashes, resumption, late answers | no broken file under its final name; everything promised is delivered; a job ends |
| server registry, `server.rs` | services and connections by name and id, `CONN_COUNT` | add, remove, subscribe, capture a set of displays | all services | services that come while connections move; a count that is refreshed by hand | subscriptions are those asked for and allowed |
| connection loop, `server/connection.rs` | login state, permissions, options, voice call | login, permission switches, option messages, displays, calls, closing | every service, the connection manager | the order of closing; what a handler changes before and after the lock; messages of the manager before the login | a service without permission has no subscriber; whoever closes is gone everywhere and the manager is told |
| video quality, `server/video_qos.rs` | delays and wishes per user, records per display | delay reports, wishes, adjust | capture threads, connections | shared by all; reset when the last user leaves while threads run | rates in bounds, least over users; the rate recovers |
| privacy mode, `privacy_mode.rs`, `privacy_mode/` | the implementation and the connection holding it | on, off, switch, Ctrl+P, recovery | display list, capture | an asynchronous start answered after its time-out; several ways to turn off; a crash with the displays off | the state of the machine, the holder and what peers were told agree |
| terminals, `server/terminal_service.rs` | services by id, their shells, a reader thread and a channel each | log in, open, read, close, clean up | OS, connections | a service removed while a connection is in a call on it; two connections of one service | output before the end of a shell, and both reach the peer |
| port forwarding, `port_forward.rs` with `connection.rs` | the login, the socket to the target, the change to raw bytes | log in, test the delay, type a password, relay | connection manager, a local program | the two ends stop reading messages at different times | no byte is lost, and none is read as a message |
| audio, clipboard, portable service, input | a thread or process each | | framework, OS | formats before frames; echoes; shared memory without locks | |
| controlling side, `client/io_loop.rs`, `client.rs` | per display a queue, a channel and a decoder thread; codecs given up; jobs | messages of the peer, requests of the UI, decoding | the controlled side | key frames overtake the queue; a full queue drops a frame; discarding and requests race; one failure after a reset gives a codec up | no frame is decoded after the wrong one; a wrong picture is made right; only bad codecs are given up |
| connection manager, `ui_cm_interface.rs` | the clients shown, their write jobs | | connections over IPC | a second process writes the files | |
| rendezvous, relay, encryption, configuration | sockets, counters, files | | outside services | | |
| interfaces, platforms, codecs, vendored libraries | | | | | |

`PROJECT.json` lists all of them with their status, and under `hazards` the places, by line, where
something can go wrong that a test would hardly reach.

## 2. The modules

**ServiceInner** is the state of `ServiceInner<T>` and one operator for each critical section of
its lock. Every service module extends it: `OnSubscribe`, `OnUnsubscribe`, `SwapNewSubscribes` (the drop
of a `ServiceSwap`), `Deactivate` (`join`). What may run between two sections of one function is decided by
the module that composes them.

**CursorService** = ServiceInner + the thread of `ServiceTmpl::repeat` around `run_cursor` + connections
that hold the server's write lock during `Server::subscribe` + the drop of the `Server`. The places of the
thread (`worker`) are the points where it does not hold the lock: `is_subed` is `IsSubed` and
`IsSubedNew`, because each operand of its `||` takes its own guard; a snapshot is `Snapshot`, `SwapSend`,
`SwapDrop`.

**VideoService** = ServiceInner + the capture loop (`run`, `handle_one_frame`, `VideoFrameController`) +
per connection its queue and the acknowledgements its peer owes. A frame is only its place in the stream
of its encoder: `behind` holds the ids that missed a frame of the present one. The reasons to leave the loop
are left to chance. With `Interference` another display is captured at the same time, whose frames use the
same channel of reports.

**DisplayService** = ServiceInner + the display thread + logins, a capture thread that refreshes and a
privacy mode, each of which reads the displays in one step and records them in another.

**AuthedConns** is the life of a connection outside its services: one action per critical section of
`mod raii`, so that `AUTHED_CONNS` may change between any two of them; while a connection is in
`check_remove_session` it holds `SESSIONS`. A connection of any type but
port forwarding takes messages and, if it has the keyboard, may change the resolution (`connection.rs:3187`, `3541`); only
`Remotes` count for its restoration.

**ClientVideo** is one display at the controlling side: the loop of the session, which puts key frames on a channel
and other frames into a bounded queue with a note on the channel, and the thread that decodes. Of a frame only the
codec and the age are kept (how many frames came after it), which tells whether it follows the one decoded before. The
peer is what VideoService promises: an encoder starts with a key frame, after the `SwitchDisplay` if there is one, and
a request gets a new encoder. Taking a frame from the queue and looking at `discard_queue` are two steps.

**FileTransfer** is a session of jobs between a reader and a writer with two FIFO links. The record `transfer`,
one of the constant `Transfers`, chooses the direction, and with it which process holds which half: `OnDigestDownload` is the loop of the
controlling side, `OnDigestUpload` the connection manager of the controlled one. A file is a sequence of
pieces `<<version, index>>`, so that "complete" and "of one version" are visible; the three names of a file
on the writer's disk are `final`, `download`, `digest`. `Reconnect` ends the session (loss of the
connection, or a crash of the controlling side, which then finds what the session before saved) and loads
the jobs again; `ChangeSource` changes a file between transfers. `excused` and `misplaced` are history
variables that spell out the exceptions described in section 5.

**ServiceAccess** is what connections and services together promise, with nothing of how: a connection is
out, in, or done, and `sees` a set of services. Each step moves one connection and changes what that one sees,
nothing of another's; inside it sees what its kind can have; at its end it sees none, from which nothing leads
back. Two sets of services are outside that rule and have names: `Early` ones, which a switch of the connection
manager hands out before the login, and `Loose` ones, which an option or a switch hands out to any kind. The kinds tell
little apart in the code: who logged in for the camera can have cameras, and everybody else, a terminal or a file transfer
too, the video of every display. The specification promises no more than that.

**Connections** is the task of a connection from start to end, for any number of connections, with the registry
they share. Each action is the part of a handler between two uses of shared state (the server's lock, a global,
a message of another task): a login is answered, its session is counted, its services are subscribed to; a
closing connection leaves the registry, then the calls, then the count. A subscription is one step, which
CursorService splits. Displays may be asked for by any answered connection (`Answered`), also before it is registered:
`video_source` looks only for a camera connection, whose cameras are one service here. It implements ServiceAccess:
`Access == INSTANCE ServiceAccess WITH stage <- ..., sees <- seen, ...`.

**PrivacyMode** is the lock `PRIVACY_MODE`, held over calls of the platform (`mutex`), the three implementations
of Windows, the worker thread that goes on when its connection has stopped waiting after 7.5 s, the tasks that
turn the mode on and off, the local user's Ctrl+P, the connection manager's switch, the video service that sends
others away, and a crash followed by the recovery from the registry.

**VideoQoS** is the controller as one atomic object. A delay is what `avg_delay` returns, so any value may follow
any; ratios are hundredths, and of the factors of `adjust_ratio` only direction and bounds are kept. The rate is
the code's arithmetic.

**TerminalService** has services as objects: the registry maps an id to one, and a connection in a call may hold
one that the registry no longer has. A shell has a channel of bounded length, a reader thread, a lock and a child
process that runs, has ended or has been collected. `piped` says whether the machine runs Windows. There a
shell has pipes and not a PTY: a second thread and the echo write to its channel beside the reader (`Writing`), and since
`session.child` is never set, a terminal that is opened again always counts as dead and its shell is replaced (`Dead`).

**PortForward** is one forwarded connection at both ends with the two streams between them. What is on a stream
is a message or a piece of raw data, and each end reads it as what it believes it to be: the pieces a program
sent are numbered, so that one lost, reordered or taken for a message is visible.

History variables are read by properties and never by a guard: `late`, `missed`, `behind`, `excused`, `misplaced`; in
AuthedConns `alone`, `asked`, `assumed`; in Connections `forced`, `refocused`, `uncounted`, `robbed`, `stray`, `wanted`,
`crossed`; in PrivacyMode `robbed`, `late`, `torn`, `jammed`; in VideoQoS `orphans`; in TerminalService
`alone`; in PortForward `abrupt`, `waited`; in ClientVideo `spoilt`.

## 3. The runs

| run | instance | properties |
|---|---|---|
| `cursor` | two connections, two cursors, the server dropped at any time | `Informed`; `NothingAfterRemoval`; `CallTakesEffect`; `CatchesUp`; `JoinReturns` |
| `video_service` | one display; a peer that asks for refreshes at any moment beside one that may never acknowledge | `Decodable`; `NoNeedlessTimeout`; `RefreshIsServed` |
| `video_live` | the same without requests, while another display interferes | `FramesKeepComing` |
| `client_video` | two codecs, one of them undecodable, a queue of two, one dropped frame, one request of the user | types; `Clean`; `MarkedRightly`; `Recovers` |
| `authed_safety` | two remote sessions and a file transfer of one peer, each of which may change the resolution, in any interleaving | `AuthedAlive`; `WallpaperRestored`; `ResolutionRestored`; `WakeLockFollows` |
| `display_list` | two connections, two changes, one privacy mode | `InSync`; `AllLearn` |
| `file_transfer` | a file, an empty directory and an empty file downloaded by two jobs over two sessions; or two files (1 and 3 pieces), which may change once, uploaded by one job over three sessions, offsets modulo 2 | types; `Resumable`; `FinalReplaced`; `Delivered`; `JobEnds` |
| `connections` | a desktop connection with two displays and a camera connection that calls, which ask for displays and switch them | `Follows`; `CameraHears`; `Attended`; `CallsSettled`; `ToldOfEnd`; `RefinesAccess` |
| `privacy` | two connections, two workers, both kinds of Windows, three calls, one crash | `Accounted`; `HandedOver` |
| `qos` | one user and one display, good and bad delays, three joins and requests | `Bounded`; `Recovers` |
| `terminal` | two connections of one service id, two services in turn, two shells, with a PTY and with pipes | types; `Served`; `OutputFirst` |
| `port_forward` | two pieces each way, two TestDelays, two typed passwords, one message of the manager | `Tunnelled`; `Understood`; `Carried` |

The types of every module are proved (section 4); besides FileTransfer's, runs check those of ClientVideo and
TerminalService. Five more configurations refute a sentence of the code; section 5 names them.

**Bounds.** Two connections give the one that is served and the one that comes or leaves meanwhile; a third
behaves like one of the two, and the theorems of section 4 hold for any number. For the flow control of frames
queues of one suffice, since a full queue only delays the sender. Two remote sessions and a
file transfer are the fewest that overlap in all ways; two counts on the way to the wake-lock thread are the
fewest that can overtake each other. A resume that goes wrong in the second session is seen in the third. No run
has a job of a single file, whose skip the code reports as an error (`job_skipped`,
`fs.rs:947`): it is the case N = 1 of `Finish`. `OffsetLimit` 2 makes the offset of a partial file of 2 pieces wrap to 0 and of 3 to 1, as a
`uint32` does at 4 GiB; two versions give one change. A desktop and a camera are the two kinds that are registered, and each is
one of the two that `video_source` tells apart; terminals and file transfers, which are neither, are in the theorems. The desktop's
peer sets and clears the options of a view-only user and the one that follows windows together. A
device chosen once can arrive before, in and after a call. Two workers are one that is waited for and one that is not;
three calls are on, refused or superseded, and on again. The arithmetic of VideoQoS makes one user and one display
the largest instance that checks liveness in minutes: the minimum over several users and the reset of the
controller with another user's records are not exercised by that run; `Bounded` is proved for any number of both.
A queue of two and one key frame on the channel are the least in which a key frame overtakes a queued frame and a frame is
dropped between two others; one request of the user is one besides those the thread and the queue make. Two services are the one the registry has and the one
a connection still holds; a channel of one piece fills. Two pieces tell "lost", "late" and "swapped" apart.

A bound is a conjunct of a guard named in CONSTANTS: `MaxQueue`, `MaxReports`, `MaxCounts`, `MaxChanges`,
`MaxIgnores`, the fields `versions`, `jobs` and `breaks` of `Transfers`, `MaxKeys`, `MaxSender`, `MaxOverflows`,
`MaxTouches`, `MaxChoices`, `MaxCalls`, `MaxCrashes`, `MaxTimes`,
`MaxServices`, `MaxShells`, `MaxPieces`, `MaxTests`, `MaxTyped`, `MaxNotices`. Symmetry is used in `authed_safety`
and `privacy`, which check no liveness. `CHECK_DEADLOCK FALSE` is set where everything may come to an end: the
bounded changes of DisplayService, the jobs of FileTransfer, the connections of Connections, PrivacyMode, VideoQoS
and TerminalService, both ends of PortForward.

**Fairness** follows from what schedules each step.

- Threads and tasks run: weak fairness of the service thread, of a connection's call in progress, of the
  message handlers and of the reader's 1 ms timer (`connection.rs:2891`). Answers to dialogs are weakly fair
  in the file runs: a transfer does wait for its user.
- A failure that is left to chance must not recur for ever: strong fairness of reading the cursor
  (CursorService), of reading the displays (DisplayService), of setting up the capturer, of passing the loop's
  checks, of reaching the snapshot, of encoding (VideoService).
- The wait for reports ends after 3 s whatever arrives: weak fairness of `WaitTimeout`. A connection
  takes what is queued or is closed, because sending ends after `SEND_TIMEOUT_VIDEO`. A peer is never
  assumed to acknowledge.
- `FramesKeepComing` assumes `Churn = FALSE`: a connection that switches displays for ever restarts the
  thread at each subscription, and frames need not appear between two of them.
- VideoQoS: peers answer, connections look once a second (`connection.rs:887`), a second passes. `Recovers`
  supposes in its premise that the network is good from some moment on and that nobody asks for anything new.
- TerminalService: a connection's call goes on and the connection's one-second timer fires; the cleanup thread, shells and
  new logins need never act.
- ClientVideo: the loop and the decoder thread go on, the peer reads what it is sent, and a new encoder sends its
  first frame (`Answer`), which is what `RefreshIsServed` of VideoService shows. Frames in between need never come.
- PortForward: each end reads what has arrived. Programs need write nothing, and nobody need accept a login.

## 4. The proofs

TLAPS proves, for every value of the constants that satisfies the named ASSUME of a module:

| module | theorems |
|---|---|
| CursorServiceProofs | `TypeCorrect`, `DisjointTheorem`, `InformedTheorem`, `NothingAfterRemovalTheorem`, `CallTheorem` |
| VideoProofs | of VideoService `TypeCorrect`, `DecodableTheorem`, `NoNeedlessTimeoutTheorem`; of VideoQoS `QosTypeCorrect`, `AlwaysBounded` |
| SessionProofs | of AuthedConns `TypeCorrect`, `AuthedAliveTheorem`, `WallpaperTheorem`, `ResolutionTheorem`, `WakeLockTheorem`; of FileTransfer `FileTypeCorrect`, `ResumableTheorem`, `FinalReplacedTheorem` |
| DisplayProofs | of DisplayService `TypeCorrect`, `InSyncTheorem`; of ClientVideo `ClientTypeCorrect`, `CleanTheorem`, `MarkedRightlyTheorem` |
| ConnectionsProofs | `TypeCorrect`, `RefinesServiceAccess`, `FollowsTheorem`, `CameraTheorem`, `AttendedTheorem`, `ToldTheorem`, `CallsTheorem` |
| PrivacyModeProofs | `TypeCorrect`, `AlwaysAccounted`, `AlwaysHandedOver` |
| TerminalServiceProofs | `TypeCorrect`, `OutputFirstTheorem`, `AlwaysRestored` |
| PortForwardProofs | `TypeCorrect`, `AlwaysUnderstood`, `AlwaysTunnelled` |

The assumptions are those of ServiceInner (`NeedSnapshot` is a Boolean), and of each module: its services are
created with a snapshot; default values differ from real ones; `Remotes \subseteq Conns` and `Key` is a function;
bounds are positive; a terminal service has ids and terminals; and, for VideoService and Connections, that there are finitely many connections, for TerminalService finitely many ids, because they
are counted. `ConnectionsAssumption` also says that the primary display is one of the displays, whose names are not those of
other services, and that no option message says yes and no to the same option.

*Cursor.* `Informed` is not inductive: between a snapshot's message and the swap the informed ids are still in
`new_subscribes`. `SnapshotInv` adds `SwapInformed` (whoever waits and is not `late` has seen the cursor while
the swap is due), `ResetAlone` (the state is reset only with nobody subscribed) and `Disjoint`.
`NothingAfterRemoval` needs `Disjoint` and that an id that is gone is in neither set. For `CallTakesEffect` an id
that a call to unsubscribe finds in neither set, and that is subscribed all the same, was moved between the two
looks (`MovedIsMissed`).

*Video.* `DecodableInv` says who may be `behind` at each place of the thread: nobody who is subscribed while
a frame is on its way, since the swap of new subscribers ends the encoder's life whenever it adds somebody to
others. `NoNeedlessTimeout` rests on `WaitInv`: every id waited for has its report in the set `fetched`, on the
channel, owed by its peer, or its frame in its queue. It holds when only one display is captured
(`~Interference`), where nobody else takes reports from the channel.

*Connections.* `AliveInv` follows an entry from login to drop. The restoration of the resolution needs the
value recorded, and the one a connection is about to record if nothing is, to be the original one (`OriginalKept`), and
somebody who will restore it (`Restorer`): a remote session, a connection in its restoration, or one in `asked`, which
changed it and is still logged in. The wake lock needs `WakeInv`: as long as changes of `AUTHED_CONNS` do not
overlap (`alone`), the last message sent or on its way is the truth (`LastMessage`, `Truth`).

*Displays.* `SyncInv` adds what the thread has read and not sent, and the connections between login and
subscription, to `InSync`.

*The life of a connection.* The refinement needs what a connection may be subscribed to at each stage (`AccessInv`):
before the login only what a switch gives, then what its kind can have besides (`Allowed`: a camera never a display,
others never a camera), and nothing once it was removed; and that a new connection has nothing (`OpenInv`). Each action
then maps to one of `Switch`, `Inside`, `End` or to a stutter (`Shaped`). `Follows` is strengthened by `Within`: what a desktop
sees of the services that permissions and options decide is never more than they allow, also before it is registered, when
it may ask for displays all the same. `Attended` needs `CountInv` (every camera counted late is registered)
and `RecordInv` (a thread records while a desktop is registered). `CallsSettled` is `CallInv`, which follows the device
through choices that arrive late; `CameraHears` is `HearInv`, for which a camera has no keyboard.

*Privacy mode.* `Accounted` has to be strengthened by what each call under way has done (`Called`), by who may have
switched the screens off and would switch them back (`Screens`), and by what a peer that was answered has been told
(`Answered`); the lock and the pair of a waiting task and its worker are part of the types. `HandedOver` follows step by step.

*Quality.* The least of a set of rates and the latest of the requests exist because they are sets of naturals
(`MinNat`, `LastOne`). `AlwaysBounded` needs that no request is younger than the counter of requests (`Clocked`), so
that the ratio of a new request is that of the latest quality, and that the records of the displays match the
threads (`RecordsMatch`), which is inductive with the types.

*Port forwarding.* `Sides` says what is ahead of the first bytes on each stream: on the way to a client that still reads
messages the `PeerInfo` or a refusal, on the way to a server still in its loop the reply to a `TestDelay`. The latter
holds because an accepted login leaves the server in its loop only while a reply is due, and the `TestDelay` is
ahead of the `PeerInfo`. `Tunnelled` says of each direction that the program at its end has been served the first
`a` pieces, that the pieces from `a + 1` to `b` are on the wire, in order and with none between two of them that
another message could be taken for, and that those after `b` are with the sender (`Upward`, `Downward`); it holds
because nothing but a reply is ahead of data, which needs the replies that are due (`Replies`), the login under way
(`Logins`) and who answered it (`Answers`).

*Terminals.* `TypeOK` is not inductive: emptying a channel frees the shell it finds in the connection's list, and only
`Holding` says that this is the shell the connection has locked (each terminal is listed once, with one shell, and
a locked shell is listed by who locked it). `OutputFirst` needs that a shell that was found ended and is open has an empty
channel unless somebody holds it or it has pipes (`Emptied`), because its reader ended before the channel was read; that a connection that
reads the outputs of a service it has alone finds under each number on its lists the shell it listed, and has noted as closed
only shells marked so (`Settled`), for which nobody else may open or close there; that nothing is noted outside a read
(`Ended`); and that a number not used yet is no shell's that has ended (`Fresh`). `Restored` is no property of a run, since it needs
two terminals and the instance has too many states (TLC has checked it once, in 18 million states): the theorem stands in for it. It
needs that a service has one id and what a connection holds belongs to its id (`Owned`), that nobody else has the id
of a connection that is alone and that it holds the service the registry has (`Solo`), and that `knows` and `named`
together are complete from the first open after a login on (`Synced`).

*Video of the controlling side.* The age of a frame is the number of frames the peer sent after it. Each of those is
still behind it in the queue or is a key frame on the channel (`Covered`), and a key frame there is older than the
frames whose notes come after its own (`Ordered`); so the ages stay below `Old`, and the types hold. `Clean` needs more:
after a key frame that is not spoilt the notes that follow, up to the next key frame, stand for the very frames the peer sent
then, in its codec, and nothing was dropped between them (`Unspoilt`, `Follow`). `MarkedRightly` needs that after
the reset of a `SwitchDisplay` a key frame comes before any other (`Resets`, `KeyFirst`). `Right` carries both to what
the thread has just taken or will take next. The proof uses that the decoder's "nothing" is not a codec, which
`ClientVideoAssumption` states.

*File transfer.* Neither the types nor `Resumable` is inductive: a block is appended to whatever file the writer has
open, and only what the other side and the two links hold says that this is the file, the version and the place the block
was read from. `FileInv` says it job by job (`JobInv`). `Fresh`: a number not used yet is nowhere. `Sends`, `Receives`: what
starts a job is alone on its way. `Reader`, `Tokens`: a reader that waits for an answer about a file is owed one by a digest
on its way, a question to the user, or an `ask` or `confirm` on its way back, and by one of these only. `Digests`,
`Blocks`: the digests and blocks on their way are of the files the reader has passed, and a block is of the version the
writer was told. `Asks`, `Confirms`: an answer that opens a file to go on in it finds it as long as the answer says. `Opens`: an
open file is at least as long as its stream, and its digest file is that of the job unless no more of it comes.
`Cancels`: the reader of a job whose cancel is on its way has dropped it. Besides, the lists name each job once (`ListInv`), a link carries what its side sends (`KindInv`), and one
job writes at a time, now and when what is on its way has arrived (`SingleInv`), which is what the model allows. Each step
leaves the invariant of the jobs it is not about (`Frame`, `Others`) and goes through a lemma for what it does to its own:
`EmitJob`, `ReaderAnswered`, `WriterTold`, `WriterGoesOn`. TLC has checked `FileInv` as an invariant of four instances.

`FinalReplaced` needs `FileInv` and a second invariant, `AllEnd`, of which the link to the writer is the subject. A file
that is open is complete already, or has a block at a wrong place, or what ends it is still to come before anything at
which the writer leaves it (`Filling`, `More`): all its pieces and the empty block after them, an error or a cancel, or
these have not been sent because the reader is still at that file. This is owed as soon as a message that may open a file
is on its way (`Owed`), since in an upload the reader is ahead of the writer. Besides, the files of the blocks on
their way only rise (`Rising`), a `done` is sent when the reader's job is gone (`DoneAfter`), a cancelled download has no
writer (`Dropped`), and no question or skip is under way about a file that is open (`Unasked`). So a block of another file
or a `done` finds the file that is open complete, or is one of the exceptions. Each step keeps `AllEnd` by a lemma of its own
(those that end in `Ends`); TLC has checked it on four instances.

Only model-checked: liveness (nothing under fairness can be proved with this prover) and `Delivered` of FileTransfer.

## 5. What the code does that one would not expect

Five sentences of the code are refuted by a configuration kept beside its module; TLC finds each violated:

- `MCVideoClaim.cfg` (`AllReceived`): "break if all connections have received current frame"
  (`video_service.rs:831`). The reports come over one channel and carry only an id; the late report of a closed
  connection counts.
- `MCAuthedRestore.cfg` (`RestoredAlone`): "Can be cleared because restore resolutions is called when there is no
  client connected." (`display_service.rs:146`). One may have logged in since.
- `MCFileSeek.cfg` (`SoughtTogether`): "If offset is greater than 0, we need to seek to the offset" (`fs.rs:1043`).
  `confirm` ignores a request when `file_num` differs; the writer's `file_num` lags behind until the first block of
  a file, so for every file but the job's first the reader seeks and the writer does not: the tail lands at the
  file's start.
- `MCFileDirectory.cfg` (`DeliveredBeforeMarker`): "Empty directory marker — create dir and skip file handling"
  (`fs.rs:660`). The marker sets `file_num`, and the file before it is never renamed from `.download`.
- `MCPortForwardClaim.cfg` (`NoReplyInData`): "Avoid TestDelay reply injection into rdp data stream"
  (`connection.rs:778`). A login that the user accepts in the connection manager leaves the loop at once
  (`connection.rs:538`), and the outstanding reply reaches the service as data.

The properties that hold state their exceptions, each of them a behaviour of the code:

- `Informed`: an id that registers between a snapshot's message and its swap is moved over without the
  message (`late`). `CallTakesEffect`: `is_subed` reads twice, and an id moved in between seems
  unsubscribed, so a call to unsubscribe may be lost (`missed`).
- `Decodable`: a subscriber that takes over from the last one in one iteration gets no new encoder.
- `WakeLockFollows`: two connections that come or go at once count, and send their counts, in different orders.
- `WallpaperRestored` says one direction only: a session that arrives during a restoration has its wallpaper put back.
- `ResolutionRestored`: any connection that takes messages and may use the keyboard can change the resolution, a file transfer or
  a terminal too (`connection.rs:3187`, `3541`), but only an end looks whether it has to be restored. What such a connection changes
  after the last remote session ended stays changed until some connection is dropped, at the latest itself (`asked`). A change that
  is under way during a restoration can lose its record, and then the display keeps it for good (`assumed`).
- `InSync`: a login before a change and a subscription after the message.
- `FinalReplaced`: a job's first block, and a `Done` without a block, rename what an earlier job left of that
  file, complete or not (`fs.rs:666`).
- `Delivered`: an upload is saved with the reader's `file_num` (`io_loop.rs:1086`); if the writer was behind,
  the resumed job does not return to the file.
- `JobEnds`: after a read error the writer drops the job, the reader sends the next digest and waits for an
  answer for ever, in front of every later job (`fs.rs:1197`).
- `Follows`: the switch of the keyboard gives the cursor to a view-only peer too (`forced`); asking to follow windows
  does so although several displays are shown, and so does the confirmation of the session on Windows (`refocused`).
- `Attended`: a camera connection is registered without a new count (`uncounted`, `server.rs:389`).
- `CallsSettled`: the end of any connection resets the device of another one's call (`robbed`,
  `connection.rs:4120`); a device chosen over IPC may arrive after the last call (`stray`); the acceptance of a call
  may cross the peer's hanging up (`crossed`).
- `RefinesAccess`: the manager's switches act before the login is answered (`Early`), and options and switches reach
  connections of any kind (`Loose`). `CaptureDisplays` and `SwitchDisplay` are answered for every connection that logged in and
  does not forward a port (`connection.rs:2477`, `3403`, `3411`, `3455`, `server.rs:504`): whoever logged in for a terminal or for files can
  have the video of the displays, and a desktop before it is registered.
- `Accounted`: a worker may turn the mode on after its connection has been told that it failed (`late`); some ways to turn it
  off tell nobody (`robbed`); a crash between disabling the displays and saving the recovery leaves them disabled (`torn`); a
  refused hook leaves a window (`jammed`).
- `Served`: a reader that shares its service with another connection may see output go to the other one (`alone`). On Windows
  opening a terminal again stops its live shell, and when no other can be started the error is only logged
  (`terminal_service.rs:738`, `797`): the peer goes on believing in a terminal that is gone.
- `OutputFirst`: the output of a shell that the peer did not open again after its login is skipped, but its end is told. On Windows
  the thread that reads the errors and the echo of what is typed go on after the reader of the standard output ended
  (`terminal_service.rs:948`, `970`), which alone is looked at: what they write may come after the end was found, and is lost.
- `Tunnelled`: besides the reply above, a password typed while the login was accepted goes to the service.
  What the manager has to say while the server waits for the reply reaches a client that is already raw (`waited`).
- `Clean`, `MarkedRightly`: after a dropped frame a key frame sent before the request ends the discarding
  (`client.rs:2773`), and frames that lack one are decoded; a change of how frames are drawn resets the decoder before the
  request for a key frame is sent (`ui_session_interface.rs:574`), so a frame in between may fail as the first one
  and have a good codec given up for the session (`spoilt`).

Met while modelling, outside any property: turning off a mode "that belongs to someone else" is refused
(`privacy_mode.rs:42`), but an attempt that fails turns off whoever has it (`connection.rs:4037`); a hook asked for
while another is installed is marked "unreachable!" (`win_input.rs:34`) and is reached; with two users the
"increase fps" of `video_qos.rs:14` stops near twice the least rate, because each report starts from the rate of all;
"fps is always lower than the minimum fps" (`video_qos.rs:27`) does not hold for delays under 200 ms, whose branch keeps
it at least there; "all connected remote peers" (`server.rs:128`) are the registered ones only; `on_disconnect` of the
terminals and `set_in_session(false, ..)` of the dashboard have no caller; a password typed in a window is sent to every
forwarded port of it, and while one local connection waits for acceptance the port's other ones wait too;
`connect_and_login` drops the interface's `Close` (`port_forward.rs:160`); the send time-out of `connection.rs:493` is
chosen before the login, when its first branch cannot be taken.

## 6. What is left out

- Data: pixels, sound, key codes, text, paths, message encodings. Timing, except for the order of a time-out
  and an answer.
- In FileTransfer: printer jobs; peers without overwrite detection; several jobs writing the same files at once;
  listings that change between sessions; files that change while they are read, or without changing size or
  time; the power failing (`sync_all` is not modelled); a `set_stream_offset` that cannot open its file. A tick
  of the reader sends one block in the model and up to 128 in the code: the writer sees the same sequences,
  and a message for the reader is taken between blocks more often than in the code.
- In AuthedConns: platform calls that fail; the hook at the exit of the process; Linux's wake lock. `SESSIONS` is in the
  model for who waits for it and for logins without a password; no property is about its entries.
- In DisplayService: Wayland; headless machines. In VideoService: what changes quality.
- In Connections: invitations and two-factor codes (a login is answered or not); a switch of the camera, which no field
  remembers; the time stamp of a request that `close_voice_call` does not clear; several cameras, for which one stands;
  port-forwarding logins, which PortForward has.
- In PrivacyMode: macOS; virtual displays of other programs that are unplugged; UAC; platform calls that fail while turning off.
- In VideoQoS: the factors of the ratio; delays as a function of the network. Requests are strictly ordered, where the
  code compares milliseconds.
- In TerminalService: persistent services (`set_persistent`, never reached), the output buffer, what is typed. Stopping a
  shell is one step.
- In ClientVideo: the numbers that `fps_control` sends; several displays; recording; an end of the session.
- In PortForward: the listener and its window; two-factor codes and the limit of attempts; a wrong id; sends that time
  out; lists of sessions. What is forwarded after a second login was refused is in the model, and no property
  is about it.
- Hazards without a property: two jobs that write the same file (`fs.rs:711`); a reader thread that a stop joins while it
  is blocked (`terminal_service.rs:154`).
- Components with status `not_modelled` in `PROJECT.json`: platform calls, third-party and generated code, user
  interfaces for good, the others until the plan reaches them.

## 7. The plan

Done, in the order of importance: the framework with its cursor service, capture, connection lists, the display
list, file transfer, connections and registry with their abstract specification, privacy mode, quality, terminals, port
forwarding, the video of the controlling side. Next:

1. **SecureStream**: frame lengths of `bytes_codec.rs` against their decoder, the counters of `tcp.rs` under a send
   that times out.
2. **AudioService, ClipboardService**: format before frames; echoes; on ServiceInner.
3. **Client**: reconnection, voice calls, the jobs of a reconnected session.

Proofs: `Delivered` of FileTransfer, for which the invariant has to say, over all the sessions of a job, that each file before
the one at hand is there and whole or is one of those it need not deliver.
