---------------------------- MODULE FileTransfer ----------------------------
(***************************************************************************)
(* Transfer jobs (libs/hbb_common/src/fs.rs): the reader of a job sends    *)
(* the files of a directory one after the other, the writer puts each one  *)
(* together under a name of its own, "<file>.download", with the digest of *)
(* what it should become in "<file>.digest", and gives it its final name   *)
(* when the next file starts or the job is done.  Before a file is sent    *)
(* its digest is, and the controlling side decides: send it, skip it, or   *)
(* go on where an earlier transfer was interrupted.                        *)
(*                                                                         *)
(* Upload = FALSE: the controlled side reads (server/connection.rs), the   *)
(* controlling side writes (client/io_loop.rs).  Upload = TRUE: the        *)
(* controlling side reads, the controlled side writes, in its connection   *)
(* manager (ui_cm_interface.rs).                                           *)
(*                                                                         *)
(* A file is a sequence of pieces <<version, index>>; version 0 is a file  *)
(* the writer's disk held before.  Both ends detect overwriting, jobs are  *)
(* of the type Generic, and all of them copy the same files, so at most    *)
(* one job writes at a time.  A file does not change while it is read, and *)
(* a changed file has another modification time or size.                   *)
(*                                                                         *)
(* History variables: `excused' holds, per job, the files it need not      *)
(* deliver, `misplaced' the files a block was written to at another place  *)
(* than the one it was read at.                                            *)
(*                                                                         *)
(* A definition whose name starts with Bug_ is no part of the model: it is *)
(* the definition that follows it with a plausible mistake, kept to show   *)
(* which property finds that mistake.                                      *)
(***************************************************************************)
EXTENDS Integers, Sequences, SequencesExt

CONSTANTS Transfers,    \* what is copied in an instance, of which one is chosen
          OffsetLimit,  \* FileTransferSendConfirmRequest.offset_blk is a uint32
          Absent, NoJob,
          MaxJobs       \* bound: jobs in a session

None == -1   \* data_stream: a position, or None
Skip == -1   \* of a confirm request: an offset, or skip(true)
Strategies == {"ask", "overwrite", "skip"}  \* default_overwrite_strategy

\* A direction, the number of entries of the directory, the pieces of each, the
\* entries that stand for an empty directory; and three bounds: versions of each
\* file, jobs started, connections lost.
IsTransfer(t) == /\ t.upload \in BOOLEAN
                 /\ t.entries \in Nat \ {0}
                 /\ t.size \in [0 .. t.entries - 1 -> Nat]
                 /\ t.markers \subseteq 0 .. t.entries - 1
                 /\ t.versions \in Nat \ {0}
                 /\ t.jobs \in 0 .. MaxJobs /\ t.breaks \in Nat

\* TransferJob, of a reader and of a writer.
ReadJobs(t) ==
    [file_num : 0 .. t.entries, stream : Nat \cup {None}, confirmed : BOOLEAN,
     waiting : BOOLEAN, skipped : BOOLEAN, error : BOOLEAN,
     strategy : Strategies, is_resume : BOOLEAN, is_last_job : BOOLEAN]
WriteJobs(t) ==
    [file_num : 0 .. t.entries, stream : Nat \cup {None}, digest : 0 .. t.versions,
     listed : BOOLEAN, strategy : Strategies,
     is_resume : BOOLEAN, is_last_job : BOOLEAN]

ASSUME FileAssumption == /\ \A t \in Transfers : IsTransfer(t)
                         /\ MaxJobs \in Nat
                         /\ OffsetLimit \in Nat \ {0}
                         /\ Absent \notin Seq(Nat \X Nat) \cup Nat
                         /\ \A t \in Transfers : NoJob \notin ReadJobs(t) \cup WriteJobs(t)

VARIABLES transfer,    \* one of Transfers
          source,      \* per file: its version on the reader's disk
          final, download, digest,  \* the writer's disk, per file
          read_jobs, queue,   \* the reader's jobs, and the order they came in
          write_jobs, write_queue,  \* the writer's
          toReader, toWriter,       \* messages on their way
          asking,      \* dialogs the user has not answered
          started,     \* the last id given to a job
          saved,       \* PeerConfig::transfer of the controlling side
          breaks,      \* counter of the bound
          excused, misplaced        \* history, see above

boundVars == <<transfer, breaks>>
diskVars == <<final, download, digest>>
readVars == <<read_jobs, queue>>
writeVars == <<write_jobs, write_queue>>
jobVars == <<readVars, writeVars>>
netVars == <<toReader, toWriter>>
uiVars == <<asking, started, saved, boundVars>>
historyVars == <<excused, misplaced>>
fileVars == <<source, diskVars, jobVars, netVars, uiVars, historyVars>>

Upload == transfer.upload
N == transfer.entries
FileNums == 0 .. N - 1
Size == transfer.size
Markers == transfer.markers
MaxVersion == transfer.versions
Jobs == 1 .. MaxJobs
MaxBreaks == transfer.breaks

Pieces == (0 .. MaxVersion) \X Nat
Contents == Seq(Pieces)
Whole(f, v) == [i \in 1 .. Size[f] |-> <<v, i>>]

\* A message has the fields of its kind: id, file_num, the version a digest
\* describes, a block and the place it was read at, what a digest check found
\* transferred, what a confirm request says.
Messages ==
    [type : {"receive"}, id : Jobs, file_num : 0 .. N]
    \cup [type : {"send"}, id : Jobs, file_num : 0 .. N]
    \cup [type : {"dir", "cancel", "done", "error"}, id : Jobs]
    \cup [type : {"digest"}, id : Jobs, file_num : FileNums, version : 1 .. MaxVersion,
          is_resume : BOOLEAN]
    \cup [type : {"block"}, id : Jobs, file_num : FileNums, data : Contents, at : Nat]
    \cup [type : {"ask"}, id : Jobs, file_num : FileNums, transferred : Nat]
    \cup [type : {"confirm"}, id : Jobs, file_num : FileNums, offset : Nat \cup {Skip}]

FileTypeOK == /\ transfer \in Transfers
              /\ source \in [FileNums -> 1 .. MaxVersion]
              /\ final \in [FileNums -> Contents \cup {Absent}]
              /\ download \in [FileNums -> Contents \cup {Absent}]
              /\ digest \in [FileNums -> (0 .. MaxVersion) \cup {Absent}]
              /\ read_jobs \in [Jobs -> ReadJobs(transfer) \cup {NoJob}]
              /\ queue \in Seq(Jobs)
              /\ write_jobs \in [Jobs -> WriteJobs(transfer) \cup {NoJob}]
              /\ write_queue \in Seq(Jobs)
              /\ toReader \in Seq(Messages) /\ toWriter \in Seq(Messages)
              /\ asking \subseteq Jobs \X FileNums
              /\ started \in 0 .. MaxJobs
              /\ saved \in Seq([file_num : 0 .. N, excused : SUBSET FileNums])
              /\ breaks \in 0 .. MaxBreaks
              /\ excused \in [Jobs -> SUBSET FileNums]
              /\ misplaced \subseteq FileNums

\* new_read, new_write
NewRead(file_num, last) ==
    [file_num |-> file_num, stream |-> None, confirmed |-> FALSE, waiting |-> FALSE,
     skipped |-> FALSE, error |-> FALSE, strategy |-> "ask",
     is_resume |-> FALSE, is_last_job |-> last]
NewWrite(file_num, last) ==
    [file_num |-> file_num, stream |-> None, digest |-> 0, listed |-> Upload,
     strategy |-> "ask", is_resume |-> FALSE, is_last_job |-> last]

FileInit == /\ transfer \in Transfers
            /\ source = [f \in FileNums |-> 1]
            /\ final \in {g \in [FileNums -> {Absent, << <<0, 1>> >>}] :
                              \A f \in Markers : g[f] = Absent}
            /\ download = [f \in FileNums |-> Absent]
            /\ digest = [f \in FileNums |-> Absent]
            /\ read_jobs = [id \in Jobs |-> NoJob] /\ queue = <<>>
            /\ write_jobs = [id \in Jobs |-> NoJob] /\ write_queue = <<>>
            /\ toReader = <<>> /\ toWriter = <<>>
            /\ asking = {} /\ started = 0 /\ saved = <<>> /\ breaks = 0
            /\ excused = [id \in Jobs |-> {}] /\ misplaced = {}

\* remove_job.
Position(q, id) == CHOOSE i \in DOMAIN q : q[i] = id
Without(q, id) == IF \E i \in DOMAIN q : q[i] = id THEN RemoveAt(q, Position(q, id)) ELSE q

SetRead(id, r) == read_jobs' = [read_jobs EXCEPT ![id] = r] /\ UNCHANGED queue
PushRead(id, r) == read_jobs' = [read_jobs EXCEPT ![id] = r] /\ queue' = Append(queue, id)
RemoveRead(id) == /\ read_jobs' = [read_jobs EXCEPT ![id] = NoJob]
                  /\ queue' = Without(queue, id)
SetWrite(id, w) == write_jobs' = [write_jobs EXCEPT ![id] = w] /\ UNCHANGED write_queue
PushWrite(id, w) == /\ write_jobs' = [write_jobs EXCEPT ![id] = w]
                    /\ write_queue' = Append(write_queue, id)
RemoveWrite(id) == /\ write_jobs' = [write_jobs EXCEPT ![id] = NoJob]
                   /\ write_queue' = Without(write_queue, id)
SendReader(m) == toReader' = Append(toReader, m)
SendWriter(m) == toWriter' = Append(toWriter, m)
Excuse(id, f) == excused' = [excused EXCEPT ![id] = (@ \cup {f}) \cap FileNums]

-----------------------------------------------------------------------------
(* What both ends do with a confirm request.                               *)

ConfirmRead(r, f, offset) ==
    IF r.file_num # f THEN r
    ELSE IF offset = Skip
    THEN [r EXCEPT !.stream = None, !.confirmed = FALSE, !.waiting = FALSE,
                   !.file_num = f + 1, !.skipped = TRUE]
    ELSE [r EXCEPT !.confirmed = TRUE, !.skipped = FALSE,
                   !.stream = IF offset > 0 THEN offset ELSE @]

\* set_stream_offset: its other branches are taken by the reader.
ConfirmWrite(w, f, offset) ==
    IF w.file_num # f THEN w
    ELSE IF offset = Skip
    THEN [w EXCEPT !.stream = None, !.file_num = f + 1]
    ELSE [w EXCEPT !.stream = IF offset > 0 /\ download[f] # Absent /\ digest[f] # Absent
                              THEN offset ELSE @]

ConfirmMessage(id, f, offset) ==
    [type |-> "confirm", id |-> id, file_num |-> f, offset |-> offset]

OffsetOf(transferred) == transferred % OffsetLimit

\* What a remembered answer makes of a file that exists.
Answer(strategy) == IF strategy = "overwrite" THEN 0 ELSE Skip

-----------------------------------------------------------------------------
(* The writer's disk.                                                      *)

\* modify_time gives the file of the job its final name.
Names(w) == w.listed /\ w.file_num < N /\ w.file_num \notin Markers
Renames(w) == Names(w) /\ download[w.file_num] # Absent
FinalNamed(w) == IF Renames(w) THEN [final EXCEPT ![w.file_num] = download[w.file_num]] ELSE final
DownloadNamed(w) == IF Renames(w) THEN [download EXCEPT ![w.file_num] = Absent] ELSE download
DigestNamed(w) == IF Names(w) THEN [digest EXCEPT ![w.file_num] = Absent] ELSE digest

ModifyTime(w) == /\ final' = FinalNamed(w)
                 /\ download' = DownloadNamed(w)
                 /\ digest' = DigestNamed(w)

RemoveDownloadFile(w) ==
    /\ download' = IF Names(w) THEN [download EXCEPT ![w.file_num] = Absent] ELSE download
    /\ digest' = DigestNamed(w)
    /\ UNCHANGED final

\* What a file holds after data is written at a position of it.
Put(content, position, data) ==
    SubSeq(content, 1, position) \o data
        \o SubSeq(content, position + Len(data) + 1, Len(content))

\* is_write_need_confirmation: what of the file was transferred before, and
\* whether the controlling side has to decide.
Bug_TransferredAny(is_resume, f, version) ==
    IF is_resume /\ digest[f] # Absent /\ download[f] # Absent THEN Len(download[f]) ELSE 0
Transferred(is_resume, f, version) ==
    IF is_resume /\ digest[f] = version /\ download[f] # Absent THEN Len(download[f]) ELSE 0
NeedConfirm(transferred, f) == transferred > 0 \/ final[f] # Absent

-----------------------------------------------------------------------------
(* The user of the controlling side.                                       *)

\* One job writes at a time; a job that failed no longer does.
Active(id) == \/ write_jobs[id] # NoJob /\ ~write_jobs[id].is_last_job
              \/ /\ Upload /\ read_jobs[id] # NoJob
                 /\ ~read_jobs[id].is_last_job /\ ~read_jobs[id].error
NoneActive == \A id \in Jobs : ~Active(id)

\* What another job writes is not what this one promised.
ExcuseOthers(id, mine) ==
    excused' = [j \in Jobs |-> IF j = id THEN mine ELSE FileNums]

\* Data::SendFiles; new_read of an upload succeeded.
SendFiles ==
    LET id == started + 1
    IN  /\ NoneActive
        /\ started < transfer.jobs
        /\ started' = id
        /\ ExcuseOthers(id, {})
        /\ IF Upload
           THEN /\ PushRead(id, NewRead(0, FALSE))
                /\ SendWriter([type |-> "receive", id |-> id, file_num |-> 0])
                /\ UNCHANGED <<writeVars, toReader>>
           ELSE /\ PushWrite(id, NewWrite(0, FALSE))
                /\ SendReader([type |-> "send", id |-> id, file_num |-> 0])
                /\ UNCHANGED <<readVars, toWriter>>
        /\ UNCHANGED <<source, diskVars, asking, saved, boundVars, misplaced>>

\* Data::ResumeJob, of a job loaded when the connection was made.
ResumeJob(id) ==
    /\ NoneActive
    /\ ExcuseOthers(id, excused[id])
    /\ IF Upload
       THEN /\ read_jobs[id] # NoJob /\ read_jobs[id].is_last_job
            /\ SetRead(id, [read_jobs[id] EXCEPT !.is_last_job = FALSE, !.is_resume = TRUE])
            /\ SendWriter([type |-> "receive", id |-> id, file_num |-> read_jobs[id].file_num])
            /\ UNCHANGED <<writeVars, toReader>>
       ELSE /\ write_jobs[id] # NoJob /\ write_jobs[id].is_last_job
            /\ SetWrite(id, [write_jobs[id] EXCEPT !.is_last_job = FALSE, !.is_resume = TRUE])
            /\ SendReader([type |-> "send", id |-> id, file_num |-> write_jobs[id].file_num])
            /\ UNCHANGED <<readVars, toWriter>>
    /\ UNCHANGED <<source, diskVars, uiVars, misplaced>>

\* Data::CancelJob, from the list of jobs or a dialog.
CancelJob(id) ==
    /\ IF Upload
       THEN /\ read_jobs[id] # NoJob
            /\ RemoveRead(id)
            /\ SendWriter([type |-> "cancel", id |-> id])
            /\ UNCHANGED <<diskVars, writeVars, toReader>>
       ELSE /\ write_jobs[id] # NoJob
            /\ RemoveWrite(id)
            /\ RemoveDownloadFile(write_jobs[id])
            /\ SendReader([type |-> "cancel", id |-> id])
            /\ UNCHANGED <<readVars, toWriter>>
    /\ asking' = {a \in asking : a[1] # id}
    /\ UNCHANGED <<source, started, saved, boundVars, historyVars>>

\* Data::SetConfirmOverrideFile.  The answer about an upload is not sent.
AnswerDialog(id, f, strategy, remember) ==
    LET offset == Answer(strategy)
        Remembered(job) == IF remember THEN [job EXCEPT !.strategy = strategy] ELSE job
    IN  /\ <<id, f>> \in asking
        /\ asking' = asking \ {<<id, f>>}
        /\ IF Upload
           THEN /\ read_jobs[id] # NoJob
                /\ SetRead(id, ConfirmRead(Remembered(read_jobs[id]), f, offset))
                /\ UNCHANGED <<writeVars, toReader>>
           ELSE /\ write_jobs[id] # NoJob
                /\ SetWrite(id, ConfirmWrite(Remembered(write_jobs[id]), f, offset))
                /\ SendReader(ConfirmMessage(id, f, offset))
                /\ UNCHANGED readVars
        /\ IF strategy = "skip" THEN Excuse(id, f) ELSE UNCHANGED excused
        /\ UNCHANGED <<source, diskVars, toWriter, started, saved, boundVars, misplaced>>

-----------------------------------------------------------------------------
(* The reader: a tick of handle_read_jobs reads from the first job that is *)
(* not one of the last session's.                                          *)

First(id) == \E i \in DOMAIN queue :
                 /\ queue[i] = id /\ ~read_jobs[id].is_last_job
                 /\ \A j \in 1 .. i - 1 : read_jobs[queue[j]].is_last_job

Bug_NextFileWaits(r) == [r EXCEPT !.file_num = @ + 1, !.stream = None, !.confirmed = FALSE]
NextFile(r) == [r EXCEPT !.file_num = @ + 1, !.stream = None,
                         !.confirmed = FALSE, !.waiting = FALSE]

ReaderSends(m) == /\ SendWriter(m)
                  /\ UNCHANGED <<source, diskVars, writeVars, toReader, uiVars, misplaced>>
ReaderStep(id, r, m) == SetRead(id, r) /\ ReaderSends(m)

BlockMessage(id, f, data, at) ==
    [type |-> "block", id |-> id, file_num |-> f, data |-> data, at |-> at]

\* read returned None and the job is completed; job_error.
Finish(id) ==
    LET r == read_jobs[id]
    IN  /\ First(id) /\ r.file_num >= N
        /\ ~r.confirmed /\ ~r.waiting
        /\ RemoveRead(id)
        /\ ReaderSends([type |-> IF r.error \/ (r.skipped /\ N = 1) THEN "error" ELSE "done",
                        id |-> id])
        /\ UNCHANGED excused

ReadMarker(id) ==
    LET r == read_jobs[id]
    IN  /\ First(id) /\ r.file_num \in Markers
        /\ ReaderStep(id, NextFile(r), BlockMessage(id, r.file_num, <<>>, 0))
        /\ UNCHANGED excused

Reading(id) == First(id) /\ read_jobs[id].file_num \in FileNums \ Markers

\* The file is opened and its digest sent.
SendDigest(id) ==
    LET r == read_jobs[id]
    IN  /\ Reading(id) /\ (r.stream = None \/ (~r.confirmed /\ ~r.waiting))
        /\ ReaderStep(id, [r EXCEPT !.stream = IF @ = None THEN 0 ELSE @, !.confirmed = FALSE, !.waiting = TRUE],
                      [type |-> "digest", id |-> id, file_num |-> r.file_num,
                       version |-> source[r.file_num], is_resume |-> r.is_resume])
        /\ UNCHANGED excused

\* The file cannot be opened, or be read on.
Bug_ReadFailsTwice(id) ==
    LET r == read_jobs[id]
    IN  /\ Reading(id) /\ (r.stream = None \/ r.confirmed)
        /\ ReaderStep(id, [NextFile(NextFile(r)) EXCEPT !.error = TRUE],
                      [type |-> "error", id |-> id])
        /\ Excuse(id, r.file_num)

ReadFails(id) ==
    LET r == read_jobs[id]
    IN  /\ Reading(id) /\ (r.stream = None \/ r.confirmed)
        /\ ReaderStep(id, [NextFile(r) EXCEPT !.error = TRUE], [type |-> "error", id |-> id])
        /\ Excuse(id, r.file_num)

ReadBlock(id) ==
    LET r == read_jobs[id]  f == r.file_num
    IN  /\ Reading(id) /\ r.stream # None /\ r.confirmed
        /\ r.stream < Size[f]
        /\ ReaderStep(id, [r EXCEPT !.stream = @ + 1],
                      BlockMessage(id, f, << <<source[f], r.stream + 1>> >>, r.stream))
        /\ UNCHANGED excused

\* An empty file is passed over.
Bug_ReadEndSkipsEmpty(id) ==
    LET r == read_jobs[id]  f == r.file_num
    IN  /\ Reading(id) /\ r.stream # None /\ r.confirmed
        /\ r.stream >= Size[f]
        /\ IF Size[f] = 0
           THEN /\ SetRead(id, NextFile(r))
                /\ UNCHANGED <<source, diskVars, writeVars, netVars, uiVars, misplaced>>
           ELSE ReaderStep(id, NextFile(r), BlockMessage(id, f, <<>>, r.stream))
        /\ UNCHANGED excused

ReadEnd(id) ==
    LET r == read_jobs[id]  f == r.file_num
    IN  /\ Reading(id) /\ r.stream # None /\ r.confirmed
        /\ r.stream >= Size[f]
        /\ ReaderStep(id, NextFile(r), BlockMessage(id, f, <<>>, r.stream))
        /\ UNCHANGED excused

-----------------------------------------------------------------------------
(* The reader takes a message.                                             *)

FromWriter(type) == toReader # <<>> /\ Head(toReader).type = type
TakenByReader == toReader' = Tail(toReader)

\* FileAction::Send.
OnSend == LET m == Head(toReader)
          IN  /\ FromWriter("send") /\ TakenByReader
              /\ \/ /\ PushRead(m.id, NewRead(m.file_num, FALSE))
                    /\ SendWriter([type |-> "dir", id |-> m.id])
                 \/ /\ SendWriter([type |-> "error", id |-> m.id])
                    /\ UNCHANGED readVars
              /\ UNCHANGED <<source, diskVars, writeVars, uiVars, historyVars>>

\* FileAction::Cancel of a download.
OnCancelRead == /\ FromWriter("cancel") /\ TakenByReader
                /\ RemoveRead(Head(toReader).id)
                /\ UNCHANGED <<source, diskVars, writeVars, toWriter, uiVars, historyVars>>

\* FileAction::SendConfirm.
OnConfirmRead == LET m == Head(toReader)  r == read_jobs[m.id]
                 IN  /\ FromWriter("confirm") /\ TakenByReader
                     /\ IF r = NoJob THEN UNCHANGED readVars
                        ELSE SetRead(m.id, ConfirmRead(r, m.file_num, m.offset))
                     /\ UNCHANGED <<source, diskVars, writeVars, toWriter, uiVars, historyVars>>

\* FileResponse::Digest with is_upload: resume, the remembered answer, or ask.
OnAsk == LET m == Head(toReader)
             r == read_jobs[m.id]
             resume == m.transferred > 0 /\ r.is_resume
             offset == IF resume THEN OffsetOf(m.transferred) ELSE Answer(r.strategy)
         IN  /\ FromWriter("ask") /\ TakenByReader
             /\ IF r = NoJob THEN UNCHANGED <<readVars, toWriter, asking, excused>>
                ELSE IF ~resume /\ r.strategy = "ask"
                THEN /\ asking' = asking \cup {<<m.id, m.file_num>>}
                     /\ UNCHANGED <<readVars, toWriter, excused>>
                ELSE /\ SetRead(m.id, ConfirmRead(r, m.file_num, offset))
                     /\ SendWriter(ConfirmMessage(m.id, m.file_num, offset))
                     /\ IF offset = Skip THEN Excuse(m.id, m.file_num) ELSE UNCHANGED excused
                     /\ UNCHANGED asking
             /\ UNCHANGED <<source, diskVars, writeVars, started, saved, boundVars, misplaced>>

-----------------------------------------------------------------------------
(* The writer takes a message.                                             *)

FromReader(type) == toWriter # <<>> /\ Head(toWriter).type = type
TakenByWriter == /\ toWriter' = Tail(toWriter)
                 /\ UNCHANGED <<source, readVars, started, saved, boundVars>>

\* FileAction::Receive: FS::NewWrite.
OnReceive == LET m == Head(toWriter)
             IN  /\ FromReader("receive") /\ TakenByWriter
                 /\ PushWrite(m.id, NewWrite(m.file_num, FALSE))
                 /\ UNCHANGED <<diskVars, toReader, asking, historyVars>>

\* FileResponse::Dir: set_files.
OnDir == LET m == Head(toWriter)  w == write_jobs[m.id]
         IN  /\ FromReader("dir") /\ TakenByWriter
             /\ IF w = NoJob THEN UNCHANGED writeVars
                ELSE SetWrite(m.id, [w EXCEPT !.listed = TRUE])
             /\ UNCHANGED <<diskVars, toReader, asking, historyVars>>

\* FileResponse::Digest of a download: the controlling side decides here.
OnDigestDownload(m, w) ==
    LET f == m.file_num
        known == [w EXCEPT !.digest = m.version]
        transferred == Transferred(w.is_resume, f, m.version)
        offset == IF transferred > 0 THEN OffsetOf(transferred)
                  ELSE IF final[f] = Absent THEN 0 ELSE Answer(w.strategy)
    IN  IF transferred = 0 /\ final[f] # Absent /\ w.strategy = "ask"
        THEN /\ SetWrite(m.id, known)
             /\ asking' = asking \cup {<<m.id, f>>}
             /\ UNCHANGED <<toReader, excused>>
        ELSE /\ SetWrite(m.id, ConfirmWrite(known, f, offset))
             /\ SendReader(ConfirmMessage(m.id, f, offset))
             /\ IF offset = Skip THEN Excuse(m.id, f) ELSE UNCHANGED excused
             /\ UNCHANGED asking

\* FS::CheckDigest: a file that exists is left to the controlling side.
OnDigestUpload(m, w) ==
    LET f == m.file_num
        transferred == Transferred(m.is_resume, f, m.version)
    IN  /\ SetWrite(m.id, [w EXCEPT !.digest = m.version])
        /\ SendReader(IF NeedConfirm(transferred, f)
                      THEN [type |-> "ask", id |-> m.id, file_num |-> f,
                            transferred |-> transferred]
                      ELSE ConfirmMessage(m.id, f, 0))
        /\ UNCHANGED <<asking, excused>>

OnDigest == LET m == Head(toWriter)  w == write_jobs[m.id]
            IN  /\ FromReader("digest") /\ TakenByWriter
                /\ IF w = NoJob THEN UNCHANGED <<writeVars, toReader, asking, excused>>
                   ELSE IF Upload THEN OnDigestUpload(m, w) ELSE OnDigestDownload(m, w)
                /\ UNCHANGED <<diskVars, misplaced>>

\* FileAction::SendConfirm of an upload: FS::SendConfirm.
OnConfirmWrite == LET m == Head(toWriter)  w == write_jobs[m.id]
                  IN  /\ FromReader("confirm") /\ TakenByWriter
                      /\ IF w = NoJob THEN UNCHANGED writeVars
                         ELSE SetWrite(m.id, ConfirmWrite(w, m.file_num, m.offset))
                      /\ UNCHANGED <<diskVars, toReader, asking, historyVars>>

\* TransferJob::write.  The first block of a file names the file before it,
\* the first block of a job what an earlier job left of the same file.
StartsFile(w, m) == m.file_num # w.file_num \/ w.stream = None

\* The file before keeps its name.
Bug_WriteFirstOnly(m, w) ==
    LET f == m.file_num
    IN  /\ SetWrite(m.id, [w EXCEPT !.file_num = f, !.stream = Len(m.data)])
        /\ download' = [download EXCEPT ![f] = m.data]
        /\ digest' = [digest EXCEPT ![f] = w.digest]
        /\ misplaced' = IF m.at = 0 THEN misplaced \ {f} ELSE misplaced \cup {f}
        /\ UNCHANGED final

WriteFirst(m, w) ==
    LET f == m.file_num
    IN  /\ SetWrite(m.id, [w EXCEPT !.file_num = f, !.stream = Len(m.data)])
        /\ final' = FinalNamed(w)
        /\ download' = [DownloadNamed(w) EXCEPT ![f] = m.data]
        /\ digest' = [DigestNamed(w) EXCEPT ![f] = w.digest]
        /\ misplaced' = IF m.at = 0 THEN misplaced \ {f} ELSE misplaced \cup {f}

WriteNext(m, w) ==
    LET f == m.file_num
    IN  /\ SetWrite(m.id, [w EXCEPT !.stream = @ + Len(m.data)])
        /\ download' = [download EXCEPT ![f] = Put(@, w.stream, m.data)]
        /\ misplaced' = IF m.at = w.stream THEN misplaced ELSE misplaced \cup {f}
        /\ UNCHANGED <<final, digest>>

OnBlock == LET m == Head(toWriter)  w == write_jobs[m.id]
           IN  /\ FromReader("block") /\ TakenByWriter
               /\ IF w = NoJob THEN UNCHANGED <<writeVars, diskVars, misplaced>>
                  ELSE IF m.file_num \in Markers
                  THEN /\ SetWrite(m.id, [w EXCEPT !.file_num = m.file_num])
                       /\ UNCHANGED <<diskVars, misplaced>>
                  ELSE IF StartsFile(w, m) THEN WriteFirst(m, w) ELSE WriteNext(m, w)
               /\ UNCHANGED <<toReader, asking, excused>>

\* FileResponse::Done: FS::WriteDone.
Bug_OnDoneOnly == /\ FromReader("done") /\ TakenByWriter
                  /\ RemoveWrite(Head(toWriter).id)
                  /\ UNCHANGED <<diskVars, toReader, asking, historyVars>>

OnDone == LET m == Head(toWriter)  w == write_jobs[m.id]
          IN  /\ FromReader("done") /\ TakenByWriter
              /\ RemoveWrite(m.id)
              /\ IF w = NoJob THEN UNCHANGED diskVars ELSE ModifyTime(w)
              /\ UNCHANGED <<toReader, asking, historyVars>>

\* FileResponse::Error: FS::WriteError.  The file at hand keeps its name.
Bug_OnErrorNames == LET m == Head(toWriter)  w == write_jobs[m.id]
                    IN  /\ FromReader("error") /\ TakenByWriter
                        /\ RemoveWrite(m.id)
                        /\ IF w = NoJob THEN UNCHANGED <<diskVars, excused>>
                           ELSE ModifyTime(w) /\ Excuse(m.id, w.file_num)
                        /\ UNCHANGED <<toReader, asking, misplaced>>

OnError == LET m == Head(toWriter)  w == write_jobs[m.id]
           IN  /\ FromReader("error") /\ TakenByWriter
               /\ RemoveWrite(m.id)
               /\ IF w = NoJob THEN UNCHANGED excused ELSE Excuse(m.id, w.file_num)
               /\ UNCHANGED <<diskVars, toReader, asking, misplaced>>

\* FileAction::Cancel of an upload: FS::CancelWrite.
OnCancelWrite == LET m == Head(toWriter)  w == write_jobs[m.id]
                 IN  /\ FromReader("cancel") /\ TakenByWriter
                     /\ RemoveWrite(m.id)
                     /\ IF w = NoJob THEN UNCHANGED diskVars ELSE RemoveDownloadFile(w)
                     /\ UNCHANGED <<toReader, asking, historyVars>>

-----------------------------------------------------------------------------
(* Between sessions.                                                       *)

\* A reader is past them, the writer has not given them their names.
LeftBehind(id) ==
    {f \in 0 .. read_jobs[id].file_num - 1 :
        \/ write_jobs[id] # NoJob /\ write_jobs[id].file_num = f
        \/ \E i \in DOMAIN toWriter : /\ toWriter[i].type = "block"
                                      /\ toWriter[i].id = id /\ toWriter[i].file_num = f}

\* gen_meta of the jobs of the controlling side, in their order.
Meta(id) ==
    IF Upload THEN [file_num |-> read_jobs[id].file_num,
                    excused |-> excused[id] \cup LeftBehind(id)]
    ELSE [file_num |-> write_jobs[id].file_num, excused |-> excused[id]]
Metas == LET ids == IF Upload THEN queue ELSE write_queue
         IN  [i \in 1 .. Len(ids) |-> Meta(ids[i])]

\* sync_jobs_status_to_local when the loop ends, unless the controlling side
\* crashes; load_last_jobs when the next connection is made.
Reconnect(crash) ==
    LET metas == IF crash THEN saved ELSE Metas
    IN  /\ breaks < MaxBreaks /\ breaks' = breaks + 1
        /\ saved' = metas
        /\ started' = Len(metas)
        /\ read_jobs' = [id \in Jobs |-> IF Upload /\ id <= Len(metas)
                                         THEN NewRead(metas[id].file_num, TRUE) ELSE NoJob]
        /\ queue' = IF Upload THEN [i \in 1 .. Len(metas) |-> i] ELSE <<>>
        /\ write_jobs' = [id \in Jobs |-> IF ~Upload /\ id <= Len(metas)
                                          THEN NewWrite(metas[id].file_num, TRUE) ELSE NoJob]
        /\ write_queue' = IF Upload THEN <<>> ELSE [i \in 1 .. Len(metas) |-> i]
        /\ toReader' = <<>> /\ toWriter' = <<>> /\ asking' = {}
        /\ excused' = [id \in Jobs |-> IF id <= Len(metas) THEN metas[id].excused ELSE FileNums]
        /\ UNCHANGED <<transfer, source, diskVars, misplaced>>

\* Somebody changes a file that is not being read.
ChangeSource(f) ==
    /\ f \notin Markers /\ source[f] < MaxVersion
    /\ \A id \in Jobs : read_jobs[id] # NoJob => read_jobs[id].is_last_job
    /\ source' = [source EXCEPT ![f] = @ + 1]
    /\ UNCHANGED <<diskVars, jobVars, netVars, uiVars, historyVars>>

-----------------------------------------------------------------------------
Read(id) == \/ Finish(id) \/ ReadMarker(id) \/ SendDigest(id)
            \/ ReadBlock(id) \/ ReadEnd(id)
OnReader == OnSend \/ OnCancelRead \/ OnConfirmRead \/ OnAsk
OnWriter == \/ OnReceive \/ OnDir \/ OnDigest \/ OnConfirmWrite \/ OnBlock
            \/ OnDone \/ OnError \/ OnCancelWrite
AnswerSome == \E id \in Jobs, f \in FileNums, strategy \in {"overwrite", "skip"}, remember \in BOOLEAN :
                  AnswerDialog(id, f, strategy, remember)

FileNext == \/ SendFiles \/ AnswerSome \/ OnReader \/ OnWriter
            \/ \E id \in Jobs : ResumeJob(id) \/ CancelJob(id) \/ Read(id) \/ ReadFails(id)
            \/ \E crash \in BOOLEAN : Reconnect(crash)
            \/ \E f \in FileNums : ChangeSource(f)

FileSpec == FileInit /\ [][FileNext]_fileVars

FileFairSpec == /\ FileSpec
                /\ WF_fileVars(OnReader) /\ WF_fileVars(OnWriter) /\ WF_fileVars(AnswerSome)
                /\ \A id \in Jobs : WF_fileVars(Read(id))

-----------------------------------------------------------------------------
(* Properties.                                                             *)

IsWhole(f, content) == \E v \in 1 .. MaxVersion : content = Whole(f, v)

\* What an interrupted transfer left can be gone on with: "<file>.download"
\* and "<file>.digest" come and go together, and the first holds the first
\* pieces of just the version the second describes, however many jobs worked
\* on it and whatever became of the source between them.  A file a block of
\* which was written to a wrong place is excepted (see SoughtTogether).
Resumable ==
    \A f \in FileNums :
        /\ download[f] = Absent <=> digest[f] = Absent
        /\ f \in misplaced \/ download[f] = Absent
           \/ \E n \in 0 .. Size[f] : download[f] = SubSeq(Whole(f, digest[f]), 1, n)

LeftoverNamed(f) ==
    /\ toWriter # <<>> /\ Head(toWriter).type \in {"block", "done"}
    /\ write_jobs[Head(toWriter).id].stream = None
    /\ final'[f] = download[f]

\* The file under the final name is replaced by a complete copy of one
\* version of the source or not at all: not by an error, a cancel, a lost
\* connection or a crash.  One exception is the code's: a job that has no file
\* open gives what an earlier job left of the file its file_num says the final
\* name, before it writes the file anew (modify_time in write) and when the
\* reader is done with nothing sent (modify_time on Done).
FinalReplaced ==
    [][\A f \in FileNums :
         final'[f] # final[f] => IsWhole(f, final'[f]) \/ f \in misplaced \/ LeftoverNamed(f)]_fileVars

\* When a job is done, over all the sessions it took, each of its files is
\* there under its final name and whole, unless the user skipped it, reading
\* it failed, or an upload was interrupted when the reader was past it and the
\* writer was not (`excused'); a file just before an empty directory is
\* excepted (see DeliveredBeforeMarker).
Delivered ==
    [][\A f \in FileNums \ Markers :
         /\ OnDone /\ write_jobs[Head(toWriter).id] # NoJob
         /\ f \notin excused[Head(toWriter).id] \cup misplaced
         /\ f + 1 \notin Markers
         => IsWhole(f, final'[f])]_fileVars

\* fs.rs:660 says of the block that stands for an empty directory "create dir
\* and skip file handling".  It changes file_num, which says which file is to
\* get its final name, so the file before it never does.
DeliveredBeforeMarker ==
    [][\A f \in FileNums \ Markers :
         /\ OnDone /\ write_jobs[Head(toWriter).id] # NoJob
         /\ f \notin excused[Head(toWriter).id] \cup misplaced
         => IsWhole(f, final'[f])]_fileVars

\* fs.rs:1043 says of a confirm request "If offset is greater than 0, we need
\* to seek to the offset", and fs.rs:991 that the writer does.  The reader
\* does; the writer takes the request for an old one unless its job starts
\* with that file, and writes what follows to the start of the file.
SoughtTogether == misplaced = {}

Failed(id) == read_jobs[id] # NoJob /\ read_jobs[id].error

\* A job ends once the user has answered what it asks, unless reading a file
\* failed: the writer drops the job then, nobody answers the digest of its
\* next file, and it stays in front of every later job.
JobEnds ==
    \A id \in Jobs : Active(id) ~> (~Active(id) \/ \E j \in Jobs : Failed(j))
=============================================================================
