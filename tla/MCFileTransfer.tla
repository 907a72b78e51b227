--------------------------- MODULE MCFileTransfer ---------------------------
(* Small instances of FileTransfer for TLC.                                *)
EXTENDS FileTransfer, TLC

\* A file, an empty directory, an empty file, downloaded by two jobs.
Download == [upload |-> FALSE, entries |-> 3, size |-> 0 :> 1 @@ 1 :> 0 @@ 2 :> 0,
             markers |-> {1}, versions |-> 1, jobs |-> 2, breaks |-> 1]
\* Two files that may change, one of them longer than an offset can say, uploaded
\* over three sessions.
LongUpload == [upload |-> TRUE, entries |-> 2, size |-> 0 :> 1 @@ 1 :> 3,
               markers |-> {}, versions |-> 2, jobs |-> 1, breaks |-> 2]
MCTransfers == {Download, LongUpload}

\* Two files over three sessions.
TwoFiles == {[upload |-> FALSE, entries |-> 2, size |-> 0 :> 1 @@ 1 :> 2,
              markers |-> {}, versions |-> 1, jobs |-> 2, breaks |-> 2]}
=============================================================================
