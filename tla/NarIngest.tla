----------------------------- MODULE NarIngest -----------------------------
(***************************************************************************)
(* Ingesting a NAR (store nar/import.rs): a producer reads the NAR depth   *)
(* first, hands blobs to the ConcurrentBlobUploader (castore               *)
(* import/blobs.rs) and sends the entries through a channel of one item.   *)
(* The entry of the root is sent only after the uploader was joined.       *)
(*                                                                         *)
(* ingest_entries (castore import/mod.rs) consumes the stream, children    *)
(* before their parents, and turns it into directories that are put        *)
(* through one DirectoryPutter.  An entry is a path of the tree that is    *)
(* ingested; a directory is its path with the children recorded in it.     *)
(***************************************************************************)
EXTENDS Integers, Sequences, FiniteSetsExt

CONSTANTS
    Paths,    \* the paths of the tree
    Root,     \* the one path with a single component
    Parent,   \* Parent[p], for the other paths
    DirPaths  \* the paths that are directories

Error == "error item"

ASSUME TreeAssumption ==
    /\ Root \in Paths /\ DirPaths \subseteq Paths /\ Error \notin Paths
    /\ Parent \in [Paths \ {Root} -> DirPaths]

VARIABLES
    inbox,      \* the entries sent and not yet received
    sender,     \* "open", or "dropped": no more entries will come
    directories,\* directories: the partially populated ones, by path
    uploaded,   \* the directories put, in order
    cpc,        \* where ingest_entries is
    persisted   \* close() returned Ok

cvars == <<inbox, sender, directories, uploaded, cpc, persisted>>

Children(p) == {c \in Paths \ {Root} : Parent[c] = p}
NoDirectories == [p \in {} |-> {}]

IngestInit ==
    /\ inbox = <<>> /\ sender = "open"
    /\ directories = NoDirectories /\ uploaded = <<>>
    /\ cpc = "running" /\ persisted = FALSE

-----------------------------------------------------------------------------
Partial(p) == IF p \in DOMAIN directories THEN directories[p] ELSE {}

Without(p) == [q \in DOMAIN directories \ {p} |-> directories[q]]

\* directories.entry(parent).or_default().add(name, node)
Record(dirs, p) ==
    [q \in DOMAIN dirs \cup {Parent[p]} |->
        IF q # Parent[p] THEN dirs[q] ELSE IF q \in DOMAIN dirs THEN dirs[q] \cup {p} ELSE {p}]

(* One entry of the stream.  A directory takes what was recorded for its   *)
(* path and is put; then the node is recorded in its parent, or is the     *)
(* root.                                                                   *)
Consume ==
    /\ cpc = "running" /\ inbox # <<>> /\ Head(inbox) # Error
    /\ LET p == Head(inbox)
           dirs == IF p \in DirPaths THEN Without(p) ELSE directories IN
          /\ uploaded' = IF p \in DirPaths THEN Append(uploaded, [path |-> p, children |-> Partial(p)])
                         ELSE uploaded
          /\ IF p = Root
             THEN cpc' = "draining" /\ directories' = dirs
             ELSE directories' = Record(dirs, p) /\ UNCHANGED cpc
    /\ inbox' = Tail(inbox)
    /\ UNCHANGED <<sender, persisted>>

\* The putter refuses, or the stream gives an error.
PutFails ==
    /\ cpc = "running" /\ inbox # <<>> /\ Head(inbox) \in DirPaths
    /\ cpc' = "error"
    /\ UNCHANGED <<inbox, sender, directories, uploaded, persisted>>

StreamError ==
    /\ cpc = "running" /\ inbox # <<>> /\ Head(inbox) = Error
    /\ cpc' = "error"
    /\ UNCHANGED <<inbox, sender, directories, uploaded, persisted>>

\* The stream ended (before the root: the expect), or has entries after the
\* root, or left directories without their entry: the two asserts.
StreamEnds ==
    /\ cpc \in {"running", "draining"}
    /\ IF inbox = <<>> THEN sender = "dropped" ELSE cpc = "draining"
    /\ cpc' = IF cpc = "running" \/ inbox # <<>> \/ directories # NoDirectories THEN "panicked"
              ELSE IF uploaded = <<>> THEN "ok" ELSE "closing"
    /\ persisted' = (cpc' = "ok")
    /\ UNCHANGED <<inbox, sender, directories, uploaded>>

\* close() of the putter stores everything, or fails.
ClosePutter ==
    /\ cpc = "closing"
    /\ \E r \in {"ok", "error"} : cpc' = r /\ persisted' = (r = "ok")
    /\ UNCHANGED <<inbox, sender, directories, uploaded>>

ConsumerNext == Consume \/ PutFails \/ StreamError \/ StreamEnds \/ ClosePutter

-----------------------------------------------------------------------------
(* Every directory is put after the directories it refers to, once, and    *)
(* with all its children: the order LeavesToRootValidator demands.         *)
PutLeavesFirst ==
    \A i \in DOMAIN uploaded :
        /\ uploaded[i].children = Children(uploaded[i].path)
        /\ \A c \in uploaded[i].children \cap DirPaths : \E j \in 1 .. i - 1 : uploaded[j].path = c
        /\ \A j \in 1 .. i - 1 : uploaded[j].path # uploaded[i].path

-----------------------------------------------------------------------------
(* The producer of nar/import.rs and the ConcurrentBlobUploader.           *)
CONSTANTS
    Orders,       \* the orders in which produce_nar_inner may finish the paths
    SizeOf,       \* SizeOf[p]: the size of a regular file
    Threshold,    \* CONCURRENT_BLOB_UPLOAD_THRESHOLD
    MaxBuffer     \* MAX_BUFFER_SIZE: the permits of upload_semaphore

\* Children come before their directory, so the root comes last.
ASSUME OrderAssumption == \A o \in Orders :
    /\ o \in Seq(Paths) /\ Range(o) = Paths
    /\ \A i, j \in DOMAIN o : o[i] = o[j] => i = j
    /\ \A i, j \in DOMAIN o : o[j] # Root /\ Parent[o[j]] = o[i] => j < i

ASSUME FilesAssumption == DOMAIN SizeOf \subseteq Paths \ DirPaths

\* A file smaller than the threshold never needs more permits than there are.
ASSUME UploaderAssumption == Threshold <= MaxBuffer + 1

VARIABLES
    order,    \* the order of this NAR
    pos,      \* the position in order of the entry being produced
    ppc,      \* where the producer is
    res,      \* what produce_nar_inner returned
    tasks,    \* tasks[p]: the background upload of file p
    blobs     \* the blobs in the blob service

pvars == <<order, pos, ppc, res, tasks, blobs>>
narvars == <<cvars, pvars>>

Files == DOMAIN SizeOf
\* A task holds its permits until it ends.
Buffered_leaks == {p \in Files : tasks[p] \in {"running", "failed"}}

Buffered == {p \in Files : tasks[p] = "running"}
UsedPermits == FoldSet(LAMBDA p, n : n + SizeOf[p], 0, Buffered)

NarInit ==
    /\ IngestInit
    /\ order \in Orders /\ pos = 1 /\ ppc = "produce" /\ res = "none"
    /\ tasks = [p \in Files |-> "none"] /\ blobs = {}

-----------------------------------------------------------------------------
\* The last entry is returned by produce_nar_inner, all others are sent.
Produced == IF pos = Len(order) THEN ppc' = "join" /\ res' = "ok" ELSE ppc' = "send" /\ UNCHANGED res

(* The next node is read from the NAR.  Symlinks and directories need no   *)
(* upload.                                                                 *)
ProduceNode ==
    /\ ppc = "produce" /\ order[pos] \notin Files
    /\ Produced
    /\ UNCHANGED <<order, pos, tasks, blobs>>

\* A regular file: its contents are for the uploader to read.
ProduceFile ==
    /\ ppc = "produce" /\ order[pos] \in Files
    /\ ppc' = "upload"
    /\ UNCHANGED <<order, pos, res, tasks, blobs>>

\* acquire_many_owned gives the permits of a small blob; it does not fail.
Admitted(p) == SizeOf[p] < Threshold /\ UsedPermits + SizeOf[p] <= MaxBuffer

(* ConcurrentBlobUploader::upload of a small blob: wait for the permits,   *)
(* then the digest is returned while the upload runs.                      *)
UploadInBackground ==
    /\ ppc = "upload" /\ Admitted(order[pos])
    /\ tasks' = [tasks EXCEPT ![order[pos]] = "running"]
    /\ Produced
    /\ UNCHANGED <<order, pos, blobs>>

\* Larger blobs are uploaded before the entry is produced.
UploadNow ==
    /\ ppc = "upload" /\ SizeOf[order[pos]] >= Threshold
    /\ blobs' = blobs \cup {order[pos]}
    /\ Produced
    /\ UNCHANGED <<order, pos, tasks>>

(* Reading a node fails; or, with the permits at hand, reading the file;   *)
(* or an upload in the foreground does.                                    *)
ProduceFails ==
    /\ \/ ppc = "produce"
       \/ ppc = "upload" /\ (Admitted(order[pos]) \/ SizeOf[order[pos]] >= Threshold)
    /\ ppc' = "join" /\ res' = "error"
    /\ UNCHANGED <<order, pos, tasks, blobs>>

\* The NAR ends within the name of an entry: read_bytes_buf reads nothing, for
\* ever.  The name of a directory is read before the directory's first entry.
ProduceHangs ==
    /\ ppc = "produce" /\ order[pos] # Root /\ Children(order[pos]) = {}
    /\ ppc' = "hung"
    /\ UNCHANGED <<order, pos, res, tasks, blobs>>

\* tx.send(Ok(entry)): waits for room in the channel.
Send ==
    /\ ppc = "send" /\ inbox = <<>>
    /\ inbox' = <<order[pos]>>
    /\ pos' = pos + 1 /\ ppc' = "produce"
    /\ UNCHANGED <<sender, directories, uploaded, cpc, persisted, order, res, tasks, blobs>>

-----------------------------------------------------------------------------
(* A background task: has() finds the blob, or it is uploaded; or either   *)
(* fails.  The permit is released in all cases.                            *)
TaskDone(p) ==
    /\ tasks[p] = "running"
    /\ tasks' = [tasks EXCEPT ![p] = "done"]
    /\ blobs' = blobs \cup {p}
    /\ UNCHANGED <<order, pos, ppc, res>>

TaskFails(p) ==
    /\ tasks[p] = "running"
    /\ tasks' = [tasks EXCEPT ![p] = "failed"]
    /\ UNCHANGED <<order, pos, ppc, res, blobs>>

Aborted == [p \in Files |-> IF tasks[p] = "running" THEN "aborted" ELSE tasks[p]]

(* join(): all tasks, or the first failure, which drops the others.        *)
Join_some ==
    /\ ppc = "join"
    /\ \/ /\ \A p \in Files : tasks[p] \notin {"failed"}
          /\ \E p \in Files : tasks[p] = "done"
          /\ ppc' = "finish" /\ UNCHANGED tasks
       \/ /\ \E p \in Files : tasks[p] = "failed"
          /\ ppc' = "report" /\ tasks' = Aborted
    /\ UNCHANGED <<order, pos, res, blobs>>

Join ==
    /\ ppc = "join"
    /\ \/ /\ \A p \in Files : tasks[p] \notin {"running", "failed"}
          /\ ppc' = "finish" /\ UNCHANGED tasks
       \/ /\ \E p \in Files : tasks[p] = "failed"
          /\ ppc' = "report" /\ tasks' = Aborted
    /\ UNCHANGED <<order, pos, res, blobs>>

\* The error of join() is sent before the result of produce_nar_inner.
Report ==
    /\ ppc = "report" /\ inbox = <<>>
    /\ inbox' = <<Error>> /\ ppc' = "finish"
    /\ UNCHANGED <<sender, directories, uploaded, cpc, persisted, order, pos, res, tasks, blobs>>

\* tx.send(res), then the producer returns and its sender is dropped.
Finish ==
    /\ ppc = "finish" /\ inbox = <<>>
    /\ inbox' = IF res = "ok" THEN <<order[pos]>> ELSE <<Error>>
    /\ sender' = "dropped" /\ ppc' = "done"
    /\ UNCHANGED <<directories, uploaded, cpc, persisted, order, pos, res, tasks, blobs>>

\* try_join!: the consumer's error drops the producer and its uploader.
Cancel ==
    /\ cpc = "error" /\ ppc \notin {"done", "cancelled"}
    /\ ppc' = "cancelled" /\ tasks' = Aborted
    /\ UNCHANGED <<order, pos, res, blobs>>

-----------------------------------------------------------------------------
Running == cpc # "error"

ProducerNext ==
    /\ Running
    /\ \/ (ProduceNode \/ ProduceFile \/ ProduceFails \/ ProduceHangs) /\ UNCHANGED cvars
       \/ (UploadInBackground \/ UploadNow \/ Join) /\ UNCHANGED cvars
       \/ Send \/ Report \/ Finish

TaskNext == (\E p \in Files : TaskDone(p) \/ TaskFails(p)) /\ UNCHANGED cvars

NarNext == ProducerNext \/ TaskNext \/ (Cancel /\ UNCHANGED cvars) \/ (ConsumerNext /\ UNCHANGED pvars)

NarSpec == NarInit /\ [][NarNext]_narvars

-----------------------------------------------------------------------------
(* Directories are put as LeavesToRootValidator demands, and Ok(root)      *)
(* means that the whole tree is in the store: every blob, also those       *)
(* uploaded in the background, and every directory, the root last: the     *)
(* digest that close() returns is the root's.                              *)
IngestedMeansStored ==
    /\ PutLeavesFirst
    /\ cpc = "ok" => /\ blobs = Files /\ persisted
                     /\ {uploaded[i].path : i \in DOMAIN uploaded} = DirPaths
                     /\ DirPaths # {} => uploaded[Len(uploaded)].path = Root

(* ingest_nar has returned, and the producer is gone; or the NAR ended     *)
(* within a name, which the producer does not get past.                    *)
IngestEnded ==
    \/ cpc \in {"ok", "error"} /\ ppc \in {"done", "cancelled"}
    \/ ppc = "hung"
=============================================================================
