----------------------------- MODULE BlobStores -----------------------------
(***************************************************************************)
(* The chunked blob stores: ObjectStoreBlobService (castore                *)
(* blobservice/object_store.rs) on two object stores, of which one is      *)
(* local and the other remote, behind gRPC (grpc.rs and the wrapper);      *)
(* CombinedBlobService (combinator.rs) reads from both.                    *)
(*                                                                         *)
(* A blob is the sequence of the chunks FastCDC cuts it into, and stands   *)
(* for its own digest; the digest of a blob of one chunk is the digest of  *)
(* that chunk.  Every request to an object store is a step.                *)
(***************************************************************************)
EXTENDS Integers, Sequences

CONSTANTS
    Chunks,
    Blobs,          \* the blobs written and asked for: sequences of chunks
    Writers,
    Readers

Stores == {"local", "remote"}
Services == {"local", "grpc", "combined"}

ASSUME BlobsAssumption == Blobs \subseteq Seq(Chunks)

VARIABLES
    chunkObj,   \* chunkObj[s]: the chunks at derive_chunk_path
    blobObj,    \* blobObj[s]: the blobs at derive_blob_path
    wr,         \* wr[w]: the upload of writer w
    rd          \* rd[r]: the open_read, and then the reading, of reader r

bvars == <<chunkObj, blobObj, wr, rd>>

Writer == [pc : {"chunk", "put chunk", "put blob", "closed", "failed"},
           store : Stores, blob : Blobs, n : Nat]
Reader == [pc : {"idle", "has", "has chunk", "stat", "stat chunk", "get", "chunks",
                 "chunks head", "stream", "done", "none", "missing", "panicked"},
           service : Services, store : Stores, blob : Blobs, n : Nat]

BlobTypeOK ==
    /\ chunkObj \in [Stores -> SUBSET Chunks]
    /\ blobObj \in [Stores -> SUBSET Blobs]
    /\ wr \in [Writers -> Writer]
    /\ rd \in [Readers -> Reader]

BlobInit ==
    /\ chunkObj = [s \in Stores |-> {}]
    /\ blobObj = [s \in Stores |-> {}]
    /\ wr \in [Writers -> [pc : {"chunk"}, store : Stores, blob : Blobs, n : {0}]]
    /\ rd \in [Readers -> [pc : {"idle"}, service : Services, store : {"local"},
                           blob : Blobs, n : {0}]]

-----------------------------------------------------------------------------
(* chunk_and_upload: upload_chunk for one chunk after the other, each      *)
(* looked up by head() first.                                              *)
HeadOfChunk(w) ==
    /\ wr[w].pc = "chunk" /\ wr[w].n < Len(wr[w].blob)
    /\ wr' = [wr EXCEPT ![w] =
                IF wr[w].blob[wr[w].n + 1] \in chunkObj[wr[w].store]
                THEN [wr[w] EXCEPT !.n = wr[w].n + 1]
                ELSE [wr[w] EXCEPT !.pc = "put chunk"]]
    /\ UNCHANGED <<chunkObj, blobObj, rd>>

PutChunk_skips(w) ==
    /\ wr[w].pc = "put chunk"
    /\ wr' = [wr EXCEPT ![w] = [wr[w] EXCEPT !.pc = "chunk", !.n = wr[w].n + 1]]
    /\ UNCHANGED <<chunkObj, blobObj, rd>>

PutChunk(w) ==
    /\ wr[w].pc = "put chunk"
    /\ chunkObj' = [chunkObj EXCEPT ![wr[w].store] = @ \cup {wr[w].blob[wr[w].n + 1]}]
    /\ wr' = [wr EXCEPT ![w] = [wr[w] EXCEPT !.pc = "chunk", !.n = wr[w].n + 1]]
    /\ UNCHANGED <<blobObj, rd>>

(* close() let the chunker see the end: the index of the blob is looked up *)
(* and put.                                                                *)
HeadOfBlob_early(w) ==
    /\ wr[w].pc = "chunk"
    /\ wr' = [wr EXCEPT ![w] =
                IF wr[w].blob \in blobObj[wr[w].store]
                THEN [wr[w] EXCEPT !.pc = "closed"]
                ELSE [wr[w] EXCEPT !.pc = "put blob"]]
    /\ UNCHANGED <<chunkObj, blobObj, rd>>

HeadOfBlob(w) ==
    /\ wr[w].pc = "chunk" /\ wr[w].n = Len(wr[w].blob)
    /\ wr' = [wr EXCEPT ![w] =
                IF wr[w].blob \in blobObj[wr[w].store]
                THEN [wr[w] EXCEPT !.pc = "closed"]
                ELSE [wr[w] EXCEPT !.pc = "put blob"]]
    /\ UNCHANGED <<chunkObj, blobObj, rd>>

PutBlob(w) ==
    /\ wr[w].pc = "put blob"
    /\ blobObj' = [blobObj EXCEPT ![wr[w].store] = @ \cup {wr[w].blob}]
    /\ wr' = [wr EXCEPT ![w] = [wr[w] EXCEPT !.pc = "closed"]]
    /\ UNCHANGED <<chunkObj, rd>>

(* A request fails, or the writer is dropped: chunks uploaded so far stay. *)
UploadFails(w) ==
    /\ wr[w].pc \notin {"closed", "failed"}
    /\ wr' = [wr EXCEPT ![w] = [wr[w] EXCEPT !.pc = "failed"]]
    /\ UNCHANGED <<chunkObj, blobObj, rd>>

-----------------------------------------------------------------------------
\* The chunks of the StatBlobResponse: none for a blob of a single chunk.
ListOf(b) == IF Len(b) < 2 THEN <<>> ELSE b

\* The object at derive_chunk_path of a blob's digest.
IsChunk(s, b) == Len(b) = 1 /\ b[1] \in chunkObj[s]

Goto(r, pc) == rd' = [rd EXCEPT ![r] = [rd[r] EXCEPT !.pc = pc]]
GotoStore(r, pc, s) == rd' = [rd EXCEPT ![r] = [rd[r] EXCEPT !.pc = pc, !.store = s]]

(* open_read of the three services.                                        *)
OpenRead(r) ==
    /\ rd[r].pc = "idle"
    /\ \/ rd[r].service = "local" /\ GotoStore(r, "get", "local")
       \/ rd[r].service = "grpc" /\ GotoStore(r, "stat", "remote")
       \/ rd[r].service = "combined" /\ GotoStore(r, "has", "local")
    /\ UNCHANGED <<chunkObj, blobObj, wr>>

(* Combined: has() of local, the index first and then the chunk.           *)
HasLocal(r) ==
    /\ rd[r].pc = "has"
    /\ IF rd[r].blob \in blobObj["local"] THEN Goto(r, "get") ELSE Goto(r, "has chunk")
    /\ UNCHANGED <<chunkObj, blobObj, wr>>

HasLocalChunk(r) ==
    /\ rd[r].pc = "has chunk"
    /\ IF IsChunk("local", rd[r].blob) THEN Goto(r, "get") ELSE GotoStore(r, "stat", "remote")
    /\ UNCHANGED <<chunkObj, blobObj, wr>>

(* grpc and combined: chunks() of remote.  An empty list is an open_read   *)
(* there, any other a ChunkedReader over the service itself.               *)
StatRemote(r) ==
    /\ rd[r].pc = "stat"
    /\ IF rd[r].blob \notin blobObj["remote"] THEN Goto(r, "stat chunk")
       ELSE IF ListOf(rd[r].blob) = <<>> THEN Goto(r, "get") ELSE Goto(r, "stream")
    /\ UNCHANGED <<chunkObj, blobObj, wr>>

StatRemoteChunk(r) ==
    /\ rd[r].pc = "stat chunk"
    /\ IF IsChunk("remote", rd[r].blob) THEN Goto(r, "get") ELSE Goto(r, "none")
    /\ UNCHANGED <<chunkObj, blobObj, wr>>

-----------------------------------------------------------------------------
(* ObjectStoreBlobService::open_read.  The empty blob needs no request; a  *)
(* blob that is one chunk is served from it, else chunks() is asked.       *)
GetChunk(r) ==
    /\ rd[r].pc = "get"
    /\ IF rd[r].blob = <<>> \/ IsChunk(rd[r].store, rd[r].blob)
       THEN rd' = [rd EXCEPT ![r] = [rd[r] EXCEPT !.pc = "done", !.n = Len(rd[r].blob)]]
       ELSE Goto(r, "chunks")
    /\ UNCHANGED <<chunkObj, blobObj, wr>>

\* An empty list makes ChunkedReader::from_chunks panic.
GetIndex(r) ==
    /\ rd[r].pc = "chunks"
    /\ IF rd[r].blob \notin blobObj[rd[r].store] THEN Goto(r, "chunks head")
       ELSE IF ListOf(rd[r].blob) = <<>> THEN Goto(r, "panicked") ELSE Goto(r, "stream")
    /\ UNCHANGED <<chunkObj, blobObj, wr>>

HeadInChunks(r) ==
    /\ rd[r].pc = "chunks head"
    /\ IF IsChunk(rd[r].store, rd[r].blob) THEN Goto(r, "panicked") ELSE Goto(r, "none")
    /\ UNCHANGED <<chunkObj, blobObj, wr>>

(* The ChunkedReader opens its chunks one after the other, through the     *)
(* service it was made by; the combined one tries local first.             *)
Source(r) == IF rd[r].service = "combined" /\ rd[r].store = "remote" THEN Stores ELSE {rd[r].store}

ReadChunk(r) ==
    /\ rd[r].pc = "stream" /\ rd[r].n < Len(rd[r].blob)
    /\ IF \E s \in Source(r) : rd[r].blob[rd[r].n + 1] \in chunkObj[s]
       THEN rd' = [rd EXCEPT ![r] = [rd[r] EXCEPT !.n = rd[r].n + 1]]
       ELSE Goto(r, "missing")
    /\ UNCHANGED <<chunkObj, blobObj, wr>>

ReadEnds(r) ==
    /\ rd[r].pc = "stream" /\ rd[r].n = Len(rd[r].blob)
    /\ Goto(r, "done")
    /\ UNCHANGED <<chunkObj, blobObj, wr>>

-----------------------------------------------------------------------------
WriterNext(w) ==
    HeadOfChunk(w) \/ PutChunk(w) \/ HeadOfBlob(w) \/ PutBlob(w) \/ UploadFails(w)

BlobReaderNext(r) ==
    \/ OpenRead(r) \/ HasLocal(r) \/ HasLocalChunk(r) \/ StatRemote(r) \/ StatRemoteChunk(r)
    \/ GetChunk(r) \/ GetIndex(r) \/ HeadInChunks(r) \/ ReadChunk(r) \/ ReadEnds(r)

BlobNext == (\E w \in Writers : WriterNext(w)) \/ (\E r \in Readers : BlobReaderNext(r))

BlobSpec == BlobInit /\ [][BlobNext]_bvars

-----------------------------------------------------------------------------
(* The index of a blob appears after all its chunks: whatever uploads race *)
(* or stop half way, an index never names a chunk its store does not have. *)
IndexComplete ==
    \A s \in Stores : \A b \in blobObj[s] : \A i \in DOMAIN b : b[i] \in chunkObj[s]

(* A reader that was given a blob by any of the three services reads all   *)
(* of it: no chunk turns out to be missing half way.                       *)
ReadComplete == \A r \in Readers : rd[r].pc # "missing"
=============================================================================
