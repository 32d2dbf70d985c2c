-------------------------- MODULE BlobStoresProofs --------------------------
(***************************************************************************)
(* Proofs about the blob stores, for any chunks and blobs and any number   *)
(* of writers and readers: the index of a blob names only chunks that are  *)
(* stored, and no reader that was given a blob finds a chunk missing.      *)
(***************************************************************************)
EXTENDS BlobStores, FileReads, WellFoundedInduction, TLAPS

(* A writer has stored the n chunks it has gone past, and puts the index   *)
(* only when those are all of them.                                        *)
WriterInv ==
    \A w \in Writers :
        /\ wr[w].n <= Len(wr[w].blob)
        /\ \A i \in 1..wr[w].n : wr[w].blob[i] \in chunkObj[wr[w].store]
        /\ wr[w].pc = "put chunk" => wr[w].n < Len(wr[w].blob)
        /\ wr[w].pc = "put blob" => wr[w].n = Len(wr[w].blob)

(* A reader asks the remote store while it is in chunks() of it, and       *)
(* streams a blob only after it has seen its index.                        *)
ReaderInv ==
    \A r \in Readers :
        /\ rd[r].pc \in {"stat", "stat chunk"} => rd[r].store = "remote"
        /\ rd[r].pc = "stream" => rd[r].blob \in blobObj[rd[r].store]

IInv == BlobTypeOK /\ IndexComplete /\ WriterInv /\ ReaderInv /\ ReadComplete

(* The indices and positions of a blob.                                    *)
LEMMA BlobFacts ==
    ASSUME NEW b \in Blobs
    PROVE  Len(b) \in Nat /\ DOMAIN b = 1..Len(b) /\ \A i \in 1..Len(b) : b[i] \in Chunks
  BY BlobsAssumption

(* Both stores are empty and nothing is under way at first.                *)
LEMMA InitIInv == BlobInit => IInv
  <1> SUFFICES ASSUME BlobInit PROVE IInv
    OBVIOUS
  <1>1. BlobTypeOK
    <2>1. {0} \subseteq Nat
      OBVIOUS
    <2>2. [pc : {"chunk"}, store : Stores, blob : Blobs, n : {0}] \subseteq Writer
      BY <2>1, Zenon DEF Writer
    <2>3. [pc : {"idle"}, service : Services, store : {"local"}, blob : Blobs, n : {0}]
            \subseteq Reader
      BY <2>1, Zenon DEF Reader, Stores
    <2>4. wr \in [Writers -> Writer] /\ rd \in [Readers -> Reader]
      BY <2>2, <2>3 DEF BlobInit
    <2> QED BY <2>4 DEF BlobInit, BlobTypeOK
  <1>2. IndexComplete
    BY DEF BlobInit, IndexComplete
  <1>3. WriterInv
    <2>1. \A w \in Writers : wr[w].blob \in Blobs /\ wr[w].n = 0 /\ wr[w].pc = "chunk"
      BY DEF BlobInit
    <2>2. \A w \in Writers : Len(wr[w].blob) \in Nat
      BY <2>1, BlobFacts
    <2> SUFFICES ASSUME NEW w \in Writers
                 PROVE  /\ wr[w].n <= Len(wr[w].blob)
                        /\ 1..wr[w].n = {}
                        /\ wr[w].pc = "chunk"
      BY Zenon DEF WriterInv
    <2> QED BY <2>1, <2>2
  <1>4. ReaderInv /\ ReadComplete
    BY Zenon DEF BlobInit, ReaderInv, ReadComplete
  <1> QED BY <1>1, <1>2, <1>3, <1>4 DEF IInv
(* The step of a writer keeps the types.                                   *)
LEMMA WriterTypes ==
    ASSUME BlobTypeOK, NEW w \in Writers, WriterNext(w), WriterInv
    PROVE  BlobTypeOK'
  <1> USE DEF BlobTypeOK
  <1>1. wr[w] \in Writer
    OBVIOUS
  <1>2. \A i \in 1..Len(wr[w].blob) : wr[w].blob[i] \in Chunks
    BY <1>1, BlobFacts, Zenon DEF Writer
  <1>3. wr[w].n + 1 \in Nat
    <2>1. wr[w].n \in Nat
      BY <1>1, Zenon DEF Writer
    <2> QED BY <2>1
  <1>4. CASE HeadOfChunk(w)
    <2>1. /\ [wr[w] EXCEPT !.n = wr[w].n + 1] \in Writer
          /\ [wr[w] EXCEPT !.pc = "put chunk"] \in Writer
      BY <1>1, <1>3, Zenon DEF Writer
    <2> QED BY <1>4, <2>1, Zenon DEF HeadOfChunk
  <1>5. CASE PutChunk(w)
    <2>1. wr[w].blob \in Blobs /\ wr[w].n \in Nat /\ wr[w].store \in Stores
      BY <1>1, Zenon DEF Writer
    <2>2. wr[w].n < Len(wr[w].blob)
      BY <1>5, Zenon DEF PutChunk, WriterInv
    <2>3. wr[w].n + 1 \in 1..Len(wr[w].blob)
      BY <2>1, <2>2, BlobFacts
    <2>4. wr[w].blob[wr[w].n + 1] \in Chunks
      BY <1>2, <2>3
    <2>5. [wr[w] EXCEPT !.pc = "chunk", !.n = wr[w].n + 1] \in Writer
      BY <1>1, <1>3, Zenon DEF Writer
    <2>6. chunkObj' \in [Stores -> SUBSET Chunks]
      BY <1>5, <2>1, <2>4, Zenon DEF PutChunk
    <2> QED BY <1>5, <2>5, <2>6, Zenon DEF PutChunk
  <1>6. CASE HeadOfBlob(w)
    BY <1>1, <1>6, Zenon DEF HeadOfBlob, Writer
  <1>7. CASE PutBlob(w)
    BY <1>1, <1>7, Zenon DEF PutBlob, Writer
  <1>8. CASE UploadFails(w)
    BY <1>1, <1>8, Zenon DEF UploadFails, Writer
  <1> QED BY <1>4, <1>5, <1>6, <1>7, <1>8 DEF WriterNext

(* The step of a reader keeps the types, and leaves the stores and the     *)
(* writers alone.                                                          *)
LEMMA ReaderTypes ==
    ASSUME BlobTypeOK, NEW r \in Readers, BlobReaderNext(r)
    PROVE  BlobTypeOK' /\ UNCHANGED <<chunkObj, blobObj, wr>>
  <1> USE DEF BlobTypeOK
  <1>1. rd[r] \in Reader
    OBVIOUS
  <1>2. UNCHANGED <<chunkObj, blobObj, wr>>
    BY Zenon DEF BlobReaderNext, OpenRead, HasLocal, HasLocalChunk, StatRemote, StatRemoteChunk,
           GetChunk, GetIndex, HeadInChunks, ReadChunk, ReadEnds
  <1>3. \E x \in Reader : rd' = [rd EXCEPT ![r] = x]
    <2>2. CASE OpenRead(r)
      BY <1>1, <2>2, Zenon DEF OpenRead, GotoStore, Reader, Stores
    <2>3. CASE HasLocal(r)
      BY <1>1, <2>3, Zenon DEF HasLocal, Goto, Reader
    <2>4. CASE HasLocalChunk(r)
      BY <1>1, <2>4, Zenon DEF HasLocalChunk, Goto, GotoStore, Reader, Stores
    <2>5. CASE StatRemote(r)
      BY <1>1, <2>5, Zenon DEF StatRemote, Goto, Reader
    <2>6. CASE StatRemoteChunk(r)
      BY <1>1, <2>6, Zenon DEF StatRemoteChunk, Goto, Reader
    <2>7. CASE GetChunk(r)
      <3>1. Len(rd[r].blob) \in Nat
        BY <1>1, BlobFacts, Zenon DEF Reader
      <3>2. /\ [rd[r] EXCEPT !.pc = "done", !.n = Len(rd[r].blob)] \in Reader
            /\ [rd[r] EXCEPT !.pc = "chunks"] \in Reader
        BY <1>1, <3>1, Zenon DEF Reader
      <3> QED BY <2>7, <3>2 DEF GetChunk, Goto
    <2>8. CASE GetIndex(r)
      BY <1>1, <2>8, Zenon DEF GetIndex, Goto, Reader
    <2>9. CASE HeadInChunks(r)
      BY <1>1, <2>9, Zenon DEF HeadInChunks, Goto, Reader
    <2>10. CASE ReadChunk(r)
      <3>1. rd[r].n \in Nat
        BY <1>1, Zenon DEF Reader
      <3>2. rd[r].n + 1 \in Nat
        BY <3>1
      <3>3. /\ [rd[r] EXCEPT !.n = rd[r].n + 1] \in Reader
            /\ [rd[r] EXCEPT !.pc = "missing"] \in Reader
        BY <1>1, <3>2, Zenon DEF Reader
      <3> QED BY <2>10, <3>3 DEF ReadChunk, Goto
    <2>11. CASE ReadEnds(r)
      BY <1>1, <2>11, Zenon DEF ReadEnds, Goto, Reader
    <2> QED BY <2>2, <2>3, <2>4, <2>5, <2>6, <2>7, <2>8, <2>9, <2>10, <2>11 DEF BlobReaderNext
  <1> QED BY <1>2, <1>3

(* One more position.                                                      *)
LEMMA UpToNext ==
    ASSUME NEW n \in Nat
    PROVE  \A i \in 1..(n + 1) : i = n + 1 \/ i \in 1..n
  OBVIOUS

(* No object is ever removed from a store.                                 *)
LEMMA StoresGrow ==
    ASSUME BlobTypeOK, NEW w \in Writers, WriterNext(w)
    PROVE  /\ \A s \in Stores : chunkObj[s] \subseteq chunkObj'[s] /\ blobObj[s] \subseteq blobObj'[s]
           /\ rd' = rd
           /\ \A v \in Writers : v # w => wr'[v] = wr[v]
           /\ wr'[w].blob = wr[w].blob /\ wr'[w].store = wr[w].store
  <1>1. wr[w] \in Writer
    BY DEF BlobTypeOK
  <1>2. DOMAIN wr = Writers /\ DOMAIN chunkObj = Stores /\ DOMAIN blobObj = Stores
    BY Zenon DEF BlobTypeOK
  <1>3. rd' = rd
    BY Zenon DEF WriterNext, HeadOfChunk, PutChunk, HeadOfBlob, PutBlob, UploadFails
  <1>4. \A s \in Stores : chunkObj[s] \subseteq chunkObj'[s]
    <2>1. chunkObj' = chunkObj \/ PutChunk(w)
      BY Zenon DEF WriterNext, HeadOfChunk, HeadOfBlob, PutBlob, UploadFails
    <2> QED BY <1>2, <2>1, Zenon DEF PutChunk
  <1>5. \A s \in Stores : blobObj[s] \subseteq blobObj'[s]
    <2>1. blobObj' = blobObj \/ PutBlob(w)
      BY Zenon DEF WriterNext, HeadOfChunk, HeadOfBlob, PutChunk, UploadFails
    <2> QED BY <1>2, <2>1, Zenon DEF PutBlob
  <1>6. \A v \in Writers : v # w => wr'[v] = wr[v]
    BY <1>2, Zenon DEF WriterNext, HeadOfChunk, PutChunk, HeadOfBlob, PutBlob, UploadFails
  <1>7. wr'[w].blob = wr[w].blob /\ wr'[w].store = wr[w].store
    <2>1. CASE HeadOfChunk(w)
      BY <1>1, <1>2, <2>1, Zenon DEF HeadOfChunk, Writer
    <2>2. CASE PutChunk(w)
      BY <1>1, <1>2, <2>2, Zenon DEF PutChunk, Writer
    <2>3. CASE HeadOfBlob(w)
      BY <1>1, <1>2, <2>3, Zenon DEF HeadOfBlob, Writer
    <2>4. CASE PutBlob(w)
      BY <1>1, <1>2, <2>4, Zenon DEF PutBlob, Writer
    <2>5. CASE UploadFails(w)
      BY <1>1, <1>2, <2>5, Zenon DEF UploadFails, Writer
    <2> QED BY <2>1, <2>2, <2>3, <2>4, <2>5 DEF WriterNext
  <1> QED BY <1>3, <1>4, <1>5, <1>6, <1>7

(* The step of a writer keeps what is known of the writers.                *)
LEMMA WriterKeepsWriterInv ==
    ASSUME BlobTypeOK, WriterInv, NEW w \in Writers, WriterNext(w)
    PROVE  WriterInv'
  <1> DEFINE b == wr[w].blob
             n == wr[w].n
             s == wr[w].store
  <1>1. /\ wr[w] \in Writer /\ DOMAIN wr = Writers
        /\ b \in Blobs /\ n \in Nat /\ s \in Stores
        /\ chunkObj \in [Stores -> SUBSET Chunks]
    BY Zenon DEF BlobTypeOK, Writer
  <1>2. Len(b) \in Nat
    BY <1>1, BlobFacts
  <1>3. /\ n <= Len(b)
        /\ \A i \in 1..n : b[i] \in chunkObj[s]
        /\ wr[w].pc = "put chunk" => n < Len(b)
        /\ wr[w].pc = "put blob" => n = Len(b)
    BY Zenon DEF WriterInv
  <1> SUFFICES ASSUME NEW v \in Writers
               PROVE  /\ wr'[v].n <= Len(wr'[v].blob)
                      /\ \A i \in 1..wr'[v].n : wr'[v].blob[i] \in chunkObj'[wr'[v].store]
                      /\ wr'[v].pc = "put chunk" => wr'[v].n < Len(wr'[v].blob)
                      /\ wr'[v].pc = "put blob" => wr'[v].n = Len(wr'[v].blob)
    BY Zenon DEF WriterInv
  <1>4. CASE v # w
    <2>1. wr[v].store \in Stores
      BY Zenon DEF BlobTypeOK, Writer
    <2> QED BY <1>4, <2>1, StoresGrow, Zenon DEF WriterInv
  <1>5. CASE v = w
    <2>1. wr'[w].blob = b /\ wr'[w].store = s /\ chunkObj[s] \subseteq chunkObj'[s]
      BY <1>1, StoresGrow
    <2>2. CASE HeadOfChunk(w)
      <3>1. n < Len(b)
        BY <2>2, Zenon DEF HeadOfChunk
      <3>2. CASE b[n + 1] \in chunkObj[s]
        <4>1. wr'[w].n = n + 1 /\ wr'[w].pc = "chunk"
          BY <1>1, <2>2, <3>2, Zenon DEF HeadOfChunk, Writer
        <4>2. \A i \in 1..(n + 1) : b[i] \in chunkObj[s]
          BY <1>1, <1>3, <3>2, UpToNext, Zenon
        <4> QED BY <1>1, <1>2, <1>5, <2>1, <3>1, <4>1, <4>2
      <3>3. CASE b[n + 1] \notin chunkObj[s]
        <4>1. wr'[w].n = n /\ wr'[w].pc = "put chunk"
          BY <1>1, <2>2, <3>3, Zenon DEF HeadOfChunk, Writer
        <4> QED BY <1>3, <1>5, <2>1, <3>1, <4>1, Zenon
      <3> QED BY <3>2, <3>3, Zenon
    <2>3. CASE PutChunk(w)
      <3>1. wr'[w].n = n + 1 /\ wr'[w].pc = "chunk" /\ wr[w].pc = "put chunk"
        BY <1>1, <2>3, Zenon DEF PutChunk, Writer
      <3>2. b[n + 1] \in chunkObj'[s]
        BY <1>1, <2>3, Zenon DEF PutChunk
      <3>3. \A i \in 1..(n + 1) : b[i] \in chunkObj'[s]
        BY <1>1, <1>3, <2>1, <3>2, UpToNext, Zenon
      <3>4. n < Len(b)
        BY <1>3, <3>1, Zenon
      <3>5. n + 1 <= Len(b)
        BY <1>1, <1>2, <3>4
      <3> QED BY <1>5, <2>1, <3>1, <3>3, <3>5, Zenon
    <2>4. CASE HeadOfBlob(w)
      <3>1. wr'[w].n = n /\ wr'[w].pc # "put chunk" /\ n = Len(b)
        BY <1>1, <2>4, Zenon DEF HeadOfBlob, Writer
      <3> QED BY <1>3, <1>5, <2>1, <3>1, Zenon
    <2>5. CASE PutBlob(w)
      <3>1. wr'[w].n = n /\ wr'[w].pc = "closed"
        BY <1>1, <2>5, Zenon DEF PutBlob, Writer
      <3> QED BY <1>3, <1>5, <2>1, <3>1, Zenon
    <2>6. CASE UploadFails(w)
      <3>1. wr'[w].n = n /\ wr'[w].pc = "failed"
        BY <1>1, <2>6, Zenon DEF UploadFails, Writer
      <3> QED BY <1>3, <1>5, <2>1, <3>1, Zenon
    <2> QED BY <2>2, <2>3, <2>4, <2>5, <2>6, Zenon DEF WriterNext
  <1> QED BY <1>4, <1>5, Zenon

(* The step of a writer keeps the indices complete: PutBlob adds one only  *)
(* when all the chunks are stored.                                         *)
LEMMA WriterKeepsIndexComplete ==
    ASSUME BlobTypeOK, IndexComplete, WriterInv, NEW w \in Writers, WriterNext(w)
    PROVE  IndexComplete'
  <1> SUFFICES ASSUME NEW s \in Stores, NEW b \in blobObj'[s], NEW i \in DOMAIN b
               PROVE  b[i] \in chunkObj'[s]
    BY DEF IndexComplete
  <1>1. CASE b \in blobObj[s]
    BY <1>1, StoresGrow DEF IndexComplete
  <1>2. CASE b \notin blobObj[s]
    <2>1. PutBlob(w)
      BY <1>2, Zenon DEF WriterNext, HeadOfChunk, PutChunk, HeadOfBlob, UploadFails
    <2>2. s = wr[w].store /\ b = wr[w].blob /\ wr[w].pc = "put blob"
      BY <1>2, <2>1, Zenon DEF PutBlob, BlobTypeOK
    <2>3. wr[w].n = Len(b) /\ \A j \in 1..wr[w].n : b[j] \in chunkObj[s]
      BY <2>2, Zenon DEF WriterInv
    <2>4. b \in Blobs
      BY <2>2, Zenon DEF BlobTypeOK, Writer
    <2>5. i \in 1..Len(b)
      BY <2>4, BlobFacts
    <2> QED BY <2>3, <2>5, StoresGrow, Zenon
  <1> QED BY <1>1, <1>2

(* The step of a reader: it starts to stream a blob when it has found the  *)
(* index, and then finds every chunk.                                      *)
LEMMA ReaderKeepsReaderInv ==
    ASSUME BlobTypeOK, IndexComplete, ReaderInv, ReadComplete, NEW r \in Readers, BlobReaderNext(r)
    PROVE  ReaderInv' /\ ReadComplete'
  <1> DEFINE b == rd[r].blob
             s == rd[r].store
  <1>1. rd[r] \in Reader /\ DOMAIN rd = Readers /\ b \in Blobs /\ s \in Stores
    BY Zenon DEF BlobTypeOK, Reader
  <1>2. UNCHANGED <<chunkObj, blobObj, wr>>
    BY ReaderTypes
  <1>3. /\ rd[r].pc \in {"stat", "stat chunk"} => s = "remote"
        /\ rd[r].pc = "stream" => b \in blobObj[s]
    BY Zenon DEF ReaderInv
  <1>4. \A q \in Readers : q # r => rd'[q] = rd[q]
    BY <1>1, ZenonT(40)
    DEF BlobReaderNext, OpenRead, HasLocal, HasLocalChunk, StatRemote, StatRemoteChunk,
           GetChunk, GetIndex, HeadInChunks, ReadChunk, ReadEnds, Goto, GotoStore
  <1>5. /\ rd'[r].pc # "missing"
        /\ rd'[r].pc \in {"stat", "stat chunk"} => rd'[r].store = "remote"
        /\ rd'[r].pc = "stream" => rd'[r].blob \in blobObj[rd'[r].store]
    <2>1. CASE OpenRead(r)
      BY <1>1, <2>1, ZenonT(40) DEF OpenRead, GotoStore, Reader
    <2>2. CASE HasLocal(r)
      BY <1>1, <2>2, ZenonT(40) DEF HasLocal, Goto, Reader
    <2>3. CASE HasLocalChunk(r)
      BY <1>1, <2>3 DEF HasLocalChunk, Goto, GotoStore, Reader
    <2>4. CASE StatRemote(r)
      <3>1. rd[r].pc = "stat" /\ s = "remote"
        BY <1>3, <2>4, Zenon DEF StatRemote
      <3> QED BY <1>1, <2>4, <3>1, ZenonT(40) DEF StatRemote, Goto, Reader
    <2>5. CASE StatRemoteChunk(r)
      BY <1>1, <2>5, ZenonT(40) DEF StatRemoteChunk, Goto, Reader
    <2>6. CASE GetChunk(r)
      BY <1>1, <2>6, ZenonT(40) DEF GetChunk, Goto, Reader
    <2>7. CASE GetIndex(r)
      BY <1>1, <2>7, ZenonT(40) DEF GetIndex, Goto, Reader
    <2>8. CASE HeadInChunks(r)
      BY <1>1, <2>8, ZenonT(40) DEF HeadInChunks, Goto, Reader
    <2>9. CASE ReadChunk(r)
      <3>1. rd[r].pc = "stream" /\ rd[r].n < Len(b) /\ rd[r].n \in Nat
        BY <1>1, <2>9, Zenon DEF ReadChunk, Reader
      <3>2. rd[r].n + 1 \in DOMAIN b
        BY <1>1, <3>1, BlobFacts
      <3>3. b[rd[r].n + 1] \in chunkObj[s]
        BY <1>1, <1>3, <3>1, <3>2 DEF IndexComplete
      <3>4. s \in Source(r)
        BY <1>1 DEF Source
      <3>5. rd'[r] = [rd[r] EXCEPT !.n = rd[r].n + 1]
        BY <1>1, <2>9, <3>3, <3>4 DEF ReadChunk
      <3>6. rd'[r].pc = "stream" /\ rd'[r].blob = b /\ rd'[r].store = s
        BY <1>1, <3>1, <3>5, Zenon DEF Reader
      <3> QED BY <1>3, <3>1, <3>6
    <2>10. CASE ReadEnds(r)
      BY <1>1, <2>10, Zenon DEF ReadEnds, Goto, Reader
    <2> QED BY <2>1, <2>2, <2>3, <2>4, <2>5, <2>6, <2>7, <2>8, <2>9, <2>10, Zenon
            DEF BlobReaderNext
  <1>6. ReaderInv'
    BY <1>2, <1>4, <1>5, Zenon DEF ReaderInv
  <1>7. ReadComplete'
    BY <1>4, <1>5, Zenon DEF ReadComplete
  <1> QED BY <1>6, <1>7

(* Every step keeps the inductive invariant.                               *)
LEMMA NextIInv == IInv /\ [BlobNext]_bvars => IInv'
  <1> SUFFICES ASSUME IInv, [BlobNext]_bvars PROVE IInv'
    OBVIOUS
  <1> USE DEF IInv
  <1>1. ASSUME NEW w \in Writers, WriterNext(w) PROVE IInv'
    <2>1. BlobTypeOK' /\ WriterInv' /\ IndexComplete'
      BY <1>1, WriterTypes, WriterKeepsWriterInv, WriterKeepsIndexComplete
    <2>2. \A r \in Readers : rd[r].store \in Stores
      BY Zenon DEF BlobTypeOK, Reader
    <2>3. ReaderInv' /\ ReadComplete'
      BY <1>1, <2>2, StoresGrow, Zenon DEF ReaderInv, ReadComplete
    <2> QED BY <2>1, <2>3
  <1>2. ASSUME NEW r \in Readers, BlobReaderNext(r) PROVE IInv'
    <2>1. BlobTypeOK' /\ UNCHANGED <<chunkObj, blobObj, wr>>
      BY <1>2, ReaderTypes
    <2>2. IndexComplete' /\ WriterInv'
      BY <2>1, Zenon DEF IndexComplete, WriterInv
    <2>3. ReaderInv' /\ ReadComplete'
      BY <1>2, ReaderKeepsReaderInv
    <2> QED BY <2>1, <2>2, <2>3
  <1>3. CASE UNCHANGED bvars
    BY <1>3, Zenon DEF bvars, BlobTypeOK, IndexComplete, WriterInv, ReaderInv, ReadComplete
  <1> QED BY <1>1, <1>2, <1>3 DEF BlobNext

(* The inductive invariant holds always.                                   *)
LEMMA AlwaysIInv == BlobSpec => []IInv
  BY InitIInv, NextIInv, PTL DEF BlobSpec

(* However many uploads race, fail or stop half way, the index that        *)
(* chunk_and_upload puts never names a chunk that is not stored.           *)
THEOREM AlwaysIndexComplete == BlobSpec => []IndexComplete
  <1>1. IInv => IndexComplete
    BY DEF IInv
  <1> QED BY <1>1, AlwaysIInv, PTL

(* A reader that local, gRPC or combined open_read was successful for      *)
(* finds every chunk of the blob.                                          *)
THEOREM AlwaysReadComplete == BlobSpec => []ReadComplete
  <1>1. IInv => ReadComplete
    BY DEF IInv
  <1> QED BY <1>1, AlwaysIInv, PTL

-----------------------------------------------------------------------------
(* Reads of an open file, for every list of chunks and number of threads.  *)

Call == [pc : {"idle", "lock", "seek", "copy", "ok", "eio"}, offset : Nat, size : Nat,
         got : Seq(Nat), made : Nat]

\* Nothing is read before the copy starts.
CallOK(c) == c \in Call /\ (c.pc \in {"lock", "seek"} => c.got = <<>>)

(* The copy has read the bytes from its offset up to a.                    *)
CopyUpTo(c, a) ==
    c.pc = "copy" =>
        /\ c.offset + Len(c.got) = a /\ Len(c.got) <= c.size
        /\ \A i \in 1..Len(c.got) : c.got[i] = c.offset + i - 1

ExactCall(c) == c.pc = "ok" => c.got = Asked(c)

(* The mutex is held from the seek to the end of the copy; until a chunk   *)
(* fails, the stream yields the byte that pos names, and the copy is at    *)
(* that byte.                                                              *)
FileInv ==
    /\ chunks \in Layouts /\ pos \in Nat /\ at \in Nat /\ at <= blob_length
    /\ DOMAIN call = Threads
    /\ \A t \in Threads : CallOK(call[t])
    /\ \A t \in Threads : call[t].pc \in {"seek", "copy"} <=> lock = t
    /\ ~failed => pos = at
    /\ ~failed => \A t \in Threads : CopyUpTo(call[t], at) /\ ExactCall(call[t])

(* A set of numbers has a least one.                                       *)
LEMMA LeastNatural ==
    ASSUME NEW T, T \subseteq Nat, T # {}
    PROVE  \E x \in T : \A y \in T : x <= y
  <1> DEFINE R == OpToRel(<, Nat)
  <1>1. IsWellFoundedOn(R, Nat)
    BY NatLessThanWellFounded, Zenon
  <1>2. \A x, y \in Nat : y < x => <<y, x>> \in R
    BY DEF OpToRel
  <1> HIDE DEF R
  <1>3. PICK x \in T : \A y \in T : ~ (<<y, x>> \in R)
    BY <1>1, WFMin, Zenon
  <1>4. \A y \in T : ~(y < x)
    BY <1>2, <1>3, Zenon
  <1>5. \A y \in T : x <= y
    BY <1>4
  <1> QED BY <1>5

(* Every byte of a blob is in one of the chunks from_iter lists, and the   *)
(* chunks end where the blob does.                                         *)
LEMMA ChunksCover ==
    ASSUME NEW cs \in Layouts
    PROVE  /\ cs \in Seq(ChunkAt) /\ Len(cs) \in Nat \ {0} /\ Len(cs) \in 1..Len(cs)
           /\ End(cs[Len(cs)]) \in Nat
           /\ \A i \in 1..Len(cs) :
                 /\ cs[i].start \in Nat /\ cs[i].size \in Nat /\ End(cs[i]) \in Nat
                 /\ End(cs[i]) <= End(cs[Len(cs)])
           /\ \A p \in Nat : p < End(cs[Len(cs)]) =>
                 \E i \in 1..Len(cs) : cs[i].start <= p /\ p < End(cs[i])
  <1>1. /\ cs \in Seq(ChunkAt) /\ Len(cs) \in Nat \ {0} /\ Len(cs) \in 1..Len(cs)
        /\ cs[1].start = 0
        /\ \A i \in 1..Len(cs) - 1 : cs[i + 1].start = End(cs[i])
    BY ReadsAssumption
  <1>2. ASSUME NEW i \in 1..Len(cs)
        PROVE  cs[i].start \in Nat /\ cs[i].size \in Nat /\ End(cs[i]) \in Nat
    <2>1. cs[i] \in ChunkAt BY <1>1
    <2> QED BY <2>1 DEF ChunkAt, End
  <1>3. End(cs[Len(cs)]) \in Nat BY <1>1, <1>2
  <1>4. ASSUME NEW i \in 1..Len(cs) PROVE End(cs[i]) <= End(cs[Len(cs)])
    <2> DEFINE T == {Len(cs) - j : j \in {k \in 1..Len(cs) : End(cs[k]) > End(cs[Len(cs)])}}
    <2>1. SUFFICES ASSUME T # {} PROVE FALSE BY <1>2, <1>3
    <2>2. T \subseteq Nat BY <1>1
    <2>3. PICK x \in T : \A y \in T : x <= y
      <3> HIDE DEF T
      <3> QED BY <2>1, <2>2, LeastNatural, Zenon
    <2>4. PICK j \in 1..Len(cs) : x = Len(cs) - j /\ End(cs[j]) > End(cs[Len(cs)]) OBVIOUS
    <2>5. j # Len(cs) BY <1>1, <1>3, <2>4
    <2>6. /\ j + 1 \in 1..Len(cs) /\ j \in 1..Len(cs) - 1 /\ Len(cs) - (j + 1) < x
      BY <1>1, <2>4, <2>5
    <2>7. End(cs[j + 1]) >= End(cs[j])
      <3>1. cs[j + 1].start = End(cs[j]) BY <1>1, <2>6, Zenon
      <3> QED BY <1>2, <2>6, <3>1, SMTT(40) DEF End
    <2>8. Len(cs) - (j + 1) \in T BY <1>2, <1>3, <2>4, <2>6, <2>7, SMTT(40)
    <2> HIDE DEF T
    <2> QED BY <2>2, <2>3, <2>6, <2>8
  <1>5. ASSUME NEW p \in Nat, p < End(cs[Len(cs)])
        PROVE  \E i \in 1..Len(cs) : cs[i].start <= p /\ p < End(cs[i])
    <2> DEFINE T == {i \in 1..Len(cs) : p < End(cs[i])}
    <2>1. T \subseteq Nat /\ T # {} BY <1>1, <1>5
    <2>2. PICK i \in T : \A j \in T : i <= j
      <3> HIDE DEF T
      <3> QED BY <2>1, LeastNatural, Zenon
    <2>3. CASE i = 1 BY <1>1, <2>2, <2>3
    <2>4. CASE i # 1
      <3>1. i - 1 \in 1..Len(cs) /\ i - 1 \in 1..Len(cs) - 1 /\ (i - 1) + 1 = i BY <1>1, <2>2, <2>4
      <3>2. i - 1 \notin T BY <1>1, <2>2, <3>1
      <3>3. End(cs[i - 1]) <= p BY <1>2, <3>1, <3>2
      <3>4. cs[i].start = End(cs[i - 1]) BY <1>1, <3>1
      <3> QED BY <2>2, <3>3, <3>4
    <2> QED BY <2>3, <2>4
  <1> QED BY <1>1, <1>2, <1>3, <1>4, <1>5

(* The chunk that the search finds for a byte of the blob.                 *)
LEMMA ChunkFound ==
    ASSUME chunks \in Layouts, NEW p \in Nat, p < blob_length
    PROVE  LET c == chunks[get_chunk_idx_for_position(p)] IN
              /\ c.start \in Nat /\ c.start <= p /\ p < End(c) /\ End(c) \in Nat
              /\ End(c) <= blob_length
  <1> DEFINE i == get_chunk_idx_for_position(p)
  <1>1. i \in 1..Len(chunks) /\ chunks[i].start <= p /\ p < End(chunks[i])
    <2>1. DOMAIN chunks = 1..Len(chunks) BY ChunksCover
    <2>2. \E j \in DOMAIN chunks : chunks[j].start <= p /\ p < End(chunks[j])
      BY <2>1, ChunksCover, Zenon DEF blob_length
    <2> QED BY <2>1, <2>2 DEF get_chunk_idx_for_position
  <1> HIDE DEF i
  <1>2. chunks[i].start \in Nat /\ End(chunks[i]) \in Nat /\ End(chunks[i]) <= blob_length
    BY <1>1, ChunksCover DEF blob_length
  <1> QED BY <1>1, <1>2 DEF i

(* A stream for a position in the file starts with the byte there.         *)
LEMMA SkippedOffset ==
    ASSUME chunks \in Layouts, NEW o \in Nat, o <= blob_length
    PROVE  reader_skipped_offset(o) = o
  <1>1. blob_length \in Nat BY ChunksCover, Zenon DEF blob_length
  <1> QED BY <1>1, ChunkFound DEF reader_skipped_offset

(* A request that goes on leaves the others alone.                         *)
LEMMA Going ==
    ASSUME FileInv, NEW t \in Threads, NEW pc \in {"seek", "copy", "ok", "eio"},
           NEW got \in Seq(Nat), Goes(t, pc, got), pc = "seek" => got = <<>>
    PROVE  /\ DOMAIN call' = Threads /\ \A u \in Threads : CallOK(call'[u])
           /\ \A u \in Threads \ {t} : call'[u] = call[u]
           /\ call'[t].pc = pc /\ call'[t].got = got
           /\ call'[t].offset = call[t].offset /\ call'[t].size = call[t].size
  <1>1. call[t] \in Call /\ DOMAIN call = Threads BY DEF FileInv, CallOK
  <1>2. DOMAIN call' = Threads /\ \A u \in Threads \ {t} : call'[u] = call[u]
    BY <1>1 DEF Goes
  <1>3. call'[t] = [pc |-> pc, offset |-> call[t].offset, size |-> call[t].size,
                    got |-> got, made |-> call[t].made]
    BY <1>1 DEF Goes
  <1>4. CallOK(call'[t]) BY <1>1, <1>3, SMTT(40) DEF Call, CallOK
  <1> QED BY <1>2, <1>3, <1>4 DEF FileInv

(* A step of one thread keeps FileInv when its own request and the reader  *)
(* agree afterwards: only the holder of the mutex moves the reader.        *)
LEMMA StepOfOne ==
    ASSUME FileInv, NEW t \in Threads, UNCHANGED chunks,
           DOMAIN call' = Threads, \A u \in Threads : CallOK(call'[u]),
           \A u \in Threads \ {t} : call'[u] = call[u],
           pos' \in Nat, at' \in Nat, at' <= blob_length,
           \A u \in Threads \ {t} : lock' = u <=> lock = u,
           call'[t].pc \in {"seek", "copy"} <=> lock' = t,
           failed => failed',
           ~failed' => pos' = at' /\ CopyUpTo(call'[t], at') /\ ExactCall(call'[t]),
           at' = at \/ lock = t
    PROVE  FileInv'
  <1>1. blob_length' = blob_length BY DEF blob_length
  <1>3. ASSUME ~failed', NEW u \in Threads
        PROVE  CopyUpTo(call'[u], at') /\ ExactCall(call'[u])
    <2>1. CASE u = t BY <1>3, <2>1
    <2>2. CASE u # t
      <3>1. /\ call'[u] = call[u] /\ CopyUpTo(call[u], at) /\ ExactCall(call[u])
            /\ call[u].pc = "copy" => lock = u
        BY <1>3, <2>2, Zenon DEF FileInv
      <3>2. CopyUpTo(call[u], at') BY <2>2, <3>1, Zenon DEF CopyUpTo
      <3> QED BY <3>1, <3>2
    <2> QED BY <2>1, <2>2
  <1>4. \A u \in Threads : call'[u].pc \in {"seek", "copy"} <=> lock' = u
    BY Zenon DEF FileInv
  <1> QED BY <1>1, <1>3, <1>4, Zenon DEF FileInv, ExactCall, CopyUpTo, Asked

(* A new request waits for the mutex.                                      *)
LEMMA RequestOK ==
    ASSUME FileInv, NEW t \in Threads, Request(t) PROVE FileInv'
  <1>1. blob_length \in Nat BY ChunksCover DEF FileInv, blob_length
  <1>2. PICK offset \in 0..blob_length + 1, size \in 1..MaxSize :
          call' = [call EXCEPT ![t] = [pc |-> "lock", offset |-> offset, size |-> size,
                                       got |-> <<>>, made |-> call[t].made + 1]]
    BY Zenon DEF Request
  <1>3. /\ call[t] \in Call /\ DOMAIN call = Threads /\ call[t].pc \notin {"seek", "copy"}
        /\ \A u \in Threads : CallOK(call[u])
    BY DEF FileInv, Request, CallOK
  <1>4. /\ DOMAIN call' = Threads /\ \A u \in Threads \ {t} : call'[u] = call[u]
        /\ call'[t] = [pc |-> "lock", offset |-> offset, size |-> size,
                       got |-> <<>>, made |-> call[t].made + 1]
    BY <1>2, <1>3
  <1>5. CallOK(call'[t]) /\ call'[t].pc = "lock"
    BY <1>1, <1>3, <1>4 DEF Call, CallOK
  <1>6. CopyUpTo(call'[t], at') /\ ExactCall(call'[t])
    BY <1>5, Zenon DEF CopyUpTo, ExactCall
  <1>7. \A u \in Threads : CallOK(call'[u])
    BY <1>3, <1>4, <1>5, Zenon
  <1>8. /\ UNCHANGED <<chunks, pos, at, lock, failed>> /\ lock # t
        /\ pos \in Nat /\ at \in Nat /\ at <= blob_length /\ (~failed => pos = at)
    BY <1>3, Zenon DEF FileInv, Request
  <1> QED BY <1>4, <1>5, <1>6, <1>7, <1>8, StepOfOne, Zenon

(* The mutex is free: nobody is between seek and reply.                    *)
LEMMA AcquireOK ==
    ASSUME FileInv, NEW t \in Threads, Acquire(t) PROVE FileInv'
  <1>1. call[t].got = <<>> /\ call[t].got \in Seq(Nat) BY Zenon DEF FileInv, Call, CallOK, Acquire
  <1>2. Goes(t, "seek", call[t].got) BY DEF Acquire
  <1>3. /\ DOMAIN call' = Threads /\ \A u \in Threads : CallOK(call'[u])
        /\ \A u \in Threads \ {t} : call'[u] = call[u]
        /\ call'[t].pc = "seek"
    BY <1>1, <1>2, Going, Zenon
  <1>4. CopyUpTo(call'[t], at') /\ ExactCall(call'[t])
    BY <1>3 DEF CopyUpTo, ExactCall
  <1>5. /\ UNCHANGED <<chunks, pos, at, failed>> /\ lock' = t /\ lock \notin Threads
        /\ pos \in Nat /\ at \in Nat /\ at <= blob_length /\ (~failed => pos = at)
    BY ReadsAssumption DEF FileInv, Acquire
  <1> QED BY <1>3, <1>4, <1>5, StepOfOne

(* A seek: pos and the stream agree afterwards if they did before.         *)
LEMMA SeekOK ==
    ASSUME FileInv, NEW t \in Threads, start_seek(t) PROVE FileInv'
  <1>1. /\ call[t].got = <<>> /\ call[t].got \in Seq(Nat) /\ call[t].offset \in Nat /\ call[t].size \in Nat
        /\ lock = t /\ blob_length \in Nat /\ UNCHANGED <<chunks, failed>>
        /\ pos \in Nat /\ at \in Nat /\ at <= blob_length /\ (~failed => pos = at)
    BY ChunksCover, Zenon DEF FileInv, Call, CallOK, start_seek, blob_length
  <1>2. CASE call[t].offset > blob_length
    <2>1. Goes(t, "eio", call[t].got) /\ lock' = NoThread /\ UNCHANGED <<pos, at>>
      BY <1>2 DEF start_seek
    <2>2. /\ DOMAIN call' = Threads /\ \A u \in Threads : CallOK(call'[u])
          /\ \A u \in Threads \ {t} : call'[u] = call[u]
          /\ call'[t].pc = "eio"
      BY <1>1, <2>1, Going, Zenon
    <2>3. CopyUpTo(call'[t], at') /\ ExactCall(call'[t])
      BY <2>2, Zenon DEF CopyUpTo, ExactCall
    <2> QED BY <1>1, <2>1, <2>2, <2>3, StepOfOne, ReadsAssumption
  <1>3. CASE ~(call[t].offset > blob_length)
    <2>1. /\ pos' = call[t].offset /\ Goes(t, "copy", call[t].got) /\ lock' = lock
          /\ at' = IF call[t].offset = pos THEN at ELSE reader_skipped_offset(call[t].offset)
      BY <1>3 DEF start_seek
    <2>2. /\ DOMAIN call' = Threads /\ \A u \in Threads : CallOK(call'[u])
          /\ \A u \in Threads \ {t} : call'[u] = call[u]
          /\ call'[t].pc = "copy" /\ call'[t].got = call[t].got
          /\ call'[t].offset = call[t].offset /\ call'[t].size = call[t].size
      BY <1>1, <2>1, Going, Zenon
    <2>3. reader_skipped_offset(call[t].offset) = call[t].offset
      BY <1>1, <1>3, SkippedOffset DEF FileInv
    <2>4. at' \in Nat /\ at' <= blob_length /\ (~failed => pos' = at')
      BY <1>1, <1>3, <2>1, <2>3, SMTT(40)
    <2>5. ~failed => CopyUpTo(call'[t], at')
      BY <1>1, <2>1, <2>2, <2>4 DEF CopyUpTo
    <2>6. ExactCall(call'[t]) BY <2>2 DEF ExactCall
    <2> QED BY <1>1, <2>1, <2>2, <2>4, <2>5, <2>6, StepOfOne, Zenon
  <1> QED BY <1>2, <1>3, Zenon

(* Bytes a copy gets are put after those it has.                           *)
LEMMA MoreRead ==
    ASSUME NEW old \in Seq(Nat), NEW n \in Nat, NEW a \in Nat
    PROVE  LET got == old \o [i \in 1..n |-> a + i - 1] IN
              /\ got \in Seq(Nat) /\ Len(got) = Len(old) + n
              /\ \A i \in 1..Len(old) : got[i] = old[i]
              /\ \A i \in 1..n : got[Len(old) + i] = a + i - 1
  <1> DEFINE more == [i \in 1..n |-> a + i - 1]
  <1>1. more \in Seq(Nat) /\ Len(more) = n /\ \A i \in 1..n : more[i] = a + i - 1
    OBVIOUS
  <1> HIDE DEF more
  <1>2. /\ old \o more \in Seq(Nat) /\ Len(old \o more) = Len(old) + n
        /\ \A i \in 1..Len(old) : (old \o more)[i] = old[i]
        /\ \A i \in 1..n : (old \o more)[Len(old) + i] = more[i]
    <2>1. /\ old \o more \in Seq(Nat) /\ Len(old \o more) = Len(old) + Len(more)
          /\ \A i \in 1..Len(old) + Len(more) :
                (old \o more)[i] = IF i <= Len(old) THEN old[i] ELSE more[i - Len(old)]
      BY <1>1
    <2>2. PICK k \in Nat : k = Len(old) OBVIOUS
    <2>3. \A i \in 1..n : /\ k + i \in 1..k + n /\ ~(k + i <= k) /\ (k + i) - k = i
      OBVIOUS
    <2>4. \A i \in 1..k : i \in 1..k + n /\ i <= k
      BY SMTT(40)
    <2> QED BY <1>1, <2>1, <2>2, <2>3, <2>4
  <1> QED BY <1>1, <1>2, SMTT(40) DEF more

(* A poll_read: pos, the stream and the copy advance together.             *)
LEMMA PollReadOK ==
    ASSUME FileInv, NEW t \in Threads, poll_read(t) PROVE FileInv'
  <1>1. /\ call[t].got \in Seq(Nat) /\ call[t].offset \in Nat /\ call[t].size \in Nat
        /\ lock = t /\ lock' = lock /\ UNCHANGED <<chunks, failed>> /\ call[t].pc = "copy"
        /\ pos \in Nat /\ at \in Nat /\ at < blob_length /\ (~failed => pos = at)
        /\ Len(call[t].got) < call[t].size /\ blob_length \in Nat
    BY ChunksCover, Zenon DEF FileInv, Call, CallOK, poll_read, blob_length
  <1>2. PICK n \in 1..Ready(t) :
          /\ Goes(t, "copy", call[t].got \o [i \in 1..n |-> at + i - 1])
          /\ pos' = pos + n /\ at' = at + n
    BY Zenon DEF poll_read
  <1>3. n \in Nat /\ at + n <= blob_length /\ Len(call[t].got) + n <= call[t].size
    <2> DEFINE e == End(chunks[get_chunk_idx_for_position(at)])
    <2>1. e \in Nat /\ at < e /\ e <= blob_length
      BY <1>1, ChunkFound, Zenon DEF FileInv
    <2>2. Len(call[t].got) \in Nat BY <1>1
    <2>3. PICK a \in Int, b \in Int : a = e - at /\ b = call[t].size - Len(call[t].got)
      BY <1>1, <2>1, <2>2, SMTT(40)
    <2>4. Ready(t) = Smaller(a, b) BY <2>3 DEF Ready
    <2>5. Ready(t) = IF a <= b THEN a ELSE b BY <2>4 DEF Smaller
    <2> HIDE DEF e
    <2>6. Ready(t) \in Int /\ Ready(t) <= a /\ Ready(t) <= b BY <2>5
    <2>7. n \in Nat /\ n <= a /\ n <= b BY <2>6
    <2>8. at + n <= e /\ at + n <= blob_length
      BY ONLY <2>1, <2>3, <2>7, <1>1, SMTT(40)
    <2>9. Len(call[t].got) + n <= call[t].size
      <3>1. PICK k \in Nat, z \in Nat : k = Len(call[t].got) /\ z = call[t].size
        BY <1>1, <2>2
      <3>2. b = z - k BY <2>3, <3>1
      <3>3. k + n <= z BY ONLY <2>7, <3>2, k \in Nat, z \in Nat
      <3> QED BY <3>1, <3>3
    <2> QED BY <2>7, <2>8, <2>9
  <1>4. PICK old \in Seq(Nat), k \in Nat : old = call[t].got /\ k = Len(old)
    BY <1>1
  <1>5. PICK got : got = old \o [i \in 1..n |-> at + i - 1]
    BY Zenon
  <1>6. PICK a \in Nat : a = at
    BY <1>1, Zenon
  <1>7. /\ got \in Seq(Nat) /\ Len(got) = k + n
        /\ \A i \in 1..k : got[i] = old[i]
        /\ \A i \in 1..n : got[k + i] = a + i - 1
    BY <1>3, <1>4, <1>5, <1>6, MoreRead
  <1>8. /\ DOMAIN call' = Threads /\ \A u \in Threads : CallOK(call'[u])
        /\ \A u \in Threads \ {t} : call'[u] = call[u]
        /\ call'[t].pc = "copy" /\ call'[t].got = got
        /\ call'[t].offset = call[t].offset /\ call'[t].size = call[t].size
    BY <1>2, <1>4, <1>5, <1>7, Going, Zenon
  <1>9. ASSUME ~failed PROVE CopyUpTo(call'[t], at')
    <2>1. /\ call[t].offset + Len(call[t].got) = at
          /\ \A i \in 1..Len(call[t].got) : call[t].got[i] = call[t].offset + i - 1
      BY <1>1, <1>9, Zenon DEF FileInv, CopyUpTo
    <2>2. PICK o \in Nat, z \in Nat, b \in Nat :
            o = call[t].offset /\ z = call[t].size /\ b = at'
      BY <1>1, <1>2, <1>3
    <2>3. /\ o + k = a /\ \A i \in 1..k : old[i] = o + i - 1
          /\ k + n <= z /\ b = a + n
      BY <1>2, <1>3, <1>4, <1>6, <2>1, <2>2, Zenon
    <2>4. ASSUME NEW i \in 1..k + n PROVE got[i] = o + i - 1
      <3>1. CASE i <= k
        <4>1. i \in 1..k BY <3>1
        <4> QED BY <1>7, <2>3, <4>1, Zenon
      <3>2. CASE i > k
        <4>1. PICK j \in 1..n : i = k + j BY <1>3, <3>2
        <4>2. got[k + j] = a + j - 1 BY <1>7, Zenon
        <4> QED BY ONLY <2>3, <4>1, <4>2, k \in Nat, o \in Nat, a \in Nat, SMTT(40)
      <3> QED BY <1>3, <3>1, <3>2
    <2>5. o + (k + n) = b
      BY ONLY <1>3, <2>3, k \in Nat, o \in Nat, a \in Nat
    <2> QED BY <1>7, <1>8, <2>2, <2>3, <2>4, <2>5, Zenon DEF CopyUpTo
  <1>10. ExactCall(call'[t]) BY <1>8, Zenon DEF ExactCall
  <1>11. pos' \in Nat /\ at' \in Nat /\ at' <= blob_length /\ (~failed => pos' = at')
    BY <1>1, <1>2, <1>3, SMTT(40)
  <1> QED BY <1>1, <1>8, <1>9, <1>10, <1>11, StepOfOne, Zenon

(* A chunk that fails: from now on nothing is claimed of this handle.      *)
LEMMA ChunkFailsOK ==
    ASSUME FileInv, NEW t \in Threads, ChunkFails(t) PROVE FileInv'
  <1>1. /\ call[t].got \in Seq(Nat) /\ lock = t /\ lock' = NoThread /\ UNCHANGED <<chunks, pos>>
        /\ pos \in Nat /\ at \in Nat /\ at < blob_length /\ failed'
        /\ Goes(t, "eio", call[t].got)
    BY Zenon DEF FileInv, Call, CallOK, ChunkFails
  <1>2. at' \in Nat /\ at' <= blob_length
    BY <1>1, ChunkFound, Zenon DEF FileInv, ChunkFails
  <1>3. /\ DOMAIN call' = Threads /\ \A u \in Threads : CallOK(call'[u])
        /\ \A u \in Threads \ {t} : call'[u] = call[u]
        /\ call'[t].pc = "eio"
    BY <1>1, Going, Zenon
  <1> QED BY <1>1, <1>2, <1>3, StepOfOne, ReadsAssumption

(* The reply: the copy ended with all that was asked for, or at the end.   *)
LEMMA ReplyOK ==
    ASSUME FileInv, NEW t \in Threads, Reply(t) PROVE FileInv'
  <1>1. /\ call[t].got \in Seq(Nat) /\ call[t].offset \in Nat /\ call[t].size \in Nat
        /\ lock = t /\ lock' = NoThread /\ UNCHANGED <<chunks, pos, at, failed>>
        /\ pos \in Nat /\ at \in Nat /\ at <= blob_length /\ (~failed => pos = at)
        /\ call[t].pc = "copy" /\ Goes(t, "ok", call[t].got) /\ blob_length \in Nat
        /\ Len(call[t].got) = call[t].size \/ at = blob_length
    BY ChunksCover, Zenon DEF FileInv, Call, CallOK, Reply, blob_length
  <1>2. /\ DOMAIN call' = Threads /\ \A u \in Threads : CallOK(call'[u])
        /\ \A u \in Threads \ {t} : call'[u] = call[u]
        /\ call'[t].pc = "ok" /\ call'[t].got = call[t].got
        /\ call'[t].offset = call[t].offset /\ call'[t].size = call[t].size
    BY <1>1, Going, Zenon
  <1>3. ASSUME ~failed PROVE ExactCall(call'[t])
    <2>1. PICK k \in Nat : k = Len(call[t].got) BY <1>1, SMTT(40)
    <2>2. /\ call[t].offset + k = at /\ k <= call[t].size
          /\ \A i \in 1..k : call[t].got[i] = call[t].offset + i - 1
      BY <1>1, <1>3, <2>1, Zenon DEF FileInv, CopyUpTo
    <2>3. PICK a \in Int, b \in Int : a = call[t].size /\ b = blob_length - call[t].offset
      <3>1. PICK n \in Nat, l \in Nat, o \in Nat : n = call[t].size /\ l = blob_length /\ o = call[t].offset
        BY <1>1, Zenon
      <3>2. n \in Int /\ l - o \in Int
        BY ONLY n \in Nat, l \in Nat, o \in Nat
      <3> QED BY <3>1, <3>2, Zenon
    <2>4. Smaller(a, b) = k
      <3>1. Smaller(a, b) = IF a <= b THEN a ELSE b BY DEF Smaller
      <3>2. PICK o \in Nat, l \in Nat : o = call[t].offset /\ l = blob_length BY <1>1, Zenon
      <3>3. o + k = at /\ at <= l /\ b = l - o /\ k <= a /\ (k = a \/ at = l)
        BY <1>1, <2>1, <2>2, <2>3, <3>2, Zenon
      <3> QED BY <1>1, <3>1, <3>3
    <2>5. PICK got \in Seq(Nat), o \in Nat : got = call[t].got /\ o = call[t].offset
      BY <1>1
    <2>6. DOMAIN got = 1..k /\ \A i \in 1..k : got[i] = o + i - 1
      BY <2>1, <2>2, <2>5
    <2>7. got = [i \in 1..k |-> o + i - 1]
      BY ONLY <2>6, got \in Seq(Nat)
    <2> QED BY <1>2, <2>3, <2>4, <2>5, <2>7 DEF ExactCall, Asked
  <1>4. CopyUpTo(call'[t], at') BY <1>2 DEF CopyUpTo
  <1> QED BY <1>1, <1>2, <1>3, <1>4, StepOfOne, ReadsAssumption, SMTT(40)

(* Every step of the read handlers keeps FileInv.                          *)
LEMMA FilePreserved ==
    ASSUME FileInv, [FileNext]_fvars PROVE FileInv'
  <1>1. CASE UNCHANGED fvars
    BY <1>1 DEF fvars, FileInv, blob_length, CopyUpTo, ExactCall, Asked, CallOK
  <1> QED BY <1>1, RequestOK, AcquireOK, SeekOK, PollReadOK, ChunkFailsOK, ReplyOK, Zenon
          DEF FileNext, FileStep

(* A handle starts at the first byte, with no request.                     *)
LEMMA FileStarts ==
    ASSUME FileInit PROVE FileInv
  <1>1. blob_length \in Nat BY ChunksCover, Zenon DEF FileInit, blob_length
  <1>2. DOMAIN call = Threads /\ \A t \in Threads : CallOK(call[t]) /\ call[t].pc = "idle"
    BY DEF FileInit, Call, CallOK
  <1> QED BY <1>1, <1>2, ReadsAssumption, SMTT(40) DEF FileInit, FileInv, CopyUpTo, ExactCall

(* The position, the stream and the copy in progress agree until a chunk   *)
(* fails, whatever threads share the handle.                               *)
THEOREM FileInvariance == FileSpec => []FileInv
  BY FileStarts, FilePreserved, PTL DEF FileSpec

(* Reads of one handle by any number of threads, with seeks anywhere: each *)
(* answer is the bytes asked for, unless a chunk has failed on the handle. *)
THEOREM ReadsCorrect == FileSpec => []ReadExactUnlessFailed
  <1>1. ASSUME FileInv PROVE ReadExactUnlessFailed
    BY <1>1 DEF FileInv, ReadExactUnlessFailed, ReadExact, ExactCall
  <1> QED BY <1>1, FileInvariance, PTL
=============================================================================
