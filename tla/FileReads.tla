------------------------------ MODULE FileReads ------------------------------
(***************************************************************************)
(* Reading an open file: the read handler of TvixStoreFs (castore          *)
(* fs/mod.rs) on one file handle, from several threads, over a             *)
(* ChunkedReader (blobservice/chunked_reader.rs).                          *)
(*                                                                         *)
(* The bytes of the blob are 0 .. blob_length - 1.  ChunkedReader keeps    *)
(* pos, what it takes the next byte to be, and r, a stream over the chunks *)
(* that really yields byte `at' next; a chunk that cannot be opened or     *)
(* read gives an error, and the stream goes on with the chunk after it.    *)
(***************************************************************************)
EXTENDS Naturals, Sequences

CONSTANTS
    Threads,
    Layouts,        \* the lists of chunks a blob may have, as from_iter makes them
    MaxSize,        \* bound: the largest size of a read request
    MaxRequests     \* bound: the read requests of each thread

NoThread == "none"

ChunkAt == [start : Nat, size : Nat]
End(chunk) == chunk.start + chunk.size

(* ChunkedBlob::from_iter: a chunk starts where the one before it ends.    *)
from_iter(sizes) ==
    LET offset[i \in 1..Len(sizes)] == IF i = 1 THEN 0 ELSE offset[i - 1] + sizes[i - 1]
    IN  [i \in 1..Len(sizes) |-> [start |-> offset[i], size |-> sizes[i]]]

Smaller(m, n) == IF m <= n THEN m ELSE n

ASSUME ReadsAssumption ==
    /\ NoThread \notin Threads
    /\ \A cs \in Layouts :
          /\ cs \in Seq(ChunkAt) /\ cs # <<>> /\ cs[1].start = 0
          /\ \A i \in 1..Len(cs) - 1 : cs[i + 1].start = End(cs[i])

VARIABLES
    chunks,     \* the chunks of the blob
    pos, at,    \* ChunkedReader: pos, and the byte r yields next
    lock,       \* the thread that holds the mutex around the blob reader
    call,       \* call[t]: the read request of thread t, with its state pc and the bytes got so far
    failed      \* some chunk has failed on this handle

fvars == <<chunks, pos, at, lock, call, failed>>

blob_length == End(chunks[Len(chunks)])

FileInit ==
    /\ chunks \in Layouts
    /\ pos = 0 /\ at = 0
    /\ lock = NoThread
    /\ call = [t \in Threads |-> [pc |-> "idle", offset |-> 0, size |-> 0, got |-> <<>>, made |-> 0]]
    /\ failed = FALSE

-----------------------------------------------------------------------------
(* get_chunk_idx_for_position: the chunk with the byte at p.               *)
get_chunk_idx_for_position(p) ==
    CHOOSE i \in DOMAIN chunks : chunks[i].start <= p /\ p < End(chunks[i])

(* reader_skipped_offset: the byte that the stream assembled for offset o  *)
(* yields first: that of its first chunk, advanced by the bytes to skip.   *)
reader_skipped_offset(o) ==
    IF o = blob_length THEN o
    ELSE LET first == chunks[get_chunk_idx_for_position(o)] IN first.start + (o - first.start)

\* The request of t gets on to pc, with these bytes read so far.
Goes(t, pc, got) ==
    call' = [call EXCEPT ![t] = [pc |-> pc, offset |-> call[t].offset, size |-> call[t].size,
                                 got |-> got, made |-> call[t].made]]

(* The kernel asks for size bytes at offset; the handler gets the reader   *)
(* of the handle and waits for its mutex.                                  *)
Request(t) ==
    /\ call[t].pc \in {"idle", "ok", "eio"} /\ call[t].made < MaxRequests
    /\ \E offset \in 0..blob_length + 1, size \in 1..MaxSize :
         call' = [call EXCEPT ![t] = [pc |-> "lock", offset |-> offset, size |-> size,
                                      got |-> <<>>, made |-> call[t].made + 1]]
    /\ UNCHANGED <<chunks, pos, at, lock, failed>>

Acquire_unlocked(t) ==
    /\ call[t].pc = "lock"
    /\ lock' = t
    /\ Goes(t, "seek", call[t].got)
    /\ UNCHANGED <<chunks, pos, at, failed>>

Acquire(t) ==
    /\ call[t].pc = "lock" /\ lock = NoThread
    /\ lock' = t
    /\ Goes(t, "seek", call[t].got)
    /\ UNCHANGED <<chunks, pos, at, failed>>

(* start_seek: nothing happens when the position is the current one; a     *)
(* seek beyond the end is an error.                                        *)
start_seek(t) ==
    /\ call[t].pc = "seek"
    /\ IF call[t].offset > blob_length
       THEN /\ Goes(t, "eio", call[t].got)
            /\ lock' = NoThread
            /\ UNCHANGED <<pos, at>>
       ELSE /\ pos' = call[t].offset
            /\ at' = IF call[t].offset = pos THEN at ELSE reader_skipped_offset(call[t].offset)
            /\ Goes(t, "copy", call[t].got)
            /\ UNCHANGED lock
    /\ UNCHANGED <<chunks, failed>>

\* What the stream can deliver at once: the rest of its chunk, and no more than asked for.
Ready(t) ==
    Smaller(End(chunks[get_chunk_idx_for_position(at)]) - at, call[t].size - Len(call[t].got))

(* copy of take(size), one poll_read: some bytes of the current chunk.     *)
poll_read(t) ==
    /\ call[t].pc = "copy" /\ Len(call[t].got) < call[t].size /\ at < blob_length
    /\ \E n \in 1..Ready(t) :
         /\ Goes(t, "copy", call[t].got \o [i \in 1..n |-> at + i - 1])
         /\ pos' = pos + n
         /\ at' = at + n
    /\ UNCHANGED <<chunks, lock, failed>>

(* The chunk cannot be opened, or its reader breaks: the request is an     *)
(* error, pos stays, and the stream is left at the next chunk.             *)
ChunkFails(t) ==
    /\ call[t].pc = "copy" /\ Len(call[t].got) < call[t].size /\ at < blob_length
    /\ Goes(t, "eio", call[t].got)
    /\ at' = End(chunks[get_chunk_idx_for_position(at)])
    /\ lock' = NoThread
    /\ failed' = TRUE
    /\ UNCHANGED <<chunks, pos>>

(* copy ends: size bytes have been read, or the stream is at its end.      *)
Reply(t) ==
    /\ call[t].pc = "copy" /\ (Len(call[t].got) = call[t].size \/ at = blob_length)
    /\ Goes(t, "ok", call[t].got)
    /\ lock' = NoThread
    /\ UNCHANGED <<chunks, pos, at, failed>>

FileStep(t) == Acquire(t) \/ start_seek(t) \/ poll_read(t) \/ ChunkFails(t) \/ Reply(t)

FileNext == \E t \in Threads : Request(t) \/ FileStep(t)

FileSpec == FileInit /\ [][FileNext]_fvars

-----------------------------------------------------------------------------
\* What the file has for a request: size bytes from offset, fewer at the end of the file.
Asked(c) == [i \in 1..Smaller(c.size, blob_length - c.offset) |-> c.offset + i - 1]

(* "read should send exactly the number of bytes requested except on EOF   *)
(* or error": a successful read returns the bytes at its offset, whatever  *)
(* other threads read from the same handle in between.                     *)
ReadExact == \A t \in Threads : call[t].pc = "ok" => call[t].got = Asked(call[t])

(* ReadExact, for a handle on which no chunk has failed so far.            *)
ReadExactUnlessFailed == ~failed => ReadExact
=============================================================================
