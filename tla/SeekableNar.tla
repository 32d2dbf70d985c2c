------------------------------ MODULE SeekableNar ------------------------------
(***************************************************************************)
(* Rendering a castore tree as a NAR: at once (store nar/renderer.rs), and   *)
(* as a reader one can seek in (store nar/seekable.rs), which serves the     *)
(* precomputed parts of the archive as literals and the files from the blob  *)
(* service.  A token of NarFormat stands for a byte.                         *)
(*                                                                           *)
(* A node is <<"file", digest, size, executable>>, <<"symlink", target>> or  *)
(* <<"dir", digest>>; DirsOf gives a directory's entries in name order and   *)
(* BlobOf a blob's bytes, of which a node's size need not be the length.     *)
(* The caller is tokio's AsyncReadExt/AsyncSeekExt, may drop what is         *)
(* pending, and stops after an error.                                        *)
(***************************************************************************)
EXTENDS NarFormat

CONSTANTS
    Roots,          \* what is rendered
    DirsOf, BlobOf, \* the stores
    ReadSizes, SeekTargets,
    MaxCalls, MaxBlobFaults

VARIABLES
    root_node,      \* the node, None when there is no reader
    segments,       \* <<offset, data>>, data literal or blob
    position_bytes, position_index,
    seeking,
    current_blob,   \* TryMaybeDone: <<"Gone">>, <<"Future", digest, offset>>, <<"Reseek", before, offset>>, <<"Done", digest, offset>>
    call,           \* what the caller awaits
    last,           \* the last read: where, how much was asked for, what it gave
    outcome,        \* "ok", "error", "panic"
    calls, blobFaults

seekVars == <<root_node, segments, position_bytes, position_index, seeking, current_blob, call, last,
              outcome, calls, blobFaults>>

Lit(tokens) == <<"lit", tokens>>
Blob(digest, size) == <<"blob", digest, size>>
DataLen_(data) == IF data[1] = "lit" THEN Len(data[2]) ELSE data[3]

-----------------------------------------------------------------------------
(* write_nar: what is written before an error stays written. *)
Written(ok, out) == [ok |-> ok, out |-> out]

RECURSIVE WalkWrite(_, _)
WalkWrite(acc, node) ==
    CASE ~acc.ok -> acc
      [] node[1] = "symlink" -> Written(TRUE, acc.out \o Symlink(node[2]))
      [] node[1] = "file" /\ node[2] \notin DOMAIN BlobOf -> Written(FALSE, acc.out)
      [] node[1] = "file" /\ node[2] \in DOMAIN BlobOf ->
           LET content == BlobOf[node[2]] IN
           IF FitsSize(node[3], content) THEN Written(TRUE, acc.out \o File(node[4], node[3], content))
           ELSE Written(FALSE, acc.out \o <<Tok(IF node[4] THEN "EXE" ELSE "REG"), U64(node[3])>>
                                  \o [i \in 1..Min({node[3], Len(content)}) |-> Byte(content[i])])
      [] node[1] = "dir" /\ node[2] \notin DOMAIN DirsOf -> Written(FALSE, acc.out)
      [] node[1] = "dir" /\ node[2] \in DOMAIN DirsOf ->
           LET entries == DirsOf[node[2]]
               body == FoldLeft(LAMBDA a, i : WalkWrite(Written(a.ok, a.out \o Entry(i = 1, entries[i][1])), entries[i][2]),
                                Written(TRUE, acc.out \o Directory), [i \in DOMAIN entries |-> i])
           IN IF body.ok THEN Written(TRUE, body.out \o Close(entries = <<>>)) ELSE body

write_nar(node) == WalkWrite(Written(TRUE, OpenNar), node)

-----------------------------------------------------------------------------
(* The synchronous writer, of which file_manual_write leaves the contents out. *)
SyncSymlink(target) == <<Tok("SYM"), Str(target), Tok("PAR")>>
FileManualWrite(executable, size) == <<Tok(IF executable THEN "EXE" ELSE "REG"), U64(size)>>
FileManualClose(size) == Padding(size) \o <<Tok("PAR")>>
SyncEntry(prev, name) ==
    IF prev = NoName THEN <<Tok("ENT"), Str(name), Tok("NOD")>> ELSE <<Tok("PAR"), Tok("ENT"), Str(name), Tok("NOD")>>
SyncClose(prev) == IF prev = NoName THEN <<Tok("PAR")>> ELSE <<Tok("PAR"), Tok("PAR")>>

(* Mutant: the offset is not moved past the blob. *)
PushBlob_KeepOffset(acc, digest, size) ==
    [acc EXCEPT !.segments = Append(@, <<acc.offset, Blob(digest, size)>>)]

PushBlob(acc, digest, size) ==
    [acc EXCEPT !.segments = Append(@, <<acc.offset, Blob(digest, size)>>), !.offset = @ + size]

flush_segment(acc) ==
    [segments |-> Append(acc.segments, <<acc.offset, Lit(acc.cur)>>), offset |-> acc.offset + Len(acc.cur), cur |-> <<>>]

Write(acc, tokens) == [acc EXCEPT !.cur = @ \o tokens]

RECURSIVE walk_node(_, _)
walk_node(acc, node) ==
    CASE node[1] = "symlink" -> Write(acc, SyncSymlink(node[2]))
      [] node[1] = "file" ->
           Write(PushBlob(flush_segment(Write(acc, FileManualWrite(node[4], node[3]))), node[2], node[3]),
                 FileManualClose(node[3]))
      [] node[1] = "dir" ->
           LET entries == DirsOf[node[2]]
               prev(i) == IF i = 1 THEN NoName ELSE entries[i - 1][1]
               body == FoldLeft(LAMBDA a, i : walk_node(Write(a, SyncEntry(prev(i), entries[i][1])), entries[i][2]),
                                Write(acc, Directory), [i \in DOMAIN entries |-> i])
           IN Write(body, SyncClose(prev(Len(entries) + 1)))

(* new_with_directory_closure. *)
Segments(node) ==
    flush_segment(walk_node([segments |-> <<>>, offset |-> 0, cur |-> OpenNar], node)).segments

(* new: the directory closure has to be there. *)
RECURSIVE ClosureThere(_)
ClosureThere(node) ==
    node[1] = "dir" =>
        /\ node[2] \in DOMAIN DirsOf
        /\ \A i \in DOMAIN DirsOf[node[2]] : ClosureThere(DirsOf[node[2]][i][2])

stream_len == LET s == segments[Len(segments)] IN s[1] + DataLen_(s[2])

-----------------------------------------------------------------------------
Gone == <<"Gone">>
Idle == <<"none">>

Fail(what) == call' = Idle /\ outcome' = what

CallRead(n) ==
    /\ call = Idle /\ outcome = "ok" /\ calls < MaxCalls
    /\ calls' = calls + 1
    /\ call' = <<"read", n>>
    /\ UNCHANGED <<root_node, segments, position_bytes, position_index, seeking, current_blob, last, outcome, blobFaults>>

(* AsyncSeekExt::seek completes a seek in progress before it starts its own. *)
CallSeek(from, n) ==
    /\ call = Idle /\ outcome = "ok" /\ calls < MaxCalls
    /\ calls' = calls + 1
    /\ call' = <<"finish", from, n>>
    /\ UNCHANGED <<root_node, segments, position_bytes, position_index, seeking, current_blob, last, outcome, blobFaults>>

CallDropped ==
    /\ call # Idle
    /\ call' = Idle
    /\ UNCHANGED <<root_node, segments, position_bytes, position_index, seeking, current_blob, last, outcome, calls, blobFaults>>

IsFuture == current_blob[1] \in {"Future", "Reseek"}

(* Polling current_blob: open the blob, or take the reader out of the future *)
(* before, and seek in it.  An error leaves it Gone.                         *)
PollBlob ==
    /\ IsFuture /\ call # Idle
    /\ \/ /\ current_blob[1] = "Future" /\ current_blob[2] \in DOMAIN BlobOf
          /\ current_blob' = <<"Done", current_blob[2], current_blob[3]>>
          /\ UNCHANGED <<call, outcome, blobFaults>>
       \/ /\ current_blob[1] = "Future" /\ current_blob[2] \notin DOMAIN BlobOf
          /\ current_blob' = Gone
          /\ Fail("error")
          /\ UNCHANGED blobFaults
       \/ /\ current_blob[1] = "Reseek"
          /\ IF current_blob[2][1] = "Done"
             THEN /\ current_blob' = <<"Done", current_blob[2][2], current_blob[3]>>
                  /\ UNCHANGED <<call, outcome>>
             ELSE Fail("panic") /\ UNCHANGED current_blob
          /\ UNCHANGED blobFaults
       \/ /\ blobFaults > 0
          /\ blobFaults' = blobFaults - 1
          /\ current_blob' = Gone
          /\ Fail("error")
    /\ UNCHANGED <<root_node, segments, position_bytes, position_index, seeking, last, calls>>

(* poll_complete, once current_blob is terminated. *)
PollComplete ==
    /\ call[1] \in {"finish", "complete"} /\ ~IsFuture
    /\ seeking' = FALSE
    /\ call' = IF call[1] = "finish" THEN <<"start", call[2], call[3]>> ELSE Idle
    /\ UNCHANGED <<root_node, segments, position_bytes, position_index, current_blob, last, outcome, calls, blobFaults>>

(* A position before the start wraps around to the end. *)
SeekPosition(from, n) ==
    LET base == CASE from = "start" -> 0 [] from = "end" -> stream_len [] from = "current" -> position_bytes
        pos == base + n
    IN IF pos < 0 \/ pos > stream_len THEN stream_len ELSE pos

(* binary_search_by_key: any of the segments that begin there, or the one around it. *)
SegmentsAt(pos) ==
    LET exact == {i \in DOMAIN segments : segments[i][1] = pos}
        before == {i \in DOMAIN segments : segments[i][1] < pos}
    IN IF exact # {} THEN exact ELSE {i \in before : \A j \in before : j <= i}

(* The blob reader after a seek. *)
SoughtBlob(pos, index) ==
    IF segments[index][2][1] # "blob" THEN Gone
    ELSE IF pos = position_bytes THEN current_blob
    ELSE IF index = position_index THEN <<"Reseek", current_blob, pos - segments[index][1]>>
    ELSE <<"Future", segments[index][2][2], pos - segments[index][1]>>

StartSeek ==
    /\ call[1] = "start"
    /\ IF seeking
       THEN Fail("error") /\ UNCHANGED <<position_bytes, position_index, seeking, current_blob>>
       ELSE /\ LET pos == SeekPosition(call[2], call[3]) IN
               \E index \in SegmentsAt(pos) :
                  /\ position_bytes' = pos
                  /\ position_index' = index
                  /\ current_blob' = SoughtBlob(pos, index)
            /\ seeking' = TRUE
            /\ call' = <<"complete">>
            /\ UNCHANGED outcome
    /\ UNCHANGED <<root_node, segments, last, calls, blobFaults>>

(* After a read: past every segment that has been served, and the next blob is *)
(* opened; a segment that is not finished keeps its reader.                    *)
Advance(n, blob) ==
    LET pos == position_bytes + n
        unserved == {i \in position_index..Len(segments) : pos - segments[i][1] < DataLen_(segments[i][2])}
        index == IF unserved = {} THEN Len(segments) + 1 ELSE Min(unserved)
    IN /\ position_bytes' = pos
       /\ position_index' = index
       /\ current_blob' =
            IF index = position_index THEN blob
            ELSE IF index > Len(segments) \/ segments[index][2][1] = "lit" THEN Gone
            ELSE <<"Future", segments[index][2][2], 0>>

Return(bytes) ==
    /\ last' = [pos |-> position_bytes, asked |-> call[2], bytes |-> bytes]
    /\ call' = Idle
    /\ UNCHANGED outcome

Segment == segments[position_index]

PollReadEnd ==
    /\ call[1] = "read" /\ position_index > Len(segments)
    /\ Return(<<>>)
    /\ UNCHANGED <<root_node, segments, position_bytes, position_index, seeking, current_blob, calls, blobFaults>>

PollReadLiteral ==
    /\ call[1] = "read" /\ position_index <= Len(segments) /\ Segment[2][1] = "lit"
    /\ LET from == position_bytes - Segment[1]
           rest == Len(Segment[2][2]) - from
           n == IF rest < call[2] THEN rest ELSE call[2]
       IN /\ Return(SubSeq(Segment[2][2], from + 1, from + n))
          /\ Advance(n, current_blob)
    /\ UNCHANGED <<root_node, segments, seeking, calls, blobFaults>>

(* The blob reader gives any number of bytes up to what was asked for; no bytes,  *)
(* or more than the node has left, is an error.                                   *)
ReadFromBlob ==
    LET content == BlobOf[current_blob[2]]
        from == current_blob[3]
        room == Segment[1] + Segment[2][3] - position_bytes
    IN /\ seeking' = FALSE
       /\ \E n \in 0..call[2] :
             /\ n <= Len(content) - from
             /\ n = 0 => from >= Len(content)
             /\ IF n = 0 \/ n > room
                THEN /\ Fail("error")
                     /\ current_blob' = <<"Done", current_blob[2], from + n>>
                     /\ UNCHANGED <<position_bytes, position_index, last>>
                ELSE /\ Return([i \in 1..n |-> Byte(content[from + i])])
                     /\ Advance(n, <<"Done", current_blob[2], from + n>>)
       /\ UNCHANGED blobFaults

BlobReadFails ==
    /\ blobFaults > 0
    /\ blobFaults' = blobFaults - 1
    /\ seeking' = FALSE
    /\ Fail("error")
    /\ UNCHANGED <<position_bytes, position_index, current_blob, last>>

PollReadBlob ==
    /\ call[1] = "read" /\ position_index <= Len(segments) /\ Segment[2][1] = "blob" /\ ~IsFuture
    /\ IF current_blob = Gone
       THEN /\ Fail("panic")
            /\ UNCHANGED <<position_bytes, position_index, seeking, current_blob, last, blobFaults>>
       ELSE ReadFromBlob \/ BlobReadFails
    /\ UNCHANGED <<root_node, segments, calls>>

SeekInit ==
    /\ root_node \in {n \in Roots : ClosureThere(n)}
    /\ segments = Segments(root_node)
    /\ position_bytes = 0 /\ position_index = 1 /\ seeking = FALSE /\ current_blob = Gone
    /\ call = Idle /\ outcome = "ok" /\ calls = 0 /\ blobFaults = MaxBlobFaults
    /\ last = [pos |-> 0, asked |-> 0, bytes |-> <<>>]

SeekNext ==
    \/ \E n \in ReadSizes : CallRead(n)
    \/ \E t \in SeekTargets : CallSeek(t[1], t[2])
    \/ CallDropped
    \/ PollBlob \/ PollComplete \/ StartSeek
    \/ PollReadEnd \/ PollReadLiteral \/ PollReadBlob

-----------------------------------------------------------------------------
(* SeekReadsRight: wherever the caller has sought to and whatever it dropped,  *)
(* a read returns the bytes of the NAR write_nar renders, at the position the  *)
(* reader is said to be at, and returns nothing only at the end of the NAR.    *)
(* A caller that stops at the first error gets one only when the store failed  *)
(* or disagrees with the node's size, or when a seek landed on an empty file.  *)
(* It meets the unwrap and expect of the reader only in the last case: a seek  *)
(* that does not move may go from the literal behind an empty file back to the *)
(* file, for which no reader was opened.                                       *)
SeekReadsRight ==
    LET nar == write_nar(root_node) IN
    /\ nar.ok =>
        /\ stream_len = Len(nar.out)
        /\ last.bytes = SubSeq(nar.out, last.pos + 1, last.pos + Len(last.bytes))
        /\ last.asked > 0 /\ last.bytes = <<>> => last.pos = Len(nar.out)
    /\ outcome = "panic" => DataLen_(segments[position_index][2]) = 0 /\ current_blob = Gone
    /\ outcome = "error" =>
         \/ blobFaults < MaxBlobFaults
         \/ ~nar.ok
         \/ DataLen_(segments[position_index][2]) = 0
=============================================================================
