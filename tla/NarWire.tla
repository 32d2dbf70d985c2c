-------------------------------- MODULE NarWire --------------------------------
(***************************************************************************)
(* The "bytes wire packet" of nix-compat (wire/bytes): a length field, the  *)
(* payload, zeroes up to the next block.  A BytesWriter puts packets on a   *)
(* stream and a reader on the other end takes them off again, one of        *)
(* BytesReader through poll_read, BytesReader through fill_buf/consume,     *)
(* read_bytes, read_bytes_buf, and the NixReader of the daemon protocol     *)
(* (nix_daemon/de), which reads ahead.  The stream hands over any number of *)
(* units at a time, may carry padding that is not zero, and may be cut.     *)
(*                                                                          *)
(* Block is 8 in the code; a unit stands for a byte.  A packet of the       *)
(* NAR reader is followed by the tag its trailer must match (PadPar).       *)
(***************************************************************************)
EXTENDS Naturals, SequencesExt

CONSTANTS
    Block,      \* LEN_SIZE, and what packets are padded to
    Packets,    \* a set of sequences of [len, max, tag, mode]: what is sent, how it is read
    Chunks,     \* the buffers payload is written from
    Bufs,       \* the buffers payload is read into
    MaxWire     \* faults of the stream

ASSUME BlockAssumption == Block \in Nat \ {0}

VARIABLES
    packets,    \* the packets of this stream, chosen at the start
    written,    \* every unit put on the stream so far
    cut,        \* no more units arrive
    wire,       \* faults left
    w,          \* the writer: [pk, state, call, buf, res]
    r,          \* the reader: [pk, state, size, consumed, filled, got, trail, buf]
    rpos        \* units the reader has taken off the stream

wireVars == <<packets, written, cut, wire, w, r, rpos>>

Zero == <<"pad">>
Junk == <<"junk">>
SizeField(n) == [i \in 1..Block |-> <<"size", n>>]
Payload(p, n) == [i \in 1..n |-> <<"data", p, i>>]
Zeroes(n) == [i \in 1..n |-> Zero]
TagUnits(tag) == IF tag = "PadPar" THEN [i \in 1..Block |-> <<"par">>] ELSE <<>>

padding_len(n) == ((n + Block - 1) \div Block) * Block - n

(* write_bytes: the packet in one piece, the format the writer has to produce. *)
write_bytes(p, n) == SizeField(n) \o Payload(p, n) \o Zeroes(padding_len(n))

Sent(p) == write_bytes(p, packets[p].len) \o TagUnits(packets[p].tag)

(* Where packet p begins and ends on a stream of intact packets. *)
Offset(p) == FoldLeft(LAMBDA acc, q : acc + Len(Sent(q)), 0, [q \in 1..(p - 1) |-> q])

-----------------------------------------------------------------------------
(* BytesWriter: BytesPacketPosition is <<"Size" | "Payload" | "Padding", n>>. *)
NewWriter(p) == [pk |-> p, state |-> <<"Size", 0>>, call |-> "none", buf |-> 0, res |-> "ok"]

PayloadLen == packets[w.pk].len

(* What the inner writer is offered, from the state and the call. *)
Offered ==
    CASE w.state[1] = "Size" -> SubSeq(SizeField(PayloadLen), w.state[2] + 1, Block)
      [] w.state[1] = "Payload" -> SubSeq(Payload(w.pk, PayloadLen), w.state[2] + 1, w.state[2] + w.buf)
      [] w.state[1] = "Padding" -> Zeroes(padding_len(PayloadLen) - w.state[2])

(* The position after the inner writer took k units: at the end of a field the next begins. *)
AdvanceTo(k) ==
    LET n == w.state[2] + k IN
    CASE w.state[1] = "Size" -> IF n = Block THEN <<"Payload", 0>> ELSE <<"Size", n>>
      [] w.state[1] = "Payload" -> IF n = PayloadLen THEN <<"Padding", 0>> ELSE <<"Payload", n>>
      [] w.state[1] = "Padding" -> <<"Padding", n>>

WriterIdle == w.call = "none" /\ w.res = "ok" /\ w.pk <= Len(packets)

WriterFails == w' = [w EXCEPT !.call = "none", !.res = "error"]

CallWrite(n) ==
    /\ WriterIdle
    /\ w' = [w EXCEPT !.call = "write", !.buf = n]
    /\ UNCHANGED <<packets, written, cut, wire, r, rpos>>

(* The last packet of the stream is shut down, the others are flushed. *)
CallFlush ==
    /\ WriterIdle
    /\ w' = [w EXCEPT !.call = IF w.pk = Len(packets) THEN "shutdown" ELSE "flush"]
    /\ UNCHANGED <<packets, written, cut, wire, r, rpos>>

(* A pending call is dropped by the caller: what the inner writer took stays written. *)
CallCancelled ==
    /\ w.call # "none"
    /\ w' = [w EXCEPT !.call = "none"]
    /\ UNCHANGED <<packets, written, cut, wire, r, rpos>>

Put(k) ==
    /\ ~cut
    /\ written' = written \o SubSeq(Offered, 1, k)

(* poll_write: the length field first, then as much of the buffer as is accepted. *)
PollWrite(k) ==
    /\ w.call = "write"
    /\ \/ /\ w.state[1] = "Size"
          /\ k \in 1..Len(Offered)
          /\ Put(k)
          /\ w' = [w EXCEPT !.state = AdvanceTo(k)]
       \/ /\ w.state[1] = "Payload"
          /\ w.state[2] + w.buf > PayloadLen
          /\ k = 0
          /\ WriterFails
          /\ UNCHANGED written
       \/ /\ w.state[1] = "Payload"
          /\ w.state[2] + w.buf <= PayloadLen
          /\ k \in 1..w.buf
          /\ Put(k)
          /\ w' = [w EXCEPT !.state = AdvanceTo(k), !.call = "none"]
       \/ /\ w.state[1] = "Padding"
          /\ k = 0
          /\ WriterFails
          /\ UNCHANGED written
    /\ UNCHANGED <<packets, cut, wire, r, rpos>>

(* A flush that stops: the whole packet is out, or payload is still expected. *)
FlushStops ==
    \/ w.state = <<"Padding", padding_len(PayloadLen)>>
    \/ w.state[1] = "Payload" /\ PayloadLen # 0

(* The packet is followed by its tag, and the next writer takes over. *)
NextPacket ==
    /\ ~cut
    /\ written' = written \o TagUnits(packets[w.pk].tag)
    /\ w' = NewWriter(w.pk + 1)

(* Mutant: a flush in the middle of the payload already writes the padding. *)
PollFlush_PadsEarly(k) ==
    /\ w.call \in {"flush", "shutdown"}
    /\ \/ /\ w.state[1] # "Payload"
          /\ k \in 1..Len(Offered)
          /\ Put(k)
          /\ w' = [w EXCEPT !.state = AdvanceTo(k)]
       \/ /\ w.state[1] = "Payload" /\ k = 0
          /\ w' = [w EXCEPT !.state = <<"Padding", 0>>]
          /\ UNCHANGED written
       \/ /\ w.state = <<"Padding", padding_len(PayloadLen)>>
          /\ k = 0
          /\ NextPacket
    /\ UNCHANGED <<packets, cut, wire, r, rpos>>

(* poll_flush and poll_shutdown.  An empty packet goes straight to its padding. *)
PollFlush(k) ==
    /\ w.call \in {"flush", "shutdown"}
    /\ \/ /\ w.state[1] # "Payload"
          /\ k \in 1..Len(Offered)
          /\ Put(k)
          /\ w' = [w EXCEPT !.state = AdvanceTo(k)]
       \/ /\ w.state[1] = "Payload" /\ PayloadLen = 0
          /\ k = 0
          /\ w' = [w EXCEPT !.state = <<"Padding", 0>>]
          /\ UNCHANGED written
       \/ /\ FlushStops /\ w.state[1] = "Padding"
          /\ k = 0
          /\ NextPacket
       \/ /\ FlushStops /\ w.state[1] = "Payload" /\ w.call = "flush"
          /\ k = 0
          /\ w' = [w EXCEPT !.call = "none"]
          /\ UNCHANGED written
       \/ /\ FlushStops /\ w.state[1] = "Payload" /\ w.call = "shutdown"
          /\ k = 0
          /\ WriterFails
          /\ UNCHANGED written
    /\ UNCHANGED <<packets, cut, wire, r, rpos>>

(* The inner writer reports an error or takes nothing: WriteZero. *)
InnerFails ==
    /\ w.call # "none"
    /\ cut \/ wire > 0
    /\ wire' = IF cut THEN wire ELSE wire - 1
    /\ WriterFails
    /\ UNCHANGED <<packets, written, cut, r, rpos>>

WriterDone == w.res = "error" \/ w.pk > Len(packets)

-----------------------------------------------------------------------------
(* The stream. *)
Cut ==
    /\ ~cut
    /\ WriterDone \/ wire > 0
    /\ cut' = TRUE
    /\ wire' = IF WriterDone THEN wire ELSE wire - 1
    /\ UNCHANGED <<packets, written, w, r, rpos>>

(* A peer that pads with something else. *)
Corrupt ==
    /\ wire > 0
    /\ wire' = wire - 1
    /\ \E i \in (rpos + 1)..Len(written) :
          /\ written[i] = Zero
          /\ written' = [written EXCEPT ![i] = Junk]
    /\ UNCHANGED <<packets, cut, w, r, rpos>>

Available == Len(written) - rpos
Eof == cut /\ Available = 0
Unread(n) == SubSeq(written, rpos + 1, rpos + n)

-----------------------------------------------------------------------------
(* BytesReader. *)
ReaderDone == r.state \in {"Error", "None"} \/ r.pk > Len(packets)
Mode == packets[r.pk].mode
Streaming == Mode \in {"poll_read", "fill_buf"}

NewReader(p) ==
    [pk |-> p, state |-> "New", size |-> 0, consumed |-> 0, filled |-> 0, got |-> <<>>, trail |-> <<>>,
     buf |-> <<>>]

ReaderFails == r' = [r EXCEPT !.state = "Error"] /\ UNCHANGED rpos

Take(k) == rpos' = rpos + k

(* split_user_len: the last, possibly full block belongs to the trailer. *)
body_len(n) == ((n - 1) \div Block) * Block
tail_len(n) == ((n - 1) % Block) + 1

PATTERN == Zeroes(Block) \o TagUnits(packets[r.pk].tag)

ReadTrailerFrom(rec, dataLen) ==
    [rec EXCEPT !.state = "ReadTrailer", !.filled = IF dataLen # 0 THEN 0 ELSE Block,
                !.trail = IF dataLen # 0 THEN <<>> ELSE Zeroes(Block)]

DataLen == IF r.size = 0 THEN 0 ELSE tail_len(r.size)

(* new_internal, read_bytes, read_bytes_buf: the length field, checked against what is allowed. *)
ReadSize ==
    /\ ~ReaderDone /\ r.state = "New" /\ Mode # "daemon"
    /\ \/ /\ Available >= Block
          /\ Unread(Block) = SizeField(packets[r.pk].len)
          /\ packets[r.pk].len <= packets[r.pk].max
          /\ Take(Block)
          /\ LET rec == [r EXCEPT !.size = packets[r.pk].len] IN
             r' = IF ~Streaming THEN [rec EXCEPT !.state = "Whole"]
                  ELSE IF rec.size = 0 THEN ReadTrailerFrom(rec, 0)
                  ELSE [rec EXCEPT !.state = "Body"]
       \/ /\ Available >= Block
          /\ \/ Unread(Block) # SizeField(packets[r.pk].len)
             \/ packets[r.pk].len > packets[r.pk].max
          /\ ReaderFails
       \/ /\ cut /\ Available < Block
          /\ ReaderFails
    /\ UNCHANGED <<packets, written, cut, wire, w>>

Deliver(rec, k) == [rec EXCEPT !.consumed = rec.consumed + k, !.got = rec.got \o Unread(k)]

(* Mutant: the body runs to the end of the payload, so only the padding is the trailer's. *)
Remaining_WholePayload == r.size - r.consumed

Remaining == body_len(r.size) - r.consumed

(* poll_read in the body: at most the remaining full blocks. *)
PollReadBody(k) ==
    /\ r.state = "Body" /\ Mode = "poll_read" /\ Remaining > 0
    /\ \/ /\ \E b \in Bufs : k <= b
          /\ k \in 1..Available /\ k <= Remaining
          /\ Take(k)
          /\ r' = Deliver(r, k)
       \/ /\ Eof /\ k = 0
          /\ ReaderFails
    /\ UNCHANGED <<packets, written, cut, wire, w>>

(* fill_buf in the body, and consume of a part of what it showed. *)
FillBufBody(k) ==
    /\ r.state = "Body" /\ Mode = "fill_buf" /\ Remaining > 0
    /\ \/ /\ k \in 1..Available /\ k <= Remaining
          /\ Take(k)
          /\ r' = Deliver(r, k)
       \/ /\ Eof /\ k = 0
          /\ ReaderFails
    /\ UNCHANGED <<packets, written, cut, wire, w>>

StartTrailer ==
    /\ r.state = "Body" /\ Remaining = 0
    /\ r' = ReadTrailerFrom(r, DataLen)
    /\ UNCHANGED <<packets, written, cut, wire, w, rpos>>

(* What of the trailer is not payload has to match the pattern. *)
TrailerMatches(trail) ==
    \A i \in (DataLen + 1)..Len(trail) : trail[i] = PATTERN[i]

(* ReadTrailer::poll. *)
ReadTrailer(k) ==
    /\ r.state = "ReadTrailer"
    /\ \/ /\ ~TrailerMatches(r.trail) /\ k = 0
          /\ ReaderFails
       \/ /\ TrailerMatches(r.trail) /\ r.filled = Len(PATTERN) /\ k = 0
          /\ r' = [r EXCEPT !.state = "ReleaseTrailer", !.consumed = 0]
          /\ UNCHANGED rpos
       \/ /\ TrailerMatches(r.trail) /\ r.filled < Len(PATTERN)
          /\ k \in 1..Available /\ k <= Len(PATTERN) - r.filled
          /\ Take(k)
          /\ r' = [r EXCEPT !.filled = r.filled + k, !.trail = r.trail \o Unread(k)]
       \/ /\ TrailerMatches(r.trail) /\ r.filled < Len(PATTERN) /\ Eof /\ k = 0
          /\ ReaderFails
    /\ UNCHANGED <<packets, written, cut, wire, w>>

(* The payload in the trailer is released; after it the reader is empty. *)
ReleaseTrailer(k) ==
    /\ r.state = "ReleaseTrailer"
    /\ r.consumed < DataLen
    /\ k \in 1..(DataLen - r.consumed)
    /\ Mode = "poll_read" => \E b \in Bufs : k <= b
    /\ r' = [r EXCEPT !.consumed = r.consumed + k,
                      !.got = r.got \o SubSeq(r.trail, r.consumed + 1, r.consumed + k)]
    /\ UNCHANGED <<packets, written, cut, wire, w, rpos>>

(* read_bytes and read_bytes_buf: payload and padding, then the padding is checked. *)
PaddedLen == r.size + padding_len(r.size)

ReadWhole ==
    /\ r.state = "Whole"
    /\ \/ /\ Available >= PaddedLen
          /\ Take(PaddedLen)
          /\ r' = IF \A i \in (r.size + 1)..PaddedLen : Unread(PaddedLen)[i] = Zero
                  THEN [r EXCEPT !.state = "ReleaseTrailer", !.got = Unread(r.size), !.consumed = DataLen]
                  ELSE [r EXCEPT !.state = "Error"]
       \/ /\ Mode = "read_bytes" /\ cut /\ Available < PaddedLen
          /\ ReaderFails
       \/ /\ Mode = "read_bytes_buf" /\ cut /\ Available < PaddedLen
          /\ UNCHANGED <<r, rpos>>    \* read_buf returns 0 at the end of the stream, and the loop goes on
    /\ UNCHANGED <<packets, written, cut, wire, w>>

-----------------------------------------------------------------------------
(* NixReader: buf holds what was read ahead, and stays for the next packet.  *)
Aligned == PaddedLen

(* poll_force_fill_buf: whatever the stream has; called when buf is empty, or *)
(* while it is shorter than the contents and their padding.                   *)
ForceFill(k) ==
    /\ ~ReaderDone /\ Mode = "daemon"
    /\ \/ r.state = "New" /\ r.buf = <<>> /\ r.filled < Block
       \/ r.state = "Contents" /\ Len(r.buf) < Aligned
    /\ \/ /\ k \in 1..Available
          /\ Take(k)
          /\ r' = [r EXCEPT !.buf = r.buf \o Unread(k)]
       \/ /\ Eof /\ k = 0
          /\ r' = [r EXCEPT !.state = IF r.state = "New" /\ r.filled = 0 THEN "None" ELSE "Error"]
          /\ UNCHANGED rpos
    /\ UNCHANGED <<packets, written, cut, wire, w>>

(* try_read_number: read_buf, then read_exact for the rest of the eight bytes. *)
TryReadNumber ==
    /\ ~ReaderDone /\ Mode = "daemon" /\ r.state = "New" /\ r.buf # <<>>
    /\ LET k == IF Len(r.buf) < Block - r.filled THEN Len(r.buf) ELSE Block - r.filled
           trail == r.trail \o SubSeq(r.buf, 1, k)
           rec == [r EXCEPT !.filled = r.filled + k, !.trail = trail,
                            !.buf = SubSeq(r.buf, k + 1, Len(r.buf))] IN
       r' = IF rec.filled < Block THEN rec
            ELSE IF trail = SizeField(packets[r.pk].len) /\ packets[r.pk].len <= packets[r.pk].max
            THEN [rec EXCEPT !.state = "Contents", !.size = packets[r.pk].len]
            ELSE [rec EXCEPT !.state = "Error"]
    /\ UNCHANGED <<packets, written, cut, wire, w, rpos>>

(* The end of try_read_bytes_limited: split off the contents, check the padding. *)
SplitContents ==
    /\ r.state = "Contents" /\ Len(r.buf) >= Aligned
    /\ LET rest == SubSeq(r.buf, Aligned + 1, Len(r.buf)) IN
       r' = IF \A i \in (r.size + 1)..Aligned : r.buf[i] = Zero
            THEN [r EXCEPT !.state = "ReleaseTrailer", !.got = SubSeq(r.buf, 1, r.size), !.consumed = DataLen,
                           !.buf = rest]
            ELSE [r EXCEPT !.state = "Error", !.buf = rest]
    /\ UNCHANGED <<packets, written, cut, wire, w, rpos>>

-----------------------------------------------------------------------------
PacketRead == r.state = "ReleaseTrailer" /\ r.consumed = DataLen

NextRead ==
    /\ ~ReaderDone /\ PacketRead
    /\ r' = [NewReader(r.pk + 1) EXCEPT !.buf = r.buf]
    /\ UNCHANGED <<packets, written, cut, wire, w, rpos>>

-----------------------------------------------------------------------------
WireInit ==
    /\ packets \in Packets
    /\ written = <<>> /\ cut = FALSE /\ wire = MaxWire /\ rpos = 0
    /\ w = NewWriter(1)
    /\ r = NewReader(1)

Amounts == 0..(2 * Block)

WriterStep ==
    \/ \E n \in Chunks : CallWrite(n)
    \/ CallFlush
    \/ \E k \in Amounts : PollWrite(k) \/ PollFlush(k)
    \/ InnerFails

ReaderStep ==
    \/ ReadSize
    \/ \E k \in Amounts : PollReadBody(k) \/ FillBufBody(k) \/ ReadTrailer(k) \/ ReleaseTrailer(k) \/ ForceFill(k)
    \/ StartTrailer
    \/ ReadWhole
    \/ TryReadNumber
    \/ SplitContents
    \/ NextRead

WireNext ==
    WriterStep \/ CallCancelled \/ Cut \/ Corrupt \/ ReaderStep

-----------------------------------------------------------------------------
(* PacketExact: whatever the caller wrote, flushed and cancelled, and however  *)
(* little the stream took at a time, what a BytesWriter that reported success  *)
(* put on the stream is the packet write_bytes writes.                         *)
Intact == [i \in DOMAIN written |-> IF written[i] = Junk THEN Zero ELSE written[i]]

PacketExact ==
    \A p \in 1..(w.pk - 1) :
        /\ Len(written) >= Offset(p + 1)
        /\ SubSeq(Intact, Offset(p) + 1, Offset(p + 1)) = Sent(p)

(* FinalBytesVerified: the last bytes of a payload reach the caller only after *)
(* all of the padding (and the tag) was read and found right, and then the     *)
(* reader stands exactly at the start of the next packet ("It will not return  *)
(* the final bytes before all padding has been successfully consumed").  What  *)
(* a NixReader has read ahead still belongs to the stream, and it reports a    *)
(* clean end only of a stream that ends between two packets.                   *)
Position == rpos - Len(r.buf)

FinalBytesVerified ==
    r.pk <= Len(packets) /\ r.state # "Error" =>
        /\ r.state = "None" => Eof /\ Position = Offset(r.pk)
        /\ IsPrefix(r.got, Payload(r.pk, packets[r.pk].len))
        /\ PacketRead \/ (r.got # <<>> /\ Len(r.got) = packets[r.pk].len) =>
              /\ r.got = Payload(r.pk, packets[r.pk].len)
              /\ Position = Offset(r.pk + 1)
              /\ SubSeq(written, Offset(r.pk) + 1, Position) = Sent(r.pk)

(* A stream that has ended, and whose readers have to end too: all but          *)
(* read_bytes_buf, which reads on at the end of the stream.                     *)
StreamEnded == cut /\ \A p \in DOMAIN packets : packets[p].mode # "read_bytes_buf"
=============================================================================
