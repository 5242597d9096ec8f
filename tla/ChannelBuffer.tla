---------------------------- MODULE ChannelBuffer ----------------------------
(***************************************************************************)
(* The write buffer of one open file: src/src/sharesfs/channel_buffer.rs.  *)
(*                                                                         *)
(* A buffer is a record with the fields of struct ChannelBuffer: log is    *)
(* `buffer`, the chunks in the order in which they arrived; total is       *)
(* `total_size`; complete is `is_complete`.  A chunk is an offset and the  *)
(* bytes written there.  A byte is a natural number; 0 is the zero byte    *)
(* that fills holes.  An image, the content of a file, is the sequence of  *)
(* its bytes: element i is the byte at offset i - 1.                       *)
(*                                                                         *)
(* Every operator is a pure function of the buffer.  The code runs each    *)
(* one under the buffer's RwLock, so the modules that use them may take a  *)
(* call as one step.                                                       *)
(***************************************************************************)
EXTENDS Integers, Sequences

Byte  == Nat
Image == Seq(Byte)
Chunk == [off : Nat, bytes : Image]
Buffer == [log : Seq(Chunk), total : Nat, complete : BOOLEAN]

End(ch) == ch.off + Len(ch.bytes)

NewBuffer == [log |-> <<>>, total |-> 0, complete |-> FALSE]

\* Mutant of Pushed: total_size follows the last write instead of the largest.
PushedLastWins(b, ch) ==
  [b EXCEPT !.log = Append(@, ch), !.total = End(ch)]

\* ChannelBuffer::write
Pushed(b, ch) ==
  [b EXCEPT !.log   = Append(@, ch),
            !.total = IF End(ch) > @ THEN End(ch) ELSE @]

\* ChannelBuffer::set_complete
Completed(b) == [b EXCEPT !.complete = TRUE]

\* ChannelBuffer::clear: neither total_size nor is_complete is reset.
Cleared(b) == [b EXCEPT !.log = <<>>]

-----------------------------------------------------------------------------
(***************************************************************************)
(* read_all.  ReadAll is the result in closed form: the byte at a position *)
(* is the one of the last chunk, in arrival order, that covers it.         *)
(* ReadAllLoop is the loop of the code, which paints one chunk after the   *)
(* other over zeroes and skips a chunk that would end past total_size.     *)
(***************************************************************************)
Covers(ch, i) == i \in (ch.off + 1) .. End(ch)

IsLastCover(log, k, i) ==
  /\ Covers(log[k], i)
  /\ \A j \in DOMAIN log : j > k => ~Covers(log[j], i)

ByteAt(log, i) ==
  IF \E k \in DOMAIN log : IsLastCover(log, k, i)
  THEN LET k == CHOOSE k \in DOMAIN log : IsLastCover(log, k, i)
       IN  log[k].bytes[i - log[k].off]
  ELSE 0

ReadAll(log, total) == [i \in 1 .. total |-> ByteAt(log, i)]

\* Mutant of Paint: an older byte is kept where a newer chunk overlaps it.
PaintUnder(img, ch) ==
  [i \in DOMAIN img |->
     IF Covers(ch, i) /\ img[i] = 0 THEN ch.bytes[i - ch.off] ELSE img[i]]

\* result[start..end].copy_from_slice(chunk)
Paint(img, ch) ==
  [i \in DOMAIN img |-> IF Covers(ch, i) THEN ch.bytes[i - ch.off] ELSE img[i]]

ReadAllLoop(b) ==
  LET painted[n \in 0 .. Len(b.log)] ==
        IF n = 0 THEN [i \in 1 .. b.total |-> 0]
        ELSE IF End(b.log[n]) <= b.total
             THEN Paint(painted[n - 1], b.log[n])
             ELSE painted[n - 1]
  IN  painted[Len(b.log)]

-----------------------------------------------------------------------------
(***************************************************************************)
(* read_range: from offset on, the loop looks for the first chunk, in      *)
(* arrival order, that starts exactly at the current offset, copies it and *)
(* moves behind it; it stops where no chunk starts.  A chunk of length     *)
(* zero at the current offset does not move the loop: it never ends, which *)
(* is the field spins of the result.                                       *)
(***************************************************************************)
Least(S) == CHOOSE x \in S : \A y \in S : x <= y

StartsAt(log, o) == {k \in DOMAIN log : log[k].off = o}

Smaller(m, n) == IF m < n THEN m ELSE n

\* Mutant of ReadRange: end_offset is not cut at total_size nor at the request.
ReadRangeUncut(b, off, count) ==
  LET from[cur \in 0 .. b.total] ==
        IF cur >= b.total \/ StartsAt(b.log, cur) = {}
        THEN [bytes |-> <<>>, spins |-> FALSE]
        ELSE LET ch == b.log[Least(StartsAt(b.log, cur))]
             IN  IF ch.bytes = <<>>
                 THEN [bytes |-> <<>>, spins |-> TRUE]
                 ELSE LET rest == from[cur + Len(ch.bytes)]
                      IN  [rest EXCEPT !.bytes = ch.bytes \o @]
  IN  IF off > b.total THEN [bytes |-> <<>>, spins |-> FALSE] ELSE from[off]

ReadRange(b, off, count) ==
  LET end == Smaller(off + count, b.total)
      from[cur \in 0 .. end] ==
        IF cur >= end \/ StartsAt(b.log, cur) = {}
        THEN [bytes |-> <<>>, spins |-> FALSE]
        ELSE LET ch == b.log[Least(StartsAt(b.log, cur))]
                 n  == Smaller(Len(ch.bytes), end - cur)
             IN  IF n = 0
                 THEN [bytes |-> <<>>, spins |-> TRUE]
                 ELSE LET rest == from[cur + n]
                      IN  [rest EXCEPT !.bytes = SubSeq(ch.bytes, 1, n) \o @]
  IN  IF off >= end THEN [bytes |-> <<>>, spins |-> FALSE] ELSE from[off]

-----------------------------------------------------------------------------
(***************************************************************************)
(* What a sequence of chunks amounts to, independently of any buffer: its  *)
(* extent, the largest end of a chunk, and its image.                      *)
(***************************************************************************)
IsExtent(chunks, n) ==
  /\ \A k \in DOMAIN chunks : End(chunks[k]) <= n
  /\ n = 0 \/ \E k \in DOMAIN chunks : End(chunks[k]) = n

Extent(chunks) ==
  CHOOSE n \in {0} \cup {End(chunks[k]) : k \in DOMAIN chunks} : IsExtent(chunks, n)

\* What the first k of the chunks amount to.
ImageOf(chunks, k) ==
  LET first == SubSeq(chunks, 1, k) IN ReadAll(first, Extent(first))
=============================================================================
