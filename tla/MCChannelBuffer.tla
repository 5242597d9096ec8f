--------------------------- MODULE MCChannelBuffer ---------------------------
(***************************************************************************)
(* One ChannelBuffer driven by any sequence of its operations, bounded by  *)
(* MaxWrites: the loops of read_all and read_range are compared with their *)
(* reference definitions in every buffer that can be reached.              *)
(***************************************************************************)
EXTENDS ChannelBuffer

CONSTANTS
  Offsets,    \* offsets of the writes
  Lens,       \* lengths of the writes
  MaxWrites   \* bound: number of writes between two clears

ASSUME DriverAssumption ==
  Offsets \subseteq Nat /\ Lens \subseteq Nat /\ MaxWrites \in Nat

VARIABLE buf

Init == buf = NewBuffer

\* The n-th write since the last clear writes the byte n.
Write(off, len) ==
  /\ Len(buf.log) < MaxWrites
  /\ buf' = Pushed(buf, [off |-> off, bytes |-> [i \in 1 .. len |-> Len(buf.log) + 1]])

SetComplete ==
  /\ ~buf.complete
  /\ buf' = Completed(buf)

Clear ==
  /\ buf.log # <<>>
  /\ buf' = Cleared(buf)

Next ==
  \/ \E off \in Offsets, len \in Lens : Write(off, len)
  \/ SetComplete
  \/ Clear

Spec == Init /\ [][Next]_buf

-----------------------------------------------------------------------------
TypeOK == buf \in Buffer

\* The loop of read_all (paint the chunks in arrival order over zeroes, skip
\* one that ends past total_size) yields for every byte the last chunk that
\* covers it, and skips nothing, in every buffer the operations can build.
LoopIsReadAll == ReadAllLoop(buf) = ReadAll(buf.log, buf.total)

\* The chunks are the ones of a client that writes a file from its start, each
\* write where the one before it ended, to a buffer that was never cleared.
WrittenInOrder ==
  /\ buf.log = <<>> => buf.total = 0
  /\ buf.log # <<>> => buf.total = End(buf.log[Len(buf.log)])
  /\ \A k \in DOMAIN buf.log :
       /\ buf.log[k].bytes # <<>>
       /\ buf.log[k].off = IF k = 1 THEN 0 ELSE End(buf.log[k - 1])

Slice(img, off, count) == SubSeq(img, off + 1, Smaller(off + count, Len(img)))

\* A file written in order reads back through read_range exactly as through
\* read_all, from the start of every chunk and for every count, and the loop
\* ends: this is what reads of pack files rely on.
InOrderReadsBack ==
  WrittenInOrder =>
    \A k \in DOMAIN buf.log, count \in 0 .. buf.total + 1 :
      ReadRange(buf, buf.log[k].off, count) =
        [bytes |-> Slice(ReadAll(buf.log, buf.total), buf.log[k].off, count),
         spins |-> FALSE]

\* channel_buffer.rs:47, of read_range: "Find all chunks that overlap with the
\* requested range".  Then a range that starts inside a chunk is not read as
\* nothing.
RangeFindsOverlaps ==
  \A off \in Offsets, count \in Lens :
    count > 0 /\ (\E k \in DOMAIN buf.log : Covers(buf.log[k], off + 1))
      => ReadRange(buf, off, count).bytes # <<>>
=============================================================================
