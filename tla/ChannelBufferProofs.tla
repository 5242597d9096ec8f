------------------------- MODULE ChannelBufferProofs -------------------------
(***************************************************************************)
(* Facts about the operators of ChannelBuffer, for every buffer: what the  *)
(* operations return is a buffer, total is the extent of the chunks, the   *)
(* image of a prefix of the chunks does not depend on later ones, and the  *)
(* loop of read_all returns the image in closed form.                      *)
(***************************************************************************)
EXTENDS ChannelBuffer, SequenceTheorems, FiniteSetTheorems, TLAPS

\* A chunk ends at an offset.
LEMMA EndType ==
  ASSUME NEW ch \in Chunk
  PROVE  End(ch) \in Nat
  <1>1. ch.off \in Nat /\ Len(ch.bytes) \in Nat
    BY DEF Chunk, Image
  <1>. QED  BY <1>1 DEF End

\* write, set_complete and clear return a buffer.
LEMMA OperationsType ==
  ASSUME NEW b \in Buffer
  PROVE  /\ \A ch \in Chunk : Pushed(b, ch) \in Buffer
         /\ Completed(b) \in Buffer
         /\ Cleared(b) \in Buffer
  <1>1. ASSUME NEW ch \in Chunk
        PROVE  Pushed(b, ch) \in Buffer
    <2>1. Append(b.log, ch) \in Seq(Chunk)
      BY DEF Buffer
    <2>2. End(ch) \in Nat
      BY EndType
    <2>. QED  BY <2>1, <2>2 DEF Pushed, Buffer
  <1>2. Completed(b) \in Buffer
    BY DEF Completed, Buffer
  <1>3. <<>> \in Seq(Chunk)
    OBVIOUS
  <1>4. Cleared(b) \in Buffer
    BY <1>3 DEF Cleared, Buffer
  <1>. QED  BY <1>1, <1>2, <1>4

\* read_all returns an image of the length of total_size.
LEMMA ReadAllType ==
  ASSUME NEW log \in Seq(Chunk), NEW total \in Nat
  PROVE  ReadAll(log, total) \in Image /\ Len(ReadAll(log, total)) = total
  <1>1. ASSUME NEW i \in 1 .. total
        PROVE  ByteAt(log, i) \in Byte
    <2>1. CASE \E k \in DOMAIN log : IsLastCover(log, k, i)
      <3>1. PICK k \in DOMAIN log :
              /\ k = CHOOSE j \in DOMAIN log : IsLastCover(log, j, i)
              /\ IsLastCover(log, k, i)
        BY <2>1
      <3>2. log[k] \in Chunk
        OBVIOUS
      <3>3. i - log[k].off \in 1 .. Len(log[k].bytes)
        BY SMTT(30), <3>1, <3>2 DEF IsLastCover, Covers, End, Chunk, Image
      <3>4. log[k].bytes[i - log[k].off] \in Byte
        BY <3>2, <3>3 DEF Chunk, Image
      <3>. QED  BY <2>1, <3>1, <3>4 DEF ByteAt
    <2>2. CASE ~\E k \in DOMAIN log : IsLastCover(log, k, i)
      BY <2>2 DEF ByteAt, Byte
    <2>. QED  BY <2>1, <2>2
  <1>2. ReadAll(log, total) \in [1 .. total -> Byte]
    BY <1>1 DEF ReadAll
  <1>. QED  BY <1>2 DEF Image

\* The extent of a sequence of chunks is unique.
LEMMA ExtentUnique ==
  ASSUME NEW chunks \in Seq(Chunk), NEW n \in Nat, IsExtent(chunks, n)
  PROVE  Extent(chunks) = n
  <1>1. \A k \in DOMAIN chunks : End(chunks[k]) \in Nat
    BY EndType
  <1>2. \A m \in {0} \cup {End(chunks[k]) : k \in DOMAIN chunks} :
          IsExtent(chunks, m) => m = n
    BY <1>1 DEF IsExtent
  <1>3. n \in {0} \cup {End(chunks[k]) : k \in DOMAIN chunks}
    BY DEF IsExtent
  <1>. QED  BY <1>2, <1>3 DEF Extent

\* total_size stays the extent of the chunks when one is written.
LEMMA PushedExtent ==
  ASSUME NEW b \in Buffer, NEW ch \in Chunk, IsExtent(b.log, b.total)
  PROVE  IsExtent(Pushed(b, ch).log, Pushed(b, ch).total)
  <1>. DEFINE log == Append(b.log, ch)
              n   == Len(b.log)
  <1>1. b.log \in Seq(Chunk) /\ b.total \in Nat /\ n \in Nat
    BY DEF Buffer
  <1>2. /\ DOMAIN b.log = 1 .. n
        /\ DOMAIN log = 1 .. n + 1
        /\ log[n + 1] = ch
        /\ \A k \in 1 .. n : log[k] = b.log[k]
    BY <1>1
  <1>3. End(ch) \in Nat /\ \A k \in 1 .. n : End(b.log[k]) \in Nat
    BY <1>1, <1>2, EndType
  <1>4. Pushed(b, ch).log = log
        /\ Pushed(b, ch).total = IF End(ch) > b.total THEN End(ch) ELSE b.total
    BY DEF Pushed, Buffer
  <1>5. ASSUME NEW k \in DOMAIN log
        PROVE  End(log[k]) <= Pushed(b, ch).total
    <2>1. CASE k = n + 1
      BY <2>1, <1>1, <1>2, <1>3, <1>4
    <2>2. CASE k \in 1 .. n
      <3>1. End(b.log[k]) <= b.total
        BY <2>2, <1>2 DEF IsExtent
      <3>. QED  BY <2>2, <3>1, <1>1, <1>2, <1>3, <1>4
    <2>. QED  BY <2>1, <2>2, <1>1, <1>2
  <1>6. Pushed(b, ch).total = 0 \/ \E k \in DOMAIN log : End(log[k]) = Pushed(b, ch).total
    <2>1. CASE End(ch) > b.total
      BY <2>1, <1>1, <1>2, <1>4
    <2>2. CASE ~(End(ch) > b.total)
      BY <2>2, <1>1, <1>2, <1>4 DEF IsExtent
    <2>. QED  BY <2>1, <2>2
  <1>. QED  BY <1>4, <1>5, <1>6 DEF IsExtent

\* The image of all chunks is what read_all returns when total is their extent.
LEMMA ImageOfAll ==
  ASSUME NEW log \in Seq(Chunk), NEW n \in Nat, IsExtent(log, n)
  PROVE  ImageOf(log, Len(log)) = ReadAll(log, n)
  <1>1. SubSeq(log, 1, Len(log)) = log
    BY SubSeqFull
  <1>. QED  BY <1>1, ExtentUnique DEF ImageOf

\* The image of the chunks there were is not changed by one more.
LEMMA ImageOfPrefix ==
  ASSUME NEW log \in Seq(Chunk), NEW ch \in Chunk, NEW k \in 0 .. Len(log)
  PROVE  ImageOf(Append(log, ch), k) = ImageOf(log, k)
  <1>1. SubSeq(Append(log, ch), 1, k) = SubSeq(log, 1, k)
    OBVIOUS
  <1>. QED  BY <1>1 DEF ImageOf

-----------------------------------------------------------------------------
(***************************************************************************)
(* Induction over the numbers in a set.  The theorems about induction of   *)
(* the library take the predicate as an operator, which cannot be given;   *)
(* that the subsets of a finite set are well-founded can.                  *)
(***************************************************************************)
LEMMA SetInduction ==
  ASSUME NEW T, 0 \in T, \A k \in Nat : k \in T => k + 1 \in T
  PROVE  Nat \subseteq T
  <1>. SUFFICES ASSUME NEW n \in Nat, n \notin T
                PROVE  FALSE
    OBVIOUS
  <1>. DEFINE U == {0 .. x : x \in (0 .. n) \ T}
  <1>1. IsFiniteSet(0 .. n)
    BY FS_Interval
  <1>2. \A x \in 0 .. n : 0 .. x \in FiniteSubsetsOf(0 .. n)
    BY <1>1, FS_Subset DEF FiniteSubsetsOf
  <1>3. U \subseteq FiniteSubsetsOf(0 .. n) /\ U # {}
    BY <1>2
  <1>4. PICK I \in U : \A J \in U : <<J, I>> \notin StrictSubsetOrdering(0 .. n)
    <2>. HIDE DEF U
    <2>. QED  BY <1>3, FS_StrictSubsetOrderingWellFounded, WFMin, Zenon
  <1>5. PICK x \in (0 .. n) \ T : I = 0 .. x
    BY <1>4
  <1>6. x - 1 \in (0 .. n) \ T
    <2>1. x # 0 /\ x - 1 \in Nat /\ (x - 1) + 1 = x
      BY <1>5
    <2>. QED  BY <1>5, <2>1
  <1>7. 0 .. x - 1 \in U
    BY <1>6
  <1>8. 0 .. x - 1 \in SUBSET (0 .. n) /\ I \in SUBSET (0 .. n)
    BY <1>5, <1>6
  <1>9. 0 .. x - 1 \subseteq I /\ 0 .. x - 1 # I
    BY <1>5, <1>6
  <1>10. <<0 .. x - 1, I>> \in StrictSubsetOrdering(0 .. n)
    BY <1>8, <1>9 DEF StrictSubsetOrdering
  <1>. QED  BY <1>4, <1>7, <1>10

-----------------------------------------------------------------------------
(***************************************************************************)
(* read_all.  The loop is a function that TLA+ chooses among those that    *)
(* satisfy its equation: there is one, in closed form, and no other.       *)
(***************************************************************************)

\* The byte at a position is the one of the last chunk that covers it, and zero
\* where there is none.
LEMMA ByteAtIs ==
  ASSUME NEW log \in Seq(Chunk), NEW i \in Nat
  PROVE  /\ \A k \in DOMAIN log :
              IsLastCover(log, k, i) => ByteAt(log, i) = log[k].bytes[i - log[k].off]
         /\ (\A k \in DOMAIN log : ~Covers(log[k], i)) => ByteAt(log, i) = 0
  <1>1. ASSUME NEW k \in DOMAIN log, IsLastCover(log, k, i)
        PROVE  ByteAt(log, i) = log[k].bytes[i - log[k].off]
    <2>1. ASSUME NEW j \in DOMAIN log, IsLastCover(log, j, i)
          PROVE  j = k
      <3>1. ~(j > k) /\ ~(k > j)
        BY <1>1, <2>1 DEF IsLastCover
      <3>2. j \in Nat /\ k \in Nat
        OBVIOUS
      <3>. QED  BY <3>1, <3>2
    <2>2. (CHOOSE j \in DOMAIN log : IsLastCover(log, j, i)) = k
      BY <1>1, <2>1
    <2>. QED  BY <1>1, <2>2 DEF ByteAt
  <1>2. (\A k \in DOMAIN log : ~Covers(log[k], i)) => ByteAt(log, i) = 0
    BY DEF ByteAt, IsLastCover
  <1>. QED  BY <1>1, <1>2

\* Some chunk covers the position, and then there is a last one that does.
LEMMA LastCover ==
  ASSUME NEW log \in Seq(Chunk), NEW i \in Nat, NEW k \in DOMAIN log, Covers(log[k], i)
  PROVE  \E j \in DOMAIN log : IsLastCover(log, j, i)
  <1>. SUFFICES ASSUME \A j \in DOMAIN log : ~IsLastCover(log, j, i)
                PROVE  FALSE
    OBVIOUS
  <1>. DEFINE T == {d \in Nat : \E j \in DOMAIN log : Covers(log[j], i) /\ j >= k + d}
  <1>0. DOMAIN log = 1 .. Len(log) /\ Len(log) \in Nat /\ k \in Nat
    OBVIOUS
  <1>1. 0 \in T
    BY <1>0
  <1>2. ASSUME NEW d \in Nat, d \in T
        PROVE  d + 1 \in T
    <2>1. PICK j \in DOMAIN log : Covers(log[j], i) /\ j >= k + d
      BY <1>2
    <2>2. PICK m \in DOMAIN log : m > j /\ Covers(log[m], i)
      BY <2>1 DEF IsLastCover
    <2>3. m >= k + (d + 1)
      BY <1>0, <2>1, <2>2
    <2>. QED  BY <2>2, <2>3
  <1>3. Len(log) + 1 \in T
    <2>. HIDE DEF T
    <2>1. Nat \subseteq T
      BY <1>1, <1>2, SetInduction, Zenon
    <2>. QED  BY <1>0, <2>1
  <1>. QED  BY <1>0, <1>3

\* One chunk more is painted over what was there.
LEMMA ByteAtAppend ==
  ASSUME NEW log \in Seq(Chunk), NEW ch \in Chunk, NEW i \in Nat
  PROVE  ByteAt(Append(log, ch), i) =
           IF Covers(ch, i) THEN ch.bytes[i - ch.off] ELSE ByteAt(log, i)
  <1>. DEFINE more == Append(log, ch)
              n    == Len(log)
  <1>1. /\ more \in Seq(Chunk) /\ n \in Nat /\ DOMAIN log = 1 .. n /\ DOMAIN more = 1 .. n + 1
        /\ more[n + 1] = ch /\ \A k \in 1 .. n : more[k] = log[k]
    OBVIOUS
  <1>. HIDE DEF more, n
  <1>2. CASE Covers(ch, i)
    <2>1. n + 1 \in DOMAIN more /\ ~\E j \in DOMAIN more : j > n + 1
      BY <1>1
    <2>2. IsLastCover(more, n + 1, i)
      BY <1>1, <1>2, <2>1 DEF IsLastCover
    <2>. QED  BY <1>1, <1>2, <2>1, <2>2, ByteAtIs DEF more
  <1>3. CASE ~Covers(ch, i)
    <2>1. CASE \E k \in DOMAIN log : Covers(log[k], i)
      <3>1. PICK k \in DOMAIN log : IsLastCover(log, k, i)
        BY <2>1, LastCover
      <3>2. \A j \in DOMAIN more : j > k => ~Covers(more[j], i)
        BY <1>1, <1>3, <3>1 DEF IsLastCover
      <3>3. k \in DOMAIN more /\ more[k] = log[k]
        BY <1>1
      <3>4. IsLastCover(more, k, i)
        BY <3>1, <3>2, <3>3 DEF IsLastCover
      <3>5. ByteAt(more, i) = more[k].bytes[i - more[k].off]
        BY <1>1, <3>3, <3>4, ByteAtIs
      <3>6. ByteAt(log, i) = log[k].bytes[i - log[k].off]
        BY <3>1, ByteAtIs
      <3>. QED  BY <1>3, <3>3, <3>5, <3>6 DEF more
    <2>2. CASE \A k \in DOMAIN log : ~Covers(log[k], i)
      <3>1. \A k \in DOMAIN more : ~Covers(more[k], i)
        BY <1>1, <1>3, <2>2
      <3>2. ByteAt(more, i) = 0 /\ ByteAt(log, i) = 0
        BY <1>1, <2>2, <3>1, ByteAtIs
      <3>. QED  BY <1>3, <3>2 DEF more
    <2>. QED  BY <2>1, <2>2
  <1>. QED  BY <1>2, <1>3

\* What the loop has painted after n chunks.
IsPainted(log, total, f) ==
  f = [n \in 0 .. Len(log) |->
         IF n = 0 THEN [i \in 1 .. total |-> 0]
         ELSE IF End(log[n]) <= total
              THEN Paint(f[n - 1], log[n])
              ELSE f[n - 1]]

\* In a buffer whose chunks all end within total_size, the loop of read_all skips
\* none, and paints for every byte the last chunk that covers it.
LEMMA LoopIs ==
  ASSUME NEW b \in Buffer, \A k \in DOMAIN b.log : End(b.log[k]) <= b.total
  PROVE  ReadAllLoop(b) = ReadAll(b.log, b.total)
  <1>. DEFINE log   == b.log
              total == b.total
              L     == Len(log)
              g     == [n \in 0 .. L |-> ReadAll(SubSeq(log, 1, n), total)]
  <1>1. log \in Seq(Chunk) /\ total \in Nat /\ L \in Nat /\ L = Len(log) /\ DOMAIN log = 1 .. L
    BY DEF Buffer
  <1>2. \A k \in 1 .. L : End(log[k]) <= total
    BY <1>1
  <1>3. ReadAllLoop(b) = (CHOOSE f : IsPainted(log, total, f))[L]
    BY DEF ReadAllLoop, IsPainted
  <1>. HIDE DEF log, total, L
  <1>4. \A n \in 0 .. L : /\ g[n] = ReadAll(SubSeq(log, 1, n), total)
                          /\ SubSeq(log, 1, n) \in Seq(Chunk)
    BY <1>1
  <1>5. g[0] = [i \in 1 .. total |-> 0]
    <2>1. SubSeq(log, 1, 0) = <<>>
      BY <1>1
    <2>2. <<>> \in Seq(Chunk) /\ DOMAIN <<>> = {}
      OBVIOUS
    <2>3. \A i \in 1 .. total : ByteAt(<<>>, i) = 0
      BY <1>1, <2>2 DEF ByteAt
    <2>4. 0 \in 0 .. L
      BY <1>1
    <2>. HIDE DEF g
    <2>5. g[0] = ReadAll(<<>>, total)
      BY <1>4, <2>1, <2>4
    <2>. QED  BY <2>3, <2>5 DEF ReadAll
  <1>6. ASSUME NEW n \in 1 .. L
        PROVE  g[n] = Paint(g[n - 1], log[n])
    <2>. DEFINE s == SubSeq(log, 1, n - 1)
    <2>1. n - 1 \in 0 .. L /\ n \in 0 .. L /\ log[n] \in Chunk
      BY <1>1
    <2>2. s \in Seq(Chunk) /\ g[n - 1] = ReadAll(s, total)
      BY <1>4, <2>1
    <2>3. SubSeq(log, 1, n) = Append(s, log[n])
      BY <1>1
    <2>4. g[n] = ReadAll(Append(s, log[n]), total)
      BY <1>4, <2>1, <2>3
    <2>. HIDE DEF g, s
    <2>5. \A i \in 1 .. total :
            ByteAt(Append(s, log[n]), i) =
              IF Covers(log[n], i) THEN log[n].bytes[i - log[n].off] ELSE ByteAt(s, i)
      BY <1>1, <2>1, <2>2, ByteAtAppend
    <2>6. DOMAIN g[n - 1] = 1 .. total /\ \A i \in 1 .. total : g[n - 1][i] = ByteAt(s, i)
      BY <2>2 DEF ReadAll
    <2>. QED  BY <2>4, <2>5, <2>6 DEF ReadAll, Paint
  <1>7. IsPainted(log, total, g)
    <2>1. ASSUME NEW n \in 0 .. L
          PROVE  g[n] = IF n = 0 THEN [i \in 1 .. total |-> 0]
                        ELSE IF End(log[n]) <= total
                             THEN Paint(g[n - 1], log[n])
                             ELSE g[n - 1]
      <3>1. n = 0 \/ n \in 1 .. L
        BY <1>1
      <3>. HIDE DEF g
      <3>. QED  BY <1>2, <1>5, <1>6, <3>1
    <2>2. g = [n \in 0 .. L |-> g[n]]
      OBVIOUS
    <2>. HIDE DEF g
    <2>3. g = [n \in 0 .. L |-> IF n = 0 THEN [i \in 1 .. total |-> 0]
                                ELSE IF End(log[n]) <= total
                                     THEN Paint(g[n - 1], log[n])
                                     ELSE g[n - 1]]
      BY <2>1, <2>2, Zenon
    <2>. QED  BY <1>1, <2>3 DEF IsPainted
  <1>. HIDE DEF g
  <1>8. ASSUME NEW f, IsPainted(log, total, f)
        PROVE  f[L] = g[L]
    <2>1. \A n \in 0 .. L : f[n] = IF n = 0 THEN [i \in 1 .. total |-> 0]
                                   ELSE IF End(log[n]) <= total
                                        THEN Paint(f[n - 1], log[n])
                                        ELSE f[n - 1]
      <3>1. f = [n \in 0 .. L |-> IF n = 0 THEN [i \in 1 .. total |-> 0]
                                  ELSE IF End(log[n]) <= total
                                       THEN Paint(f[n - 1], log[n])
                                       ELSE f[n - 1]]
        BY <1>1, <1>8 DEF IsPainted
      <3>. QED  BY <3>1
    <2>. DEFINE T == {n \in Nat : n <= L => f[n] = g[n]}
    <2>2. 0 \in T
      BY <1>1, <1>5, <2>1
    <2>3. ASSUME NEW n \in Nat, n \in T
          PROVE  n + 1 \in T
      <3>. SUFFICES ASSUME n + 1 <= L PROVE f[n + 1] = g[n + 1]
        OBVIOUS
      <3>1. n + 1 \in 1 .. L /\ n + 1 \in 0 .. L /\ (n + 1) - 1 = n /\ n + 1 # 0 /\ n <= L
        BY <1>1
      <3>2. f[n] = g[n]
        BY <2>3, <3>1
      <3>3. f[n + 1] = Paint(f[n], log[n + 1])
        BY <1>2, <2>1, <3>1
      <3>. QED  BY <1>6, <3>1, <3>2, <3>3
    <2>. HIDE DEF T
    <2>4. Nat \subseteq T
      BY <2>2, <2>3, SetInduction, Zenon
    <2>. QED  BY <1>1, <2>4 DEF T
  <1>9. ReadAllLoop(b) = g[L]
    <2>1. IsPainted(log, total, CHOOSE f : IsPainted(log, total, f))
      BY <1>7, Zenon
    <2>. QED  BY <1>3, <1>8, <2>1
  <1>10. g[L] = ReadAll(log, total)
    <2>1. SubSeq(log, 1, L) = log
      BY <1>1, SubSeqFull
    <2>2. L \in 0 .. L
      BY <1>1
    <2>. QED  BY <1>4, <2>1, <2>2
  <1>. QED  BY <1>9, <1>10 DEF log, total
=============================================================================
