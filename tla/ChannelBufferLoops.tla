------------------------- MODULE ChannelBufferLoops -------------------------
(***************************************************************************)
(* The loops of ChannelBuffer in every buffer that its operations can      *)
(* build: read_all returns what its closed form says, and read_range reads *)
(* back what was written in order.  The loop of read_range is a function   *)
(* that TLA+ chooses among those that satisfy its equation: there is one,  *)
(* given in closed form, and no other, by induction from its end.          *)
(***************************************************************************)
EXTENDS MCChannelBuffer, ChannelBufferProofs

-----------------------------------------------------------------------------
(***************************************************************************)
(* read_range.                                                             *)
(***************************************************************************)
Nothing == [bytes |-> <<>>, spins |-> FALSE]

\* One turn of the loop of read_range at position cur, where f is what the loop
\* returns from the positions behind.
RangeTurn(log, end, f, cur) ==
  IF cur >= end \/ StartsAt(log, cur) = {}
  THEN [bytes |-> <<>>, spins |-> FALSE]
  ELSE LET ch == log[Least(StartsAt(log, cur))]
           n  == Smaller(Len(ch.bytes), end - cur)
       IN  IF n = 0
           THEN [bytes |-> <<>>, spins |-> TRUE]
           ELSE LET rest == f[cur + n]
                IN  [rest EXCEPT !.bytes = SubSeq(ch.bytes, 1, n) \o @]

IsRange(log, end, f) == f = [cur \in 0 .. end |-> RangeTurn(log, end, f, cur)]

\* The chunks of a client that writes in order, one behind the other.
InARow(log) ==
  \A k \in DOMAIN log :
    /\ log[k].bytes # <<>>
    /\ log[k].off = IF k = 1 THEN 0 ELSE End(log[k - 1])

LEMMA RowOrder ==
  ASSUME NEW log \in Seq(Chunk), InARow(log)
  PROVE  /\ \A k \in DOMAIN log : /\ log[k].off \in Nat /\ End(log[k]) \in Nat
                                  /\ log[k].off < End(log[k])
         /\ \A j, k \in DOMAIN log : j < k => End(log[j]) <= log[k].off
  <1>0. DOMAIN log = 1 .. Len(log) /\ Len(log) \in Nat
    OBVIOUS
  <1>1. \A k \in DOMAIN log : /\ log[k].off \in Nat /\ End(log[k]) \in Nat
                              /\ log[k].off < End(log[k])
    <2>. SUFFICES ASSUME NEW k \in DOMAIN log
                  PROVE  /\ log[k].off \in Nat /\ End(log[k]) \in Nat
                         /\ log[k].off < End(log[k])
      OBVIOUS
    <2>1. log[k] \in Chunk
      OBVIOUS
    <2>2. log[k].off \in Nat /\ log[k].bytes \in Seq(Byte) /\ log[k].bytes # <<>>
      BY <2>1 DEF Chunk, Image, InARow
    <2>3. \A s \in Seq(Byte) : s # <<>> => Len(s) \in Nat /\ Len(s) > 0
      OBVIOUS
    <2>. QED  BY <2>2, <2>3 DEF End
  <1>. DEFINE T == {k \in Nat : k \in DOMAIN log =>
                                   \A j \in DOMAIN log : j < k => End(log[j]) <= log[k].off}
  <1>2. 0 \in T
    BY <1>0
  <1>3. ASSUME NEW k \in Nat, k \in T
        PROVE  k + 1 \in T
    <2>. SUFFICES ASSUME k + 1 \in DOMAIN log, NEW j \in DOMAIN log, j < k + 1
                  PROVE  End(log[j]) <= log[k + 1].off
      OBVIOUS
    <2>1. k \in DOMAIN log /\ k + 1 # 1 /\ (k + 1) - 1 = k /\ (j = k \/ j < k)
      BY <1>0
    <2>2. log[k + 1].off = End(log[k])
      BY <2>1 DEF InARow
    <2>3. CASE j = k
      BY <1>1, <2>1, <2>2, <2>3
    <2>4. CASE j < k
      <3>1. End(log[j]) <= log[k].off
        BY <1>3, <2>1, <2>4
      <3>. QED  BY <1>1, <2>1, <2>2, <3>1
    <2>. QED  BY <2>1, <2>3, <2>4
  <1>4. Nat \subseteq T
    <2>. HIDE DEF T
    <2>. QED  BY <1>2, <1>3, SetInduction, Zenon
  <1>5. ASSUME NEW j \in DOMAIN log, NEW k \in DOMAIN log, j < k
        PROVE  End(log[j]) <= log[k].off
    <2>1. k \in T
      BY <1>0, <1>4
    <2>. QED  BY <1>5, <2>1
  <1>. QED  BY <1>1, <1>5

\* So at the offset of a chunk no other one starts, and it alone covers its bytes.
LEMMA RowStarts ==
  ASSUME NEW log \in Seq(Chunk), InARow(log), NEW k \in DOMAIN log
  PROVE  /\ StartsAt(log, log[k].off) = {k} /\ Least(StartsAt(log, log[k].off)) = k
         /\ \A i \in Nat : Covers(log[k], i) => ByteAt(log, i) = log[k].bytes[i - log[k].off]
  <1>0. \A j \in DOMAIN log : j \in Nat
    OBVIOUS
  <1>1. \A j \in DOMAIN log : j # k => log[j].off # log[k].off
    <2>. SUFFICES ASSUME NEW j \in DOMAIN log, j # k, log[j].off = log[k].off
                  PROVE  FALSE
      OBVIOUS
    <2>1. j < k \/ k < j
      BY <1>0
    <2>. QED  BY <2>1, RowOrder
  <1>2. StartsAt(log, log[k].off) = {k}
    BY <1>1 DEF StartsAt
  <1>3. Least({k}) = k
    <2>1. \A x \in {k} : x = k
      OBVIOUS
    <2>2. \E x \in {k} : \A y \in {k} : x <= y
      BY <1>0
    <2>. QED  BY <2>1, <2>2 DEF Least
  <1>4. ASSUME NEW i \in Nat, Covers(log[k], i)
        PROVE  ByteAt(log, i) = log[k].bytes[i - log[k].off]
    <2>1. ASSUME NEW j \in DOMAIN log, j > k
          PROVE  ~Covers(log[j], i)
      <3>1. End(log[k]) <= log[j].off /\ End(log[k]) \in Nat /\ log[j].off \in Nat
              /\ End(log[j]) \in Nat /\ log[k].off \in Nat
        BY <1>0, <2>1, RowOrder
      <3>. QED  BY <1>4, <3>1 DEF Covers
    <2>2. IsLastCover(log, k, i)
      BY <1>4, <2>1 DEF IsLastCover
    <2>. QED  BY <2>2, ByteAtIs
  <1>. QED  BY <1>2, <1>3, <1>4

\* A turn at a position where f and g agree on what lies behind.
LEMMA TurnsAgree ==
  ASSUME NEW log \in Seq(Chunk), NEW end \in Nat, NEW cur \in 0 .. end, NEW f, NEW g,
         InARow(log), \A m \in 0 .. end : m > cur => f[m] = g[m]
  PROVE  RangeTurn(log, end, f, cur) = RangeTurn(log, end, g, cur)
  <1>1. CASE cur >= end \/ StartsAt(log, cur) = {}
    BY <1>1 DEF RangeTurn
  <1>2. CASE ~(cur >= end \/ StartsAt(log, cur) = {})
    <2>1. PICK k \in DOMAIN log : log[k].off = cur
      BY <1>2 DEF StartsAt
    <2>2. Least(StartsAt(log, cur)) = k
      BY <2>1, RowStarts
    <2>. DEFINE n == Smaller(Len(log[k].bytes), end - cur)
    <2>3. log[k] \in Chunk /\ log[k].bytes # <<>>
      BY DEF InARow
    <2>4. \A s \in Seq(Byte) : s # <<>> => Len(s) \in Nat /\ Len(s) > 0
      OBVIOUS
    <2>5. Len(log[k].bytes) \in Nat /\ Len(log[k].bytes) > 0
      BY <2>3, <2>4 DEF Chunk, Image
    <2>6. cur + n \in 0 .. end /\ cur + n > cur
      BY <1>2, <2>5 DEF Smaller
    <2>7. f[cur + n] = g[cur + n]
      BY <2>6
    <2>. QED  BY <1>2, <2>2, <2>7 DEF RangeTurn
  <1>. QED  BY <1>1, <1>2

LEMMA RangeUnique ==
  ASSUME NEW log \in Seq(Chunk), NEW end \in Nat, InARow(log),
         NEW f, IsRange(log, end, f), NEW g, IsRange(log, end, g)
  PROVE  \A cur \in 0 .. end : f[cur] = g[cur]
  <1>1. \A cur \in 0 .. end : /\ f[cur] = RangeTurn(log, end, f, cur)
                              /\ g[cur] = RangeTurn(log, end, g, cur)
    <2>1. f = [cur \in 0 .. end |-> RangeTurn(log, end, f, cur)]
      BY DEF IsRange
    <2>2. g = [cur \in 0 .. end |-> RangeTurn(log, end, g, cur)]
      BY DEF IsRange
    <2>. QED  BY <2>1, <2>2, Zenon
  <1>. DEFINE T == {d \in Nat : \A cur \in 0 .. end : end < cur + d => f[cur] = g[cur]}
  <1>2. 0 \in T
    OBVIOUS
  <1>3. ASSUME NEW d \in Nat, d \in T
        PROVE  d + 1 \in T
    <2>. SUFFICES ASSUME NEW cur \in 0 .. end, end < cur + (d + 1)
                  PROVE  f[cur] = g[cur]
      OBVIOUS
    <2>1. ASSUME NEW m \in 0 .. end, m > cur
          PROVE  f[m] = g[m]
      <3>1. end < m + d
        BY <2>1
      <3>. QED  BY <1>3, <3>1
    <2>2. RangeTurn(log, end, f, cur) = RangeTurn(log, end, g, cur)
      BY <2>1, TurnsAgree
    <2>. QED  BY <1>1, <2>2
  <1>4. Nat \subseteq T
    <2>. HIDE DEF T
    <2>. QED  BY <1>2, <1>3, SetInduction, Zenon
  <1>5. end + 1 \in T
    <2>. HIDE DEF T
    <2>. QED  BY <1>4
  <1>. QED  BY <1>5

\* What follows the first n bytes of a slice of an image, up to end.
LEMMA SliceJoins ==
  ASSUME NEW img \in Seq(Byte), NEW cur \in Nat, NEW n \in Nat, NEW end \in Nat,
         cur + n <= end, end <= Len(img), NEW s \in Seq(Byte), n <= Len(s),
         \A i \in 1 .. n : s[i] = img[cur + i]
  PROVE  SubSeq(s, 1, n) \o SubSeq(img, cur + n + 1, end) = SubSeq(img, cur + 1, end)
  <1>. DEFINE a == SubSeq(s, 1, n)
              b == SubSeq(img, cur + n + 1, end)
              c == SubSeq(img, cur + 1, end)
  <1>1. /\ a \in Seq(Byte) /\ Len(a) = n /\ \A i \in 1 .. n : a[i] = s[i]
    OBVIOUS
  <1>2. /\ b \in Seq(Byte) /\ Len(b) = end - (cur + n)
        /\ \A i \in 1 .. end - (cur + n) : b[i] = img[cur + n + i]
    OBVIOUS
  <1>3. /\ c \in Seq(Byte) /\ Len(c) = end - cur
        /\ \A i \in 1 .. end - cur : c[i] = img[cur + i]
    OBVIOUS
  <1>. HIDE DEF a, b, c
  <1>4. /\ a \o b \in Seq(Byte) /\ Len(a \o b) = end - cur
        /\ \A i \in 1 .. end - cur : (a \o b)[i] = IF i <= n THEN a[i] ELSE b[i - n]
    BY <1>1, <1>2
  <1>5. ASSUME NEW i \in 1 .. end - cur
        PROVE  (a \o b)[i] = c[i]
    <2>1. CASE i <= n
      <3>1. i \in 1 .. n
        BY <2>1
      <3>. QED  BY <1>1, <1>3, <1>4, <2>1, <3>1
    <2>2. CASE ~(i <= n)
      <3>1. i - n \in 1 .. end - (cur + n) /\ cur + n + (i - n) = cur + i
        BY <2>2
      <3>2. b[i - n] = img[cur + i]
        BY <1>2, <3>1
      <3>. QED  BY <1>3, <1>4, <2>2, <3>2
    <2>. QED  BY <2>1, <2>2
  <1>6. a \o b = c
    <2>. DEFINE j == a \o b
    <2>1. j \in Seq(Byte) /\ Len(j) = Len(c) /\ \A i \in 1 .. Len(j) : j[i] = c[i]
      BY <1>3, <1>4, <1>5
    <2>. HIDE DEF j
    <2>2. j = c
      BY <1>3, <2>1, SeqEqual
    <2>. QED  BY <2>2 DEF j
  <1>. QED  BY <1>6 DEF a, b, c

LEMMA RestJoins ==
  ASSUME NEW r \in [bytes : Seq(Byte), spins : BOOLEAN], NEW s \in Seq(Byte)
  PROVE  [r EXCEPT !.bytes = s \o @] = [bytes |-> s \o r.bytes, spins |-> r.spins]
  <1>1. [r EXCEPT !.bytes = s \o @] = [r EXCEPT !.bytes = s \o r.bytes]
    OBVIOUS
  <1>. DEFINE z == s \o r.bytes
  <1>2. z \in Seq(Byte)
    OBVIOUS
  <1>. HIDE DEF z
  <1>3. [r EXCEPT !.bytes = z] = [bytes |-> z, spins |-> r.spins]
    BY <1>2
  <1>. QED  BY <1>1, <1>3 DEF z

\* In a row of chunks, the loop that starts where a chunk does returns everything
\* from there up to end.
LEMMA RangeIs ==
  ASSUME NEW log \in Seq(Chunk), InARow(log), NEW total \in Nat, NEW end \in 0 .. total,
         log # <<>>, total = End(log[Len(log)])
  PROVE  /\ \E f : IsRange(log, end, f)
         /\ \A f : IsRange(log, end, f) =>
              \A k \in DOMAIN log : log[k].off < end
                => f[log[k].off] = [bytes |-> SubSeq(ReadAll(log, total), log[k].off + 1, end),
                                    spins |-> FALSE]
  <1>. DEFINE img == ReadAll(log, total)
              g   == [cur \in 0 .. end |->
                        IF cur >= end \/ StartsAt(log, cur) = {} THEN Nothing
                        ELSE [bytes |-> SubSeq(img, cur + 1, end), spins |-> FALSE]]
  <1>0. /\ img \in Seq(Byte) /\ Len(img) = total
        /\ DOMAIN log = 1 .. Len(log) /\ Len(log) \in Nat /\ end \in Nat
    BY ReadAllType DEF Image
  <1>. HIDE DEF img
  <1>1. \A cur \in 0 .. end : g[cur] = IF cur >= end \/ StartsAt(log, cur) = {} THEN Nothing
                              ELSE [bytes |-> SubSeq(img, cur + 1, end), spins |-> FALSE]
    OBVIOUS
  <1>2. ASSUME NEW k \in DOMAIN log, log[k].off < end
        PROVE  /\ log[k].off \in 0 .. end
               /\ g[log[k].off] = [bytes |-> SubSeq(img, log[k].off + 1, end), spins |-> FALSE]
    <2>1. log[k].off \in 0 .. end
      BY <1>2, RowOrder
    <2>2. StartsAt(log, log[k].off) # {}
      BY ZenonT(40), RowStarts
    <2>3. ~(log[k].off >= end)
      BY <1>2, <2>1
    <2>. HIDE DEF g
    <2>. QED  BY <1>1, <2>1, <2>2, <2>3
  <1>3. ASSUME NEW cur \in 0 .. end
        PROVE  g[cur] = RangeTurn(log, end, g, cur)
    <2>1. CASE cur >= end \/ StartsAt(log, cur) = {}
      BY <1>1, <2>1 DEF RangeTurn, Nothing
    <2>2. CASE ~(cur >= end \/ StartsAt(log, cur) = {})
      <3>1. PICK k \in DOMAIN log : log[k].off = cur
        BY <2>2 DEF StartsAt
      <3>. DEFINE s == log[k].bytes
                  n == Smaller(Len(s), end - cur)
      <3>2. Least(StartsAt(log, cur)) = k
        BY <3>1, RowStarts
      <3>3. s \in Seq(Byte) /\ s # <<>>
        <4>1. log[k] \in Chunk
          OBVIOUS
        <4>. QED  BY <4>1 DEF Chunk, Image, InARow
      <3>4. Len(s) \in Nat /\ Len(s) > 0 /\ End(log[k]) = cur + Len(s) /\ cur \in Nat
        <4>1. \A r \in Seq(Byte) : r # <<>> => Len(r) \in Nat /\ Len(r) > 0
          OBVIOUS
        <4>. QED  BY <3>1, <3>3, <4>1 DEF End
      <3>. HIDE DEF s
      <3>5. /\ n \in Nat /\ n # 0 /\ n <= Len(s) /\ cur + n <= end /\ cur + n \in 0 .. end
            /\ n = Len(s) \/ cur + n = end
        BY <2>2, <3>4 DEF Smaller
      <3>. HIDE DEF n
      <3>6. g[cur + n] = [bytes |-> SubSeq(img, cur + n + 1, end), spins |-> FALSE]
        <4>1. CASE cur + n >= end
          <5>1. g[cur + n] = Nothing
            BY <1>1, <3>5, <4>1
          <5>2. SubSeq(img, cur + n + 1, end) = <<>>
            BY <1>0, <3>4, <3>5, <4>1
          <5>. QED  BY <5>1, <5>2 DEF Nothing
        <4>2. CASE cur + n < end
          <5>1. cur + n = End(log[k]) /\ End(log[k]) < End(log[Len(log)])
            BY <3>4, <3>5, <4>2
          <5>2. k # Len(log) /\ k + 1 \in DOMAIN log /\ k + 1 # 1 /\ (k + 1) - 1 = k
            BY <1>0, <3>4, <5>1
          <5>3. log[k + 1].off = cur + n
            BY <5>1, <5>2 DEF InARow
          <5>. QED  BY <1>2, <4>2, <5>2, <5>3
        <4>. QED  BY <3>4, <3>5, <4>1, <4>2
      <3>7. \A i \in 1 .. n : s[i] = img[cur + i]
        <4>. SUFFICES ASSUME NEW i \in 1 .. n PROVE s[i] = img[cur + i]
          OBVIOUS
        <4>1. cur + i \in Nat /\ cur + i \in 1 .. total /\ cur + i \in (cur + 1) .. (cur + Len(s))
                /\ (cur + i) - cur = i
          BY <3>4, <3>5
        <4>2. Covers(log[k], cur + i)
          BY <3>1, <3>4, <4>1 DEF Covers
        <4>3. ByteAt(log, cur + i) = log[k].bytes[(cur + i) - log[k].off]
          BY <4>1, <4>2, RowStarts
        <4>4. img[cur + i] = ByteAt(log, cur + i)
          BY <4>1 DEF img, ReadAll
        <4>. QED  BY <3>1, <4>1, <4>3, <4>4 DEF s
      <3>8. SubSeq(s, 1, n) \o SubSeq(img, cur + n + 1, end) = SubSeq(img, cur + 1, end)
        <4>1. end <= Len(img) /\ cur \in Nat /\ end \in Nat
          BY <1>0
        <4>2. img \in Seq(Byte) /\ s \in Seq(Byte) /\ n \in Nat /\ cur + n <= end /\ n <= Len(s)
          BY <1>0, <3>3, <3>5
        <4>. HIDE DEF g
        <4>. QED  BY SMTT(30), <3>7, <4>1, <4>2, SliceJoins
      <3>9. g[cur] = [bytes |-> SubSeq(img, cur + 1, end), spins |-> FALSE]
        BY <1>1, <2>2
      <3>10. RangeTurn(log, end, g, cur) = [g[cur + n] EXCEPT !.bytes = SubSeq(s, 1, n) \o @]
        BY <2>2, <3>2, <3>5 DEF RangeTurn, s, n
      <3>. HIDE DEF g
      <3>11. [g[cur + n] EXCEPT !.bytes = SubSeq(s, 1, n) \o @]
               = [bytes |-> SubSeq(s, 1, n) \o SubSeq(img, cur + n + 1, end), spins |-> FALSE]
        <4>. DEFINE rest == g[cur + n]
                    y    == SubSeq(s, 1, n)
                    x    == SubSeq(img, cur + n + 1, end)
        <4>1. x \in Seq(Byte) /\ y \in Seq(Byte)
          BY <1>0, <3>3, <3>4, <3>5
        <4>2. rest = [bytes |-> x, spins |-> FALSE]
          BY <3>6
        <4>. HIDE DEF rest, x, y
        <4>3. rest \in [bytes : Seq(Byte), spins : BOOLEAN] /\ rest.bytes = x /\ rest.spins = FALSE
          BY <4>1, <4>2
        <4>4. [rest EXCEPT !.bytes = y \o @] = [bytes |-> y \o rest.bytes, spins |-> rest.spins]
          BY <4>1, <4>3, RestJoins
        <4>5. [rest EXCEPT !.bytes = y \o @] = [bytes |-> y \o x, spins |-> FALSE]
          BY <4>3, <4>4
        <4>. QED  BY <4>5 DEF rest, x, y
      <3>. QED  BY <3>8, <3>9, <3>10, <3>11
    <2>. QED  BY <2>1, <2>2
  <1>4. IsRange(log, end, g)
    <2>1. g = [cur \in 0 .. end |-> g[cur]]
      OBVIOUS
    <2>. HIDE DEF g
    <2>. QED  BY <1>3, <2>1, Zenon DEF IsRange
  <1>. HIDE DEF g
  <1>5. ASSUME NEW f, IsRange(log, end, f), NEW k \in DOMAIN log, log[k].off < end
        PROVE  f[log[k].off] = [bytes |-> SubSeq(img, log[k].off + 1, end), spins |-> FALSE]
    <2>1. \A cur \in 0 .. end : f[cur] = g[cur]
      BY <1>0, <1>4, <1>5, RangeUnique
    <2>. QED  BY <1>2, <1>5, <2>1
  <1>. QED  BY <1>4, <1>5 DEF img

-----------------------------------------------------------------------------
(***************************************************************************)
(* Every buffer that the operations can build.                             *)
(***************************************************************************)
BufferOK ==
  /\ TypeOK
  /\ \A k \in DOMAIN buf.log : End(buf.log[k]) <= buf.total

LEMMA BufferInit == Init => BufferOK
  <1>. SUFFICES ASSUME Init PROVE BufferOK
    OBVIOUS
  <1>1. buf = NewBuffer /\ <<>> \in Seq(Chunk) /\ DOMAIN <<>> = {}
    BY DEF Init
  <1>. QED  BY <1>1 DEF BufferOK, TypeOK, NewBuffer, Buffer

LEMMA BufferNext == BufferOK /\ [Next]_buf => BufferOK'
  <1>. SUFFICES ASSUME BufferOK, [Next]_buf PROVE BufferOK'
    OBVIOUS
  <1>0. /\ buf \in Buffer /\ buf.log \in Seq(Chunk) /\ buf.total \in Nat
        /\ \A k \in DOMAIN buf.log : End(buf.log[k]) <= buf.total /\ End(buf.log[k]) \in Nat
    BY EndType DEF BufferOK, TypeOK, Buffer
  <1>1. ASSUME NEW off \in Offsets, NEW len \in Lens, Write(off, len)
        PROVE  BufferOK'
    <2>. DEFINE ch == [off |-> off, bytes |-> [i \in 1 .. len |-> Len(buf.log) + 1]]
    <2>1. off \in Nat /\ len \in Nat /\ Len(buf.log) + 1 \in Nat
      BY <1>0, DriverAssumption
    <2>2. ch \in Chunk
      <3>1. \A n, x \in Nat : [i \in 1 .. n |-> x] \in Seq(Nat)
        OBVIOUS
      <3>. QED  BY <2>1, <3>1 DEF Chunk, Image, Byte
    <2>3. buf' = Pushed(buf, ch)
      BY <1>1 DEF Write
    <2>. HIDE DEF ch
    <2>4. buf' \in Buffer /\ End(ch) \in Nat
      BY <1>0, <2>2, <2>3, OperationsType, EndType
    <2>5. /\ buf'.log = Append(buf.log, ch)
          /\ buf'.total = IF End(ch) > buf.total THEN End(ch) ELSE buf.total
      BY <1>0, <2>3 DEF Pushed, Buffer
    <2>6. ASSUME NEW k \in DOMAIN buf'.log
          PROVE  End(buf'.log[k]) <= buf'.total
      <3>1. buf'.log[k] = ch \/ (k \in DOMAIN buf.log /\ buf'.log[k] = buf.log[k])
        BY <1>0, <2>2, <2>5
      <3>. QED  BY <1>0, <2>4, <2>5, <3>1
    <2>. QED  BY <2>4, <2>6 DEF BufferOK, TypeOK
  <1>2. CASE SetComplete
    <2>1. buf' \in Buffer /\ buf'.log = buf.log /\ buf'.total = buf.total
      BY <1>0, <1>2, OperationsType DEF SetComplete, Completed, Buffer
    <2>. QED  BY <1>0, <2>1 DEF BufferOK, TypeOK
  <1>3. CASE Clear
    <2>1. buf' \in Buffer /\ buf'.log = <<>>
      BY <1>0, <1>3, OperationsType DEF Clear, Cleared, Buffer
    <2>2. DOMAIN <<>> = {}
      OBVIOUS
    <2>. QED  BY <2>1, <2>2 DEF BufferOK, TypeOK
  <1>4. CASE UNCHANGED buf
    BY <1>4 DEF BufferOK, TypeOK
  <1>. QED  BY <1>1, <1>2, <1>3, <1>4 DEF Next

\* In every buffer that writes, clears and marks can build, the loop of read_all
\* skips no chunk, and returns for every byte the last chunk that covers it.
THEOREM LoopAlways == Spec => []LoopIsReadAll
  <1>1. BufferOK => LoopIsReadAll
    BY LoopIs DEF BufferOK, TypeOK, LoopIsReadAll
  <1>. QED  BY <1>1, BufferInit, BufferNext, PTL DEF Spec

LEMMA RowReadsBack == TypeOK => InOrderReadsBack
  <1>. SUFFICES ASSUME TypeOK, WrittenInOrder, NEW k \in DOMAIN buf.log,
                       NEW count \in 0 .. buf.total + 1
                PROVE  ReadRange(buf, buf.log[k].off, count) =
                         [bytes |-> Slice(ReadAll(buf.log, buf.total), buf.log[k].off, count),
                          spins |-> FALSE]
    BY DEF InOrderReadsBack
  <1>. DEFINE log   == buf.log
              total == buf.total
              off   == log[k].off
              end   == Smaller(off + count, total)
              img   == ReadAll(log, total)
              f     == CHOOSE h : IsRange(log, end, h)
  <1>1. /\ log \in Seq(Chunk) /\ total \in Nat /\ log # <<>> /\ total = End(log[Len(log)])
        /\ InARow(log)
    BY DEF TypeOK, Buffer, WrittenInOrder, InARow
  <1>2. off \in Nat /\ count \in Nat /\ end \in 0 .. total
    BY <1>1, RowOrder DEF Smaller
  <1>3. img \in Seq(Byte) /\ Len(img) = total
    BY <1>1, ReadAllType DEF Image
  <1>4. Slice(img, off, count) = SubSeq(img, off + 1, end)
    BY <1>3 DEF Slice
  <1>5. ReadRange(buf, off, count) = IF off >= end THEN Nothing ELSE f[off]
    BY DEF ReadRange, IsRange, RangeTurn, Nothing
  <1>. HIDE DEF f, img, end
  <1>6. CASE off >= end
    <2>1. SubSeq(img, off + 1, end) = <<>>
      BY <1>2, <1>3, <1>6
    <2>. QED  BY <1>4, <1>5, <1>6, <2>1 DEF Nothing, img
  <1>7. CASE ~(off >= end)
    <2>1. off < end
      BY <1>2, <1>7
    <2>2. f[off] = [bytes |-> SubSeq(img, off + 1, end), spins |-> FALSE]
      <3>. HIDE DEF log, total
      <3>1. IsRange(log, end, f)
        <4>1. \E h : IsRange(log, end, h)
          BY <1>1, <1>2, RangeIs
        <4>. QED  BY <4>1, Zenon DEF f
      <3>2. k \in DOMAIN log
        BY DEF log
      <3>3. f[log[k].off] = [bytes |-> SubSeq(ReadAll(log, total), log[k].off + 1, end),
                             spins |-> FALSE]
        BY ZenonT(40), <1>1, <1>2, <2>1, <3>1, <3>2, RangeIs
      <3>. QED  BY <3>3 DEF img
    <2>. QED  BY <1>4, <1>5, <1>7, <2>2 DEF img
  <1>. QED  BY <1>6, <1>7

\* A file written in order reads back through read_range as through read_all, from
\* the start of every chunk and for every count, and the loop ends.
THEOREM ReadsBackAlways == Spec => []InOrderReadsBack
  <1>1. BufferOK => InOrderReadsBack
    BY RowReadsBack DEF BufferOK
  <1>. QED  BY <1>1, BufferInit, BufferNext, PTL DEF Spec
=============================================================================
