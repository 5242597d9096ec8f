------------------------- MODULE NamespaceIsolation -------------------------
(***************************************************************************)
(* The isolation of names in Namespace over Redis, for every set of names, *)
(* paths and tasks and every bound: IsolatedOK of NamespaceInvariant is    *)
(* inductive where no client renames a path onto itself or onto a          *)
(* directory that is not empty.  First come the paths, then what a step    *)
(* has to show of the paths that it writes so that all others stay as they *)
(* are, then the steps, one by one.                                        *)
(***************************************************************************)
EXTENDS NamespaceProofs

USE DEF KeyLabels

-----------------------------------------------------------------------------
(***************************************************************************)
(* Paths.                                                                  *)
(***************************************************************************)
LEMMA PrefixIs ==
  ASSUME NEW p \in Seq(Names), NEW q \in Seq(Names)
  PROVE  Prefix(p, q) <=> Len(p) <= Len(q) /\ \A i \in 1 .. Len(p) : q[i] = p[i]
  <1>1. ASSUME Len(p) <= Len(q)
        PROVE  /\ SubSeq(q, 1, Len(p)) \in Seq(Names)
               /\ Len(SubSeq(q, 1, Len(p))) = Len(p)
               /\ \A i \in 1 .. Len(p) : SubSeq(q, 1, Len(p))[i] = q[i]
    BY <1>1
  <1>2. ASSUME Len(p) <= Len(q), \A i \in 1 .. Len(p) : q[i] = p[i]
        PROVE  SubSeq(q, 1, Len(p)) = p
    <2>. DEFINE s == SubSeq(q, 1, Len(p))
    <2>1. s \in Seq(Names) /\ Len(s) = Len(p) /\ \A i \in 1 .. Len(s) : s[i] = p[i]
      BY <1>1, <1>2
    <2>. HIDE DEF s
    <2>2. s = p
      BY <2>1, SeqEqual
    <2>. QED  BY <2>2 DEF s
  <1>. QED  BY <1>1, <1>2 DEF Prefix

LEMMA PrefixTypes ==
  \A p \in Paths : p \in Seq(Names) /\ Len(p) \in Nat
  BY NamespaceAssumption, LenProperties

LEMMA PrefixRefl ==
  ASSUME NEW p \in Paths
  PROVE  Prefix(p, p)
  BY PrefixTypes, PrefixIs

LEMMA PrefixTrans ==
  ASSUME NEW p \in Paths, NEW q \in Paths, NEW r \in Paths, Prefix(p, q), Prefix(q, r)
  PROVE  Prefix(p, r)
  <1>1. /\ p \in Seq(Names) /\ q \in Seq(Names) /\ r \in Seq(Names)
        /\ Len(p) \in Nat /\ Len(q) \in Nat /\ Len(r) \in Nat
    BY PrefixTypes
  <1>2. /\ Len(p) <= Len(q) /\ \A i \in 1 .. Len(p) : q[i] = p[i]
        /\ Len(q) <= Len(r) /\ \A i \in 1 .. Len(q) : r[i] = q[i]
    BY <1>1, PrefixIs
  <1>3. Len(p) <= Len(r) /\ \A i \in 1 .. Len(p) : r[i] = p[i]
    BY <1>1, <1>2
  <1>. QED  BY <1>1, <1>3, PrefixIs

\* Two paths that lead to the same place are on one way.
LEMMA PrefixMeets ==
  ASSUME NEW p \in Paths, NEW q \in Paths, NEW r \in Paths, Prefix(p, r), Prefix(q, r)
  PROVE  Related(p, q)
  <1>1. /\ p \in Seq(Names) /\ q \in Seq(Names) /\ r \in Seq(Names)
        /\ Len(p) \in Nat /\ Len(q) \in Nat /\ Len(r) \in Nat
    BY PrefixTypes
  <1>2. /\ \A i \in 1 .. Len(p) : r[i] = p[i]
        /\ \A i \in 1 .. Len(q) : r[i] = q[i]
    BY <1>1, PrefixIs
  <1>3. CASE Len(p) <= Len(q)
    <2>1. \A i \in 1 .. Len(p) : q[i] = p[i]
      BY <1>1, <1>2, <1>3
    <2>. QED  BY <1>1, <1>3, <2>1, PrefixIs DEF Related
  <1>4. CASE Len(q) <= Len(p)
    <2>1. \A i \in 1 .. Len(q) : p[i] = q[i]
      BY <1>1, <1>2, <1>4
    <2>. QED  BY <1>1, <1>4, <2>1, PrefixIs DEF Related
  <1>. QED  BY <1>1, <1>3, <1>4

LEMMA PrefixRoot ==
  ASSUME NEW p \in Paths
  PROVE  <<>> \in Paths /\ Prefix(<<>>, p)
  <1>1. p \in Seq(Names) /\ Len(p) \in Nat /\ <<>> \in Seq(Names) /\ Len(<<>>) = 0
    BY PrefixTypes
  <1>. QED  BY <1>1, PrefixIs, NamespaceAssumption

\* The directory of a path.
LEMMA ParentIs ==
  ASSUME NEW p \in Paths, p # <<>>
  PROVE  /\ Parent(p) \in Paths /\ Len(Parent(p)) = Len(p) - 1 /\ Len(p) > 0
         /\ \A i \in 1 .. Len(p) - 1 : Parent(p)[i] = p[i]
         /\ Prefix(Parent(p), p) /\ ~Prefix(p, Parent(p)) /\ Parent(p) # p
  <1>1. p \in Seq(Names) /\ Len(p) \in Nat /\ Parent(p) \in Paths
    BY PrefixTypes, NamespaceAssumption
  <1>2. Len(p) > 0
    BY <1>1, EmptySeq
  <1>3. /\ Len(Parent(p)) = Len(p) - 1
        /\ \A i \in 1 .. Len(p) - 1 : Parent(p)[i] = p[i]
    <2>. DEFINE n == Len(p) - 1
    <2>1. n \in Int /\ 1 <= n + 1 /\ \A i \in 1 .. n : p[i] \in Names
      BY <1>1, <1>2
    <2>2. n - 1 + 1 = n /\ \A i \in 1 .. n : 1 + i - 1 = i
      BY <2>1
    <2>3. /\ Len(SubSeq(p, 1, n)) = IF 1 <= n THEN n - 1 + 1 ELSE 0
          /\ \A i \in 1 .. n - 1 + 1 : SubSeq(p, 1, n)[i] = p[1 + i - 1]
      <3>. HIDE DEF n
      <3>. QED  BY <2>1, SubSeqProperties
    <2>4. n \in Nat /\ \A k \in Nat : (IF 1 <= k THEN k - 1 + 1 ELSE 0) = k
      BY <1>1, <1>2
    <2>5. Len(SubSeq(p, 1, n)) = n
      <3>. HIDE DEF n
      <3>. QED  BY <2>3, <2>4
    <2>. QED  BY <2>2, <2>3, <2>5 DEF Parent
  <1>4. Parent(p) \in Seq(Names)
    BY <1>1, PrefixTypes
  <1>5. Prefix(Parent(p), p) /\ ~Prefix(p, Parent(p))
    BY <1>1, <1>2, <1>3, <1>4, PrefixIs
  <1>. QED  BY <1>1, <1>2, <1>3, <1>5

LEMMA ParentUnder ==
  ASSUME NEW p \in Paths, NEW q \in Paths, Prefix(p, q), p # q
  PROVE  q # <<>> /\ Prefix(p, Parent(q)) /\ Parent(q) \in Paths
  <1>1. p \in Seq(Names) /\ q \in Seq(Names) /\ Len(p) \in Nat /\ Len(q) \in Nat
    BY PrefixTypes
  <1>2. Len(p) <= Len(q) /\ \A i \in 1 .. Len(p) : q[i] = p[i]
    BY <1>1, PrefixIs
  <1>3. Len(p) # Len(q)
    BY <1>1, <1>2, SeqEqual
  <1>4. q # <<>>
    BY <1>1, <1>2, <1>3
  <1>5. Parent(q) \in Paths /\ Parent(q) \in Seq(Names)
    BY <1>4, ParentIs, PrefixTypes
  <1>6. Len(Parent(q)) = Len(q) - 1 /\ \A i \in 1 .. Len(q) - 1 : Parent(q)[i] = q[i]
    BY <1>4, ParentIs
  <1>7. Len(p) <= Len(Parent(q)) /\ \A i \in 1 .. Len(p) : Parent(q)[i] = p[i]
    BY <1>1, <1>2, <1>3, <1>6
  <1>. QED  BY <1>1, <1>4, <1>5, <1>7, PrefixIs

LEMMA ParentOfEntry ==
  ASSUME NEW d \in Paths, NEW n \in Names, Append(d, n) \in Paths
  PROVE  /\ Append(d, n) # <<>> /\ Parent(Append(d, n)) = d
  <1>. DEFINE p == Append(d, n)
  <1>1. d \in Seq(Names) /\ Len(d) \in Nat
    BY PrefixTypes
  <1>2. p \in Seq(Names) /\ Len(p) = Len(d) + 1 /\ \A i \in 1 .. Len(d) : p[i] = d[i]
    BY <1>1
  <1>. HIDE DEF p
  <1>3. p # <<>> /\ p \in Paths
    BY <1>1, <1>2 DEF p
  <1>4. /\ Parent(p) \in Seq(Names) /\ Len(Parent(p)) = Len(p) - 1
        /\ \A i \in 1 .. Len(p) - 1 : Parent(p)[i] = p[i]
    BY <1>3, ParentIs, PrefixTypes
  <1>5. Len(Parent(p)) = Len(d) /\ \A i \in 1 .. Len(Parent(p)) : Parent(p)[i] = d[i]
    BY <1>1, <1>2, <1>4
  <1>6. Parent(p) = d
    BY <1>1, <1>4, <1>5, SeqEqual
  <1>. QED  BY <1>3, <1>6 DEF p

\* A path below p, when p becomes to.
LEMMA MovedIs ==
  ASSUME NEW p \in Paths, NEW q \in Paths, NEW to \in Paths, Prefix(p, q)
  PROVE  /\ Moved(q, p, to) \in Seq(Names)
         /\ Len(Moved(q, p, to)) = Len(to) + (Len(q) - Len(p))
         /\ \A i \in 1 .. Len(to) : Moved(q, p, to)[i] = to[i]
         /\ \A i \in 1 .. Len(q) - Len(p) : Moved(q, p, to)[Len(to) + i] = q[Len(p) + i]
  <1>. DEFINE m == Len(p) + 1
              n == Len(q)
              rest == SubSeq(q, m, n)
  <1>1. /\ p \in Seq(Names) /\ q \in Seq(Names) /\ to \in Seq(Names)
        /\ Len(p) \in Nat /\ Len(q) \in Nat /\ Len(to) \in Nat
    BY PrefixTypes
  <1>2. Len(p) <= Len(q)
    BY <1>1, PrefixIs
  <1>3. m \in Int /\ n \in Int /\ \A i \in m .. n : q[i] \in Names
    BY <1>1, <1>2
  <1>4. /\ rest \in Seq(Names)
        /\ Len(rest) = IF m <= n THEN n - m + 1 ELSE 0
        /\ \A i \in 1 .. n - m + 1 : rest[i] = q[m + i - 1]
    <2>. HIDE DEF m, n
    <2>. QED  BY <1>3, SubSeqProperties
  <1>5. n - m + 1 = Len(q) - Len(p) /\ \A i \in 1 .. Len(q) - Len(p) : m + i - 1 = Len(p) + i
    BY <1>1, <1>2
  <1>6. Len(rest) = Len(q) - Len(p) /\ Len(q) - Len(p) \in Nat
    <2>1. (IF m <= n THEN n - m + 1 ELSE 0) = Len(q) - Len(p) /\ Len(q) - Len(p) \in Nat
      BY <1>1, <1>2
    <2>. HIDE DEF rest, m, n
    <2>. QED  BY <2>1, <1>4
  <1>7. \A i \in 1 .. Len(q) - Len(p) : rest[i] = q[Len(p) + i]
    <2>. HIDE DEF rest, m, n
    <2>. QED  BY <1>4, <1>5
  <1>. HIDE DEF rest
  <1>8. /\ to \o rest \in Seq(Names)
        /\ Len(to \o rest) = Len(to) + Len(rest)
        /\ \A i \in 1 .. Len(to) + Len(rest) :
             (to \o rest)[i] = IF i <= Len(to) THEN to[i] ELSE rest[i - Len(to)]
    BY <1>1, <1>4, ConcatProperties
  <1>9. Moved(q, p, to) = to \o rest
    BY DEF Moved, rest
  <1>10. \A i \in 1 .. Len(to) : (to \o rest)[i] = to[i]
    BY <1>1, <1>6, <1>8
  <1>11. \A i \in 1 .. Len(q) - Len(p) : (to \o rest)[Len(to) + i] = rest[i]
    BY <1>1, <1>6, <1>8
  <1>. QED  BY <1>6, <1>7, <1>8, <1>9, <1>10, <1>11

LEMMA MovedSelf ==
  ASSUME NEW p \in Paths, NEW to \in Paths
  PROVE  Moved(p, p, to) = to
  <1>1. p \in Seq(Names) /\ to \in Seq(Names) /\ Len(p) \in Nat /\ Len(to) \in Nat
    BY PrefixTypes
  <1>2. /\ Moved(p, p, to) \in Seq(Names) /\ Len(Moved(p, p, to)) = Len(to) + (Len(p) - Len(p))
        /\ \A i \in 1 .. Len(to) : Moved(p, p, to)[i] = to[i]
    BY PrefixRefl, MovedIs
  <1>3. Len(Moved(p, p, to)) = Len(to)
    BY <1>1, <1>2
  <1>. QED  BY <1>1, <1>2, <1>3, SeqEqual

LEMMA MovedPrefix ==
  ASSUME NEW p \in Paths, NEW q \in Paths, NEW to \in Paths, Prefix(p, q)
  PROVE  Prefix(to, Moved(q, p, to))
  <1>1. /\ to \in Seq(Names) /\ Len(to) \in Nat
        /\ Len(p) \in Nat /\ Len(q) \in Nat /\ Len(p) <= Len(q)
    BY PrefixTypes, PrefixIs
  <1>2. /\ Moved(q, p, to) \in Seq(Names)
        /\ Len(Moved(q, p, to)) = Len(to) + (Len(q) - Len(p))
        /\ \A i \in 1 .. Len(to) : Moved(q, p, to)[i] = to[i]
    BY MovedIs
  <1>3. Len(to) <= Len(Moved(q, p, to))
    BY <1>1, <1>2
  <1>. QED  BY <1>1, <1>2, <1>3, PrefixIs

LEMMA MovedInjective ==
  ASSUME NEW p \in Paths, NEW q \in Paths, NEW r \in Paths, NEW to \in Paths,
         Prefix(p, q), Prefix(p, r), Moved(q, p, to) = Moved(r, p, to)
  PROVE  q = r
  <1>1. /\ p \in Seq(Names) /\ q \in Seq(Names) /\ r \in Seq(Names)
        /\ Len(p) \in Nat /\ Len(q) \in Nat /\ Len(r) \in Nat /\ Len(to) \in Nat
    BY PrefixTypes
  <1>2. /\ Len(p) <= Len(q) /\ \A i \in 1 .. Len(p) : q[i] = p[i]
        /\ Len(p) <= Len(r) /\ \A i \in 1 .. Len(p) : r[i] = p[i]
    BY <1>1, PrefixIs
  <1>3. /\ Len(Moved(q, p, to)) = Len(to) + (Len(q) - Len(p))
        /\ \A i \in 1 .. Len(q) - Len(p) : Moved(q, p, to)[Len(to) + i] = q[Len(p) + i]
    BY MovedIs
  <1>4. /\ Len(Moved(r, p, to)) = Len(to) + (Len(r) - Len(p))
        /\ \A i \in 1 .. Len(r) - Len(p) : Moved(r, p, to)[Len(to) + i] = r[Len(p) + i]
    BY MovedIs
  <1>5. Len(q) = Len(r)
    BY <1>1, <1>3, <1>4
  <1>6. \A i \in 1 .. Len(q) - Len(p) : q[Len(p) + i] = r[Len(p) + i]
    BY <1>3, <1>4, <1>5
  <1>7. ASSUME NEW i \in 1 .. Len(q)
        PROVE  q[i] = r[i]
    <2>1. CASE i <= Len(p)
      BY <1>1, <1>2, <2>1
    <2>2. CASE i > Len(p)
      <3>1. i - Len(p) \in 1 .. Len(q) - Len(p) /\ Len(p) + (i - Len(p)) = i
        BY <1>1, <2>2
      <3>. QED  BY <1>6, <3>1
    <2>. QED  BY <1>1, <2>1, <2>2
  <1>. QED  BY <1>1, <1>5, <1>7, SeqEqual

LEMMA MovedParent ==
  ASSUME NEW p \in Paths, NEW q \in Paths, NEW to \in Paths, Prefix(p, q), p # q,
         Moved(q, p, to) \in Paths
  PROVE  /\ Moved(q, p, to) # <<>> /\ Prefix(p, Parent(q))
         /\ Parent(Moved(q, p, to)) = Moved(Parent(q), p, to)
  <1>. DEFINE n == Moved(q, p, to)
              m == Moved(Parent(q), p, to)
  <1>1. q # <<>> /\ Prefix(p, Parent(q)) /\ Parent(q) \in Paths
    BY ParentUnder
  <1>2. /\ Len(p) \in Nat /\ Len(q) \in Nat /\ Len(to) \in Nat
        /\ Len(p) <= Len(Parent(q)) /\ Len(Parent(q)) = Len(q) - 1
        /\ \A i \in 1 .. Len(q) - 1 : Parent(q)[i] = q[i]
    BY <1>1, ParentIs, PrefixTypes, PrefixIs
  <1>3. /\ n \in Seq(Names) /\ Len(n) = Len(to) + (Len(q) - Len(p))
        /\ \A i \in 1 .. Len(to) : n[i] = to[i]
        /\ \A i \in 1 .. Len(q) - Len(p) : n[Len(to) + i] = q[Len(p) + i]
    BY ZenonT(40), MovedIs
  <1>4. /\ m \in Seq(Names) /\ Len(m) = Len(to) + (Len(Parent(q)) - Len(p))
        /\ \A i \in 1 .. Len(to) : m[i] = to[i]
        /\ \A i \in 1 .. Len(Parent(q)) - Len(p) : m[Len(to) + i] = Parent(q)[Len(p) + i]
    BY ZenonT(40), <1>1, MovedIs
  <1>. HIDE DEF n, m
  <1>5. n # <<>>
    BY <1>2, <1>3
  <1>6. /\ Parent(n) \in Seq(Names) /\ Len(Parent(n)) = Len(n) - 1
        /\ \A i \in 1 .. Len(n) - 1 : Parent(n)[i] = n[i]
    BY <1>5, ParentIs, PrefixTypes DEF n
  <1>7. Len(Parent(n)) = Len(m)
    BY <1>2, <1>3, <1>4, <1>6
  <1>8. ASSUME NEW i \in 1 .. Len(Parent(n))
        PROVE  Parent(n)[i] = m[i]
    <2>1. Parent(n)[i] = n[i] /\ i \in 1 .. Len(n) - 1
      BY <1>6
    <2>2. CASE i <= Len(to)
      BY <1>2, <1>3, <1>4, <2>1, <2>2
    <2>3. CASE i > Len(to)
      <3>. DEFINE j == i - Len(to)
      <3>1. j \in 1 .. Len(Parent(q)) - Len(p) /\ Len(to) + j = i
        BY <1>2, <1>3, <2>1, <2>3
      <3>2. j \in 1 .. Len(q) - Len(p) /\ Len(p) + j \in 1 .. Len(q) - 1
        BY <1>2, <3>1
      <3>. HIDE DEF j
      <3>3. n[i] = q[Len(p) + j] /\ m[i] = Parent(q)[Len(p) + j]
        BY <1>3, <1>4, <3>1, <3>2
      <3>. QED  BY <1>2, <2>1, <3>2, <3>3
    <2>. QED  BY <1>2, <2>1, <2>2, <2>3
  <1>9. Parent(n) = m
    BY <1>4, <1>6, <1>7, <1>8, SeqEqual
  <1>. QED  BY <1>1, <1>5, <1>9 DEF n, m

-----------------------------------------------------------------------------
(***************************************************************************)
(* What requests cover.                                                    *)
(***************************************************************************)
LEMMA NamedPaths ==
  ASSUME ControlOK, NEW t \in Tasks
  PROVE  /\ Named(t) \subseteq Paths
         /\ pc[t] # "idle" => local[t].path \in Named(t)
         /\ local[t].to # None => local[t].to \in Named(t)
  <1>1. local[t] \in Locals /\ (pc[t] # "idle" => local[t].path \in Paths)
    BY DEF ControlOK, TypeOK, ControlOf
  <1>. QED  BY <1>1, NamespaceAssumption DEF Named, Locals

LEMMA CoversDown ==
  ASSUME ControlOK, NEW t \in Tasks, NEW p \in Paths, NEW q \in Paths,
         Covers(t, p), Prefix(p, q)
  PROVE  Covers(t, q)
  <1>1. PICK r \in Named(t) : Prefix(r, p)
    BY DEF Covers
  <1>2. r \in Paths
    BY NamedPaths
  <1>. QED  BY <1>1, <1>2, PrefixTrans DEF Covers

\* A request covers what it works on.
LEMMA CoversOwn ==
  ASSUME ControlOK, NEW t \in Tasks, pc[t] # "idle"
  PROVE  /\ local[t].path \in Paths
         /\ \A q \in AtOrBelow(local[t].path) : q \in Paths /\ Covers(t, q)
         /\ local[t].to # None =>
              local[t].to \in Paths /\ \A q \in AtOrBelow(local[t].to) : q \in Paths /\ Covers(t, q)
         /\ local[t].path \in AtOrBelow(local[t].path)
         /\ Covers(t, local[t].path)
  <1>1. local[t].path \in Named(t) /\ Named(t) \subseteq Paths
    BY NamedPaths
  <1>2. local[t].to # None => local[t].to \in Named(t)
    BY NamedPaths
  <1>. QED  BY <1>1, <1>2, PrefixRefl DEF AtOrBelow, Covers

LEMMA CoversOnly ==
  ASSUME ControlOK, NEW t \in Tasks, NEW p \in Paths, Covers(t, p)
  PROVE  \/ local[t].path \in Paths /\ p \in AtOrBelow(local[t].path)
         \/ local[t].to \in Paths /\ p \in AtOrBelow(local[t].to)
  <1>1. PICK r \in Named(t) : Prefix(r, p)
    BY DEF Covers
  <1>2. r \in Paths
    BY NamedPaths
  <1>. QED  BY <1>1, <1>2 DEF Named, AtOrBelow

\* What a request covers is intact as long as the request is clean.
LEMMA CoveredIntact ==
  ASSUME ControlOK, ApartOK, NEW t \in Tasks, NEW p \in Paths, Covers(t, p)
  PROVE  Clean(t) <=> Intact(p)
  <1>1. PICK r \in Named(t) : Prefix(r, p)
    BY DEF Covers
  <1>2. r \in Paths /\ tainted \subseteq Paths
    BY NamedPaths DEF ControlOK, TypeOK
  <1>3. ASSUME Clean(t)
        PROVE  Intact(p)
    <2>1. ASSUME NEW q \in tainted, Prefix(q, p)
          PROVE  FALSE
      <3>1. Related(q, r)
        BY <1>1, <1>2, <2>1, PrefixMeets
      <3>. QED  BY <1>3, <3>1 DEF Clean, Related
    <2>. QED  BY <2>1 DEF Intact
  <1>4. ASSUME ~Clean(t)
        PROVE  ~Intact(p)
    <2>1. r \in tainted
      BY <1>4 DEF ApartOK
    <2>. QED  BY <1>1, <2>1 DEF Intact
  <1>. QED  BY <1>3, <1>4

\* Two requests that cover a path are not clean.
LEMMA MeetingTaints ==
  ASSUME ControlOK, ApartOK, NEW t \in Tasks, NEW u \in Tasks, t # u,
         NEW p \in Paths, Covers(t, p), Covers(u, p)
  PROVE  ~Clean(t)
  <1>1. PICK r \in Named(t) : Prefix(r, p)
    BY DEF Covers
  <1>2. PICK s \in Named(u) : Prefix(s, p)
    BY DEF Covers
  <1>3. r \in Paths /\ s \in Paths
    BY NamedPaths
  <1>4. Related(r, s) /\ Related(r, r)
    BY <1>1, <1>2, <1>3, PrefixMeets, PrefixRefl DEF Related
  <1>5. r \in tainted
    BY <1>4 DEF ApartOK
  <1>. QED  BY <1>4, <1>5 DEF Clean

\* What is tied to a path is tied to all that the request at this path covers.
LEMMA TiedOver ==
  ASSUME ControlOK, ApartOK, NEW t \in Tasks, NEW p \in Paths, NEW o \in Paths,
         NEW q \in Paths, Covers(t, p), Covers(t, o), o = q \/ Tied(o, q)
  PROVE  Tied(p, q)
  <1>1. CASE o = q
    BY <1>1 DEF Tied
  <1>2. ASSUME NEW u \in Tasks, Covers(u, o), Covers(u, q)
        PROVE  Tied(p, q)
    <2>1. CASE u = t
      BY <1>2, <2>1 DEF Tied
    <2>2. CASE u # t
      <3>1. ~Clean(t) /\ ~Clean(u)
        BY <1>2, <2>2, MeetingTaints
      <3>. QED  BY <1>2, <3>1, CoveredIntact DEF Tied
    <2>. QED  BY <2>1, <2>2
  <1>3. CASE ~Intact(o) /\ ~Intact(q)
    <2>1. ~Clean(t)
      BY <1>3, CoveredIntact
    <2>. QED  BY <1>3, <2>1, CoveredIntact DEF Tied
  <1>. QED  BY <1>1, <1>2, <1>3 DEF Tied

LEMMA TiedBack ==
  ASSUME NEW p, NEW q, Tied(p, q)
  PROVE  Tied(q, p)
  BY DEF Tied

-----------------------------------------------------------------------------
(***************************************************************************)
(* The steps of a request that names the same paths as before, or ends.    *)
(***************************************************************************)
\* What is stored at p stays.
Kept(p) ==
  /\ p \in nodes' <=> p \in nodes
  /\ meta'[p] = meta[p] /\ data'[p] = data[p] /\ pathToId'[p] = pathToId[p]
  /\ p \in links' <=> p \in links

SameAt(p) == Kept(p) /\ \A i \in Ids : idToPath'[i] = p <=> idToPath[i] = p

\* An id that t gets from the counter.
Issues(t, i) ==
  Intact(<<>>) => Marks(i) = {} /\ (i <= nextId' \/ (i = 1 /\ FirstMount(t)'))

\* The step of t writes only what t covers, and ids that t has; it gets to have an id
\* of what it covers, or a new one.
Spares(t) ==
  /\ \A u \in Tasks \ {t} : pc'[u] = pc[u] /\ local'[u] = local[u]
  /\ tainted' = tainted
  /\ \A p \in Paths : ~Covers(t, p) => Kept(p)
  /\ \A i \in Ids, p \in Paths :
       /\ idToPath'[i] = p /\ idToPath[i] # p => Has(t, i) /\ Covers(t, p)
       /\ idToPath'[i] # p /\ idToPath[i] = p => Has(t, i)
       /\ pathToId'[p] = i => pathToId[p] = i \/ Has(t, i)
  /\ \A i \in Ids : Has(t, i)' =>
       \/ Has(t, i)
       \/ \E q \in Paths : Covers(t, q) /\ pathToId[q] = i
       \/ Issues(t, i)

\* The request goes on.
Goes(t) ==
  /\ Spares(t)
  /\ pc[t] # "idle" /\ pc'[t] # "idle"
  /\ local'[t].path = local[t].path /\ local'[t].to = local[t].to

\* A request that ends leaves what it covers sound.
Ends(t) ==
  /\ Spares(t)
  /\ pc[t] # "idle" /\ Finish(t)
  /\ Clean(t) => \A p \in Paths : Covers(t, p) => Sound(p)'

LEMMA OthersKeep ==
  ASSUME ControlOK, NEW t \in Tasks, NEW u \in Tasks \ {t}, Spares(t)
  PROVE  /\ Named(u)' = Named(u) /\ (Clean(u)' <=> Clean(u)) /\ (FirstMount(u)' <=> FirstMount(u))
         /\ \A p \in Paths : Covers(u, p)' <=> Covers(u, p)
         /\ \A i \in Ids : Has(u, i)' <=> Has(u, i)
  <1>1. pc'[u] = pc[u] /\ local'[u] = local[u] /\ tainted' = tainted
    BY DEF Spares
  <1>2. Named(u)' = Named(u)
    BY <1>1 DEF Named
  <1>3. Clean(u)' <=> Clean(u)
    BY <1>1, <1>2 DEF Clean
  <1>4. FirstMount(u)' <=> FirstMount(u)
    BY <1>1 DEF FirstMount
  <1>5. \A p \in Paths : Covers(u, p)' <=> Covers(u, p)
    BY <1>2 DEF Covers
  <1>6. \A i \in Ids : Has(u, i)' <=> Has(u, i)
    BY <1>1 DEF Has
  <1>. QED  BY <1>2, <1>3, <1>4, <1>5, <1>6

LEMMA GoerKeeps ==
  ASSUME ControlOK, NEW t \in Tasks, Goes(t)
  PROVE  /\ Named(t)' = Named(t) /\ (Clean(t)' <=> Clean(t))
         /\ \A p \in Paths : Covers(t, p)' <=> Covers(t, p)
  <1>1. local'[t].path = local[t].path /\ local'[t].to = local[t].to /\ tainted' = tainted
    BY DEF Goes, Spares
  <1>2. Named(t)' = Named(t)
    BY <1>1 DEF Named
  <1>3. Clean(t)' <=> Clean(t)
    BY <1>1, <1>2 DEF Clean
  <1>4. \A p \in Paths : Covers(t, p)' <=> Covers(t, p)
    BY <1>2 DEF Covers
  <1>. QED  BY <1>2, <1>3, <1>4

LEMMA EnderLeaves ==
  ASSUME ControlOK, NEW t \in Tasks, Finish(t)
  PROVE  /\ pc'[t] = "idle" /\ local'[t] = Blank
         /\ Named(t)' = {} /\ Clean(t)' /\ ~FirstMount(t)'
         /\ \A p \in Paths : ~Covers(t, p)'
         /\ \A i \in Ids : ~Has(t, i)'
  <1>1. pc'[t] = "idle" /\ local'[t] = Blank
    BY DEF Finish, ControlOK, TypeOK
  <1>2. Named(t)' = {}
    BY <1>1 DEF Named, Blank
  <1>3. \A i \in Ids : ~Has(t, i)'
    BY <1>1 DEF Has, HandLabels, EntryLabels, OldEntryLabels
  <1>. QED  BY <1>1, <1>2, <1>3 DEF Clean, Covers, FirstMount

\* Where an id is after a step.
LEMMA MarksFrom ==
  ASSUME ControlOK, NEW t \in Tasks, Spares(t), pc[t] # "idle",
         NEW i \in Ids, NEW p \in Marks(i)',
         Has(t, i)' => local'[t].path = local[t].path
  PROVE  \/ \E o \in Marks(i) : p = o \/ (Covers(t, p) /\ Covers(t, o))
         \/ Issues(t, i) /\ p = local[t].path
  <1>1. p \in Paths /\ i # None
    BY NamespaceAssumption DEF Marks, Ids
  <1>2. \A j \in Ids : Has(t, j) => local[t].path \in Marks(j) /\ Covers(t, local[t].path)
    BY CoversOwn DEF Marks
  <1>3. CASE pathToId'[p] = i
    <2>1. CASE pathToId[p] = i
      BY <1>1, <2>1 DEF Marks
    <2>2. CASE pathToId[p] # i
      <3>1. Has(t, i) /\ Covers(t, p)
        BY <1>1, <1>3, <2>2 DEF Spares, Kept
      <3>. QED  BY <1>2, <3>1
    <2>. QED  BY <2>1, <2>2
  <1>4. CASE idToPath'[i] = p
    <2>1. CASE idToPath[i] = p
      BY <1>1, <2>1 DEF Marks
    <2>2. CASE idToPath[i] # p
      <3>1. Has(t, i) /\ Covers(t, p)
        BY <1>1, <1>4, <2>2 DEF Spares
      <3>. QED  BY <1>2, <3>1
    <2>. QED  BY <2>1, <2>2
  <1>5. ASSUME NEW u \in Tasks, local'[u].path = p, Has(u, i)'
        PROVE  \/ \E o \in Marks(i) : p = o \/ (Covers(t, p) /\ Covers(t, o))
               \/ Issues(t, i) /\ p = local[t].path
    <2>1. CASE u # t
      <3>1. local[u].path = p /\ Has(u, i)
        BY <1>5, <2>1, OthersKeep DEF Spares
      <3>. QED  BY <1>1, <3>1 DEF Marks
    <2>2. CASE u = t
      <3>1. p = local[t].path /\ Covers(t, p)
        BY <1>5, <2>2, CoversOwn
      <3>2. CASE Has(t, i)
        BY <1>2, <3>1, <3>2
      <3>3. ASSUME NEW q \in Paths, Covers(t, q), pathToId[q] = i
            PROVE  \E o \in Marks(i) : p = o \/ (Covers(t, p) /\ Covers(t, o))
        <4>1. q \in Marks(i)
          BY <3>3 DEF Marks
        <4>. QED  BY <3>1, <3>3, <4>1
      <3>. QED  BY <1>5, <2>2, <3>1, <3>2, <3>3 DEF Spares
    <2>. QED  BY <2>1, <2>2
  <1>. QED  BY <1>1, <1>3, <1>4, <1>5 DEF Marks

\* An id is in one place after the step, or in what was tied before.
LEMMA OwnersFrom ==
  ASSUME ControlOK, IsolatedOK, NEW t \in Tasks, Spares(t), pc[t] # "idle",
         NEW i \in Ids, NEW p \in Marks(i)', NEW q \in Marks(i)',
         Has(t, i)' => local'[t].path = local[t].path
  PROVE  p = q \/ Tied(p, q)
  <1>1. p \in Paths /\ q \in Paths
    BY DEF Marks
  <1>2. CASE ~Intact(<<>>)
    <2>1. ~Intact(p) /\ ~Intact(q)
      <3>1. PICK r \in tainted : Prefix(r, <<>>)
        BY <1>2 DEF Intact
      <3>2. r \in Paths
        BY DEF ControlOK, TypeOK
      <3>. QED  BY <1>1, <3>1, <3>2, PrefixRoot, PrefixTrans DEF Intact
    <2>. QED  BY <2>1 DEF Tied
  <1>3. CASE Intact(<<>>) /\ Issues(t, i)
    <2>1. Marks(i) = {}
      BY <1>3 DEF Issues
    <2>. QED  BY <2>1, MarksFrom
  <1>4. CASE ~Issues(t, i)
    <2>1. PICK o \in Marks(i) : p = o \/ (Covers(t, p) /\ Covers(t, o))
      BY <1>4, MarksFrom
    <2>2. PICK n \in Marks(i) : q = n \/ (Covers(t, q) /\ Covers(t, n))
      BY <1>4, MarksFrom
    <2>3. o \in Paths /\ n \in Paths
      BY DEF Marks
    <2>4. o = n \/ Tied(o, n)
      BY DEF IsolatedOK, OwnersOK
    <2>5. p = n \/ Tied(p, n)
      BY <1>1, <2>1, <2>3, <2>4, TiedOver DEF IsolatedOK
    <2>6. n = p \/ Tied(n, p)
      BY <2>5, TiedBack
    <2>7. q = p \/ Tied(q, p)
      BY <1>1, <2>2, <2>3, <2>6, TiedOver DEF IsolatedOK
    <2>. QED  BY <2>7, TiedBack
  <1>. QED  BY <1>2, <1>3, <1>4

\* What is intact and not covered stays as it is.
LEMMA SteadyStays ==
  ASSUME ControlOK, IsolatedOK, NEW t \in Tasks, Spares(t), pc[t] # "idle",
         NEW p \in Paths, Intact(p), ~Covers(t, p)
  PROVE  SameAt(p)
  <1>1. ASSUME NEW i \in Ids, idToPath[i] = p, idToPath'[i] # p
        PROVE  FALSE
    <2>1. Has(t, i) /\ p \in Marks(i)
      BY <1>1 DEF Spares, Marks
    <2>2. local[t].path \in Marks(i) /\ Covers(t, local[t].path) /\ local[t].path \in Paths
      BY <2>1, CoversOwn DEF Marks
    <2>3. Tied(local[t].path, p)
      BY <2>1, <2>2 DEF IsolatedOK, OwnersOK
    <2>4. PICK u \in Tasks : Covers(u, local[t].path) /\ Covers(u, p)
      BY <2>3 DEF Tied
    <2>5. u # t
      BY <2>4
    <2>6. ~Clean(u)
      BY <2>2, <2>4, <2>5, MeetingTaints DEF IsolatedOK
    <2>. QED  BY <2>4, <2>6, CoveredIntact DEF IsolatedOK
  <1>2. ASSUME NEW i \in Ids, idToPath[i] # p, idToPath'[i] = p
        PROVE  FALSE
    BY <1>2 DEF Spares
  <1>3. Kept(p)
    BY DEF Spares
  <1>. QED  BY <1>1, <1>2, <1>3 DEF SameAt

-----------------------------------------------------------------------------
(***************************************************************************)
(* What a request that is not disturbed knows stays true.                  *)
(***************************************************************************)
LEMMA SoundSame ==
  ASSUME NEW p \in Paths, SameAt(p), p # <<>> => SameAt(Parent(p))
  PROVE  Sound(p) <=> Sound(p)'
  <1>1. Whole(p) <=> Whole(p)'
    BY DEF SameAt, Kept, Whole, Holds
  <1>2. p # <<>> => (DirAt(Parent(p)) <=> DirAt(Parent(p))')
    BY DEF SameAt, Kept, DirAt
  <1>3. p \in nodes <=> p \in nodes'
    BY DEF SameAt, Kept
  <1>. QED  BY <1>1, <1>2, <1>3 DEF Sound

\* All that is at or below p, and the directory that p is in.
SameOver(p) ==
  /\ \A q \in AtOrBelow(p) : SameAt(q)
  /\ p # <<>> => SameAt(Parent(p))

LEMMA SoundOver ==
  ASSUME NEW p \in Paths, SameOver(p), NEW q \in AtOrBelow(p)
  PROVE  /\ q \in Paths /\ SameAt(q) /\ (Sound(q) <=> Sound(q)')
         /\ q # p => Parent(q) \in AtOrBelow(p) /\ SameAt(Parent(q)) /\ q # <<>>
  <1>1. q \in Paths /\ Prefix(p, q) /\ SameAt(q)
    BY DEF AtOrBelow, SameOver
  <1>2. q # p => Parent(q) \in AtOrBelow(p) /\ q # <<>>
    BY <1>1, ParentUnder DEF AtOrBelow
  <1>3. q # <<>> => SameAt(Parent(q))
    BY <1>2 DEF SameOver
  <1>. QED  BY <1>1, <1>2, <1>3, SoundSame DEF SameOver

LEMMA HoldsSame ==
  ASSUME NEW p \in Paths, SameAt(p), NEW i
  PROVE  Holds(p, i) <=> Holds(p, i)'
  BY DEF SameAt, Kept, Holds

LEMMA CreatingSame ==
  ASSUME NEW p \in Paths, SameOver(p), NEW l, NEW i, Creating(l, p, i)
  PROVE  Creating(l, p, i)'
  <1>1. p \in AtOrBelow(p)
    BY PrefixRefl DEF AtOrBelow
  <1>2. SameAt(p) /\ (Sound(p) <=> Sound(p)')
    BY <1>1, SoundOver
  <1>3. \A q \in Under(p) : Sound(q)' /\ SameAt(q)
    BY SoundOver DEF Under, Creating
  <1>4. p # <<>> => DirAt(Parent(p))'
    BY DEF Creating, SameOver, SameAt, Kept, DirAt
  <1>5. \A j : Holds(p, j) <=> Holds(p, j)'
    BY <1>2, HoldsSame
  <1>6. l # "exists" => \A q \in Under(p) : Parent(q) = p => q \notin nodes'
    BY <1>3 DEF Creating, SameAt, Kept
  <1>7. l # "exists" =>
          /\ p \in nodes' <=> l \in {"hash", "link", "p2i", "i2p"}
          /\ pathToId'[p] = IF l = "i2p" THEN i ELSE None
          /\ \A j \in Ids : idToPath'[j] # p
          /\ l = "link" =>
               meta'[p] = [type |-> "link", id |-> i] /\ data'[p] = None /\ p \notin links'
    BY <1>2 DEF Creating, SameAt, Kept
  <1>8. l # "exists" /\ l # "link" =>
          Holds(p, IF l \in {"p2i", "i2p"} THEN i ELSE None)'
    BY <1>5 DEF Creating
  <1>9. l # "exists" /\ l \in HandLabels => \A q \in Under(p) : pathToId'[q] # i
    BY <1>3 DEF Creating, SameAt, Kept
  <1>. QED  BY <1>2, <1>3, <1>4, <1>6, <1>7, <1>8, <1>9 DEF Creating

LEMMA RemovingSame ==
  ASSUME NEW p \in Paths, SameOver(p), NEW l, NEW i, Removing(l, p, i)
  PROVE  Removing(l, p, i)'
  <1>1. p \in AtOrBelow(p)
    BY PrefixRefl DEF AtOrBelow
  <1>2. SameAt(p) /\ (Sound(p) <=> Sound(p)')
    BY <1>1, SoundOver
  <1>3. \A q \in Under(p) : Sound(q)' /\ (l # "scan" => q \notin nodes')
    BY SoundOver DEF Under, Removing, SameAt, Kept
  <1>4. \A j : Holds(p, j) <=> Holds(p, j)'
    BY <1>2, HoldsSame
  <1>5. l \notin {"scan", "getid"} => Holds(p, IF l \in {"zrem", "delete"} THEN i ELSE None)'
    BY <1>4 DEF Removing
  <1>6. l \notin {"scan", "getid"} =>
          /\ p \in nodes' <=> l = "zrem"
          /\ pathToId'[p] = IF l = "unid" THEN None ELSE i
          /\ \A j \in Ids : idToPath'[j] = p <=> j = i
    BY <1>2 DEF Removing, SameAt, Kept
  <1>. QED  BY <1>2, <1>3, <1>5, <1>6 DEF Removing

LEMMA AllSoundSame ==
  ASSUME NEW p \in Paths, SameOver(p), NEW i, AllSound(p, i)
  PROVE  AllSound(p, i)'
  <1>1. p \in AtOrBelow(p)
    BY PrefixRefl DEF AtOrBelow
  <1>2. pathToId'[p] = i
    BY <1>1, SoundOver DEF AllSound, SameAt, Kept
  <1>. QED  BY <1>2, SoundOver DEF AllSound

LEMMA RenamingSame ==
  ASSUME NEW r, r.path \in Paths, r.to \in Paths, r.name \in Names,
         SameOver(r.path), SameOver(r.to), nodes' \subseteq Paths,
         NEW l, Renaming(l, r)
  PROVE  Renaming(l, r)'
  <1>1. \A q \in AtOrBelow(r.path) \cup AtOrBelow(r.to) : Sound(q)' /\ SameAt(q)
    BY SoundOver DEF Renaming
  <1>2. ASSUME NEW q \in nodes', Below(q, r.to)
        PROVE  FALSE
    <2>1. q \in AtOrBelow(r.to)
      BY <1>2 DEF Below, AtOrBelow
    <2>2. q \in nodes
      BY <1>1, <2>1 DEF SameAt, Kept
    <2>. QED  BY <1>2, <2>2 DEF Renaming
  <1>3. PICK d \in Paths : r.to = Append(d, r.name) /\ pathToId[d] = r.dir /\ DirAt(d)
    BY DEF Renaming
  <1>4. Parent(r.to) = d /\ r.to # <<>>
    BY <1>3, ParentOfEntry
  <1>5. pathToId'[d] = r.dir /\ DirAt(d)'
    BY <1>3, <1>4 DEF SameOver, SameAt, Kept, DirAt
  <1>6. l = "target" => r.path \in nodes'
    <2>1. r.path \in AtOrBelow(r.path)
      BY PrefixRefl DEF AtOrBelow
    <2>. QED  BY <1>1, <2>1 DEF Renaming, SameAt, Kept
  <1>. QED  BY <1>1, <1>2, <1>3, <1>5, <1>6 DEF Renaming

\* Where a rename puts what it moves.
LEMMA NewPathIs ==
  ASSUME NEW p \in Paths, NEW to \in Paths, Fits(p, to), NEW q \in AtOrBelow(p)
  PROVE  /\ q \in Paths /\ Moved(q, p, to) \in Paths /\ Moved(q, p, to) \in AtOrBelow(to)
         /\ q # p => /\ Parent(q) \in AtOrBelow(p) /\ q # <<>> /\ Moved(q, p, to) # <<>>
                     /\ Parent(Moved(q, p, to)) = Moved(Parent(q), p, to)
         /\ \A r \in AtOrBelow(p) : Moved(q, p, to) = Moved(r, p, to) => q = r
         /\ ~Related(p, to) => \A r \in AtOrBelow(to) : q # r
  <1>1. q \in Paths /\ Prefix(p, q) /\ Moved(q, p, to) \in Paths
    BY DEF AtOrBelow, Fits
  <1>2. Moved(q, p, to) \in AtOrBelow(to)
    BY <1>1, MovedPrefix DEF AtOrBelow
  <1>3. q # p => /\ Parent(q) \in AtOrBelow(p) /\ q # <<>> /\ Moved(q, p, to) # <<>>
                 /\ Parent(Moved(q, p, to)) = Moved(Parent(q), p, to)
    BY <1>1, ParentUnder, MovedParent DEF AtOrBelow
  <1>4. \A r \in AtOrBelow(p) : Moved(q, p, to) = Moved(r, p, to) => q = r
    BY <1>1, MovedInjective DEF AtOrBelow
  <1>5. ~Related(p, to) => \A r \in AtOrBelow(to) : q # r
    BY <1>1, PrefixMeets DEF AtOrBelow
  <1>. QED  BY <1>1, <1>2, <1>3, <1>4, <1>5

LEMMA TreeSame ==
  ASSUME NEW r, r.path \in Paths, r.to \in Paths, r.to # <<>>, Fits(r.path, r.to),
         SameOver(r.to), NEW F, TreeOK(r, F)
  PROVE  TreeOK(r, F)'
  <1>1. DirAt(Parent(r.to))'
    BY DEF TreeOK, SameOver, SameAt, Kept, DirAt
  <1>. QED  BY <1>1 DEF TreeOK

LEMMA MovingSame ==
  ASSUME NEW r, r.path \in Paths, r.to \in Paths, r.to # <<>>, Fits(r.path, r.to),
         SameOver(r.path), SameOver(r.to), NEW l, NEW F, Moving(l, r, F)
  PROVE  Moving(l, r, F)'
  <1>. DEFINE new(q) == Moved(q, r.path, r.to)
  <1>1. ASSUME NEW q \in AtOrBelow(r.path)
        PROVE  OldAt(l, r, F, q)' /\ NewAt(l, r, F, q, new(q))'
    <2>1. OldAt(l, r, F, q) /\ NewAt(l, r, F, q, new(q))
      BY DEF Moving
    <2>2. SameAt(q) /\ SameAt(new(q)) /\ q \in Paths /\ new(q) \in Paths
      BY NewPathIs DEF SameOver
    <2>3. \A n \in Paths : \A i : SameAt(n) => (Holds(n, i) <=> Holds(n, i)')
      BY HoldsSame
    <2>. HIDE DEF new
    <2>4. OldAt(l, r, F, q)'
      BY <2>1, <2>2, <2>3 DEF OldAt, SameAt, Kept
    <2>5. NewAt(l, r, F, q, new(q))'
      BY <2>1, <2>2, <2>3 DEF NewAt, SameAt, Kept
    <2>. QED  BY <2>4, <2>5
  <1>2. ASSUME NEW n \in AtOrBelow(r.to), \A q \in AtOrBelow(r.path) : n # new(q)
        PROVE  Sound(n)' /\ n \notin nodes'
    <2>1. Sound(n) /\ n \notin nodes
      BY <1>2 DEF Moving
    <2>. QED  BY <2>1, SoundOver DEF SameAt, Kept
  <1>3. TreeOK(r, F)'
    BY TreeSame DEF Moving
  <1>4. ListsOK(l, r, F)' <=> ListsOK(l, r, F)
    OBVIOUS
  <1>. QED  BY <1>1, <1>2, <1>3, <1>4 DEF Moving

LEMMA HalfwaySame ==
  ASSUME NEW l, NEW r \in Locals, r.path \in Paths, SameOver(r.path),
         r.to # None => SameOver(r.to),
         l \in {"source", "target"} => r.to \in Paths /\ r.name \in Names,
         l \in MovingLabels => Fits(r.path, r.to), nodes' \subseteq Paths, HalfwayOf(l, r)
  PROVE  HalfwayOf(l, r)'
  <1>0. r.to # None <=> r.to \in Paths
    BY NamespaceAssumption DEF Locals
  <1>1. l \in CreateLabels \ {"incrput", "reset"} => Creating(l, r.path, r.id)'
    BY CreatingSame DEF HalfwayOf
  <1>2. l \in RemoveLabels => Removing(l, r.path, r.id)'
    BY RemovingSame DEF HalfwayOf
  <1>3. l \in {"reset", "put", "touch"} => AllSound(r.path, r.id)'
    BY AllSoundSame DEF HalfwayOf
  <1>4. l \in {"source", "target"} => Renaming(l, r)'
    BY <1>0, RenamingSame DEF HalfwayOf
  <1>5. ASSUME l \in MovingLabels
        PROVE  \E F \in [AtOrBelow(r.path) \cup AtOrBelow(r.to) -> Ids \cup {None}] :
                  Moving(l, r, F)'
    <2>1. PICK F \in [AtOrBelow(r.path) \cup AtOrBelow(r.to) -> Ids \cup {None}] :
                  Moving(l, r, F)
      BY <1>5 DEF HalfwayOf
    <2>2. r.to \in Paths /\ SameOver(r.to)
      BY <1>0, <1>5 DEF Fits
    <2>3. r.to # <<>>
      BY <2>1, PrefixRoot DEF Moving, Related
    <2>4. Moving(l, r, F)'
      BY <1>5, <2>1, <2>2, <2>3, MovingSame
    <2>. QED  BY <2>4
  <1>. QED  BY <1>1, <1>2, <1>3, <1>4, <1>5 DEF HalfwayOf

-----------------------------------------------------------------------------
(***************************************************************************)
(* The invariant, from what a step does with the request that takes it.    *)
(***************************************************************************)
\* The clean requests of the others have what they cover as it was.
LEMMA OthersSame ==
  ASSUME ControlOK, IsolatedOK, NEW t \in Tasks, Spares(t), pc[t] # "idle",
         NEW u \in Tasks \ {t}, Clean(u), pc[u] # "idle"
  PROVE  /\ SameOver(local[u].path)
         /\ local[u].to # None => SameOver(local[u].to)
  <1>1. ASSUME NEW p \in Paths, Covers(u, p)
        PROVE  SameOver(p)
    <2>1. ASSUME NEW q \in Paths, Prefix(q, p) \/ Prefix(p, q)
          PROVE  SameAt(q)
      <3>1. Intact(q)
        <4>1. CASE Prefix(p, q)
          BY <1>1, <4>1, CoversDown, CoveredIntact DEF IsolatedOK
        <4>2. CASE Prefix(q, p)
          <5>1. Intact(p) /\ tainted \subseteq Paths
            BY <1>1, CoveredIntact DEF IsolatedOK, ControlOK, TypeOK
          <5>. QED  BY <4>2, <5>1, PrefixTrans DEF Intact
        <4>. QED  BY <2>1, <4>1, <4>2
      <3>2. ~Covers(t, q)
        <4>1. ASSUME Covers(t, q)
              PROVE  \E r \in Paths : Covers(t, r) /\ Covers(u, r)
          BY <1>1, <2>1, <4>1, CoversDown
        <4>. QED  BY <4>1, MeetingTaints DEF IsolatedOK
      <3>. QED  BY <3>1, <3>2, SteadyStays
    <2>2. \A q \in AtOrBelow(p) : SameAt(q)
      BY <2>1 DEF AtOrBelow
    <2>3. p # <<>> => SameAt(Parent(p))
      BY <2>1, ParentIs
    <2>. QED  BY <2>2, <2>3 DEF SameOver
  <1>2. Covers(u, local[u].path) /\ local[u].path \in Paths
    BY CoversOwn
  <1>3. local[u].to # None => local[u].to \in Paths /\ Covers(u, local[u].to)
    BY CoversOwn, PrefixRefl DEF AtOrBelow
  <1>. QED  BY <1>1, <1>2, <1>3

\* What the other requests are at.
OtherDoings(t) ==
  \A u \in Tasks \ {t} : \A l \in {pc[u]}, r \in {local[u]} :
    /\ BearingsOf(l, r)
    /\ Clean(u) => HalfwayOf(l, r)
    /\ Clean(u) /\ FirstMount(u) => \A q \in Paths \ {<<>>} : q \notin nodes

OwnDoings(t) ==
  \A l \in {pc[t]}, r \in {local[t]} :
    /\ BearingsOf(l, r)
    /\ Clean(t) => HalfwayOf(l, r)
    /\ Clean(t) /\ FirstMount(t) => \A q \in Paths \ {<<>>} : q \notin nodes

LEMMA DoingsAre ==
  ASSUME NEW t \in Tasks
  PROVE  /\ DoingOK <=> OwnDoings(t) /\ OtherDoings(t)
         /\ DoingOK' <=> OwnDoings(t)' /\ OtherDoings(t)'
  BY DEF DoingOK, OwnDoings, OtherDoings

LEMMA IdleHalfway ==
  ASSUME NEW r
  PROVE  HalfwayOf("idle", r) /\ HalfwayOf("idle", r)'
  BY DEF HalfwayOf, CreateLabels, RemoveLabels, MovingLabels, NodeLabels, EntryLabels,
         OldEntryLabels

LEMMA OthersDo ==
  ASSUME ControlOK, ControlOK', IsolatedOK, NEW t \in Tasks, Spares(t), pc[t] # "idle"
  PROVE  OtherDoings(t)'
  <1>1. SUFFICES ASSUME NEW u \in Tasks \ {t}, NEW l \in {pc'[u]}, NEW r \in {local'[u]}
                 PROVE  /\ BearingsOf(l, r)
                        /\ Clean(u)' => HalfwayOf(l, r)'
                        /\ Clean(u)' /\ FirstMount(u)' =>
                             \A q \in Paths \ {<<>>} : q \notin nodes'
    BY DEF OtherDoings
  <1>2. l = pc[u] /\ r = local[u] /\ r \in Locals /\ l \in Labels
    BY DEF Spares, ControlOK, TypeOK
  <1>3. /\ BearingsOf(l, r)
        /\ Clean(u) => HalfwayOf(l, r)
        /\ Clean(u) /\ FirstMount(u) => \A q \in Paths \ {<<>>} : q \notin nodes
    BY <1>2 DEF IsolatedOK, DoingOK
  <1>4. (Clean(u)' <=> Clean(u)) /\ (FirstMount(u)' <=> FirstMount(u))
    BY OthersKeep
  <1>5. ASSUME Clean(u), l # "idle"
        PROVE  HalfwayOf(l, r)'
    <2>1. ControlOf(l, r)
      BY <1>2 DEF ControlOK
    <2>2. r.path \in Paths /\ SameOver(r.path) /\ (r.to # None => SameOver(r.to))
      BY <1>2, <1>5, <2>1, OthersSame DEF ControlOf
    <2>3. l \in {"source", "target"} => r.to \in Paths /\ r.name \in Names
      <3>1. l \in {"source", "target"} => r.to \in Paths
        BY <1>3, <1>5 DEF HalfwayOf, Renaming
      <3>. QED  BY <2>1, <3>1 DEF ControlOf
    <2>4. nodes' \subseteq Paths /\ (l \in MovingLabels => Fits(r.path, r.to))
      BY <2>1 DEF ControlOK, TypeOK, ControlOf
    <2>. QED  BY <1>2, <1>3, <1>5, <2>2, <2>3, <2>4, HalfwaySame
  <1>6. ASSUME Clean(u), FirstMount(u), NEW q \in Paths \ {<<>>}
        PROVE  q \notin nodes'
    <2>1. l # "idle" /\ r.op = "mount"
      BY <1>2, <1>6 DEF FirstMount
    <2>2. r.path = <<>>
      BY <1>3, <2>1 DEF BearingsOf
    <2>3. SameAt(q)
      <3>1. SameOver(<<>>)
        BY <1>2, <1>6, <2>1, <2>2, OthersSame
      <3>. QED  BY <3>1, PrefixRoot DEF SameOver, AtOrBelow
    <2>. QED  BY <1>3, <1>6, <2>3 DEF SameAt, Kept
  <1>. QED  BY <1>3, <1>4, <1>5, <1>6, IdleHalfway

\* Either way the names stay apart, and the ids and paths are accounted for.
LEMMA SpareApart ==
  ASSUME ControlOK, IsolatedOK, NEW t \in Tasks, Spares(t), pc[t] # "idle",
         Named(t)' \in {Named(t), {}}
  PROVE  ApartOK'
  <1>1. \A u \in Tasks \ {t} : Named(u)' = Named(u) /\ (Clean(u)' <=> Clean(u))
    BY OthersKeep
  <1>2. \A u \in Tasks : Named(u)' \subseteq Named(u)
    BY <1>1
  <1>3. tainted' = tainted
    BY DEF Spares
  <1>4. ASSUME NEW u \in Tasks
        PROVE  Clean(u)' \/ Named(u)' \subseteq tainted'
    <2>1. Clean(u) \/ Named(u) \subseteq tainted
      BY DEF IsolatedOK, ApartOK
    <2>2. Clean(u) => Clean(u)'
      BY <1>2, <1>3 DEF Clean
    <2>. QED  BY <1>2, <1>3, <2>1, <2>2
  <1>5. ASSUME NEW u \in Tasks, NEW v \in Tasks \ {u}, NEW p \in Named(u)', NEW q \in Named(v)',
               Related(p, q)
        PROVE  p \in tainted'
    BY <1>2, <1>3, <1>5 DEF IsolatedOK, ApartOK
  <1>. QED  BY <1>4, <1>5 DEF ApartOK

LEMMA FreshKept ==
  ASSUME ControlOK, ControlOK', IsolatedOK, NEW t \in Tasks, Spares(t), pc[t] # "idle",
         pc'[t] # "idle" => local'[t].path = local[t].path,
         nextId' >= nextId, FirstMount(t) => FirstMount(t)'
  PROVE  FreshOK'
  <1>1. SUFFICES ASSUME Intact(<<>>)', NEW i \in Ids, NEW p \in Marks(i)'
                 PROVE  i <= nextId' \/ (i = 1 /\ \E u \in Tasks : FirstMount(u)')
    BY DEF FreshOK
  <1>2. Intact(<<>>)
    BY <1>1 DEF Spares, Intact
  <1>3. Has(t, i)' => local'[t].path = local[t].path
    BY DEF Has, HandLabels, EntryLabels, OldEntryLabels
  <1>4. \A u \in Tasks : FirstMount(u) => FirstMount(u)'
    BY OthersKeep
  <1>5. CASE \E o \in Marks(i) : TRUE
    <2>1. i <= nextId \/ (i = 1 /\ \E u \in Tasks : FirstMount(u))
      BY <1>2, <1>5 DEF IsolatedOK, FreshOK
    <2>2. i \in Nat /\ nextId \in Nat /\ nextId' \in Nat
      BY NamespaceAssumption DEF Ids, ControlOK, TypeOK
    <2>. QED  BY <1>4, <2>1, <2>2
  <1>6. CASE Issues(t, i)
    BY <1>2, <1>6 DEF Issues
  <1>. QED  BY <1>3, <1>5, <1>6, MarksFrom

LEMMA IntactAbove ==
  ASSUME ControlOK, NEW p \in Paths, Intact(p), NEW q \in Paths, Prefix(q, p)
  PROVE  Intact(q)
  <1>1. tainted \subseteq Paths
    BY DEF ControlOK, TypeOK
  <1>. QED  BY <1>1, PrefixTrans DEF Intact

\* What is neither covered nor left half done stays sound.
LEMMA SteadySound ==
  ASSUME ControlOK, IsolatedOK, NEW t \in Tasks, Spares(t), pc[t] # "idle",
         NEW p \in Paths, Intact(p), \A u \in Tasks : ~Covers(u, p)
  PROVE  Sound(p)'
  <1>1. SameAt(p)
    BY SteadyStays
  <1>2. ASSUME p # <<>>
        PROVE  SameAt(Parent(p))
    <2>1. Parent(p) \in Paths /\ Prefix(Parent(p), p)
      BY <1>2, ParentIs
    <2>2. Intact(Parent(p)) /\ ~Covers(t, Parent(p))
      BY <2>1, IntactAbove, CoversDown
    <2>. QED  BY <2>1, <2>2, SteadyStays
  <1>3. Sound(p)
    BY DEF IsolatedOK, QuietOK
  <1>. QED  BY <1>1, <1>2, <1>3, SoundSame

LEMMA GoesIsolated ==
  ASSUME ControlOK, ControlOK', IsolatedOK, NEW t \in Tasks, Goes(t),
         nextId' >= nextId, FirstMount(t) => FirstMount(t)', OwnDoings(t)'
  PROVE  IsolatedOK'
  <1>1. Spares(t) /\ pc[t] # "idle" /\ local'[t].path = local[t].path /\ tainted' = tainted
    BY DEF Goes, Spares
  <1>2. /\ \A u \in Tasks : \A p \in Paths : Covers(u, p)' <=> Covers(u, p)
        /\ \A p : Intact(p)' <=> Intact(p)
    BY <1>1, OthersKeep, GoerKeeps DEF Intact
  <1>3. ApartOK'
    BY <1>1, GoerKeeps, SpareApart
  <1>4. FreshOK'
    BY <1>1, FreshKept
  <1>5. OwnersOK'
    <2>1. SUFFICES ASSUME NEW i \in Ids, NEW p \in Marks(i)', NEW q \in Marks(i)'
                   PROVE  p = q \/ Tied(p, q)'
      BY DEF OwnersOK
    <2>2. p = q \/ Tied(p, q)
      BY <1>1, OwnersFrom
    <2>3. p \in Paths /\ q \in Paths
      BY DEF Marks
    <2>. QED  BY <1>2, <2>2, <2>3 DEF Tied
  <1>6. QuietOK'
    BY <1>1, <1>2, SteadySound DEF QuietOK
  <1>7. DoingOK'
    BY <1>1, OthersDo, DoingsAre
  <1>. QED  BY <1>3, <1>4, <1>5, <1>6, <1>7 DEF IsolatedOK

LEMMA EndsIsolated ==
  ASSUME ControlOK, ControlOK', IsolatedOK, NEW t \in Tasks, Ends(t), FreshOK'
  PROVE  IsolatedOK'
  <1>1. Spares(t) /\ pc[t] # "idle" /\ Finish(t) /\ tainted' = tainted
    BY DEF Ends, Spares
  <1>2. /\ \A u \in Tasks \ {t} : \A p \in Paths : Covers(u, p)' <=> Covers(u, p)
        /\ \A p : Intact(p)' <=> Intact(p)
    BY <1>1, OthersKeep DEF Intact
  <1>3. ApartOK'
    BY <1>1, EnderLeaves, SpareApart
  <1>4. ASSUME Clean(t), NEW i \in Ids, NEW p \in Marks(i)', Covers(t, p)
        PROVE  idToPath'[i] = p
    <2>1. p \in Paths
      BY DEF Marks
    <2>2. Sound(p)'
      BY <1>4, <2>1 DEF Ends
    <2>3. ASSUME NEW u \in Tasks, local'[u].path = p, Has(u, i)'
          PROVE  FALSE
      <3>1. u # t
        BY <1>1, <2>3, EnderLeaves
      <3>2. pc[u] # "idle" /\ local[u].path = p
        BY <1>1, <2>3, <3>1 DEF Spares, Has, HandLabels, EntryLabels, OldEntryLabels
      <3>3. Covers(u, p)
        BY <3>2, CoversOwn
      <3>. QED  BY <1>4, <2>1, <3>1, <3>3, MeetingTaints DEF IsolatedOK
    <2>4. pathToId'[p] = i \/ idToPath'[i] = p
      BY <2>3 DEF Marks
    <2>. QED  BY <2>2, <2>4 DEF Sound, Whole
  <1>5. OwnersOK'
    <2>1. SUFFICES ASSUME NEW i \in Ids, NEW p \in Marks(i)', NEW q \in Marks(i)', p # q
                   PROVE  Tied(p, q)'
      BY DEF OwnersOK
    <2>2. ~Has(t, i)'
      BY <1>1, EnderLeaves
    <2>3. Tied(p, q)
      BY <1>1, <2>1, <2>2, OwnersFrom
    <2>4. p \in Paths /\ q \in Paths
      BY DEF Marks
    <2>5. ASSUME Covers(t, p), Covers(t, q)
          PROVE  ~Intact(p) /\ ~Intact(q)
      <3>1. ~Clean(t)
        BY <1>4, <2>1, <2>5
      <3>. QED  BY <2>4, <2>5, <3>1, CoveredIntact DEF IsolatedOK
    <2>. QED  BY <1>2, <2>3, <2>4, <2>5 DEF Tied
  <1>6. QuietOK'
    <2>1. SUFFICES ASSUME NEW p \in Paths, Intact(p)', \A u \in Tasks : ~Covers(u, p)'
                   PROVE  Sound(p)'
      BY DEF QuietOK
    <2>2. Intact(p) /\ \A u \in Tasks \ {t} : ~Covers(u, p)
      BY <1>2, <2>1
    <2>3. CASE Covers(t, p)
      <3>1. Clean(t)
        BY <2>2, <2>3, CoveredIntact DEF IsolatedOK
      <3>. QED  BY <2>3, <3>1 DEF Ends
    <2>4. CASE ~Covers(t, p)
      BY <1>1, <2>2, <2>4, SteadySound
    <2>. QED  BY <2>3, <2>4
  <1>7. DoingOK'
    <2>1. OwnDoings(t)'
      <3>1. pc'[t] = "idle" /\ local'[t] = Blank /\ ~FirstMount(t)'
        BY <1>1, EnderLeaves
      <3>2. BearingsOf("idle", Blank)
        BY NamespaceAssumption DEF BearingsOf, Blank, Ops
      <3>. QED  BY <3>1, <3>2, IdleHalfway DEF OwnDoings
    <2>. QED  BY <1>1, <2>1, OthersDo, DoingsAre
  <1>. QED  BY <1>3, <1>5, <1>6, <1>7 DEF IsolatedOK

-----------------------------------------------------------------------------
(***************************************************************************)
(* The steps that leave the store alone, and taint paths.                  *)
(***************************************************************************)
Relabels ==
  /\ UNCHANGED store
  /\ tainted \subseteq tainted'
  /\ \A u \in Tasks : \A i \in Ids :
       Has(u, i)' => Has(u, i) /\ local'[u].path = local[u].path
  /\ \A u \in Tasks :
       \/ \A p \in Paths : Covers(u, p) => Covers(u, p)'
       \/ \A p \in Paths : Covers(u, p) => ~Intact(p)'
  /\ \A u \in Tasks : FirstMount(u) => FirstMount(u)' \/ ~Intact(<<>>)'

LEMMA StoreSame ==
  ASSUME UNCHANGED store
  PROVE  \A p : SameAt(p)
  BY DEF SameAt, Kept, store, hashes, index

LEMMA RelabelsKeep ==
  ASSUME ControlOK, IsolatedOK, Relabels
  PROVE  OwnersOK' /\ FreshOK' /\ QuietOK'
  <1>1. ASSUME NEW i \in Ids, NEW p \in Marks(i)'
        PROVE  p \in Marks(i)
    BY <1>1 DEF Marks, Relabels, store, hashes, index
  <1>2. ASSUME NEW p \in Paths, Intact(p)'
        PROVE  Intact(p)
    BY <1>2 DEF Intact, Relabels
  <1>3. OwnersOK'
    <2>1. SUFFICES ASSUME NEW i \in Ids, NEW p \in Marks(i)', NEW q \in Marks(i)', p # q
                   PROVE  Tied(p, q)'
      BY DEF OwnersOK
    <2>2. Tied(p, q)
      BY <1>1, <2>1 DEF IsolatedOK, OwnersOK
    <2>3. p \in Paths /\ q \in Paths
      BY DEF Marks
    <2>. QED  BY <1>2, <2>2, <2>3 DEF Tied, Relabels
  <1>4. FreshOK'
    <2>1. nextId' = nextId
      BY DEF Relabels, store
    <2>2. <<>> \in Paths
      BY NamespaceAssumption
    <2>3. SUFFICES ASSUME Intact(<<>>)', NEW i \in Ids, NEW p \in Marks(i)'
                   PROVE  i <= nextId \/ (i = 1 /\ \E t \in Tasks : FirstMount(t)')
      BY <2>1 DEF FreshOK
    <2>4. i <= nextId \/ (i = 1 /\ \E t \in Tasks : FirstMount(t))
      BY <1>1, <1>2, <2>2, <2>3 DEF IsolatedOK, FreshOK
    <2>. QED  BY <2>3, <2>4 DEF Relabels
  <1>5. QuietOK'
    <2>1. SUFFICES ASSUME NEW p \in Paths, Intact(p)', \A u \in Tasks : ~Covers(u, p)'
                   PROVE  Sound(p)'
      BY DEF QuietOK
    <2>2. \A u \in Tasks : ~Covers(u, p)
      BY <2>1 DEF Relabels
    <2>3. Sound(p)
      BY <1>2, <2>1, <2>2 DEF IsolatedOK, QuietOK
    <2>. QED  BY <2>3, StoreSame, SoundSame DEF Relabels
  <1>. QED  BY <1>3, <1>4, <1>5

LEMMA StoreHalfway ==
  ASSUME UNCHANGED store, ControlOK', NEW l, NEW r \in Locals, ControlOf(l, r), HalfwayOf(l, r)
  PROVE  HalfwayOf(l, r)'
  <1>1. CASE l = "idle"
    BY <1>1, IdleHalfway
  <1>2. CASE l # "idle"
    <2>1. \A p : SameAt(p) /\ SameOver(p)
      BY StoreSame DEF SameOver
    <2>2. l \in {"source", "target"} => r.to \in Paths /\ r.name \in Names
      BY DEF HalfwayOf, Renaming, ControlOf
    <2>3. r.path \in Paths /\ nodes' \subseteq Paths
      BY <1>2 DEF ControlOf, ControlOK, TypeOK
    <2>4. l \in MovingLabels => Fits(r.path, r.to)
      BY DEF ControlOf
    <2>. QED  BY <2>1, <2>2, <2>3, <2>4, HalfwaySame
  <1>. QED  BY <1>1, <1>2

\* The tasks that such a step does not move.
LEMMA BystandersDo ==
  ASSUME ControlOK, ControlOK', IsolatedOK, UNCHANGED store, tainted \subseteq tainted',
         NEW t \in Tasks, \A u \in Tasks \ {t} : pc'[u] = pc[u] /\ local'[u] = local[u]
  PROVE  OtherDoings(t)'
  <1>1. SUFFICES ASSUME NEW u \in Tasks \ {t}, NEW l \in {pc'[u]}, NEW r \in {local'[u]}
                 PROVE  /\ BearingsOf(l, r)
                        /\ Clean(u)' => HalfwayOf(l, r)'
                        /\ Clean(u)' /\ FirstMount(u)' =>
                             \A q \in Paths \ {<<>>} : q \notin nodes'
    BY DEF OtherDoings
  <1>2. /\ l = pc[u] /\ r = local[u] /\ r \in Locals /\ ControlOf(l, r)
        /\ pc'[u] = pc[u] /\ local'[u] = local[u]
    BY DEF ControlOK, TypeOK
  <1>3. /\ BearingsOf(l, r)
        /\ Clean(u) => HalfwayOf(l, r)
        /\ Clean(u) /\ FirstMount(u) => \A q \in Paths \ {<<>>} : q \notin nodes
    BY <1>2 DEF IsolatedOK, DoingOK
  <1>4. FirstMount(u)' => FirstMount(u)
    BY <1>2 DEF FirstMount
  <1>5. Clean(u)' => Clean(u)
    BY <1>2 DEF Clean, Named
  <1>6. nodes' = nodes
    BY DEF store, index
  <1>7. HalfwayOf(l, r) => HalfwayOf(l, r)'
    BY <1>2, StoreHalfway
  <1>. QED  BY <1>3, <1>4, <1>5, <1>6, <1>7

\* What is said of the names that a request is about to name.
LEMMA ClaimApart ==
  ASSUME ControlOK, ControlOK', IsolatedOK, NEW t \in Tasks, NEW P \in SUBSET Paths,
         Claim(t, P), \A u \in Tasks \ {t} : pc'[u] = pc[u] /\ local'[u] = local[u],
         Named(t)' \subseteq Named(t) \cup P, Named(t)' # {}
  PROVE  /\ ApartOK' /\ tainted \subseteq tainted'
         /\ Clean(t)' => /\ Clean(t) /\ tainted' = tainted
                         /\ \A p \in Named(t)', q \in Paths : Related(p, q) =>
                              Intact(q) /\ \A u \in Tasks \ {t} : ~Covers(u, q)
         /\ ~Clean(t)' => Named(t) \cup P \subseteq tainted'
  <1>. DEFINE met   == {u \in Tasks \ {t} : \E p \in P, q \in Named(u) : Related(p, q)}
              names == Named(t) \cup P
              meets == met # {} \/ \E r \in names, q \in tainted : Related(r, q)
              more  == names \cup UNION {Named(u) : u \in met}
  <1>1. tainted' = IF meets THEN tainted \cup more ELSE tainted
    BY DEF Claim
  <1>2. /\ \A u \in Tasks \ {t} : Named(u)' = Named(u)
        /\ \A u \in Tasks : Named(u) \subseteq Paths /\ Named(u)' \subseteq Paths
        /\ tainted \subseteq Paths
    <2>1. \A u \in Tasks \ {t} : Named(u)' = Named(u)
      BY DEF Named
    <2>2. \A u \in Tasks : Named(u) \subseteq Paths /\ Named(u)' \subseteq Paths
      BY <2>1, NamedPaths
    <2>. QED  BY <2>1, <2>2 DEF ControlOK, TypeOK
  <1>3. \A p, q : Related(p, q) => Related(q, p)
    BY DEF Related
  <1>4. \A p \in Paths : Related(p, p)
    BY PrefixRefl DEF Related
  <1>5. /\ \A u \in Tasks : Clean(u) \/ Named(u) \subseteq tainted
        /\ \A u, v \in Tasks : u # v =>
             \A p \in Named(u), q \in Named(v) : Related(p, q) => p \in tainted /\ q \in tainted
    BY <1>3 DEF IsolatedOK, ApartOK
  <1>6. \A u \in Tasks : Clean(u) => \A p \in Named(u) : p \notin tainted
    BY <1>2, <1>4 DEF Clean
  <1>. HIDE DEF meets, met
  <1>7. CASE ~meets
    <2>1. tainted' = tainted
      BY <1>1, <1>7
    <2>2. \A r \in names, q \in tainted : ~Related(r, q)
      BY <1>7 DEF meets
    <2>3. \A u \in Tasks \ {t} : \A p \in P, q \in Named(u) : ~Related(p, q)
      BY <1>7 DEF meets, met
    <2>4. \A p \in Named(t) : p \notin tainted
      BY <1>2, <1>4, <2>2
    <2>5. \A u \in Tasks \ {t} : \A p \in names, q \in Named(u) : ~Related(p, q)
      BY <1>5, <2>3, <2>4
    <2>6. Clean(t)' /\ Clean(t)
      BY <2>1, <2>2 DEF Clean
    <2>7. ApartOK'
      <3>1. ASSUME NEW u \in Tasks
            PROVE  Clean(u)' \/ Named(u)' \subseteq tainted'
        <4>1. CASE u = t
          BY <2>6, <4>1
        <4>2. CASE u # t
          BY <1>2, <1>5, <2>1, <4>2 DEF Clean
        <4>. QED  BY <4>1, <4>2
      <3>2. ASSUME NEW u \in Tasks, NEW v \in Tasks \ {u}, NEW p \in Named(u)',
                   NEW q \in Named(v)', Related(p, q)
            PROVE  p \in tainted'
        <4>1. CASE u = t
          BY <1>2, <2>5, <3>2, <4>1
        <4>2. CASE v = t
          BY <1>2, <1>3, <2>5, <3>2, <4>2
        <4>3. CASE u # t /\ v # t
          BY <1>2, <1>5, <2>1, <3>2, <4>3
        <4>. QED  BY <4>1, <4>2, <4>3
      <3>. QED  BY <3>1, <3>2 DEF ApartOK
    <2>8. ASSUME NEW p \in Named(t)', NEW q \in Paths, Related(p, q)
          PROVE  Intact(q) /\ \A u \in Tasks \ {t} : ~Covers(u, q)
      <3>1. ASSUME NEW r \in Paths, Prefix(r, q)
            PROVE  Related(p, r)
        <4>1. CASE Prefix(p, q)
          BY <1>2, <3>1, <4>1, PrefixMeets
        <4>2. CASE Prefix(q, p)
          BY <1>2, <3>1, <4>2, PrefixTrans DEF Related
        <4>. QED  BY <2>8, <4>1, <4>2 DEF Related
      <3>2. Intact(q)
        BY <1>2, <2>2, <3>1 DEF Intact
      <3>3. ASSUME NEW u \in Tasks \ {t}, Covers(u, q)
            PROVE  FALSE
        BY <1>2, <2>5, <3>1, <3>3 DEF Covers
      <3>. QED  BY <3>2, <3>3
    <2>. QED  BY <2>1, <2>6, <2>7, <2>8
  <1>8. CASE meets
    <2>1. tainted' = tainted \cup more /\ names \subseteq tainted' /\ tainted \subseteq tainted'
      BY <1>1, <1>8
    <2>2. \A u \in met : Named(u) \subseteq tainted' /\ u \in Tasks \ {t}
      BY <2>1 DEF met
    <2>3. ~Clean(t)'
      <3>1. PICK p \in Named(t)' : TRUE
        OBVIOUS
      <3>2. p \in Paths /\ p \in tainted'
        BY <1>2, <2>1
      <3>. QED  BY <1>4, <3>2 DEF Clean
    <2>4. ASSUME NEW u \in Tasks
          PROVE  Clean(u)' \/ Named(u)' \subseteq tainted'
      <3>1. CASE u = t
        BY <2>1, <3>1
      <3>2. CASE u \in met
        BY <1>2, <2>2, <3>2
      <3>3. CASE u # t /\ u \notin met /\ Clean(u)
        <4>1. ASSUME NEW p \in Named(u), NEW q \in tainted', Related(p, q)
              PROVE  FALSE
          <5>1. CASE q \in tainted
            BY <3>3, <4>1, <5>1 DEF Clean
          <5>2. CASE q \in P
            BY <1>3, <3>3, <4>1, <5>2 DEF met
          <5>3. CASE q \in Named(t)
            BY <1>5, <1>6, <3>3, <4>1, <5>3
          <5>4. ASSUME NEW v \in met, q \in Named(v)
                PROVE  FALSE
            <6>1. v \in Tasks /\ v # u
              BY <2>2, <3>3
            <6>. QED  BY <1>5, <1>6, <3>3, <4>1, <5>4, <6>1
          <5>. QED  BY <2>1, <4>1, <5>1, <5>2, <5>3, <5>4
        <4>2. Named(u)' = Named(u)
          BY <1>2, <3>3
        <4>. QED  BY <4>1, <4>2 DEF Clean
      <3>4. CASE u # t /\ Named(u) \subseteq tainted
        BY <1>2, <2>1, <3>4
      <3>. QED  BY <1>5, <3>1, <3>2, <3>3, <3>4
    <2>5. ASSUME NEW u \in Tasks, NEW v \in Tasks \ {u}, NEW p \in Named(u)',
                 NEW q \in Named(v)', Related(p, q)
          PROVE  p \in tainted'
      <3>1. CASE u = t
        BY <2>1, <3>1
      <3>2. CASE v = t
        <4>1. p \in Named(u) /\ u # t
          BY <1>2, <3>2
        <4>2. CASE q \in P
          <5>1. u \in met
            BY <1>3, <2>5, <4>1, <4>2 DEF met
          <5>. QED  BY <2>2, <4>1, <5>1
        <4>3. CASE q \in Named(t)
          BY <1>5, <2>1, <2>5, <4>1, <4>3
        <4>. QED  BY <3>2, <4>2, <4>3
      <3>3. CASE u # t /\ v # t
        BY <1>2, <1>5, <2>1, <2>5, <3>3
      <3>. QED  BY <3>1, <3>2, <3>3
    <2>6. ApartOK'
      BY <2>4, <2>5 DEF ApartOK
    <2>. QED  BY <2>1, <2>3, <2>6
  <1>. QED  BY <1>7, <1>8

LEMMA BeginIsolated ==
  ASSUME ControlOK, ControlOK', IsolatedOK, NEW t \in Tasks, NEW op, NEW r \in Locals,
         NEW l \in {"exists", "scan", "source", "put", "empty"}, pc[t] = "idle",
         Begin(t, op, r, l), r.path \in Paths, BearingsOf(l, r),
         (\A q \in Paths : Related(r.path, q) \/ (r.to \in Paths /\ Related(r.to, q)) => Sound(q))
           => HalfwayOf(l, r)
  PROVE  IsolatedOK'
  <1>. DEFINE P == {r.path, r.to} \ {None}
  <1>1. /\ pc'[t] = l /\ local'[t] = r
        /\ \A u \in Tasks \ {t} : pc'[u] = pc[u] /\ local'[u] = local[u]
        /\ Claim(t, P) /\ UNCHANGED store
    BY DEF Begin, Goto, ControlOK, TypeOK
  <1>2. local[t] = Blank
    BY DEF IsolatedOK, DoingOK, BearingsOf
  <1>3. Named(t) = {} /\ Named(t)' = P /\ Named(t)' # {}
    <2>1. Named(t) = {}
      BY <1>2 DEF Named, Blank
    <2>2. Named(t)' = P
      BY <1>1 DEF Named
    <2>3. r.path \in P
      BY NamespaceAssumption
    <2>. QED  BY <2>1, <2>2, <2>3
  <1>4. P \subseteq Paths
    BY DEF Locals
  <1>. HIDE DEF P
  <1>5. /\ ApartOK' /\ tainted \subseteq tainted'
        /\ Clean(t)' => /\ Clean(t) /\ tainted' = tainted
                        /\ \A p \in Named(t)', q \in Paths : Related(p, q) =>
                             Intact(q) /\ \A u \in Tasks \ {t} : ~Covers(u, q)
    BY <1>1, <1>3, <1>4, ClaimApart
  <1>6. \A p \in Paths : ~Covers(t, p)
    BY <1>3 DEF Covers
  <1>7. Relabels
    <2>1. \A i \in Ids : ~Has(t, i)'
      BY <1>1 DEF Has, HandLabels, EntryLabels, OldEntryLabels
    <2>2. ASSUME NEW u \in Tasks \ {t}
          PROVE  /\ \A i \in Ids : Has(u, i)' => Has(u, i) /\ local'[u].path = local[u].path
                 /\ \A p \in Paths : Covers(u, p) => Covers(u, p)'
                 /\ FirstMount(u) => FirstMount(u)'
      BY <1>1 DEF Has, Covers, Named, FirstMount
    <2>3. ~FirstMount(t)
      BY DEF FirstMount
    <2>. QED  BY <1>1, <1>5, <1>6, <2>1, <2>2, <2>3 DEF Relabels
  <1>8. OwnDoings(t)'
    <2>1. ASSUME Clean(t)'
          PROVE  HalfwayOf(l, r)'
      <3>1. ASSUME NEW q \in Paths, Related(r.path, q) \/ (r.to \in Paths /\ Related(r.to, q))
            PROVE  Sound(q)
        <4>1. r.path \in Named(t)' /\ (r.to \in Paths => r.to \in Named(t)')
          BY <1>3, NamespaceAssumption DEF P
        <4>2. Intact(q) /\ \A u \in Tasks : ~Covers(u, q)
          BY <1>5, <1>6, <2>1, <3>1, <4>1
        <4>. QED  BY <4>2 DEF IsolatedOK, QuietOK
      <3>2. ControlOf(l, r)
        BY <1>1 DEF ControlOK
      <3>. QED  BY <1>1, <3>1, <3>2, StoreHalfway
    <2>2. ~FirstMount(t)'
      BY <1>1 DEF FirstMount
    <2>. QED  BY <1>1, <2>1, <2>2 DEF OwnDoings
  <1>9. OtherDoings(t)'
    BY <1>1, <1>5, BystandersDo
  <1>. QED  BY <1>5, <1>7, <1>8, <1>9, RelabelsKeep, DoingsAre DEF IsolatedOK

\* A path that is sound is in the store, or has none of it.
LEMMA SoundKnows ==
  ASSUME ControlOK, NEW p \in Paths, Sound(p)
  PROVE  /\ p \in nodes <=> pathToId[p] # None
         /\ p \in nodes <=> meta[p] # None
         /\ \A i \in Ids : idToPath[i] = p <=> pathToId[p] = i
         /\ pathToId[p] \in Ids \cup {None} /\ Holds(p, pathToId[p])
         /\ Known(p) => DirAt(p)
         /\ p \in nodes /\ p # <<>> => DirAt(Parent(p))
  <1>1. pathToId[p] \in Ids \cup {None}
    BY DEF ControlOK, TypeOK
  <1>2. None \notin Ids
    BY NamespaceAssumption DEF Ids
  <1>3. /\ p \in nodes <=> pathToId[p] # None
        /\ p \in nodes <=> meta[p] # None
        /\ \A i \in Ids : idToPath[i] = p <=> pathToId[p] = i
        /\ Holds(p, pathToId[p])
        /\ p \in nodes /\ p # <<>> => DirAt(Parent(p))
    BY <1>1, <1>2 DEF Sound, Whole, Holds
  <1>4. ASSUME Known(p)
        PROVE  DirAt(p)
    <2>1. PICK i \in Ids : idToPath[i] = p
      BY <1>4 DEF Known
    <2>2. pathToId[p] = i /\ i # None
      BY <1>2, <1>3, <2>1
    <2>. QED  BY <1>3, <2>2 DEF DirAt
  <1>. QED  BY <1>1, <1>3, <1>4

LEMMA CreateBegins ==
  ASSUME ControlOK, ControlOK', IsolatedOK, NEW t \in Tasks, NEW op \in Creates, NEW p \in Paths,
         StartCreate(t, op, p)
  PROVE  IsolatedOK'
  <1>. DEFINE r == [Blank EXCEPT !.op = op, !.path = p]
  <1>1. r \in Locals /\ r.op = op /\ op # "mount" /\ r.path = p /\ r.to = None
    <2>1. op \in Ops /\ op # "mount"
      BY DEF Ops, Creates
    <2>2. r \in Locals
      BY <2>1, BlankType DEF Locals
    <2>. QED  BY <2>1, <2>2 DEF Blank
  <1>2. Begin(t, op, r, "exists") /\ pc[t] = "idle" /\ p # <<>> /\ Known(Parent(p))
    BY DEF StartCreate, Free
  <1>. HIDE DEF r
  <1>3. BearingsOf("exists", r)
    BY <1>1 DEF BearingsOf
  <1>4. ASSUME \A q \in Paths : Related(p, q) => Sound(q)
        PROVE  HalfwayOf("exists", r)
    <2>1. Parent(p) \in Paths /\ Prefix(Parent(p), p)
      BY <1>2, ParentIs
    <2>2. DirAt(Parent(p))
      BY <1>2, <1>4, <2>1, SoundKnows DEF Related
    <2>3. \A q \in AtOrBelow(p) : Sound(q)
      BY <1>4 DEF AtOrBelow, Related
    <2>4. p \in AtOrBelow(p)
      BY PrefixRefl DEF AtOrBelow
    <2>5. Creating("exists", p, r.id)
      BY <2>2, <2>3, <2>4 DEF Creating, Under
    <2>. QED  BY <1>1, <2>5 DEF HalfwayOf, RemoveLabels, MovingLabels, NodeLabels, EntryLabels,
                                OldEntryLabels
  <1>5. None \notin Paths
    BY NamespaceAssumption
  <1>. QED  BY <1>1, <1>2, <1>3, <1>4, <1>5, BeginIsolated

LEMMA RemoveBegins ==
  ASSUME ControlOK, ControlOK', IsolatedOK, NEW t \in Tasks, NEW p \in Paths, StartRemove(t, p)
  PROVE  IsolatedOK'
  <1>. DEFINE r == [Blank EXCEPT !.op = "remove", !.path = p]
  <1>1. r \in Locals /\ r.op = "remove" /\ r.path = p /\ r.to = None
    BY ZenonT(40), BlankType DEF Locals, Blank, Ops
  <1>2. Begin(t, "remove", r, "scan") /\ pc[t] = "idle"
    BY DEF StartRemove, Free
  <1>. HIDE DEF r
  <1>3. BearingsOf("scan", r)
    BY <1>1 DEF BearingsOf
  <1>4. ASSUME \A q \in Paths : Related(p, q) => Sound(q)
        PROVE  HalfwayOf("scan", r)
    <2>1. \A q \in AtOrBelow(p) : Sound(q)
      BY <1>4 DEF AtOrBelow, Related
    <2>2. p \in AtOrBelow(p)
      BY PrefixRefl DEF AtOrBelow
    <2>3. Removing("scan", p, r.id)
      BY <2>1, <2>2 DEF Removing, Under
    <2>. QED  BY <1>1, <2>3 DEF HalfwayOf, CreateLabels, MovingLabels, NodeLabels, EntryLabels,
                                OldEntryLabels
  <1>5. None \notin Paths
    BY NamespaceAssumption
  <1>. QED  BY <1>1, <1>2, <1>3, <1>4, <1>5, BeginIsolated

LEMMA RenameBegins ==
  ASSUME ControlOK, ControlOK', IsolatedOK, WildRenames = FALSE, NEW t \in Tasks,
         NEW p \in Paths, NEW i \in Ids, NEW name \in Names, StartRename(t, p, i, name)
  PROVE  IsolatedOK'
  <1>. DEFINE to == Append(idToPath[i], name)
              r  == [Blank EXCEPT !.op = "rename", !.path = p, !.to = to, !.dir = i,
                                  !.name = name]
  <1>1. /\ Begin(t, "rename", r, "source") /\ pc[t] = "idle" /\ Fits(p, to) /\ Tame(p, to)
        /\ idToPath[i] \in Paths /\ Known(idToPath[i])
    BY DEF StartRename, Free, ControlOK, TypeOK
  <1>2. to \in Paths
    BY <1>1 DEF Fits
  <1>. HIDE DEF to
  <1>3. /\ r \in Locals /\ r.op = "rename" /\ r.path = p /\ r.to = to /\ r.dir = i
        /\ r.name = name
    BY <1>2, ZenonT(40), BlankType DEF Locals, Blank, Ops
  <1>. HIDE DEF r
  <1>4. BearingsOf("source", r)
    BY <1>3 DEF BearingsOf, CreateLabels, RemoveLabels, CommitLabels
  <1>5. ASSUME \A q \in Paths : Related(p, q) \/ Related(to, q) => Sound(q)
        PROVE  HalfwayOf("source", r)
    <2>. DEFINE d == idToPath[i]
    <2>1. to = Append(d, name) /\ d \in Paths
      BY <1>1 DEF to
    <2>2. Parent(to) = d /\ to # <<>>
      BY <1>2, <2>1, ParentOfEntry
    <2>3. Prefix(d, to)
      BY <1>2, <2>2, ParentIs
    <2>4. Sound(d)
      BY <1>5, <2>1, <2>3 DEF Related
    <2>5. pathToId[d] = i /\ DirAt(d)
      BY <1>1, <2>1, <2>4, SoundKnows
    <2>6. \A q \in AtOrBelow(p) \cup AtOrBelow(to) : Sound(q)
      BY <1>5 DEF AtOrBelow, Related
    <2>. HIDE DEF d
    <2>7. Renaming("source", r)
      BY <1>1, <1>2, <1>3, <2>1, <2>5, <2>6 DEF Renaming, Tame
    <2>. QED  BY <1>3, <2>7 DEF HalfwayOf, CreateLabels, RemoveLabels, MovingLabels, NodeLabels,
                                EntryLabels, OldEntryLabels
  <1>. QED  BY <1>1, <1>2, <1>3, <1>4, <1>5, BeginIsolated

LEMMA CommitBegins ==
  ASSUME ControlOK, ControlOK', IsolatedOK, NEW t \in Tasks, NEW i \in Ids, StartCommit(t, i)
  PROVE  IsolatedOK'
  <1>. DEFINE p == idToPath[i]
              r == [Blank EXCEPT !.op = "commit", !.path = p, !.id = i]
  <1>1. Begin(t, "commit", r, "put") /\ pc[t] = "idle" /\ p \in Paths
    BY DEF StartCommit, Free, ControlOK, TypeOK
  <1>2. r \in Locals /\ r.op = "commit" /\ r.path = p /\ r.to = None /\ r.id = i
    BY <1>1, ZenonT(40), BlankType DEF Locals, Blank, Ops
  <1>. HIDE DEF r
  <1>3. BearingsOf("put", r)
    BY <1>2 DEF BearingsOf
  <1>4. ASSUME \A q \in Paths : Related(p, q) => Sound(q)
        PROVE  HalfwayOf("put", r)
    <2>1. \A q \in AtOrBelow(p) : Sound(q)
      BY <1>4 DEF AtOrBelow, Related
    <2>2. p \in AtOrBelow(p)
      BY <1>1, PrefixRefl DEF AtOrBelow
    <2>3. pathToId[p] = i
      BY <1>1, <2>1, <2>2, SoundKnows
    <2>4. AllSound(p, i)
      BY <2>1, <2>3 DEF AllSound
    <2>. QED  BY <1>2, <2>4 DEF HalfwayOf, CreateLabels, RemoveLabels, MovingLabels, NodeLabels,
                                EntryLabels, OldEntryLabels
  <1>5. None \notin Paths
    BY NamespaceAssumption
  <1>. QED  BY <1>1, <1>2, <1>3, <1>4, <1>5, BeginIsolated

LEMMA MountBegins ==
  ASSUME ControlOK, ControlOK', IsolatedOK, Redis = TRUE, NEW t \in Tasks, StartMount(t)
  PROVE  IsolatedOK'
  <1>. DEFINE r == [Blank EXCEPT !.op = "mount", !.path = <<>>]
  <1>1. /\ Begin(t, "mount", r, "empty") /\ pc[t] = "idle" /\ meta[<<>>] = None
        /\ <<>> \in Paths
    BY NamespaceAssumption DEF StartMount, Free, Keyed
  <1>2. r \in Locals /\ r.op = "mount" /\ r.path = <<>> /\ r.to = None
    <2>1. \A p \in Paths : LET s == [Blank EXCEPT !.op = "mount", !.path = p]
                           IN  s \in Locals /\ s.op = "mount" /\ s.path = p /\ s.to = None
      BY ZenonT(40), BlankType DEF Locals, Blank, Ops
    <2>. QED  BY <1>1, <2>1
  <1>. HIDE DEF r
  <1>3. BearingsOf("empty", r)
    BY <1>2 DEF BearingsOf
  <1>4. ASSUME \A q \in Paths : Related(<<>>, q) => Sound(q)
        PROVE  HalfwayOf("empty", r)
    <2>1. \A q \in Paths : Sound(q)
      BY <1>4, PrefixRoot DEF Related
    <2>2. /\ <<>> \notin nodes /\ pathToId[<<>>] = None /\ Holds(<<>>, None)
          /\ \A j \in Ids : idToPath[j] # <<>>
      BY <1>1, <2>1, SoundKnows, NamespaceAssumption DEF Ids
    <2>3. \A q \in Paths : q # <<>> /\ Parent(q) = <<>> => q \notin nodes
      BY <1>1, <2>1, SoundKnows DEF DirAt
    <2>4. Creating("empty", <<>>, r.id)
      BY <2>1, <2>2, <2>3 DEF Creating, Under, AtOrBelow, HandLabels
    <2>. QED  BY <1>2, <2>4 DEF HalfwayOf, RemoveLabels, MovingLabels, NodeLabels, EntryLabels,
                                OldEntryLabels
  <1>5. None \notin Paths
    BY NamespaceAssumption
  <1>. QED  BY <1>1, <1>2, <1>3, <1>4, <1>5, BeginIsolated

LEMMA RequestIsolated ==
  ASSUME ControlOK, ControlOK', IsolatedOK, Redis = TRUE, WildRenames = FALSE,
         NEW t \in Tasks, Request(t)
  PROVE  IsolatedOK'
  BY CreateBegins, RemoveBegins, RenameBegins, CommitBegins, MountBegins DEF Request

-----------------------------------------------------------------------------
(***************************************************************************)
(* Requests that fail or are cut off, and taint what they name, and the    *)
(* initial states.                                                         *)
(***************************************************************************)
LEMMA TaintApart ==
  ASSUME ControlOK, IsolatedOK, NEW S \in SUBSET Tasks,
         tainted' = tainted \cup UNION {Named(u) : u \in S},
         \A u \in Tasks \ S : local'[u] = local[u],
         \A u \in S : Named(u)' \subseteq Named(u)
  PROVE  ApartOK'
  <1>1. \A u \in Tasks \ S : Named(u)' = Named(u)
    BY DEF Named
  <1>2. \A u, v \in Tasks : u # v => \A p \in Named(u), q \in Named(v) :
                              Related(p, q) => p \in tainted
    BY DEF IsolatedOK, ApartOK
  <1>3. ASSUME NEW u \in Tasks \ S, Clean(u), NEW p \in Named(u), NEW q \in tainted',
               Related(p, q)
        PROVE  FALSE
    <2>1. CASE q \in tainted
      BY <1>3, <2>1 DEF Clean
    <2>2. ASSUME NEW v \in S, q \in Named(v)
          PROVE  FALSE
      <3>1. p \in tainted /\ p \in Paths
        BY <1>2, <1>3, <2>2, NamedPaths
      <3>2. Related(p, p)
        BY <3>1, PrefixRefl DEF Related
      <3>. QED  BY <1>3, <3>1, <3>2 DEF Clean
    <2>. QED  BY <1>3, <2>1, <2>2
  <1>4. ASSUME NEW u \in Tasks
        PROVE  Clean(u)' \/ Named(u)' \subseteq tainted'
    <2>1. CASE u \in S
      BY <2>1
    <2>2. CASE u \notin S
      BY <1>1, <1>3, <2>2 DEF Clean, IsolatedOK, ApartOK
    <2>. QED  BY <2>1, <2>2
  <1>5. \A u \in Tasks : Named(u)' \subseteq Named(u)
    BY <1>1
  <1>6. ASSUME NEW u \in Tasks, NEW v \in Tasks \ {u}, NEW p \in Named(u)', NEW q \in Named(v)',
               Related(p, q)
        PROVE  p \in tainted'
    BY <1>2, <1>5, <1>6
  <1>. QED  BY <1>4, <1>6 DEF ApartOK

LEMMA FaultIsolated ==
  ASSUME ControlOK, ControlOK', IsolatedOK, NEW t \in Tasks, Fault(t)
  PROVE  IsolatedOK'
  <1>1. /\ pc[t] # "idle" /\ tainted' = tainted \cup Named(t) /\ UNCHANGED store
        /\ \A u \in Tasks \ {t} : pc'[u] = pc[u] /\ local'[u] = local[u]
    BY DEF Fault, Goto, Finish, ControlOK, TypeOK
  <1>. DEFINE l == pc'[t]
              r == local'[t]
  <1>2. BearingsOf(pc[t], local[t])
    BY DEF IsolatedOK, DoingOK
  <1>3. \/ /\ GoesOn(t) /\ l = After(t)[pc[t]] /\ r = local[t]
        \/ /\ pc[t] = "moving" /\ l = "moving" /\ r.path = local[t].path /\ r.to = local[t].to
           /\ r.op = local[t].op /\ r.keys = local[t].keys
        \/ l = "idle" /\ r = Blank
    BY <1>2 DEF BearingsOf, KeyLabels, Fault, Goto, Finish, ControlOK, TypeOK, Locals
  <1>4. /\ \A i \in Ids : Has(t, i)' => Has(t, i) /\ r.path = local[t].path
        /\ Named(t)' \subseteq Named(t)
        /\ BearingsOf(l, r) /\ (l # "idle" => r.path = local[t].path)
    <2>1. CASE GoesOn(t) /\ l = After(t)[pc[t]] /\ r = local[t]
      <3>1. pc[t] \in {"exists", "zadd", "hash", "link", "p2i", "zrem", "delete", "unpath",
                       "move", "etouch", "etouchput"}
        BY <1>2, <2>1 DEF GoesOn, After, BearingsOf, KeyLabels
      <3>2. \/ pc[t] = "exists" /\ l = "incr"
            \/ l = "keys"
            \/ {pc[t], l} \subseteq HandLabels
            \/ pc[t] \in {"etouch", "etouchput"} /\ l = "entry"
        BY <2>1, <3>1 DEF After, AfterHash, HandLabels
      <3>3. \A i \in Ids : Has(t, i)' => Has(t, i)
        BY <2>1, <3>2 DEF Has, HandLabels, EntryLabels, OldEntryLabels
      <3>4. /\ l \notin {"idle", "look", "incrput", "moving", "etouchput", "touchput", "empty",
                          "reset"} \cup KeyLabels
            /\ l \in CreateLabels \cup RemoveLabels \cup CommitLabels =>
                 pc[t] \in CreateLabels \cup RemoveLabels \cup CommitLabels
        BY <3>2 DEF HandLabels, KeyLabels, CreateLabels, RemoveLabels, CommitLabels
      <3>5. BearingsOf(l, r)
        BY <1>2, <2>1, <3>4 DEF BearingsOf
      <3>. QED  BY <2>1, <3>3, <3>4, <3>5 DEF Named
    <2>2. CASE pc[t] = "moving" /\ l = "moving" /\ r.path = local[t].path /\ r.to = local[t].to
                 /\ r.op = local[t].op /\ r.keys = local[t].keys
      BY <1>2, <2>2 DEF Has, HandLabels, EntryLabels, OldEntryLabels, BearingsOf, Named
    <2>3. CASE l = "idle" /\ r = Blank
      BY <2>3, NamespaceAssumption DEF Has, HandLabels, EntryLabels, OldEntryLabels, BearingsOf,
                                       Named, Blank, Ops
    <2>. QED  BY <1>3, <2>1, <2>2, <2>3
  <1>5. ApartOK'
    <2>. DEFINE S == {t}
    <2>1. UNION {Named(u) : u \in S} = Named(t)
      OBVIOUS
    <2>2. /\ S \in SUBSET Tasks /\ tainted' = tainted \cup UNION {Named(u) : u \in S}
          /\ \A u \in Tasks \ S : local'[u] = local[u]
          /\ \A u \in S : Named(u)' \subseteq Named(u)
      BY <1>1, <1>4, <2>1
    <2>. HIDE DEF S
    <2>. QED  BY <2>2, TaintApart
  <1>6. \A p \in Paths : Covers(t, p) => ~Intact(p)'
    BY <1>1 DEF Covers, Intact
  <1>7. Relabels
    <2>1. ASSUME NEW u \in Tasks \ {t}
          PROVE  /\ \A i \in Ids : Has(u, i)' => Has(u, i) /\ local'[u].path = local[u].path
                 /\ \A p \in Paths : Covers(u, p) => Covers(u, p)'
                 /\ FirstMount(u) => FirstMount(u)'
      BY <1>1 DEF Has, Covers, Named, FirstMount
    <2>2. FirstMount(t) => ~Intact(<<>>)'
      <3>1. FirstMount(t) => local[t].path = <<>>
        BY <1>2 DEF FirstMount, BearingsOf
      <3>. QED  BY <1>1, <1>6, <3>1, CoversOwn
    <2>. QED  BY <1>1, <1>4, <1>6, <2>1, <2>2 DEF Relabels
  <1>8. OwnDoings(t)'
    <2>1. CASE l = "idle"
      BY <1>4, <2>1, IdleHalfway DEF OwnDoings, FirstMount
    <2>2. CASE l # "idle"
      <3>1. local[t].path \in Named(t) /\ local[t].path \in Paths
        BY <1>1, NamedPaths
      <3>2. r.path \in Named(t)' /\ r.path \in tainted' /\ Related(r.path, r.path)
        BY <1>1, <1>4, <2>2, <3>1, PrefixRefl, NamespaceAssumption DEF Named, Related
      <3>3. ~Clean(t)'
        BY <3>2 DEF Clean
      <3>. QED  BY <1>4, <3>3 DEF OwnDoings
    <2>. QED  BY <2>1, <2>2
  <1>9. OtherDoings(t)'
    BY <1>1, BystandersDo
  <1>. QED  BY <1>5, <1>7, <1>8, <1>9, RelabelsKeep, DoingsAre DEF IsolatedOK

LEMMA RestartIsolated ==
  ASSUME ControlOK, ControlOK', IsolatedOK, Restart
  PROVE  IsolatedOK'
  <1>1. /\ \A u \in Tasks : pc'[u] = "idle" /\ local'[u] = Blank
        /\ UNCHANGED store /\ tainted' = tainted \cup UNION {Named(u) : u \in Tasks}
    BY DEF Restart
  <1>2. \A u \in Tasks : Named(u)' = {}
    BY <1>1 DEF Named, Blank
  <1>3. ApartOK'
    BY <1>1, <1>2, TaintApart
  <1>4. \A u \in Tasks : \A p \in Paths : Covers(u, p) => ~Intact(p)'
    BY <1>1 DEF Covers, Intact
  <1>5. Relabels
    <2>1. \A u \in Tasks : \A i \in Ids : ~Has(u, i)'
      BY <1>1 DEF Has, HandLabels, EntryLabels, OldEntryLabels
    <2>2. ASSUME NEW u \in Tasks, FirstMount(u)
          PROVE  ~Intact(<<>>)'
      <3>1. BearingsOf(pc[u], local[u])
        BY DEF IsolatedOK, DoingOK
      <3>2. local[u].path = <<>> /\ pc[u] # "idle"
        BY <2>2, <3>1 DEF FirstMount, BearingsOf
      <3>. QED  BY <1>4, <3>2, CoversOwn
    <2>. QED  BY <1>1, <1>4, <2>1, <2>2 DEF Relabels
  <1>6. DoingOK'
    <2>1. BearingsOf("idle", Blank)
      BY NamespaceAssumption DEF BearingsOf, Blank, Ops
    <2>2. \A u \in Tasks : ~FirstMount(u)'
      BY <1>1 DEF FirstMount
    <2>. QED  BY <1>1, <2>1, <2>2, IdleHalfway DEF DoingOK
  <1>. QED  BY <1>3, <1>5, <1>6, RelabelsKeep DEF IsolatedOK

LEMMA InitIsolated == Init => IsolatedOK
  <1>. SUFFICES ASSUME Init  PROVE IsolatedOK
    OBVIOUS
  <1>1. /\ \A u \in Tasks : pc[u] = "idle" /\ local[u] = Blank
        /\ tainted = {} /\ <<>> \in Paths
    BY NamespaceAssumption DEF Init
  <1>2. \A u \in Tasks : Named(u) = {}
    BY <1>1 DEF Named, Blank
  <1>3. ApartOK
    BY <1>1, <1>2 DEF ApartOK, Clean
  <1>4. \A u \in Tasks : \A i \in Ids : ~Has(u, i)
    BY <1>1 DEF Has, HandLabels, EntryLabels, OldEntryLabels
  <1>5. 1 \in Ids /\ None \notin Ids /\ None \notin Paths /\ "dir" # None
    BY NamespaceAssumption DEF Ids, Types
  <1>6. ASSUME NEW p \in Paths
        PROVE  /\ pathToId[p] = IF Mounted /\ p = <<>> THEN 1 ELSE None
               /\ \A i \in Ids : idToPath[i] = p <=> (Mounted /\ p = <<>> /\ i = 1)
               /\ p \in nodes <=> (Mounted /\ p = <<>>)
               /\ meta[p] = IF Mounted /\ p = <<>> THEN [type |-> "dir", id |-> 1] ELSE None
               /\ data[p] = None /\ p \notin links
    BY <1>5 DEF Init
  <1>7. ASSUME NEW i \in Ids, NEW p \in Marks(i)
        PROVE  Mounted /\ p = <<>> /\ i = 1
    BY <1>4, <1>5, <1>6, <1>7 DEF Marks
  <1>8. OwnersOK
    BY <1>7 DEF OwnersOK
  <1>9. FreshOK
    <2>1. Mounted => nextId = 1
      BY DEF Init
    <2>. QED  BY <1>7, <2>1 DEF FreshOK
  <1>10. QuietOK
    <2>1. ASSUME NEW p \in Paths
          PROVE  Sound(p)
      <3>1. CASE Mounted /\ p = <<>>
        <4>1. [type |-> "dir", id |-> 1] \in Hash
          BY <1>5 DEF Hash, Types
        <4>2. [type |-> "dir", id |-> 1] # None
          BY <4>1, NamespaceAssumption
        <4>. QED  BY <1>5, <1>6, <3>1, <4>2 DEF Sound, Whole, Holds
      <3>2. CASE ~(Mounted /\ p = <<>>)
        BY <1>5, <1>6, <3>2 DEF Sound, Whole, Holds
      <3>. QED  BY <3>1, <3>2
    <2>. QED  BY <2>1 DEF QuietOK
  <1>11. DoingOK
    <2>1. BearingsOf("idle", Blank)
      BY NamespaceAssumption DEF BearingsOf, Blank, Ops
    <2>2. \A u \in Tasks : ~FirstMount(u)
      BY <1>1 DEF FirstMount
    <2>. QED  BY <1>1, <2>1, <2>2, IdleHalfway DEF DoingOK
  <1>. QED  BY <1>3, <1>8, <1>9, <1>10, <1>11 DEF IsolatedOK

-----------------------------------------------------------------------------
(***************************************************************************)
(* Steps that read.                                                        *)
(***************************************************************************)
LEMMA FinishOthers ==
  ASSUME ControlOK, NEW t \in Tasks, Finish(t)
  PROVE  \A u \in Tasks \ {t} : pc'[u] = pc[u] /\ local'[u] = local[u]
  BY DEF Finish, ControlOK, TypeOK

LEMMA ReadSpares ==
  ASSUME NEW t \in Tasks, UNCHANGED <<hashes, index>>, tainted' = tainted,
         \A u \in Tasks \ {t} : pc'[u] = pc[u] /\ local'[u] = local[u],
         \A i \in Ids : Has(t, i)' =>
           \/ Has(t, i)
           \/ \E q \in Paths : Covers(t, q) /\ pathToId[q] = i
           \/ Issues(t, i)
  PROVE  Spares(t)
  BY DEF Spares, Kept, hashes, index

LEMMA ReadEnds ==
  ASSUME ControlOK, ControlOK', IsolatedOK, NEW t \in Tasks, pc[t] # "idle", Finish(t),
         UNCHANGED store, tainted' = tainted, ~FirstMount(t),
         Clean(t) => \A p \in Paths : Covers(t, p) => Sound(p)
  PROVE  IsolatedOK'
  <1>1. \A i \in Ids : ~Has(t, i)'
    BY EnderLeaves
  <1>2. Spares(t)
    BY <1>1, FinishOthers, ReadSpares DEF store
  <1>3. \A p \in Paths : Sound(p) => Sound(p)'
    BY StoreSame, SoundSame
  <1>4. Ends(t)
    BY <1>2, <1>3 DEF Ends
  <1>5. pc'[t] = "idle" /\ nextId' >= nextId
    BY EnderLeaves DEF store, ControlOK, TypeOK
  <1>6. FreshOK'
    BY <1>2, <1>5, FreshKept
  <1>. QED  BY <1>4, <1>6, EndsIsolated

LEMMA RenamingCovers ==
  ASSUME ControlOK, IsolatedOK, NEW t \in Tasks, Clean(t), pc[t] \in {"source", "target"}
  PROVE  /\ Renaming(pc[t], local[t])
         /\ local[t].path \in Paths /\ local[t].to \in Paths
         /\ \A p \in Paths : Covers(t, p) => Sound(p)
  <1>1. Renaming(pc[t], local[t])
    BY DEF IsolatedOK, DoingOK, HalfwayOf
  <1>2. local[t].path \in Paths /\ local[t].to \in Paths
    BY <1>1, CoversOwn DEF Renaming
  <1>3. ASSUME NEW p \in Paths, Covers(t, p)
        PROVE  Sound(p)
    BY <1>1, <1>3, CoversOnly DEF Renaming
  <1>. QED  BY <1>1, <1>2, <1>3

\* What there is when a rename has found the member of what it moves.
LEMMA MovingBegins ==
  ASSUME ControlOK, NEW r, r.path \in Paths, r.to \in Paths, r.name \in Names,
         Fits(r.path, r.to), Renaming("target", r)
  PROVE  \E F \in [AtOrBelow(r.path) \cup AtOrBelow(r.to) -> Ids \cup {None}] :
            Moving("type", r, F)
  <1>. DEFINE C == AtOrBelow(r.path) \cup AtOrBelow(r.to)
              F == [q \in C |-> pathToId[q]]
              new(q) == Moved(q, r.path, r.to)
  <1>1. /\ C \subseteq Paths /\ r.path \in C /\ r.to \in C
        /\ AtOrBelow(r.path) \subseteq C /\ AtOrBelow(r.to) \subseteq C
    BY PrefixRefl DEF AtOrBelow
  <1>2. \A q \in C : q \in Paths /\ Sound(q) /\ F[q] = pathToId[q]
    BY <1>1 DEF Renaming
  <1>3. F \in [C -> Ids \cup {None}] /\ DOMAIN F = C
    BY <1>1 DEF ControlOK, TypeOK
  <1>. HIDE DEF C, F
  <1>4. \A q \in C : /\ q \in nodes <=> F[q] # None
                     /\ \A i \in Ids : idToPath[i] = q <=> F[q] = i
                     /\ F[q] \in Ids \cup {None} /\ Holds(q, F[q])
                     /\ q \in nodes /\ q # <<>> => DirAt(Parent(q))
    BY <1>2, SoundKnows
  <1>5. ~Related(r.path, r.to)
    <2>1. ~Prefix(r.path, r.to) /\ r.path \in nodes
      BY DEF Renaming
    <2>2. r.path # r.to
      BY <2>1, PrefixRefl
    <2>. QED  BY <2>1, <2>2 DEF Related, Renaming, Below
  <1>6. \A q \in Under(r.to) : q \notin nodes /\ q \in C
    BY <1>1 DEF Under, AtOrBelow, Renaming, Below
  <1>7. ASSUME NEW q \in AtOrBelow(r.path)
        PROVE  OldAt("type", r, F, q) /\ NewAt("type", r, F, q, new(q))
    <2>1. q \in C /\ new(q) \in C
      BY <1>1, NewPathIs
    <2>. HIDE DEF new
    <2>2. /\ HashLeft("type", r, q) /\ NodeLeft("type", r, q) /\ ~NodeMade("type", r, q)
          /\ \A i : /\ IdLeft("type", r, q, i) /\ ~IdMade("type", r, q, i)
                    /\ PathLeft("type", r, q, i) /\ ~PathMade("type", r, q, i)
      BY DEF NodeLeft, NodeMade, IdLeft, IdMade, PathLeft, PathMade, HashLeft, EntryLabels,
             OldEntryLabels
    <2>3. OldAt("type", r, F, q)
      BY <1>2, <1>4, <2>1, <2>2 DEF OldAt
    <2>4. "type" \notin EntryLabels
      BY DEF EntryLabels, OldEntryLabels
    <2>5. NewAt("type", r, F, q, new(q))
      BY <1>2, <1>4, <2>1, <2>2, <2>4 DEF NewAt
    <2>. QED  BY <2>3, <2>5
  <1>8. ASSUME NEW n \in AtOrBelow(r.to), \A q \in AtOrBelow(r.path) : n # new(q)
        PROVE  Sound(n) /\ n \notin nodes
    <2>1. n # r.to
      <3>1. r.path \in AtOrBelow(r.path) /\ new(r.path) = r.to
        BY MovedSelf, PrefixRefl DEF AtOrBelow
      <3>. QED  BY <1>8, <3>1
    <2>. QED  BY <1>1, <1>2, <1>6, <2>1 DEF Under
  <1>9. TreeOK(r, F)
    <2>1. F[r.path] # None /\ \A q \in Under(r.to) : F[q] = None
      BY <1>1, <1>4, <1>6 DEF Renaming
    <2>2. ASSUME NEW p \in C, NEW q \in C, F[p] = F[q], F[p] # None
          PROVE  p = q
      <3>1. F[p] \in Ids
        BY <1>4, <2>2
      <3>. QED  BY <1>4, <2>2, <3>1
    <2>3. ASSUME NEW q \in Under(r.path), F[q] # None
          PROVE  F[Parent(q)] # None
      <3>0. q \in AtOrBelow(r.path) /\ q # r.path
        BY <2>3 DEF Under
      <3>1. q \in C /\ Parent(q) \in C /\ q # <<>>
        BY <1>1, <3>0, NewPathIs
      <3>2. DirAt(Parent(q))
        BY <1>4, <2>3, <3>1
      <3>. QED  BY <1>4, <3>1, <3>2 DEF DirAt
    <2>4. DirAt(Parent(r.to))
      <3>1. PICK d \in Paths : r.to = Append(d, r.name) /\ DirAt(d)
        BY DEF Renaming
      <3>. QED  BY <3>1, ParentOfEntry
    <2>. QED  BY <1>3, <2>1, <2>2, <2>3, <2>4 DEF TreeOK
  <1>10. ListsOK("type", r, F)
    BY DEF ListsOK, EntryLabels, OldEntryLabels
  <1>11. Moving("type", r, F)
    BY <1>5, <1>7, <1>8, <1>9, <1>10 DEF Moving
  <1>. QED  BY <1>3, <1>11 DEF C

LEMMA TargetIsolated ==
  ASSUME ControlOK, ControlOK', IsolatedOK, NEW t \in Tasks, RenameTarget(t)
  PROVE  IsolatedOK'
  <1>0. pc[t] = "target" /\ UNCHANGED store /\ ~FirstMount(t)
    BY DEF RenameTarget, FirstMount
  <1>1. CASE idToPath[local[t].dir] = None
    <2>1. Finish(t) /\ tainted' = tainted
      BY <1>1 DEF RenameTarget
    <2>. QED  BY <1>0, <2>1, RenamingCovers, ReadEnds
  <1>2. CASE idToPath[local[t].dir] # None
    <2>. DEFINE dir == idToPath[local[t].dir]
    <2>0. PICK to, r : to = Append(dir, local[t].name) /\ r = [local[t] EXCEPT !.to = to]
      OBVIOUS
    <2>1. /\ Fits(local[t].path, to) /\ Claim(t, {to})
          /\ pc'[t] = "type" /\ local'[t] = r
          /\ \A u \in Tasks \ {t} : pc'[u] = pc[u] /\ local'[u] = local[u]
      BY <1>2, <2>0 DEF RenameTarget, Goto, ControlOK, TypeOK
    <2>2. to \in Paths /\ local[t] \in Locals
      BY <2>1 DEF Fits, ControlOK, TypeOK
    <2>3. /\ local[t].path \in Paths /\ local[t].dir \in Ids /\ local[t].name \in Names
          /\ dir \in Paths
      BY <1>0, <1>2 DEF ControlOK, TypeOK, ControlOf, RenameLabels
    <2>4. r.path = local[t].path /\ r.to = to /\ r.op = local[t].op /\ r.name = local[t].name
      BY <2>0, <2>2 DEF Locals
    <2>5. /\ Named(t)' \subseteq Named(t) \cup {to} /\ Named(t)' # {}
          /\ Named(t)' = {local[t].path, to}
      <3>1. /\ Named(t)' = {local[t].path, to} \ {None}
            /\ Named(t) = {local[t].path, local[t].to} \ {None}
        BY <2>1, <2>4 DEF Named
      <3>2. local[t].path # None /\ to # None
        BY <2>2, <2>3, NamespaceAssumption
      <3>. QED  BY <3>1, <3>2
    <2>6. /\ ApartOK' /\ tainted \subseteq tainted'
          /\ Clean(t)' => Clean(t) /\ tainted' = tainted
          /\ ~Clean(t)' => Named(t) \cup {to} \subseteq tainted'
      <3>. DEFINE P == {to}
      <3>1. P \in SUBSET Paths /\ Claim(t, P) /\ Named(t)' \subseteq Named(t) \cup P
        BY <2>1, <2>2, <2>5
      <3>2. /\ ApartOK' /\ tainted \subseteq tainted'
            /\ Clean(t)' => Clean(t) /\ tainted' = tainted
            /\ ~Clean(t)' => Named(t) \cup P \subseteq tainted'
        <4>. HIDE DEF P
        <4>. QED  BY <2>1, <2>5, <3>1, ClaimApart
      <3>. QED  BY <3>2
    <2>7. ASSUME Clean(t)
          PROVE  Renaming("target", local[t]) /\ to = local[t].to
      <3>1. Renaming("target", local[t]) /\ local[t].to \in Paths
        BY <1>0, <2>7, RenamingCovers
      <3>2. PICK d \in Paths : /\ local[t].to = Append(d, local[t].name)
                               /\ pathToId[d] = local[t].dir
        BY <3>1 DEF Renaming
      <3>3. Parent(local[t].to) = d /\ local[t].to # <<>>
        BY <2>3, <3>1, <3>2, ParentOfEntry
      <3>4. Prefix(d, local[t].to) /\ ~Prefix(local[t].to, d)
        BY <3>1, <3>3, ParentIs
      <3>5. Covers(t, local[t].to)
        BY <1>0, <3>1, CoversOwn, PrefixRefl, NamespaceAssumption DEF AtOrBelow
      <3>6. Intact(d)
        BY <2>7, <3>1, <3>4, <3>5, CoveredIntact, IntactAbove DEF IsolatedOK
      <3>7. ASSUME NEW u \in Tasks, Covers(u, d)
            PROVE  FALSE
        <4>1. CASE u = t
          <5>1. Prefix(local[t].path, d)
            BY <3>4, <3>7, <4>1, CoversOnly DEF AtOrBelow
          <5>2. Prefix(local[t].path, local[t].to)
            BY <2>3, <3>1, <3>4, <5>1, PrefixTrans
          <5>. QED  BY <3>1, <5>2 DEF Renaming
        <4>2. CASE u # t
          <5>1. Covers(u, local[t].to)
            BY <3>1, <3>4, <3>7, CoversDown
          <5>. QED  BY <2>7, <3>1, <3>5, <4>2, <5>1, MeetingTaints DEF IsolatedOK
        <4>. QED  BY <4>1, <4>2
      <3>8. Sound(d)
        BY <3>6, <3>7 DEF IsolatedOK, QuietOK
      <3>9. dir = d
        BY <2>3, <3>2, <3>8, SoundKnows
      <3>. QED  BY <2>0, <3>1, <3>2, <3>9
    <2>8. Relabels
      <3>1. \A i \in Ids : ~Has(t, i)'
        BY <2>1 DEF Has, HandLabels, EntryLabels, OldEntryLabels
      <3>2. ASSUME NEW u \in Tasks \ {t}
            PROVE  /\ \A i \in Ids : Has(u, i)' => Has(u, i) /\ local'[u].path = local[u].path
                   /\ \A p \in Paths : Covers(u, p) => Covers(u, p)'
                   /\ FirstMount(u) => FirstMount(u)'
        BY <2>1 DEF Has, Covers, Named, FirstMount
      <3>3. CASE Clean(t)'
        <4>1. Named(t)' = Named(t)
          BY <2>2, <2>3, <2>5, <2>6, <2>7, <3>3, NamespaceAssumption DEF Named
        <4>2. \A p \in Paths : Covers(t, p) => Covers(t, p)'
          BY <4>1 DEF Covers
        <4>. QED  BY <1>0, <2>6, <3>1, <3>2, <4>2 DEF Relabels
      <3>4. CASE ~Clean(t)'
        <4>1. \A p \in Paths : Covers(t, p) => ~Intact(p)'
          BY <2>6, <3>4 DEF Covers, Intact
        <4>. QED  BY <1>0, <2>6, <3>1, <3>2, <4>1 DEF Relabels
      <3>. QED  BY <3>3, <3>4
    <2>9. OwnDoings(t)'
      <3>1. BearingsOf("type", r)
        <4>1. BearingsOf("target", local[t])
          BY <1>0 DEF IsolatedOK, DoingOK
        <4>. QED  BY <2>4, <4>1 DEF BearingsOf, CreateLabels, RemoveLabels, CommitLabels
      <3>2. ~FirstMount(t)'
        BY <2>1 DEF FirstMount
      <3>3. ASSUME Clean(t)'
            PROVE  HalfwayOf("type", r)'
        <4>1. Renaming("target", local[t]) /\ to = local[t].to
          BY <2>6, <2>7, <3>3
        <4>2. \E F \in [AtOrBelow(local[t].path) \cup AtOrBelow(local[t].to) -> Ids \cup {None}] :
                 Moving("type", local[t], F)
          BY <2>1, <2>2, <2>3, <4>1, MovingBegins
        <4>3. r = local[t]
          BY <2>0, <2>2, <4>1 DEF Locals
        <4>4. HalfwayOf("type", r)
          BY <4>2, <4>3 DEF HalfwayOf, CreateLabels, RemoveLabels
        <4>5. ControlOf("type", r) /\ r \in Locals
          BY <2>1 DEF ControlOK, TypeOK
        <4>. QED  BY <4>4, <4>5, StoreHalfway, <1>0
      <3>. QED  BY <2>1, <3>1, <3>2, <3>3 DEF OwnDoings
    <2>10. OtherDoings(t)'
      BY <1>0, <2>1, <2>6, BystandersDo
    <2>. QED  BY <2>6, <2>8, <2>9, <2>10, RelabelsKeep, DoingsAre DEF IsolatedOK
  <1>. QED  BY <1>1, <1>2

-----------------------------------------------------------------------------
(***************************************************************************)
(* create, mkdir, symlink, and the directory that MNT makes.               *)
(***************************************************************************)
LEMMA OwnIs ==
  ASSUME ControlOK, IsolatedOK, NEW t \in Tasks,
         pc[t] \in CreateLabels \cup RemoveLabels \cup CommitLabels
  PROVE  /\ pc[t] # "idle" /\ local[t].path \in Paths /\ local[t].to = None
         /\ \A q \in Paths : Covers(t, q) <=> q \in AtOrBelow(local[t].path)
         /\ BearingsOf(pc[t], local[t])
         /\ Clean(t) => HalfwayOf(pc[t], local[t])
         /\ Clean(t) /\ FirstMount(t) => \A q \in Paths \ {<<>>} : q \notin nodes
  <1>1. pc[t] # "idle"
    BY DEF CreateLabels, RemoveLabels, CommitLabels
  <1>2. /\ BearingsOf(pc[t], local[t])
        /\ Clean(t) => HalfwayOf(pc[t], local[t])
        /\ Clean(t) /\ FirstMount(t) => \A q \in Paths \ {<<>>} : q \notin nodes
    BY DEF IsolatedOK, DoingOK
  <1>3. local[t].to = None /\ None \notin Paths
    BY <1>2, NamespaceAssumption DEF BearingsOf
  <1>. QED  BY <1>1, <1>2, <1>3, CoversOwn, CoversOnly

\* The task goes on, and only what it keeps in its variable id may change.
LEMMA GoesOnAt ==
  ASSUME ControlOK, IsolatedOK, NEW t \in Tasks, pc[t] # "idle", NEW l, l # "idle",
         Goto(t, l), local' = local \/ \E i : local' = [local EXCEPT ![t].id = i]
  PROVE  /\ \A u \in Tasks \ {t} : pc'[u] = pc[u] /\ local'[u] = local[u]
         /\ pc'[t] = l /\ pc'[t] # "idle"
         /\ local'[t].path = local[t].path /\ local'[t].to = local[t].to
         /\ local'[t].op = local[t].op
         /\ local' = local => local'[t] = local[t]
  BY DEF Goto, ControlOK, TypeOK, Locals

\* What is below a path that is made stays as it is.
LEMMA CreatingGoes ==
  ASSUME NEW p \in Paths, NEW l, NEW m, NEW i, Creating(l, p, i), l # "exists", m # "exists",
         \A q \in Under(p) : SameAt(q), p # <<>> => SameAt(Parent(p)),
         m \in HandLabels => \A q \in Under(p) : pathToId[q] # i,
         p \in nodes' <=> m \in {"hash", "link", "p2i", "i2p"},
         pathToId'[p] = (IF m = "i2p" THEN i ELSE None),
         \A j \in Ids : idToPath'[j] # p,
         IF m = "link"
         THEN meta'[p] = [type |-> "link", id |-> i] /\ data'[p] = None /\ p \notin links'
         ELSE Holds(p, IF m \in {"p2i", "i2p"} THEN i ELSE None)'
  PROVE  Creating(m, p, i)'
  <1>1. ASSUME NEW q \in Under(p)
        PROVE  Sound(q)' /\ (Parent(q) = p => q \notin nodes')
    <2>1. q \in Paths /\ q # p /\ Prefix(p, q) /\ Sound(q) /\ (Parent(q) = p => q \notin nodes)
      BY DEF Under, AtOrBelow, Creating
    <2>2. q # <<>> /\ Parent(q) \in AtOrBelow(p)
      BY <2>1, ParentUnder DEF AtOrBelow
    <2>3. CASE Parent(q) # p
      <3>1. SameAt(q) /\ SameAt(Parent(q))
        BY <2>2, <2>3 DEF Under
      <3>. QED  BY <2>1, <2>3, <3>1, SoundSame
    <2>4. CASE Parent(q) = p
      <3>1. SameAt(q) /\ q \notin nodes
        BY <2>1, <2>4
      <3>2. Whole(q)
        BY <2>1 DEF Sound
      <3>3. Whole(q)' /\ q \notin nodes'
        BY <3>1, <3>2 DEF SameAt, Kept, Whole, Holds
      <3>. QED  BY <3>3 DEF Sound
    <2>. QED  BY <2>3, <2>4
  <1>2. p # <<>> => DirAt(Parent(p))'
    BY DEF Creating, DirAt, SameAt, Kept
  <1>3. m \in HandLabels => \A q \in Under(p) : pathToId'[q] # i
    BY DEF SameAt, Kept
  <1>. QED  BY <1>1, <1>2, <1>3 DEF Creating

\* What a request that makes a path has done so far.
LEMMA CreatingIs ==
  ASSUME ControlOK, IsolatedOK, NEW t \in Tasks, Clean(t),
         pc[t] \in CreateLabels \ {"reset"}
  PROVE  /\ Creating(pc[t], local[t].path, local[t].id)
         /\ local[t].path # <<>> => Parent(local[t].path) \in Paths
                                    /\ Parent(local[t].path) \notin AtOrBelow(local[t].path)
  <1>1. /\ HalfwayOf(pc[t], local[t]) /\ BearingsOf(pc[t], local[t])
        /\ local[t].path \in Paths
    BY OwnIs
  <1>2. pc[t] \in CreateLabels \ {"incrput", "reset"}
    BY <1>1 DEF BearingsOf
  <1>3. local[t].path # <<>> => Parent(local[t].path) \in Paths
                                /\ Parent(local[t].path) \notin AtOrBelow(local[t].path)
    BY <1>1, ParentIs DEF AtOrBelow
  <1>. QED  BY <1>1, <1>2, <1>3 DEF HalfwayOf

\* Steps that write nothing but one path that the request covers.
LEMMA WriteSpares ==
  ASSUME ControlOK, NEW t \in Tasks, NEW p \in Paths, Covers(t, p),
         \A u \in Tasks \ {t} : pc'[u] = pc[u] /\ local'[u] = local[u],
         tainted' = tainted, idToPath' = idToPath,
         \A q \in Paths \ {p} : Kept(q),
         \A j \in Ids : pathToId'[p] = j => pathToId[p] = j \/ Has(t, j),
         \A j \in Ids : Has(t, j)' =>
           \/ Has(t, j)
           \/ \E q \in Paths : Covers(t, q) /\ pathToId[q] = j
           \/ Issues(t, j)
  PROVE  Spares(t) /\ \A q \in Paths \ {p} : SameAt(q)
  BY DEF Spares, Kept, SameAt

\* The request goes on making the path p.
LEMMA CreateGoes ==
  ASSUME ControlOK, ControlOK', IsolatedOK, NEW t \in Tasks,
         NEW l \in {"incr", "zadd", "hash", "link", "p2i", "i2p"},
         pc[t] \in CreateLabels, Spares(t), pc'[t] = l,
         local'[t].path = local[t].path, local'[t].to = local[t].to, local'[t].op = local[t].op,
         nextId' >= nextId, FirstMount(t) => FirstMount(t)',
         NEW p, p = local[t].path, NEW i, i = local'[t].id,
         Clean(t) => Creating(l, p, i)',
         Clean(t) /\ FirstMount(t)' => \A q \in Paths \ {<<>>} : q \notin nodes'
  PROVE  IsolatedOK'
  <1>1. Goes(t) /\ local[t].to = None /\ BearingsOf(pc[t], local[t])
    BY OwnIs DEF Goes
  <1>2. Clean(t)' <=> Clean(t)
    BY <1>1, GoerKeeps
  <1>3. OwnDoings(t)'
    <2>1. SUFFICES ASSUME NEW r, r = local'[t]
                   PROVE  BearingsOf(l, r) /\ (Clean(t) => HalfwayOf(l, r)')
      BY <1>2 DEF OwnDoings
    <2>2. BearingsOf(l, r)
      BY <1>1, <2>1 DEF BearingsOf, CreateLabels, RemoveLabels, CommitLabels
    <2>3. r.path = p /\ r.id = i
      BY <2>1
    <2>4. Clean(t) => HalfwayOf(l, r)'
      BY <2>3 DEF HalfwayOf, RemoveLabels, MovingLabels, NodeLabels, EntryLabels, OldEntryLabels
    <2>. QED  BY <2>2, <2>4
  <1>. QED  BY <1>1, <1>3, GoesIsolated

LEMMA ExistsIsolated ==
  ASSUME ControlOK, ControlOK', IsolatedOK, NEW t \in Tasks, Exists(t)
  PROVE  IsolatedOK'
  <1>0. /\ pc[t] = "exists" /\ UNCHANGED store /\ tainted' = tainted /\ ~FirstMount(t)
        /\ pc[t] \in CreateLabels /\ pc[t] # "idle" /\ local[t].path \in Paths
    BY OwnIs DEF Exists, history, FirstMount, CreateLabels
  <1>1. CASE Finish(t)
    <2>1. ASSUME Clean(t), NEW p \in Paths, Covers(t, p)
          PROVE  Sound(p)
      <3>1. Creating("exists", local[t].path, local[t].id)
        BY <1>0, <2>1, CreatingIs
      <3>2. p \in AtOrBelow(local[t].path)
        BY <1>0, <2>1, OwnIs
      <3>. QED  BY <3>1, <3>2 DEF Creating, Under
    <2>. QED  BY <1>0, <1>1, <2>1, ReadEnds
  <1>2. CASE local[t].path \notin nodes /\ Goto(t, "incr") /\ local' = local
    <2>0. PICK p, i : p = local[t].path /\ i = local[t].id
      OBVIOUS
    <2>1. /\ \A u \in Tasks \ {t} : pc'[u] = pc[u] /\ local'[u] = local[u]
          /\ pc'[t] = "incr" /\ local'[t] = local[t]
      BY <1>0, <1>2, GoesOnAt
    <2>2. \A j \in Ids : ~Has(t, j)'
      BY <2>1 DEF Has, HandLabels, EntryLabels, OldEntryLabels
    <2>3. Spares(t)
      BY <1>0, <2>1, <2>2, ReadSpares DEF store
    <2>4. ASSUME Clean(t)
          PROVE  Creating("incr", p, i)'
      <3>1. Creating("exists", p, i)
        BY <1>0, <2>0, <2>4, CreatingIs
      <3>2. p \in Paths /\ p \notin nodes
        BY <1>0, <1>2, <2>0
      <3>3. Sound(p)
        BY <3>1 DEF Creating
      <3>4. /\ pathToId[p] = None /\ Holds(p, None)
            /\ \A j \in Ids : idToPath[j] # p
        BY <3>2, <3>3, SoundKnows, NamespaceAssumption DEF Ids
      <3>5. ASSUME NEW q \in Under(p), Parent(q) = p
            PROVE  q \notin nodes
        <4>1. Sound(q) /\ q \in Paths /\ q # <<>>
          BY <3>1, <3>2, <3>5, ParentUnder DEF Creating, Under, AtOrBelow
        <4>. QED  BY <3>2, <3>5, <4>1, SoundKnows DEF DirAt
      <3>6. Creating("incr", p, i)
        BY <3>1, <3>2, <3>4, <3>5 DEF Creating, HandLabels
      <3>7. SameOver(p)
        BY <1>0, StoreSame DEF SameOver
      <3>. QED  BY <3>2, <3>6, <3>7, CreatingSame
    <2>5. nextId' >= nextId /\ ~FirstMount(t)'
      BY <1>0, <2>1 DEF store, FirstMount, ControlOK, TypeOK
    <2>. QED  BY <1>0, <2>0, <2>1, <2>3, <2>4, <2>5, CreateGoes
  <1>. QED  BY <1>1, <1>2 DEF Exists

\* The calls of create_node and what comes before them, but the last one.
LEMMA CreateWrites ==
  ASSUME ControlOK, ControlOK', IsolatedOK, NEW t \in Tasks,
         pc[t] \in {"zadd", "hash", "link", "p2i"},
         NEW l \in {"hash", "link", "p2i", "i2p"}, Goto(t, l), local' = local,
         UNCHANGED <<idToPath, nextId, tainted>>,
         NEW p, p = local[t].path, NEW i, i = local[t].id,
         \A q \in Paths \ {p} : Kept(q), pathToId'[p] \in {pathToId[p], i},
         Creating(pc[t], p, i) =>
           /\ p \in nodes'
           /\ pathToId'[p] = (IF l = "i2p" THEN i ELSE None)
           /\ IF l = "link"
              THEN meta'[p] = [type |-> "link", id |-> i] /\ data'[p] = None /\ p \notin links'
              ELSE Holds(p, IF l \in {"p2i", "i2p"} THEN i ELSE None)'
  PROVE  IsolatedOK'
  <1>1. /\ pc[t] \in CreateLabels \ {"reset"} /\ pc[t] \in HandLabels /\ l \in HandLabels
        /\ pc[t] # "idle" /\ l # "idle"
    BY DEF CreateLabels, HandLabels
  <1>2. p \in Paths /\ Covers(t, p) /\ p \in AtOrBelow(p)
    BY <1>1, OwnIs, CoversOwn
  <1>3. /\ \A u \in Tasks \ {t} : pc'[u] = pc[u] /\ local'[u] = local[u]
        /\ pc'[t] = l /\ local'[t] = local[t]
    BY <1>1, GoesOnAt
  <1>4. Has(t, i) /\ \A j \in Ids : Has(t, j)' => Has(t, j)
    BY <1>1, <1>3 DEF Has, HandLabels, EntryLabels, OldEntryLabels
  <1>5. Spares(t) /\ \A q \in Paths \ {p} : SameAt(q)
    <2>1. \A j \in Ids : pathToId'[p] = j => pathToId[p] = j \/ Has(t, j)
      BY <1>4
    <2>. QED  BY <1>2, <1>3, <1>4, <2>1, WriteSpares
  <1>6. FirstMount(t)' <=> FirstMount(t)
    BY <1>3 DEF FirstMount
  <1>7. ASSUME Clean(t), FirstMount(t)', NEW q \in Paths \ {<<>>}
        PROVE  q \notin nodes'
    <2>1. q \notin nodes /\ p = <<>>
      BY <1>1, <1>6, <1>7, OwnIs DEF FirstMount, BearingsOf
    <2>. QED  BY <1>5, <1>7, <2>1 DEF SameAt, Kept
  <1>8. ASSUME Clean(t)
        PROVE  Creating(l, p, i)'
    <2>1. /\ Creating(pc[t], p, i)
          /\ p # <<>> => Parent(p) \in Paths \ {p}
      BY <1>1, <1>2, <1>8, CreatingIs
    <2>2. /\ \A j \in Ids : idToPath'[j] # p
          /\ \A q \in Under(p) : pathToId[q] # i
      BY <1>1, <2>1 DEF Creating
    <2>3. \A q \in Under(p) : SameAt(q)
      BY <1>5 DEF Under, AtOrBelow
    <2>. QED  BY <1>2, <1>5, <2>1, <2>2, <2>3, CreatingGoes
  <1>9. nextId' >= nextId
    BY DEF ControlOK, TypeOK
  <1>. QED  BY <1>1, <1>3, <1>5, <1>6, <1>7, <1>8, <1>9, CreateGoes

LEMMA CreateWritesIsolated ==
  ASSUME ControlOK, ControlOK', IsolatedOK, NEW t \in Tasks,
         ZAdd(t) \/ PutHash(t) \/ PutLink(t) \/ PutPathToId(t)
  PROVE  IsolatedOK'
  <1>0. PICK p, i : p = local[t].path /\ i = local[t].id
    OBVIOUS
  <1>1. pc[t] \in {"zadd", "hash", "link", "p2i"} /\ UNCHANGED <<idToPath, nextId, tainted>>
        /\ local' = local
    BY DEF ZAdd, PutHash, PutLink, PutPathToId, history, index
  <1>2. /\ ControlOf(pc[t], local[t]) /\ local[t] \in Locals /\ pc[t] \in IdLabels
        /\ p \in Paths /\ i \in Ids
    BY <1>0, <1>1 DEF ControlOK, TypeOK, ControlOf, IdLabels
  <1>3. CASE ZAdd(t)
    <2>1. /\ pc[t] = "zadd" /\ Goto(t, "hash") /\ nodes' = nodes \cup {p}
          /\ UNCHANGED <<hashes, pathToId>>
      BY <1>0, <1>3 DEF ZAdd
    <2>2. \A q \in Paths \ {p} : Kept(q)
      BY <2>1 DEF Kept, hashes
    <2>3. Creating(pc[t], p, i) =>
            p \in nodes' /\ pathToId'[p] = None /\ Holds(p, None)'
      BY <2>1 DEF Creating, Holds, hashes
    <2>. QED  BY <1>0, <1>1, <2>1, <2>2, <2>3, CreateWrites
  <1>4. CASE PutHash(t)
    <2>. DEFINE h == [type |-> TypeOf(local[t].op), id |-> i]
    <2>0. PICK l : l = AfterHash(t)
      OBVIOUS
    <2>1. /\ pc[t] = "hash" /\ Goto(t, l) /\ meta' = [meta EXCEPT ![p] = h]
          /\ UNCHANGED <<data, links, index>>
      BY <1>0, <1>4, <2>0 DEF PutHash
    <2>2. /\ l = (IF local[t].op = "symlink" THEN "link" ELSE "p2i")
          /\ h.type \in Types /\ h.id = i /\ (h.type = "link" <=> local[t].op = "symlink")
          /\ h \in Hash
      BY <1>2, <2>0 DEF AfterHash, TypeOf, Types, Hash
    <2>3. h # None /\ h.type # None
      BY <2>2, NamespaceAssumption
    <2>4. meta'[p] = h /\ \A q \in Paths \ {p} : Kept(q)
      BY <1>2, <2>1 DEF Kept, index, ControlOK, TypeOK
    <2>5. ASSUME Creating(pc[t], p, i)
          PROVE  /\ p \in nodes' /\ pathToId'[p] = None
                 /\ IF l = "link"
                    THEN /\ meta'[p] = [type |-> "link", id |-> i]
                         /\ data'[p] = None /\ p \notin links'
                    ELSE Holds(p, i)'
      <3>1. /\ p \in nodes' /\ pathToId'[p] = None /\ data'[p] = None /\ p \notin links'
        BY <2>1, <2>5 DEF Creating, Holds, index
      <3>2. l = "link" => h = [type |-> "link", id |-> i]
        BY <2>2
      <3>3. l # "link" => Holds(p, i)'
        <4>. HIDE DEF h
        <4>1. i # None
          BY <1>2, NamespaceAssumption DEF Ids
        <4>. QED  BY <2>2, <2>3, <2>4, <3>1, <4>1 DEF Holds
      <3>. QED  BY <2>4, <3>1, <3>2, <3>3
    <2>. HIDE DEF h
    <2>6. l \in {"link", "p2i"} /\ pathToId'[p] = pathToId[p]
      BY <2>1, <2>2 DEF index
    <2>. QED  BY <1>0, <1>1, <2>1, <2>4, <2>5, <2>6, CreateWrites
  <1>5. CASE PutLink(t)
    <2>1. /\ pc[t] = "link" /\ Goto(t, "p2i") /\ links' = links \cup {p}
          /\ UNCHANGED <<meta, data, index>>
      BY <1>0, <1>5 DEF PutLink
    <2>2. \A q \in Paths \ {p} : Kept(q)
      BY <2>1 DEF Kept, index
    <2>3. ASSUME Creating(pc[t], p, i)
          PROVE  p \in nodes' /\ pathToId'[p] = None /\ Holds(p, i)'
      <3>1. /\ p \in nodes' /\ pathToId'[p] = None /\ data'[p] = None /\ p \in links'
            /\ meta'[p] = [type |-> "link", id |-> i]
        BY <2>1, <2>3 DEF Creating, index
      <3>2. [type |-> "link", id |-> i] \in Hash /\ "link" \in Types
        BY <1>2 DEF Hash, Types
      <3>3. meta'[p] # None /\ "link" # None /\ i # None
        BY <1>2, <3>1, <3>2, NamespaceAssumption DEF Ids
      <3>. QED  BY <3>1, <3>3 DEF Holds
    <2>4. pathToId'[p] = pathToId[p]
      BY <2>1 DEF index
    <2>. QED  BY <1>0, <1>1, <2>1, <2>2, <2>3, <2>4, CreateWrites
  <1>6. CASE PutPathToId(t)
    <2>1. /\ pc[t] = "p2i" /\ Goto(t, "i2p") /\ pathToId' = [pathToId EXCEPT ![p] = i]
          /\ UNCHANGED <<hashes, nodes>>
      BY <1>0, <1>6 DEF PutPathToId
    <2>2. pathToId'[p] = i /\ \A q \in Paths \ {p} : Kept(q)
      BY <1>2, <2>1 DEF Kept, hashes, ControlOK, TypeOK
    <2>3. Creating(pc[t], p, i) => p \in nodes' /\ Holds(p, i)'
      BY <2>1 DEF Creating, Holds, hashes
    <2>. QED  BY <1>0, <1>1, <2>1, <2>2, <2>3, CreateWrites
  <1>. QED  BY <1>3, <1>4, <1>5, <1>6

\* With the directory intact, a request that names its root is the only one.
LEMMA AloneAtRoot ==
  ASSUME ControlOK, IsolatedOK, NEW t \in Tasks, local[t].path = <<>>, pc[t] # "idle",
         Intact(<<>>), NEW u \in Tasks \ {t}
  PROVE  pc[u] = "idle"
  <1>1. SUFFICES ASSUME pc[u] # "idle"  PROVE FALSE
    OBVIOUS
  <1>2. local[u].path \in Named(u) /\ local[u].path \in Paths /\ <<>> \in Named(t)
    BY <1>1, NamedPaths
  <1>3. Related(<<>>, local[u].path) /\ Prefix(<<>>, <<>>)
    BY <1>2, PrefixRoot DEF Related
  <1>4. <<>> \in tainted
    BY <1>2, <1>3 DEF IsolatedOK, ApartOK
  <1>. QED  BY <1>3, <1>4 DEF Intact

\* What the counter has not come to is nowhere.
LEMMA NextIsNowhere ==
  ASSUME ControlOK, IsolatedOK, NEW t \in Tasks, pc[t] # "idle", ~FirstMount(t), Intact(<<>>),
         NEW i \in Ids, i > nextId
  PROVE  Marks(i) = {}
  <1>1. i \in Int /\ nextId \in Int /\ ~(i <= nextId)
    BY NamespaceAssumption DEF ControlOK, TypeOK, Ids
  <1>2. ASSUME NEW u \in Tasks, FirstMount(u)
        PROVE  FALSE
    <2>1. u # t /\ pc[u] # "idle" /\ local[u].path = <<>>
      BY <1>2 DEF FirstMount, IsolatedOK, DoingOK, BearingsOf
    <2>. QED  BY <2>1, AloneAtRoot
  <1>. QED  BY <1>1, <1>2 DEF IsolatedOK, FreshOK

\* A clean request knows that the root is intact.
LEMMA CleanAtRoot ==
  ASSUME ControlOK, IsolatedOK, NEW t \in Tasks, pc[t] # "idle"
  PROVE  /\ Clean(t) => Intact(<<>>)
         /\ local[t].path = <<>> /\ Intact(<<>>) => Clean(t)
  <1>1. local[t].path \in Paths /\ Covers(t, local[t].path)
    BY CoversOwn
  <1>2. Clean(t) <=> Intact(local[t].path)
    BY <1>1, CoveredIntact DEF IsolatedOK
  <1>. QED  BY <1>1, <1>2, PrefixRoot, IntactAbove

\* The task gets an id that was nowhere.
LEMMA IssueGoes ==
  ASSUME ControlOK, ControlOK', IsolatedOK, NEW t \in Tasks, pc[t] \in {"incr", "empty"},
         NEW i \in Ids, local' = [local EXCEPT ![t].id = i], Goto(t, "zadd"),
         UNCHANGED <<hashes, index, tainted>>, nextId' >= nextId,
         Intact(<<>>) => Marks(i) = {} /\ (i <= nextId' \/ (i = 1 /\ local[t].op = "mount")),
         Clean(t) /\ local[t].op = "mount" /\ i = 1 => \A q \in Paths \ {<<>>} : q \notin nodes
  PROVE  IsolatedOK'
  <1>0. PICK p, j : p = local[t].path /\ j = local[t].id
    OBVIOUS
  <1>1. /\ pc[t] \in CreateLabels \ {"reset"} /\ pc[t] # "idle" /\ ~FirstMount(t)
        /\ pc[t] \notin HandLabels /\ "zadd" # "idle"
    BY DEF CreateLabels, FirstMount, HandLabels
  <1>2. /\ \A u \in Tasks \ {t} : pc'[u] = pc[u] /\ local'[u] = local[u]
        /\ pc'[t] = "zadd" /\ local'[t].path = local[t].path /\ local'[t].to = local[t].to
        /\ local'[t].op = local[t].op
    BY <1>1, GoesOnAt
  <1>3. local'[t].id = i
    BY DEF ControlOK, TypeOK, Locals
  <1>4. FirstMount(t)' <=> local[t].op = "mount" /\ i = 1
    BY <1>2, <1>3 DEF FirstMount
  <1>5. Spares(t)
    <2>1. Issues(t, i)
      BY <1>4 DEF Issues
    <2>2. \A k \in Ids : Has(t, k)' => k = i
      BY <1>2, <1>3 DEF Has, EntryLabels, OldEntryLabels
    <2>. QED  BY <1>2, <2>1, <2>2, ReadSpares
  <1>6. ASSUME Clean(t)
        PROVE  Creating("zadd", p, i)'
    <2>1. Creating(pc[t], p, j) /\ p \in Paths /\ Marks(i) = {}
      BY <1>0, <1>1, <1>6, CreatingIs, CleanAtRoot, OwnIs
    <2>2. \A q \in Under(p) : pathToId[q] # i
      BY <2>1 DEF Marks, Under, AtOrBelow
    <2>3. Creating("zadd", p, i)
      BY <1>1, <2>1, <2>2 DEF Creating
    <2>4. SameOver(p)
      BY DEF SameOver, SameAt, Kept, hashes, index
    <2>. QED  BY <2>1, <2>3, <2>4, CreatingSame
  <1>7. Clean(t) /\ FirstMount(t)' => \A q \in Paths \ {<<>>} : q \notin nodes'
    BY <1>4 DEF index
  <1>. QED  BY <1>0, <1>1, <1>2, <1>3, <1>5, <1>6, <1>7, CreateGoes

LEMMA IncrIsolated ==
  ASSUME ControlOK, ControlOK', IsolatedOK, Redis = TRUE, NEW t \in Tasks, Incr(t)
  PROVE  IsolatedOK'
  <1>0. PICK i : i = nextId + 1
    OBVIOUS
  <1>1. /\ pc[t] = "incr" /\ nextId < MaxId /\ local' = [local EXCEPT ![t].id = i]
        /\ nextId' = i /\ Goto(t, "zadd") /\ UNCHANGED <<hashes, index, tainted>>
    BY <1>0 DEF Incr
  <1>2. nextId \in 0 .. MaxId
    BY DEF ControlOK, TypeOK
  <1>3. i \in Ids /\ i > nextId /\ nextId' >= nextId /\ i <= nextId'
    BY <1>0, <1>1, <1>2, NamespaceAssumption DEF Ids
  <1>4. ~FirstMount(t) /\ pc[t] # "idle"
    BY <1>1 DEF FirstMount
  <1>5. Intact(<<>>) => Marks(i) = {}
    BY <1>3, <1>4, NextIsNowhere
  <1>6. ASSUME Clean(t), local[t].op = "mount", i = 1, NEW q \in Paths \ {<<>>}, q \in nodes
        PROVE  FALSE
    <2>1. Intact(<<>>) /\ local[t].path = <<>>
      BY <1>4, <1>6, CleanAtRoot DEF IsolatedOK, DoingOK, BearingsOf
    <2>2. Creating("incr", <<>>, local[t].id)
      BY <1>1, <1>6, <2>1, CreatingIs DEF CreateLabels
    <2>3. Sound(q)
      BY <1>6, <2>2, PrefixRoot DEF Creating, Under, AtOrBelow
    <2>4. PICK k \in Ids : pathToId[q] = k
      BY <1>6, <2>3, SoundKnows
    <2>5. k > nextId
      BY <1>0, <1>2, <1>6, NamespaceAssumption DEF Ids
    <2>6. q \in Marks(k)
      BY <1>6, <2>4 DEF Marks
    <2>. QED  BY <1>4, <2>1, <2>5, <2>6, NextIsNowhere
  <1>. QED  BY <1>1, <1>3, <1>5, <1>6, IssueGoes

LEMMA EmptyIsolated ==
  ASSUME ControlOK, ControlOK', IsolatedOK, NEW t \in Tasks, MountEmpty(t)
  PROVE  IsolatedOK'
  <1>1. /\ pc[t] = "empty" /\ pc[t] # "idle" /\ UNCHANGED store /\ tainted' = tainted
        /\ ~FirstMount(t) /\ pc[t] \in CreateLabels \ {"reset"}
    BY DEF MountEmpty, FirstMount, CreateLabels
  <1>2. /\ local[t].op = "mount" /\ local[t].path = <<>> /\ local[t].path \in Paths
    BY <1>1, OwnIs DEF BearingsOf
  <1>3. Clean(t) => Creating("empty", <<>>, local[t].id)
    BY <1>1, <1>2, CreatingIs
  <1>4. CASE nodes = {} /\ local' = [local EXCEPT ![t].id = 1] /\ Goto(t, "zadd")
    <2>1. 1 \in Ids
      BY NamespaceAssumption DEF Ids
    <2>2. ASSUME Intact(<<>>), NEW q \in Marks(1)
          PROVE  FALSE
      <3>1. Clean(t) /\ \A u \in Tasks \ {t} : pc[u] = "idle"
        BY <1>1, <1>2, <2>2, CleanAtRoot, AloneAtRoot
      <3>2. \A u \in Tasks : ~Has(u, 1)
        BY <1>1, <3>1 DEF Has, HandLabels, EntryLabels, OldEntryLabels
      <3>3. q \in Paths /\ (pathToId[q] = 1 \/ idToPath[1] = q)
        BY <2>2, <3>2 DEF Marks
      <3>4. q # <<>> /\ Sound(q)
        <4>1. q # <<>>
          BY <1>3, <2>1, <3>1, <3>3, NamespaceAssumption DEF Creating, Ids
        <4>. QED  BY <1>3, <3>1, <3>3, <4>1, PrefixRoot DEF Creating, Under, AtOrBelow
      <3>5. pathToId[q] = 1
        BY <2>1, <3>3, <3>4, SoundKnows
      <3>. QED  BY <1>4, <2>1, <3>3, <3>4, <3>5, SoundKnows, NamespaceAssumption DEF Ids
    <2>3. UNCHANGED <<hashes, index, tainted>> /\ nextId' >= nextId
      BY <1>1 DEF store, ControlOK, TypeOK
    <2>4. Intact(<<>>) => Marks(1) = {} /\ local[t].op = "mount"
      BY <1>2, <2>2
    <2>5. \A q \in Paths : q \notin nodes
      BY <1>4
    <2>. QED  BY <1>1, <1>4, <2>1, <2>3, <2>4, <2>5, IssueGoes
  <1>5. CASE Goto(t, "incr") /\ local' = local
    <2>0. PICK p, i : p = <<>> /\ i = local[t].id
      OBVIOUS
    <2>1. /\ \A u \in Tasks \ {t} : pc'[u] = pc[u] /\ local'[u] = local[u]
          /\ pc'[t] = "incr" /\ local'[t] = local[t]
      BY <1>1, <1>5, GoesOnAt
    <2>2. \A j \in Ids : ~Has(t, j)'
      BY <2>1 DEF Has, HandLabels, EntryLabels, OldEntryLabels
    <2>3. Spares(t)
      BY <1>1, <2>1, <2>2, ReadSpares DEF store
    <2>4. ASSUME Clean(t)
          PROVE  Creating("incr", p, i)'
      <3>1. Creating("empty", p, i)
        BY <1>3, <2>0, <2>4
      <3>2. Creating("incr", p, i)
        BY <3>1 DEF Creating, HandLabels
      <3>3. p \in Paths /\ SameOver(p)
        BY <1>1, <1>2, <2>0, StoreSame DEF SameOver
      <3>. QED  BY <3>2, <3>3, CreatingSame
    <2>5. nextId' >= nextId /\ ~FirstMount(t)'
      BY <1>1, <2>1 DEF store, FirstMount, ControlOK, TypeOK
    <2>. QED  BY <1>1, <1>2, <2>0, <2>1, <2>3, <2>4, <2>5, CreateGoes
  <1>. QED  BY <1>4, <1>5 DEF MountEmpty

LEMMA ResetIsolated ==
  ASSUME ControlOK, ControlOK', IsolatedOK, NEW t \in Tasks, MountReset(t)
  PROVE  IsolatedOK'
  <1>1. /\ pc[t] = "reset" /\ pc[t] # "idle" /\ Finish(t) /\ nextId' = 1
        /\ UNCHANGED <<hashes, index>> /\ tainted' = tainted /\ pc[t] \in CreateLabels
    BY DEF MountReset, CreateLabels, history
  <1>2. /\ local[t].op = "mount" /\ local[t].path = <<>> /\ local[t].id = 1 /\ FirstMount(t)
    BY <1>1, OwnIs DEF BearingsOf, FirstMount
  <1>3. ASSUME Clean(t)
        PROVE  /\ \A q \in Paths : Sound(q) /\ (q # <<>> => q \notin nodes)
               /\ pathToId[<<>>] = 1
    <2>1. AllSound(<<>>, 1)
      BY <1>1, <1>2, <1>3, OwnIs DEF HalfwayOf
    <2>2. \A q \in Paths : q # <<>> => q \notin nodes
      BY <1>1, <1>2, <1>3, OwnIs
    <2>. QED  BY <2>1, <2>2, PrefixRoot DEF AllSound, AtOrBelow
  <1>4. \A i \in Ids : ~Has(t, i)'
    BY <1>1, EnderLeaves
  <1>5. Spares(t)
    BY <1>1, <1>4, FinishOthers, ReadSpares
  <1>6. Ends(t)
    <2>1. \A p \in Paths : SameAt(p)
      BY <1>1 DEF SameAt, Kept, hashes, index
    <2>2. \A p \in Paths : Sound(p) => Sound(p)'
      BY <2>1, SoundSame, ParentIs
    <2>. QED  BY <1>1, <1>3, <1>5, <2>2 DEF Ends
  <1>7. FreshOK'
    <2>1. SUFFICES ASSUME Intact(<<>>)', NEW i \in Ids, NEW q \in Marks(i)'
                   PROVE  i <= nextId'
      BY DEF FreshOK
    <2>2. Intact(<<>>)
      BY <1>1, <2>1 DEF Intact
    <2>3. Clean(t) /\ \A u \in Tasks \ {t} : pc[u] = "idle"
      BY <1>1, <1>2, <2>2, CleanAtRoot, AloneAtRoot
    <2>4. \A u \in Tasks : ~Has(u, i)'
      <3>1. \A u \in Tasks \ {t} : pc'[u] = "idle"
        BY <1>1, <2>3, FinishOthers
      <3>. QED  BY <1>4, <3>1 DEF Has, HandLabels, EntryLabels, OldEntryLabels
    <2>5. q \in Paths /\ (pathToId[q] = i \/ idToPath[i] = q)
      BY <1>1, <2>1, <2>4 DEF Marks, index
    <2>6. pathToId[q] = i
      BY <1>3, <2>3, <2>5, SoundKnows
    <2>7. q \in nodes
      BY <1>3, <2>3, <2>5, <2>6, SoundKnows, NamespaceAssumption DEF Ids
    <2>8. i = 1
      BY <1>3, <2>3, <2>5, <2>6, <2>7
    <2>. QED  BY <1>1, <2>8
  <1>. QED  BY <1>6, <1>7, EndsIsolated

\* The last call of create_node: the path is there, and what is below it as before.
LEMMA IdToPathIsolated ==
  ASSUME ControlOK, ControlOK', IsolatedOK, NEW t \in Tasks, PutIdToPath(t)
  PROVE  IsolatedOK'
  <1>0. PICK p, i : p = local[t].path /\ i = local[t].id
    OBVIOUS
  <1>1. /\ pc[t] = "i2p" /\ pc[t] # "idle" /\ idToPath' = [idToPath EXCEPT ![i] = p]
        /\ UNCHANGED <<hashes, nodes, pathToId, nextId>> /\ tainted' = tainted
        /\ pc[t] \in CreateLabels \ {"reset"}
    BY <1>0 DEF PutIdToPath, CreateLabels, history
  <1>2. i \in Ids /\ p \in Paths /\ Covers(t, p) /\ Has(t, i) /\ i # None
    <2>1. i \in Ids /\ p \in Paths
      BY <1>0, <1>1 DEF ControlOK, ControlOf, IdLabels
    <2>. QED  BY <1>0, <1>1, <2>1, CoversOwn, NamespaceAssumption DEF Has, HandLabels, Ids
  <1>3. \A j \in Ids : idToPath'[j] = IF j = i THEN p ELSE idToPath[j]
    BY <1>1 DEF ControlOK, TypeOK
  <1>4. \A q \in Paths : Kept(q)
    BY <1>1 DEF Kept, hashes
  <1>5. ASSUME Clean(t)
        PROVE  (\A q \in AtOrBelow(p) : Sound(q)') /\ pathToId'[p] = i
    <2>1. Creating("i2p", p, i)
      BY <1>0, <1>1, <1>5, CreatingIs
    <2>2. /\ p \in nodes /\ pathToId[p] = i /\ Holds(p, i) /\ (p # <<>> => DirAt(Parent(p)))
          /\ \A j \in Ids : idToPath[j] # p
          /\ \A q \in Under(p) : Sound(q) /\ pathToId[q] # i
      BY <2>1 DEF Creating, HandLabels
    <2>3. Sound(p)'
      <3>1. p # <<>> => DirAt(Parent(p))'
        BY <1>1, <2>2 DEF DirAt, hashes
      <3>2. p \in nodes' /\ pathToId'[p] = i /\ Holds(p, i)'
        BY <1>1, <2>2 DEF Holds, hashes
      <3>3. \A j \in Ids : idToPath'[j] = p <=> i = j
        BY <1>3, <2>2
      <3>. QED  BY <1>2, <3>1, <3>2, <3>3 DEF Sound, Whole
    <2>4. ASSUME NEW q \in Under(p)
          PROVE  Sound(q)'
      <3>1. q \in Paths /\ q # p /\ Sound(q) /\ pathToId[q] # i
        BY <2>2, <2>4 DEF Under, AtOrBelow
      <3>2. idToPath[i] # q
        BY <1>2, <3>1, SoundKnows
      <3>3. SameAt(q)
        BY <1>3, <1>4, <3>1, <3>2 DEF SameAt
      <3>4. Whole(q)'
        BY <3>1, <3>3 DEF Sound, SameAt, Kept, Whole, Holds
      <3>5. q \in nodes' /\ q # <<>> => DirAt(Parent(q))'
        BY <1>1, <3>1 DEF Sound, DirAt, hashes
      <3>. QED  BY <3>4, <3>5 DEF Sound
    <2>. QED  BY <1>1, <2>2, <2>3, <2>4 DEF Under
  <1>6. nextId' >= nextId
    BY <1>1 DEF ControlOK, TypeOK
  <1>7. ASSUME \A u \in Tasks \ {t} : pc'[u] = pc[u] /\ local'[u] = local[u],
               \A j \in Ids : ~Has(t, j)'
        PROVE  Spares(t)
    <2>1. \A j \in Ids, q \in Paths :
            /\ idToPath'[j] = q /\ idToPath[j] # q => Has(t, j) /\ Covers(t, q)
            /\ idToPath'[j] # q /\ idToPath[j] = q => Has(t, j)
            /\ pathToId'[q] = j => pathToId[q] = j \/ Has(t, j)
      BY <1>1, <1>2, <1>3
    <2>. QED  BY <1>1, <1>4, <1>7, <2>1 DEF Spares
  <1>8. CASE local[t].op = "mount" /\ i = 1 /\ Goto(t, "reset") /\ local' = local
    <2>1. /\ \A u \in Tasks \ {t} : pc'[u] = pc[u] /\ local'[u] = local[u]
          /\ pc'[t] = "reset" /\ local'[t] = local[t] /\ pc'[t] # "idle"
      BY <1>1, <1>8, GoesOnAt
    <2>2. \A j \in Ids : ~Has(t, j)'
      BY <2>1 DEF Has, HandLabels, EntryLabels, OldEntryLabels
    <2>3. Goes(t)
      BY <1>1, <1>7, <2>1, <2>2 DEF Goes
    <2>4. FirstMount(t) /\ FirstMount(t)'
      BY <1>0, <1>1, <1>8, <2>1 DEF FirstMount
    <2>5. OwnDoings(t)'
      <3>1. SUFFICES ASSUME NEW r, r = local'[t]
                     PROVE  /\ BearingsOf("reset", r)
                            /\ Clean(t) => HalfwayOf("reset", r)'
                            /\ Clean(t) => \A q \in Paths \ {<<>>} : q \notin nodes'
        BY <2>1, <2>3, GoerKeeps DEF OwnDoings
      <3>2. BearingsOf("reset", r)
        BY <1>0, <1>1, <1>8, <2>1, <3>1, OwnIs DEF BearingsOf
      <3>3. r.path = p /\ r.id = i
        BY <1>0, <2>1, <3>1
      <3>4. Clean(t) => AllSound(p, i)'
        BY <1>5 DEF AllSound
      <3>5. Clean(t) => HalfwayOf("reset", r)'
        BY <3>3, <3>4 DEF HalfwayOf, CreateLabels, RemoveLabels, MovingLabels, NodeLabels,
                          EntryLabels, OldEntryLabels
      <3>6. Clean(t) => \A q \in Paths \ {<<>>} : q \notin nodes'
        BY <1>1, <2>4, OwnIs
      <3>. QED  BY <3>2, <3>5, <3>6
    <2>. QED  BY <1>6, <2>3, <2>4, <2>5, GoesIsolated
  <1>9. CASE ~(local[t].op = "mount" /\ i = 1) /\ Finish(t)
    <2>1. Spares(t) /\ ~FirstMount(t) /\ pc'[t] = "idle"
      BY <1>0, <1>1, <1>7, <1>9, EnderLeaves, FinishOthers DEF FirstMount
    <2>2. FreshOK'
      BY <1>1, <1>6, <2>1, FreshKept
    <2>3. \A q \in Paths : Covers(t, q) => q \in AtOrBelow(p)
      BY <1>0, <1>1, OwnIs
    <2>4. Ends(t)
      BY <1>1, <1>5, <1>9, <2>1, <2>3 DEF Ends
    <2>. QED  BY <2>2, <2>4, EndsIsolated
  <1>. QED  BY <1>0, <1>8, <1>9 DEF PutIdToPath

-----------------------------------------------------------------------------
(***************************************************************************)
(* remove.                                                                 *)
(***************************************************************************)
LEMMA RemovingIs ==
  ASSUME ControlOK, IsolatedOK, NEW t \in Tasks, Clean(t), pc[t] \in RemoveLabels
  PROVE  Removing(pc[t], local[t].path, local[t].id)
  BY OwnIs DEF HalfwayOf

\* The request goes on removing the path p.
LEMMA RemoveGoes ==
  ASSUME ControlOK, ControlOK', IsolatedOK, NEW t \in Tasks,
         NEW l \in RemoveLabels, pc[t] \in RemoveLabels, Spares(t), pc'[t] = l,
         local'[t].path = local[t].path, local'[t].to = local[t].to, local'[t].op = local[t].op,
         UNCHANGED nextId, NEW p, p = local[t].path, NEW i, i = local'[t].id,
         Clean(t) => Removing(l, p, i)'
  PROVE  IsolatedOK'
  <1>1. Goes(t) /\ local[t].to = None /\ BearingsOf(pc[t], local[t])
    BY OwnIs DEF Goes, RemoveLabels
  <1>2. Clean(t)' <=> Clean(t)
    BY <1>1, GoerKeeps
  <1>3. ~FirstMount(t) /\ ~FirstMount(t)' /\ nextId' >= nextId
    BY DEF FirstMount, RemoveLabels, ControlOK, TypeOK
  <1>4. OwnDoings(t)'
    <2>1. SUFFICES ASSUME NEW r, r = local'[t]
                   PROVE  BearingsOf(l, r) /\ (Clean(t) => HalfwayOf(l, r)')
      BY <1>2, <1>3 DEF OwnDoings
    <2>2. BearingsOf(l, r)
      BY <1>1, <2>1 DEF BearingsOf, CreateLabels, RemoveLabels, CommitLabels
    <2>3. r.path = p /\ r.id = i
      BY <2>1
    <2>4. Clean(t) => HalfwayOf(l, r)'
      BY <2>3 DEF HalfwayOf, CreateLabels, RemoveLabels, MovingLabels, NodeLabels, EntryLabels,
                  OldEntryLabels
    <2>. QED  BY <2>2, <2>4
  <1>. QED  BY <1>1, <1>3, <1>4, GoesIsolated

\* There is nothing below a path that is removed.
LEMMA RemovingGoes ==
  ASSUME NEW p \in Paths, NEW l \in {"zrem", "delete", "unpath"},
         NEW m \in {"delete", "unpath", "unid"}, NEW i,
         Removing(l, p, i), \A q \in Under(p) : SameAt(q), p \notin nodes',
         pathToId'[p] = (IF m = "unid" THEN None ELSE i),
         \A j \in Ids : idToPath'[j] = p <=> j = i,
         Holds(p, IF m = "delete" THEN i ELSE None)'
  PROVE  Removing(m, p, i)'
  <1>1. ASSUME NEW q \in Under(p)
        PROVE  Sound(q)' /\ q \notin nodes'
    <2>1. SameAt(q) /\ Whole(q) /\ q \notin nodes
      BY DEF Removing, Sound
    <2>2. Whole(q)' /\ q \notin nodes'
      BY <2>1 DEF SameAt, Kept, Whole, Holds
    <2>. QED  BY <2>2 DEF Sound
  <1>. QED  BY <1>1 DEF Removing

LEMMA ScanIsolated ==
  ASSUME ControlOK, ControlOK', IsolatedOK, Redis = TRUE, NEW t \in Tasks, Scan(t)
  PROVE  IsolatedOK'
  <1>0. PICK p, i : p = local[t].path /\ i = local[t].id
    OBVIOUS
  <1>1. /\ pc[t] = "scan" /\ pc[t] # "idle" /\ UNCHANGED store /\ tainted' = tainted
        /\ ~FirstMount(t) /\ pc[t] \in RemoveLabels
    BY DEF Scan, history, FirstMount, RemoveLabels
  <1>2. Clean(t) => Removing("scan", p, i)
    BY <1>0, <1>1, RemovingIs
  <1>3. p \in Paths /\ \A q \in Paths : Covers(t, q) <=> q \in AtOrBelow(p)
    BY <1>0, <1>1, OwnIs
  <1>4. CASE Finish(t)
    <2>1. Clean(t) => \A q \in Paths : Covers(t, q) => Sound(q)
      BY <1>2, <1>3 DEF Removing, Under
    <2>. QED  BY <1>1, <1>4, <2>1, ReadEnds
  <1>5. CASE Children(p) = {} /\ Goto(t, "getid") /\ local' = local
    <2>1. /\ \A u \in Tasks \ {t} : pc'[u] = pc[u] /\ local'[u] = local[u]
          /\ pc'[t] = "getid" /\ local'[t] = local[t]
      BY <1>1, <1>5, GoesOnAt
    <2>2. \A j \in Ids : ~Has(t, j)'
      BY <2>1 DEF Has, HandLabels, EntryLabels, OldEntryLabels
    <2>3. Spares(t)
      BY <1>1, <2>1, <2>2, ReadSpares DEF store
    <2>4. ASSUME Clean(t)
          PROVE  Removing("getid", p, i)'
      <3>1. \A q \in Under(p) : q \notin nodes
        BY <1>5 DEF Children, Under, AtOrBelow, Below
      <3>2. Removing("getid", p, i)
        BY <1>2, <2>4, <3>1 DEF Removing
      <3>3. SameOver(p)
        BY <1>1, StoreSame DEF SameOver
      <3>. QED  BY <1>3, <3>2, <3>3, RemovingSame
    <2>. QED  BY <1>0, <1>1, <2>1, <2>3, <2>4, RemoveGoes DEF store, RemoveLabels
  <1>. QED  BY <1>0, <1>4, <1>5 DEF Scan

LEMMA GetIdIsolated ==
  ASSUME ControlOK, ControlOK', IsolatedOK, NEW t \in Tasks, GetId(t)
  PROVE  IsolatedOK'
  <1>0. PICK p, i : p = local[t].path /\ i = pathToId[p]
    OBVIOUS
  <1>1. /\ pc[t] = "getid" /\ pc[t] # "idle" /\ UNCHANGED store /\ tainted' = tainted
        /\ ~FirstMount(t) /\ pc[t] \in RemoveLabels
    BY DEF GetId, history, FirstMount, RemoveLabels
  <1>2. Clean(t) => Removing("getid", p, local[t].id)
    BY <1>0, <1>1, RemovingIs
  <1>3. /\ p \in Paths /\ \A q \in Paths : Covers(t, q) <=> q \in AtOrBelow(p)
        /\ Covers(t, p)
    BY <1>0, <1>1, OwnIs, CoversOwn
  <1>4. CASE Finish(t)
    <2>1. Clean(t) => \A q \in Paths : Covers(t, q) => Sound(q)
      BY <1>2, <1>3 DEF Removing, Under
    <2>. QED  BY <1>1, <1>4, <2>1, ReadEnds
  <1>5. CASE i # None /\ local' = [local EXCEPT ![t].id = i] /\ Goto(t, "zrem")
    <2>1. /\ \A u \in Tasks \ {t} : pc'[u] = pc[u] /\ local'[u] = local[u]
          /\ pc'[t] = "zrem" /\ local'[t].path = local[t].path /\ local'[t].to = local[t].to
          /\ local'[t].op = local[t].op
      BY <1>1, <1>5, GoesOnAt
    <2>2. local'[t].id = i /\ i \in Ids
      BY <1>0, <1>3, <1>5 DEF ControlOK, TypeOK, Locals
    <2>3. Spares(t)
      <3>1. \A j \in Ids : Has(t, j)' => j = i
        BY <2>1, <2>2 DEF Has, EntryLabels, OldEntryLabels
      <3>. QED  BY <1>0, <1>1, <1>3, <2>1, <3>1, ReadSpares DEF store
    <2>4. ASSUME Clean(t)
          PROVE  Removing("zrem", p, i)'
      <3>1. Sound(p) /\ \A q \in Under(p) : Sound(q) /\ q \notin nodes
        BY <1>2, <2>4 DEF Removing
      <3>2. p \in nodes /\ Holds(p, i) /\ \A j \in Ids : idToPath[j] = p <=> j = i
        BY <1>0, <1>3, <1>5, <3>1, SoundKnows
      <3>3. Removing("zrem", p, i)
        BY <1>0, <3>1, <3>2 DEF Removing
      <3>4. SameOver(p)
        BY <1>1, StoreSame DEF SameOver
      <3>. QED  BY <1>3, <3>3, <3>4, RemovingSame
    <2>. QED  BY <1>0, <1>1, <2>1, <2>2, <2>3, <2>4, RemoveGoes DEF store, RemoveLabels
  <1>. QED  BY <1>0, <1>4, <1>5 DEF GetId

\* The calls that remove the path from the nodes, the hashes and path_to_id.
LEMMA RemoveWrites ==
  ASSUME ControlOK, ControlOK', IsolatedOK, NEW t \in Tasks,
         NEW l \in {"zrem", "delete", "unpath"}, pc[t] = l,
         NEW m \in {"delete", "unpath", "unid"}, Goto(t, m), local' = local,
         UNCHANGED <<idToPath, nextId, tainted>>,
         NEW p, p = local[t].path, NEW i, i = local[t].id,
         \A q \in Paths \ {p} : Kept(q), pathToId'[p] \in {pathToId[p], None},
         Removing(l, p, i) =>
           /\ p \notin nodes' /\ pathToId'[p] = (IF m = "unid" THEN None ELSE i)
           /\ Holds(p, IF m = "delete" THEN i ELSE None)'
  PROVE  IsolatedOK'
  <1>1. /\ pc[t] \in RemoveLabels /\ m \in RemoveLabels /\ pc[t] \in HandLabels
        /\ m \in HandLabels /\ pc[t] # "idle" /\ m # "idle" /\ None \notin Ids
    BY NamespaceAssumption DEF RemoveLabels, HandLabels, Ids
  <1>2. p \in Paths /\ Covers(t, p)
    BY <1>1, OwnIs, CoversOwn
  <1>3. /\ \A u \in Tasks \ {t} : pc'[u] = pc[u] /\ local'[u] = local[u]
        /\ pc'[t] = m /\ local'[t] = local[t]
    BY <1>1, GoesOnAt
  <1>4. \A j \in Ids : Has(t, j)' => Has(t, j)
    BY <1>1, <1>3 DEF Has, HandLabels, EntryLabels, OldEntryLabels
  <1>5. Spares(t) /\ \A q \in Paths \ {p} : SameAt(q)
    BY <1>1, <1>2, <1>3, <1>4, WriteSpares
  <1>6. ASSUME Clean(t)
        PROVE  Removing(m, p, i)'
    <2>1. Removing(l, p, i)
      BY <1>1, <1>6, RemovingIs
    <2>2. \A j \in Ids : idToPath'[j] = p <=> j = i
      BY <2>1 DEF Removing
    <2>3. \A q \in Under(p) : SameAt(q)
      BY <1>5 DEF Under, AtOrBelow
    <2>. QED  BY <1>2, <2>1, <2>2, <2>3, RemovingGoes
  <1>. QED  BY <1>1, <1>3, <1>5, <1>6, RemoveGoes

LEMMA RemoveWritesIsolated ==
  ASSUME ControlOK, ControlOK', IsolatedOK, Redis = TRUE, NEW t \in Tasks,
         ZRem(t) \/ Delete(t) \/ DelPathToId(t)
  PROVE  IsolatedOK'
  <1>0. PICK p, i : p = local[t].path /\ i = local[t].id
    OBVIOUS
  <1>1. /\ pc[t] \in RemoveLabels /\ pc[t] # "idle" /\ UNCHANGED <<idToPath, nextId, tainted>>
        /\ local' = local
    BY DEF ZRem, Delete, DelPathToId, history, index, RemoveLabels
  <1>2. p \in Paths
    BY <1>0, <1>1, OwnIs
  <1>3. CASE ZRem(t)
    <2>1. /\ pc[t] = "zrem" /\ Goto(t, "delete") /\ nodes' = nodes \ {p}
          /\ UNCHANGED <<hashes, pathToId>>
      BY <1>0, <1>3 DEF ZRem
    <2>2. \A q \in Paths \ {p} : Kept(q)
      BY <2>1 DEF Kept, hashes
    <2>3. Removing("zrem", p, i) => p \notin nodes' /\ pathToId'[p] = i /\ Holds(p, i)'
      BY <2>1 DEF Removing, Holds, hashes
    <2>. QED  BY <1>0, <1>1, <2>1, <2>2, <2>3, RemoveWrites
  <1>4. CASE Delete(t)
    <2>1. /\ pc[t] = "delete" /\ Goto(t, "unpath") /\ UNCHANGED index
          /\ meta' = [meta EXCEPT ![p] = None] /\ data' = [data EXCEPT ![p] = None]
          /\ links' = links \ {p}
      BY <1>0, <1>4 DEF Delete
    <2>2. /\ \A q \in Paths \ {p} : Kept(q)
          /\ Holds(p, None)'
      BY <1>2, <2>1 DEF Kept, index, ControlOK, TypeOK, Holds
    <2>3. Removing("delete", p, i) => p \notin nodes' /\ pathToId'[p] = i
      BY <2>1 DEF Removing, index
    <2>4. pathToId'[p] = pathToId[p]
      BY <2>1 DEF index
    <2>. QED  BY <1>0, <1>1, <2>1, <2>2, <2>3, <2>4, RemoveWrites
  <1>5. CASE DelPathToId(t)
    <2>1. /\ pc[t] = "unpath" /\ Goto(t, "unid") /\ pathToId' = [pathToId EXCEPT ![p] = None]
          /\ UNCHANGED <<hashes, nodes>>
      BY <1>0, <1>5 DEF DelPathToId
    <2>2. pathToId'[p] = None /\ \A q \in Paths \ {p} : Kept(q)
      BY <1>2, <2>1 DEF Kept, hashes, ControlOK, TypeOK
    <2>3. Removing("unpath", p, i) => p \notin nodes' /\ Holds(p, None)'
      BY <2>1 DEF Removing, Holds, hashes
    <2>. QED  BY <1>0, <1>1, <2>1, <2>2, <2>3, RemoveWrites
  <1>. QED  BY <1>3, <1>4, <1>5

LEMMA UnidIsolated ==
  ASSUME ControlOK, ControlOK', IsolatedOK, NEW t \in Tasks, DelIdToPath(t)
  PROVE  IsolatedOK'
  <1>0. PICK p, i : p = local[t].path /\ i = local[t].id
    OBVIOUS
  <1>1. /\ pc[t] = "unid" /\ pc[t] # "idle" /\ Finish(t) /\ pc[t] \in RemoveLabels
        /\ idToPath' = [idToPath EXCEPT ![i] = None]
        /\ UNCHANGED <<hashes, nodes, pathToId, nextId>> /\ tainted' = tainted /\ ~FirstMount(t)
    BY <1>0 DEF DelIdToPath, history, RemoveLabels, FirstMount
  <1>2. /\ p \in Paths /\ \A q \in Paths : Covers(t, q) <=> q \in AtOrBelow(p)
    BY <1>0, <1>1, OwnIs
  <1>3. \A j \in Ids : idToPath'[j] = IF j = i THEN None ELSE idToPath[j]
    BY <1>1 DEF ControlOK, TypeOK
  <1>4. (\A j \in Ids : j = i => Has(t, j)) /\ None \notin Paths
    BY <1>0, <1>1, NamespaceAssumption DEF Has, HandLabels
  <1>5. \A q \in Paths : Kept(q)
    BY <1>1 DEF Kept, hashes
  <1>6. /\ \A j \in Ids : ~Has(t, j)'
        /\ \A u \in Tasks \ {t} : pc'[u] = pc[u] /\ local'[u] = local[u]
        /\ pc'[t] = "idle" /\ nextId' >= nextId
    BY <1>1, EnderLeaves, FinishOthers DEF ControlOK, TypeOK
  <1>7. Spares(t)
    <2>1. \A j \in Ids, q \in Paths :
            /\ idToPath'[j] = q /\ idToPath[j] # q => Has(t, j) /\ Covers(t, q)
            /\ idToPath'[j] # q /\ idToPath[j] = q => Has(t, j)
            /\ pathToId'[q] = j => pathToId[q] = j \/ Has(t, j)
      BY <1>1, <1>3, <1>4
    <2>. QED  BY <1>1, <1>5, <1>6, <2>1 DEF Spares
  <1>8. ASSUME Clean(t), NEW q \in AtOrBelow(p)
        PROVE  Sound(q)'
    <2>1. Removing("unid", p, i) /\ q \in Paths
      BY <1>0, <1>1, <1>8, RemovingIs DEF AtOrBelow
    <2>2. \A j \in Ids : idToPath[j] = p <=> j = i
      BY <2>1 DEF Removing
    <2>3. CASE q = p
      <3>1. p \notin nodes' /\ pathToId'[p] = None /\ Holds(p, None)'
        BY <1>1, <2>1 DEF Removing, Holds, hashes
      <3>2. \A j \in Ids : idToPath'[j] # p /\ j # None
        BY <1>2, <1>3, <1>4, <2>2, NamespaceAssumption DEF Ids
      <3>. QED  BY <2>3, <3>1, <3>2 DEF Sound, Whole
    <2>4. CASE q # p
      <3>1. Whole(q) /\ q \notin nodes
        BY <1>8, <2>1, <2>4 DEF Removing, Under, Sound
      <3>2. SameAt(q)
        BY <1>3, <1>4, <1>5, <2>1, <2>2, <2>4 DEF SameAt
      <3>3. Whole(q)' /\ q \notin nodes'
        BY <3>1, <3>2 DEF SameAt, Kept, Whole, Holds
      <3>. QED  BY <3>3 DEF Sound
    <2>. QED  BY <2>3, <2>4
  <1>9. Ends(t)
    BY <1>1, <1>2, <1>7, <1>8 DEF Ends
  <1>10. FreshOK'
    BY <1>1, <1>6, <1>7, FreshKept
  <1>. QED  BY <1>9, <1>10, EndsIsolated

-----------------------------------------------------------------------------
(***************************************************************************)
(* The commit of a content.                                                *)
(***************************************************************************)
LEMMA CommittingIs ==
  ASSUME ControlOK, IsolatedOK, NEW t \in Tasks, Clean(t), pc[t] \in {"put", "touch"}
  PROVE  AllSound(local[t].path, local[t].id)
  BY OwnIs DEF HalfwayOf, CommitLabels

LEMMA PutDataIsolated ==
  ASSUME ControlOK, ControlOK', IsolatedOK, NEW t \in Tasks, PutData(t)
  PROVE  IsolatedOK'
  <1>0. PICK p, i : p = local[t].path /\ i = local[t].id
    OBVIOUS
  <1>1. /\ pc[t] = "put" /\ pc[t] # "idle" /\ Goto(t, "touch") /\ local' = local
        /\ data' = [data EXCEPT ![p] = i] /\ pc[t] \in CommitLabels
        /\ UNCHANGED <<meta, links, index, nextId, tainted>> /\ ~FirstMount(t)
    BY <1>0 DEF PutData, history, CommitLabels, FirstMount
  <1>2. p \in Paths /\ Covers(t, p) /\ i \in Ids /\ i # None
    <2>1. p \in Paths /\ i \in Ids
      BY <1>0, <1>1 DEF ControlOK, ControlOf, IdLabels
    <2>. QED  BY <1>0, <1>1, <2>1, CoversOwn, NamespaceAssumption DEF Ids
  <1>3. /\ \A u \in Tasks \ {t} : pc'[u] = pc[u] /\ local'[u] = local[u]
        /\ pc'[t] = "touch" /\ local'[t] = local[t] /\ pc'[t] # "idle"
    BY <1>1, GoesOnAt
  <1>4. data'[p] = i /\ \A q \in Paths \ {p} : Kept(q)
    BY <1>1, <1>2 DEF Kept, index, ControlOK, TypeOK
  <1>5. UNCHANGED <<nodes, pathToId, idToPath>>
    BY <1>1 DEF index
  <1>6. Spares(t) /\ \A q \in Paths \ {p} : SameAt(q)
    <2>1. \A j \in Ids : ~Has(t, j)'
      BY <1>3 DEF Has, HandLabels, EntryLabels, OldEntryLabels
    <2>. QED  BY <1>1, <1>2, <1>3, <1>4, <1>5, <2>1, WriteSpares
  <1>7. ASSUME Clean(t)
        PROVE  AllSound(p, i)'
    <2>1. AllSound(p, i)
      BY <1>0, <1>1, <1>7, CommittingIs
    <2>2. \A q \in AtOrBelow(p) : Whole(q)'
      <3>1. ASSUME NEW q \in AtOrBelow(p), q # p
            PROVE  Whole(q)'
        <4>1. SameAt(q) /\ Whole(q)
          BY <1>6, <2>1, <3>1 DEF AllSound, Sound, AtOrBelow
        <4>. QED  BY <4>1 DEF SameAt, Kept, Whole, Holds
      <3>2. Whole(p)'
        <4>1. Whole(p) /\ pathToId[p] = i
          BY <1>2, <2>1, PrefixRefl DEF AllSound, Sound, AtOrBelow
        <4>. QED  BY <1>1, <1>2, <1>4, <1>5, <4>1 DEF Whole, Holds
      <3>. QED  BY <3>1, <3>2
    <2>3. \A q \in AtOrBelow(p) : q \in nodes' /\ q # <<>> => DirAt(Parent(q))'
      BY <1>1, <1>5, <2>1 DEF AllSound, Sound, DirAt
    <2>. QED  BY <1>5, <2>1, <2>2, <2>3 DEF AllSound, Sound
  <1>8. Goes(t)
    BY <1>1, <1>3, <1>6 DEF Goes
  <1>9. OwnDoings(t)'
    <2>1. ~FirstMount(t)' /\ (Clean(t)' <=> Clean(t))
      BY <1>3, <1>8, GoerKeeps DEF FirstMount
    <2>2. SUFFICES ASSUME NEW r, r = local'[t]
                   PROVE  BearingsOf("touch", r) /\ (Clean(t) => HalfwayOf("touch", r)')
      BY <1>3, <2>1 DEF OwnDoings
    <2>3. BearingsOf("touch", r)
      BY <1>1, <1>3, <2>2, OwnIs DEF BearingsOf, CommitLabels
    <2>4. r.path = p /\ r.id = i
      BY <1>0, <1>3, <2>2
    <2>5. Clean(t) => HalfwayOf("touch", r)'
      BY <1>7, <2>4 DEF HalfwayOf, CreateLabels, RemoveLabels, MovingLabels, NodeLabels,
                        EntryLabels, OldEntryLabels
    <2>. QED  BY <2>3, <2>5
  <1>10. nextId' >= nextId
    BY <1>1 DEF ControlOK, TypeOK
  <1>. QED  BY <1>1, <1>8, <1>9, <1>10, GoesIsolated

LEMMA TouchIsolated ==
  ASSUME ControlOK, ControlOK', IsolatedOK, Redis = TRUE, NEW t \in Tasks, Touch(t)
  PROVE  IsolatedOK'
  <1>0. PICK p, i : p = local[t].path /\ i = local[t].id
    OBVIOUS
  <1>1. /\ pc[t] = "touch" /\ pc[t] # "idle" /\ Finish(t) /\ pc[t] \in CommitLabels
        /\ meta' = [meta EXCEPT ![p] = Merged(@, None)]
        /\ UNCHANGED <<data, links, index, nextId, tainted>> /\ ~FirstMount(t)
    BY <1>0 DEF Touch, history, CommitLabels, FirstMount
  <1>2. /\ p \in Paths /\ Covers(t, p) /\ i \in Ids /\ i # None
        /\ \A q \in Paths : Covers(t, q) <=> q \in AtOrBelow(p)
    <2>1. p \in Paths /\ i \in Ids
      BY <1>0, <1>1 DEF ControlOK, ControlOf, IdLabels
    <2>. QED  BY <1>0, <1>1, <2>1, OwnIs, CoversOwn, NamespaceAssumption DEF Ids
  <1>3. /\ meta'[p] = Merged(meta[p], None)
        /\ \A q \in Paths \ {p} : Kept(q)
    BY <1>1, <1>2 DEF Kept, index, ControlOK, TypeOK
  <1>4. UNCHANGED <<nodes, pathToId, idToPath>>
    BY <1>1 DEF index
  <1>5. /\ \A j \in Ids : ~Has(t, j)'
        /\ \A u \in Tasks \ {t} : pc'[u] = pc[u] /\ local'[u] = local[u]
        /\ pc'[t] = "idle" /\ nextId' >= nextId
    BY <1>1, EnderLeaves, FinishOthers DEF ControlOK, TypeOK
  <1>6. Spares(t)
    BY <1>1, <1>2, <1>3, <1>4, <1>5, WriteSpares
  <1>7. ASSUME Clean(t), NEW q \in AtOrBelow(p)
        PROVE  Sound(q)'
    <2>1. AllSound(p, i)
      BY <1>0, <1>1, <1>7, CommittingIs
    <2>2. Sound(p) /\ pathToId[p] = i
      BY <1>2, <2>1, PrefixRefl DEF AllSound, AtOrBelow
    <2>3. meta'[p] = meta[p]
      <3>1. meta[p] # None /\ meta[p] \in Hash
        BY <1>2, <2>2 DEF Sound, Whole, Holds, ControlOK, TypeOK
      <3>2. \A h \in Hash : h = [type |-> h.type, id |-> h.id]
        BY DEF Hash
      <3>. QED  BY <1>3, <3>1, <3>2 DEF Merged
    <2>4. \A r \in Paths : SameAt(r)
      <3>1. Kept(p)
        BY <1>1, <1>4, <2>3 DEF Kept
      <3>. QED  BY <1>3, <1>4, <3>1 DEF SameAt
    <2>. QED  BY <1>7, <2>1, <2>4, SoundSame, ParentIs DEF AllSound, AtOrBelow
  <1>8. Ends(t)
    BY <1>1, <1>2, <1>6, <1>7 DEF Ends
  <1>9. FreshOK'
    BY <1>1, <1>5, <1>6, FreshKept
  <1>. QED  BY <1>8, <1>9, EndsIsolated

-----------------------------------------------------------------------------
(***************************************************************************)
(* rename: what the steps have in common.                                  *)
(***************************************************************************)
LEMMA RenameGoes ==
  ASSUME ControlOK, ControlOK', IsolatedOK, NEW t \in Tasks, pc[t] \in RenameLabels,
         NEW l \in RenameLabels \ (KeyLabels \cup {"etouchput"}), Spares(t), pc'[t] = l,
         local'[t].path = local[t].path, local'[t].to = local[t].to, local'[t].op = local[t].op,
         l = "moving" => local'[t].keys = {},
         UNCHANGED nextId, NEW r, r = local'[t], Clean(t) => HalfwayOf(l, r)'
  PROVE  IsolatedOK'
  <1>1. Goes(t)
    BY DEF Goes, RenameLabels
  <1>2. Clean(t)' <=> Clean(t)
    BY <1>1, GoerKeeps
  <1>3. ~FirstMount(t) /\ ~FirstMount(t)' /\ nextId' >= nextId
    BY DEF FirstMount, RenameLabels, ControlOK, TypeOK
  <1>4. BearingsOf(l, r)
    <2>1. BearingsOf(pc[t], local[t])
      BY DEF IsolatedOK, DoingOK
    <2>2. l \notin {"idle", "look", "incrput", "etouchput", "touchput", "empty", "reset"}
          /\ l \notin KeyLabels \cup CreateLabels \cup RemoveLabels \cup CommitLabels
      BY DEF RenameLabels, KeyLabels, CreateLabels, RemoveLabels, CommitLabels
    <2>. QED  BY <2>1, <2>2 DEF BearingsOf
  <1>5. OwnDoings(t)'
    BY <1>2, <1>3, <1>4 DEF OwnDoings
  <1>. QED  BY <1>1, <1>3, <1>5, GoesIsolated

LEMMA SourceIsolated ==
  ASSUME ControlOK, ControlOK', IsolatedOK, NEW t \in Tasks, RenameSource(t)
  PROVE  IsolatedOK'
  <1>0. PICK r : r = local[t]
    OBVIOUS
  <1>1. /\ pc[t] = "source" /\ pc[t] # "idle" /\ UNCHANGED store /\ tainted' = tainted
        /\ ~FirstMount(t) /\ pc[t] \in RenameLabels
    BY DEF RenameSource, history, FirstMount, RenameLabels
  <1>2. ASSUME Clean(t)
        PROVE  Renaming("source", r) /\ \A q \in Paths : Covers(t, q) => Sound(q)
    BY <1>0, <1>1, <1>2, RenamingCovers
  <1>3. CASE Finish(t)
    BY <1>1, <1>2, <1>3, ReadEnds
  <1>4. CASE r.path \in nodes /\ Goto(t, "target") /\ local' = local
    <2>1. /\ \A u \in Tasks \ {t} : pc'[u] = pc[u] /\ local'[u] = local[u]
          /\ pc'[t] = "target" /\ local'[t] = local[t]
      BY <1>1, <1>4, GoesOnAt
    <2>2. \A j \in Ids : ~Has(t, j)'
      BY <2>1 DEF Has, HandLabels, EntryLabels, OldEntryLabels
    <2>3. Spares(t)
      BY <1>1, <2>1, <2>2, ReadSpares DEF store
    <2>4. ASSUME Clean(t)
          PROVE  HalfwayOf("target", r)'
      <3>1. Renaming("target", r)
        BY <1>2, <1>4, <2>4 DEF Renaming
      <3>2. HalfwayOf("target", r)
        BY <3>1 DEF HalfwayOf, CreateLabels, RemoveLabels, MovingLabels, NodeLabels,
                    EntryLabels, OldEntryLabels
      <3>3. r \in Locals /\ ControlOf("target", r)
        BY <1>0, <2>1 DEF ControlOK, TypeOK
      <3>. QED  BY <1>1, <3>2, <3>3, StoreHalfway
    <2>. QED  BY <1>0, <1>1, <2>1, <2>3, <2>4, RenameGoes DEF store, RenameLabels
  <1>. QED  BY <1>0, <1>3, <1>4 DEF RenameSource

\* A request that moves what it renames.
LEMMA MoverIs ==
  ASSUME ControlOK, NEW t \in Tasks, pc[t] \in MovingLabels
  PROVE  /\ pc[t] # "idle" /\ ~FirstMount(t) /\ pc[t] \in RenameLabels
         /\ local[t].path \in Paths /\ local[t].to \in Paths /\ Fits(local[t].path, local[t].to)
         /\ \A q \in AtOrBelow(local[t].path) \cup AtOrBelow(local[t].to) :
              q \in Paths /\ Covers(t, q)
         /\ \A q \in AtOrBelow(local[t].path) : Covers(t, NewPath(t, q)) /\ NewPath(t, q) \in Paths
         /\ local[t].path \in AtOrBelow(local[t].path) /\ local[t].to \in AtOrBelow(local[t].to)
  <1>1. pc[t] # "idle" /\ ~FirstMount(t) /\ pc[t] \in RenameLabels
    BY DEF MovingLabels, NodeLabels, EntryLabels, OldEntryLabels, FirstMount, RenameLabels
  <1>2. local[t].path \in Paths /\ local[t].to \in Paths /\ Fits(local[t].path, local[t].to)
    BY <1>1 DEF ControlOK, ControlOf, Fits
  <1>3. \A q \in AtOrBelow(local[t].path) \cup AtOrBelow(local[t].to) : q \in Paths /\ Covers(t, q)
    BY <1>1, <1>2, CoversOwn, NamespaceAssumption
  <1>4. local[t].path \in AtOrBelow(local[t].path) /\ local[t].to \in AtOrBelow(local[t].to)
    BY <1>2, PrefixRefl DEF AtOrBelow
  <1>5. \A q \in AtOrBelow(local[t].path) : NewPath(t, q) \in AtOrBelow(local[t].to)
    BY <1>2, NewPathIs DEF NewPath
  <1>. QED  BY <1>1, <1>2, <1>3, <1>4, <1>5

\* What was moving is moving still, and the ids that there were when the rename began
\* are the same.
MovingGoesOn(t) ==
  \A l \in {pc'[t]}, r \in {local[t]}, s \in {local'[t]} :
    \A F \in [AtOrBelow(r.path) \cup AtOrBelow(r.to) -> Ids \cup {None}] :
      Clean(t) /\ Moving(pc[t], r, F) => Moving(l, s, F)'

LEMMA MoverGoes ==
  ASSUME ControlOK, ControlOK', IsolatedOK, NEW t \in Tasks, pc[t] \in MovingLabels,
         NEW m \in MovingLabels \ (KeyLabels \cup {"etouchput"}), Spares(t), pc'[t] = m,
         local'[t].path = local[t].path, local'[t].to = local[t].to, local'[t].op = local[t].op,
         UNCHANGED nextId, NEW r, r = local[t], NEW s, s = local'[t], m = "moving" => s.keys = {},
         \A F \in [AtOrBelow(r.path) \cup AtOrBelow(r.to) -> Ids \cup {None}] :
            Clean(t) /\ Moving(pc[t], r, F) => Moving(m, s, F)'
  PROVE  IsolatedOK' /\ MovingGoesOn(t)
  <1>1. /\ pc[t] \in RenameLabels /\ m \in RenameLabels \ (KeyLabels \cup {"etouchput"})
        /\ r.path = s.path /\ r.to = s.to
    BY DEF MovingLabels, NodeLabels, EntryLabels, OldEntryLabels, RenameLabels
  <1>2. ASSUME Clean(t)
        PROVE  HalfwayOf(m, s)'
    <2>1. HalfwayOf(pc[t], r)
      BY <1>2 DEF IsolatedOK, DoingOK
    <2>2. PICK F \in [AtOrBelow(r.path) \cup AtOrBelow(r.to) -> Ids \cup {None}] :
             Moving(pc[t], r, F)
      BY <2>1 DEF HalfwayOf
    <2>3. Moving(m, s, F)'
      BY <1>2, <2>2
    <2>4. F \in [AtOrBelow(s.path) \cup AtOrBelow(s.to) -> Ids \cup {None}]
      BY <1>1, <2>2
    <2>5. m \notin CreateLabels /\ m \notin RemoveLabels
          /\ m \notin {"reset", "put", "touch", "source", "target"}
      BY DEF MovingLabels, NodeLabels, EntryLabels, OldEntryLabels, CreateLabels, RemoveLabels
    <2>. QED  BY <2>3, <2>4, <2>5 DEF HalfwayOf
  <1>3. MovingGoesOn(t)
    BY DEF MovingGoesOn
  <1>. QED  BY <1>1, <1>2, <1>3, RenameGoes

\* Of the file that was at q, as much is done at step m as at step l.
SamePhase(l, r, m, s, F, q) ==
  /\ HashLeft(l, r, q) <=> HashLeft(m, s, q)
  /\ NodeLeft(l, r, q) <=> NodeLeft(m, s, q)
  /\ NodeMade(l, r, q) <=> NodeMade(m, s, q)
  /\ IdLeft(l, r, q, F[q]) <=> IdLeft(m, s, q, F[q])
  /\ IdMade(l, r, q, F[q]) <=> IdMade(m, s, q, F[q])
  /\ PathLeft(l, r, q, F[q]) <=> PathLeft(m, s, q, F[q])
  /\ PathMade(l, r, q, F[q]) <=> PathMade(m, s, q, F[q])

\* Of the file that was replaced.
SameTarget(l, r, m, s, F) ==
  F[r.to] # None =>
    ((l \in EntryLabels => <<r.to, F[r.to]>> \in r.todo)
       <=> (m \in EntryLabels => <<r.to, F[r.to]>> \in s.todo))

LEMMA MovingKept ==
  ASSUME NEW r, r.path \in Paths, r.to \in Paths, Fits(r.path, r.to), NEW s, s.path = r.path,
         s.to = r.to, NEW l, NEW m, NEW F, Moving(l, r, F), NEW q \in AtOrBelow(r.path),
         SameAt(q), NEW n, n = Moved(q, r.path, r.to), SameAt(n),
         F[q] # None => SamePhase(l, r, m, s, F, q),
         q = r.path => SameTarget(l, r, m, s, F)
  PROVE  OldAt(m, s, F, q)' /\ NewAt(m, s, F, q, n)'
  <1>1. OldAt(l, r, F, q) /\ NewAt(l, r, F, q, n)
    BY DEF Moving
  <1>2. q \in Paths /\ n \in Paths /\ n \in AtOrBelow(r.to)
    BY NewPathIs
  <1>3. \A i : (Holds(q, i) <=> Holds(q, i)') /\ (Holds(n, i) <=> Holds(n, i)')
    BY <1>2, HoldsSame
  <1>4. None \notin Ids
    BY NamespaceAssumption DEF Ids
  <1>5. CASE F[q] = None
    <2>1. q # r.path
      BY <1>5 DEF Moving, TreeOK
    <2>2. n # r.to
      <3>1. r.path \in AtOrBelow(r.path) /\ Moved(r.path, r.path, r.to) = r.to
        BY MovedSelf, PrefixRefl DEF AtOrBelow
      <3>. QED  BY <2>1, <3>1, NewPathIs
    <2>3. F[n] = None
      BY <1>2, <2>2 DEF Moving, TreeOK, Under
    <2>4. OldAt(m, s, F, q)'
      BY <1>1, <1>3, <1>4, <1>5 DEF OldAt, SameAt, Kept
    <2>5. NewAt(m, s, F, q, n)'
      BY <1>1, <1>3, <1>4, <1>5, <2>3 DEF NewAt, SameAt, Kept
    <2>. QED  BY <1>5, <2>4, <2>5
  <1>6. CASE F[q] # None
    <2>1. SamePhase(l, r, m, s, F, q)
      BY <1>6
    <2>2. \A i : F[q] = i => /\ PathLeft(l, r, q, i) <=> PathLeft(m, s, q, i)
                             /\ PathMade(l, r, q, i) <=> PathMade(m, s, q, i)
      BY <2>1 DEF SamePhase
    <2>3. OldAt(m, s, F, q)'
      BY <1>1, <1>3, <2>1, <2>2 DEF OldAt, SameAt, Kept, SamePhase
    <2>4. \A i \in Ids : F[n] = i => ((l \in EntryLabels => <<n, i>> \in r.todo)
                                        <=> (m \in EntryLabels => <<n, i>> \in s.todo))
      <3>1. CASE n = r.to
        <4>1. q = r.path
          <5>1. r.path \in AtOrBelow(r.path) /\ Moved(r.path, r.path, r.to) = r.to
            BY MovedSelf, PrefixRefl DEF AtOrBelow
          <5>2. Moved(q, r.path, r.to) = Moved(r.path, r.path, r.to)
            BY <3>1, <5>1
          <5>. QED  BY <5>1, <5>2, NewPathIs
        <4>. QED  BY <1>4, <3>1, <4>1 DEF SameTarget
      <3>2. CASE n # r.to
        BY <1>2, <1>4, <3>2 DEF Moving, TreeOK, Under
      <3>. QED  BY <3>1, <3>2
    <2>5. NewAt(m, s, F, q, n)'
      <3>1. n \in nodes' <=> F[n] # None \/ (F[q] # None /\ NodeMade(m, s, q))
        BY <1>1, <2>1 DEF NewAt, SameAt, Kept, SamePhase
      <3>2. pathToId'[n] = IF IdMade(m, s, q, F[q]) THEN F[q] ELSE F[n]
        BY <1>1, <2>1 DEF NewAt, SameAt, Kept, SamePhase
      <3>3. \A i \in Ids : idToPath'[i] = n <=>
              \/ F[n] = i /\ (m \in EntryLabels => <<n, i>> \in s.todo)
              \/ F[q] = i /\ PathMade(m, s, q, i)
        BY <1>1, <2>2, <2>4 DEF NewAt, SameAt
      <3>4. Holds(n, IF HashLeft(m, s, q) THEN F[n] ELSE F[q])'
        BY <1>1, <1>3, <2>1 DEF NewAt, SamePhase
      <3>. QED  BY <3>1, <3>2, <3>3, <3>4 DEF NewAt
    <2>. QED  BY <2>3, <2>5
  <1>. QED  BY <1>5, <1>6

\* A step of the rename, from what it does at each path.
LEMMA MovingStep ==
  ASSUME NEW r, r.path \in Paths, r.to \in Paths, Fits(r.path, r.to), NEW s, s.path = r.path,
         s.to = r.to, NEW l, NEW m, NEW F, Moving(l, r, F),
         \A q \in AtOrBelow(r.path) :
            OldAt(m, s, F, q)' /\ NewAt(m, s, F, q, Moved(q, r.path, r.to))',
         \A n \in AtOrBelow(r.to) :
            (\A q \in AtOrBelow(r.path) : n # Moved(q, r.path, r.to)) => SameAt(n),
         SameAt(Parent(r.to)), ListsOK(m, s, F)
  PROVE  Moving(m, s, F)'
  <1>1. ASSUME NEW n \in AtOrBelow(r.to),
               \A q \in AtOrBelow(r.path) : n # Moved(q, r.path, r.to)
        PROVE  Sound(n)' /\ n \notin nodes'
    <2>1. SameAt(n) /\ Whole(n) /\ n \notin nodes
      BY <1>1 DEF Moving, Sound
    <2>2. Whole(n)' /\ n \notin nodes'
      BY <2>1 DEF SameAt, Kept, Whole, Holds
    <2>. QED  BY <2>2 DEF Sound
  <1>2. TreeOK(s, F)'
    BY DEF Moving, TreeOK, SameAt, Kept, DirAt
  <1>3. ListsOK(m, s, F)'
    OBVIOUS
  <1>. QED  BY <1>1, <1>2, <1>3 DEF Moving

\* The directory of the new path is not moved.
LEMMA TargetDirectory ==
  ASSUME NEW p \in Paths, NEW to \in Paths, Fits(p, to), ~Related(p, to)
  PROVE  /\ to # <<>> /\ Parent(to) \in Paths
         /\ \A q \in AtOrBelow(p) : Parent(to) # q /\ Parent(to) # Moved(q, p, to)
  <1>1. to # <<>>
    BY PrefixRoot DEF Related
  <1>2. Parent(to) \in Paths /\ Prefix(Parent(to), to) /\ ~Prefix(to, Parent(to))
    BY <1>1, ParentIs
  <1>3. ASSUME NEW q \in AtOrBelow(p)
        PROVE  Parent(to) # q /\ Parent(to) # Moved(q, p, to)
    <2>1. Prefix(p, q) /\ Prefix(to, Moved(q, p, to))
      BY NewPathIs DEF AtOrBelow
    <2>2. ~Prefix(p, Parent(to))
      BY <1>2, PrefixTrans DEF Related
    <2>. QED  BY <1>2, <2>1, <2>2
  <1>. QED  BY <1>1, <1>2, <1>3

\* A step that writes nothing but the old and the new path of one file.
LEMMA MovingWrite ==
  ASSUME NEW r, r.path \in Paths, r.to \in Paths, Fits(r.path, r.to), NEW s, s.path = r.path,
         s.to = r.to, NEW l, NEW m, NEW F, Moving(l, r, F),
         NEW o \in AtOrBelow(r.path), NEW n, n = Moved(o, r.path, r.to),
         \A q \in Paths \ {o, n} : SameAt(q),
         \A q \in AtOrBelow(r.path) \ {o} : F[q] # None => SamePhase(l, r, m, s, F, q),
         o # r.path => SameTarget(l, r, m, s, F),
         OldAt(m, s, F, o)', NewAt(m, s, F, o, n)', ListsOK(m, s, F)
  PROVE  Moving(m, s, F)'
  <1>1. ~Related(r.path, r.to)
    BY DEF Moving
  <1>2. ASSUME NEW q \in AtOrBelow(r.path)
        PROVE  OldAt(m, s, F, q)' /\ NewAt(m, s, F, q, Moved(q, r.path, r.to))'
    <2>1. CASE q = o
      BY <2>1
    <2>2. CASE q # o
      <3>0. PICK k : k = Moved(q, r.path, r.to)
        OBVIOUS
      <3>1. q \in Paths /\ k \in Paths /\ n \in AtOrBelow(r.to) /\ k \in AtOrBelow(r.to)
        BY <3>0, NewPathIs
      <3>2. q # n /\ k # o /\ k # n
        BY <1>1, <2>2, <3>0, <3>1, NewPathIs
      <3>3. SameAt(q) /\ SameAt(k)
        BY <2>2, <3>1, <3>2
      <3>4. /\ F[q] # None => SamePhase(l, r, m, s, F, q)
            /\ q = r.path => SameTarget(l, r, m, s, F)
        BY <2>2
      <3>5. OldAt(m, s, F, q)' /\ NewAt(m, s, F, q, k)'
        BY <3>0, <3>3, <3>4, MovingKept
      <3>. QED  BY <3>0, <3>5
    <2>. QED  BY <2>1, <2>2
  <1>3. ASSUME NEW k \in AtOrBelow(r.to), \A q \in AtOrBelow(r.path) : k # Moved(q, r.path, r.to)
        PROVE  SameAt(k)
    <2>1. k # n /\ k # o /\ k \in Paths
      BY <1>1, <1>3, NewPathIs DEF AtOrBelow
    <2>. QED  BY <2>1
  <1>4. SameAt(Parent(r.to))
    BY <1>1, TargetDirectory
  <1>. QED  BY <1>2, <1>3, <1>4, MovingStep

\* A step that writes nothing.
LEMMA MovingRead ==
  ASSUME NEW r, r.path \in Paths, r.to \in Paths, Fits(r.path, r.to), NEW s, s.path = r.path,
         s.to = r.to, NEW l, NEW m, NEW F, Moving(l, r, F), \A q \in Paths : SameAt(q),
         \A q \in AtOrBelow(r.path) : F[q] # None => SamePhase(l, r, m, s, F, q),
         SameTarget(l, r, m, s, F), ListsOK(m, s, F)
  PROVE  Moving(m, s, F)'
  <1>1. ASSUME NEW q \in AtOrBelow(r.path)
        PROVE  OldAt(m, s, F, q)' /\ NewAt(m, s, F, q, Moved(q, r.path, r.to))'
    <2>0. PICK k : k = Moved(q, r.path, r.to)
      OBVIOUS
    <2>1. q \in Paths /\ k \in Paths
      BY <2>0, NewPathIs
    <2>. QED  BY <2>0, <2>1, MovingKept
  <1>2. SameAt(Parent(r.to))
    BY TargetDirectory DEF Moving
  <1>. QED  BY <1>1, <1>2, MovingStep DEF AtOrBelow

-----------------------------------------------------------------------------
(***************************************************************************)
(* rename: the steps that read.                                            *)
(***************************************************************************)
\* The file at the path that is renamed.
LEMMA MovedIsThere ==
  ASSUME ControlOK, IsolatedOK, NEW t \in Tasks, Clean(t), pc[t] = "type"
  PROVE  meta[local[t].path] # None /\ meta[local[t].path].type # None
  <1>0. PICK r : r = local[t]
    OBVIOUS
  <1>1. HalfwayOf("type", r) /\ "type" \in MovingLabels
    BY <1>0 DEF IsolatedOK, DoingOK, MovingLabels
  <1>2. PICK F : Moving("type", r, F)
    BY <1>1 DEF HalfwayOf
  <1>3. r.path \in AtOrBelow(r.path)
    BY <1>0, <1>1, MoverIs
  <1>4. OldAt("type", r, F, r.path) /\ F[r.path] # None
    BY <1>2, <1>3 DEF Moving, TreeOK
  <1>5. HashLeft("type", r, r.path)
    BY DEF HashLeft
  <1>. QED  BY <1>0, <1>4, <1>5 DEF OldAt, Holds

LEMMA TypeIsolated ==
  ASSUME ControlOK, ControlOK', IsolatedOK, Redis = TRUE, NEW t \in Tasks, RenameType(t)
  PROVE  IsolatedOK' /\ MovingGoesOn(t)
  <1>0. PICK r : r = local[t]
    OBVIOUS
  <1>1. /\ pc[t] = "type" /\ UNCHANGED store /\ tainted' = tainted
        /\ pc[t] \in MovingLabels /\ "move" \in MovingLabels
    BY DEF RenameType, history, MovingLabels
  <1>2. pc[t] # "idle" /\ ~FirstMount(t)
    BY <1>1, MoverIs
  <1>3. CASE ~(meta[r.path] # None /\ meta[r.path].type # None) /\ Finish(t)
    <2>1. ~Clean(t)
      BY <1>0, <1>1, <1>3, MovedIsThere
    <2>2. MovingGoesOn(t)
      BY <2>1 DEF MovingGoesOn
    <2>. QED  BY <1>1, <1>2, <1>3, <2>1, <2>2, ReadEnds
  <1>4. CASE Goto(t, "move") /\ local' = local
    <2>1. /\ \A u \in Tasks \ {t} : pc'[u] = pc[u] /\ local'[u] = local[u]
          /\ pc'[t] = "move" /\ local'[t] = local[t]
      BY <1>2, <1>4, GoesOnAt
    <2>2. \A j \in Ids : ~Has(t, j)'
      BY <2>1 DEF Has, HandLabels, EntryLabels, OldEntryLabels
    <2>3. Spares(t)
      BY <1>1, <2>1, <2>2, ReadSpares DEF store
    <2>4. ASSUME NEW F, Moving("type", r, F)
          PROVE  Moving("move", r, F)'
      <3>1. \A q : SamePhase("type", r, "move", r, F, q)
        BY DEF SamePhase, HashLeft, NodeLeft, NodeMade, IdLeft, IdMade, PathLeft, PathMade,
               EntryLabels, OldEntryLabels
      <3>2. SameTarget("type", r, "move", r, F) /\ ListsOK("move", r, F)
        BY DEF SameTarget, ListsOK, EntryLabels, OldEntryLabels
      <3>3. \A q \in Paths : SameAt(q)
        BY <1>1, StoreSame
      <3>. QED  BY <1>0, <1>1, <2>4, <3>1, <3>2, <3>3, MoverIs, MovingRead
    <2>. QED  BY <1>0, <1>1, <2>1, <2>3, <2>4, MoverGoes DEF store
  <1>. QED  BY <1>0, <1>3, <1>4 DEF RenameType

\* What a task keeps when it writes its lists.
LEMMA TodoGoes ==
  ASSUME ControlOK, NEW t \in Tasks, NEW T, local' = [local EXCEPT ![t].todo = T]
  PROVE  /\ \A u \in Tasks \ {t} : local'[u] = local[u]
         /\ local'[t].path = local[t].path /\ local'[t].to = local[t].to
         /\ local'[t].op = local[t].op /\ local'[t].todo = T /\ local'[t].keys = local[t].keys
  BY DEF ControlOK, TypeOK, Locals

LEMMA KeyDropped ==
  ASSUME ControlOK, NEW t \in Tasks, NEW T,
         local' = [local EXCEPT ![t].key = None, ![t].todo = T]
  PROVE  /\ \A u \in Tasks \ {t} : local'[u] = local[u]
         /\ local'[t].path = local[t].path /\ local'[t].to = local[t].to
         /\ local'[t].op = local[t].op /\ local'[t].todo = T
  BY DEF ControlOK, TypeOK, Locals

LEMMA TodoCleared ==
  ASSUME ControlOK, NEW t \in Tasks, NEW T,
         local' = [local EXCEPT ![t].cur = None, ![t].todo = T]
  PROVE  /\ \A u \in Tasks \ {t} : local'[u] = local[u]
         /\ local'[t].path = local[t].path /\ local'[t].to = local[t].to
         /\ local'[t].op = local[t].op /\ local'[t].todo = T
  BY DEF ControlOK, TypeOK, Locals

LEMMA KeysIsolated ==
  ASSUME ControlOK, ControlOK', IsolatedOK, Redis = TRUE, NEW t \in Tasks, Keys(t)
  PROVE  IsolatedOK' /\ MovingGoesOn(t)
  <1>0. PICK r, s : r = local[t] /\ s = local'[t]
    OBVIOUS
  <1>1. /\ pc[t] = "keys" /\ UNCHANGED store /\ tainted' = tainted
        /\ pc[t] \in MovingLabels /\ "moving" \in MovingLabels
        /\ pc' = [pc EXCEPT ![t] = "moving"]
    BY DEF Keys, history, MovingLabels, NodeLabels, Goto
  <1>2. /\ \A u \in Tasks \ {t} : pc'[u] = pc[u] /\ local'[u] = local[u]
        /\ pc'[t] = "moving"
        /\ s.path = r.path /\ s.to = r.to /\ s.op = r.op
        /\ s.todo = {q \in AtOrBelow(r.path) : Keyed(q) /\ q # r.path} /\ s.keys = {}
    <2>. DEFINE T == {q \in AtOrBelow(local[t].path) \ {local[t].path} : Redis /\ Keyed(q)}
    <2>0. PICK K : K = {}
      OBVIOUS
    <2>1. local' = [local EXCEPT ![t].todo = T, ![t].keys = K]
      <3>1. local' = [local EXCEPT
              ![t].todo = {q \in AtOrBelow(local[t].path) \ {local[t].path} : Redis /\ Keyed(q)},
              ![t].keys = {k \in AtOrBelow(local[t].path) \X Kinds :
                             ~Redis /\ HasKey(k[1], k[2]) /\ k # <<local[t].path, "hash">>}]
        BY DEF Keys
      <3>. QED  BY <2>0, <3>1 DEF T
    <2>2. T = {q \in AtOrBelow(r.path) : Keyed(q) /\ q # r.path}
      BY <1>0
    <2>. HIDE DEF T
    <2>3. pc'[t] = "moving" /\ \A u \in Tasks \ {t} : pc'[u] = pc[u]
      BY <1>1 DEF ControlOK, TypeOK
    <2>4. /\ \A u \in Tasks \ {t} : local'[u] = local[u]
          /\ s.path = r.path /\ s.to = r.to /\ s.op = r.op /\ s.todo = T /\ s.keys = {}
      <3>1. /\ \A u \in Tasks \ {t} : local'[u] = local[u]
            /\ local'[t].path = local[t].path /\ local'[t].to = local[t].to
            /\ local'[t].op = local[t].op /\ local'[t].todo = T /\ local'[t].keys = K
        BY <2>1 DEF ControlOK, TypeOK, Locals
      <3>. QED  BY <1>0, <2>0, <3>1
    <2>. QED  BY <2>2, <2>3, <2>4
  <1>3. Spares(t)
    <2>1. \A j \in Ids : ~Has(t, j)'
      BY <1>2 DEF Has, HandLabels, EntryLabels, OldEntryLabels
    <2>. QED  BY <1>1, <1>2, <2>1, ReadSpares DEF store
  <1>4. ASSUME NEW F, Moving("keys", r, F)
        PROVE  Moving("moving", s, F)'
    <2>1. ASSUME NEW q \in AtOrBelow(r.path), F[q] # None
          PROVE  SamePhase("keys", r, "moving", s, F, q)
      <3>1. q # r.path => Keyed(q)
        BY <1>4, <2>1 DEF Moving, OldAt, HashLeft, Holds, Keyed
      <3>2. HashLeft("keys", r, q) <=> HashLeft("moving", s, q)
        BY <1>2, <2>1, <3>1 DEF HashLeft
      <3>. QED  BY <3>2 DEF SamePhase, NodeLeft, NodeMade, IdLeft, IdMade, PathLeft, PathMade,
                            EntryLabels, OldEntryLabels
    <2>2. SameTarget("keys", r, "moving", s, F) /\ ListsOK("moving", s, F)
      BY <1>2 DEF SameTarget, ListsOK, EntryLabels, OldEntryLabels
    <2>3. \A q \in Paths : SameAt(q)
      BY <1>1, StoreSame
    <2>. QED  BY <1>0, <1>1, <1>2, <1>4, <2>1, <2>2, <2>3, MoverIs, MovingRead
  <1>20. pc[t] \in MovingLabels /\ "moving" \in MovingLabels \ (KeyLabels \cup {"etouchput"})
    BY <1>1 DEF MovingLabels, NodeLabels, EntryLabels, OldEntryLabels
  <1>21. \A F \in [AtOrBelow(r.path) \cup AtOrBelow(r.to) -> Ids \cup {None}] :
           Clean(t) /\ Moving(pc[t], r, F) => Moving("moving", s, F)'
    BY <1>1, <1>4
  <1>22. UNCHANGED nextId /\ pc'[t] = "moving"
    BY <1>1, <1>2 DEF store, ControlOK, TypeOK, Goto, Keys
  <1>. QED  BY <1>0, <1>2, <1>3, <1>20, <1>21, <1>22, MoverGoes

LEMMA NodesIsolated ==
  ASSUME ControlOK, ControlOK', IsolatedOK, NEW t \in Tasks, Nodes(t)
  PROVE  IsolatedOK' /\ MovingGoesOn(t)
  <1>0. PICK r, s : r = local[t] /\ s = local'[t]
    OBVIOUS
  <1>1. /\ pc[t] = "moving" /\ UNCHANGED store /\ tainted' = tainted /\ r.todo = {}
        /\ pc[t] \in MovingLabels /\ "node" \in MovingLabels
        /\ pc' = [pc EXCEPT ![t] = "node"]
    BY <1>0 DEF Nodes, history, MovingLabels, NodeLabels, Goto
  <1>2. /\ \A u \in Tasks \ {t} : pc'[u] = pc[u] /\ local'[u] = local[u]
        /\ pc'[t] = "node"
        /\ s.path = r.path /\ s.to = r.to /\ s.op = r.op
        /\ s.todo = nodes \cap AtOrBelow(r.path)
    <2>. DEFINE T == nodes \cap AtOrBelow(r.path)
    <2>1. local' = [local EXCEPT ![t].key = None, ![t].todo = T]
      BY <1>0 DEF Nodes
    <2>2. pc'[t] = "node" /\ \A u \in Tasks \ {t} : pc'[u] = pc[u]
      BY <1>1 DEF ControlOK, TypeOK
    <2>. HIDE DEF T
    <2>3. /\ \A u \in Tasks \ {t} : local'[u] = local[u]
          /\ s.path = r.path /\ s.to = r.to /\ s.op = r.op /\ s.todo = T
      <3>1. /\ \A u \in Tasks \ {t} : local'[u] = local[u]
            /\ local'[t].path = local[t].path /\ local'[t].to = local[t].to
            /\ local'[t].op = local[t].op /\ local'[t].todo = T
        BY <2>1, KeyDropped
      <3>. QED  BY <1>0, <3>1
    <2>. QED  BY <2>2, <2>3 DEF T
  <1>3. Spares(t)
    <2>1. \A j \in Ids : ~Has(t, j)'
      BY <1>2 DEF Has, HandLabels, EntryLabels, OldEntryLabels
    <2>. QED  BY <1>1, <1>2, <2>1, ReadSpares DEF store
  <1>4. ASSUME NEW F, Moving("moving", r, F)
        PROVE  Moving("node", s, F)'
    <2>1. \A q \in AtOrBelow(r.path) : q \in s.todo <=> F[q] # None
      BY <1>2, <1>4 DEF Moving, OldAt, NodeLeft
    <2>2. \A q \in AtOrBelow(r.path) : F[q] # None => SamePhase("moving", r, "node", s, F, q)
      BY <1>1, <2>1 DEF SamePhase, HashLeft, NodeLeft, NodeMade, IdLeft, IdMade, PathLeft,
                        PathMade, EntryLabels, OldEntryLabels
    <2>3. ListsOK("node", s, F)
      BY <1>2, <2>1 DEF ListsOK, EntryLabels, OldEntryLabels
    <2>4. SameTarget("moving", r, "node", s, F)
      BY DEF SameTarget, EntryLabels, OldEntryLabels
    <2>5. \A q \in Paths : SameAt(q)
      BY <1>1, StoreSame
    <2>. QED  BY <1>0, <1>1, <1>2, <1>4, <2>2, <2>3, <2>4, <2>5, MoverIs, MovingRead
  <1>20. pc[t] \in MovingLabels /\ "node" \in MovingLabels \ (KeyLabels \cup {"etouchput"})
    BY <1>1 DEF MovingLabels, NodeLabels, EntryLabels, OldEntryLabels
  <1>21. \A F \in [AtOrBelow(r.path) \cup AtOrBelow(r.to) -> Ids \cup {None}] :
           Clean(t) /\ Moving(pc[t], r, F) => Moving("node", s, F)'
    BY <1>1, <1>4
  <1>22. UNCHANGED nextId /\ pc'[t] = "node"
    BY <1>1, <1>2 DEF store, ControlOK, TypeOK, Goto, Nodes
  <1>. QED  BY <1>0, <1>2, <1>3, <1>20, <1>21, <1>22, MoverGoes

LEMMA EntriesIsolated ==
  ASSUME ControlOK, ControlOK', IsolatedOK, NEW t \in Tasks, Entries(t)
  PROVE  IsolatedOK' /\ MovingGoesOn(t)
  <1>0. PICK r, s : r = local[t] /\ s = local'[t]
    OBVIOUS
  <1>1. /\ pc[t] = "node" /\ UNCHANGED store /\ tainted' = tainted /\ r.todo = {}
        /\ pc[t] \in MovingLabels /\ "entry" \in MovingLabels
        /\ pc' = [pc EXCEPT ![t] = "entry"]
    BY <1>0 DEF Entries, history, MovingLabels, NodeLabels, EntryLabels, Goto
  <1>2. /\ r.path \in Paths /\ r.to \in Paths /\ Fits(r.path, r.to)
        /\ \A q \in AtOrBelow(r.path) \cup {r.to} : q \in Paths /\ Covers(t, q)
        /\ r.path \in AtOrBelow(r.path)
    BY <1>0, <1>1, MoverIs
  <1>3. /\ \A u \in Tasks \ {t} : pc'[u] = pc[u] /\ local'[u] = local[u]
        /\ pc'[t] = "entry"
        /\ s.path = r.path /\ s.to = r.to /\ s.op = r.op
        /\ s.todo = {<<q, pathToId[q]>> :
                       q \in {p \in AtOrBelow(r.path) \cup {r.to} : pathToId[p] # None}}
    <2>. DEFINE T == {<<q, pathToId[q]>> :
                       q \in {p \in AtOrBelow(local[t].path) \cup {local[t].to} :
                                pathToId[p] # None}}
    <2>1. local' = [local EXCEPT ![t].cur = None, ![t].todo = T]
      BY DEF Entries
    <2>2. T = {<<q, pathToId[q]>> :
                 q \in {p \in AtOrBelow(r.path) \cup {r.to} : pathToId[p] # None}}
      BY <1>0
    <2>. HIDE DEF T
    <2>3. pc'[t] = "entry" /\ \A u \in Tasks \ {t} : pc'[u] = pc[u]
      BY <1>1 DEF ControlOK, TypeOK
    <2>4. /\ \A u \in Tasks \ {t} : local'[u] = local[u]
          /\ s.path = r.path /\ s.to = r.to /\ s.op = r.op /\ s.todo = T
      <3>1. /\ \A u \in Tasks \ {t} : local'[u] = local[u]
            /\ local'[t].path = local[t].path /\ local'[t].to = local[t].to
            /\ local'[t].op = local[t].op /\ local'[t].todo = T
        BY <2>1, TodoCleared
      <3>. QED  BY <1>0, <3>1
    <2>. QED  BY <2>2, <2>3, <2>4
  <1>4. ASSUME NEW e \in s.todo
        PROVE  /\ e[1] \in AtOrBelow(r.path) \cup {r.to} /\ e[2] = pathToId[e[1]]
               /\ e[2] # None
    <2>1. PICK q \in AtOrBelow(r.path) \cup {r.to} : pathToId[q] # None /\ e = <<q, pathToId[q]>>
      BY <1>3, <1>4
    <2>. QED  BY <2>1
  <1>5. \A q \in AtOrBelow(r.path) \cup {r.to} : pathToId[q] # None => <<q, pathToId[q]>> \in s.todo
    BY <1>3
  <1>6. Spares(t)
    <2>1. ASSUME NEW j \in Ids, Has(t, j)'
          PROVE  \E q \in Paths : Covers(t, q) /\ pathToId[q] = j
      <3>1. PICK e \in s.todo : e[2] = j
        BY <1>0, <1>3, <2>1 DEF Has, HandLabels, OldEntryLabels
      <3>. QED  BY <1>2, <1>4, <3>1
    <2>. QED  BY <1>1, <1>3, <2>1, ReadSpares DEF store
  <1>7. ASSUME NEW F, Moving("node", r, F)
        PROVE  Moving("entry", s, F)'
    <2>1. ASSUME NEW q \in AtOrBelow(r.path)
          PROVE  pathToId[q] = F[q]
      BY <1>7 DEF Moving, OldAt, IdLeft, EntryLabels, OldEntryLabels
    <2>2. pathToId[r.to] = F[r.to]
      <3>1. NewAt("node", r, F, r.path, r.to)
        BY <1>2, <1>7, MovedSelf DEF Moving
      <3>. QED  BY <3>1 DEF NewAt, IdMade, EntryLabels, OldEntryLabels
    <2>3. ASSUME NEW q \in AtOrBelow(r.path), F[q] # None
          PROVE  SamePhase("node", r, "entry", s, F, q)
      <3>1. <<q, F[q]>> \in s.todo
        BY <1>5, <2>1, <2>3
      <3>. QED  BY <1>1, <3>1 DEF SamePhase, HashLeft, NodeLeft, NodeMade, IdLeft, IdMade,
                                  PathLeft, PathMade, EntryLabels, OldEntryLabels
    <2>4. ListsOK("entry", s, F)
      <3>1. ASSUME NEW e \in s.todo
            PROVE  F[e[1]] = e[2] /\ (Prefix(s.path, e[1]) \/ e[1] = s.to)
        BY <1>3, <1>4, <2>1, <2>2 DEF AtOrBelow
      <3>. QED  BY <3>1 DEF ListsOK, OldEntryLabels
    <2>5. SameTarget("node", r, "entry", s, F)
      BY <1>3, <1>5, <2>2 DEF SameTarget, EntryLabels, OldEntryLabels
    <2>6. \A q \in Paths : SameAt(q)
      BY <1>1, StoreSame
    <2>. QED  BY <1>2, <1>3, <1>7, <2>3, <2>4, <2>5, <2>6, MovingRead
  <1>20. pc[t] \in MovingLabels /\ "entry" \in MovingLabels \ (KeyLabels \cup {"etouchput"})
    BY <1>1 DEF MovingLabels, NodeLabels, EntryLabels, OldEntryLabels
  <1>21. \A F \in [AtOrBelow(r.path) \cup AtOrBelow(r.to) -> Ids \cup {None}] :
           Clean(t) /\ Moving(pc[t], r, F) => Moving("entry", s, F)'
    BY <1>1, <1>7
  <1>22. UNCHANGED nextId /\ pc'[t] = "entry"
    BY <1>1, <1>3 DEF store, ControlOK, TypeOK, Goto, Entries
  <1>. QED  BY <1>0, <1>3, <1>6, <1>20, <1>21, <1>22, MoverGoes

\* The file id that the renamed path is given is the one it has.
LEMMA TouchEntryIsolated ==
  ASSUME ControlOK, ControlOK', IsolatedOK, Redis = TRUE, NEW t \in Tasks, EntryTouch(t)
  PROVE  IsolatedOK' /\ MovingGoesOn(t)
  <1>0. PICK r, s, n : r = local[t] /\ s = local'[t] /\ n = NewPath(t, local[t].cur[1])
    OBVIOUS
  <1>1. /\ pc[t] = "etouch" /\ UNCHANGED <<data, links, index, nextId>> /\ tainted' = tainted
        /\ pc[t] \in MovingLabels /\ "entry" \in MovingLabels /\ pc[t] \in OldEntryLabels
        /\ meta' = [meta EXCEPT ![n] = Merged(@, r.cur[2])]
        /\ local' = [local EXCEPT ![t].cur = None]
        /\ pc' = [pc EXCEPT ![t] = "entry"]
    BY <1>0 DEF EntryTouch, history, MovingLabels, EntryLabels, OldEntryLabels, Goto
  <1>2. /\ r.path \in Paths /\ r.to \in Paths /\ Fits(r.path, r.to)
        /\ r.cur \in AtOrBelow(r.path) \X Ids
        /\ n \in Paths /\ Covers(t, n) /\ n = Moved(r.cur[1], r.path, r.to)
    <2>1. r.cur \in AtOrBelow(r.path) \X Ids
      BY <1>0, <1>1 DEF ControlOK, ControlOf
    <2>2. r.cur[1] \in AtOrBelow(r.path)
      BY <2>1
    <2>3. n \in Paths /\ Covers(t, n)
      BY <1>0, <1>1, <2>2, MoverIs
    <2>. QED  BY <1>0, <1>1, <2>1, <2>3, MoverIs DEF NewPath
  <1>3. /\ \A u \in Tasks \ {t} : pc'[u] = pc[u] /\ local'[u] = local[u]
        /\ pc'[t] = "entry"
        /\ s.path = r.path /\ s.to = r.to /\ s.op = r.op /\ s.todo = r.todo
    BY <1>0, <1>1 DEF ControlOK, TypeOK, Locals
  <1>4. /\ meta'[n] = Merged(meta[n], r.cur[2])
        /\ \A q \in Paths \ {n} : Kept(q)
    BY <1>1, <1>2 DEF ControlOK, TypeOK, Kept, index
  <1>5. Spares(t)
    <2>1. \A j \in Ids : Has(t, j)' => Has(t, j)
      BY <1>0, <1>1, <1>3 DEF Has, HandLabels, EntryLabels, OldEntryLabels
    <2>2. \A j \in Ids : pathToId'[n] = j => pathToId[n] = j \/ Has(t, j)
      BY <1>1 DEF index
    <2>. QED  BY <1>1, <1>2, <1>3, <1>4, <2>1, <2>2, WriteSpares DEF index
  <1>6. ASSUME NEW F, Moving("etouch", r, F)
        PROVE  Moving("entry", s, F)'
    <2>1. Holds(n, r.cur[2])
      <3>1. F[r.cur[1]] = r.cur[2]
        BY <1>6 DEF Moving, ListsOK, OldEntryLabels
      <3>2. ~HashLeft("etouch", r, r.cur[1])
        BY DEF HashLeft
      <3>3. r.cur[1] \in AtOrBelow(r.path)
        BY <1>2
      <3>4. NewAt("etouch", r, F, r.cur[1], n)
        BY <1>2, <1>6, <3>3 DEF Moving
      <3>. QED  BY <3>1, <3>2, <3>4 DEF NewAt
    <2>2. meta'[n] = meta[n]
      <3>1. r.cur[2] \in Ids /\ r.cur[2] # None
        BY <1>2, NamespaceAssumption DEF Ids
      <3>2. meta[n] # None /\ meta[n].id = r.cur[2] /\ meta[n] \in Hash
        BY <1>2, <2>1, <3>1 DEF Holds, ControlOK, TypeOK
      <3>3. \A h \in Hash : h = [type |-> h.type, id |-> h.id]
        BY DEF Hash
      <3>. QED  BY <1>4, <3>1, <3>2, <3>3 DEF Merged
    <2>3. \A q \in Paths : SameAt(q)
      BY <1>1, <1>4, <2>2 DEF SameAt, Kept, index
    <2>4. \A q : SamePhase("etouch", r, "entry", s, F, q)
      BY <1>3 DEF SamePhase, HashLeft, NodeLeft, NodeMade, IdLeft, IdMade, PathLeft, PathMade,
                  EntryLabels, OldEntryLabels
    <2>5. SameTarget("etouch", r, "entry", s, F) /\ ListsOK("entry", s, F)
      BY <1>3, <1>6 DEF SameTarget, ListsOK, Moving, EntryLabels, OldEntryLabels
    <2>. QED  BY <1>2, <1>3, <1>6, <2>3, <2>4, <2>5, MovingRead
  <1>20. pc[t] \in MovingLabels /\ "entry" \in MovingLabels \ (KeyLabels \cup {"etouchput"})
    BY <1>1 DEF MovingLabels, NodeLabels, EntryLabels, OldEntryLabels
  <1>21. \A F \in [AtOrBelow(r.path) \cup AtOrBelow(r.to) -> Ids \cup {None}] :
           Clean(t) /\ Moving(pc[t], r, F) => Moving("entry", s, F)'
    BY <1>1, <1>6
  <1>22. UNCHANGED nextId /\ pc'[t] = "entry"
    BY <1>1, <1>3 DEF store, ControlOK, TypeOK, Goto, EntryTouch
  <1>. QED  BY <1>0, <1>3, <1>5, <1>20, <1>21, <1>22, MoverGoes

\* All that was at or below the old path is at or below the new one.
LEMMA RenamedIsolated ==
  ASSUME ControlOK, ControlOK', IsolatedOK, NEW t \in Tasks, Renamed(t)
  PROVE  IsolatedOK'
  <1>0. PICK r : r = local[t]
    OBVIOUS
  <1>1. /\ pc[t] = "entry" /\ UNCHANGED store /\ tainted' = tainted /\ r.todo = {}
        /\ pc[t] \in MovingLabels /\ Finish(t)
    BY <1>0 DEF Renamed, history, MovingLabels, EntryLabels
  <1>2. /\ r.path \in Paths /\ r.to \in Paths /\ Fits(r.path, r.to)
        /\ pc[t] # "idle" /\ ~FirstMount(t) /\ r.path \in AtOrBelow(r.path)
    BY <1>0, <1>1, MoverIs
  <1>3. ASSUME Clean(t), NEW p \in Paths, Covers(t, p)
        PROVE  Sound(p)
    <2>1. HalfwayOf("entry", r)
      BY <1>0, <1>1, <1>3 DEF IsolatedOK, DoingOK
    <2>2. PICK F : Moving("entry", r, F)
      BY <1>1, <2>1 DEF HalfwayOf
    <2>3. p \in AtOrBelow(r.path) \/ p \in AtOrBelow(r.to)
      BY <1>0, <1>3, CoversOnly
    <2>4. ASSUME NEW q \in AtOrBelow(r.path)
          PROVE  /\ ~NodeLeft("entry", r, q) /\ NodeMade("entry", r, q)
                 /\ ~HashLeft("entry", r, q)
                 /\ \A i : /\ ~IdLeft("entry", r, q, i) /\ IdMade("entry", r, q, i)
                           /\ ~PathLeft("entry", r, q, i) /\ PathMade("entry", r, q, i)
      BY <1>1 DEF HashLeft, NodeLeft, NodeMade, IdLeft, IdMade, PathLeft, PathMade,
                  EntryLabels, OldEntryLabels
    <2>5. CASE p \in AtOrBelow(r.path)
      BY <2>2, <2>4, <2>5, NamespaceAssumption DEF Moving, OldAt, Sound, Whole, Ids
    <2>6. ASSUME NEW q \in AtOrBelow(r.path), NEW n, n = Moved(q, r.path, r.to)
          PROVE  /\ n \in Paths /\ n \in nodes <=> F[q] # None
                 /\ pathToId[n] = F[q] /\ Holds(n, F[q])
                 /\ \A i \in Ids : idToPath[i] = n <=> F[q] = i
      <3>1. NewAt("entry", r, F, q, n)
        BY <2>2, <2>6 DEF Moving
      <3>2. n \in Paths /\ n \in AtOrBelow(r.to)
        BY <1>2, <2>6, NewPathIs
      <3>3. F[q] = None => F[n] = None
        <4>1. ASSUME F[q] = None
              PROVE  n # r.to
          <5>1. q # r.path /\ Moved(r.path, r.path, r.to) = r.to
            BY <1>2, <2>2, <4>1, MovedSelf DEF Moving, TreeOK
          <5>. QED  BY <1>2, <2>6, <5>1, NewPathIs
        <4>. QED  BY <2>2, <3>2, <4>1 DEF Moving, TreeOK, Under
      <3>. QED  BY <1>1, <2>4, <3>1, <3>2, <3>3 DEF NewAt, EntryLabels
    <2>7. ASSUME NEW q \in AtOrBelow(r.path), p = Moved(q, r.path, r.to)
          PROVE  Sound(p)
      <3>1. /\ p \in nodes <=> F[q] # None
            /\ pathToId[p] = F[q] /\ Holds(p, F[q])
            /\ \A i \in Ids : idToPath[i] = p <=> F[q] = i
        BY <2>6, <2>7
      <3>2. ASSUME F[q] # None
            PROVE  DirAt(Parent(p))
        <4>1. CASE q = r.path
          BY <1>2, <2>2, <2>7, <4>1, MovedSelf DEF Moving, TreeOK
        <4>2. CASE q # r.path
          <5>0. PICK d : d = Moved(Parent(q), r.path, r.to)
            OBVIOUS
          <5>1. Parent(q) \in AtOrBelow(r.path) /\ Parent(p) = d
            BY <1>2, <2>7, <4>2, <5>0, NewPathIs
          <5>2. F[Parent(q)] # None
            BY <2>2, <3>2, <4>2, <5>0, <5>1 DEF Moving, TreeOK, Under
          <5>3. d \in nodes /\ Holds(d, F[Parent(q)])
            BY <2>6, <5>0, <5>1, <5>2
          <5>. QED  BY <5>1, <5>2, <5>3 DEF DirAt, Holds
        <4>. QED  BY <4>1, <4>2
      <3>. QED  BY <3>1, <3>2 DEF Sound, Whole
    <2>8. CASE p \in AtOrBelow(r.to) /\ \A q \in AtOrBelow(r.path) : p # Moved(q, r.path, r.to)
      BY <2>2, <2>8 DEF Moving
    <2>. QED  BY <2>3, <2>5, <2>7, <2>8
  <1>. QED  BY <1>1, <1>2, <1>3, ReadEnds

-----------------------------------------------------------------------------
(***************************************************************************)
(* rename: the hashes and the nodes.                                       *)
(***************************************************************************)
\* Steps that write nothing but the old and the new path of a file.
LEMMA MoveSpares ==
  ASSUME ControlOK, NEW t \in Tasks, NEW o \in Paths, NEW n \in Paths, Covers(t, o), Covers(t, n),
         \A u \in Tasks \ {t} : pc'[u] = pc[u] /\ local'[u] = local[u],
         tainted' = tainted, idToPath' = idToPath,
         \A q \in Paths \ {o, n} : Kept(q),
         \A q \in {o, n} : \A j \in Ids : pathToId'[q] = j => pathToId[q] = j \/ Has(t, j),
         \A j \in Ids : Has(t, j)' => Has(t, j)
  PROVE  Spares(t) /\ \A q \in Paths \ {o, n} : SameAt(q)
  BY DEF Spares, Kept, SameAt

\* Redis moves a hash as a whole.
LEMMA HashMoves ==
  ASSUME ControlOK, Redis = TRUE, NEW o \in Paths, NEW n \in Paths, o # n, MoveHash(o, n),
         UNCHANGED <<nodes, pathToId>>
  PROVE  /\ \A q \in Paths \ {o, n} : Kept(q)
         /\ \A i : i # None /\ Holds(o, i) =>
              Holds(n, i)' /\ Holds(o, None)' /\ meta'[n] = meta[o]
         /\ Holds(o, None) => UNCHANGED hashes
  <1>1. CASE UNCHANGED hashes /\ ~Keyed(o)
    <2>1. \A i : i # None /\ Holds(o, i) => FALSE
      BY <1>1 DEF Holds, Keyed
    <2>. QED  BY <1>1, <2>1 DEF Kept, hashes
  <1>2. CASE /\ Keyed(o)
             /\ meta' = [meta EXCEPT ![o] = None, ![n] = meta[o]]
             /\ data' = [data EXCEPT ![o] = None, ![n] = data[o]]
             /\ links' = IF o \in links THEN (links \ {o}) \cup {n} ELSE links \ {n}
    <2>1. /\ meta'[n] = meta[o] /\ data'[n] = data[o] /\ (n \in links' <=> o \in links)
          /\ meta'[o] = None /\ data'[o] = None /\ o \notin links'
          /\ \A q \in Paths \ {o, n} : /\ meta'[q] = meta[q] /\ data'[q] = data[q]
                                       /\ q \in links' <=> q \in links
      BY <1>2 DEF ControlOK, TypeOK
    <2>2. ~Holds(o, None)
      BY <1>2 DEF Holds, Keyed
    <2>3. \A i : i # None /\ Holds(o, i) => Holds(n, i)' /\ Holds(o, None)'
      BY <2>1 DEF Holds
    <2>. QED  BY <2>1, <2>2, <2>3 DEF Kept
  <1>. QED  BY <1>1, <1>2 DEF MoveHash

\* The hash of one file is moved.
LEMMA HashMoving ==
  ASSUME ControlOK, Redis = TRUE, NEW r, r.path \in Paths, r.to \in Paths, Fits(r.path, r.to),
         NEW s, s.path = r.path, s.to = r.to, NEW F, NEW o \in AtOrBelow(r.path),
         NEW n, n = Moved(o, r.path, r.to), MoveHash(o, n), UNCHANGED index,
         NEW l \in {"move", "moving"}, NEW m \in {"keys", "moving"},
         Moving(l, r, F), HashLeft(l, r, o), ~HashLeft(m, s, o), F[o] # None,
         \A q \in AtOrBelow(r.path) \ {o} : HashLeft(l, r, q) <=> HashLeft(m, s, q),
         ListsOK(m, s, F)
  PROVE  Moving(m, s, F)'
  <1>1. o \in Paths /\ n \in Paths /\ o # n
    BY NewPathIs DEF Moving
  <1>2. \A q \in Paths \ {o, n} : SameAt(q)
    BY <1>1, HashMoves DEF SameAt, index
  <1>3. OldAt(l, r, F, o) /\ NewAt(l, r, F, o, n)
    BY DEF Moving
  <1>4. Holds(n, F[o])' /\ Holds(o, None)' /\ meta'[n] = meta[o]
    <2>1. Holds(o, F[o])
      BY <1>3 DEF OldAt
    <2>. QED  BY <1>1, <2>1, HashMoves DEF index
  <1>5. l \notin EntryLabels /\ m \notin EntryLabels
        /\ \A q : /\ NodeLeft(l, r, q) /\ NodeLeft(m, s, q)
                  /\ ~NodeMade(l, r, q) /\ ~NodeMade(m, s, q)
                  /\ \A i : /\ IdLeft(l, r, q, i) /\ IdLeft(m, s, q, i)
                            /\ ~IdMade(l, r, q, i) /\ ~IdMade(m, s, q, i)
                            /\ PathLeft(l, r, q, i) /\ PathLeft(m, s, q, i)
                            /\ ~PathMade(l, r, q, i) /\ ~PathMade(m, s, q, i)
    BY DEF NodeLeft, NodeMade, IdLeft, IdMade, PathLeft, PathMade, EntryLabels, OldEntryLabels
  <1>6. OldAt(m, s, F, o)'
    BY <1>3, <1>4, <1>5 DEF OldAt, index
  <1>7. NewAt(m, s, F, o, n)'
    BY <1>3, <1>4, <1>5 DEF NewAt, index
  <1>9. \A q \in AtOrBelow(r.path) \ {o} : SamePhase(l, r, m, s, F, q)
    BY <1>5 DEF SamePhase
  <1>10. SameTarget(l, r, m, s, F)
    BY <1>5 DEF SameTarget
  <1>. QED  BY <1>2, <1>6, <1>7, <1>9, <1>10, MovingWrite

LEMMA MoveIsolated ==
  ASSUME ControlOK, ControlOK', IsolatedOK, Redis = TRUE, NEW t \in Tasks, Move(t)
  PROVE  IsolatedOK' /\ MovingGoesOn(t)
  <1>0. PICK r : r = local[t]
    OBVIOUS
  <1>1. /\ pc[t] = "move" /\ MoveHash(r.path, r.to) /\ UNCHANGED <<index, nextId, tainted>>
        /\ Goto(t, "keys") /\ local' = local
        /\ pc[t] \in MovingLabels /\ "keys" \in MovingLabels
    BY <1>0 DEF Move, history, MovingLabels
  <1>2. /\ r.path \in Paths /\ r.to \in Paths /\ Fits(r.path, r.to) /\ pc[t] # "idle"
        /\ r.path \in AtOrBelow(r.path) /\ Covers(t, r.path) /\ Covers(t, r.to)
    BY <1>0, <1>1, MoverIs
  <1>3. /\ \A u \in Tasks \ {t} : pc'[u] = pc[u] /\ local'[u] = local[u]
        /\ pc'[t] = "keys" /\ local'[t] = local[t]
    BY <1>1, <1>2, GoesOnAt
  <1>4. Spares(t)
    <2>1. \A j \in Ids : ~Has(t, j)'
      BY <1>3 DEF Has, HandLabels, EntryLabels, OldEntryLabels
    <2>2. \A q \in Paths \ {r.path, r.to} : Kept(q)
      BY <1>1, <1>2 DEF MoveHash, Kept, index, hashes, ControlOK, TypeOK
    <2>. QED  BY <1>1, <1>2, <1>3, <2>1, <2>2, MoveSpares DEF index
  <1>5. ASSUME NEW F, Moving("move", r, F)
        PROVE  Moving("keys", r, F)'
    <2>1. r.to = Moved(r.path, r.path, r.to) /\ F[r.path] # None
      BY <1>2, <1>5, MovedSelf DEF Moving, TreeOK
    <2>2. \A q : HashLeft("move", r, q) /\ (HashLeft("keys", r, q) <=> q # r.path)
      BY DEF HashLeft
    <2>3. ListsOK("keys", r, F)
      BY DEF ListsOK, EntryLabels, OldEntryLabels
    <2>4. "move" \in {"move", "moving"} /\ "keys" \in {"keys", "moving"}
      OBVIOUS
    <2>. QED  BY <1>1, <1>2, <1>5, <2>1, <2>2, <2>3, <2>4, HashMoving
  <1>. QED  BY <1>0, <1>1, <1>3, <1>4, <1>5, MoverGoes

LEMMA MoveKeyIsolated ==
  ASSUME ControlOK, ControlOK', IsolatedOK, Redis = TRUE, NEW t \in Tasks, MoveKey(t)
  PROVE  IsolatedOK' /\ MovingGoesOn(t)
  <1>0. PICK r, s : r = local[t] /\ s = local'[t]
    OBVIOUS
  <1>1. PICK o \in r.todo :
          /\ local' = [local EXCEPT ![t].todo = @ \ {o}]
          /\ IF NewPath(t, o) # o THEN MoveHash(o, NewPath(t, o)) ELSE UNCHANGED hashes
    BY <1>0 DEF MoveKey
  <1>2. /\ pc[t] = "moving" /\ UNCHANGED <<index, nextId, tainted, pc>>
        /\ pc[t] \in MovingLabels /\ "moving" \in MovingLabels /\ pc[t] \in NodeLabels
    BY DEF MoveKey, history, MovingLabels, NodeLabels
  <1>3. PICK n : n = NewPath(t, o)
    OBVIOUS
  <1>4. /\ r.path \in Paths /\ r.to \in Paths /\ Fits(r.path, r.to) /\ o \in AtOrBelow(r.path)
        /\ o \in Paths /\ n \in Paths /\ Covers(t, o) /\ Covers(t, n)
        /\ n = Moved(o, r.path, r.to)
    <2>1. o \in AtOrBelow(r.path)
      BY <1>0, <1>2 DEF ControlOK, ControlOf
    <2>. QED  BY <1>0, <1>2, <1>3, <2>1, MoverIs DEF NewPath
  <1>5. /\ \A u \in Tasks \ {t} : pc'[u] = pc[u] /\ local'[u] = local[u]
        /\ pc'[t] = "moving" /\ s.path = r.path /\ s.to = r.to /\ s.op = r.op
        /\ s.todo = r.todo \ {o} /\ s.keys = {}
    <2>1. local' = [local EXCEPT ![t].todo = r.todo \ {o}]
      BY <1>0, <1>1 DEF ControlOK, TypeOK
    <2>2. /\ \A u \in Tasks \ {t} : local'[u] = local[u]
          /\ s.path = r.path /\ s.to = r.to /\ s.op = r.op /\ s.todo = r.todo \ {o}
          /\ s.keys = r.keys
      <3>1. /\ \A u \in Tasks \ {t} : local'[u] = local[u]
            /\ local'[t].path = local[t].path /\ local'[t].to = local[t].to
            /\ local'[t].op = local[t].op /\ local'[t].todo = r.todo \ {o}
            /\ local'[t].keys = local[t].keys
        BY <2>1, TodoGoes
      <3>. QED  BY <1>0, <3>1
    <2>3. r.keys = {}
      BY <1>0, <1>2 DEF IsolatedOK, DoingOK, BearingsOf
    <2>. QED  BY <1>2, <2>2, <2>3
  <1>6. Spares(t)
    <2>1. \A j \in Ids : ~Has(t, j)'
      BY <1>5 DEF Has, HandLabels, EntryLabels, OldEntryLabels
    <2>2. \A q \in Paths \ {o, n} : Kept(q)
      BY <1>1, <1>2, <1>3, <1>4 DEF MoveHash, Kept, index, hashes, ControlOK, TypeOK
    <2>. QED  BY <1>2, <1>4, <1>5, <2>1, <2>2, MoveSpares DEF index
  <1>7. ASSUME NEW F, Moving("moving", r, F)
        PROVE  Moving("moving", s, F)'
    <2>1. o # n /\ o # r.path
      BY <1>4, <1>7, NewPathIs DEF Moving, ListsOK
    <2>2. MoveHash(o, n)
      BY <1>1, <1>3, <2>1
    <2>3. \A q : (HashLeft("moving", r, q) <=> q \in r.todo)
                 /\ (HashLeft("moving", s, q) <=> q \in r.todo \ {o})
      BY <1>5 DEF HashLeft
    <2>4. ListsOK("moving", s, F)
      BY <1>5, <1>7 DEF Moving, ListsOK, EntryLabels, OldEntryLabels
    <2>5. CASE F[o] # None
      <3>1. "moving" \in {"move", "moving"} /\ "moving" \in {"keys", "moving"}
        OBVIOUS
      <3>. QED  BY <1>2, <1>4, <1>5, <1>7, <2>2, <2>3, <2>4, <2>5, <3>1, HashMoving
    <2>6. CASE F[o] = None
      <3>1. Holds(o, None)
        BY <1>4, <1>7, <2>3, <2>6 DEF Moving, OldAt
      <3>2. UNCHANGED hashes
        BY <1>2, <1>4, <2>1, <2>2, <3>1, HashMoves DEF index
      <3>3. \A q \in Paths : SameAt(q)
        BY <1>2, <3>2 DEF SameAt, Kept, index, hashes
      <3>4. \A q \in AtOrBelow(r.path) : F[q] # None => SamePhase("moving", r, "moving", s, F, q)
        BY <2>3, <2>6 DEF SamePhase, NodeLeft, NodeMade, IdLeft, IdMade, PathLeft, PathMade,
                          EntryLabels, OldEntryLabels
      <3>5. SameTarget("moving", r, "moving", s, F)
        BY DEF SameTarget, EntryLabels, OldEntryLabels
      <3>. QED  BY <1>4, <1>5, <1>7, <2>4, <3>3, <3>4, <3>5, MovingRead
    <2>. QED  BY <2>5, <2>6
  <1>8. \A F : Clean(t) /\ Moving(pc[t], r, F) => Moving("moving", s, F)'
    BY <1>2, <1>7
  <1>9. UNCHANGED nextId /\ "moving" \in MovingLabels \ (KeyLabels \cup {"etouchput"})
    BY <1>2
  <1>. QED  BY <1>0, <1>2, <1>5, <1>6, <1>8, <1>9, MoverGoes

\* The member of one file is taken away, or put at its new path.
LEMMA NodeMoving ==
  ASSUME NEW r, r.path \in Paths, r.to \in Paths, Fits(r.path, r.to),
         NEW s, s.path = r.path, s.to = r.to, NEW F, NEW o \in AtOrBelow(r.path),
         NEW n, n = Moved(o, r.path, r.to), UNCHANGED <<hashes, pathToId, idToPath>>,
         NEW l \in {"node", "renode"}, NEW m \in {"node", "renode"},
         Moving(l, r, F), F[o] # None,
         \A q \in AtOrBelow(r.path) \ {o} :
            /\ NodeLeft(l, r, q) <=> NodeLeft(m, s, q)
            /\ NodeMade(l, r, q) <=> NodeMade(m, s, q),
         o \in nodes' <=> NodeLeft(m, s, o), n \in nodes' <=> F[n] # None \/ NodeMade(m, s, o),
         \A q \in Paths \ {o, n} : q \in nodes' <=> q \in nodes,
         ListsOK(m, s, F)
  PROVE  Moving(m, s, F)'
  <1>1. \A q \in Paths \ {o, n} : SameAt(q)
    BY DEF SameAt, Kept, hashes
  <1>2. OldAt(l, r, F, o) /\ NewAt(l, r, F, o, n)
    BY DEF Moving
  <1>3. l \notin EntryLabels /\ m \notin EntryLabels
        /\ \A q : /\ ~HashLeft(l, r, q) /\ ~HashLeft(m, s, q)
                  /\ \A i : /\ IdLeft(l, r, q, i) /\ IdLeft(m, s, q, i)
                            /\ ~IdMade(l, r, q, i) /\ ~IdMade(m, s, q, i)
                            /\ PathLeft(l, r, q, i) /\ PathLeft(m, s, q, i)
                            /\ ~PathMade(l, r, q, i) /\ ~PathMade(m, s, q, i)
    BY DEF HashLeft, IdLeft, IdMade, PathLeft, PathMade, EntryLabels, OldEntryLabels
  <1>4. \A q : \A i : Holds(q, i) => Holds(q, i)'
    BY DEF Holds, hashes
  <1>5. OldAt(m, s, F, o)'
    BY <1>2, <1>3, <1>4 DEF OldAt
  <1>6. NewAt(m, s, F, o, n)'
    BY <1>2, <1>3, <1>4 DEF NewAt
  <1>8. \A q \in AtOrBelow(r.path) \ {o} : SamePhase(l, r, m, s, F, q)
    BY <1>3 DEF SamePhase
  <1>9. SameTarget(l, r, m, s, F)
    BY <1>3 DEF SameTarget
  <1>. QED  BY <1>1, <1>5, <1>6, <1>8, <1>9, MovingWrite

LEMMA RemNodeIsolated ==
  ASSUME ControlOK, ControlOK', IsolatedOK, NEW t \in Tasks, RemNode(t)
  PROVE  IsolatedOK' /\ MovingGoesOn(t)
  <1>0. PICK r, s : r = local[t] /\ s = local'[t]
    OBVIOUS
  <1>1. PICK o \in r.todo :
          IF NewPath(t, o) = o /\ o # r.path
          THEN /\ local' = [local EXCEPT ![t].todo = @ \ {o}]
               /\ UNCHANGED <<nodes, pc>>
          ELSE /\ nodes' = nodes \ {o}
               /\ local' = [local EXCEPT ![t].todo = @ \ {o}, ![t].cur = o]
               /\ Goto(t, "renode")
    BY <1>0 DEF RemNode
  <1>2. /\ pc[t] = "node" /\ UNCHANGED <<hashes, pathToId, idToPath, nextId, tainted>>
        /\ pc[t] \in MovingLabels /\ pc[t] \in NodeLabels
    BY DEF RemNode, history, MovingLabels, NodeLabels
  <1>3. PICK n : n = NewPath(t, o)
    OBVIOUS
  <1>4. /\ r.path \in Paths /\ r.to \in Paths /\ Fits(r.path, r.to) /\ o \in AtOrBelow(r.path)
        /\ o \in Paths /\ n \in Paths /\ Covers(t, o) /\ Covers(t, n)
        /\ n = Moved(o, r.path, r.to)
    <2>1. o \in AtOrBelow(r.path)
      BY <1>0, <1>2 DEF ControlOK, ControlOf
    <2>. QED  BY <1>0, <1>2, <1>3, <2>1, MoverIs DEF NewPath
  <1>5. PICK m \in {"node", "renode"} :
          /\ \A u \in Tasks \ {t} : pc'[u] = pc[u] /\ local'[u] = local[u]
          /\ pc'[t] = m /\ s.path = r.path /\ s.to = r.to /\ s.op = r.op
          /\ s.todo = r.todo \ {o}
          /\ n # o => m = "renode" /\ s.cur = o /\ nodes' = nodes \ {o}
          /\ \A q \in Paths \ {o} : q \in nodes' <=> q \in nodes
    <2>1. CASE /\ n = o /\ o # r.path /\ local' = [local EXCEPT ![t].todo = @ \ {o}]
               /\ UNCHANGED <<nodes, pc>>
      <3>1. local' = [local EXCEPT ![t].todo = r.todo \ {o}]
        BY <1>0, <2>1 DEF ControlOK, TypeOK
      <3>2. /\ \A u \in Tasks \ {t} : local'[u] = local[u]
            /\ s.path = r.path /\ s.to = r.to /\ s.op = r.op /\ s.todo = r.todo \ {o}
        <4>1. /\ \A u \in Tasks \ {t} : local'[u] = local[u]
              /\ local'[t].path = local[t].path /\ local'[t].to = local[t].to
              /\ local'[t].op = local[t].op /\ local'[t].todo = r.todo \ {o}
          BY <3>1, TodoGoes
        <4>. QED  BY <1>0, <4>1
      <3>. QED  BY <1>2, <2>1, <3>2
    <2>2. CASE /\ nodes' = nodes \ {o} /\ Goto(t, "renode")
               /\ local' = [local EXCEPT ![t].todo = @ \ {o}, ![t].cur = o]
      <3>1. local' = [local EXCEPT ![t].todo = r.todo \ {o}, ![t].cur = o]
        BY <1>0, <2>2 DEF ControlOK, TypeOK
      <3>2. pc'[t] = "renode" /\ \A u \in Tasks \ {t} : pc'[u] = pc[u]
        BY <2>2 DEF Goto, ControlOK, TypeOK
      <3>3. /\ \A u \in Tasks \ {t} : local'[u] = local[u]
            /\ s.path = r.path /\ s.to = r.to /\ s.op = r.op /\ s.todo = r.todo \ {o} /\ s.cur = o
        <4>1. /\ \A u \in Tasks \ {t} : local'[u] = local[u]
              /\ local'[t].path = local[t].path /\ local'[t].to = local[t].to
              /\ local'[t].op = local[t].op /\ local'[t].todo = r.todo \ {o} /\ local'[t].cur = o
          BY SMTT(30), <3>1 DEF ControlOK, TypeOK, Locals
        <4>. QED  BY <1>0, <4>1
      <3>. QED  BY <2>2, <3>2, <3>3
    <2>. QED  BY <1>1, <1>3, <2>1, <2>2
  <1>6. Spares(t)
    <2>1. \A j \in Ids : ~Has(t, j)'
      BY <1>5 DEF Has, HandLabels, EntryLabels, OldEntryLabels
    <2>2. \A q \in Paths \ {o, n} : Kept(q)
      BY <1>2, <1>5 DEF Kept, hashes
    <2>. QED  BY <1>2, <1>4, <1>5, <2>1, <2>2, MoveSpares
  <1>7. ASSUME NEW F, Moving("node", r, F)
        PROVE  Moving(m, s, F)'
    <2>1. o # n /\ F[o] # None
      BY <1>4, <1>7, NewPathIs DEF Moving, ListsOK
    <2>2. m = "renode" /\ s.cur = o /\ nodes' = nodes \ {o}
      BY <1>5, <2>1
    <2>3. \A q : /\ NodeLeft("node", r, q) <=> q \in r.todo
                 /\ NodeLeft("renode", s, q) <=> q \in r.todo \ {o}
                 /\ NodeMade("node", r, q) <=> q \notin r.todo
                 /\ NodeMade("renode", s, q) <=> q \notin r.todo \ {o} /\ q # o
      BY <1>5, <2>2 DEF NodeLeft, NodeMade, EntryLabels, OldEntryLabels
    <2>4. n \in nodes <=> F[n] # None
      BY <1>4, <1>7, <2>3 DEF Moving, NewAt
    <2>5. ListsOK("renode", s, F)
      BY <1>5, <1>7, <2>1, <2>2 DEF Moving, ListsOK, EntryLabels, OldEntryLabels
    <2>6. "node" \in {"node", "renode"} /\ "renode" \in {"node", "renode"}
      OBVIOUS
    <2>7. /\ o \in nodes' <=> NodeLeft("renode", s, o)
          /\ n \in nodes' <=> F[n] # None \/ NodeMade("renode", s, o)
          /\ \A q \in AtOrBelow(r.path) \ {o} :
               /\ NodeLeft("node", r, q) <=> NodeLeft("renode", s, q)
               /\ NodeMade("node", r, q) <=> NodeMade("renode", s, q)
      BY <2>1, <2>2, <2>3, <2>4
    <2>8. Moving("renode", s, F)'
      BY <1>2, <1>4, <1>5, <1>7, <2>1, <2>5, <2>6, <2>7, NodeMoving
    <2>. QED  BY <2>2, <2>8
  <1>8. m \in MovingLabels \ (KeyLabels \cup {"etouchput"}) /\ UNCHANGED nextId
    BY <1>2 DEF MovingLabels, NodeLabels
  <1>9. \A F : Clean(t) /\ Moving(pc[t], r, F) => Moving(m, s, F)'
    BY <1>2, <1>7
  <1>. QED  BY <1>0, <1>2, <1>5, <1>6, <1>8, <1>9, MoverGoes

LEMMA AddNodeIsolated ==
  ASSUME ControlOK, ControlOK', IsolatedOK, NEW t \in Tasks, AddNode(t)
  PROVE  IsolatedOK' /\ MovingGoesOn(t)
  <1>0. PICK r, o, n : r = local[t] /\ o = r.cur /\ n = NewPath(t, o)
    OBVIOUS
  <1>1. /\ pc[t] = "renode" /\ UNCHANGED <<hashes, pathToId, idToPath, nextId, tainted>>
        /\ nodes' = nodes \cup {n} /\ Goto(t, "node") /\ local' = local
        /\ pc[t] \in MovingLabels /\ "node" \in MovingLabels
    BY <1>0 DEF AddNode, history, MovingLabels, NodeLabels
  <1>2. /\ r.path \in Paths /\ r.to \in Paths /\ Fits(r.path, r.to) /\ o \in AtOrBelow(r.path)
        /\ o \in Paths /\ n \in Paths /\ Covers(t, o) /\ Covers(t, n) /\ pc[t] # "idle"
        /\ n = Moved(o, r.path, r.to)
    <2>1. o \in AtOrBelow(r.path)
      BY <1>0, <1>1 DEF ControlOK, ControlOf
    <2>. QED  BY <1>0, <1>1, <2>1, MoverIs DEF NewPath
  <1>3. /\ \A u \in Tasks \ {t} : pc'[u] = pc[u] /\ local'[u] = local[u]
        /\ pc'[t] = "node" /\ local'[t] = local[t]
    BY <1>1, <1>2, GoesOnAt
  <1>4. Spares(t)
    <2>1. \A j \in Ids : ~Has(t, j)'
      BY <1>3 DEF Has, HandLabels, EntryLabels, OldEntryLabels
    <2>2. \A q \in Paths \ {o, n} : Kept(q)
      BY <1>1 DEF Kept, hashes
    <2>. QED  BY <1>1, <1>2, <1>3, <2>1, <2>2, MoveSpares
  <1>5. ASSUME NEW F, Moving("renode", r, F)
        PROVE  Moving("node", r, F)'
    <2>1. o # n /\ F[o] # None /\ o \notin r.todo
      BY <1>0, <1>2, <1>5, NewPathIs DEF Moving, ListsOK
    <2>2. \A q : /\ NodeLeft("renode", r, q) <=> q \in r.todo
                 /\ NodeLeft("node", r, q) <=> q \in r.todo
                 /\ NodeMade("renode", r, q) <=> q \notin r.todo /\ q # o
                 /\ NodeMade("node", r, q) <=> q \notin r.todo
      BY <1>0 DEF NodeLeft, NodeMade, EntryLabels, OldEntryLabels
    <2>3. o \notin nodes
      BY <1>2, <1>5, <2>1, <2>2 DEF Moving, OldAt
    <2>4. ListsOK("node", r, F)
      BY <1>5 DEF Moving, ListsOK, EntryLabels, OldEntryLabels
    <2>5. "node" \in {"node", "renode"} /\ "renode" \in {"node", "renode"}
      OBVIOUS
    <2>6. /\ o \in nodes' <=> NodeLeft("node", r, o)
          /\ n \in nodes' <=> F[n] # None \/ NodeMade("node", r, o)
          /\ \A q \in AtOrBelow(r.path) \ {o} :
               /\ NodeLeft("renode", r, q) <=> NodeLeft("node", r, q)
               /\ NodeMade("renode", r, q) <=> NodeMade("node", r, q)
          /\ \A q \in Paths \ {o, n} : q \in nodes' <=> q \in nodes
      BY <1>1, <2>1, <2>2, <2>3
    <2>. QED  BY <1>1, <1>2, <1>5, <2>1, <2>4, <2>5, <2>6, NodeMoving
  <1>. QED  BY <1>0, <1>1, <1>3, <1>4, <1>5, MoverGoes

-----------------------------------------------------------------------------
(***************************************************************************)
(* rename: the entries of the two hashes.                                  *)
(***************************************************************************)
\* Steps that write the path of one id, which the task has.
LEMMA IdSpares ==
  ASSUME ControlOK, NEW t \in Tasks, NEW i \in Ids, Has(t, i),
         \A u \in Tasks \ {t} : pc'[u] = pc[u] /\ local'[u] = local[u],
         UNCHANGED <<hashes, nodes, pathToId, tainted>>,
         \A j \in Ids \ {i} : idToPath'[j] = idToPath[j],
         \A q \in Paths : idToPath'[i] = q => q = idToPath[i] \/ Covers(t, q),
         \A j \in Ids : Has(t, j)' => Has(t, j)
  PROVE  Spares(t)
  <1>1. \A p \in Paths : Kept(p)
    BY DEF Kept, hashes
  <1>2. \A j \in Ids, p \in Paths :
          /\ idToPath'[j] = p /\ idToPath[j] # p => Has(t, j) /\ Covers(t, p)
          /\ idToPath'[j] # p /\ idToPath[j] = p => Has(t, j)
          /\ pathToId'[p] = j => pathToId[p] = j \/ Has(t, j)
    OBVIOUS
  <1>. QED  BY <1>1, <1>2 DEF Spares

\* The path that an id of a clean task leads to is one that the task covers.
LEMMA LeadsHere ==
  ASSUME ControlOK, IsolatedOK, NEW t \in Tasks, pc[t] # "idle", Clean(t),
         NEW i \in Ids, Has(t, i), NEW p \in Paths, idToPath[i] = p
  PROVE  Covers(t, p)
  <1>1. local[t].path \in Paths /\ Covers(t, local[t].path)
    BY CoversOwn
  <1>2. p \in Marks(i) /\ local[t].path \in Marks(i)
    BY <1>1 DEF Marks
  <1>3. CASE p = local[t].path
    BY <1>1, <1>3
  <1>4. CASE Tied(p, local[t].path)
    <2>1. Intact(local[t].path)
      BY <1>1, CoveredIntact DEF IsolatedOK
    <2>2. PICK u \in Tasks : Covers(u, p) /\ Covers(u, local[t].path)
      BY <1>4, <2>1 DEF Tied
    <2>. QED  BY <1>1, <2>2, MeetingTaints DEF IsolatedOK
  <1>. QED  BY <1>2, <1>3, <1>4 DEF IsolatedOK, OwnersOK

\* The two entries of the file that was at q, and is at n when they are done.
EntryStays(l, r, F, q, i, n) ==
  /\ pathToId[q] = IF l = "epath" THEN i ELSE None
  /\ pathToId[n] = IF l \in {"epath", "eset"} THEN F[n] ELSE i
  /\ \A j \in Ids : idToPath[j] = q <=> j = i /\ l \in {"epath", "eset", "eid"}
  /\ \A j \in Ids : idToPath[j] = n <=> \/ F[n] = j /\ <<n, j>> \in r.todo
                                        \/ j = i /\ l = "etouch"

LEMMA EntryFacts ==
  ASSUME NEW r, r.path \in Paths, r.to \in Paths, Fits(r.path, r.to), NEW F,
         NEW l \in {"epath", "eset", "eid", "eput", "etouch"}, Moving(l, r, F),
         r.cur \in AtOrBelow(r.path) \X Ids
  PROVE  \A q \in {r.cur[1]}, i \in {r.cur[2]} : \A n \in {Moved(q, r.path, r.to)} :
           F[q] = i /\ i # None /\ <<q, i>> \notin r.todo /\ q # n /\ EntryStays(l, r, F, q, i, n)
  <1>. SUFFICES ASSUME NEW q \in {r.cur[1]}, NEW i \in {r.cur[2]},
                       NEW n \in {Moved(q, r.path, r.to)}
                PROVE  /\ F[q] = i /\ i # None /\ <<q, i>> \notin r.todo /\ q # n
                       /\ EntryStays(l, r, F, q, i, n)
    OBVIOUS
  <1>0. q \in AtOrBelow(r.path) /\ i \in Ids /\ r.cur = <<q, i>> /\ n = Moved(q, r.path, r.to)
    OBVIOUS
  <1>1. OldAt(l, r, F, q) /\ NewAt(l, r, F, q, n) /\ ListsOK(l, r, F) /\ q # n
    BY <1>0, NewPathIs DEF Moving
  <1>2. l \in OldEntryLabels /\ l \in EntryLabels /\ r.cur[1] = q /\ r.cur[2] = i
    BY <1>0 DEF OldEntryLabels, EntryLabels
  <1>3. F[q] = i /\ <<q, i>> \notin r.todo /\ i # None
    BY <1>0, <1>1, <1>2, NamespaceAssumption DEF ListsOK, Ids
  <1>4. /\ IdLeft(l, r, q, i) <=> l = "epath"
        /\ IdMade(l, r, q, i) <=> l \notin {"epath", "eset"}
        /\ PathLeft(l, r, q, i) <=> l \in {"epath", "eset", "eid"}
        /\ PathMade(l, r, q, i) <=> l = "etouch"
    BY <1>0, <1>2, <1>3 DEF IdLeft, IdMade, PathLeft, PathMade
  <1>5. EntryStays(l, r, F, q, i, n)
    BY <1>0, <1>1, <1>2, <1>3, <1>4 DEF OldAt, NewAt, EntryStays
  <1>. QED  BY <1>1, <1>3, <1>5

LEMMA EntryMoves ==
  ASSUME NEW r, r.path \in Paths, r.to \in Paths, Fits(r.path, r.to), NEW F,
         NEW l \in {"epath", "eset", "eid", "eput"}, Moving(l, r, F),
         NEW m \in {"eset", "eid", "eput", "etouch"},
         NEW q \in AtOrBelow(r.path), NEW i \in Ids, r.cur = <<q, i>>,
         NEW n, n = Moved(q, r.path, r.to), UNCHANGED <<hashes, nodes>>,
         \A p \in Paths \ {q, n} : SameAt(p), EntryStays(m, r, F, q, i, n)'
  PROVE  Moving(m, r, F)'
  <1>1. OldAt(l, r, F, q) /\ NewAt(l, r, F, q, n) /\ ListsOK(l, r, F)
    BY DEF Moving
  <1>2. /\ l \in OldEntryLabels /\ l \in EntryLabels /\ m \in OldEntryLabels /\ m \in EntryLabels
        /\ r.cur[1] = q /\ r.cur[2] = i
    BY DEF OldEntryLabels, EntryLabels
  <1>3. F[q] = i /\ <<q, i>> \notin r.todo /\ i # None
    <2>1. /\ l \in {"epath", "eset", "eid", "eput", "etouch"}
          /\ r.cur \in AtOrBelow(r.path) \X Ids /\ r.cur[1] = q /\ r.cur[2] = i
      OBVIOUS
    <2>. QED  BY <2>1, EntryFacts
  <1>4. /\ IdLeft(m, r, q, i) <=> m = "epath"
        /\ IdMade(m, r, q, i) <=> m \notin {"epath", "eset"}
        /\ PathLeft(m, r, q, i) <=> m \in {"epath", "eset", "eid"}
        /\ PathMade(m, r, q, i) <=> m = "etouch"
    BY <1>2, <1>3 DEF IdLeft, IdMade, PathLeft, PathMade
  <1>5. \A p : /\ ~HashLeft(l, r, p) /\ ~HashLeft(m, r, p)
               /\ ~NodeLeft(l, r, p) /\ ~NodeLeft(m, r, p)
               /\ NodeMade(l, r, p) /\ NodeMade(m, r, p)
    BY DEF HashLeft, NodeLeft, NodeMade, OldEntryLabels, EntryLabels
  <1>6. \A p : \A j : Holds(p, j) => Holds(p, j)'
    BY DEF Holds, hashes
  <1>7. OldAt(m, r, F, q)'
    <2>1. q \in nodes' <=> F[q] # None /\ NodeLeft(m, r, q)
      BY <1>1, <1>5 DEF OldAt
    <2>2. Holds(q, IF HashLeft(m, r, q) THEN F[q] ELSE None)'
      BY <1>1, <1>5, <1>6 DEF OldAt
    <2>3. pathToId'[q] = IF IdLeft(m, r, q, F[q]) THEN F[q] ELSE None
      BY <1>3, <1>4 DEF EntryStays
    <2>4. \A j \in Ids : idToPath'[j] = q <=> F[q] = j /\ PathLeft(m, r, q, j)
      BY <1>3, <1>4 DEF EntryStays
    <2>. QED  BY <2>1, <2>2, <2>3, <2>4 DEF OldAt
  <1>8. NewAt(m, r, F, q, n)'
    <2>1. n \in nodes' <=> F[n] # None \/ (F[q] # None /\ NodeMade(m, r, q))
      BY <1>1, <1>5 DEF NewAt
    <2>2. Holds(n, IF HashLeft(m, r, q) THEN F[n] ELSE F[q])'
      BY <1>1, <1>5, <1>6 DEF NewAt
    <2>3. pathToId'[n] = IF IdMade(m, r, q, F[q]) THEN F[q] ELSE F[n]
      BY <1>3, <1>4 DEF EntryStays
    <2>4. \A j \in Ids : idToPath'[j] = n <=>
            \/ F[n] = j /\ (m \in EntryLabels => <<n, j>> \in r.todo)
            \/ F[q] = j /\ PathMade(m, r, q, j)
      BY <1>2, <1>3, <1>4 DEF EntryStays
    <2>. QED  BY <2>1, <2>2, <2>3, <2>4 DEF NewAt
  <1>10. \A p \in AtOrBelow(r.path) \ {q} : SamePhase(l, r, m, r, F, p)
    <2>1. \A p : p # q => \A j : /\ IdLeft(l, r, p, j) <=> IdLeft(m, r, p, j)
                                 /\ IdMade(l, r, p, j) <=> IdMade(m, r, p, j)
                                 /\ PathLeft(l, r, p, j) <=> PathLeft(m, r, p, j)
                                 /\ PathMade(l, r, p, j) <=> PathMade(m, r, p, j)
      BY <1>2 DEF IdLeft, IdMade, PathLeft, PathMade
    <2>. QED  BY <1>5, <2>1 DEF SamePhase
  <1>11. SameTarget(l, r, m, r, F)
    BY <1>2 DEF SameTarget
  <1>12. ListsOK(m, r, F)
    BY <1>1, <1>2 DEF ListsOK, OldEntryLabels
  <1>. QED  BY <1>7, <1>8, <1>10, <1>11, <1>12, MovingWrite

\* The entry that a task has at hand, and how it goes on with it.
LEMMA EntryHas ==
  ASSUME ControlOK, NEW t \in Tasks, pc[t] \in OldEntryLabels, NEW r, r = local[t]
  PROVE  \E q \in AtOrBelow(r.path), i \in Ids, n \in Paths :
           /\ r.cur = <<q, i>> /\ r.cur[1] = q /\ r.cur[2] = i
           /\ n = NewPath(t, q) /\ n = Moved(q, r.path, r.to)
           /\ q \in Paths /\ Covers(t, q) /\ Covers(t, n) /\ Has(t, i)
  <1>1. pc[t] \in MovingLabels
    BY DEF MovingLabels, EntryLabels
  <1>2. r.cur \in AtOrBelow(r.path) \X Ids
    BY DEF ControlOK, ControlOf
  <1>3. PICK q \in AtOrBelow(r.path), i \in Ids : r.cur = <<q, i>>
    BY <1>2
  <1>4. r.cur[1] = q /\ r.cur[2] = i
    BY <1>3
  <1>5. Has(t, i)
    BY <1>4 DEF Has
  <1>6. q \in Paths /\ Covers(t, q) /\ NewPath(t, q) \in Paths /\ Covers(t, NewPath(t, q))
    BY <1>1, MoverIs
  <1>7. NewPath(t, q) = Moved(q, r.path, r.to)
    BY DEF NewPath
  <1>. QED  BY <1>3, <1>4, <1>5, <1>6, <1>7

LEMMA EntryGoes ==
  ASSUME ControlOK, IsolatedOK, NEW t \in Tasks,
         NEW l \in {"epath", "eset", "eid", "eput"}, pc[t] = l,
         NEW m \in {"eset", "eid", "eput", "etouch"}, Goto(t, m), local' = local
  PROVE  /\ pc[t] \in OldEntryLabels /\ pc[t] \in MovingLabels
         /\ m \in MovingLabels \ (KeyLabels \cup {"etouchput"})
         /\ \A u \in Tasks \ {t} : pc'[u] = pc[u] /\ local'[u] = local[u]
         /\ pc'[t] = m /\ local'[t] = local[t] /\ \A j \in Ids : Has(t, j)' => Has(t, j)
  <1>1. /\ pc[t] \in MovingLabels /\ m \in MovingLabels \ (KeyLabels \cup {"etouchput"})
        /\ {l, m} \subseteq EntryLabels /\ {l, m} \subseteq OldEntryLabels
        /\ l \notin HandLabels /\ m \notin HandLabels /\ l # "idle" /\ m # "idle"
    BY DEF MovingLabels, EntryLabels, OldEntryLabels, HandLabels
  <1>2. /\ \A u \in Tasks \ {t} : pc'[u] = pc[u] /\ local'[u] = local[u]
        /\ pc'[t] = m /\ local'[t] = local[t]
    BY <1>1, GoesOnAt
  <1>3. \A j \in Ids : Has(t, j)' => Has(t, j)
    BY <1>1, <1>2 DEF Has
  <1>. QED  BY <1>1, <1>2, <1>3

LEMMA EntryPathIsolated ==
  ASSUME ControlOK, ControlOK', IsolatedOK, NEW t \in Tasks, EntryPath(t)
  PROVE  IsolatedOK' /\ MovingGoesOn(t)
  <1>0. PICK r : r = local[t]
    OBVIOUS
  <1>1. /\ pc[t] = "epath" /\ Goto(t, "eset") /\ local' = local
        /\ pathToId' = [pathToId EXCEPT ![r.cur[1]] = None]
        /\ UNCHANGED <<hashes, nodes, idToPath, nextId, tainted>>
    BY <1>0 DEF EntryPath, history
  <1>2. "epath" \in {"epath", "eset", "eid", "eput"} /\ "eset" \in {"eset", "eid", "eput", "etouch"}
    OBVIOUS
  <1>3. /\ pc[t] \in OldEntryLabels /\ pc[t] \in MovingLabels
        /\ "eset" \in MovingLabels \ (KeyLabels \cup {"etouchput"})
        /\ \A u \in Tasks \ {t} : pc'[u] = pc[u] /\ local'[u] = local[u]
        /\ pc'[t] = "eset" /\ local'[t] = local[t] /\ \A j \in Ids : Has(t, j)' => Has(t, j)
    BY <1>1, <1>2, EntryGoes
  <1>4. r.path \in Paths /\ r.to \in Paths /\ Fits(r.path, r.to)
    BY <1>0, <1>3, MoverIs
  <1>5. PICK q \in AtOrBelow(r.path), i \in Ids, n \in Paths :
          /\ r.cur = <<q, i>> /\ r.cur[1] = q /\ r.cur[2] = i
          /\ n = NewPath(t, q) /\ n = Moved(q, r.path, r.to)
          /\ q \in Paths /\ Covers(t, q) /\ Covers(t, n) /\ Has(t, i)
    BY <1>0, <1>3, EntryHas
  <1>6. /\ pathToId'[q] = None /\ \A p \in Paths \ {q} : pathToId'[p] = pathToId[p]
        /\ None \notin Ids
    BY <1>1, <1>5, NamespaceAssumption DEF ControlOK, TypeOK, Ids
  <1>7. \A p \in Paths \ {q} : Kept(p)
    BY <1>1, <1>6 DEF Kept, hashes
  <1>8. Spares(t) /\ \A p \in Paths \ {q} : SameAt(p)
    BY <1>1, <1>3, <1>4, <1>5, <1>6, <1>7, WriteSpares
  <1>9. ASSUME NEW F, Moving("epath", r, F)
        PROVE  Moving("eset", r, F)'
    <2>0. /\ r.cur \in AtOrBelow(r.path) \X Ids /\ r.cur[1] = q /\ r.cur[2] = i
          /\ "epath" \in {"epath", "eset", "eid", "eput", "etouch"}
      BY <1>5
    <2>1. EntryStays("epath", r, F, q, i, n) /\ q # n /\ F[q] = i /\ i # None
      BY <1>4, <1>5, <1>9, <2>0, EntryFacts
    <2>2. EntryStays("eset", r, F, q, i, n)'
      BY <1>1, <1>5, <1>6, <2>1 DEF EntryStays
    <2>. QED  BY <1>1, <1>2, <1>4, <1>5, <1>8, <1>9, <2>2, EntryMoves
  <1>10. \A F : Clean(t) /\ Moving(pc[t], r, F) => Moving("eset", r, F)'
    BY <1>1, <1>9
  <1>. QED  BY <1>0, <1>1, <1>3, <1>8, <1>10, MoverGoes

LEMMA EntrySetIsolated ==
  ASSUME ControlOK, ControlOK', IsolatedOK, NEW t \in Tasks, EntrySet(t)
  PROVE  IsolatedOK' /\ MovingGoesOn(t)
  <1>0. PICK r : r = local[t]
    OBVIOUS
  <1>1. /\ pc[t] = "eset" /\ Goto(t, "eid") /\ local' = local
        /\ pathToId' = [pathToId EXCEPT ![NewPath(t, r.cur[1])] = r.cur[2]]
        /\ UNCHANGED <<hashes, nodes, idToPath, nextId, tainted>>
    BY <1>0 DEF EntrySet, history
  <1>2. "eset" \in {"epath", "eset", "eid", "eput"} /\ "eid" \in {"eset", "eid", "eput", "etouch"}
    OBVIOUS
  <1>3. /\ pc[t] \in OldEntryLabels /\ pc[t] \in MovingLabels
        /\ "eid" \in MovingLabels \ (KeyLabels \cup {"etouchput"})
        /\ \A u \in Tasks \ {t} : pc'[u] = pc[u] /\ local'[u] = local[u]
        /\ pc'[t] = "eid" /\ local'[t] = local[t] /\ \A j \in Ids : Has(t, j)' => Has(t, j)
    BY <1>1, <1>2, EntryGoes
  <1>4. r.path \in Paths /\ r.to \in Paths /\ Fits(r.path, r.to)
    BY <1>0, <1>3, MoverIs
  <1>5. PICK q \in AtOrBelow(r.path), i \in Ids, n \in Paths :
          /\ r.cur = <<q, i>> /\ r.cur[1] = q /\ r.cur[2] = i
          /\ n = NewPath(t, q) /\ n = Moved(q, r.path, r.to)
          /\ q \in Paths /\ Covers(t, q) /\ Covers(t, n) /\ Has(t, i)
    BY <1>0, <1>3, EntryHas
  <1>6. pathToId'[n] = i /\ \A p \in Paths \ {n} : pathToId'[p] = pathToId[p]
    BY <1>1, <1>5 DEF ControlOK, TypeOK
  <1>7. \A p \in Paths \ {n} : Kept(p)
    BY <1>1, <1>6 DEF Kept, hashes
  <1>8. Spares(t) /\ \A p \in Paths \ {n} : SameAt(p)
    <2>1. \A j \in Ids : pathToId'[n] = j => pathToId[n] = j \/ Has(t, j)
      BY <1>5, <1>6
    <2>. QED  BY <1>1, <1>3, <1>4, <1>5, <1>7, <2>1, WriteSpares
  <1>9. ASSUME NEW F, Moving("eset", r, F)
        PROVE  Moving("eid", r, F)'
    <2>0. /\ r.cur \in AtOrBelow(r.path) \X Ids /\ r.cur[1] = q /\ r.cur[2] = i
          /\ "eset" \in {"epath", "eset", "eid", "eput", "etouch"}
      BY <1>5
    <2>1. EntryStays("eset", r, F, q, i, n) /\ q # n /\ F[q] = i /\ i # None
      BY <1>4, <1>5, <1>9, <2>0, EntryFacts
    <2>2. EntryStays("eid", r, F, q, i, n)'
      BY <1>1, <1>5, <1>6, <2>1 DEF EntryStays
    <2>. QED  BY <1>1, <1>2, <1>4, <1>5, <1>8, <1>9, <2>2, EntryMoves
  <1>10. \A F : Clean(t) /\ Moving(pc[t], r, F) => Moving("eid", r, F)'
    BY <1>1, <1>9
  <1>. QED  BY <1>0, <1>1, <1>3, <1>8, <1>10, MoverGoes

LEMMA EntryIdIsolated ==
  ASSUME ControlOK, ControlOK', IsolatedOK, NEW t \in Tasks, EntryId(t)
  PROVE  IsolatedOK' /\ MovingGoesOn(t)
  <1>0. PICK r : r = local[t]
    OBVIOUS
  <1>1. /\ pc[t] = "eid" /\ Goto(t, "eput") /\ local' = local
        /\ idToPath' = [idToPath EXCEPT ![r.cur[2]] = None]
        /\ UNCHANGED <<hashes, nodes, pathToId, nextId, tainted>>
    BY <1>0 DEF EntryId, history
  <1>2. "eid" \in {"epath", "eset", "eid", "eput"} /\ "eput" \in {"eset", "eid", "eput", "etouch"}
    OBVIOUS
  <1>3. /\ pc[t] \in OldEntryLabels /\ pc[t] \in MovingLabels
        /\ "eput" \in MovingLabels \ (KeyLabels \cup {"etouchput"})
        /\ \A u \in Tasks \ {t} : pc'[u] = pc[u] /\ local'[u] = local[u]
        /\ pc'[t] = "eput" /\ local'[t] = local[t] /\ \A j \in Ids : Has(t, j)' => Has(t, j)
    BY <1>1, <1>2, EntryGoes
  <1>4. r.path \in Paths /\ r.to \in Paths /\ Fits(r.path, r.to)
    BY <1>0, <1>3, MoverIs
  <1>5. PICK q \in AtOrBelow(r.path), i \in Ids, n \in Paths :
          /\ r.cur = <<q, i>> /\ r.cur[1] = q /\ r.cur[2] = i
          /\ n = NewPath(t, q) /\ n = Moved(q, r.path, r.to)
          /\ q \in Paths /\ Covers(t, q) /\ Covers(t, n) /\ Has(t, i)
    BY <1>0, <1>3, EntryHas
  <1>6. /\ idToPath'[i] = None /\ \A j \in Ids \ {i} : idToPath'[j] = idToPath[j]
        /\ None \notin Paths
    BY <1>1, <1>5, NamespaceAssumption DEF ControlOK, TypeOK
  <1>7. Spares(t)
    BY <1>1, <1>3, <1>4, <1>5, <1>6, IdSpares
  <1>8. ASSUME NEW F, Moving("eid", r, F)
        PROVE  Moving("eput", r, F)'
    <2>0. /\ r.cur \in AtOrBelow(r.path) \X Ids /\ r.cur[1] = q /\ r.cur[2] = i
          /\ "eid" \in {"epath", "eset", "eid", "eput", "etouch"}
      BY <1>5
    <2>1. EntryStays("eid", r, F, q, i, n) /\ q # n /\ F[q] = i /\ i # None
      BY <1>4, <1>5, <1>8, <2>0, EntryFacts
    <2>2. idToPath[i] = q
      BY <2>1 DEF EntryStays
    <2>3. \A p \in Paths \ {q} : SameAt(p)
      BY <1>1, <1>6, <2>2 DEF SameAt, Kept, hashes
    <2>4. EntryStays("eput", r, F, q, i, n)'
      BY <1>1, <1>5, <1>6, <2>1, <2>2 DEF EntryStays
    <2>. QED  BY <1>1, <1>2, <1>4, <1>5, <1>8, <2>3, <2>4, EntryMoves
  <1>9. \A F : Clean(t) /\ Moving(pc[t], r, F) => Moving("eput", r, F)'
    BY <1>1, <1>8
  <1>. QED  BY <1>0, <1>1, <1>3, <1>7, <1>9, MoverGoes

LEMMA EntryPutIsolated ==
  ASSUME ControlOK, ControlOK', IsolatedOK, NEW t \in Tasks, EntryPut(t)
  PROVE  IsolatedOK' /\ MovingGoesOn(t)
  <1>0. PICK r : r = local[t]
    OBVIOUS
  <1>1. /\ pc[t] = "eput" /\ Goto(t, "etouch") /\ local' = local
        /\ idToPath' = [idToPath EXCEPT ![r.cur[2]] = NewPath(t, r.cur[1])]
        /\ UNCHANGED <<hashes, nodes, pathToId, nextId, tainted>>
    BY <1>0 DEF EntryPut, history
  <1>2. /\ "eput" \in {"epath", "eset", "eid", "eput"}
        /\ "etouch" \in {"eset", "eid", "eput", "etouch"}
    OBVIOUS
  <1>3. /\ pc[t] \in OldEntryLabels /\ pc[t] \in MovingLabels
        /\ "etouch" \in MovingLabels \ (KeyLabels \cup {"etouchput"})
        /\ \A u \in Tasks \ {t} : pc'[u] = pc[u] /\ local'[u] = local[u]
        /\ pc'[t] = "etouch" /\ local'[t] = local[t] /\ \A j \in Ids : Has(t, j)' => Has(t, j)
    BY <1>1, <1>2, EntryGoes
  <1>4. r.path \in Paths /\ r.to \in Paths /\ Fits(r.path, r.to)
    BY <1>0, <1>3, MoverIs
  <1>5. PICK q \in AtOrBelow(r.path), i \in Ids, n \in Paths :
          /\ r.cur = <<q, i>> /\ r.cur[1] = q /\ r.cur[2] = i
          /\ n = NewPath(t, q) /\ n = Moved(q, r.path, r.to)
          /\ q \in Paths /\ Covers(t, q) /\ Covers(t, n) /\ Has(t, i)
    BY <1>0, <1>3, EntryHas
  <1>6. idToPath'[i] = n /\ \A j \in Ids \ {i} : idToPath'[j] = idToPath[j]
    BY <1>1, <1>5 DEF ControlOK, TypeOK
  <1>7. Spares(t)
    BY <1>1, <1>3, <1>4, <1>5, <1>6, IdSpares
  <1>8. ASSUME NEW F \in [AtOrBelow(r.path) \cup AtOrBelow(r.to) -> Ids \cup {None}],
               Clean(t), Moving("eput", r, F)
        PROVE  Moving("etouch", r, F)'
    <2>0. /\ r.cur \in AtOrBelow(r.path) \X Ids /\ r.cur[1] = q /\ r.cur[2] = i
          /\ "eput" \in {"epath", "eset", "eid", "eput", "etouch"}
      BY <1>5
    <2>1. EntryStays("eput", r, F, q, i, n) /\ q # n /\ F[q] = i /\ i # None
      BY <1>4, <1>5, <1>8, <2>0, EntryFacts
    <2>2. ASSUME NEW p \in Paths \ {n}, idToPath[i] = p
          PROVE  FALSE
      <3>0. \A k \in AtOrBelow(r.path) \cup AtOrBelow(r.to) : F[k] = i => k = q
        BY <1>5, <1>8, <2>1 DEF Moving, TreeOK
      <3>1. p \in AtOrBelow(r.path) \/ p \in AtOrBelow(r.to)
        <4>1. pc[t] # "idle"
          BY <1>1
        <4>2. Covers(t, p)
          BY <1>5, <1>8, <2>2, <4>1, LeadsHere
        <4>. QED  BY <1>0, <2>2, <4>2, CoversOnly
      <3>2. CASE p \in AtOrBelow(r.path)
        <4>1. OldAt("eput", r, F, p)
          BY <1>8, <3>2 DEF Moving
        <4>2. p = q
          BY <1>5, <2>2, <3>0, <3>2, <4>1 DEF OldAt
        <4>. QED  BY <1>5, <2>1, <2>2, <4>2 DEF EntryStays
      <3>3. CASE p \in AtOrBelow(r.to) /\ \E k \in AtOrBelow(r.path) : p = Moved(k, r.path, r.to)
        <4>1. PICK k \in AtOrBelow(r.path) : p = Moved(k, r.path, r.to)
          BY <3>3
        <4>2. NewAt("eput", r, F, k, p)
          BY <1>8, <4>1 DEF Moving
        <4>3. F[p] = i \/ F[k] = i
          BY <1>5, <2>2, <4>2 DEF NewAt
        <4>4. p # q
          BY <1>4, <1>5, <1>8, <3>3, NewPathIs DEF Moving
        <4>5. k # q
          BY <1>5, <2>2, <4>1
        <4>. QED  BY <3>0, <3>3, <4>1, <4>3, <4>4, <4>5
      <3>4. CASE /\ p \in AtOrBelow(r.to)
                 /\ \A k \in AtOrBelow(r.path) : p # Moved(k, r.path, r.to)
        BY <1>5, <1>8, <2>1, <2>2, <3>4 DEF Moving, Sound, Whole
      <3>. QED  BY <3>1, <3>2, <3>3, <3>4
    <2>3. \A p \in Paths \ {n} : SameAt(p)
      BY <1>1, <1>6, <2>2 DEF SameAt, Kept, hashes
    <2>4. EntryStays("etouch", r, F, q, i, n)'
      BY <1>1, <1>5, <1>6, <2>1, <2>2 DEF EntryStays
    <2>. QED  BY <1>1, <1>2, <1>4, <1>5, <1>8, <2>3, <2>4, EntryMoves
  <1>9. \A F \in [AtOrBelow(r.path) \cup AtOrBelow(r.to) -> Ids \cup {None}] :
          Clean(t) /\ Moving(pc[t], r, F) => Moving("etouch", r, F)'
    BY <1>1, <1>8
  <1>. QED  BY <1>0, <1>1, <1>3, <1>7, <1>9, MoverGoes

\* The file that is replaced loses the path of its id.
LEMMA ReplacedMoves ==
  ASSUME NEW r, r.path \in Paths, r.to \in Paths, Fits(r.path, r.to), NEW s, s.path = r.path,
         s.to = r.to, NEW F \in [AtOrBelow(r.path) \cup AtOrBelow(r.to) -> Ids \cup {None}],
         Moving("entry", r, F), NEW i \in Ids, <<r.to, i>> \in r.todo,
         s.todo = r.todo \ {<<r.to, i>>}, UNCHANGED <<hashes, nodes, pathToId>>,
         idToPath'[i] = None, \A j \in Ids \ {i} : idToPath'[j] = idToPath[j]
  PROVE  Moving("entry", s, F)'
  <1>1. /\ r.path \in AtOrBelow(r.path) /\ r.to \in AtOrBelow(r.to)
        /\ r.to = Moved(r.path, r.path, r.to) /\ ~Related(r.path, r.to)
        /\ None \notin Paths /\ None \notin Ids
    BY MovedSelf, PrefixRefl, NamespaceAssumption DEF AtOrBelow, Moving, Ids
  <1>2. OldAt("entry", r, F, r.path) /\ NewAt("entry", r, F, r.path, r.to) /\ ListsOK("entry", r, F)
    BY <1>1 DEF Moving
  <1>3. "entry" \in EntryLabels /\ "entry" \notin OldEntryLabels
    BY DEF EntryLabels, OldEntryLabels
  <1>4. F[r.to] = i
    <2>1. F[<<r.to, i>>[1]] = <<r.to, i>>[2]
      BY <1>2, <1>3 DEF ListsOK
    <2>. QED  BY <2>1
  <1>5. idToPath[i] = r.to
    BY <1>2, <1>3, <1>4 DEF NewAt
  <1>6. F[r.path] # i
    <2>1. r.path # r.to
      BY <1>1 DEF Related, AtOrBelow
    <2>. QED  BY <1>1, <1>4, <2>1 DEF Moving, TreeOK
  <1>7. \A q \in Paths \ {r.path, r.to} : SameAt(q)
    BY <1>1, <1>5 DEF SameAt, Kept, hashes
  <1>8. \A q \in AtOrBelow(r.path) : \A j : <<q, j>> \in r.todo <=> <<q, j>> \in s.todo
    BY <1>1, NewPathIs
  <1>9. \A q : /\ ~HashLeft("entry", r, q) /\ ~HashLeft("entry", s, q)
               /\ ~NodeLeft("entry", r, q) /\ ~NodeLeft("entry", s, q)
               /\ NodeMade("entry", r, q) /\ NodeMade("entry", s, q)
    BY <1>3 DEF HashLeft, NodeLeft, NodeMade
  <1>10. \A q \in AtOrBelow(r.path) : \A j :
           /\ IdLeft("entry", r, q, j) <=> IdLeft("entry", s, q, j)
           /\ IdMade("entry", r, q, j) <=> IdMade("entry", s, q, j)
           /\ PathLeft("entry", r, q, j) <=> PathLeft("entry", s, q, j)
           /\ PathMade("entry", r, q, j) <=> PathMade("entry", s, q, j)
    BY <1>3, <1>8 DEF IdLeft, IdMade, PathLeft, PathMade
  <1>11. \A q \in AtOrBelow(r.path) : SamePhase("entry", r, "entry", s, F, q)
    BY <1>9, <1>10 DEF SamePhase
  <1>12. \A p : \A j : Holds(p, j) => Holds(p, j)'
    BY DEF Holds, hashes
  <1>13. OldAt("entry", s, F, r.path)'
    <2>1. \A j \in Ids : idToPath'[j] = r.path <=> F[r.path] = j /\ PathLeft("entry", s, r.path, j)
      BY <1>1, <1>2, <1>6, <1>10 DEF OldAt
    <2>2. r.path \in nodes' <=> F[r.path] # None /\ NodeLeft("entry", s, r.path)
      BY <1>2, <1>9 DEF OldAt
    <2>3. pathToId'[r.path] = IF IdLeft("entry", s, r.path, F[r.path]) THEN F[r.path] ELSE None
      BY <1>1, <1>2, <1>10 DEF OldAt
    <2>4. Holds(r.path, IF HashLeft("entry", s, r.path) THEN F[r.path] ELSE None)'
      BY <1>2, <1>9, <1>12 DEF OldAt
    <2>. QED  BY <2>1, <2>2, <2>3, <2>4 DEF OldAt
  <1>14. NewAt("entry", s, F, r.path, r.to)'
    <2>1. \A j \in Ids : idToPath'[j] = r.to <=>
            \/ F[r.to] = j /\ ("entry" \in EntryLabels => <<r.to, j>> \in s.todo)
            \/ F[r.path] = j /\ PathMade("entry", s, r.path, j)
      BY <1>1, <1>2, <1>3, <1>4, <1>6, <1>10 DEF NewAt
    <2>2. r.to \in nodes' <=> F[r.to] # None \/ (F[r.path] # None /\ NodeMade("entry", s, r.path))
      BY <1>2, <1>9 DEF NewAt
    <2>3. pathToId'[r.to] = IF IdMade("entry", s, r.path, F[r.path]) THEN F[r.path] ELSE F[r.to]
      BY <1>1, <1>2, <1>10 DEF NewAt
    <2>4. Holds(r.to, IF HashLeft("entry", s, r.path) THEN F[r.to] ELSE F[r.path])'
      BY <1>2, <1>9, <1>12 DEF NewAt
    <2>. QED  BY <2>1, <2>2, <2>3, <2>4 DEF NewAt
  <1>16. ListsOK("entry", s, F)
    BY <1>2, <1>3 DEF ListsOK
  <1>. QED  BY <1>1, <1>7, <1>11, <1>13, <1>14, <1>16, MovingWrite

\* The next entry is taken from the list.
LEMMA TakenMoves ==
  ASSUME NEW r, r.path \in Paths, r.to \in Paths, Fits(r.path, r.to), NEW s, s.path = r.path,
         s.to = r.to, NEW F, Moving("entry", r, F), NEW k \in AtOrBelow(r.path), NEW i \in Ids,
         <<k, i>> \in r.todo, s.todo = r.todo \ {<<k, i>>}, s.cur = <<k, i>>,
         UNCHANGED <<hashes, index>>
  PROVE  Moving("epath", s, F)'
  <1>1. /\ "entry" \in EntryLabels /\ "entry" \notin OldEntryLabels
        /\ "epath" \in EntryLabels /\ "epath" \in OldEntryLabels
        /\ s.cur[1] = k /\ s.cur[2] = i
    BY DEF EntryLabels, OldEntryLabels
  <1>2. ListsOK("entry", r, F)
    BY DEF Moving
  <1>3. F[k] = i
    <2>1. F[<<k, i>>[1]] = <<k, i>>[2]
      BY <1>1, <1>2 DEF ListsOK
    <2>. QED  BY <2>1
  <1>4. \A q \in Paths : SameAt(q)
    BY DEF SameAt, Kept, hashes, index
  <1>5. \A q : <<q, F[q]>> \in r.todo <=> <<q, F[q]>> \in s.todo \/ q = k
    BY <1>3
  <1>6. <<k, i>> \notin s.todo
    OBVIOUS
  <1>7. \A q : SamePhase("entry", r, "epath", s, F, q)
    <2>1. \A q : /\ HashLeft("entry", r, q) <=> HashLeft("epath", s, q)
                 /\ NodeLeft("entry", r, q) <=> NodeLeft("epath", s, q)
                 /\ NodeMade("entry", r, q) <=> NodeMade("epath", s, q)
      BY <1>1 DEF HashLeft, NodeLeft, NodeMade
    <2>2. \A q : /\ IdLeft("entry", r, q, F[q]) <=> IdLeft("epath", s, q, F[q])
                 /\ PathLeft("entry", r, q, F[q]) <=> PathLeft("epath", s, q, F[q])
      BY <1>1, <1>5 DEF IdLeft, PathLeft
    <2>3. \A q : /\ IdMade("entry", r, q, F[q]) <=> IdMade("epath", s, q, F[q])
                 /\ PathMade("entry", r, q, F[q]) <=> PathMade("epath", s, q, F[q])
      BY <1>1, <1>5 DEF IdMade, PathMade
    <2>. QED  BY <2>1, <2>2, <2>3 DEF SamePhase
  <1>8. SameTarget("entry", r, "epath", s, F)
    <2>1. r.to # k
      BY NewPathIs, PrefixRefl DEF Moving, AtOrBelow
    <2>. QED  BY <1>1, <2>1 DEF SameTarget
  <1>9. ListsOK("epath", s, F)
    BY <1>1, <1>2, <1>3, <1>6 DEF ListsOK
  <1>. QED  BY <1>4, <1>7, <1>8, <1>9, MovingRead

LEMMA EntryIsolated ==
  ASSUME ControlOK, ControlOK', IsolatedOK, NEW t \in Tasks, Entry(t)
  PROVE  IsolatedOK' /\ MovingGoesOn(t)
  <1>0. PICK r, s : r = local[t] /\ s = local'[t]
    OBVIOUS
  <1>1. PICK e \in r.todo :
          /\ local' = [local EXCEPT ![t].todo = @ \ {e}, ![t].cur = e]
          /\ idToPath' = IF e[1] = r.to THEN [idToPath EXCEPT ![e[2]] = None] ELSE idToPath
          /\ Goto(t, IF Prefix(r.path, e[1]) /\ (e[1] = r.path \/ NewPath(t, e[1]) # e[1])
                     THEN "epath" ELSE "entry")
    BY <1>0 DEF Entry
  <1>2. /\ pc[t] = "entry" /\ UNCHANGED <<hashes, nodes, pathToId, nextId, tainted>>
        /\ pc[t] \in MovingLabels /\ pc[t] \in EntryLabels
    BY DEF Entry, history, MovingLabels, EntryLabels
  <1>3. e \in Paths \X Ids
    BY <1>0, <1>1, <1>2 DEF ControlOK, ControlOf
  <1>4. PICK k \in Paths, i \in Ids : e = <<k, i>>
    BY <1>3
  <1>5. e[1] = k /\ e[2] = i
    BY <1>4
  <1>6. r.path \in Paths /\ r.to \in Paths /\ Fits(r.path, r.to) /\ r.path \in AtOrBelow(r.path)
    BY <1>0, <1>2, MoverIs
  <1>7. PICK m \in {"entry", "epath"} :
          /\ Goto(t, m)
          /\ m = "epath" <=> Prefix(r.path, k) /\ (k = r.path \/ NewPath(t, k) # k)
    BY <1>1, <1>5
  <1>8. /\ \A u \in Tasks \ {t} : pc'[u] = pc[u] /\ local'[u] = local[u]
        /\ pc'[t] = m /\ s.path = r.path /\ s.to = r.to /\ s.op = r.op
        /\ s.todo = r.todo \ {e} /\ s.cur = e
    <2>1. local' = [local EXCEPT ![t].todo = r.todo \ {e}, ![t].cur = e]
      BY <1>0, <1>1 DEF ControlOK, TypeOK
    <2>2. pc'[t] = m /\ \A u \in Tasks \ {t} : pc'[u] = pc[u]
      BY <1>7 DEF Goto, ControlOK, TypeOK
    <2>3. /\ \A u \in Tasks \ {t} : local'[u] = local[u]
          /\ s.path = r.path /\ s.to = r.to /\ s.op = r.op
          /\ s.todo = r.todo \ {e} /\ s.cur = e
      <3>1. /\ \A u \in Tasks \ {t} : local'[u] = local[u]
            /\ local'[t].path = local[t].path /\ local'[t].to = local[t].to
            /\ local'[t].op = local[t].op
            /\ local'[t].todo = r.todo \ {e} /\ local'[t].cur = e
        BY SMTT(30), <2>1 DEF ControlOK, TypeOK, Locals
      <3>. QED  BY <1>0, <3>1
    <2>. QED  BY <2>2, <2>3
  <1>9. /\ k = r.to => idToPath'[i] = None
        /\ k # r.to => idToPath' = idToPath
        /\ \A j \in Ids \ {i} : idToPath'[j] = idToPath[j]
    BY <1>1, <1>5 DEF ControlOK, TypeOK
  <1>10. None \notin Paths
    BY NamespaceAssumption
  <1>11. Spares(t)
    <2>1. Has(t, i)
      BY <1>0, <1>1, <1>2, <1>5 DEF Has
    <2>2. \A j \in Ids : Has(t, j)' => Has(t, j)
      BY <1>0, <1>1, <1>2, <1>8 DEF Has, HandLabels, EntryLabels, OldEntryLabels
    <2>3. \A q \in Paths : idToPath'[i] = q => q = idToPath[i] \/ Covers(t, q)
      BY <1>9, <1>10
    <2>. QED  BY <1>2, <1>8, <1>9, <2>1, <2>2, <2>3, IdSpares
  <1>12. ASSUME NEW F \in [AtOrBelow(r.path) \cup AtOrBelow(r.to) -> Ids \cup {None}],
                Moving("entry", r, F)
         PROVE  Moving(m, s, F)'
    <2>1. Prefix(r.path, k) \/ k = r.to
      BY <1>1, <1>2, <1>5, <1>12 DEF Moving, ListsOK
    <2>2. CASE k = r.to
      <3>1. m = "entry"
        BY <1>7, <1>12, <2>2 DEF Moving, Related
      <3>2. /\ <<r.to, i>> \in r.todo /\ s.todo = r.todo \ {<<r.to, i>>}
            /\ idToPath'[i] = None /\ UNCHANGED <<hashes, nodes, pathToId>>
        BY <1>1, <1>2, <1>4, <1>8, <1>9, <2>2
      <3>3. Moving("entry", s, F)'
        BY <1>6, <1>8, <1>9, <1>12, <3>2, ReplacedMoves
      <3>. QED  BY <3>1, <3>3
    <2>3. CASE Prefix(r.path, k) /\ k # r.to
      <3>1. k \in AtOrBelow(r.path)
        BY <2>3 DEF AtOrBelow
      <3>2. NewPath(t, k) # k
        BY <1>0, <1>6, <1>12, <3>1, NewPathIs DEF NewPath, Moving
      <3>3. m = "epath"
        BY <1>7, <2>3, <3>2
      <3>4. UNCHANGED <<hashes, index>>
        BY <1>2, <1>9, <2>3 DEF index
      <3>5. <<k, i>> \in r.todo /\ s.todo = r.todo \ {<<k, i>>} /\ s.cur = <<k, i>>
        BY <1>1, <1>4, <1>8
      <3>6. Moving("epath", s, F)'
        BY <1>6, <1>8, <1>12, <3>1, <3>4, <3>5, TakenMoves
      <3>. QED  BY <3>3, <3>6
    <2>. QED  BY <2>1, <2>2, <2>3
  <1>13. m \in MovingLabels \ (KeyLabels \cup {"etouchput"}) /\ UNCHANGED nextId
    BY <1>2 DEF MovingLabels, EntryLabels, OldEntryLabels
  <1>14. \A F \in [AtOrBelow(r.path) \cup AtOrBelow(r.to) -> Ids \cup {None}] :
           Clean(t) /\ Moving(pc[t], r, F) => Moving(m, s, F)'
    BY <1>2, <1>12
  <1>. QED  BY <1>0, <1>2, <1>8, <1>11, <1>13, <1>14, MoverGoes

-----------------------------------------------------------------------------
(***************************************************************************)
(* Every step.                                                             *)
(***************************************************************************)
LEMMA CreateIsolated ==
  ASSUME ControlOK, ControlOK', IsolatedOK, Redis = TRUE, NEW t \in Tasks, CreateStep(t)
  PROVE  IsolatedOK'
  <1>1. ~IncrLost(t) /\ ~IncrAgain(t) /\ ~IncrPut(t) /\ ~MountLook(t)
    BY DEF IncrLost, IncrAgain, IncrPut, MountLook, IsolatedOK, DoingOK, BearingsOf
  <1>. QED  BY <1>1, ExistsIsolated, IncrIsolated, CreateWritesIsolated, IdToPathIsolated,
               EmptyIsolated, ResetIsolated DEF CreateStep

LEMMA RemoveIsolated ==
  ASSUME ControlOK, ControlOK', IsolatedOK, Redis = TRUE, NEW t \in Tasks, RemoveStep(t)
  PROVE  IsolatedOK'
  <1>1. ~HalfDelete(t)
    BY DEF HalfDelete
  <1>. QED  BY <1>1, ScanIsolated, GetIdIsolated, RemoveWritesIsolated, UnidIsolated DEF RemoveStep

LEMMA RenameIsolated ==
  ASSUME ControlOK, ControlOK', IsolatedOK, Redis = TRUE, NEW t \in Tasks, RenameStep(t)
  PROVE  IsolatedOK'
  <1>1. ~EntryTouchPut(t) /\ ~NextKey(t)
    BY DEF EntryTouchPut, NextKey, IsolatedOK, DoingOK, BearingsOf
  <1>5. ~MoveData(t) /\ ~CutData(t) /\ ~SetMovedKey(t) /\ ~CutKey(t)
    BY DEF MoveData, CutData, SetMovedKey, CutKey, IsolatedOK, DoingOK, BearingsOf
  <1>2. CASE RenameSource(t) \/ RenameTarget(t) \/ RenameType(t) \/ Move(t) \/ Keys(t) \/ MoveKey(t)
    BY <1>2, SourceIsolated, TargetIsolated, TypeIsolated, MoveIsolated, KeysIsolated,
       MoveKeyIsolated
  <1>3. CASE Nodes(t) \/ RemNode(t) \/ AddNode(t) \/ Entries(t) \/ Entry(t)
    BY <1>3, NodesIsolated, RemNodeIsolated, AddNodeIsolated, EntriesIsolated, EntryIsolated
  <1>4. CASE EntryPath(t) \/ EntrySet(t) \/ EntryId(t) \/ EntryPut(t) \/ EntryTouch(t) \/ Renamed(t)
    BY <1>4, EntryPathIsolated, EntrySetIsolated, EntryIdIsolated, EntryPutIsolated,
       TouchEntryIsolated, RenamedIsolated
  <1>. QED  BY <1>1, <1>2, <1>3, <1>4, <1>5 DEF RenameStep

LEMMA CommitIsolated ==
  ASSUME ControlOK, ControlOK', IsolatedOK, Redis = TRUE, NEW t \in Tasks, CommitStep(t)
  PROVE  IsolatedOK'
  <1>1. ~TouchPut(t)
    BY DEF TouchPut, IsolatedOK, DoingOK, BearingsOf
  <1>. QED  BY <1>1, PutDataIsolated, TouchIsolated DEF CommitStep

LEMMA StandsIsolated ==
  ASSUME ControlOK, ControlOK', IsolatedOK, UNCHANGED vars
  PROVE  IsolatedOK'
  <1>1. UNCHANGED <<store, pc, local, tainted>> /\ UNCHANGED store
    BY DEF vars, history
  <1>2. \A u \in Tasks : /\ Named(u)' = Named(u) /\ (Clean(u)' <=> Clean(u))
                         /\ FirstMount(u)' <=> FirstMount(u)
    BY <1>1 DEF Named, Clean, FirstMount
  <1>3. ApartOK'
    BY <1>1, <1>2 DEF IsolatedOK, ApartOK
  <1>4. Relabels
    <2>1. \A u \in Tasks : \A i \in Ids : Has(u, i)' => Has(u, i) /\ local'[u].path = local[u].path
      BY <1>1 DEF Has
    <2>2. \A u \in Tasks : \A p \in Paths : Covers(u, p) => Covers(u, p)'
      BY <1>2 DEF Covers
    <2>. QED  BY <1>1, <1>2, <2>1, <2>2 DEF Relabels
  <1>5. DoingOK'
    <2>1. SUFFICES ASSUME NEW u \in Tasks, NEW l \in {pc'[u]}, NEW r \in {local'[u]}
                   PROVE  /\ BearingsOf(l, r)
                          /\ Clean(u)' => HalfwayOf(l, r)'
                          /\ Clean(u)' /\ FirstMount(u)' =>
                               \A q \in Paths \ {<<>>} : q \notin nodes'
      BY DEF DoingOK
    <2>2. l = pc[u] /\ r = local[u] /\ r \in Locals /\ ControlOf(l, r)
      BY <1>1 DEF ControlOK, TypeOK
    <2>3. /\ BearingsOf(l, r)
          /\ Clean(u) => HalfwayOf(l, r)
          /\ Clean(u) /\ FirstMount(u) => \A q \in Paths \ {<<>>} : q \notin nodes
      BY <2>2 DEF IsolatedOK, DoingOK
    <2>4. nodes' = nodes
      BY <1>1 DEF store, index
    <2>5. HalfwayOf(l, r) => HalfwayOf(l, r)'
      BY <1>1, <2>2, StoreHalfway
    <2>. QED  BY <1>2, <2>3, <2>4, <2>5
  <1>. QED  BY <1>3, <1>4, <1>5, RelabelsKeep DEF IsolatedOK

LEMMA NextIsolated ==
  ASSUME ControlOK, ControlOK', IsolatedOK, Redis = TRUE, WildRenames = FALSE, [Next]_vars
  PROVE  IsolatedOK'
  <1>1. ASSUME NEW t \in Tasks, TaskStep(t)
        PROVE  IsolatedOK'
    BY <1>1, CreateIsolated, RemoveIsolated, RenameIsolated, CommitIsolated DEF TaskStep
  <1>. QED  BY <1>1, RequestIsolated, FaultIsolated, RestartIsolated, StandsIsolated DEF Next

\* Over Redis, where no client renames a path onto itself or onto a directory that
\* is not empty: a request that has overlapped with no other and lost no call finds
\* and leaves its names as it should, whatever goes on elsewhere (create_file,
\* remove, rename and their helpers).
THEOREM IsolationAlways ==
  ASSUME Redis = TRUE, WildRenames = FALSE
  PROVE  Spec => []IsolatedOK
  <1>1. IsolatedOK /\ ControlOK /\ ControlOK' /\ [Next]_vars => IsolatedOK'
    BY NextIsolated
  <1>. QED  BY <1>1, InitIsolated, ControlAlways, PTL DEF Spec

\* A name that nobody is at work on or has left half done is sound, and so is
\* its directory.
LEMMA UndisturbedSound ==
  ASSUME ControlOK, IsolatedOK, NEW p \in Paths, Undisturbed(p)
  PROVE  Sound(p)
  <1>1. Intact(p)
    BY DEF Undisturbed, Intact, Related
  <1>2. \A t \in Tasks : ~Covers(t, p)
    BY DEF Undisturbed, Covers, Related
  <1>. QED  BY <1>1, <1>2 DEF IsolatedOK, QuietOK

LEMMA SoundAgrees ==
  ASSUME ControlOK, NEW p \in Paths, Sound(p)
  PROVE  /\ NamesAgreeAt(p)
         /\ data[p] # None => data[p] = pathToId[p]
         /\ p \in links <=> (meta[p] # None /\ meta[p].type = "link")
  <1>1. /\ p \in nodes <=> pathToId[p] # None
        /\ p \in nodes <=> meta[p] # None
        /\ \A i \in Ids : idToPath[i] = p <=> pathToId[p] = i
        /\ Holds(p, pathToId[p])
    BY SoundKnows
  <1>. QED  BY <1>1 DEF NamesAgreeAt, Holds

\* Over Redis requests disturb nothing but the paths that they name: at any other
\* the sorted set, the two hashes and the metadata agree, however the requests
\* interleave and whatever fails (create_file, remove, rename, commit_write).
THEOREM NamesIsolatedAlways ==
  ASSUME Redis = TRUE, WildRenames = FALSE
  PROVE  Spec => []NamesAreIsolated
  <1>1. ControlOK /\ IsolatedOK => NamesAreIsolated
    BY UndisturbedSound, SoundAgrees DEF NamesAreIsolated
  <1>. QED  BY <1>1, ControlAlways, IsolationAlways, PTL

\* Over Redis what is stored at such a path is what was written to its file, and
\* only symbolic links have a target (commit_write, symlink, rename).
THEOREM ContentIsolatedAlways ==
  ASSUME Redis = TRUE, WildRenames = FALSE
  PROVE  Spec => []ContentIsIsolated
  <1>1. ControlOK /\ IsolatedOK => ContentIsIsolated
    BY UndisturbedSound, SoundAgrees DEF ContentIsIsolated
  <1>. QED  BY <1>1, ControlAlways, IsolationAlways, PTL

\* Over Redis no such name is without its directory (remove, which refuses one
\* that is not empty, and rename, which moves it with what is in it).
THEOREM DirectoriesIsolatedAlways ==
  ASSUME Redis = TRUE, WildRenames = FALSE
  PROVE  Spec => []DirectoriesAreIsolated
  <1>1. ControlOK /\ IsolatedOK => DirectoriesAreIsolated
    <2>1. ASSUME ControlOK, IsolatedOK, NEW p \in Paths \ {<<>>}, Undisturbed(p), p \in nodes
          PROVE  Parent(p) \in nodes
      BY <2>1, UndisturbedSound DEF Sound, DirAt
    <2>. QED  BY <2>1 DEF DirectoriesAreIsolated
  <1>. QED  BY <1>1, ControlAlways, IsolationAlways, PTL
=============================================================================
