---------------------------- MODULE ListingProofs ----------------------------
(***************************************************************************)
(* Theorems about Listing, for every set of names, paths and tasks, every  *)
(* size of a page and every bound: a listing has what its steps need and   *)
(* sends no id twice, what it does is none of the other requests'          *)
(* business, what it says of a file that nothing has disturbed is true,    *)
(* and it has the whole directory beside nothing and, of the names that    *)
(* were there all along, those that creates and commits cannot hide.       *)
(***************************************************************************)
EXTENDS ListingInvariant, NamespaceIsolation, FiniteSetTheorems

-----------------------------------------------------------------------------
(***************************************************************************)
(* Listings change nothing.                                                *)
(***************************************************************************)
LEMMA StepIsNamespace == [ListingNext]_<<vars, listing>> => [Next]_vars
  BY DEF ListingNext, ListingStep

\* Every behaviour of the store with a client that lists a directory is one of the
\* store without: readdir (mod.rs) only reads.
THEOREM ListingChangesNothing == ListingSpec => Spec
  <1>1. ListingInit => Init
    BY DEF ListingInit
  <1>. QED  BY <1>1, StepIsNamespace, PTL DEF ListingSpec, Spec

-----------------------------------------------------------------------------
(***************************************************************************)
(* What a listing knows.                                                   *)
(***************************************************************************)
ListingSet ==
  [pc : {"idle", "open", "members", "ids", "entries"}, id : Ids \cup {None},
   path : Paths \cup {None}, max : Nat, after : Nat, todo : SUBSET Paths,
   ids : SUBSET Ids, page : UNION {[P -> Reading] : P \in SUBSET Ids},
   listed : SUBSET Said]

LEMMA ListingSetIs ==
  lister \in ListingSet
    <=> DOMAIN lister.page \subseteq Ids /\ lister \in Listings(DOMAIN lister.page)
  <1>1. ASSUME lister \in ListingSet
        PROVE  DOMAIN lister.page \subseteq Ids /\ lister \in Listings(DOMAIN lister.page)
    <2>1. PICK P \in SUBSET Ids : lister.page \in [P -> Reading]
      BY <1>1 DEF ListingSet
    <2>2. DOMAIN lister.page = P
      BY <2>1
    <2>. QED  BY <1>1, <2>1, <2>2 DEF ListingSet, Listings
  <1>2. ASSUME DOMAIN lister.page \subseteq Ids, lister \in Listings(DOMAIN lister.page)
        PROVE  lister \in ListingSet
    <2>1. lister.page \in [DOMAIN lister.page -> Reading]
      BY <1>2 DEF Listings
    <2>2. lister.page \in UNION {[P -> Reading] : P \in SUBSET Ids}
      BY <1>2, <2>1
    <2>. QED  BY <1>2, <2>2 DEF ListingSet, Listings
  <1>. QED  BY <1>1, <1>2

ListerOK ==
  /\ lister \in ListingSet /\ begun \in BOOLEAN
  /\ lister.pc # "idle" => lister.id # None
  /\ lister.pc \in {"members", "ids", "entries"} => lister.path # None
  /\ \A i \in DOMAIN lister.page : i > lister.after /\ ReadingOK(lister.page[i])
  /\ \A e \in lister.listed : e.id <= lister.after

LEMMA ClosedOK == Closed \in ListingSet
  <1>1. <<>> \in [{} -> Reading]
    OBVIOUS
  <1>2. <<>> \in UNION {[P -> Reading] : P \in SUBSET Ids}
    BY <1>1
  <1>. QED  BY <1>2 DEF Closed, ListingSet

LEMMA CloseStep == lister' = Closed /\ begun' \in BOOLEAN => ListerOK'
  BY ClosedOK DEF ListerOK, Closed

\* A step that reads one entry.
LEMMA EntryStep ==
  ASSUME ListerOK, NEW i \in DOMAIN lister.page, NEW r \in Reading, ReadingOK(r),
         lister' = [lister EXCEPT !.page[i] = r], begun' = begun
  PROVE  ListerOK'
  <1>1. PICK P \in SUBSET Ids : lister.page \in [P -> Reading]
    BY DEF ListerOK, ListingSet
  <1>2. [lister.page EXCEPT ![i] = r] \in [P -> Reading]
    BY <1>1
  <1>3. /\ lister' \in ListingSet /\ lister'.page = [lister.page EXCEPT ![i] = r]
        /\ lister'.pc = lister.pc /\ lister'.id = lister.id /\ lister'.path = lister.path
        /\ lister'.after = lister.after /\ lister'.listed = lister.listed
    BY <1>2 DEF ListerOK, ListingSet
  <1>. QED  BY <1>1, <1>3 DEF ListerOK

LEMMA UnreadOK == Unread \in Reading /\ ReadingOK(Unread)
  BY DEF Unread, Reading, ReadingOK

LEMMA DropStep ==
  ASSUME ListerOK, NEW i \in DOMAIN lister.page, Dropped(i), begun' = begun
  PROVE  ListerOK'
  <1>. DEFINE r == [Unread EXCEPT !.at = "dropped"]
  <1>1. r \in Reading /\ ReadingOK(r)
    BY DEF Unread, Reading, ReadingOK
  <1>. QED  BY <1>1, EntryStep DEF Dropped

LEMMA EntriesOK ==
  ASSUME ControlOK, ListerOK, NEW i \in DOMAIN lister.page, begun' = begun,
         EntryPathOf(i) \/ EntryHash(i) \/ EntryName(i)
  PROVE  ListerOK'
  <1>. DEFINE old == lister.page[i]
  <1>1. i \in Ids /\ old \in Reading /\ ReadingOK(old)
    BY DEF ListerOK, ListingSet
  <1>2. CASE EntryPathOf(i)
    <2>1. CASE idToPath[i] = None
      BY <1>2, <2>1, DropStep DEF EntryPathOf
    <2>2. CASE idToPath[i] # None
      <3>. DEFINE r == [old EXCEPT !.at = "hash", !.path = idToPath[i]]
      <3>1. idToPath[i] \in Paths
        BY <1>1, <2>2 DEF ControlOK, TypeOK
      <3>2. r \in Reading /\ ReadingOK(r)
        BY <1>1, <2>2, <3>1 DEF Reading, ReadingOK
      <3>3. lister' = [lister EXCEPT !.page[i] = r]
        BY <1>2, <2>2 DEF EntryPathOf, ListerOK, ListingSet
      <3>. QED  BY <3>2, <3>3, EntryStep
    <2>. QED  BY <2>1, <2>2
  <1>3. CASE EntryHash(i)
    <2>1. CASE ~Keyed(old.path)
      BY <1>3, <2>1, DropStep DEF EntryHash
    <2>2. CASE Keyed(old.path)
      <3>. DEFINE r == [old EXCEPT !.at = "name", !.path = None, !.type = TypeAt(old.path)]
      <3>1. old.path \in Paths
        BY <1>1, <1>3 DEF EntryHash, EntryAt, Reading, ReadingOK
      <3>2. meta[old.path] \in Hash \cup {None}
        BY <3>1 DEF ControlOK, TypeOK
      <3>3. TypeAt(old.path) \in Types
        BY <3>2 DEF TypeAt, Hash, Types
      <3>4. r \in Reading
        BY <1>1, <3>3 DEF Reading
      <3>5. None \notin Types
        BY NamespaceAssumption
      <3>6. ReadingOK(r)
        BY <1>1, <3>3, <3>5 DEF Reading, ReadingOK
      <3>7. lister' = [lister EXCEPT !.page[i] = r]
        BY <1>3, <2>2 DEF EntryHash, ListerOK, ListingSet
      <3>. QED  BY <3>4, <3>6, <3>7, EntryStep
    <2>. QED  BY <2>1, <2>2
  <1>4. CASE EntryName(i)
    <2>1. CASE idToPath[i] = None
      BY <1>4, <2>1, DropStep DEF EntryName
    <2>2. CASE idToPath[i] # None
      <3>. DEFINE p == idToPath[i]
                  n == IF p = <<>> THEN None ELSE p[Len(p)]
                  r == [old EXCEPT !.at = "kept", !.name = n]
      <3>1. p \in Seq(Names)
        BY <1>1, <2>2, NamespaceAssumption DEF ControlOK, TypeOK
      <3>2. n \in Names \cup {None}
        BY <3>1
      <3>3. old.at = "name"
        BY <1>4 DEF EntryName, EntryAt
      <3>4. r \in Reading /\ ReadingOK(r)
        BY <1>1, <3>2, <3>3 DEF Reading, ReadingOK
      <3>5. lister' = [lister EXCEPT !.page[i] = r]
        BY <1>4, <2>2 DEF EntryName, ListerOK, ListingSet
      <3>. QED  BY <3>4, <3>5, EntryStep
    <2>. QED  BY <2>1, <2>2
  <1>. QED  BY <1>2, <1>3, <1>4

\* A step that goes on to the next call, before there is a page.
LEMMA GatherOK ==
  ASSUME ControlOK, ListerOK, begun' = begun, ReadPath \/ Members \/ MemberId
  PROVE  ListerOK'
  <1>1. CASE ReadPath
    <2>1. CASE idToPath[lister.id] = None
      BY <1>1, <2>1, CloseStep DEF ReadPath, ListerOK
    <2>2. CASE idToPath[lister.id] # None
      <3>1. lister.id \in Ids
        BY <1>1 DEF ReadPath, ListerOK, ListingSet
      <3>2. idToPath[lister.id] \in Paths
        BY <2>2, <3>1 DEF ControlOK, TypeOK
      <3>3. lister' = [lister EXCEPT !.pc = "members", !.path = idToPath[lister.id],
                                     !.ids = {}, !.page = <<>>]
        BY <1>1, <2>2 DEF ReadPath
      <3>4. <<>> \in UNION {[P -> Reading] : P \in SUBSET Ids} /\ DOMAIN <<>> = {}
        BY ClosedOK DEF Closed, ListingSet
      <3>5. lister' \in ListingSet
        BY <3>2, <3>3, <3>4 DEF ListerOK, ListingSet
      <3>. QED  BY <1>1, <2>2, <3>3, <3>4, <3>5 DEF ReadPath, ListerOK, ListingSet
    <2>. QED  BY <2>1, <2>2
  <1>2. CASE Members
    <2>1. {q \in nodes \ {<<>>} : Parent(q) = lister.path} \subseteq Paths
      BY DEF ControlOK, TypeOK
    <2>2. lister' \in ListingSet
      BY <1>2, <2>1 DEF Members, ListerOK, ListingSet
    <2>. QED  BY <1>2, <2>2 DEF Members, ListerOK, ListingSet
  <1>3. CASE MemberId
    <2>1. PICK q \in lister.todo :
            lister' = IF pathToId[q] = None THEN Closed
                      ELSE [lister EXCEPT !.todo = @ \ {q}, !.ids = @ \cup {pathToId[q]}]
      BY <1>3 DEF MemberId
    <2>2. CASE pathToId[q] = None
      BY <2>1, <2>2, CloseStep DEF ListerOK
    <2>3. CASE pathToId[q] # None
      <3>1. q \in Paths
        BY DEF ListerOK, ListingSet
      <3>2. pathToId[q] \in Ids
        BY <2>3, <3>1 DEF ControlOK, TypeOK
      <3>3. lister' \in ListingSet
        BY <2>1, <2>3, <3>2 DEF ListerOK, ListingSet
      <3>. QED  BY <2>1, <2>3, <3>3 DEF ListerOK, ListingSet
    <2>. QED  BY <2>2, <2>3
  <1>. QED  BY <1>1, <1>2, <1>3

\* The ids of a page are behind the cookie.
LEMMA TakeOK == ListerOK /\ TakePage /\ begun' = begun => ListerOK'
  <1>. SUFFICES ASSUME ListerOK, TakePage, begun' = begun  PROVE ListerOK'
    OBVIOUS
  <1>. DEFINE P == [i \in Chosen |-> Unread]
  <1>1. Chosen \subseteq Ids /\ \A i \in Chosen : i > lister.after
    BY DEF Chosen, ListerOK, ListingSet
  <1>2. P \in UNION {[Q -> Reading] : Q \in SUBSET Ids}
    BY <1>1, UnreadOK
  <1>3. lister' = [lister EXCEPT !.pc = "entries", !.ids = {}, !.page = P]
    BY DEF TakePage
  <1>. HIDE DEF P
  <1>4. /\ lister' \in ListingSet /\ lister'.page = P /\ lister'.pc = "entries"
        /\ lister'.id = lister.id /\ lister'.path = lister.path
        /\ lister'.after = lister.after /\ lister'.listed = lister.listed
    BY <1>2, <1>3 DEF ListerOK, ListingSet
  <1>5. \A i \in DOMAIN P : i > lister.after /\ ReadingOK(P[i])
    BY <1>1, UnreadOK DEF P
  <1>6. lister.pc = "ids"
    BY DEF TakePage
  <1>. QED  BY <1>4, <1>5, <1>6 DEF ListerOK

\* What is sent is behind the old cookie, and not behind the new one.
LEMMA GoOnOK ==
  ASSUME ListerOK, PageIsRead, begun' = begun, NEW sent \in SUBSET PageEntries, GoOn(sent)
  PROVE  ListerOK'
  <1>1. PICK last \in {lister.after} \cup {e.id : e \in sent} :
          /\ \A e \in sent : e.id <= last
          /\ lister' = [lister EXCEPT !.pc = "open", !.path = None, !.page = <<>>,
                                      !.listed = @ \cup sent, !.after = last]
    BY DEF GoOn
  <1>2. ASSUME NEW e \in PageEntries
        PROVE  e \in Said /\ e.id > lister.after /\ e.id \in Nat
    <2>1. PICK i \in DOMAIN lister.page :
            /\ lister.page[i].at = "kept"
            /\ e = [id |-> i, name |-> lister.page[i].name, type |-> lister.page[i].type]
      BY <1>2 DEF PageEntries
    <2>2. i \in Ids /\ lister.page[i] \in Reading
      BY DEF ListerOK, ListingSet
    <2>3. ReadingOK(lister.page[i]) /\ i > lister.after
      BY DEF ListerOK
    <2>4. lister.page[i].name \in Names \cup {None} /\ lister.page[i].type \in Types
      BY <2>1, <2>2, <2>3 DEF Reading, ReadingOK
    <2>5. i \in Nat
      BY <2>2, NamespaceAssumption DEF Ids
    <2>. QED  BY <2>1, <2>2, <2>3, <2>4, <2>5 DEF Said
  <1>3. last \in Nat /\ last >= lister.after
    BY <1>1, <1>2 DEF ListerOK, ListingSet
  <1>4. <<>> \in UNION {[P -> Reading] : P \in SUBSET Ids} /\ DOMAIN <<>> = {}
    BY ClosedOK DEF Closed, ListingSet
  <1>5. sent \subseteq Said
    BY <1>2
  <1>6. /\ lister' \in ListingSet /\ lister'.page = <<>> /\ lister'.pc = "open"
        /\ lister'.id = lister.id /\ lister'.after = last
        /\ lister'.listed = lister.listed \cup sent
    BY <1>1, <1>3, <1>4, <1>5 DEF ListerOK, ListingSet
  <1>7. ASSUME NEW e \in lister.listed \cup sent
        PROVE  e.id <= last
    <2>1. CASE e \in sent
      BY <1>1, <2>1
    <2>2. CASE e \in lister.listed
      <3>1. e.id <= lister.after /\ e.id \in Ids /\ lister.after \in Nat
        BY <2>2 DEF ListerOK, ListingSet, Said
      <3>2. e.id \in Nat
        BY <3>1, NamespaceAssumption DEF Ids
      <3>. QED  BY <1>3, <3>1, <3>2
    <2>. QED  BY <2>1, <2>2
  <1>8. lister.id # None
    BY DEF PageIsRead, ListerOK
  <1>. QED  BY <1>4, <1>6, <1>7, <1>8 DEF ListerOK

LEMMA ReadPageOK ==
  ASSUME ControlOK, ListerOK, ReadPage \/ ReadFail, begun' = begun
  PROVE  ListerOK'
  <1>0. begun' \in BOOLEAN
    BY DEF ListerOK
  <1>1. CASE ReadFail
    <2>1. CASE lister' = Closed
      BY <1>0, <2>1, CloseStep
    <2>. QED  BY <1>1, <2>1, DropStep DEF ReadFail
  <1>2. CASE Reply
    BY <1>0, <1>2, CloseStep, GoOnOK DEF Reply
  <1>3. CASE ReplyCut
    <2>1. PICK e \in PageEntries : GoOn({f \in PageEntries : f.id < e.id})
      BY <1>3 DEF ReplyCut
    <2>. QED  BY <1>3, <2>1, GoOnOK DEF ReplyCut
  <1>. QED  BY <1>1, <1>2, <1>3, GatherOK, TakeOK, EntriesOK DEF ReadPage

LEMMA StartOK ==
  ASSUME ListerOK, NEW i \in Ids, NEW n \in PageSizes, Start(i, n)
  PROVE  ListerOK'
  <1>1. lister' = [Closed EXCEPT !.pc = "open", !.id = i, !.max = n]
    BY DEF Start
  <1>2. n \in Nat /\ i # None
    BY NamespaceAssumption, ListingAssumption DEF Ids
  <1>3. lister' \in ListingSet
    BY <1>1, <1>2, ClosedOK DEF ListingSet
  <1>. QED  BY <1>1, <1>2, <1>3, ClosedOK DEF Start, ListerOK, Closed

\* History stays within its types.
LEMMA WatchOK ==
  ASSUME ControlOK', Watch(TRUE) \/ Watch(FALSE), overlap \subseteq Ops \cup {"fault"},
         making \subseteq Ids \cup {None}
  PROVE  /\ calm' \subseteq Paths /\ overlap' \subseteq Ops \cup {"fault"}
         /\ making' \subseteq Ids \cup {None}
  <1>1. {local[t].op : t \in Tasks}' \subseteq Ops \cup {None}
    BY DEF ControlOK, TypeOK, Locals
  <1>2. {local[t].id : t \in Makers}' \subseteq Ids \cup {None}
    BY DEF ControlOK, TypeOK, Locals, Makers
  <1>. QED  BY <1>1, <1>2 DEF Watch

LEMMA BesideOK ==
  ASSUME ListerOK, lister' = (IF Refused THEN Closed ELSE lister), begun' = begun
  PROVE  ListerOK'
  <1>1. CASE Refused
    BY <1>1, CloseStep DEF ListerOK
  <1>2. CASE ~Refused
    BY <1>2 DEF ListerOK
  <1>. QED  BY <1>1, <1>2

LEMMA NextListing ==
  ControlOK /\ ControlOK' /\ ListingOK /\ [ListingNext]_<<vars, listing>> => ListingOK'
  <1>. SUFFICES ASSUME ControlOK, ControlOK', ListingOK, [ListingNext]_<<vars, listing>>
                PROVE  ListingOK'
    OBVIOUS
  <1>1. ListerOK /\ overlap \subseteq Ops \cup {"fault"} /\ making \subseteq Ids \cup {None}
    BY ListingSetIs DEF ListingOK, ListerOK
  <1>2. CASE UNCHANGED listing
    BY <1>2 DEF listing, ListingOK
  <1>3. CASE ListingNext
    <2>1. ListerOK'
      BY <1>1, <1>3, BesideOK, StartOK, ReadPageOK DEF ListingNext, ListingStep
    <2>2. /\ calm' \subseteq Paths /\ overlap' \subseteq Ops \cup {"fault"}
          /\ making' \subseteq Ids \cup {None}
      BY <1>1, <1>3, WatchOK DEF ListingNext, ListingStep
    <2>3. (lister \in ListingSet)'
             <=> (DOMAIN lister.page \subseteq Ids /\ lister \in Listings(DOMAIN lister.page))'
      BY ListingSetIs, PTL
    <2>. QED  BY <2>1, <2>2, <2>3 DEF ListingOK, ListerOK
  <1>. QED  BY <1>2, <1>3

LEMMA InitListing == ListingInit => ListingOK
  <1>. SUFFICES ASSUME ListingInit  PROVE ListingOK
    OBVIOUS
  <1>1. lister = Closed /\ begun = FALSE /\ calm = {} /\ overlap = {} /\ making = {}
    BY DEF ListingInit
  <1>2. lister \in ListingSet
    BY <1>1, ClosedOK
  <1>3. /\ lister.pc = "idle" /\ lister.listed = {}
        /\ \A i \in DOMAIN lister.page : FALSE
    BY <1>1 DEF Closed
  <1>. QED  BY <1>1, <1>2, <1>3, ListingSetIs DEF ListingOK

\* In every reachable state the steps of a page (readdir, directory_ops.rs) have the
\* path, the ids and the entries that they work on, and what a page has is behind
\* the cookie, while all that was sent is not: no client is sent an id twice.
THEOREM ListingAlways == ListingSpec => []ListingOK
  <1>1. ListingInit => ControlOK /\ ListingOK
    BY InitControl, InitListing DEF ListingInit
  <1>2. ControlOK /\ ListingOK /\ [ListingNext]_<<vars, listing>> => (ControlOK /\ ListingOK)'
    BY StepIsNamespace, NextControl, NextListing
  <1>. QED  BY <1>1, <1>2, PTL DEF ListingSpec
-----------------------------------------------------------------------------
(***************************************************************************)
(* What nothing has disturbed stays as it is.                              *)
(***************************************************************************)

\* Requests change nothing but what they cover.
LEMMA CreateKeeps ==
  ASSUME ControlOK, NEW t \in Tasks, CreateStep(t), NEW p \in Paths, ~Covers(t, p)
  PROVE  Kept(p)
  <1>1. pc[t] # "idle"
    BY DEF CreateStep, Exists, Incr, IncrLost, IncrAgain, IncrPut, ZAdd, PutHash, PutLink,
           PutPathToId, PutIdToPath, MountLook, MountEmpty, MountReset
  <1>2. p # local[t].path
    BY <1>1, CoversOwn
  <1>3. CASE \/ Exists(t) \/ Incr(t) \/ IncrLost(t) \/ IncrAgain(t) \/ IncrPut(t)
             \/ MountLook(t) \/ MountEmpty(t) \/ MountReset(t) \/ PutIdToPath(t)
    BY <1>3 DEF Kept, Exists, Incr, IncrLost, IncrAgain, IncrPut, MountLook, MountEmpty,
                MountReset, PutIdToPath, store, hashes, index
  <1>4. CASE ZAdd(t) \/ PutHash(t) \/ PutLink(t) \/ PutPathToId(t)
    BY <1>2, <1>4 DEF Kept, ZAdd, PutHash, PutLink, PutPathToId, hashes, index, ControlOK, TypeOK
  <1>. QED  BY <1>3, <1>4 DEF CreateStep

\* The key that a rename over RocksDB has at hand is its own.
LEMMA KeyElsewhere ==
  ASSUME ControlOK, NEW t \in Tasks, pc[t] \in KeyLabels, NEW p \in Paths, ~Covers(t, p)
  PROVE  p # local[t].key[1] /\ p # NewPath(t, local[t].key[1])
  <1>1. pc[t] \in MovingLabels
    BY DEF MovingLabels
  <1>2. local[t].key[1] \in AtOrBelow(local[t].path)
    BY DEF ControlOK, ControlOf
  <1>. QED  BY <1>1, <1>2, MoverIs

LEMMA RemoveKeeps ==
  ASSUME ControlOK, NEW t \in Tasks, RemoveStep(t), NEW p \in Paths, ~Covers(t, p)
  PROVE  Kept(p)
  <1>1. pc[t] # "idle"
    BY DEF RemoveStep, Scan, GetId, ZRem, Delete, HalfDelete, DelPathToId, DelIdToPath
  <1>2. p # local[t].path
    BY <1>1, CoversOwn
  <1>3. CASE Scan(t) \/ GetId(t) \/ DelIdToPath(t)
    BY <1>3 DEF Kept, Scan, GetId, DelIdToPath, store, hashes, index
  <1>4. CASE ZRem(t) \/ Delete(t) \/ DelPathToId(t)
    BY <1>2, <1>4 DEF Kept, ZRem, Delete, DelPathToId, hashes, index, ControlOK, TypeOK
  <1>5. CASE HalfDelete(t)
    <2>1. CASE pc[t] = "delete"
      BY <1>2, <1>5, <2>1 DEF Kept, HalfDelete, index, ControlOK, TypeOK
    <2>2. CASE pc[t] = "cutkey"
      BY <1>5, <2>2, KeyElsewhere DEF KeyLabels, Kept, HalfDelete, index, ControlOK, TypeOK
    <2>. QED  BY <1>5, <2>1, <2>2 DEF HalfDelete
  <1>. QED  BY <1>3, <1>4, <1>5 DEF RemoveStep

LEMMA CommitKeeps ==
  ASSUME ControlOK, NEW t \in Tasks, CommitStep(t), NEW p \in Paths, ~Covers(t, p)
  PROVE  Kept(p)
  <1>1. pc[t] # "idle"
    BY DEF CommitStep, PutData, Touch, TouchPut
  <1>2. p # local[t].path
    BY <1>1, CoversOwn
  <1>. QED  BY <1>2 DEF Kept, CommitStep, PutData, Touch, TouchPut, index, ControlOK, TypeOK

LEMMA MoveHashKeeps ==
  ASSUME ControlOK, NEW p, NEW q, MoveHash(p, q), NEW r \in Paths, r # p, r # q
  PROVE  /\ meta'[r] = meta[r] /\ data'[r] = data[r]
         /\ r \in links' <=> r \in links
  BY DEF MoveHash, hashes, ControlOK, TypeOK

LEMMA KeyKeeps ==
  ASSUME ControlOK, NEW t \in Tasks, MoveData(t) \/ CutData(t) \/ SetMovedKey(t) \/ CutKey(t),
         NEW p \in Paths, ~Covers(t, p)
  PROVE  Kept(p)
  <1>1. pc[t] \in KeyLabels
    BY DEF KeyLabels, MoveData, CutData, SetMovedKey, CutKey
  <1>2. PICK q, n : q = local[t].key[1] /\ n = NewPath(t, q)
    OBVIOUS
  <1>3. p # q /\ p # n
    BY <1>1, <1>2, KeyElsewhere
  <1>4. CASE MoveData(t) \/ CutData(t)
    BY <1>2, <1>3, <1>4 DEF Kept, MoveData, CutData, index, ControlOK, TypeOK
  <1>5. CASE SetMovedKey(t)
    <2>1. UNCHANGED hashes \/ \E kind : SetKey(q, kind, n)
      BY <1>2, <1>5 DEF SetMovedKey
    <2>2. /\ meta'[p] = meta[p] /\ data'[p] = data[p]
          /\ p \in links' <=> p \in links
      BY <1>3, <2>1 DEF SetKey, hashes, ControlOK, TypeOK
    <2>. QED  BY <1>5, <2>2 DEF Kept, SetMovedKey, index
  <1>6. CASE CutKey(t)
    BY <1>2, <1>3, <1>6 DEF Kept, CutKey, index, ControlOK, TypeOK
  <1>. QED  BY <1>4, <1>5, <1>6

LEMMA RenameKeeps ==
  ASSUME ControlOK, NEW t \in Tasks, RenameStep(t), NEW p \in Paths, ~Covers(t, p)
  PROVE  Kept(p)
  <1>1. CASE RenameSource(t) \/ RenameTarget(t) \/ RenameType(t) \/ Renamed(t)
    BY <1>1 DEF Kept, RenameSource, RenameTarget, RenameType, Renamed, store, hashes, index
  <1>2. CASE \/ Keys(t) \/ NextKey(t) \/ Nodes(t) \/ Entries(t) \/ Entry(t)
             \/ EntryId(t) \/ EntryPut(t)
    BY <1>2 DEF Kept, Keys, NextKey, Nodes, Entries, Entry, EntryId, EntryPut, store, hashes,
                index
  <1>3. CASE MoveData(t) \/ CutData(t) \/ SetMovedKey(t) \/ CutKey(t)
    BY <1>3, KeyKeeps
  <1>4. CASE Move(t) \/ MoveKey(t)
    <2>1. pc[t] \in MovingLabels
      BY <1>4 DEF Move, MoveKey, MovingLabels, NodeLabels
    <2>2. PICK q \in AtOrBelow(local[t].path) :
            MoveHash(q, NewPath(t, q)) \/ UNCHANGED hashes
      <3>1. CASE Move(t)
        <4>1. local[t].path \in AtOrBelow(local[t].path)
          BY <2>1, MoverIs
        <4>2. NewPath(t, local[t].path) = local[t].to
          BY <2>1, MoverIs, MovedSelf DEF NewPath
        <4>. QED  BY <3>1, <4>1, <4>2 DEF Move
      <3>2. CASE MoveKey(t)
        BY <3>2 DEF MoveKey, ControlOK, ControlOf, NodeLabels
      <3>. QED  BY <1>4, <3>1, <3>2
    <2>3. p # q /\ p # NewPath(t, q)
      BY <2>1, MoverIs
    <2>4. UNCHANGED index
      BY <1>4 DEF Move, MoveKey
    <2>5. /\ meta'[p] = meta[p] /\ data'[p] = data[p]
          /\ p \in links' <=> p \in links
      BY <2>2, <2>3, MoveHashKeeps DEF hashes
    <2>. QED  BY <2>4, <2>5 DEF Kept, index
  <1>5. CASE RemNode(t) \/ AddNode(t)
    <2>1. pc[t] \in MovingLabels
      BY <1>5 DEF RemNode, AddNode, MovingLabels, NodeLabels
    <2>2. CASE RemNode(t)
      <3>1. local[t].todo \subseteq AtOrBelow(local[t].path)
        BY <2>2 DEF RemNode, ControlOK, ControlOf, NodeLabels
      <3>2. p \notin local[t].todo
        BY <2>1, <3>1, MoverIs
      <3>. QED  BY <2>2, <3>2 DEF Kept, RemNode, hashes
    <2>3. CASE AddNode(t)
      <3>1. local[t].cur \in AtOrBelow(local[t].path)
        BY <2>3 DEF AddNode, ControlOK, ControlOf
      <3>2. p # NewPath(t, local[t].cur)
        BY <2>1, <3>1, MoverIs
      <3>. QED  BY <2>3, <3>2 DEF Kept, AddNode, hashes
    <2>. QED  BY <1>5, <2>2, <2>3
  <1>6. CASE EntryPath(t) \/ EntrySet(t) \/ EntryTouch(t) \/ EntryTouchPut(t)
    <2>1. pc[t] \in OldEntryLabels /\ pc[t] \in MovingLabels
      BY <1>6 DEF EntryPath, EntrySet, EntryTouch, EntryTouchPut, MovingLabels, EntryLabels,
                  OldEntryLabels
    <2>2. local[t].cur[1] \in AtOrBelow(local[t].path)
      BY <2>1 DEF ControlOK, ControlOf
    <2>3. p # local[t].cur[1] /\ p # NewPath(t, local[t].cur[1])
      BY <2>1, <2>2, MoverIs
    <2>. QED  BY <1>6, <2>3 DEF Kept, EntryPath, EntrySet, EntryTouch, EntryTouchPut, hashes,
                                index,
                                ControlOK, TypeOK
  <1>. QED  BY <1>1, <1>2, <1>3, <1>4, <1>5, <1>6 DEF RenameStep

LEMMA StoreKeeps ==
  ASSUME UNCHANGED store, NEW p
  PROVE  Kept(p)
  BY DEF Kept, store, hashes, index

LEMMA StepKeeps ==
  ASSUME ControlOK, Next, NEW p \in Paths, \A t \in Tasks : ~Covers(t, p)
  PROVE  Kept(p)
  <1>1. ASSUME NEW t \in Tasks, Request(t)
        PROVE  Kept(p)
    <2>1. UNCHANGED store
      BY <1>1 DEF Request, StartCreate, StartRemove, StartRename, StartCommit, StartMount, Begin
    <2>. QED  BY <2>1, StoreKeeps
  <1>2. ASSUME NEW t \in Tasks, TaskStep(t)
        PROVE  Kept(p)
    BY <1>2, CreateKeeps, RemoveKeeps, RenameKeeps, CommitKeeps DEF TaskStep
  <1>3. ASSUME NEW t \in Tasks, Fault(t)
        PROVE  Kept(p)
    BY <1>3, StoreKeeps DEF Fault
  <1>4. CASE Restart
    BY <1>4, StoreKeeps DEF Restart
  <1>. QED  BY <1>1, <1>2, <1>3, <1>4 DEF Next

\* The listing step of the history.
LEMMA WatchIs ==
  ASSUME ListingNext
  PROVE  /\ lister'.pc = "idle" => calm' = {} /\ overlap' = {} /\ making' = {}
         /\ lister'.pc # "idle" =>
              /\ calm' \subseteq Paths /\ \A p \in calm' : Undisturbed(p)'
              /\ overlap \subseteq overlap'
              /\ \A t \in Tasks : local'[t].op # None => local'[t].op \in overlap'
              /\ used'["fault"] > used["fault"] => "fault" \in overlap'
              /\ lister.pc # "idle" => calm' \subseteq calm /\ making' = making
              /\ lister.pc = "idle" => making' = {local[t].id : t \in Makers}'
         /\ lister'.pc # "idle" /\ lister.pc # "idle" =>
              calm' = {p \in Paths : Undisturbed(p)}' \cap calm
         /\ lister'.pc # "idle" /\ lister.pc = "idle" =>
              calm' = {p \in Paths : Undisturbed(p)}'
  <1>1. PICK failed \in BOOLEAN : Watch(failed)
    BY DEF ListingNext, ListingStep
  <1>2. CASE lister'.pc = "idle"
    BY <1>1, <1>2 DEF Watch
  <1>3. CASE lister'.pc # "idle"
    <2>1. /\ calm' = {p \in Paths : Undisturbed(p)}' \cap (IF lister.pc = "idle" THEN Paths ELSE calm)
          /\ overlap' = overlap \cup ({local[t].op : t \in Tasks} \ {None})'
               \cup (IF failed \/ used'["fault"] > used["fault"] THEN {"fault"} ELSE {})
          /\ making' = IF lister.pc = "idle" THEN {local[t].id : t \in Makers}' ELSE making
      BY <1>1, <1>3 DEF Watch
    <2>. QED  BY <1>1, <1>3, <2>1
  <1>. QED  BY <1>2, <1>3

LEMMA FailShows ==
  ASSUME Watch(TRUE), lister'.pc # "idle"
  PROVE  "fault" \in overlap'
  BY DEF Watch

\* What the steps of a listing leave alone.
LEMMA ListingSteps ==
  ASSUME ListingNext
  PROVE  \/ Next /\ ~Refused /\ lister' = lister /\ begun' = begun
         \/ Next /\ Refused /\ lister' = Closed
         \/ UNCHANGED vars /\ \E i \in Ids : \E n \in PageSizes : Start(i, n)
         \/ UNCHANGED <<vars, begun>> /\ ReadPage
         \/ UNCHANGED <<vars, begun>> /\ ReadFail /\ Watch(TRUE)
  BY DEF ListingNext, ListingStep

\* The history is about the listing that is under way.
LEMMA NextCalm ==
  ASSUME ListingOK, CalmOK, ListingNext
  PROVE  CalmOK'
  <1>1. (lister'.pc = "idle" => lister' = Closed) /\ (lister'.pc # "idle" => begun')
    <2>1. CASE Next /\ lister' = lister /\ begun' = begun
      BY <2>1 DEF CalmOK
    <2>2. CASE lister' = Closed
      BY <2>2 DEF Closed
    <2>3. ASSUME NEW i \in Ids, NEW n \in PageSizes, Start(i, n)
          PROVE  lister'.pc # "idle" /\ begun'
      BY <2>3 DEF Start, Closed
    <2>4. CASE ReadPage /\ begun' = begun
      BY <2>4 DEF ReadPage, ReadPath, Members, MemberId, TakePage, EntryPathOf, EntryHash,
                  EntryName, EntryAt, Dropped, Reply, ReplyCut, GoOn, PageIsRead, ListingOK,
                  Listings, CalmOK, Closed
    <2>5. CASE ReadFail /\ begun' = begun
      BY <2>5 DEF ReadFail, Dropped, ListingOK, Listings, CalmOK, Closed
    <2>. QED  BY <2>1, <2>2, <2>3, <2>4, <2>5, ListingSteps
  <1>2. \A p \in calm' : Undisturbed(p)'
    BY WatchIs
  <1>. QED  BY <1>1, <1>2, WatchIs DEF CalmOK

\* Of a path that nothing has disturbed, and of those it is in.
LEMMA FirmIs ==
  ASSUME ControlOK, IsolatedOK, CalmOK, calm \subseteq Paths, NEW d \in Firm
  PROVE  /\ d \in Paths /\ Sound(d) /\ Intact(d) /\ \A t \in Tasks : ~Covers(t, d)
         /\ \A c \in Paths : Prefix(c, d) => c \in Firm
         /\ d # <<>> => Parent(d) \in Firm
  <1>1. PICK p \in calm : Prefix(d, p)
    BY DEF Firm
  <1>2. d \in Paths /\ p \in Paths /\ Undisturbed(p)
    BY DEF Firm, CalmOK
  <1>3. tainted \subseteq Paths /\ \A t \in Tasks : Named(t) \subseteq Paths
    BY NamedPaths DEF ControlOK, TypeOK
  <1>4. \A q \in Paths : Prefix(q, d) => Related(p, q)
    BY <1>1, <1>2, PrefixTrans DEF Related
  <1>5. Intact(d) /\ \A t \in Tasks : ~Covers(t, d)
    BY <1>2, <1>3, <1>4 DEF Undisturbed, Intact, Covers
  <1>6. Sound(d)
    BY <1>2, <1>5 DEF IsolatedOK, QuietOK
  <1>7. \A c \in Paths : Prefix(c, d) => c \in Firm
    BY <1>1, <1>2, PrefixTrans DEF Firm
  <1>. QED  BY <1>2, <1>5, <1>6, <1>7, ParentIs

LEMMA CalmIsFirm ==
  ASSUME calm \subseteq Paths, NEW p \in calm
  PROVE  p \in Firm
  BY PrefixRefl DEF Firm

\* While a listing goes on.
LEMMA FirmStays ==
  ASSUME ControlOK, IsolatedOK, CalmOK, calm \subseteq Paths, ListingNext,
         lister.pc # "idle", NEW d \in Firm'
  PROVE  d \in Firm /\ Kept(d)
  <1>1. d \in Firm
    <2>1. calm' \subseteq calm
      BY WatchIs
    <2>. QED  BY <2>1 DEF Firm
  <1>2. d \in Paths /\ \A t \in Tasks : ~Covers(t, d)
    BY <1>1, FirmIs
  <1>3. CASE Next
    BY <1>1, <1>2, <1>3, StepKeeps
  <1>4. CASE UNCHANGED vars
    BY <1>1, <1>4, StoreKeeps DEF vars
  <1>. QED  BY <1>1, <1>3, <1>4, ListingSteps

-----------------------------------------------------------------------------
(***************************************************************************)
(* What has been read and sent is true.                                    *)
(***************************************************************************)
LEMMA ClosedTrue ==
  ASSUME lister' = Closed
  PROVE  TruthOK'
  BY DEF Closed, TruthOK, PlaceOK, MembersOK, PageOK, ListedOK

LEMMA TruthBeside ==
  ASSUME ControlOK, IsolatedOK, ControlOK', IsolatedOK', CalmOK, CalmOK', calm \subseteq Paths,
         TruthOK, ListingNext, lister' = lister
  PROVE  TruthOK'
  <1>1. CASE lister.pc = "idle"
    BY <1>1, ClosedTrue DEF CalmOK
  <1>2. CASE lister.pc # "idle"
    <2>1. calm' \subseteq calm /\ calm' \subseteq Paths
      BY <1>2, WatchIs
    <2>2. \A d \in Firm' : d \in Firm /\ Kept(d)
      BY <1>2, FirmStays
    <2>3. \A p \in calm' : p \in Firm' /\ (p # <<>> => Parent(p) \in Firm')
      <3>1. calm' \subseteq Paths => \A p \in calm' : p \in Firm'
        BY PrefixRefl DEF Firm
      <3>2. \A p \in calm' \ {<<>>} : Parent(p) \in Firm'
        BY <2>1, ParentIs DEF Firm
      <3>. QED  BY <2>1, <3>1, <3>2
    <2>4. \A p \in calm' : EntryOf(p)' = EntryOf(p)
      BY <2>2, <2>3 DEF EntryOf, Kept
    <2>5. PlaceOK'
      BY <2>2 DEF TruthOK, PlaceOK, Kept
    <2>6. MembersOK'
      BY <2>1, <2>2, <2>3 DEF TruthOK, MembersOK, Kept
    <2>7. PageOK'
      BY <2>1, <2>2, <2>3 DEF TruthOK, PageOK, ReadsTrue, Kept
    <2>8. ListedOK'
      BY <2>1, <2>2, <2>3, <2>4 DEF TruthOK, ListedOK, Kept
    <2>. QED  BY <2>5, <2>6, <2>7, <2>8 DEF TruthOK
  <1>. QED  BY <1>1, <1>2

\* The steps of a page read the store and change nothing of it.
LEMMA ReadingKeeps ==
  ASSUME ListingNext, UNCHANGED vars, lister.pc # "idle"
  PROVE  /\ calm' \subseteq calm /\ Firm' \subseteq Firm
         /\ nodes' = nodes /\ meta' = meta /\ data' = data /\ links' = links
         /\ pathToId' = pathToId /\ idToPath' = idToPath
         /\ \A p : EntryOf(p)' = EntryOf(p)
  <1>1. calm' \subseteq calm
    BY WatchIs DEF CalmOK
  <1>2. /\ nodes' = nodes /\ meta' = meta /\ data' = data /\ links' = links
        /\ pathToId' = pathToId /\ idToPath' = idToPath
    BY DEF vars, store, hashes, index
  <1>3. Firm' \subseteq Firm
    BY <1>1 DEF Firm
  <1>. QED  BY <1>1, <1>2, <1>3 DEF EntryOf

\* Nothing is listed but what was.
LEMMA ListedKept ==
  ASSUME ListingNext, UNCHANGED vars, lister.pc # "idle", calm \subseteq Paths,
         lister'.listed = lister.listed, lister'.id = lister.id, TruthOK
  PROVE  ListedOK'
  BY ReadingKeeps DEF TruthOK, ListedOK

LEMMA GatherTrue ==
  ASSUME ControlOK, IsolatedOK, CalmOK, ListingOK, TruthOK, ListingNext, UNCHANGED vars,
         ReadPath \/ Members \/ MemberId
  PROVE  TruthOK'
  <1>0. /\ lister.pc # "idle" /\ calm \subseteq Paths
        /\ lister.id \in Ids /\ lister.todo \subseteq Paths
    BY DEF ReadPath, Members, MemberId, ListingOK, Listings
  <1>1. CASE lister' = Closed
    BY <1>1, ClosedTrue
  <1>2. CASE ReadPath /\ idToPath[lister.id] # None
    <2>1. lister' = [lister EXCEPT !.pc = "members", !.path = idToPath[lister.id],
                                   !.ids = {}, !.page = <<>>]
      BY <1>2 DEF ReadPath
    <2>2. /\ lister'.pc = "members" /\ lister'.path = idToPath[lister.id] /\ lister'.ids = {}
          /\ lister'.listed = lister.listed /\ lister'.id = lister.id
      BY <2>1 DEF ListingOK, Listings
    <2>3. \A d \in Firm : idToPath[lister.id] = d <=> pathToId[d] = lister.id
      BY <1>0, FirmIs DEF Sound, Whole
    <2>. QED  BY <1>0, <2>2, <2>3, ReadingKeeps, ListedKept DEF TruthOK, PlaceOK, MembersOK,
                PageOK
  <1>3. CASE Members
    <2>1. lister' = [lister EXCEPT
            !.pc = "ids", !.todo = {q \in nodes \ {<<>>} : Parent(q) = lister.path}]
      BY <1>3 DEF Members
    <2>2. /\ lister.pc = "members" /\ lister'.pc = "ids" /\ lister'.path = lister.path
          /\ lister'.ids = lister.ids
          /\ lister'.todo = {q \in nodes \ {<<>>} : Parent(q) = lister.path}
          /\ lister'.listed = lister.listed /\ lister'.id = lister.id
      BY <1>3, <2>1 DEF Members, ListingOK, Listings
    <2>3. lister.ids = {}
      BY <2>2 DEF TruthOK, MembersOK
    <2>. QED  BY <1>0, <2>2, <2>3, ReadingKeeps, ListedKept DEF TruthOK, PlaceOK, MembersOK,
                PageOK
  <1>4. ASSUME lister.pc = "ids", NEW q \in lister.todo, pathToId[q] # None,
               lister' = [lister EXCEPT !.todo = @ \ {q}, !.ids = @ \cup {pathToId[q]}]
        PROVE  TruthOK'
    <2>1. /\ lister'.pc = "ids" /\ lister'.path = lister.path
          /\ lister'.ids = lister.ids \cup {pathToId[q]} /\ lister'.todo = lister.todo \ {q}
          /\ lister'.listed = lister.listed /\ lister'.id = lister.id
      BY <1>4 DEF ListingOK, Listings
    <2>2. ASSUME NEW p \in calm, pathToId[p] = pathToId[q]
          PROVE  p = q
      <3>1. p \in Paths /\ q \in Paths /\ pathToId[q] \in Ids
        BY <1>0, <1>4 DEF ControlOK, TypeOK
      <3>2. p \in Marks(pathToId[q]) /\ q \in Marks(pathToId[q])
        BY <2>2, <3>1 DEF Marks
      <3>3. p = q \/ Tied(p, q)
        BY <3>1, <3>2 DEF IsolatedOK, OwnersOK
      <3>4. Intact(p) /\ \A t \in Tasks : ~Covers(t, p)
        BY <1>0, CalmIsFirm, FirmIs
      <3>. QED  BY <3>3, <3>4 DEF Tied
    <2>3. q # <<>> /\ Parent(q) = lister.path
      BY <1>4 DEF TruthOK, MembersOK
    <2>4. \A p \in calm : pathToId[p] \in lister'.ids => p # <<>> /\ Parent(p) = lister.path
      BY <1>4, <2>1, <2>2, <2>3 DEF TruthOK, MembersOK
    <2>5. \A p \in lister'.todo : p # <<>> /\ Parent(p) = lister.path /\ (p \in calm => p \in nodes)
      BY <1>4, <2>1 DEF TruthOK, MembersOK
    <2>6. MembersOK'
      BY <1>0, <2>1, <2>4, <2>5, ReadingKeeps DEF MembersOK
    <2>. QED  BY <1>0, <1>4, <2>1, <2>6, ReadingKeeps, ListedKept DEF TruthOK, PlaceOK, PageOK
  <1>. QED  BY <1>1, <1>2, <1>3, <1>4 DEF ReadPath, MemberId

LEMMA TakeTrue ==
  ASSUME CalmOK, ListingOK, TruthOK, ListingNext, UNCHANGED vars, TakePage
  PROVE  TruthOK'
  <1>0. lister.pc = "ids" /\ calm \subseteq Paths
    BY DEF TakePage, ListingOK
  <1>. DEFINE page == [i \in Chosen |-> Unread]
  <1>1. lister' = [lister EXCEPT !.pc = "entries", !.ids = {}, !.page = page]
    BY DEF TakePage
  <1>2. /\ lister'.pc = "entries" /\ lister'.path = lister.path /\ lister'.page = page
        /\ lister'.listed = lister.listed /\ lister'.id = lister.id
    BY <1>1 DEF ListingOK, Listings
  <1>3. DOMAIN page = Chosen /\ Chosen \subseteq lister.ids /\ \A i \in Chosen : page[i] = Unread
    BY DEF Chosen
  <1>. HIDE DEF page
  <1>4. \A p \in calm : ReadsTrue(Unread, p)
    BY DEF ReadsTrue, Unread
  <1>5. \A i \in DOMAIN page : \A p \in calm : pathToId[p] = i =>
          p # <<>> /\ Parent(p) = lister.path /\ ReadsTrue(page[i], p)
    BY <1>0, <1>3, <1>4 DEF TruthOK, MembersOK
  <1>6. PageOK'
    BY <1>0, <1>2, <1>5, ReadingKeeps DEF PageOK, ReadsTrue
  <1>. QED  BY <1>0, <1>2, <1>6, ReadingKeeps, ListedKept DEF TruthOK, PlaceOK, MembersOK

\* A step that reads one entry.
LEMMA ReadTrue ==
  ASSUME ListingOK, TruthOK, CalmOK, ListingNext, UNCHANGED vars, lister.pc = "entries",
         NEW i \in DOMAIN lister.page, NEW r, lister' = [lister EXCEPT !.page[i] = r],
         \A p \in calm : pathToId[p] = i => ReadsTrue(r, p)
  PROVE  TruthOK'
  <1>1. /\ lister'.pc = "entries" /\ lister'.path = lister.path
        /\ lister'.page = [lister.page EXCEPT ![i] = r]
        /\ lister'.listed = lister.listed /\ lister'.id = lister.id
    BY DEF ListingOK, Listings
  <1>2. /\ DOMAIN lister'.page = DOMAIN lister.page
        /\ \A j \in DOMAIN lister.page : lister'.page[j] = IF j = i THEN r ELSE lister.page[j]
    BY <1>1 DEF ListingOK, Listings
  <1>3. \A j \in DOMAIN lister'.page : \A p \in calm : pathToId[p] = j =>
          p # <<>> /\ Parent(p) = lister.path /\ ReadsTrue(lister'.page[j], p)
    BY <1>2 DEF TruthOK, PageOK
  <1>4. PageOK'
    BY <1>1, <1>3, ReadingKeeps DEF PageOK, ReadsTrue
  <1>5. calm \subseteq Paths
    BY DEF ListingOK
  <1>. QED  BY <1>1, <1>4, <1>5, ReadingKeeps, ListedKept DEF TruthOK, PlaceOK, MembersOK

LEMMA EntriesTrue ==
  ASSUME ControlOK, IsolatedOK, CalmOK, ListingOK, TruthOK, ListingNext, UNCHANGED vars,
         NEW i \in DOMAIN lister.page,
         EntryPathOf(i) \/ EntryHash(i) \/ EntryName(i) \/ (lister.pc = "entries" /\ Dropped(i))
  PROVE  TruthOK'
  <1>. DEFINE old == lister.page[i]
  <1>0. lister.pc = "entries" /\ calm \subseteq Paths /\ i \in Ids /\ old \in Reading
    BY DEF EntryPathOf, EntryHash, EntryName, EntryAt, ListingOK, Listings
  <1>1. ASSUME NEW p \in calm, pathToId[p] = i
        PROVE  /\ p \in Paths /\ idToPath[i] = p /\ p # <<>>
               /\ meta[p] # None /\ meta[p].type # None
               /\ ReadsTrue(old, p)
    <2>1. p \in Paths /\ p \in Firm
      BY <1>0, CalmIsFirm
    <2>2. Sound(p)
      BY <1>0, <2>1, FirmIs
    <2>3. i # None
      BY <1>0, NamespaceAssumption DEF Ids
    <2>. QED  BY <1>0, <1>1, <2>1, <2>2, <2>3 DEF Sound, Whole, Holds, TruthOK, PageOK
  <1>2. CASE Dropped(i)
    <2>. DEFINE r == [Unread EXCEPT !.at = "dropped"]
    <2>1. \A p : ReadsTrue(r, p)
      BY DEF Unread, ReadsTrue
    <2>. QED  BY <1>0, <1>2, <2>1, ReadTrue DEF Dropped
  <1>3. CASE EntryPathOf(i) /\ ~Dropped(i)
    <2>. DEFINE r == [old EXCEPT !.at = "hash", !.path = idToPath[i]]
    <2>1. lister' = [lister EXCEPT !.page[i] = r]
      BY <1>3 DEF EntryPathOf
    <2>2. r.at = "hash" /\ r.path = idToPath[i]
      BY <1>0 DEF Reading
    <2>. HIDE DEF r
    <2>3. \A p \in calm : pathToId[p] = i => ReadsTrue(r, p)
      BY <1>1, <2>2 DEF ReadsTrue
    <2>. QED  BY <1>0, <2>1, <2>3, ReadTrue
  <1>4. CASE EntryHash(i) /\ ~Dropped(i)
    <2>. DEFINE r == [old EXCEPT !.at = "name", !.path = None, !.type = TypeAt(old.path)]
    <2>1. lister' = [lister EXCEPT !.page[i] = r] /\ old.at = "hash"
      BY <1>4 DEF EntryHash, EntryAt
    <2>2. r.at = "name" /\ r.type = TypeAt(old.path)
      BY <1>0 DEF Reading
    <2>. HIDE DEF r
    <2>3. \A p \in calm : pathToId[p] = i => ReadsTrue(r, p)
      BY <1>1, <2>1, <2>2 DEF ReadsTrue, TypeAt
    <2>. QED  BY <1>0, <2>1, <2>3, ReadTrue
  <1>5. CASE EntryName(i) /\ ~Dropped(i)
    <2>. DEFINE n == IF idToPath[i] = <<>> THEN None ELSE idToPath[i][Len(idToPath[i])]
                r == [old EXCEPT !.at = "kept", !.name = n]
    <2>1. lister' = [lister EXCEPT !.page[i] = r] /\ old.at = "name"
      BY <1>5 DEF EntryName, EntryAt
    <2>2. r.at = "kept" /\ r.type = old.type /\ r.name = n
      BY <1>0 DEF Reading
    <2>. HIDE DEF r
    <2>3. \A p \in calm : pathToId[p] = i => ReadsTrue(r, p)
      BY <1>1, <2>1, <2>2 DEF ReadsTrue
    <2>. QED  BY <1>0, <2>1, <2>3, ReadTrue
  <1>. QED  BY <1>2, <1>3, <1>4, <1>5

\* What is sent of a path that nothing has disturbed.
LEMMA PageTrue ==
  ASSUME ControlOK, IsolatedOK, CalmOK, ListingOK, TruthOK, PageIsRead,
         NEW e \in PageEntries, NEW p \in calm, pathToId[p] = e.id
  PROVE  /\ p # <<>> /\ e = EntryOf(p) /\ Parent(p) = lister.path
         /\ pathToId[Parent(p)] = lister.id
  <1>1. PICK i \in DOMAIN lister.page :
          /\ lister.page[i].at = "kept"
          /\ e = [id |-> i, name |-> lister.page[i].name, type |-> lister.page[i].type]
    BY DEF PageEntries
  <1>2. lister.pc = "entries" /\ pathToId[p] = i
    BY <1>1 DEF PageIsRead
  <1>3. p # <<>> /\ Parent(p) = lister.path /\ ReadsTrue(lister.page[i], p)
    BY <1>2 DEF TruthOK, PageOK
  <1>4. e = EntryOf(p)
    BY <1>1, <1>2, <1>3 DEF ReadsTrue, EntryOf
  <1>5. Parent(p) \in Firm
    BY <1>3, CalmIsFirm, FirmIs DEF ListingOK
  <1>. QED  BY <1>2, <1>3, <1>4, <1>5 DEF TruthOK, PlaceOK

LEMMA GoOnTrue ==
  ASSUME ControlOK, IsolatedOK, CalmOK, ListingOK, TruthOK, ListingNext, UNCHANGED vars,
         PageIsRead, NEW sent \in SUBSET PageEntries, GoOn(sent)
  PROVE  TruthOK'
  <1>0. lister.pc = "entries" /\ calm \subseteq Paths
    BY DEF PageIsRead, ListingOK
  <1>1. PICK last : lister' = [lister EXCEPT !.pc = "open", !.path = None, !.page = <<>>,
                                             !.listed = @ \cup sent, !.after = last]
    BY DEF GoOn
  <1>2. /\ lister'.pc = "open" /\ lister'.listed = lister.listed \cup sent
        /\ lister'.id = lister.id
    BY <1>1 DEF ListingOK, Listings
  <1>3. \A e \in lister.listed \cup sent : \A p \in calm : pathToId[p] = e.id =>
          p # <<>> /\ e = EntryOf(p) /\ pathToId[Parent(p)] = lister.id
    BY PageTrue DEF TruthOK, ListedOK
  <1>4. ListedOK'
    BY <1>0, <1>2, <1>3, ReadingKeeps DEF ListedOK
  <1>. QED  BY <1>2, <1>4 DEF TruthOK, PlaceOK, MembersOK, PageOK

LEMMA NextTruth ==
  ASSUME ControlOK, IsolatedOK, ControlOK', IsolatedOK', CalmOK, CalmOK', ListingOK, TruthOK,
         ListingNext
  PROVE  TruthOK'
  <1>0. calm \subseteq Paths
    BY DEF ListingOK
  <1>1. CASE lister' = lister /\ Next
    BY <1>0, <1>1, TruthBeside
  <1>2. CASE lister' = Closed
    BY <1>2, ClosedTrue
  <1>3. ASSUME NEW i \in Ids, NEW n \in PageSizes, Start(i, n)
        PROVE  TruthOK'
    BY <1>3 DEF Start, Closed, TruthOK, PlaceOK, MembersOK, PageOK, ListedOK
  <1>4. CASE UNCHANGED vars /\ ReadPage
    <2>1. CASE Reply
      BY <1>2, <1>4, <2>1, GoOnTrue DEF Reply
    <2>2. CASE ReplyCut
      <3>1. PICK e \in PageEntries : GoOn({f \in PageEntries : f.id < e.id})
        BY <2>2 DEF ReplyCut
      <3>. QED  BY <1>4, <2>2, <3>1, GoOnTrue DEF ReplyCut
    <2>. QED  BY <1>4, <2>1, <2>2, GatherTrue, TakeTrue, EntriesTrue DEF ReadPage
  <1>5. CASE UNCHANGED vars /\ ReadFail
    BY <1>2, <1>5, EntriesTrue DEF ReadFail
  <1>. QED  BY <1>1, <1>2, <1>3, <1>4, <1>5, ListingSteps

LEMMA InitTruth == ListingInit => CalmOK /\ TruthOK
  BY DEF ListingInit, CalmOK, TruthOK, PlaceOK, MembersOK, PageOK, ListedOK, Closed

\* Over Redis, where no client renames a path onto itself or onto a directory that is
\* not empty: what a listing has read and sent of a path that nothing has disturbed
\* since it began is so (readdir, directory_ops.rs).
LEMMA TruthAlways ==
  ASSUME Redis = TRUE, WildRenames = FALSE
  PROVE  ListingSpec => [](ControlOK /\ IsolatedOK /\ ListingOK /\ CalmOK /\ TruthOK)
  <1>1. ListingInit => ControlOK /\ IsolatedOK /\ ListingOK /\ CalmOK /\ TruthOK
    BY InitControl, InitIsolated, InitListing, InitTruth DEF ListingInit
  <1>2. ASSUME ControlOK, IsolatedOK, ListingOK, CalmOK, TruthOK, [ListingNext]_<<vars, listing>>
        PROVE  ControlOK' /\ IsolatedOK' /\ ListingOK' /\ CalmOK' /\ TruthOK'
    <2>1. [Next]_vars
      BY <1>2, StepIsNamespace
    <2>2. ControlOK' /\ IsolatedOK'
      BY <1>2, <2>1, NextControl, NextIsolated
    <2>3. ListingOK'
      BY <1>2, <2>2, NextListing
    <2>4. CASE ListingNext
      BY <1>2, <2>2, <2>3, <2>4, NextCalm, NextTruth
    <2>5. CASE UNCHANGED <<vars, listing>>
      <3>1. UNCHANGED vars /\ UNCHANGED listing
        BY <2>5
      <3>2. CalmOK'
        BY <1>2, <3>1 DEF CalmOK, Undisturbed, Named, vars, history, listing
      <3>3. TruthOK'
        BY <1>2, <3>1 DEF TruthOK, PlaceOK, MembersOK, PageOK, ListedOK, ReadsTrue, EntryOf, Firm,
                          vars, store, hashes, index, listing
      <3>. QED  BY <2>2, <2>3, <3>2, <3>3
    <2>. QED  BY <1>2, <2>4, <2>5
  <1>. QED  BY <1>1, <1>2, PTL DEF ListingSpec

LEMMA TrueEntries ==
  ASSUME ControlOK, IsolatedOK, ListingOK, CalmOK, TruthOK
  PROVE  EntriesAreTrue
  <1>. SUFFICES ASSUME PageIsRead, NEW e \in Result, NEW p \in calm, pathToId[p] = e.id
                PROVE  e = EntryOf(p) /\ Parent(p) = lister.path
    BY DEF EntriesAreTrue
  <1>1. CASE e \in PageEntries
    BY <1>1, PageTrue
  <1>2. CASE e \in lister.listed
    <2>1. p # <<>> /\ e = EntryOf(p) /\ pathToId[Parent(p)] = lister.id
      BY <1>2 DEF TruthOK, ListedOK
    <2>2. Parent(p) \in Firm
      BY <2>1, CalmIsFirm, FirmIs DEF ListingOK
    <2>3. lister.pc = "entries"
      BY DEF PageIsRead
    <2>. QED  BY <2>1, <2>2, <2>3 DEF TruthOK, PlaceOK
  <1>. QED  BY <1>1, <1>2 DEF Result

\* Whatever goes on besides, and whatever fails: what a reply says of a file that
\* nothing has disturbed is true, and said of a file of this directory.
THEOREM EntriesTrueAlways ==
  ASSUME Redis = TRUE, WildRenames = FALSE
  PROVE  ListingSpec => []EntriesAreTrue
  BY TrueEntries, TruthAlways, PTL

\* A listing ends with an error only over a name that something has disturbed (readdir,
\* whose get_path_from_id and get_id_from_path are errors where they find nothing).
THEOREM FailsAlways ==
  ASSUME Redis = TRUE, WildRenames = FALSE
  PROVE  ListingSpec => []FailsOnlyOverDisturbed
  <1>1. ASSUME ControlOK, IsolatedOK, ListingOK, CalmOK, TruthOK
        PROVE  FailsOnlyOverDisturbed
    <2>1. ASSUME NEW p \in calm
          PROVE  Sound(p) /\ p \in Paths
      BY <1>1, <2>1, CalmIsFirm, FirmIs DEF ListingOK
    <2>2. lister.pc = "open" => lister.id \in Ids /\ lister.id # None
      BY <1>1 DEF ListingOK, Listings
    <2>3. ASSUME NEW p \in calm, lister.pc = "open", idToPath[lister.id] = None
          PROVE  pathToId[p] # lister.id
      <3>1. None \notin Paths
        BY NamespaceAssumption
      <3>. QED  BY <2>1, <2>2, <2>3, <3>1 DEF Sound, Whole
    <2>4. ASSUME NEW q \in lister.todo \cap calm, lister.pc = "ids"
          PROVE  pathToId[q] # None
      <3>1. q \in nodes
        BY <1>1, <2>4 DEF TruthOK, MembersOK
      <3>. QED  BY <2>1, <3>1 DEF Sound, Whole
    <2>. QED  BY <2>3, <2>4 DEF FailsOnlyOverDisturbed
  <1>. QED  BY <1>1, TruthAlways, PTL

-----------------------------------------------------------------------------
(***************************************************************************)
(* The ids of a page.                                                      *)
(***************************************************************************)
\* A finite set of numbers has a least one.
LEMMA LeastIs ==
  ASSUME NEW S \in SUBSET Nat, IsFiniteSet(S), S # {}
  PROVE  \E x \in S : \A y \in S : x <= y
  <1>. DEFINE U == {{j \in S : j < i} : i \in S}
  <1>1. U \subseteq FiniteSubsetsOf(S) /\ U # {}
    <2>1. ASSUME NEW i \in S
          PROVE  {j \in S : j < i} \in FiniteSubsetsOf(S)
      BY FS_Subset DEF FiniteSubsetsOf
    <2>. QED  BY <2>1
  <1>2. PICK I \in U : \A J \in U : <<J, I>> \notin StrictSubsetOrdering(S)
    <2>. HIDE DEF U
    <2>. QED  BY <1>1, FS_StrictSubsetOrderingWellFounded, WFMin, Zenon
  <1>3. PICK x \in S : I = {j \in S : j < x}
    BY <1>2
  <1>4. ASSUME NEW y \in S, y < x
        PROVE  FALSE
    <2>. DEFINE J == {j \in S : j < y}
    <2>1. J \in SUBSET S /\ I \in SUBSET S /\ J \in U
      BY <1>3
    <2>2. y \in I /\ y \notin J
      BY <1>3, <1>4
    <2>3. ASSUME NEW j \in J
          PROVE  j \in I
      <3>1. j \in Nat /\ y \in Nat /\ x \in Nat /\ j < y
        OBVIOUS
      <3>. QED  BY <1>3, <1>4, <3>1
    <2>. HIDE DEF J, U
    <2>4. <<J, I>> \in StrictSubsetOrdering(S)
      BY <2>1, <2>2, <2>3 DEF StrictSubsetOrdering
    <2>. QED  BY <1>2, <2>1, <2>4
  <1>. QED  BY <1>4

\* The first ones of some ids behind a cookie: with one of them all before it, and of
\* the others none unless they are as many as there is room for.
LEMMA FirstIs ==
  ASSUME NEW S \in SUBSET Ids, NEW after \in Nat, NEW max \in Nat,
         NEW C, C = FirstOf(S, after, max)
  PROVE  /\ C \subseteq S /\ IsFiniteSet(C) /\ \A i \in C : i > after
         /\ \A i \in C : \A j \in S : j > after /\ j < i => j \in C
         /\ \A i \in S \ C : i > after =>
              Cardinality(C) >= max /\ \A j \in C : j < i
  <1>. DEFINE later == {i \in S : i > after}
              before(i) == {j \in later : j < i}
  <1>1. C = {i \in later : Cardinality(before(i)) < max}
    BY DEF FirstOf
  <1>2. Ids \subseteq Nat /\ IsFiniteSet(Ids)
    <2>1. MaxId \in Int /\ 1 \in Int
      BY NamespaceAssumption
    <2>. QED  BY <2>1, FS_Interval DEF Ids
  <1>3. C \subseteq S /\ IsFiniteSet(C) /\ \A i \in C : i > after
    BY <1>1, <1>2, FS_Subset
  <1>4. ASSUME NEW i \in later
        PROVE  IsFiniteSet(before(i)) /\ Cardinality(before(i)) \in Nat
    BY <1>2, FS_Subset, FS_CardinalityType
  <1>5. ASSUME NEW i \in C, NEW j \in S, j > after, j < i
        PROVE  j \in C
    <2>1. i \in later /\ j \in later
      BY <1>1, <1>5
    <2>2. before(j) \in SUBSET before(i)
      <3>1. i \in Nat /\ j \in Nat /\ S \subseteq Nat
        BY <1>1, <1>2, <1>5
      <3>2. \A k \in S : k < j => k < i
        BY <1>5, <3>1
      <3>. QED  BY <3>2
    <2>3. Cardinality(before(j)) <= Cardinality(before(i))
      BY <1>4, <2>1, <2>2, FS_Subset
    <2>4. Cardinality(before(i)) < max
      BY <1>1
    <2>5. /\ Cardinality(before(i)) \in Nat
          /\ Cardinality(before(j)) \in Nat
      BY <1>4, <2>1
    <2>6. Cardinality(before(j)) < max
      <3>. HIDE DEF before
      <3>. QED  BY <2>3, <2>4, <2>5
    <2>. QED  BY <1>1, <2>1, <2>6
  <1>6. ASSUME NEW i \in S \ C, i > after
        PROVE  Cardinality(C) >= max /\ \A j \in C : j < i
    <2>1. \A j \in C : j < i
      BY <1>2, <1>3, <1>5, <1>6
    <2>2. PICK x \in later \ C : \A y \in later \ C : x <= y
      <3>1. later \ C \in SUBSET Nat /\ IsFiniteSet(later \ C) /\ later \ C # {}
        BY <1>2, <1>6, FS_Subset
      <3>. HIDE DEF later
      <3>. QED  BY <3>1, LeastIs
    <2>3. before(x) \in SUBSET C
      <3>1. S \subseteq Nat /\ x \in Nat
        BY <1>2
      <3>2. ASSUME NEW y \in later, y < x
            PROVE  y \in C
        BY <2>2, <3>1, <3>2
      <3>. QED  BY <3>2
    <2>4. Cardinality(before(x)) <= Cardinality(C)
      BY <1>3, <2>3, FS_Subset
    <2>5. Cardinality(C) \in Nat
      BY <1>3, FS_CardinalityType
    <2>6. ~(Cardinality(before(x)) < max)
      BY <1>1, <2>2
    <2>. QED  BY <1>4, <2>1, <2>2, <2>4, <2>5, <2>6
  <1>. QED  BY <1>3, <1>5, <1>6

-----------------------------------------------------------------------------
(***************************************************************************)
(* The label of a task is one of what it is doing.                         *)
(***************************************************************************)
Groups == {CreateLabels, RemoveLabels, RenameLabels, CommitLabels}

\* The task t goes on with its request, or ends it.
Works(t) ==
  /\ \A u \in Tasks \ {t} : pc'[u] = pc[u] /\ local'[u] = local[u]
  /\ \/ pc'[t] = "idle" /\ local'[t].op = None
     \/ \E G \in Groups : pc[t] \in G /\ pc'[t] \in G /\ local'[t].op = local[t].op

LEMMA FinishWorks ==
  ASSUME ControlOK, NEW t \in Tasks, Finish(t)
  PROVE  Works(t)
  BY DEF Finish, Blank, Works, ControlOK, TypeOK

USE DEF CreateLabels, RemoveLabels, RenameLabels, CommitLabels, KeyLabels

LEMMA CreateWorks ==
  ASSUME ControlOK, NEW t \in Tasks, CreateStep(t)
  PROVE  Works(t)
  <1>1. local[t] \in Locals
    BY DEF ControlOK, TypeOK
  <1>2. CASE Finish(t)
    BY <1>2, FinishWorks
  <1>3. CASE ~Finish(t) /\ ~Incr(t) /\ ~IncrLost(t) /\ ~MountEmpty(t)
    BY <1>3 DEF CreateStep, Exists, IncrAgain, IncrPut, MountLook, ZAdd, PutHash, AfterHash,
                PutLink, PutPathToId,
                PutIdToPath, MountReset, Goto, Works, Groups, ControlOK, TypeOK
  <1>4. CASE Incr(t) \/ IncrLost(t) \/ MountEmpty(t)
    BY <1>1, <1>4 DEF Incr, IncrLost, MountEmpty, Goto, Works, Groups, ControlOK, TypeOK, Locals
  <1>. QED  BY <1>2, <1>3, <1>4

LEMMA RemoveWorks ==
  ASSUME ControlOK, NEW t \in Tasks, RemoveStep(t)
  PROVE  Works(t)
  <1>1. local[t] \in Locals
    BY DEF ControlOK, TypeOK
  <1>2. CASE Finish(t)
    BY <1>2, FinishWorks
  <1>3. CASE ~Finish(t) /\ ~GetId(t)
    BY <1>3 DEF RemoveStep, Scan, ZRem, Delete, HalfDelete, Onward, DelPathToId, DelIdToPath,
                Goto, Works, Groups, ControlOK, TypeOK
  <1>4. CASE GetId(t) /\ ~Finish(t)
    BY <1>1, <1>4 DEF GetId, Goto, Works, Groups, ControlOK, TypeOK, Locals
  <1>. QED  BY <1>2, <1>3, <1>4

LEMMA CommitWorks ==
  ASSUME ControlOK, NEW t \in Tasks, CommitStep(t)
  PROVE  Works(t)
  <1>1. local[t] \in Locals
    BY DEF ControlOK, TypeOK
  <1>2. CASE Finish(t)
    BY <1>2, FinishWorks
  <1>3. CASE ~Finish(t)
    BY <1>1, <1>3 DEF CommitStep, PutData, Touch, TouchPut, Goto, Works, Groups, ControlOK,
                      TypeOK,
                      Locals
  <1>. QED  BY <1>2, <1>3

LEMMA RenameWorks ==
  ASSUME ControlOK, NEW t \in Tasks, RenameStep(t)
  PROVE  Works(t)
  <1>1. local[t] \in Locals
    BY DEF ControlOK, TypeOK
  <1>2. CASE Finish(t)
    BY <1>2, FinishWorks
  <1>3. CASE \/ RenameSource(t) \/ Move(t) \/ AddNode(t)
             \/ MoveData(t) \/ CutData(t) \/ CutKey(t)
    BY <1>2, <1>3 DEF RenameSource, Move, AddNode, MoveData, CutData, CutKey,
                      Onward, Goto, Works, Groups, ControlOK, TypeOK
  <1>10. CASE SetMovedKey(t)
    <2>1. /\ pc[t] = "movekey" /\ local' = local
          /\ \E l \in {"cutkey", Onward(t)} : pc' = [pc EXCEPT ![t] = l]
      BY <1>10 DEF SetMovedKey, Goto
    <2>2. Onward(t) \in RenameLabels
      BY DEF Onward
    <2>. QED  BY <2>1, <2>2 DEF Works, Groups, ControlOK, TypeOK
  <1>4. CASE EntryPath(t) \/ EntrySet(t) \/ EntryId(t) \/ EntryPut(t)
    BY <1>4 DEF EntryPath, EntrySet, EntryId, EntryPut, Goto, Works, Groups, ControlOK, TypeOK
  <1>5. CASE RenameTarget(t) \/ MoveKey(t)
    BY <1>1, <1>2, <1>5 DEF RenameTarget, MoveKey, Goto, Works, Groups, ControlOK, TypeOK, Locals
  <1>11. CASE RenameType(t) \/ NextKey(t)
    <2>1. CASE RenameType(t)
      BY <1>1, <1>2, <2>1 DEF RenameType, Goto, Works, Groups, ControlOK, TypeOK, Locals
    <2>2. CASE NextKey(t)
      <3>1. PICK k : local' = [local EXCEPT ![t].keys = @ \ {k}, ![t].key = k]
        BY <2>2 DEF NextKey
      <3>2. /\ \A u \in Tasks \ {t} : local'[u] = local[u]
            /\ local'[t].op = local[t].op
        BY <1>1, <3>1 DEF ControlOK, TypeOK, Locals
      <3>3. /\ pc[t] \in RenameLabels
            /\ \E l \in {"movedata", "movekey"} : pc' = [pc EXCEPT ![t] = l]
        BY <2>2 DEF NextKey, Goto
      <3>. QED  BY <3>2, <3>3 DEF Works, Groups, ControlOK, TypeOK
    <2>. QED  BY <1>11, <2>1, <2>2
  <1>9. CASE Keys(t) \/ Nodes(t)
    <2>1. PICK T, K : \/ local' = [local EXCEPT ![t].todo = T, ![t].keys = K]
                      \/ local' = [local EXCEPT ![t].key = K, ![t].todo = T]
      BY <1>9 DEF Keys, Nodes
    <2>2. /\ \A u \in Tasks \ {t} : local'[u] = local[u]
          /\ local'[t].op = local[t].op
      BY <1>1, <2>1 DEF ControlOK, TypeOK, Locals
    <2>3. /\ pc[t] \in RenameLabels
          /\ \E l \in {"moving", "node"} : pc' = [pc EXCEPT ![t] = l]
      BY <1>9 DEF Keys, Nodes, Goto
    <2>. QED  BY <2>2, <2>3 DEF Works, Groups, ControlOK, TypeOK
  <1>6. CASE RemNode(t)
    BY <1>1, <1>6 DEF RemNode, Goto, Works, Groups, ControlOK, TypeOK, Locals
  <1>7. CASE Entries(t) \/ Entry(t)
    <2>1. /\ \A u \in Tasks \ {t} : local'[u] = local[u]
          /\ local'[t].op = local[t].op
      <3>1. CASE Entries(t)
        BY <1>1, <3>1 DEF Entries, ControlOK, TypeOK, Locals
      <3>2. CASE Entry(t)
        <4>1. PICK e : local' = [local EXCEPT ![t].todo = @ \ {e}, ![t].cur = e]
          BY <3>2 DEF Entry
        <4>. QED  BY <1>1, <4>1 DEF ControlOK, TypeOK, Locals
      <3>. QED  BY <1>7, <3>1, <3>2
    <2>2. /\ pc[t] \in RenameLabels
          /\ \E l \in {"entry", "epath"} : pc' = [pc EXCEPT ![t] = l]
      BY <1>7 DEF Entries, Entry, Goto
    <2>. QED  BY <2>1, <2>2 DEF Works, Groups, ControlOK, TypeOK
  <1>8. CASE EntryTouch(t) \/ EntryTouchPut(t)
    BY <1>1, <1>8 DEF EntryTouch, EntryTouchPut, Goto, Works, Groups, ControlOK, TypeOK, Locals
  <1>. QED  BY <1>2, <1>3, <1>4, <1>5, <1>6, <1>7, <1>8, <1>9, <1>10, <1>11
            DEF RenameStep, Renamed

LEMMA FaultWorks ==
  ASSUME ControlOK, NEW t \in Tasks, Fault(t)
  PROVE  Works(t)
  <1>1. local[t] \in Locals
    BY DEF ControlOK, TypeOK
  <1>2. CASE Finish(t)
    BY <1>2, FinishWorks
  <1>3. CASE GoesOn(t) /\ Goto(t, After(t)[pc[t]]) /\ UNCHANGED local
    BY <1>3 DEF GoesOn, After, AfterHash, Onward, Goto, Works, Groups, ControlOK, TypeOK
  <1>4. CASE pc[t] = "moving" /\ UNCHANGED pc
             /\ \E q \in local[t].todo : local' = [local EXCEPT ![t].todo = @ \ {q}]
    BY <1>1, <1>4 DEF Works, Groups, ControlOK, TypeOK, Locals
  <1>5. CASE pc[t] = "movedata" /\ Goto(t, Onward(t)) /\ UNCHANGED local
    BY <1>5 DEF Onward, Goto, Works, Groups, ControlOK, TypeOK
  <1>. QED  BY <1>2, <1>3, <1>4, <1>5 DEF Fault

LEMMA NextOps ==
  ASSUME ControlOK, OpsOK, [Next]_vars
  PROVE  OpsOK'
  <1>1. ASSUME NEW t \in Tasks, Works(t)
        PROVE  OpsOK'
    <2>1. OpOf(pc'[t], local'[t].op)
      BY <1>1, NamespaceAssumption DEF Works, Groups, OpsOK, OpOf, Creates, Ops
    <2>. QED  BY <1>1, <2>1 DEF Works, OpsOK
  <1>2. ASSUME NEW t \in Tasks, NEW op \in Ops, NEW l, NEW r, Begin(t, op, r, l), r.op = op,
               OpOf(l, op)
        PROVE  OpsOK'
    BY <1>2 DEF Begin, Goto, OpsOK, ControlOK, TypeOK
  <1>3. ASSUME NEW t \in Tasks, Request(t)
        PROVE  OpsOK'
    <2>1. \A op \in Creates : OpOf("exists", op)
      BY NamespaceAssumption DEF OpOf, Creates, Ops
    <2>2. /\ OpOf("scan", "remove") /\ OpOf("source", "rename") /\ OpOf("put", "commit")
          /\ OpOf("empty", "mount") /\ OpOf("look", "mount")
      BY NamespaceAssumption DEF OpOf, Creates, Ops
    <2>3. ASSUME NEW op \in Creates, NEW p \in Paths, StartCreate(t, op, p)
          PROVE  OpsOK'
      <3>1. [Blank EXCEPT !.op = op, !.path = p].op = op /\ op \in Ops
        BY DEF Blank, Ops
      <3>. QED  BY <1>2, <2>1, <2>3, <3>1 DEF StartCreate
    <2>4. ASSUME NEW p \in Paths, StartRemove(t, p)
          PROVE  OpsOK'
      <3>1. [Blank EXCEPT !.op = "remove", !.path = p].op = "remove" /\ "remove" \in Ops
        BY DEF Blank, Ops
      <3>. QED  BY <1>2, <2>2, <2>4, <3>1 DEF StartRemove
    <2>5. ASSUME NEW p \in Paths, NEW i \in Ids, NEW name \in Names, StartRename(t, p, i, name)
          PROVE  OpsOK'
      <3>. DEFINE r == [Blank EXCEPT !.op = "rename", !.path = p,
                        !.to = Append(idToPath[i], name), !.dir = i, !.name = name]
      <3>1. r.op = "rename" /\ "rename" \in Ops
        BY DEF Blank, Ops
      <3>2. Begin(t, "rename", r, "source")
        BY <2>5 DEF StartRename
      <3>. QED  BY <1>2, <2>2, <3>1, <3>2
    <2>6. ASSUME NEW i \in Ids, StartCommit(t, i)
          PROVE  OpsOK'
      <3>1. /\ [Blank EXCEPT !.op = "commit", !.path = idToPath[i], !.id = i].op = "commit"
            /\ "commit" \in Ops
        BY DEF Blank, Ops
      <3>. QED  BY <1>2, <2>2, <2>6, <3>1 DEF StartCommit
    <2>7. CASE StartMount(t)
      <3>1. [Blank EXCEPT !.op = "mount", !.path = <<>>].op = "mount" /\ "mount" \in Ops
        BY DEF Blank, Ops
      <3>. QED  BY <1>2, <2>2, <2>7, <3>1 DEF StartMount
    <2>. QED  BY <1>3, <2>3, <2>4, <2>5, <2>6, <2>7 DEF Request
  <1>4. CASE Restart
    BY <1>4 DEF Restart, OpsOK, OpOf, Blank
  <1>5. CASE UNCHANGED vars
    BY <1>5 DEF vars, OpsOK
  <1>. QED  BY <1>1, <1>3, <1>4, <1>5, CreateWorks, RemoveWorks, RenameWorks, CommitWorks,
  FaultWorks
            DEF Next, TaskStep

LEMMA InitOps == Init => OpsOK
  BY DEF Init, OpsOK, OpOf, Blank

-----------------------------------------------------------------------------
(***************************************************************************)
(* A listing without company.                                              *)
(***************************************************************************)
LEMMA QuietNames ==
  ASSUME IsolatedOK, Quiet, NEW t \in Tasks
  PROVE  Named(t) = {}
  BY DEF IsolatedOK, DoingOK, BearingsOf, Quiet, Blank, Named

\* Nobody goes to work without company, but the server may stop.
LEMMA QuietEnds ==
  ASSUME ControlOK, Quiet, Next, ~Refused
  PROVE  ~Quiet'
  <1>1. ASSUME NEW t \in Tasks, Request(t)
        PROVE  pc'[t] # "idle"
    BY <1>1 DEF Request, StartCreate, StartRemove, StartRename, StartCommit, StartMount, Begin,
                Goto, ControlOK, TypeOK
  <1>2. ASSUME NEW t \in Tasks, TaskStep(t)
        PROVE  pc[t] # "idle"
    <2>1. CreateStep(t) => pc[t] # "idle"
      BY DEF CreateStep, Exists, Incr, IncrLost, IncrAgain, IncrPut, MountLook, ZAdd,
           PutHash, PutLink, PutPathToId, PutIdToPath,
             MountEmpty, MountReset
    <2>2. RemoveStep(t) => pc[t] # "idle"
      BY DEF RemoveStep, Scan, GetId, ZRem, Delete, HalfDelete, DelPathToId, DelIdToPath
    <2>3. RenameStep(t) => pc[t] # "idle"
      BY DEF RenameStep, RenameSource, RenameTarget, RenameType, Move, Keys, MoveKey,
             NextKey, MoveData, CutData, SetMovedKey, CutKey, Nodes, RemNode, AddNode, Entries,
             Entry, EntryPath, EntrySet, EntryId, EntryPut,
             EntryTouch, EntryTouchPut, Renamed
    <2>4. CommitStep(t) => pc[t] # "idle"
      BY DEF CommitStep, PutData, Touch, TouchPut
    <2>. QED  BY <1>2, <2>1, <2>2, <2>3, <2>4 DEF TaskStep
  <1>3. ASSUME NEW t \in Tasks, Fault(t)
        PROVE  pc[t] # "idle"
    BY <1>3 DEF Fault
  <1>4. ~Restart
    BY DEF Restart, Refused, Spend, Budgets, ControlOK, TypeOK
  <1>. QED  BY <1>1, <1>2, <1>3, <1>4 DEF Next, Quiet

\* What disturbs a path in a directory disturbs the directory.
LEMMA TidyDown ==
  ASSUME NEW p \in Paths, p # <<>>, NEW q \in Paths, Related(p, q)
  PROVE  Related(Parent(p), q)
  <1>1. Parent(p) \in Paths /\ Prefix(Parent(p), p)
    BY ParentIs
  <1>2. CASE Prefix(p, q)
    BY <1>1, <1>2, PrefixTrans DEF Related
  <1>3. CASE Prefix(q, p)
    BY <1>1, <1>3, PrefixMeets
  <1>. QED  BY <1>2, <1>3 DEF Related

LEMMA ChildIs ==
  ASSUME ControlOK, IsolatedOK, Quiet, NEW d \in Paths, Tidy(d), NEW p \in ChildrenIn(d)
  PROVE  /\ p \in Paths /\ p # <<>> /\ Parent(p) = d /\ p \in nodes
         /\ Undisturbed(p) /\ pathToId[p] \in Ids /\ idToPath[pathToId[p]] = p
         /\ meta[p] # None /\ meta[p].type # None
  <1>1. p \in Paths /\ p # <<>> /\ Parent(p) = d /\ p \in nodes
    BY DEF ChildrenIn, ControlOK, TypeOK
  <1>2. \A q \in tainted : ~Related(p, q)
    BY <1>1, TidyDown DEF Tidy, ControlOK, TypeOK
  <1>3. Undisturbed(p)
    BY <1>2, QuietNames DEF Undisturbed
  <1>4. Sound(p)
    BY <1>1, <1>3, UndisturbedSound
  <1>5. pathToId[p] \in Ids
    BY <1>1, <1>4 DEF Sound, Whole, ControlOK, TypeOK
  <1>6. None \notin Ids
    BY NamespaceAssumption DEF Ids
  <1>. QED  BY <1>1, <1>3, <1>4, <1>5, <1>6 DEF Sound, Whole, Holds

LEMMA IdsInAre ==
  ASSUME ControlOK, IsolatedOK, Quiet, NEW d \in Paths, Tidy(d)
  PROVE  IdsIn(d) \subseteq Ids
  BY ChildIs DEF IdsIn

\* The entries of a page from which none was dropped.
LEMMA PageHas ==
  ASSUME ListingOK, PageIsRead, \A i \in DOMAIN lister.page : lister.page[i].at # "dropped"
  PROVE  /\ \A i \in DOMAIN lister.page : \E e \in PageEntries : e.id = i
         /\ Cardinality(PageEntries) = Cardinality(DOMAIN lister.page)
  <1>. DEFINE D == DOMAIN lister.page
              f == [i \in D |->
                     [id |-> i, name |-> lister.page[i].name, type |-> lister.page[i].type]]
  <1>1. \A i \in D : lister.page[i].at = "kept"
    BY DEF PageIsRead
  <1>2. PageEntries = {f[i] : i \in D}
    BY <1>1 DEF PageEntries
  <1>3. \A i \in D : f[i].id = i
    OBVIOUS
  <1>4. f \in Bijection(D, PageEntries)
    <2>1. f \in [D -> PageEntries] /\ \A e \in PageEntries : \E i \in D : f[i] = e
      BY <1>2
    <2>2. \A i, j \in D : f[i] = f[j] => i = j
      BY <1>3
    <2>. HIDE DEF f, D
    <2>. QED  BY <2>1, <2>2 DEF Bijection, Injection, Surjection, IsInjective
  <1>5. IsFiniteSet(D)
    <2>1. MaxId \in Int /\ 1 \in Int
      BY NamespaceAssumption
    <2>2. D \in SUBSET Ids
      BY DEF ListingOK
    <2>. QED  BY <2>1, <2>2, FS_Interval, FS_Subset DEF Ids
  <1>6. Cardinality(PageEntries) = Cardinality(D)
    <2>. HIDE DEF f, D
    <2>. QED  BY <1>4, <1>5, FS_Bijection DEF ExistsBijection
  <1>. QED  BY <1>2, <1>3, <1>6

\* What remains to be shown of a step that reads.
LEMMA LoneStep ==
  ASSUME ControlOK, IsolatedOK, ListingOK, LoneOK, ListingNext, UNCHANGED vars,
         lister.pc # "idle", lister'.pc # "idle", overlap' = {}, lister'.id = lister.id,
         lister'.pc \in {"members", "ids", "entries"} => lister'.path = idToPath[lister.id],
         NEW d, d = idToPath[lister.id],
         Quiet /\ d \in Paths /\ Tidy(d) /\ LoneOf(d) => LoneOf(d)'
  PROVE  LoneOK'
  <1>1. overlap = {}
    BY WatchIs
  <1>2. Quiet /\ d \in Paths /\ \A p \in Paths : Undisturbed(p) => p \in calm
    BY <1>1 DEF LoneOK
  <1>3. /\ Quiet' /\ idToPath'[lister'.id] = d
        /\ \A p \in Paths : Undisturbed(p)' <=> Undisturbed(p)
    BY <1>2 DEF vars, store, index, history, Quiet, Undisturbed, Named
  <1>4. \A p \in Paths : Undisturbed(p)' => p \in calm'
    BY <1>2, <1>3, WatchIs
  <1>5. Tidy(d)' => Tidy(d)
    BY DEF Tidy, vars, history
  <1>6. Tidy(d) => LoneOf(d)
    BY <1>1 DEF LoneOK
  <1>. QED  BY <1>2, <1>3, <1>4, <1>5, <1>6 DEF LoneOK

\* The directory is as it was.
LEMMA SameIds ==
  ASSUME UNCHANGED vars, NEW d
  PROVE  ChildrenIn(d)' = ChildrenIn(d) /\ IdsIn(d)' = IdsIn(d) /\ pathToId' = pathToId
  <1>1. nodes' = nodes /\ pathToId' = pathToId
    BY DEF vars, store, index
  <1>2. ChildrenIn(d)' = ChildrenIn(d)
    BY <1>1 DEF ChildrenIn
  <1>. QED  BY <1>1, <1>2 DEF IdsIn

LEMMA LoneGathers ==
  ASSUME ControlOK, IsolatedOK, CalmOK, ListingOK, TruthOK, LoneOK, ListingNext, UNCHANGED vars,
         ReadPath \/ Members \/ MemberId, lister'.pc # "idle", overlap' = {}
  PROVE  LoneOK'
  <1>0. lister.pc # "idle" /\ overlap = {}
    <2>1. lister.pc # "idle"
      BY DEF ReadPath, Members, MemberId
    <2>. QED  BY <2>1, WatchIs
  <1>d. PICK d : d = idToPath[lister.id]
    OBVIOUS
  <1>1. CASE ReadPath
    <2>1. lister' = [lister EXCEPT !.pc = "members", !.path = d, !.ids = {}, !.page = <<>>]
      BY <1>1, <1>d DEF ReadPath, Closed
    <2>2. /\ lister'.pc = "members" /\ lister'.path = d
          /\ lister'.listed = lister.listed /\ lister'.id = lister.id /\ lister'.after = lister.after
      BY <2>1 DEF ListingOK, Listings
    <2>3. LoneOf(d) => LoneOf(d)'
      BY <2>2, SameIds DEF LoneOf
    <2>. QED  BY <1>0, <1>d, <2>2, <2>3, LoneStep
  <1>2. CASE Members
    <2>0. lister.pc = "members" /\ lister.path = d
      BY <1>0, <1>2, <1>d DEF Members, LoneOK
    <2>1. lister' = [lister EXCEPT !.pc = "ids", !.todo = ChildrenIn(d)]
      BY <1>2, <2>0 DEF Members, ChildrenIn
    <2>2. /\ lister'.pc = "ids" /\ lister'.path = d /\ lister'.ids = {}
          /\ lister'.todo = ChildrenIn(d)
          /\ lister'.listed = lister.listed /\ lister'.id = lister.id /\ lister'.after = lister.after
      BY <2>0, <2>1 DEF ListingOK, Listings, TruthOK, MembersOK
    <2>3. LoneOf(d) => LoneOf(d)'
      <3>1. {pathToId[p] : p \in ChildrenIn(d) \ ChildrenIn(d)} = {}
        OBVIOUS
      <3>. QED  BY <2>2, <3>1, SameIds DEF LoneOf
    <2>. QED  BY <1>0, <1>d, <2>2, <2>3, LoneStep
  <1>3. CASE MemberId
    <2>0. lister.pc = "ids" /\ lister.path = d
      BY <1>0, <1>3, <1>d DEF MemberId, LoneOK
    <2>1. PICK q \in lister.todo :
            lister' = [lister EXCEPT !.todo = @ \ {q}, !.ids = @ \cup {pathToId[q]}]
      <3>1. PICK q \in lister.todo :
              lister' = IF pathToId[q] = None THEN Closed
                        ELSE [lister EXCEPT !.todo = @ \ {q}, !.ids = @ \cup {pathToId[q]}]
        BY <1>3 DEF MemberId
      <3>2. Closed.pc = "idle"
        BY DEF Closed
      <3>. QED  BY <3>1, <3>2
    <2>2. /\ lister'.pc = "ids" /\ lister'.path = d
          /\ lister'.ids = lister.ids \cup {pathToId[q]} /\ lister'.todo = lister.todo \ {q}
          /\ lister'.listed = lister.listed /\ lister'.id = lister.id /\ lister'.after = lister.after
      BY <2>0, <2>1 DEF ListingOK, Listings
    <2>3. LoneOf(d) => LoneOf(d)'
      <3>. SUFFICES ASSUME LoneOf(d)  PROVE LoneOf(d)'
        OBVIOUS
      <3>1. /\ lister.todo \subseteq ChildrenIn(d)
            /\ lister.ids = {pathToId[p] : p \in ChildrenIn(d) \ lister.todo}
        BY <2>0 DEF LoneOf
      <3>2. lister'.ids = {pathToId[p] : p \in ChildrenIn(d) \ lister'.todo}
        BY <2>2, <3>1
      <3>. QED  BY <2>2, <3>1, <3>2, SameIds DEF LoneOf
    <2>. QED  BY <1>0, <1>d, <2>2, <2>3, LoneStep
  <1>. QED  BY <1>1, <1>2, <1>3

LEMMA LoneTakes ==
  ASSUME ControlOK, IsolatedOK, CalmOK, ListingOK, TruthOK, LoneOK, ListingNext, UNCHANGED vars,
         TakePage, lister'.pc # "idle", overlap' = {}
  PROVE  LoneOK'
  <1>0. lister.pc = "ids" /\ lister.todo = {} /\ overlap = {}
    <2>1. lister.pc = "ids" /\ lister.todo = {}
      BY DEF TakePage
    <2>. QED  BY <2>1, WatchIs
  <1>d. PICK d : d = idToPath[lister.id]
    OBVIOUS
  <1>. DEFINE page == [i \in Chosen |-> Unread]
  <1>1. lister.path = d
    BY <1>0, <1>d DEF LoneOK
  <1>2. lister' = [lister EXCEPT !.pc = "entries", !.ids = {}, !.page = page]
    BY DEF TakePage
  <1>3. /\ lister'.pc = "entries" /\ lister'.path = d /\ lister'.page = page
        /\ lister'.listed = lister.listed /\ lister'.id = lister.id
        /\ lister'.after = lister.after /\ lister'.max = lister.max
    BY <1>1, <1>2 DEF ListingOK, Listings
  <1>4. DOMAIN page = Chosen /\ \A i \in Chosen : page[i].at # "dropped"
    BY DEF Unread
  <1>5. Chosen = FirstOf(lister.ids, lister.after, lister.max)
    BY DEF Chosen, FirstOf
  <1>6. LoneOf(d) => LoneOf(d)'
    <2>. HIDE DEF page
    <2>. SUFFICES ASSUME LoneOf(d)  PROVE LoneOf(d)'
      OBVIOUS
    <2>1. ChildrenIn(d) \ lister.todo = ChildrenIn(d)
      BY <1>0
    <2>2. lister.ids = IdsIn(d)
      BY <1>0, <2>1 DEF LoneOf, IdsIn
    <2>. QED  BY <1>3, <1>4, <1>5, <2>2, SameIds DEF LoneOf
  <1>. QED  BY <1>0, <1>d, <1>3, <1>6, LoneStep

LEMMA LoneEntries ==
  ASSUME ControlOK, IsolatedOK, CalmOK, ListingOK, TruthOK, LoneOK, ListingNext, UNCHANGED vars,
         NEW i \in DOMAIN lister.page, EntryPathOf(i) \/ EntryHash(i) \/ EntryName(i),
         lister'.pc # "idle", overlap' = {}
  PROVE  LoneOK'
  <1>d. PICK d : d = idToPath[lister.id]
    OBVIOUS
  <1>. DEFINE old == lister.page[i]
  <1>0. lister.pc = "entries" /\ overlap = {} /\ lister.path = d /\ d \in Paths /\ Quiet
        /\ \A p \in Paths : Undisturbed(p) => p \in calm
    <2>1. lister.pc = "entries"
      BY DEF EntryPathOf, EntryHash, EntryName, EntryAt
    <2>2. overlap = {}
      BY <2>1, WatchIs
    <2>. QED  BY <1>d, <2>1, <2>2 DEF LoneOK
  <1>1. PICK r : /\ lister' = [lister EXCEPT !.page[i] = r]
                 /\ \/ r.at \in {"hash", "name", "kept"}
                    \/ EntryPathOf(i) /\ idToPath[i] = None
                    \/ EntryHash(i) /\ ~Keyed(old.path)
                    \/ EntryName(i) /\ idToPath[i] = None
    <2>1. old \in Reading
      BY DEF ListingOK, Listings
    <2>. DEFINE h == [old EXCEPT !.at = "hash", !.path = idToPath[i]]
                n == [old EXCEPT !.at = "name", !.path = None, !.type = TypeAt(old.path)]
                m == IF idToPath[i] = <<>> THEN None ELSE idToPath[i][Len(idToPath[i])]
                k == [old EXCEPT !.at = "kept", !.name = m]
    <2>2. h.at = "hash" /\ n.at = "name" /\ k.at = "kept"
      BY <2>1 DEF Reading
    <2>3. \/ lister' = [lister EXCEPT !.page[i] = h]
          \/ lister' = [lister EXCEPT !.page[i] = n]
          \/ lister' = [lister EXCEPT !.page[i] = k]
          \/ /\ Dropped(i)
             /\ \/ EntryPathOf(i) /\ idToPath[i] = None
                \/ EntryHash(i) /\ ~Keyed(old.path)
                \/ EntryName(i) /\ idToPath[i] = None
      BY DEF EntryPathOf, EntryHash, EntryName
    <2>. HIDE DEF h, n, k
    <2>. QED  BY <2>2, <2>3 DEF Dropped
  <1>2. /\ lister'.pc = "entries" /\ lister'.path = d
        /\ DOMAIN lister'.page = DOMAIN lister.page
        /\ \A j \in DOMAIN lister.page : lister'.page[j] = IF j = i THEN r ELSE lister.page[j]
        /\ lister'.listed = lister.listed /\ lister'.id = lister.id
        /\ lister'.after = lister.after /\ lister'.max = lister.max
    BY <1>0, <1>1 DEF ListingOK, Listings
  <1>3. ASSUME Tidy(d), LoneOf(d)
        PROVE  r.at # "dropped"
    <2>1. DOMAIN lister.page = FirstOf(IdsIn(d), lister.after, lister.max)
      BY <1>0, <1>3 DEF LoneOf
    <2>2. i \in IdsIn(d)
      BY <2>1 DEF FirstOf
    <2>3. PICK p \in ChildrenIn(d) : i = pathToId[p]
      BY <2>2 DEF IdsIn
    <2>4. /\ p \in Paths /\ Undisturbed(p) /\ pathToId[p] \in Ids /\ idToPath[pathToId[p]] = p
          /\ meta[p] # None
      BY <1>0, <1>3, ChildIs
    <2>5. p \in calm /\ p # None
      BY <1>0, <2>4, NamespaceAssumption
    <2>6. ReadsTrue(lister.page[i], p)
      BY <1>0, <2>3, <2>5 DEF TruthOK, PageOK
    <2>7. ~(EntryPathOf(i) /\ idToPath[i] = None)
      BY <2>3, <2>4, <2>5
    <2>8. ~(EntryHash(i) /\ ~Keyed(lister.page[i].path))
      BY <2>4, <2>6 DEF EntryHash, EntryAt, ReadsTrue, Keyed
    <2>9. ~(EntryName(i) /\ idToPath[i] = None)
      BY <2>3, <2>4, <2>5
    <2>. QED  BY <1>1, <2>7, <2>8, <2>9
  <1>4. Tidy(d) /\ LoneOf(d) => LoneOf(d)'
    BY <1>0, <1>2, <1>3, SameIds DEF LoneOf
  <1>. QED  BY <1>0, <1>d, <1>2, <1>4, LoneStep

\* Beside the ids sent before, those of a page that are up to the last one sent.
LEMMA FirstSent ==
  ASSUME NEW S \in SUBSET Ids, NEW after \in Nat, NEW max \in Nat,
         NEW D, D = FirstOf(S, after, max), NEW T \in SUBSET D,
         \A i \in D, j \in T : i <= j => i \in T,
         NEW last \in {after} \cup T, \A i \in T : i <= last
  PROVE  {i \in S : i <= after} \cup T = {i \in S : i <= last}
  <1>1. /\ D \subseteq S /\ \A i \in D : i > after
        /\ \A i \in D : \A j \in S : j > after /\ j < i => j \in D
    BY FirstIs
  <1>2. S \subseteq Nat
    BY NamespaceAssumption DEF Ids
  <1>3. last \in Nat /\ after <= last
    BY <1>1, <1>2
  <1>4. ASSUME NEW i \in S, i <= after \/ i \in T
        PROVE  i <= last
    BY <1>2, <1>3, <1>4
  <1>5. ASSUME NEW i \in S, i <= last, ~(i <= after)
        PROVE  i \in T
    <2>1. i \in Nat /\ i > after /\ last \in T
      BY <1>2, <1>5
    <2>2. i \in D
      BY <1>1, <1>5, <2>1
    <2>. QED  BY <1>5, <2>1, <2>2
  <1>. QED  BY <1>1, <1>4, <1>5

\* What is sent of a page is all of it up to the last entry sent.
LEMMA LoneGoesOn ==
  ASSUME ControlOK, IsolatedOK, CalmOK, ListingOK, TruthOK, LoneOK, ListingNext, UNCHANGED vars,
         PageIsRead, NEW sent \in SUBSET PageEntries, GoOn(sent),
         \A f \in PageEntries, g \in sent : f.id <= g.id => f \in sent,
         lister'.pc # "idle", overlap' = {}
  PROVE  LoneOK'
  <1>d. PICK d : d = idToPath[lister.id]
    OBVIOUS
  <1>0. lister.pc = "entries" /\ overlap = {}
    <2>1. lister.pc = "entries"
      BY DEF PageIsRead
    <2>. QED  BY <2>1, WatchIs
  <1>1. PICK last \in {lister.after} \cup {e.id : e \in sent} :
          /\ \A e \in sent : e.id <= last
          /\ lister' = [lister EXCEPT !.pc = "open", !.path = None, !.page = <<>>,
                                      !.listed = @ \cup sent, !.after = last]
    BY DEF GoOn
  <1>2. /\ lister'.pc = "open" /\ lister'.listed = lister.listed \cup sent
        /\ lister'.id = lister.id /\ lister'.after = last
    BY <1>1 DEF ListingOK, Listings
  <1>3. ASSUME Quiet, d \in Paths, Tidy(d), LoneOf(d)
        PROVE  {e.id : e \in lister'.listed} = {i \in IdsIn(d) : i <= last}
    <2>1. PICK S, D, L, T, after, max :
            /\ S = IdsIn(d) /\ D = DOMAIN lister.page
            /\ L = {e.id : e \in lister.listed} /\ T = {e.id : e \in sent}
            /\ after = lister.after /\ max = lister.max
      OBVIOUS
    <2>2. /\ D = FirstOf(S, after, max) /\ L = {i \in S : i <= after}
          /\ \A i \in D : \E e \in PageEntries : e.id = i
      BY <1>0, <1>3, <2>1, PageHas DEF LoneOf
    <2>3. S \in SUBSET Ids /\ after \in Nat /\ max \in Nat
      BY <1>3, <2>1, IdsInAre DEF ListingOK, Listings
    <2>4. \A e \in PageEntries : e.id \in D
      BY <2>1 DEF PageEntries
    <2>5. T \subseteq D /\ last \in {after} \cup T /\ \A i \in T : i <= last
      BY <1>1, <2>1, <2>4
    <2>6. ASSUME NEW i \in D, NEW j \in T, i <= j
          PROVE  i \in T
      <3>1. PICK f \in PageEntries, g \in sent : f.id = i /\ g.id = j
        BY <2>1, <2>2
      <3>2. f \in sent
        BY <2>6, <3>1
      <3>. QED  BY <2>1, <3>1, <3>2
    <2>7. L \cup T = {i \in S : i <= last}
      BY <2>2, <2>3, <2>5, <2>6, FirstSent
    <2>8. {e.id : e \in lister'.listed} = L \cup T
      BY <1>2, <2>1
    <2>. QED  BY <2>1, <2>7, <2>8
  <1>4. Quiet /\ d \in Paths /\ Tidy(d) /\ LoneOf(d) => LoneOf(d)'
    BY <1>2, <1>3, SameIds DEF LoneOf
  <1>. QED  BY <1>0, <1>d, <1>2, <1>4, LoneStep

LEMMA LoneReads ==
  ASSUME ControlOK, IsolatedOK, CalmOK, ListingOK, TruthOK, LoneOK, ListingNext, UNCHANGED vars,
         ReadPage, lister'.pc # "idle", overlap' = {}
  PROVE  LoneOK'
  <1>1. CASE Reply
    <2>1. PageIsRead /\ GoOn(PageEntries)
      BY <1>1 DEF Reply, Closed
    <2>. QED  BY <2>1, LoneGoesOn
  <1>2. CASE ReplyCut
    <2>1. PICK e \in PageEntries : GoOn({f \in PageEntries : f.id < e.id})
      BY <1>2 DEF ReplyCut
    <2>. DEFINE sent == {f \in PageEntries : f.id < e.id}
    <2>2. \A f \in PageEntries : f.id \in Nat
      BY NamespaceAssumption DEF PageEntries, ListingOK, Ids
    <2>3. \A f \in PageEntries, g \in sent : f.id <= g.id => f \in sent
      BY <2>2
    <2>4. PageIsRead /\ sent \in SUBSET PageEntries /\ GoOn(sent)
      BY <1>2, <2>1 DEF ReplyCut
    <2>. HIDE DEF sent
    <2>. QED  BY <2>3, <2>4, LoneGoesOn
  <1>. QED  BY <1>1, <1>2, LoneGathers, LoneTakes, LoneEntries DEF ReadPage

LEMMA LoneStarts ==
  ASSUME ControlOK', IsolatedOK', OpsOK', CalmOK, ListingNext, UNCHANGED vars,
         NEW i \in Ids, NEW n \in PageSizes, Start(i, n), overlap' = {}
  PROVE  LoneOK'
  <1>1. /\ lister' = [Closed EXCEPT !.pc = "open", !.id = i, !.max = n]
        /\ idToPath[i] # None /\ ~begun
    BY DEF Start
  <1>2. /\ lister'.pc = "open" /\ lister'.id = i /\ lister'.after = 0 /\ lister'.listed = {}
    BY <1>1 DEF Closed
  <1>3. lister.pc = "idle"
    BY <1>1 DEF CalmOK
  <1>4. Quiet'
    BY <1>2, WatchIs DEF OpsOK, OpOf, Quiet
  <1>5. PICK d \in Paths : d = idToPath'[i]
    BY <1>1 DEF vars, store, index, ControlOK, TypeOK
  <1>6. \A p \in Paths : Undisturbed(p)' => p \in calm'
    BY <1>2, <1>3, WatchIs
  <1>7. ASSUME Tidy(d)'
        PROVE  LoneOf(d)'
    <2>1. (ControlOK /\ IsolatedOK /\ Quiet /\ d \in Paths /\ Tidy(d) => IdsIn(d) \subseteq Ids)'
      BY IdsInAre, PTL
    <2>2. IdsIn(d)' \subseteq Ids /\ Ids = 1 .. MaxId /\ MaxId \in Nat
      BY <1>4, <1>7, <2>1, NamespaceAssumption DEF Ids
    <2>3. \A j \in IdsIn(d)' : ~(j <= 0)
      BY <2>2
    <2>. QED  BY <1>2, <2>3 DEF LoneOf
  <1>. QED  BY <1>2, <1>4, <1>5, <1>6, <1>7 DEF LoneOK

LEMMA NextLone ==
  ASSUME ControlOK, IsolatedOK, ControlOK', IsolatedOK', OpsOK', CalmOK, ListingOK, TruthOK,
         LoneOK, ListingNext
  PROVE  LoneOK'
  <1>. SUFFICES ASSUME lister'.pc # "idle", overlap' = {}  PROVE LoneOK'
    BY DEF LoneOK
  <1>1. ~(Next /\ ~Refused /\ lister' = lister)
    <2>1. ASSUME Next, ~Refused, lister' = lister
          PROVE  FALSE
      <3>1. Quiet
        BY <2>1, WatchIs DEF LoneOK
      <3>2. Quiet'
        BY WatchIs DEF OpsOK, OpOf, Quiet
      <3>. QED  BY <2>1, <3>1, <3>2, QuietEnds
    <2>. QED  BY <2>1
  <1>2. lister' # Closed
    BY DEF Closed
  <1>3. ~Watch(TRUE)
    BY FailShows
  <1>. QED  BY <1>1, <1>2, <1>3, LoneStarts, LoneReads, ListingSteps

\* What a listing that nothing overlapped with has told when it ends.
LEMMA LoneEnds ==
  ASSUME ControlOK, IsolatedOK, CalmOK, ListingOK, TruthOK, LoneOK
  PROVE  LoneListingIsTheTree
  <1>. SUFFICES ASSUME AtEof, overlap = {}, Tidy(lister.path)
                PROVE  Result = {EntryOf(p) : p \in ChildrenIn(lister.path)}
    BY DEF LoneListingIsTheTree
  <1>0. PageIsRead /\ Eof /\ lister.pc = "entries"
    BY DEF AtEof, PageIsRead
  <1>1. PICK d \in Paths : d = lister.path
    BY <1>0 DEF LoneOK
  <1>2. Quiet /\ LoneOf(d) /\ Tidy(d) /\ \A p \in Paths : Undisturbed(p) => p \in calm
    BY <1>0, <1>1 DEF LoneOK
  <1>3. PICK S, D, after, max :
          S = IdsIn(d) /\ D = DOMAIN lister.page /\ after = lister.after /\ max = lister.max
    OBVIOUS
  <1>4. /\ D = FirstOf(S, after, max)
        /\ {e.id : e \in lister.listed} = {i \in S : i <= after}
        /\ \A i \in D : \E e \in PageEntries : e.id = i
        /\ Cardinality(PageEntries) = Cardinality(D)
    BY <1>0, <1>2, <1>3, PageHas DEF LoneOf
  <1>5. S \in SUBSET Ids /\ after \in Nat /\ max \in Nat
    BY <1>2, <1>3, IdsInAre DEF ListingOK, Listings
  <1>6. /\ D \subseteq S /\ IsFiniteSet(D)
        /\ \A i \in S \ D : i > after => Cardinality(D) >= max
    BY <1>4, <1>5, FirstIs
  <1>7. ASSUME NEW i \in S
        PROVE  \E e \in Result : e.id = i
    <2>1. CASE i <= after
      <3>1. i \in {e.id : e \in lister.listed}
        BY <1>4, <2>1
      <3>. QED  BY <3>1 DEF Result
    <2>2. CASE i > after
      <3>1. Cardinality(D) \in Nat /\ Cardinality(D) < max
        BY <1>0, <1>3, <1>4, <1>6, FS_CardinalityType DEF Eof
      <3>2. i \in D
        BY <1>5, <1>6, <2>2, <3>1
      <3>. QED  BY <1>4, <3>2 DEF Result
    <2>3. i \in Nat
      BY <1>5, NamespaceAssumption DEF Ids
    <2>. QED  BY <1>5, <2>1, <2>2, <2>3
  <1>8. ASSUME NEW e \in Result
        PROVE  e.id \in S
    <2>1. CASE e \in PageEntries
      <3>1. e.id \in D
        BY <1>3, <2>1 DEF PageEntries
      <3>. QED  BY <1>6, <3>1
    <2>2. CASE e \in lister.listed
      <3>1. e.id \in {f.id : f \in lister.listed}
        BY <2>2
      <3>. QED  BY <1>4, <3>1
    <2>. QED  BY <2>1, <2>2 DEF Result
  <1>9. ASSUME NEW e \in Result, NEW p \in ChildrenIn(d), e.id = pathToId[p]
        PROVE  e = EntryOf(p)
    <2>1. p \in calm
      BY <1>2, ChildIs
    <2>. QED  BY <1>0, <1>9, <2>1, TrueEntries DEF EntriesAreTrue
  <1>10. \A p \in ChildrenIn(d) : pathToId[p] \in S
    BY <1>3 DEF IdsIn
  <1>11. \A e \in Result : \E p \in ChildrenIn(d) : e.id = pathToId[p]
    BY <1>3, <1>8 DEF IdsIn
  <1>12. \A p \in ChildrenIn(d) : \E e \in Result : e.id = pathToId[p]
    BY <1>7, <1>10
  <1>. QED  BY <1>1, <1>9, <1>11, <1>12

LEMMA LoneHolds ==
  ASSUME Redis = TRUE, WildRenames = FALSE
  PROVE  ListingSpec => [](OpsOK /\ LoneOK)
  <1>. DEFINE I == ControlOK /\ IsolatedOK /\ ListingOK /\ CalmOK /\ TruthOK
  <1>1. ListingInit => OpsOK /\ LoneOK
    BY InitOps DEF ListingInit, Closed, LoneOK
  <1>2. ASSUME I, I', OpsOK, LoneOK, [ListingNext]_<<vars, listing>>
        PROVE  OpsOK' /\ LoneOK'
    <2>1. OpsOK'
      <3>1. [Next]_vars
        BY <1>2, StepIsNamespace
      <3>. QED  BY <1>2, <3>1, NextOps
    <2>2. CASE ListingNext
      BY <1>2, <2>1, <2>2, NextLone
    <2>3. CASE UNCHANGED <<vars, listing>>
      <3>1. UNCHANGED vars /\ UNCHANGED listing
        BY <2>3
      <3>2. \A d : LoneOf(d)' = LoneOf(d)
        BY <3>1 DEF LoneOf, IdsIn, ChildrenIn, vars, store, index, listing
      <3>3. \A p : Tidy(p)' = Tidy(p) /\ Undisturbed(p)' = Undisturbed(p)
        BY <3>1 DEF Tidy, Undisturbed, Named, vars, history
      <3>. HIDE DEF I
      <3>. QED  BY <1>2, <2>1, <3>1, <3>2, <3>3 DEF LoneOK, Quiet, vars, store, index, listing
    <2>. QED  BY <1>2, <2>2, <2>3
  <1>3. ListingSpec => []I
    BY TruthAlways
  <1>. QED  BY <1>1, <1>2, <1>3, PTL DEF ListingSpec

\* A listing that no request overlapped with has each name of its directory once when
\* it ends, and no other (readdir, whose callers go on from the cookie of the last
\* entry until a page is not full, directory_ops.rs).
THEOREM LoneAlways ==
  ASSUME Redis = TRUE, WildRenames = FALSE
  PROVE  ListingSpec => []LoneListingIsTheTree
  BY TruthAlways, LoneHolds, LoneEnds, PTL

-----------------------------------------------------------------------------
(***************************************************************************)
(* A listing beside creates and commits.                                   *)
(***************************************************************************)
OnlyMaking == \A t \in Tasks : local[t].op \in Creates \cup {"commit", None}

\* What was disturbed remains so.
LEMMA TaintStays ==
  ASSUME Next
  PROVE  tainted \subseteq tainted'
  <1>1. \A t, P : Claim(t, P) => tainted \subseteq tainted'
    BY DEF Claim
  <1>2. ASSUME NEW t \in Tasks, Request(t)
        PROVE  tainted \subseteq tainted'
    BY <1>1, <1>2 DEF Request, StartCreate, StartRemove, StartRename, StartCommit, StartMount,
                      Begin
  <1>3. ASSUME NEW t \in Tasks, CreateStep(t) \/ RemoveStep(t) \/ CommitStep(t)
        PROVE  tainted \subseteq tainted'
    <2>1. CASE CreateStep(t) \/ CommitStep(t)
      BY <2>1 DEF CreateStep, Exists, Incr, IncrLost, IncrAgain, IncrPut, ZAdd, PutHash,
                  PutLink, PutPathToId, PutIdToPath, MountLook, MountEmpty, MountReset,
                  CommitStep, PutData, Touch, TouchPut, history
    <2>2. CASE RemoveStep(t)
      BY <2>2 DEF RemoveStep, Scan, GetId, ZRem, Delete, HalfDelete, DelPathToId, DelIdToPath,
                  history
    <2>. QED  BY <1>3, <2>1, <2>2
  <1>4. ASSUME NEW t \in Tasks, RenameStep(t)
        PROVE  tainted \subseteq tainted'
    <2>1. CASE RenameTarget(t)
      BY <1>1, <2>1 DEF RenameTarget, history
    <2>2. CASE ~RenameTarget(t)
      BY <1>4, <2>2 DEF RenameStep, RenameSource, RenameType, Move, Keys, MoveKey,
                        NextKey, MoveData, CutData, SetMovedKey, CutKey, Nodes, RemNode, AddNode,
                        Entries, Entry, EntryPath, EntrySet, EntryId,
                        EntryPut, EntryTouch, EntryTouchPut, Renamed, history
    <2>. QED  BY <2>1, <2>2
  <1>5. ASSUME NEW t \in Tasks, Fault(t)
        PROVE  tainted \subseteq tainted'
    BY <1>5 DEF Fault
  <1>6. CASE Restart
    BY <1>6 DEF Restart
  <1>. QED  BY <1>2, <1>3, <1>4, <1>5, <1>6 DEF Next, TaskStep

\* What is at work on a path that was not left half done is still about to make it, or
\* is putting its content.
LEMMA MakerAt ==
  ASSUME ControlOK, IsolatedOK, OpsOK, OnlyMaking,
         NEW q \in Paths, Intact(q), NEW t \in Tasks, Covers(t, q)
  PROVE  /\ local[t].path \in Paths /\ q \in AtOrBelow(local[t].path)
         /\ \/ Sound(q)
            \/ /\ local[t].path = q
               /\ pathToId[q] = IF pc[t] = "i2p" THEN local[t].id ELSE None
  <1>1. Clean(t)
    BY CoveredIntact DEF IsolatedOK
  <1>2. BearingsOf(pc[t], local[t]) /\ HalfwayOf(pc[t], local[t])
    BY <1>1 DEF IsolatedOK, DoingOK
  <1>3. pc[t] # "idle"
    BY <1>2 DEF BearingsOf, Blank, Covers, Named
  <1>4. pc[t] \in CreateLabels \cup CommitLabels /\ local[t].op \in Creates \cup {"commit"}
    <2>1. local[t].op \in Creates \cup {"commit"}
      BY <1>3 DEF OpsOK, OpOf, OnlyMaking
    <2>2. pc[t] \in Labels
      BY DEF ControlOK, TypeOK
    <2>. QED  BY <1>3, <2>1, <2>2 DEF OpsOK, OpOf, Creates, Labels
  <1>5. /\ local[t].op # "mount" /\ local[t].to = None
        /\ pc[t] \notin {"empty", "reset", "incrput", "touchput"}
    BY <1>2, <1>4 DEF BearingsOf, Creates
  <1>6. local[t].path \in Paths /\ q \in AtOrBelow(local[t].path)
    BY <1>5, CoversOnly, NamespaceAssumption
  <1>7. CASE pc[t] \in CommitLabels
    BY <1>2, <1>5, <1>6, <1>7 DEF HalfwayOf, AllSound
  <1>8. CASE pc[t] \in CreateLabels
    <2>1. Creating(pc[t], local[t].path, local[t].id)
      BY <1>2, <1>5, <1>8 DEF HalfwayOf
    <2>2. q # local[t].path => q \in Under(local[t].path)
      BY <1>6 DEF Under
    <2>. QED  BY <1>6, <2>1, <2>2 DEF Creating
  <1>. QED  BY <1>4, <1>6, <1>7, <1>8

\* What is in a directory that nothing was left half done in.
LEMMA TidyIntact ==
  ASSUME ControlOK, NEW d \in Paths, Tidy(d), NEW q \in Paths, q # <<>>, Parent(q) = d
  PROVE  Intact(q) /\ Intact(<<>>)
  <1>1. \A r \in tainted : r \in Paths /\ ~Related(d, r)
    BY DEF Tidy, ControlOK, TypeOK
  <1>2. \A r \in tainted : ~Related(q, r)
    BY <1>1, TidyDown
  <1>. QED  BY <1>2, PrefixRoot, IntactAbove DEF Intact, Related

\* A name that is older than all that is being made has all that there is of it.
LEMMA OldIsSound ==
  ASSUME ControlOK, IsolatedOK, OpsOK, OnlyMaking, NEW d \in Paths, Tidy(d),
         NEW j \in Ids, \A t \in Makers : j < local[t].id, NEW q \in Paths, Stands(q, j, d)
  PROVE  idToPath[j] = q /\ meta[q] # None
  <1>1. q # <<>> /\ Parent(q) = d /\ pathToId[q] = j
    BY DEF Stands
  <1>2. Intact(q)
    BY <1>1, TidyIntact
  <1>3. None \notin Ids
    BY NamespaceAssumption DEF Ids
  <1>4. Sound(q)
    <2>1. ASSUME NEW t \in Tasks, Covers(t, q), ~Sound(q)
          PROVE  FALSE
      <3>1. pc[t] = "i2p" /\ local[t].id = j
        BY <1>1, <1>2, <1>3, <2>1, MakerAt
      <3>2. t \in Makers
        BY <3>1 DEF Makers
      <3>. QED  BY <3>1, <3>2, NamespaceAssumption DEF Ids
    <2>. QED  BY <1>2, <2>1 DEF IsolatedOK, QuietOK
  <1>. QED  BY <1>1, <1>3, <1>4 DEF Sound, Whole, Holds

\* Such requests make no step of a remove or a rename.
LEMMA MakersMake ==
  ASSUME ControlOK, OpsOK, OnlyMaking, NEW t \in Tasks
  PROVE  ~RemoveStep(t) /\ ~RenameStep(t) /\ ~FirstMount(t)
  <1>1. local[t].op \notin {"remove", "rename", "mount"}
    <2>1. None \notin {"remove", "rename", "mount"}
      BY NamespaceAssumption DEF Ops
    <2>. QED  BY <2>1 DEF OnlyMaking, Creates
  <1>2. pc[t] \notin RemoveLabels \cup RenameLabels
    BY <1>1 DEF OpsOK, OpOf
  <1>3. ~RemoveStep(t)
    BY <1>2 DEF RemoveStep, Scan, GetId, ZRem, Delete, HalfDelete, DelPathToId, DelIdToPath
  <1>4. ~RenameStep(t)
    BY <1>2 DEF RenameStep, RenameSource, RenameTarget, RenameType, Move, Keys, MoveKey,
                NextKey, MoveData, CutData, SetMovedKey, CutKey, Nodes, RemNode, AddNode,
                Entries, Entry, EntryPath, EntrySet, EntryId, EntryPut,
                EntryTouch, EntryTouchPut, Renamed
  <1>5. ~FirstMount(t)
    BY <1>1 DEF FirstMount
  <1>. QED  BY <1>3, <1>4, <1>5

\* It stays, and so do all names.
LEMMA NameStays ==
  ASSUME ControlOK, IsolatedOK, OpsOK, OnlyMaking, Next, NEW d \in Paths, Tidy(d),
         NEW j \in Ids, NEW q \in Paths, Stands(q, j, d)
  PROVE  nodes \subseteq nodes' /\ Stands(q, j, d)'
  <1>1. q # <<>> /\ Parent(q) = d /\ pathToId[q] = j /\ q \in nodes
    BY DEF Stands
  <1>2. Intact(q)
    BY <1>1, TidyIntact
  <1>3. None \notin Ids
    BY NamespaceAssumption DEF Ids
  <1>4. nodes \subseteq nodes' /\ pathToId'[q] = pathToId[q]
    <2>1. CASE UNCHANGED <<nodes, pathToId>>
      BY <2>1
    <2>2. ASSUME NEW t \in Tasks, TaskStep(t)
          PROVE  nodes \subseteq nodes' /\ pathToId'[q] = pathToId[q]
      <3>1. ~RemoveStep(t) /\ ~RenameStep(t)
        BY MakersMake
      <3>2. CASE CommitStep(t)
        BY <3>2 DEF CommitStep, PutData, Touch, TouchPut, index
      <3>3. CASE CreateStep(t) /\ ~PutPathToId(t)
        BY <3>3 DEF CreateStep, Exists, Incr, IncrLost, IncrAgain, IncrPut, MountLook, ZAdd,
                    PutHash, PutLink, PutIdToPath,
                    MountEmpty, MountReset, store, index
      <3>4. CASE PutPathToId(t)
        <4>1. pc[t] = "p2i" /\ nodes' = nodes
              /\ pathToId' = [pathToId EXCEPT ![local[t].path] = local[t].id]
          BY <3>4 DEF PutPathToId
        <4>2. local[t].path # q
          <5>1. SUFFICES ASSUME local[t].path = q  PROVE FALSE
            OBVIOUS
          <5>2. Covers(t, q)
            BY <4>1, <5>1, CoversOwn
          <5>3. Clean(t)
            BY <1>2, <5>2, CoveredIntact DEF IsolatedOK
          <5>4. Creating("p2i", q, local[t].id)
            BY <4>1, <5>1, <5>3, CreatingIs
          <5>. QED  BY <1>1, <1>3, <5>4 DEF Creating
        <4>. QED  BY <4>1, <4>2 DEF ControlOK, TypeOK
      <3>. QED  BY <2>2, <3>1, <3>2, <3>3, <3>4 DEF TaskStep
    <2>3. ASSUME NEW t \in Tasks, Request(t) \/ Fault(t)
          PROVE  UNCHANGED <<nodes, pathToId>>
      BY <2>3 DEF Request, StartCreate, StartRemove, StartRename, StartCommit, StartMount, Begin,
                  Fault, store, index
    <2>4. Restart => UNCHANGED <<nodes, pathToId>>
      BY DEF Restart, store, index
    <2>. QED  BY <2>1, <2>2, <2>3, <2>4 DEF Next
  <1>. QED  BY <1>1, <1>4 DEF Stands

\* What is made from now on is newer.
LEMMA MakersNewer ==
  ASSUME Redis = TRUE, ControlOK, IsolatedOK, OpsOK, OnlyMaking, Next, ~Refused,
         ~(used'["fault"] > used["fault"]), Intact(<<>>),
         NEW p \in Paths, NEW n \in Ids, pathToId[p] = n, \A t \in Makers : n < local[t].id,
         NEW u \in Makers'
  PROVE  n < local'[u].id
  <1>1. n <= nextId
    <2>1. p \in Marks(n)
      BY DEF Marks
    <2>. QED  BY <2>1, MakersMake DEF IsolatedOK, FreshOK
  <1>2. n \in Nat /\ nextId \in Nat
    BY NamespaceAssumption DEF Ids, ControlOK, TypeOK
  <1>. DEFINE marked == CreateLabels \ {"look", "exists", "incr", "empty"}
  <1>3. u \in Tasks /\ pc'[u] \in marked
    BY DEF Makers
  <1>4. pc[u] \in marked => n < local[u].id
    BY <1>3 DEF Makers
  <1>5. ASSUME NEW t \in Tasks, Request(t)
        PROVE  n < local'[u].id
    <2>1. PICK op, r, l : Begin(t, op, r, l) /\ l \notin marked
      <3>. DEFINE starts == \E op, r, l : Begin(t, op, r, l) /\ l \notin marked
      <3>1. \A op, r : \/ Begin(t, op, r, "exists") \/ Begin(t, op, r, "scan")
                      \/ Begin(t, op, r, "source") \/ Begin(t, op, r, "put")
                      \/ Begin(t, op, r, "empty") \/ Begin(t, op, r, "look") => starts
        OBVIOUS
      <3>. HIDE DEF starts
      <3>2. starts
        BY <1>5, <3>1 DEF Request, StartCreate, StartRemove, StartRename, StartCommit, StartMount
      <3>. QED  BY <3>2 DEF starts
    <2>. HIDE DEF marked
    <2>2. u # t
      BY <1>3, <2>1 DEF Begin, Goto, ControlOK, TypeOK
    <2>. QED  BY <1>3, <1>4, <2>1, <2>2 DEF Begin, Goto, ControlOK, TypeOK
  <1>6. ASSUME NEW t \in Tasks, TaskStep(t)
        PROVE  n < local'[u].id
    <2>1. CreateStep(t) \/ CommitStep(t)
      BY <1>6, MakersMake DEF TaskStep
    <2>2. CASE u # t
      <3>1. pc'[u] = pc[u] /\ local'[u] = local[u]
        BY <1>3, <2>1, <2>2, CreateWorks, CommitWorks DEF Works
      <3>. QED  BY <1>3, <1>4, <3>1
    <2>3. CASE u = t /\ CommitStep(t)
      BY <1>3, <2>3 DEF CommitStep, PutData, Touch, TouchPut, Goto, Finish, ControlOK, TypeOK
    <2>4. CASE u = t /\ Incr(t)
      <3>1. local[t] \in Locals
        BY <1>3, <2>4 DEF ControlOK, TypeOK
      <3>2. local'[t].id = nextId + 1
        BY <1>3, <2>4, <3>1 DEF Incr, Locals, ControlOK, TypeOK
      <3>. QED  BY <1>1, <1>2, <2>4, <3>2
    <2>5. CASE u = t /\ CreateStep(t) /\ ~Incr(t)
      <3>1. ~MountEmpty(t) /\ ~MountReset(t)
        <4>1. pc[t] # "empty" /\ pc[t] # "reset"
          <5>1. local[t].op # "mount"
            <6>1. None # "mount"
              BY NamespaceAssumption DEF Ops
            <6>. QED  BY <6>1 DEF OnlyMaking, Creates
          <5>. QED  BY <5>1 DEF IsolatedOK, DoingOK, BearingsOf
        <4>. QED  BY <4>1 DEF MountEmpty, MountReset
      <3>2. ~Finish(t)
        BY <1>3, <2>5 DEF Finish, ControlOK, TypeOK
      <3>3. pc[t] \in marked /\ local' = local
        <4>1. pc[t] # "incrput" /\ pc[t] # "look" /\ ~IncrLost(t)
          BY DEF IsolatedOK, DoingOK, BearingsOf, IncrLost
        <4>. QED  BY <1>3, <2>5, <3>1, <3>2, <4>1
                  DEF CreateStep, Exists, IncrAgain, IncrPut, MountLook, ZAdd, PutHash, PutLink,
                      PutPathToId, PutIdToPath, Goto, ControlOK, TypeOK
      <3>. QED  BY <1>4, <2>5, <3>3
    <2>. QED  BY <2>1, <2>2, <2>3, <2>4, <2>5
  <1>7. \A t \in Tasks : ~Fault(t)
    BY DEF Fault, Spend, Budgets, ControlOK, TypeOK
  <1>8. ~Restart
    BY DEF Restart, Refused, Spend, Budgets, ControlOK, TypeOK
  <1>. QED  BY <1>5, <1>6, <1>7, <1>8 DEF Next

\* The directory of a path that nothing has disturbed.
LEMMA PlaceIs ==
  ASSUME ControlOK, IsolatedOK, CalmOK, ListingOK, TruthOK, NEW p \in calm, p # <<>>,
         pathToId[p] # None
  PROVE  /\ p \in Paths /\ Parent(p) \in Paths /\ p \in ChildrenIn(Parent(p))
         /\ pathToId[p] \in Ids
         /\ lister.pc \in {"members", "ids", "entries"} =>
              (lister.path = Parent(p) <=> pathToId[Parent(p)] = lister.id)
  <1>1. p \in Firm /\ p \in Paths /\ Sound(p) /\ Parent(p) \in Firm
    BY CalmIsFirm, FirmIs DEF ListingOK
  <1>2. p \in nodes /\ pathToId[p] \in Ids
    BY <1>1 DEF Sound, Whole, ControlOK, TypeOK
  <1>. QED  BY <1>1, <1>2, FirmIs DEF ListingOK, ChildrenIn, TruthOK, PlaceOK

\* The steps of a page make nothing, and leave the names where they stand.
LEMMA SameNames ==
  ASSUME UNCHANGED vars
  PROVE  /\ \A t \in Makers' : t \in Makers /\ local'[t] = local[t]
         /\ \A q, j, d : Stands(q, j, d)' <=> Stands(q, j, d)
  <1>1. pc' = pc /\ local' = local /\ nodes' = nodes /\ pathToId' = pathToId
    BY DEF vars, store, index
  <1>2. \A t \in Makers' : t \in Makers /\ local'[t] = local[t]
    BY <1>1 DEF Makers
  <1>. QED  BY <1>1, <1>2 DEF Stands

LEMMA MakersId ==
  ASSUME ControlOK, IsolatedOK, OnlyMaking, NEW t \in Makers
  PROVE  local[t].id \in Ids
  <1>1. t \in Tasks /\ pc[t] \in CreateLabels \ {"look", "exists", "incr", "empty"}
    BY DEF Makers
  <1>2. pc[t] # "reset"
    <2>1. None # "mount"
      BY NamespaceAssumption DEF Ops
    <2>. QED  BY <1>1, <2>1 DEF OnlyMaking, Creates, IsolatedOK, DoingOK, BearingsOf
  <1>. QED  BY <1>1, <1>2 DEF ControlOK, ControlOf, IdLabels

LEMMA OlderGathers ==
  ASSUME ControlOK, IsolatedOK, CalmOK, ListingOK, TruthOK, UNCHANGED vars,
         ReadPath \/ Members \/ MemberId, lister'.pc # "idle",
         NEW p \in calm, p # <<>>, NEW n \in Ids, pathToId[p] = n, Safe(p), OlderOf(p, n)
  PROVE  OlderOf(p, n)'
  <1>d. PICK d : d = Parent(p)
    OBVIOUS
  <1>0. /\ d \in Paths /\ p \in ChildrenIn(d)
        /\ lister.pc \in {"members", "ids", "entries"} => lister.path = d
    BY <1>d, PlaceIs DEF Safe
  <1>1. CASE ReadPath
    <2>1. lister' = [lister EXCEPT !.pc = "members", !.path = idToPath[lister.id],
                                   !.ids = {}, !.page = <<>>]
      BY <1>1 DEF ReadPath, Closed
    <2>2. /\ lister'.pc = "members"
          /\ lister'.listed = lister.listed /\ lister'.after = lister.after
      BY <2>1 DEF ListingOK, Listings
    <2>. QED  BY <2>2, SameNames DEF OlderOf
  <1>2. CASE Members
    <2>1. lister' = [lister EXCEPT !.pc = "ids", !.todo = ChildrenIn(d)]
      BY <1>2, <1>0 DEF Members, ChildrenIn
    <2>2. /\ lister'.pc = "ids" /\ lister'.ids = {} /\ lister'.todo = ChildrenIn(d)
          /\ lister'.listed = lister.listed /\ lister'.after = lister.after
      BY <1>2, <2>1 DEF Members, ListingOK, Listings, TruthOK, MembersOK
    <2>. QED  BY <1>0, <1>d, <2>2, SameNames, SameIds DEF OlderOf
  <1>3. CASE MemberId
    <2>1. PICK q \in lister.todo :
            lister' = [lister EXCEPT !.todo = @ \ {q}, !.ids = @ \cup {pathToId[q]}]
      <3>1. PICK q \in lister.todo :
              lister' = IF pathToId[q] = None THEN Closed
                        ELSE [lister EXCEPT !.todo = @ \ {q}, !.ids = @ \cup {pathToId[q]}]
        BY <1>3 DEF MemberId
      <3>2. Closed.pc = "idle"
        BY DEF Closed
      <3>. QED  BY <3>1, <3>2
    <2>2. /\ lister.pc = "ids" /\ lister'.pc = "ids"
          /\ lister'.ids = lister.ids \cup {pathToId[q]} /\ lister'.todo = lister.todo \ {q}
          /\ lister'.listed = lister.listed /\ lister'.after = lister.after
      BY <1>3, <2>1 DEF MemberId, ListingOK, Listings
    <2>3. /\ lister.todo \subseteq ChildrenIn(d) /\ (p \in lister.todo \/ n \in lister.ids)
          /\ \A j \in lister.ids : j <= n => \E r \in Paths : Stands(r, j, d)
      BY <1>d, <2>2 DEF OlderOf
    <2>4. q \in Paths /\ Stands(q, pathToId[q], d)
      BY <2>3 DEF ChildrenIn, Stands, ControlOK, TypeOK
    <2>5. /\ lister'.todo \subseteq ChildrenIn(d) /\ (p \in lister'.todo \/ n \in lister'.ids)
          /\ \A j \in lister'.ids : j <= n => \E r \in Paths : Stands(r, j, d)
      BY <2>2, <2>3, <2>4
    <2>. QED  BY <1>d, <2>2, <2>5, SameNames, SameIds DEF OlderOf
  <1>. QED  BY <1>1, <1>2, <1>3

LEMMA OlderTakes ==
  ASSUME ControlOK, IsolatedOK, CalmOK, ListingOK, TruthOK, UNCHANGED vars, TakePage,
         NEW p \in calm, p # <<>>, NEW n \in Ids, pathToId[p] = n, Safe(p), OlderOf(p, n)
  PROVE  OlderOf(p, n)'
  <1>0. lister.pc = "ids" /\ lister.todo = {}
    BY DEF TakePage
  <1>. DEFINE page == [i \in Chosen |-> Unread]
  <1>1. lister' = [lister EXCEPT !.pc = "entries", !.ids = {}, !.page = page]
    BY DEF TakePage
  <1>2. /\ lister'.pc = "entries" /\ lister'.page = page /\ lister'.max = lister.max
        /\ lister'.listed = lister.listed /\ lister'.after = lister.after
    BY <1>1 DEF ListingOK, Listings
  <1>3. DOMAIN page = Chosen /\ \A i \in Chosen : page[i].at = "path"
    BY DEF Unread
  <1>. HIDE DEF page
  <1>4. Chosen = FirstOf(lister.ids, lister.after, lister.max)
    BY DEF Chosen, FirstOf
  <1>5. lister.ids \in SUBSET Ids /\ lister.after \in Nat /\ lister.max \in Nat
    BY DEF ListingOK, Listings
  <1>6. /\ Chosen \subseteq lister.ids
        /\ \A i \in lister.ids \ Chosen : i > lister.after =>
             Cardinality(Chosen) >= lister.max /\ \A j \in Chosen : j < i
    BY <1>4, <1>5, FirstIs
  <1>7. /\ n \in lister.ids
        /\ \A j \in lister.ids : j <= n => \E q \in Paths : Stands(q, j, Parent(p))
    BY <1>0 DEF OlderOf
  <1>. QED  BY <1>2, <1>3, <1>6, <1>7, SameNames DEF OlderOf

LEMMA OlderEntries ==
  ASSUME ControlOK, IsolatedOK, OpsOK, OnlyMaking, CalmOK, ListingOK, TruthOK, UNCHANGED vars,
         NEW i \in DOMAIN lister.page, EntryPathOf(i) \/ EntryHash(i) \/ EntryName(i),
         NEW p \in calm, p # <<>>, NEW n \in Ids, pathToId[p] = n, Safe(p), OlderOf(p, n)
  PROVE  OlderOf(p, n)'
  <1>d. PICK d : d = Parent(p)
    OBVIOUS
  <1>0. d \in Paths /\ Tidy(d) /\ lister.pc = "entries" /\ i \in Ids
    BY <1>d, PlaceIs DEF Safe, EntryPathOf, EntryHash, EntryName, EntryAt, ListingOK
  <1>. DEFINE old == lister.page[i]
              good(r) == r.at # "dropped" /\ (r.at = "hash" => Stands(r.path, i, d))
  <1>1. ASSUME n > lister.after, i <= n
        PROVE  /\ \E q \in Paths : Stands(q, i, d) /\ idToPath[i] = q
               /\ old.at = "hash" => Keyed(old.path)
    <2>1. PICK q \in Paths : Stands(q, i, d)
      BY <1>d, <1>0, <1>1 DEF OlderOf
    <2>2. \A t \in Makers : i < local[t].id
      <3>1. ASSUME NEW t \in Makers
            PROVE  i < local[t].id
        <4>1. local[t].id \in Ids /\ n < local[t].id
          BY MakersId DEF OlderOf
        <4>. QED  BY <1>0, <1>1, <4>1, NamespaceAssumption DEF Ids
      <3>. QED  BY <3>1
    <2>3. old.at = "hash" => Stands(old.path, i, d) /\ old.path \in Paths
      BY <1>d, <1>0, <1>1 DEF OlderOf, Stands, ControlOK, TypeOK
    <2>. QED  BY <1>0, <2>1, <2>2, <2>3, OldIsSound DEF Keyed
  <1>b. PICK due : due = IF n > lister.after /\ i <= n THEN 1 ELSE 0
    OBVIOUS
  <1>c. due = 1 => /\ \E q \in Paths : Stands(q, i, d) /\ idToPath[i] = q
                   /\ old.at = "hash" => Keyed(old.path)
    BY <1>1, <1>b
  <1>2. PICK r : /\ lister' = [lister EXCEPT !.page[i] = r]
                 /\ due = 1 => good(r)
    <2>1. old \in Reading
      BY DEF ListingOK, Listings
    <2>2. None \notin Paths
      BY NamespaceAssumption
    <2>. DEFINE h == [old EXCEPT !.at = "hash", !.path = idToPath[i]]
                k == [old EXCEPT !.at = "name", !.path = None, !.type = TypeAt(old.path)]
                m == IF idToPath[i] = <<>> THEN None ELSE idToPath[i][Len(idToPath[i])]
                e == [old EXCEPT !.at = "kept", !.name = m]
                x == [Unread EXCEPT !.at = "dropped"]
    <2>3. h.at = "hash" /\ h.path = idToPath[i] /\ k.at = "name" /\ e.at = "kept"
      BY <2>1 DEF Reading
    <2>4. \/ lister' = [lister EXCEPT !.page[i] = h]
          \/ lister' = [lister EXCEPT !.page[i] = k]
          \/ lister' = [lister EXCEPT !.page[i] = e]
          \/ /\ lister' = [lister EXCEPT !.page[i] = x]
             /\ \/ idToPath[i] = None
                \/ old.at = "hash" /\ ~Keyed(old.path)
      BY DEF EntryPathOf, EntryHash, EntryName, Dropped, EntryAt
    <2>. HIDE DEF h, k, e, x, old
    <2>5. due = 1 => good(h) /\ good(k) /\ good(e)
      BY <1>c, <2>3
    <2>6. CASE lister' = [lister EXCEPT !.page[i] = h] \/ lister' = [lister EXCEPT !.page[i] = k]
                \/ lister' = [lister EXCEPT !.page[i] = e]
      <3>. HIDE DEF good
      <3>. QED  BY <2>5, <2>6
    <2>7. CASE /\ lister' = [lister EXCEPT !.page[i] = x]
               /\ \/ idToPath[i] = None
                  \/ old.at = "hash" /\ ~Keyed(old.path)
      <3>1. due # 1
        BY <1>c, <2>2, <2>7
      <3>. QED  BY <2>7, <3>1
    <2>. QED  BY <2>4, <2>6, <2>7
  <1>3. /\ lister'.pc = "entries" /\ DOMAIN lister'.page = DOMAIN lister.page
        /\ \A j \in DOMAIN lister.page : lister'.page[j] = IF j = i THEN r ELSE lister.page[j]
        /\ lister'.listed = lister.listed
        /\ lister'.after = lister.after /\ lister'.max = lister.max
    BY <1>0, <1>2 DEF ListingOK, Listings
  <1>. HIDE DEF old
  <1>a. n > lister.after =>
          /\ \/ n \in DOMAIN lister.page
             \/ /\ Cardinality(DOMAIN lister.page) >= lister.max
                /\ \A j \in DOMAIN lister.page : j < n
          /\ \A j \in DOMAIN lister.page : j <= n =>
               /\ lister.page[j].at # "dropped"
               /\ \E q \in Paths : Stands(q, j, d)
               /\ lister.page[j].at = "hash" => Stands(lister.page[j].path, j, d)
    BY <1>0, <1>d DEF OlderOf
  <1>4. ASSUME n > lister.after, NEW j \in DOMAIN lister.page, j <= n
        PROVE  /\ lister'.page[j].at # "dropped"
               /\ \E q \in Paths : Stands(q, j, d)
               /\ lister'.page[j].at = "hash" => Stands(lister'.page[j].path, j, d)
    <2>1. CASE j = i
      BY <1>b, <1>c, <1>2, <1>3, <1>4, <2>1
    <2>2. CASE j # i
      BY <1>a, <1>3, <1>4, <2>2
    <2>. QED  BY <2>1, <2>2
  <1>. HIDE DEF good
  <1>6. /\ \A t \in Makers' : n < local'[t].id
        /\ n <= lister'.after => \E f \in lister'.listed : f.id = n
    <2>1. /\ \A t \in Makers : n < local[t].id
          /\ n <= lister.after => \E f \in lister.listed : f.id = n
      BY DEF OlderOf
    <2>. QED  BY <1>3, <2>1, SameNames
  <1>7. \A q, j : Stands(q, j, d)' <=> Stands(q, j, d)
    BY SameNames
  <1>8. n > lister'.after =>
          /\ \/ n \in DOMAIN lister'.page
             \/ /\ Cardinality(DOMAIN lister'.page) >= lister'.max
                /\ \A j \in DOMAIN lister'.page : j < n
          /\ \A j \in DOMAIN lister'.page : j <= n =>
               /\ lister'.page[j].at # "dropped"
               /\ \E q \in Paths : Stands(q, j, d)
               /\ lister'.page[j].at = "hash" => Stands(lister'.page[j].path, j, d)
    BY <1>3, <1>4, <1>a
  <1>. QED  BY <1>d, <1>3, <1>6, <1>7, <1>8 DEF OlderOf

LEMMA OlderGoesOn ==
  ASSUME ListingOK, UNCHANGED vars, PageIsRead, NEW sent \in SUBSET PageEntries, GoOn(sent),
         \A f \in PageEntries, g \in sent : f.id <= g.id => f \in sent,
         NEW p, NEW n \in Ids, OlderOf(p, n)
  PROVE  OlderOf(p, n)'
  <1>0. lister.pc = "entries"
    BY DEF PageIsRead
  <1>1. PICK last \in {lister.after} \cup {e.id : e \in sent} :
          /\ \A e \in sent : e.id <= last
          /\ lister' = [lister EXCEPT !.pc = "open", !.path = None, !.page = <<>>,
                                      !.listed = @ \cup sent, !.after = last]
    BY DEF GoOn
  <1>2. /\ lister'.pc = "open" /\ lister'.listed = lister.listed \cup sent
        /\ lister'.after = last
    BY <1>1 DEF ListingOK, Listings
  <1>3. PICK after, D : after = lister.after /\ D = DOMAIN lister.page
    OBVIOUS
  <1>4. after \in Nat /\ n \in Nat /\ D \subseteq Nat
    BY <1>3, NamespaceAssumption DEF ListingOK, Listings, Ids
  <1>5. /\ n <= after => \E e \in lister.listed : e.id = n
        /\ n > after => (n \in D /\ lister.page[n].at # "dropped") \/ \A j \in D : j < n
    <2>1. n <= n
      BY <1>4
    <2>. QED  BY <1>0, <1>3, <2>1 DEF OlderOf
  <1>6. ASSUME n <= last
        PROVE  \E e \in lister'.listed : e.id = n
    <2>1. CASE n <= after
      BY <1>2, <1>5, <2>1
    <2>2. CASE ~(n <= after)
      <3>1. n > after /\ last # after
        BY <1>4, <1>6, <2>2
      <3>2. PICK g \in sent : g.id = last
        BY <1>1, <1>3, <3>1
      <3>3. last \in D
        BY <1>3, <3>2 DEF PageEntries
      <3>4. ~(last < n)
        BY <1>4, <1>6, <3>3
      <3>5. n \in D /\ lister.page[n].at # "dropped"
        BY <1>5, <3>1, <3>3, <3>4
      <3>6. PICK f \in PageEntries : f.id = n
        <4>. DEFINE f == [id |-> n, name |-> lister.page[n].name, type |-> lister.page[n].type]
        <4>1. n \in {j \in DOMAIN lister.page : lister.page[j].at = "kept"}
          BY <1>3, <3>5 DEF PageIsRead
        <4>2. f \in PageEntries
          BY <4>1 DEF PageEntries
        <4>. QED  BY <4>2
      <3>7. f \in sent
        BY <1>6, <3>2, <3>6
      <3>. QED  BY <1>2, <3>6, <3>7
    <2>. QED  BY <2>1, <2>2
  <1>7. \A t \in Makers' : n < local'[t].id
    BY SameNames DEF OlderOf
  <1>. QED  BY <1>2, <1>6, <1>7 DEF OlderOf

LEMMA OlderReads ==
  ASSUME ControlOK, IsolatedOK, OpsOK, OnlyMaking, CalmOK, ListingOK, TruthOK, UNCHANGED vars,
         ReadPage, lister'.pc # "idle",
         NEW p \in calm, p # <<>>, NEW n \in Ids, pathToId[p] = n, Safe(p), OlderOf(p, n)
  PROVE  OlderOf(p, n)'
  <1>1. CASE Reply
    <2>1. PageIsRead /\ GoOn(PageEntries)
      BY <1>1 DEF Reply, Closed
    <2>. QED  BY <2>1, OlderGoesOn
  <1>2. CASE ReplyCut
    <2>1. PICK e \in PageEntries : GoOn({f \in PageEntries : f.id < e.id})
      BY <1>2 DEF ReplyCut
    <2>. DEFINE sent == {f \in PageEntries : f.id < e.id}
    <2>2. \A f \in PageEntries : f.id \in Nat
      BY NamespaceAssumption DEF PageEntries, ListingOK, Ids
    <2>3. \A f \in PageEntries, g \in sent : f.id <= g.id => f \in sent
      BY <2>2
    <2>4. PageIsRead /\ sent \in SUBSET PageEntries /\ GoOn(sent)
      BY <1>2, <2>1 DEF ReplyCut
    <2>. HIDE DEF sent
    <2>. QED  BY <2>3, <2>4, OlderGoesOn
  <1>. QED  BY <1>1, <1>2, OlderGathers, OlderTakes, OlderEntries DEF ReadPage

\* What makes a path safe does not come to be so later.
LEMMA OlderBeside ==
  ASSUME Redis = TRUE, ControlOK, IsolatedOK, OpsOK, OnlyMaking, CalmOK, ListingOK, TruthOK,
         ListingNext,
         Next, ~Refused, ~(used'["fault"] > used["fault"]), lister' = lister, lister.pc # "idle",
         making' = making, NEW p \in calm', p # <<>>, Safe(p)',
         ASSUME Safe(p) PROVE OlderOf(p, pathToId[p])
  PROVE  OlderOf(p, pathToId[p])'
  <1>1. p \in calm /\ p \in Paths /\ Kept(p) /\ Kept(Parent(p))
    <2>1. calm' \subseteq calm
      BY WatchIs
    <2>2. p \in calm /\ p \in Firm' /\ p \in Paths
      BY <2>1, PrefixRefl DEF Firm, ListingOK
    <2>3. Prefix(Parent(p), p) /\ Parent(p) \in Paths
      BY <2>2, ParentIs
    <2>4. Parent(p) \in Firm'
      BY <2>3 DEF Firm
    <2>5. calm \subseteq Paths
      BY DEF ListingOK
    <2>. QED  BY <2>2, <2>4, <2>5, FirmStays
  <1>2. PICK n, d : n = pathToId[p] /\ d = Parent(p)
    OBVIOUS
  <1>3. pathToId'[p] = n /\ pathToId'[d] = pathToId[d]
    BY <1>1, <1>2 DEF Kept
  <1>4. Safe(p)
    BY <1>2, <1>3, TaintStays DEF Safe, Tidy
  <1>5. /\ OlderOf(p, n) /\ Tidy(d)
        /\ d \in Paths /\ n \in Ids /\ p \in ChildrenIn(d) /\ Intact(<<>>)
    BY <1>1, <1>2, <1>4, PlaceIs, TidyIntact DEF Safe
  <1>6. \A u \in Makers' : n < local'[u].id
    <2>1. \A t \in Makers : n < local[t].id
      BY <1>5 DEF OlderOf
    <2>. QED  BY <1>1, <1>2, <1>5, <2>1, MakersNewer
  <1>7. nodes \subseteq nodes' /\ \A j \in Ids, q \in Paths : Stands(q, j, d) => Stands(q, j, d)'
    <2>1. Stands(p, n, d)
      BY <1>2, <1>5 DEF Stands, ChildrenIn
    <2>. QED  BY <1>1, <1>5, <2>1, NameStays
  <1>8. ChildrenIn(d) \subseteq ChildrenIn(d)'
    BY <1>7 DEF ChildrenIn
  <1>9. lister.ids \subseteq Ids /\ DOMAIN lister.page \subseteq Ids
    BY DEF ListingOK, Listings
  <1>10. /\ n <= lister.after => \E e \in lister.listed : e.id = n
         /\ lister.pc = "ids" =>
              /\ lister.todo \subseteq ChildrenIn(d)
              /\ p \in lister.todo \/ n \in lister.ids
              /\ \A j \in lister.ids : j <= n => \E q \in Paths : Stands(q, j, d)
         /\ lister.pc = "entries" /\ n > lister.after =>
              /\ \/ n \in DOMAIN lister.page
                 \/ /\ Cardinality(DOMAIN lister.page) >= lister.max
                    /\ \A j \in DOMAIN lister.page : j < n
              /\ \A j \in DOMAIN lister.page : j <= n =>
                   /\ lister.page[j].at # "dropped"
                   /\ \E q \in Paths : Stands(q, j, d)
                   /\ lister.page[j].at = "hash" => Stands(lister.page[j].path, j, d)
    BY <1>2, <1>5 DEF OlderOf
  <1>11. lister.pc = "ids" =>
           /\ lister.todo \subseteq ChildrenIn(d)'
           /\ \A j \in lister.ids : j <= n => \E q \in Paths : Stands(q, j, d)'
    BY <1>7, <1>8, <1>9, <1>10
  <1>12. lister.pc = "entries" /\ n > lister.after =>
           \A j \in DOMAIN lister.page : j <= n =>
             /\ \E q \in Paths : Stands(q, j, d)'
             /\ lister.page[j].at = "hash" => Stands(lister.page[j].path, j, d)'
    <2>1. \A q, j : Stands(q, j, d) => q \in Paths
      BY DEF Stands, ControlOK, TypeOK
    <2>. QED  BY <1>7, <1>9, <1>10, <2>1
  <1>. QED  BY <1>2, <1>3, <1>6, <1>10, <1>11, <1>12 DEF OlderOf

LEMMA OlderStarts ==
  ASSUME ControlOK', CalmOK, ListingNext, NEW i \in Ids, NEW m \in PageSizes, Start(i, m),
         NEW p \in calm', Safe(p)'
  PROVE  OlderOf(p, pathToId[p])'
  <1>1. lister' = [Closed EXCEPT !.pc = "open", !.id = i, !.max = m] /\ ~begun
    BY DEF Start
  <1>2. lister'.pc = "open" /\ lister'.after = 0
    BY <1>1 DEF Closed
  <1>3. lister.pc = "idle"
    BY <1>1 DEF CalmOK
  <1>4. p \in Paths /\ making' = {local[t].id : t \in Makers}'
    BY <1>2, <1>3, WatchIs
  <1>5. PICK n \in Ids : n = pathToId'[p]
    BY <1>4 DEF Safe, ControlOK, TypeOK
  <1>6. \A t \in Makers' : n < local'[t].id
    BY <1>4, <1>5 DEF Safe
  <1>7. ~(n <= 0)
    BY NamespaceAssumption DEF Ids
  <1>. QED  BY <1>2, <1>5, <1>6, <1>7 DEF OlderOf

LEMMA ReadPageId ==
  ASSUME ListingOK, ReadPage, lister'.pc # "idle"
  PROVE  lister'.id = lister.id /\ lister.pc # "idle"
  <1>1. CASE ReadPath
    <2>1. lister' = [lister EXCEPT !.pc = "members", !.path = idToPath[lister.id],
                                   !.ids = {}, !.page = <<>>]
      BY <1>1 DEF ReadPath, Closed
    <2>. QED  BY <1>1, <2>1 DEF ReadPath, ListingOK, Listings
  <1>2. CASE Members \/ TakePage
    BY <1>2 DEF Members, TakePage, ListingOK, Listings
  <1>3. CASE MemberId
    <2>1. PICK q \in lister.todo :
            lister' = IF pathToId[q] = None THEN Closed
                      ELSE [lister EXCEPT !.todo = @ \ {q}, !.ids = @ \cup {pathToId[q]}]
      BY <1>3 DEF MemberId
    <2>2. Closed.pc = "idle"
      BY DEF Closed
    <2>. QED  BY <1>3, <2>1, <2>2 DEF MemberId, ListingOK, Listings
  <1>4. ASSUME NEW i \in DOMAIN lister.page, EntryPathOf(i) \/ EntryHash(i) \/ EntryName(i)
        PROVE  lister'.id = lister.id /\ lister.pc # "idle"
    BY <1>4 DEF EntryPathOf, EntryHash, EntryName, EntryAt, Dropped, ListingOK, Listings
  <1>5. CASE Reply \/ ReplyCut
    <2>1. PageIsRead /\ \E sent : GoOn(sent)
      <3>1. CASE Reply
        BY <3>1 DEF Reply, Closed
      <3>2. CASE ReplyCut
        BY <3>2 DEF ReplyCut
      <3>. QED  BY <1>5, <3>1, <3>2
    <2>. QED  BY <2>1 DEF GoOn, PageIsRead, ListingOK, Listings
  <1>. QED  BY <1>1, <1>2, <1>3, <1>4, <1>5 DEF ReadPage

LEMMA NextOlder ==
  ASSUME Redis = TRUE, ControlOK, IsolatedOK, ControlOK', OpsOK, CalmOK, ListingOK, TruthOK,
         OlderOK,
         ListingNext
  PROVE  OlderOK'
  <1>1. SUFFICES ASSUME lister'.pc # "idle", overlap' \subseteq Creates \cup {"commit"},
                        NEW p \in calm' \ {<<>>}, Safe(p)'
                 PROVE  OlderOf(p, pathToId[p])'
    BY WatchIs DEF OlderOK
  <1>2. "fault" \notin overlap'
    BY <1>1 DEF Creates
  <1>3. ASSUME lister.pc # "idle"
        PROVE  OnlyMaking /\ p \in calm /\ making' = making
               /\ (Safe(p) => OlderOf(p, pathToId[p]))
    <2>1. overlap \subseteq overlap' /\ calm' \subseteq calm /\ making' = making
      BY <1>1, <1>3, WatchIs
    <2>. QED  BY <1>1, <1>3, <2>1 DEF OlderOK, OnlyMaking
  <1>4. CASE Next /\ ~Refused /\ lister' = lister
    <2>1. ~(used'["fault"] > used["fault"])
      BY <1>1, <1>2, WatchIs
    <2>. QED  BY <1>1, <1>3, <1>4, <2>1, OlderBeside
  <1>5. lister' # Closed
    BY <1>1 DEF Closed
  <1>6. CASE UNCHANGED vars /\ \E i \in Ids : \E m \in PageSizes : Start(i, m)
    BY <1>1, <1>6, OlderStarts
  <1>7. CASE UNCHANGED vars /\ ReadPage
    <2>1. lister'.id = lister.id /\ lister.pc # "idle"
      BY <1>1, <1>7, ReadPageId
    <2>2. /\ pathToId' = pathToId /\ Tidy(Parent(p))' = Tidy(Parent(p))
      BY <1>7 DEF vars, store, index, history, Tidy
    <2>3. Safe(p)
      BY <1>1, <1>3, <2>1, <2>2 DEF Safe
    <2>4. pathToId[p] \in Ids
      BY <1>3, <2>1, <2>3 DEF Safe, ListingOK, ControlOK, TypeOK
    <2>. QED  BY <1>1, <1>3, <1>7, <2>1, <2>2, <2>3, <2>4, OlderReads
  <1>8. ~Watch(TRUE)
    BY <1>1, <1>2, FailShows
  <1>. QED  BY <1>4, <1>5, <1>6, <1>7, <1>8, ListingSteps

\* What a listing beside creates and commits has told when it ends.
LEMMA OlderEnds ==
  ASSUME ControlOK, IsolatedOK, CalmOK, ListingOK, TruthOK, OlderOK
  PROVE  CreatesHideNothing
  <1>. SUFFICES ASSUME AtEof, overlap \subseteq Creates \cup {"commit"}, Tidy(lister.path),
                       NEW p \in ChildrenIn(lister.path) \cap calm,
                       \A i \in making : pathToId[p] < i
                PROVE  EntryOf(p) \in Result
    BY DEF CreatesHideNothing
  <1>0. PageIsRead /\ Eof /\ lister.pc = "entries" /\ p # <<>> /\ Parent(p) = lister.path
    BY DEF AtEof, PageIsRead, ChildrenIn
  <1>1. PICK n : n = pathToId[p]
    OBVIOUS
  <1>2. p \in Paths /\ n \in Ids /\ pathToId[Parent(p)] = lister.id
    <2>1. p \in Firm /\ p \in Paths /\ Sound(p)
      BY CalmIsFirm, FirmIs DEF ListingOK
    <2>2. pathToId[p] # None
      BY <2>1 DEF ChildrenIn, Sound, Whole
    <2>. QED  BY <1>0, <1>1, <2>1, <2>2, PlaceIs
  <1>3. OlderOf(p, n)
    <2>1. Safe(p)
      BY <1>0, <1>1, <1>2, NamespaceAssumption DEF Safe, Ids
    <2>. QED  BY <1>0, <1>1, <2>1 DEF OlderOK
  <1>4. PICK D, after, max :
          D = DOMAIN lister.page /\ after = lister.after /\ max = lister.max
    OBVIOUS
  <1>5. D \in SUBSET Ids /\ after \in Nat /\ max \in Nat /\ n \in Nat
    BY <1>2, <1>4, NamespaceAssumption DEF ListingOK, Listings, Ids
  <1>6. /\ n <= after => \E e \in lister.listed : e.id = n
        /\ n > after =>
             /\ n \in D => lister.page[n].at # "dropped"
             /\ n \notin D => Cardinality(D) >= max
             /\ n \notin D => \A j \in D : j < n
             /\ \A j \in D : j <= n => lister.page[j].at # "dropped"
    <2>1. n <= n
      BY <1>5
    <2>. QED  BY <1>0, <1>3, <1>4, <2>1 DEF OlderOf
  <1>7. \E e \in Result : e.id = n
    <2>1. CASE n <= after
      BY <1>6, <2>1 DEF Result
    <2>2. CASE n > after /\ n \in D
      <3>. DEFINE f == [id |-> n, name |-> lister.page[n].name, type |-> lister.page[n].type]
      <3>1. n \in {j \in DOMAIN lister.page : lister.page[j].at = "kept"}
        BY <1>0, <1>4, <1>6, <2>2 DEF PageIsRead
      <3>2. f \in PageEntries
        BY <3>1 DEF PageEntries
      <3>. QED  BY <3>2 DEF Result
    <2>3. CASE n > after /\ n \notin D
      <3>1. Cardinality(D) >= max /\ \A j \in D : j < n /\ lister.page[j].at # "dropped"
        <4>1. Cardinality(D) >= max /\ \A j \in D : j < n
          BY <1>6, <2>3
        <4>2. \A j \in D : j \in Nat
          BY <1>5, NamespaceAssumption DEF Ids
        <4>3. \A j \in D : j < n => j <= n
          BY <1>5, <4>2
        <4>. QED  BY <1>6, <2>3, <4>1, <4>3
      <3>2. Cardinality(PageEntries) = Cardinality(D)
        BY <1>0, <1>4, <3>1, PageHas
      <3>3. Cardinality(D) \in Nat
        <4>1. MaxId \in Int /\ 1 \in Int
          BY NamespaceAssumption
        <4>. QED  BY <1>5, <4>1, FS_Interval, FS_Subset, FS_CardinalityType DEF Ids
      <3>4. Cardinality(D) < max
        BY <1>0, <1>4, <3>2 DEF Eof
      <3>. QED  BY <1>5, <3>1, <3>3, <3>4
    <2>4. n <= after \/ n > after
      BY <1>5
    <2>. QED  BY <2>1, <2>2, <2>3, <2>4
  <1>. QED  BY <1>0, <1>1, <1>7, TrueEntries DEF EntriesAreTrue

LEMMA OlderHolds ==
  ASSUME Redis = TRUE, WildRenames = FALSE
  PROVE  ListingSpec => []OlderOK
  <1>. DEFINE I == ControlOK /\ IsolatedOK /\ ListingOK /\ CalmOK /\ TruthOK
  <1>1. ListingInit => OlderOK
    BY DEF ListingInit, Closed, OlderOK
  <1>2. ASSUME I, I', OpsOK, OlderOK, [ListingNext]_<<vars, listing>>
        PROVE  OlderOK'
    <2>1. CASE ListingNext
      BY <1>2, <2>1, NextOlder
    <2>2. CASE UNCHANGED <<vars, listing>>
      <3>1. UNCHANGED vars /\ UNCHANGED listing
        BY <2>2
      <3>2. \A p, n : OlderOf(p, n)' = OlderOf(p, n)
        BY <3>1 DEF OlderOf, Stands, Makers, ChildrenIn, vars, store, index, listing
      <3>3. \A p : Safe(p)' = Safe(p)
        BY <3>1 DEF Safe, Tidy, vars, store, index, history, listing
      <3>4. local' = local /\ lister' = lister /\ overlap' = overlap /\ calm' = calm
            /\ pathToId' = pathToId
        BY <3>1 DEF vars, store, index, listing
      <3>5. \A p : OlderOf(p, pathToId[p])' = OlderOf(p, pathToId[p])
        BY <3>2, <3>4
      <3>. HIDE DEF I
      <3>. QED  BY <1>2, <3>3, <3>4, <3>5 DEF OlderOK
    <2>. QED  BY <1>2, <2>1, <2>2
  <1>3. ListingSpec => []I
    BY TruthAlways
  <1>4. ListingSpec => []OpsOK
    BY LoneHolds, PTL
  <1>. QED  BY <1>1, <1>2, <1>3, <1>4, PTL DEF ListingSpec

\* However many files are made or written while a directory is listed, a name that was
\* there all along is not missing when the listing ends, but where it is newer than a
\* file that was being made when the listing began (readdir, whose pages go by the ids
\* and leave out what has no path yet; create, which sets the path of an id last).
THEOREM CreatesAlways ==
  ASSUME Redis = TRUE, WildRenames = FALSE
  PROVE  ListingSpec => []CreatesHideNothing
  BY TruthAlways, OlderHolds, OlderEnds, PTL
=============================================================================
