--------------------------- MODULE NamespaceProofs ---------------------------
(***************************************************************************)
(* Theorems about Namespace, for every set of names, paths and tasks and   *)
(* every bound: the variables keep their types and a task its bearings,    *)
(* and over Redis no id is issued twice once the directory is mounted.     *)
(***************************************************************************)
EXTENDS NamespaceInvariant, SequenceTheorems, TLAPS

-----------------------------------------------------------------------------
(***************************************************************************)
(* The types and the control.                                              *)
(***************************************************************************)
StoreType ==
  /\ nodes \subseteq Paths /\ links \subseteq Paths
  /\ meta \in [Paths -> Hash \cup {None}]
  /\ data \in [Paths -> Ids \cup {None}]
  /\ pathToId \in [Paths -> Ids \cup {None}]
  /\ idToPath \in [Ids -> Paths \cup {None}]
  /\ nextId \in 0 .. MaxId

HistoryType ==
  /\ used \in [Budgets -> Nat]
  /\ holders \in [Ids -> SUBSET Paths]
  /\ tainted \subseteq Paths

TasksOK ==
  /\ pc \in [Tasks -> Labels]
  /\ local \in [Tasks -> Locals]
  /\ \A t \in Tasks : ControlOf(pc[t], local[t])

LEMMA Parts == ControlOK <=> StoreType /\ HistoryType /\ TasksOK
  BY DEF ControlOK, TypeOK, StoreType, HistoryType, TasksOK

\* A step of one task to label l with local variables r.
LEMMA OneTask ==
  ASSUME TasksOK, NEW t \in Tasks, NEW l \in Labels, NEW r \in Locals, ControlOf(l, r),
         pc' = [pc EXCEPT ![t] = l], local' = [local EXCEPT ![t] = r]
  PROVE  TasksOK'
  <1>1. ASSUME NEW u \in Tasks
        PROVE  ControlOf(pc'[u], local'[u])
    <2>1. CASE u = t
      BY <2>1 DEF TasksOK
    <2>2. CASE u # t
      BY <2>2 DEF TasksOK
    <2>. QED  BY <2>1, <2>2
  <1>. QED  BY <1>1 DEF TasksOK

LEMMA BlankType == Blank \in Locals
  BY DEF Blank, Locals

LEMMA FinishStep ==
  ASSUME TasksOK, NEW t \in Tasks, Finish(t)
  PROVE  TasksOK'
  <1>1. ControlOf("idle", Blank) /\ "idle" \in Labels
    BY DEF ControlOf, Labels, IdLabels, MovingLabels, KeyLabels, NodeLabels, EntryLabels,
           OldEntryLabels
  <1>. QED  BY <1>1, BlankType, OneTask DEF Finish

LEMMA GotoStep ==
  ASSUME TasksOK, NEW t \in Tasks, NEW l \in Labels, Goto(t, l), local' = local,
         ControlOf(l, local[t])
  PROVE  TasksOK'
  <1>1. local' = [local EXCEPT ![t] = local[t]] /\ local[t] \in Locals
    BY DEF TasksOK
  <1>. QED  BY <1>1, OneTask DEF Goto

LEMMA NamedType ==
  ASSUME TasksOK, NEW t \in Tasks
  PROVE  Named(t) \subseteq Paths
  BY DEF Named, TasksOK, Locals

LEMMA ClaimType ==
  ASSUME TasksOK, HistoryType, NEW t \in Tasks, NEW P \in SUBSET Paths, Claim(t, P)
  PROVE  tainted' \subseteq Paths
  <1>1. \A u \in Tasks : Named(u) \subseteq Paths
    BY NamedType
  <1>. QED  BY <1>1 DEF Claim, HistoryType

LEMMA SpendType ==
  ASSUME HistoryType, NEW b \in Budgets, Spend(b)
  PROVE  used' \in [Budgets -> Nat]
  BY DEF HistoryType, Spend

USE DEF Labels, CreateLabels, RemoveLabels, RenameLabels, CommitLabels, IdLabels,
        MovingLabels, KeyLabels, NodeLabels, EntryLabels, OldEntryLabels

\* The local variables of a request that begins.
LEMMA BeginType ==
  ASSUME NEW op \in Ops, NEW p \in Paths
  PROVE  LET r == [Blank EXCEPT !.op = op, !.path = p]
         IN  r \in Locals /\ r.op = op /\ r.path = p
  BY BlankType DEF Locals

LEMMA BeginCommitType ==
  ASSUME NEW p \in Paths, NEW i \in Ids
  PROVE  LET r == [Blank EXCEPT !.op = "commit", !.path = p, !.id = i]
         IN  r \in Locals /\ r.op = "commit" /\ r.path = p /\ r.id = i
  BY BlankType DEF Locals, Ops

LEMMA InitControl == Init => ControlOK
  <1>. SUFFICES ASSUME Init  PROVE ControlOK
    OBVIOUS
  <1>1. 1 \in Ids /\ <<>> \in Paths /\ None \notin Ids
    BY NamespaceAssumption DEF Ids
  <1>2. StoreType
    BY <1>1, NamespaceAssumption DEF Init, StoreType, Hash, Types, Ids
  <1>3. HistoryType
    BY <1>1 DEF Init, HistoryType
  <1>4. TasksOK
    BY BlankType DEF Init, TasksOK, ControlOf
  <1>. QED  BY <1>2, <1>3, <1>4, Parts

LEMMA BeginStep ==
  ASSUME ControlOK, NEW t \in Tasks, NEW op \in Ops, NEW r \in Locals,
         NEW l \in {"exists", "empty", "look", "scan", "source", "put"},
         r.path \in Paths, l = "put" => r.id \in Ids,
         l = "source" => r.dir \in Ids /\ r.name \in Names, Begin(t, op, r, l)
  PROVE  ControlOK'
  <1>. USE Parts
  <1>1. ControlOf(l, r) /\ l \in Labels
    BY DEF ControlOf
  <1>2. TasksOK'
    BY <1>1, OneTask DEF Begin, Goto
  <1>3. {r.path, r.to} \ {None} \in SUBSET Paths
    BY DEF Locals
  <1>4. tainted' \subseteq Paths
    BY <1>3, ClaimType DEF Begin
  <1>5. HistoryType'
    BY <1>4, SpendType DEF Begin, HistoryType, Budgets
  <1>6. StoreType'
    BY DEF Begin, store, hashes, index, StoreType
  <1>. QED  BY <1>2, <1>5, <1>6, Parts DEF StoreType, HistoryType, TasksOK, ControlOK, TypeOK, ControlOf

LEMMA RequestControl ==
  ASSUME ControlOK, NEW t \in Tasks, Request(t)
  PROVE  ControlOK'
  <1>1. ASSUME NEW op \in Creates, NEW p \in Paths, StartCreate(t, op, p)
        PROVE  ControlOK'
    <2>. DEFINE r == [Blank EXCEPT !.op = op, !.path = p]
    <2>1. r \in Locals /\ r.path = p /\ op \in Ops
      BY BeginType DEF Ops
    <2>. QED  BY <1>1, <2>1, BeginStep DEF StartCreate
  <1>2. ASSUME NEW p \in Paths, StartRemove(t, p)
        PROVE  ControlOK'
    <2>. DEFINE r == [Blank EXCEPT !.op = "remove", !.path = p]
    <2>1. r \in Locals /\ r.path = p /\ "remove" \in Ops
      BY BeginType DEF Ops
    <2>. QED  BY <1>2, <2>1, BeginStep DEF StartRemove
  <1>3. ASSUME NEW p \in Paths, NEW i \in Ids, NEW name \in Names, StartRename(t, p, i, name)
        PROVE  ControlOK'
    <2>. DEFINE q == Append(idToPath[i], name)
                r == [Blank EXCEPT !.op = "rename", !.path = p, !.to = q, !.dir = i, !.name = name]
    <2>1. q \in Paths
      BY <1>3 DEF StartRename, Fits
    <2>2. r \in Locals /\ r.path = p /\ r.dir = i /\ r.name = name /\ "rename" \in Ops
      <3>1. "rename" \in Ops
        BY DEF Ops
      <3>2. q \in Paths
        BY <2>1
      <3>. HIDE DEF q
      <3>. QED  BY <3>1, <3>2, BlankType DEF Locals
    <2>. QED  BY <1>3, <2>2, BeginStep DEF StartRename
  <1>4. ASSUME NEW i \in Ids, StartCommit(t, i)
        PROVE  ControlOK'
    <2>. DEFINE p == idToPath[i]
                r == [Blank EXCEPT !.op = "commit", !.path = p, !.id = i]
    <2>1. p \in Paths
      BY <1>4 DEF StartCommit, ControlOK, TypeOK
    <2>2. r \in Locals /\ r.path = p /\ r.id = i /\ "commit" \in Ops
      BY <2>1, BeginCommitType DEF Ops
    <2>. QED  BY <1>4, <2>1, <2>2, BeginStep DEF StartCommit
  <1>5. ASSUME StartMount(t)
        PROVE  ControlOK'
    <2>. DEFINE r == [Blank EXCEPT !.op = "mount", !.path = <<>>]
    <2>1. r \in Locals /\ r.path = <<>> /\ "mount" \in Ops /\ <<>> \in Paths
      BY BeginType, NamespaceAssumption DEF Ops
    <2>. QED  BY <1>5, <2>1, BeginStep DEF StartMount
  <1>. QED  BY <1>1, <1>2, <1>3, <1>4, <1>5 DEF Request

\* Steps that leave the history alone, and move one task to label l.
LEMMA TaskGoes ==
  ASSUME ControlOK, NEW t \in Tasks, NEW l \in Labels, Goto(t, l), local' = local,
         ControlOf(l, local[t]), StoreType', HistoryType'
  PROVE  ControlOK'
  <1>1. TasksOK'
    BY GotoStep, Parts
  <1>. QED  BY <1>1, Parts DEF StoreType, HistoryType, TasksOK, ControlOK, TypeOK, ControlOf

LEMMA TaskEnds ==
  ASSUME ControlOK, NEW t \in Tasks, Finish(t), StoreType', HistoryType'
  PROVE  ControlOK'
  <1>1. TasksOK'
    BY FinishStep, Parts
  <1>. QED  BY <1>1, Parts DEF StoreType, HistoryType, TasksOK, ControlOK, TypeOK, ControlOf

LEMMA TaskMoves ==
  ASSUME ControlOK, NEW t \in Tasks, NEW l \in Labels, NEW r \in Locals, ControlOf(l, r),
         pc' = [pc EXCEPT ![t] = l], local' = [local EXCEPT ![t] = r],
         StoreType', HistoryType'
  PROVE  ControlOK'
  <1>1. TasksOK'
    BY OneTask, Parts
  <1>. QED  BY <1>1, Parts DEF StoreType, HistoryType, TasksOK, ControlOK, TypeOK, ControlOf

USE DEF StoreType, HistoryType, store, hashes, index, history

\* What a task that is at work knows.
LEMMA TaskKnows ==
  ASSUME ControlOK, NEW t \in Tasks, pc[t] # "idle"
  PROVE  /\ StoreType /\ HistoryType
         /\ pc[t] \in Labels /\ local[t] \in Locals /\ ControlOf(pc[t], local[t])
         /\ local[t].path \in Paths
  BY DEF ControlOK, TypeOK, ControlOf

\* The local variables with another value in one of them.
LEMMA LocalsChange ==
  ASSUME NEW r \in Locals
  PROVE  /\ \A i \in Ids \cup {None} : [r EXCEPT !.id = i] \in Locals
         /\ \A p \in Paths \cup {None} : [r EXCEPT !.to = p] \in Locals
         /\ \A T \in SUBSET (Paths \cup (Paths \X Ids)) : [r EXCEPT !.todo = T] \in Locals
         /\ \A c \in Paths \cup (Paths \X Ids) \cup {None} : [r EXCEPT !.cur = c] \in Locals
         /\ \A h \in Hash \cup {None} : [r EXCEPT !.hash = h] \in Locals
         /\ \A K \in SUBSET (Paths \X Kinds) : [r EXCEPT !.keys = K] \in Locals
         /\ \A k \in (Paths \X Kinds) \cup {None} : [r EXCEPT !.key = k] \in Locals
  <1>1. \A i \in Ids \cup {None} : [r EXCEPT !.id = i] \in Locals
    BY DEF Locals
  <1>2. \A p \in Paths \cup {None} : [r EXCEPT !.to = p] \in Locals
    BY DEF Locals
  <1>3. \A T \in SUBSET (Paths \cup (Paths \X Ids)) : [r EXCEPT !.todo = T] \in Locals
    BY DEF Locals
  <1>4. \A c \in Paths \cup (Paths \X Ids) \cup {None} : [r EXCEPT !.cur = c] \in Locals
    BY DEF Locals
  <1>5. \A h \in Hash \cup {None} : [r EXCEPT !.hash = h] \in Locals
    BY DEF Locals
  <1>6. \A K \in SUBSET (Paths \X Kinds) : [r EXCEPT !.keys = K] \in Locals
    BY DEF Locals
  <1>7. \A k \in (Paths \X Kinds) \cup {None} : [r EXCEPT !.key = k] \in Locals
    BY DEF Locals
  <1>. QED  BY <1>1, <1>2, <1>3, <1>4, <1>5, <1>6, <1>7

LEMMA CreateControl ==
  ASSUME ControlOK, NEW t \in Tasks, CreateStep(t)
  PROVE  ControlOK'
  <1>1. ASSUME Exists(t)  PROVE ControlOK'
    <2>1. CASE Finish(t)
      BY <2>1, <1>1, TaskKnows, TaskEnds DEF Exists
    <2>2. CASE Goto(t, "incr") /\ local' = local
      <3>1. ControlOf("incr", local[t])
        BY <1>1, TaskKnows DEF Exists, ControlOf
      <3>. QED  BY <3>1, <2>2, <1>1, TaskKnows, TaskGoes DEF Exists
    <2>. QED  BY <1>1, <2>1, <2>2 DEF Exists
  <1>2. ASSUME Incr(t)  PROVE ControlOK'
    <2>. DEFINE i == nextId + 1
                r == [local[t] EXCEPT !.id = i]
    <2>1. i \in Ids /\ i \in 0 .. MaxId
      BY <1>2, TaskKnows, NamespaceAssumption DEF Incr, Ids
    <2>2. r \in Locals /\ r.path \in Paths /\ r.id \in Ids
      <3>1. local[t] \in Locals /\ local[t].path \in Paths
        BY <1>2, TaskKnows DEF Incr
      <3>2. r \in Locals
        BY <2>1, <3>1, LocalsChange
      <3>. QED  BY <2>1, <3>1, <3>2 DEF Locals
    <2>3. local' = [local EXCEPT ![t] = r]
      BY <1>2 DEF Incr
    <2>4. CASE Goto(t, "zadd") /\ nextId' = i /\ Issue(t, i)
      <3>1. StoreType' /\ HistoryType'
        BY <2>1, <2>4, <1>2, TaskKnows DEF Incr, Issue
      <3>. QED  BY <3>1, <2>2, <2>3, <2>4, TaskMoves DEF Goto, ControlOf
    <2>5. CASE Goto(t, "incrput") /\ UNCHANGED <<nextId, holders>>
      <3>1. StoreType' /\ HistoryType'
        BY <2>5, <1>2, TaskKnows DEF Incr
      <3>. QED  BY <3>1, <2>2, <2>3, <2>5, TaskMoves DEF Goto, ControlOf
    <2>. QED  BY <1>2, <2>4, <2>5 DEF Incr
  <1>3. ASSUME IncrPut(t)  PROVE ControlOK'
    <2>1. local[t].id \in Ids /\ local[t].id \in 0 .. MaxId
      BY <1>3, TaskKnows, NamespaceAssumption DEF IncrPut, ControlOf, Ids
    <2>2. StoreType' /\ HistoryType'
      BY <2>1, <1>3, TaskKnows DEF IncrPut, Issue
    <2>3. ControlOf("zadd", local[t])
      BY <1>3, TaskKnows DEF IncrPut, ControlOf
    <2>. QED  BY <2>2, <2>3, <1>3, TaskGoes DEF IncrPut
  <1>4. ASSUME ZAdd(t)  PROVE ControlOK'
    <2>1. ControlOf("hash", local[t])
      BY <1>4, TaskKnows DEF ZAdd, ControlOf
    <2>2. StoreType' /\ HistoryType'
      BY <1>4, TaskKnows DEF ZAdd
    <2>. QED  BY <2>1, <2>2, <1>4, TaskGoes DEF ZAdd
  <1>5. ASSUME PutHash(t)  PROVE ControlOK'
    <2>1. AfterHash(t) \in Labels /\ ControlOf(AfterHash(t), local[t])
      BY <1>5, TaskKnows DEF PutHash, ControlOf, AfterHash
    <2>2. [type |-> TypeOf(local[t].op), id |-> local[t].id] \in Hash
      BY <1>5, TaskKnows DEF PutHash, ControlOf, Hash, TypeOf, Types
    <2>3. StoreType' /\ HistoryType'
      BY <2>2, <1>5, TaskKnows DEF PutHash
    <2>. QED  BY <2>1, <2>3, <1>5, TaskGoes DEF PutHash
  <1>6. ASSUME PutLink(t)  PROVE ControlOK'
    <2>1. ControlOf("p2i", local[t])
      BY <1>6, TaskKnows DEF PutLink, ControlOf
    <2>2. StoreType' /\ HistoryType'
      BY <1>6, TaskKnows DEF PutLink
    <2>. QED  BY <2>1, <2>2, <1>6, TaskGoes DEF PutLink
  <1>7. ASSUME PutPathToId(t)  PROVE ControlOK'
    <2>1. ControlOf("i2p", local[t])
      BY <1>7, TaskKnows DEF PutPathToId, ControlOf
    <2>2. StoreType' /\ HistoryType'
      BY <1>7, TaskKnows DEF PutPathToId, ControlOf
    <2>. QED  BY <2>1, <2>2, <1>7, TaskGoes DEF PutPathToId
  <1>8. ASSUME PutIdToPath(t)  PROVE ControlOK'
    <2>1. ControlOf("reset", local[t])
      BY <1>8, TaskKnows DEF PutIdToPath, ControlOf
    <2>2. StoreType' /\ HistoryType'
      BY <1>8, TaskKnows DEF PutIdToPath, ControlOf
    <2>. QED  BY <2>1, <2>2, <1>8, TaskGoes, TaskEnds DEF PutIdToPath
  <1>9. ASSUME MountEmpty(t)  PROVE ControlOK'
    <2>. DEFINE r == [local[t] EXCEPT !.id = 1]
    <2>1. 1 \in Ids
      BY NamespaceAssumption DEF Ids
    <2>2. r \in Locals /\ r.path \in Paths /\ r.id \in Ids
      <3>1. local[t] \in Locals /\ local[t].path \in Paths
        BY <1>9, TaskKnows DEF MountEmpty
      <3>2. r \in Locals
        BY <2>1, <3>1, LocalsChange
      <3>. QED  BY <2>1, <3>1, <3>2 DEF Locals
    <2>3. CASE nodes = {}
      <3>1. Issue(t, 1) /\ UNCHANGED <<store, used, tainted>> /\ local[t].path \in Paths
        BY <2>3, <1>9, TaskKnows DEF MountEmpty
      <3>3. StoreType' /\ HistoryType'
        BY <3>1, <1>9, TaskKnows DEF MountEmpty, Issue
      <3>2. ControlOf("zadd", r)
        BY <2>2 DEF ControlOf
      <3>. QED  BY <3>2, <3>3, <2>2, <2>3, <1>9, TaskMoves DEF MountEmpty, Goto
    <2>4. CASE nodes # {}
      <3>1. ControlOf("incr", local[t])
        BY <1>9, TaskKnows DEF MountEmpty, ControlOf
      <3>. QED  BY <3>1, <2>4, <1>9, TaskKnows, TaskGoes DEF MountEmpty
    <2>. QED  BY <2>3, <2>4
  <1>10. ASSUME MountReset(t)  PROVE ControlOK'
    <2>1. StoreType' /\ HistoryType'
      BY <1>10, TaskKnows, NamespaceAssumption DEF MountReset
    <2>. QED  BY <2>1, <1>10, TaskEnds DEF MountReset
  <1>11. ASSUME MountLook(t)  PROVE ControlOK'
    <2>1. ControlOf("incr", local[t])
      BY <1>11, TaskKnows DEF MountLook, ControlOf
    <2>. QED  BY <2>1, <1>11, TaskKnows, TaskGoes, TaskEnds DEF MountLook
  <1>12. ASSUME IncrLost(t)  PROVE ControlOK'
    <2>. DEFINE r == [local[t] EXCEPT !.id = 1]
    <2>1. 1 \in Ids
      BY NamespaceAssumption DEF Ids
    <2>2. local[t] \in Locals /\ local[t].path \in Paths
      BY <1>12, TaskKnows DEF IncrLost
    <2>3. r \in Locals
      BY <2>1, <2>2, LocalsChange
    <2>4. r.path \in Paths /\ r.id \in Ids
      BY <2>1, <2>2 DEF Locals
    <2>5. ControlOf("incrput", r)
      <3>. HIDE DEF r
      <3>. QED  BY <2>4 DEF ControlOf
    <2>6. StoreType' /\ HistoryType'
      BY <1>12, TaskKnows, SpendType, Parts DEF IncrLost, Budgets
    <2>. QED  BY <2>3, <2>5, <2>6, <1>12, TaskMoves DEF IncrLost, Goto
  <1>13. ASSUME IncrAgain(t)  PROVE ControlOK'
    <2>1. ControlOf("incr", local[t])
      BY <1>13, TaskKnows DEF IncrAgain, ControlOf
    <2>2. StoreType' /\ HistoryType'
      BY <1>13, TaskKnows, SpendType, Parts DEF IncrAgain, Budgets
    <2>. QED  BY <2>1, <2>2, <1>13, TaskGoes DEF IncrAgain
  <1>. QED  BY <1>1, <1>2, <1>3, <1>4, <1>5, <1>6, <1>7, <1>8, <1>9, <1>10, <1>11, <1>12, <1>13
            DEF CreateStep

\* What a renaming task knows of what it moves.
LEMMA RenameKnows ==
  ASSUME ControlOK, NEW t \in Tasks, pc[t] \in MovingLabels
  PROVE  /\ local[t].path \in Paths /\ local[t].to \in Paths
         /\ AtOrBelow(local[t].path) \subseteq Paths
         /\ \A q \in AtOrBelow(local[t].path) : NewPath(t, q) \in Paths
  BY TaskKnows DEF ControlOf, Fits, AtOrBelow, NewPath

LEMMA KeyKnows ==
  ASSUME ControlOK, NEW t \in Tasks, pc[t] \in KeyLabels
  PROVE  /\ local[t].key[1] \in Paths /\ local[t].key[2] \in Kinds
         /\ NewPath(t, local[t].key[1]) \in Paths
  <1>1. local[t].key \in AtOrBelow(local[t].path) \X Kinds
    BY TaskKnows DEF ControlOf
  <1>. QED  BY <1>1, RenameKnows DEF MovingLabels

\* The rename of a key ends.
LEMMA OnwardControl ==
  ASSUME ControlOK, NEW t \in Tasks, pc[t] \in KeyLabels
  PROVE  Onward(t) \in Labels /\ ControlOf(Onward(t), local[t])
  <1>1. ControlOf(pc[t], local[t]) /\ local[t].path \in Paths /\ pc[t] \in MovingLabels
    BY TaskKnows DEF MovingLabels
  <1>2. Fits(local[t].path, local[t].to)
    BY <1>1 DEF ControlOf
  <1>3. CASE local[t].key = <<local[t].path, "hash">>
    BY <1>2, <1>1, <1>3 DEF Onward, ControlOf
  <1>4. CASE local[t].key # <<local[t].path, "hash">>
    <2>1. local[t].todo \subseteq AtOrBelow(local[t].path)
          /\ local[t].keys \subseteq AtOrBelow(local[t].path) \X Kinds
      BY <1>1, <1>4 DEF ControlOf
    <2>. QED  BY <2>1, <1>2, <1>1, <1>4 DEF Onward, ControlOf
  <1>. QED  BY <1>3, <1>4

LEMMA RemoveControl ==
  ASSUME ControlOK, NEW t \in Tasks, RemoveStep(t)
  PROVE  ControlOK'
  <1>1. ASSUME Scan(t)  PROVE ControlOK'
    <2>1. ControlOf("getid", local[t])
      BY <1>1, TaskKnows DEF Scan, ControlOf
    <2>. QED  BY <2>1, <1>1, TaskKnows, TaskGoes, TaskEnds DEF Scan
  <1>2. ASSUME GetId(t)  PROVE ControlOK'
    <2>. DEFINE r == [local[t] EXCEPT !.id = pathToId[local[t].path]]
    <2>1. CASE pathToId[local[t].path] # None
      <3>1. r \in Locals
        BY <2>1, <1>2, TaskKnows, LocalsChange DEF GetId
      <3>2. ControlOf("zrem", r)
        BY <1>2, TaskKnows DEF GetId, ControlOf, Locals
      <3>3. local' = [local EXCEPT ![t] = r] /\ pc' = [pc EXCEPT ![t] = "zrem"]
        BY <2>1, <1>2 DEF GetId, Goto
      <3>4. StoreType' /\ HistoryType'
        BY <1>2, TaskKnows DEF GetId
      <3>. QED  BY <3>1, <3>2, <3>3, <3>4, TaskMoves
    <2>2. CASE pathToId[local[t].path] = None
      BY <2>2, <1>2, TaskKnows, TaskEnds DEF GetId
    <2>. QED  BY <2>1, <2>2
  <1>3. ASSUME ZRem(t)  PROVE ControlOK'
    <2>1. ControlOf("delete", local[t])
      BY <1>3, TaskKnows DEF ZRem, ControlOf
    <2>2. StoreType' /\ HistoryType'
      BY <1>3, TaskKnows DEF ZRem
    <2>. QED  BY <2>1, <2>2, <1>3, TaskGoes DEF ZRem
  <1>4. ASSUME Delete(t)  PROVE ControlOK'
    <2>1. ControlOf("unpath", local[t])
      BY <1>4, TaskKnows DEF Delete, ControlOf
    <2>2. StoreType' /\ HistoryType'
      BY <1>4, TaskKnows DEF Delete
    <2>. QED  BY <2>1, <2>2, <1>4, TaskGoes DEF Delete
  <1>5. ASSUME DelPathToId(t)  PROVE ControlOK'
    <2>1. ControlOf("unid", local[t])
      BY <1>5, TaskKnows DEF DelPathToId, ControlOf
    <2>2. StoreType' /\ HistoryType'
      BY <1>5, TaskKnows DEF DelPathToId
    <2>. QED  BY <2>1, <2>2, <1>5, TaskGoes DEF DelPathToId
  <1>6. ASSUME DelIdToPath(t)  PROVE ControlOK'
    <2>1. StoreType' /\ HistoryType'
      BY <1>6, TaskKnows DEF DelIdToPath
    <2>. QED  BY <2>1, <1>6, TaskEnds DEF DelIdToPath
  <1>7. ASSUME HalfDelete(t)  PROVE ControlOK'
    <2>1. CASE pc[t] = "delete"
      <3>1. ControlOf("unpath", local[t])
        BY <2>1, TaskKnows DEF ControlOf
      <3>2. StoreType' /\ HistoryType'
        BY <2>1, <1>7, TaskKnows, SpendType, NamedType, Parts DEF HalfDelete, Budgets
      <3>. QED  BY <3>1, <3>2, <2>1, <1>7, TaskGoes DEF HalfDelete
    <2>2. CASE pc[t] = "cutkey"
      <3>1. Onward(t) \in Labels /\ ControlOf(Onward(t), local[t])
        BY <2>2, OnwardControl
      <3>2. StoreType' /\ HistoryType'
        BY <2>2, <1>7, TaskKnows, KeyKnows, SpendType, NamedType, Parts DEF HalfDelete, Budgets
      <3>. QED  BY <3>1, <3>2, <2>2, <1>7, TaskGoes DEF HalfDelete
    <2>. QED  BY <1>7, <2>1, <2>2 DEF HalfDelete
  <1>. QED  BY <1>1, <1>2, <1>3, <1>4, <1>5, <1>6, <1>7 DEF RemoveStep

HashesType ==
  /\ links \subseteq Paths
  /\ meta \in [Paths -> Hash \cup {None}]
  /\ data \in [Paths -> Ids \cup {None}]

LEMMA MoveHashType ==
  ASSUME HashesType, NEW p \in Paths, NEW q \in Paths, MoveHash(p, q)
  PROVE  HashesType'
  BY DEF HashesType, MoveHash

LEMMA MovingControl ==
  ASSUME ControlOK, NEW t \in Tasks,
         \/ RenameSource(t) \/ RenameTarget(t) \/ RenameType(t)
         \/ Move(t) \/ Keys(t) \/ MoveKey(t)
  PROVE  ControlOK'
  <1>1. ASSUME RenameSource(t)  PROVE ControlOK'
    <2>1. ControlOf("target", local[t])
      BY <1>1, TaskKnows DEF RenameSource, ControlOf
    <2>. QED  BY <2>1, <1>1, TaskKnows, TaskGoes, TaskEnds DEF RenameSource
  <1>2. ASSUME RenameTarget(t)  PROVE ControlOK'
    <2>1. CASE Finish(t) /\ tainted' = tainted
      BY <2>1, <1>2, TaskKnows, TaskEnds DEF RenameTarget
    <2>2. CASE idToPath[local[t].dir] # None
      <3>. DEFINE to == Append(idToPath[local[t].dir], local[t].name)
                  r == [local[t] EXCEPT !.to = to]
      <3>1. Fits(local[t].path, to) /\ to \in Paths
        BY <2>2, <1>2 DEF RenameTarget, Fits
      <3>2. r \in Locals
        BY <3>1, <1>2, TaskKnows, LocalsChange DEF RenameTarget
      <3>3. r.path = local[t].path /\ r.to = to
        BY <1>2, TaskKnows DEF RenameTarget, Locals
      <3>4. ControlOf("type", r)
        BY <3>1, <3>3, <1>2, TaskKnows DEF RenameTarget, ControlOf
      <3>5. tainted' \subseteq Paths
        BY <3>1, <2>2, <1>2, ClaimType, Parts DEF RenameTarget
      <3>6. StoreType' /\ HistoryType'
        BY <3>5, <1>2, TaskKnows DEF RenameTarget
      <3>. QED  BY <3>2, <3>4, <3>6, <2>2, <1>2, TaskMoves DEF RenameTarget, Goto
    <2>. QED  BY <2>1, <2>2, <1>2 DEF RenameTarget
  <1>3. ASSUME RenameType(t)  PROVE ControlOK'
    <2>1. CASE Goto(t, "move") /\ local' = local
      <3>1. ControlOf("move", local[t])
        BY <1>3, TaskKnows DEF RenameType, ControlOf
      <3>. QED  BY <3>1, <2>1, <1>3, TaskKnows, TaskGoes DEF RenameType
    <2>2. CASE Goto(t, "movedata") /\ local' = [local EXCEPT ![t].key = <<local[t].path, "hash">>]
      <3>. DEFINE k == <<local[t].path, "hash">>
                  r == [local[t] EXCEPT !.key = k]
      <3>1. local[t] \in Locals /\ local[t].path \in Paths /\ Fits(local[t].path, local[t].to)
        BY <1>3, TaskKnows DEF RenameType, ControlOf
      <3>2. k \in AtOrBelow(local[t].path) \X Kinds /\ k \in Paths \X Kinds
        <4>1. Prefix(local[t].path, local[t].path)
          BY <3>1, NamespaceAssumption DEF Prefix
        <4>. QED  BY <4>1, <3>1 DEF AtOrBelow, Kinds
      <3>3. r \in Locals
        BY <3>1, <3>2, LocalsChange
      <3>4. r.path = local[t].path /\ r.to = local[t].to /\ r.key = k
        BY <3>1 DEF Locals
      <3>5. ControlOf("movedata", r)
        <4>. HIDE DEF r, k
        <4>1. r.key = <<r.path, "hash">>
          BY <3>4 DEF k
        <4>. QED  BY <4>1, <3>1, <3>2, <3>4 DEF ControlOf
      <3>6. StoreType' /\ HistoryType'
        BY <1>3, TaskKnows DEF RenameType
      <3>. QED  BY <3>3, <3>5, <3>6, <2>2, TaskMoves DEF Goto
    <2>3. CASE Finish(t)
      BY <2>3, <1>3, TaskKnows, TaskEnds DEF RenameType
    <2>. QED  BY <1>3, <2>1, <2>2, <2>3 DEF RenameType
  <1>5. ASSUME Move(t)  PROVE ControlOK'
    <2>1. ControlOf("keys", local[t])
      BY <1>5, TaskKnows DEF Move, ControlOf
    <2>2. HashesType'
      BY <1>5, TaskKnows, RenameKnows, MoveHashType DEF Move, HashesType
    <2>3. StoreType' /\ HistoryType'
      BY <2>2, <1>5, TaskKnows DEF Move, HashesType
    <2>. QED  BY <2>1, <2>3, <1>5, TaskGoes DEF Move
  <1>6. ASSUME Keys(t)  PROVE ControlOK'
    <2>. DEFINE p == local[t].path
                T == {q \in AtOrBelow(p) \ {p} : Redis /\ Keyed(q)}
                K == {k \in AtOrBelow(p) \X Kinds :
                        ~Redis /\ HasKey(k[1], k[2]) /\ k # <<p, "hash">>}
                r == [local[t] EXCEPT !.todo = T, !.keys = K]
    <2>1. T \subseteq AtOrBelow(p) /\ K \subseteq AtOrBelow(p) \X Kinds /\ AtOrBelow(p) \subseteq Paths
      BY DEF AtOrBelow
    <2>2. local[t] \in Locals /\ Fits(p, local[t].to) /\ p \in Paths
      BY <1>6, TaskKnows DEF Keys, ControlOf
    <2>3. r \in Locals
      <3>1. T \in SUBSET (Paths \cup (Paths \X Ids)) /\ K \in SUBSET (Paths \X Kinds)
        BY <2>1
      <3>2. [local[t] EXCEPT !.todo = T] \in Locals
        BY <3>1, <2>2, LocalsChange
      <3>. HIDE DEF T, K
      <3>. QED  BY <3>1, <3>2, LocalsChange
    <2>4. r.path = p /\ r.to = local[t].to /\ r.todo = T /\ r.keys = K
      BY <2>2 DEF Locals
    <2>5. ControlOf("moving", r)
      <3>. HIDE DEF r, T, K
      <3>. QED  BY <2>1, <2>2, <2>4 DEF ControlOf
    <2>6. StoreType' /\ HistoryType'
      BY <1>6, TaskKnows DEF Keys
    <2>7. local' = [local EXCEPT ![t] = r]
      BY <1>6 DEF Keys
    <2>. QED  BY <2>3, <2>5, <2>6, <2>7, <1>6, TaskMoves DEF Keys, Goto
  <1>7. ASSUME MoveKey(t)  PROVE ControlOK'
    <2>1. PICK q \in local[t].todo :
            /\ local' = [local EXCEPT ![t].todo = @ \ {q}]
            /\ IF NewPath(t, q) # q THEN MoveHash(q, NewPath(t, q)) ELSE UNCHANGED hashes
      BY <1>7 DEF MoveKey
    <2>. DEFINE T == local[t].todo \ {q}
                r == [local[t] EXCEPT !.todo = T]
    <2>2. local[t].todo \subseteq AtOrBelow(local[t].path) /\ q \in AtOrBelow(local[t].path)
      BY <1>7, TaskKnows DEF MoveKey, ControlOf
    <2>3. q \in Paths /\ NewPath(t, q) \in Paths /\ T \subseteq Paths
      BY <2>2, <1>7, RenameKnows DEF MoveKey
    <2>4. HashesType'
      BY <2>1, <2>3, <1>7, TaskKnows, MoveHashType DEF MoveKey, HashesType
    <2>5. StoreType' /\ HistoryType'
      BY <2>4, <1>7, TaskKnows DEF MoveKey, HashesType
    <2>6. r \in Locals
      BY <2>3, <1>7, TaskKnows, LocalsChange DEF MoveKey
    <2>7. r.path = local[t].path /\ r.to = local[t].to /\ r.todo = T /\ r.keys = local[t].keys
      BY <1>7, TaskKnows DEF MoveKey, Locals
    <2>8. ControlOf("moving", r)
      <3>. HIDE DEF r
      <3>. QED  BY <2>2, <2>7, <1>7, TaskKnows DEF MoveKey, ControlOf
    <2>9. pc' = [pc EXCEPT ![t] = "moving"]
      BY <1>7 DEF MoveKey, ControlOK, TypeOK
    <2>. QED  BY <2>1, <2>5, <2>6, <2>8, <2>9, TaskMoves
  <1>. QED  BY <1>1, <1>2, <1>3, <1>5, <1>6, <1>7

LEMMA SetKeyType ==
  ASSUME HashesType, NEW q \in Paths, NEW kind \in Kinds, NEW to \in Paths,
         HasKey(q, kind), SetKey(q, kind, to)
  PROVE  HashesType'
  <1>1. CASE kind = "hash"
    BY <1>1 DEF HashesType, SetKey
  <1>2. CASE kind = "data"
    BY <1>2 DEF HashesType, SetKey
  <1>3. CASE kind = "link"
    BY <1>3 DEF HashesType, SetKey
  <1>. QED  BY <1>1, <1>2, <1>3 DEF Kinds

LEMMA KeysControl ==
  ASSUME ControlOK, NEW t \in Tasks,
         \/ NextKey(t) \/ MoveData(t) \/ CutData(t) \/ SetMovedKey(t) \/ CutKey(t)
  PROVE  ControlOK'
  <1>1. ASSUME NextKey(t)  PROVE ControlOK'
    <2>1. PICK k \in local[t].keys :
            /\ local' = [local EXCEPT ![t].keys = @ \ {k}, ![t].key = k]
            /\ Goto(t, IF k[2] = "hash" THEN "movedata" ELSE "movekey")
      BY <1>1 DEF NextKey
    <2>. DEFINE K == local[t].keys \ {k}
                r == [local[t] EXCEPT !.keys = K, !.key = k]
    <2>2. /\ local[t] \in Locals /\ local[t].path \in Paths
          /\ Fits(local[t].path, local[t].to)
          /\ local[t].todo \subseteq AtOrBelow(local[t].path)
          /\ local[t].keys \subseteq AtOrBelow(local[t].path) \X Kinds
      BY <1>1, TaskKnows DEF NextKey, ControlOf
    <2>3. AtOrBelow(local[t].path) \subseteq Paths
      BY DEF AtOrBelow
    <2>4. k \in (Paths \X Kinds) \cup {None} /\ K \in SUBSET (Paths \X Kinds)
      BY <2>2, <2>3
    <2>5. r \in Locals
      <3>1. [local[t] EXCEPT !.keys = K] \in Locals
        BY <2>2, <2>4, LocalsChange
      <3>. HIDE DEF K
      <3>. QED  BY <2>4, <3>1, LocalsChange
    <2>6. r.path = local[t].path /\ r.to = local[t].to /\ r.todo = local[t].todo
          /\ r.keys = K /\ r.key = k
      BY <2>2 DEF Locals
    <2>7. ControlOf("movedata", r) /\ ControlOf("movekey", r)
      <3>. HIDE DEF r
      <3>. QED  BY <2>1, <2>2, <2>6 DEF ControlOf
    <2>8. StoreType' /\ HistoryType'
      BY <1>1, TaskKnows DEF NextKey
    <2>9. local' = [local EXCEPT ![t] = r]
      BY <2>1
    <2>. QED  BY <2>1, <2>5, <2>7, <2>8, <2>9, TaskMoves DEF Goto
  <1>2. ASSUME MoveData(t)  PROVE ControlOK'
    <2>1. ControlOf("movekey", local[t]) /\ ControlOf("cutdata", local[t])
      BY <1>2, TaskKnows DEF MoveData, ControlOf
    <2>2. StoreType' /\ HistoryType'
      BY <1>2, TaskKnows, KeyKnows DEF MoveData
    <2>. QED  BY <2>1, <2>2, <1>2, TaskGoes DEF MoveData
  <1>3. ASSUME CutData(t)  PROVE ControlOK'
    <2>1. ControlOf("movekey", local[t])
      BY <1>3, TaskKnows DEF CutData, ControlOf
    <2>2. StoreType' /\ HistoryType'
      BY <1>3, TaskKnows, KeyKnows DEF CutData
    <2>. QED  BY <2>1, <2>2, <1>3, TaskGoes DEF CutData
  <1>4. ASSUME SetMovedKey(t)  PROVE ControlOK'
    <2>1. ControlOf("cutkey", local[t])
      BY <1>4, TaskKnows DEF SetMovedKey, ControlOf
    <2>2. Onward(t) \in Labels /\ ControlOf(Onward(t), local[t])
      BY <1>4, OnwardControl DEF SetMovedKey
    <2>3. HashesType'
      BY <1>4, TaskKnows, KeyKnows, SetKeyType DEF SetMovedKey, HashesType
    <2>4. StoreType' /\ HistoryType'
      BY <2>3, <1>4, TaskKnows DEF SetMovedKey, HashesType
    <2>. QED  BY <2>1, <2>2, <2>4, <1>4, TaskGoes DEF SetMovedKey
  <1>5. ASSUME CutKey(t)  PROVE ControlOK'
    <2>1. Onward(t) \in Labels /\ ControlOf(Onward(t), local[t])
      BY <1>5, OnwardControl DEF CutKey
    <2>2. HashesType'
      BY <1>5, TaskKnows, KeyKnows DEF CutKey, HashesType
    <2>3. StoreType' /\ HistoryType'
      BY <2>2, <1>5, TaskKnows DEF CutKey, HashesType
    <2>. QED  BY <2>1, <2>3, <1>5, TaskGoes DEF CutKey
  <1>. QED  BY <1>1, <1>2, <1>3, <1>4, <1>5

LEMMA NodesControl ==
  ASSUME ControlOK, NEW t \in Tasks, Nodes(t) \/ RemNode(t) \/ AddNode(t)
  PROVE  ControlOK'
  <1>1. ASSUME Nodes(t)  PROVE ControlOK'
    <2>. DEFINE T == nodes \cap AtOrBelow(local[t].path)
                k == [local[t] EXCEPT !.key = None]
                r == [k EXCEPT !.todo = T]
    <2>1. T \subseteq AtOrBelow(local[t].path) /\ T \subseteq Paths
      BY DEF AtOrBelow
    <2>2. r \in Locals
      <3>1. k \in Locals
        BY <1>1, TaskKnows, LocalsChange DEF Nodes
      <3>. HIDE DEF k, T
      <3>. QED  BY <2>1, <3>1, LocalsChange
    <2>3. r.path = local[t].path /\ r.to = local[t].to /\ r.todo = T
      BY <1>1, TaskKnows DEF Nodes, Locals
    <2>4. ControlOf("node", r)
      <3>. HIDE DEF r, T
      <3>. QED  BY <2>1, <2>3, <1>1, TaskKnows DEF Nodes, ControlOf
    <2>5. local' = [local EXCEPT ![t] = r]
      BY <1>1 DEF Nodes, ControlOK, TypeOK
    <2>6. StoreType' /\ HistoryType'
      BY <1>1, TaskKnows DEF Nodes
    <2>. QED  BY <2>2, <2>4, <2>5, <2>6, <1>1, TaskMoves DEF Nodes, Goto
  <1>2. ASSUME RemNode(t)  PROVE ControlOK'
    <2>1. PICK q \in local[t].todo :
            \/ /\ local' = [local EXCEPT ![t].todo = @ \ {q}]
               /\ UNCHANGED <<nodes, pc>>
            \/ /\ nodes' = nodes \ {q}
               /\ local' = [local EXCEPT ![t].todo = @ \ {q}, ![t].cur = q]
               /\ Goto(t, "renode")
      BY <1>2 DEF RemNode
    <2>. DEFINE T == local[t].todo \ {q}
                r == [local[t] EXCEPT !.todo = T]
                s == [r EXCEPT !.cur = q]
    <2>2. local[t].todo \subseteq AtOrBelow(local[t].path) /\ q \in AtOrBelow(local[t].path)
      BY <1>2, TaskKnows DEF RemNode, ControlOf
    <2>3. q \in Paths /\ T \subseteq Paths
      BY <2>2, <1>2, RenameKnows DEF RemNode
    <2>4. StoreType' /\ HistoryType'
      BY <2>1, <1>2, TaskKnows DEF RemNode
    <2>5. r \in Locals /\ s \in Locals
      <3>1. r \in Locals
        BY <2>3, <1>2, TaskKnows, LocalsChange DEF RemNode
      <3>2. s \in Locals
        <4>. HIDE DEF r
        <4>. QED  BY <3>1, <2>3, LocalsChange
      <3>. QED  BY <3>1, <3>2
    <2>6. /\ r.path = local[t].path /\ r.to = local[t].to /\ r.todo = T
          /\ s.path = local[t].path /\ s.to = local[t].to /\ s.todo = T /\ s.cur = q
      BY <1>2, TaskKnows DEF RemNode, Locals
    <2>7. CASE local' = [local EXCEPT ![t].todo = @ \ {q}] /\ UNCHANGED <<nodes, pc>>
      <3>1. ControlOf("node", r)
        <4>. HIDE DEF r
        <4>. QED  BY <2>2, <2>6, <1>2, TaskKnows DEF RemNode, ControlOf
      <3>2. pc' = [pc EXCEPT ![t] = "node"]
        BY <2>7, <1>2 DEF RemNode, ControlOK, TypeOK
      <3>. QED  BY <3>1, <3>2, <2>4, <2>5, <2>7, TaskMoves
    <2>8. CASE /\ local' = [local EXCEPT ![t].todo = @ \ {q}, ![t].cur = q]
               /\ Goto(t, "renode")
      <3>1. ControlOf("renode", s)
        <4>. HIDE DEF r, s
        <4>. QED  BY <2>2, <2>6, <1>2, TaskKnows DEF RemNode, ControlOf
      <3>2. local' = [local EXCEPT ![t] = s]
        BY <2>8, <1>2 DEF ControlOK, TypeOK
      <3>. QED  BY <3>1, <3>2, <2>4, <2>5, <2>8, TaskMoves DEF Goto
    <2>. QED  BY <2>1, <2>7, <2>8
  <1>3. ASSUME AddNode(t)  PROVE ControlOK'
    <2>1. NewPath(t, local[t].cur) \in Paths
      BY <1>3, TaskKnows, RenameKnows DEF AddNode, ControlOf
    <2>2. ControlOf("node", local[t])
      BY <1>3, TaskKnows DEF AddNode, ControlOf
    <2>3. StoreType' /\ HistoryType'
      BY <2>1, <1>3, TaskKnows DEF AddNode
    <2>. QED  BY <2>2, <2>3, <1>3, TaskGoes DEF AddNode
  <1>. QED  BY <1>1, <1>2, <1>3

\* What a task that moves an entry knows of it.
LEMMA EntryKnows ==
  ASSUME ControlOK, NEW t \in Tasks, pc[t] \in OldEntryLabels
  PROVE  /\ local[t].cur[1] \in Paths /\ local[t].cur[2] \in Ids
         /\ NewPath(t, local[t].cur[1]) \in Paths
         /\ \A l \in EntryLabels : ControlOf(l, local[t])
  <1>1. local[t].cur \in AtOrBelow(local[t].path) \X Ids
    BY TaskKnows DEF ControlOf
  <1>2. \A l \in EntryLabels : ControlOf(l, local[t])
    BY TaskKnows DEF ControlOf
  <1>. QED  BY <1>1, <1>2, RenameKnows

LEMMA MergedType ==
  ASSUME NEW h \in Hash \cup {None}, NEW i \in Ids \cup {None}
  PROVE  Merged(h, i) \in Hash
  BY DEF Merged, Hash

\* A task at an entry forgets it, or the hash it has read.
LEMMA EntryNext ==
  ASSUME ControlOK, NEW t \in Tasks, pc[t] \in OldEntryLabels,
         NEW h \in Hash \cup {None}
  PROVE  /\ LET r == [local[t] EXCEPT !.cur = None]
            IN  r \in Locals /\ ControlOf("entry", r)
         /\ LET r == [local[t] EXCEPT !.hash = h]
            IN  r \in Locals /\ ControlOf("etouchput", r)
         /\ LET r == [local[t] EXCEPT !.cur = None, !.hash = h]
            IN  r \in Locals /\ ControlOf("entry", r)
  <1>. DEFINE q == [local[t] EXCEPT !.cur = None]
              r == [local[t] EXCEPT !.hash = h]
              s == [q EXCEPT !.hash = h]
  <1>1. q \in Locals /\ r \in Locals
    BY TaskKnows, LocalsChange
  <1>2. s \in Locals
    <2>. HIDE DEF q
    <2>. QED  BY <1>1, LocalsChange
  <1>3. /\ q.path = local[t].path /\ q.to = local[t].to /\ q.todo = local[t].todo
        /\ r.path = local[t].path /\ r.to = local[t].to /\ r.todo = local[t].todo
        /\ r.cur = local[t].cur
        /\ s.path = local[t].path /\ s.to = local[t].to /\ s.todo = local[t].todo
    BY TaskKnows DEF Locals
  <1>4. ControlOf("entry", q) /\ ControlOf("etouchput", r) /\ ControlOf("entry", s)
    <2>. HIDE DEF q, r, s
    <2>. QED  BY <1>3, TaskKnows DEF ControlOf
  <1>. QED  BY <1>1, <1>2, <1>4

LEMMA EntriesControl ==
  ASSUME ControlOK, NEW t \in Tasks, Entries(t) \/ Entry(t)
  PROVE  ControlOK'
  <1>1. ASSUME Entries(t)  PROVE ControlOK'
    <2>. DEFINE Q == {q \in AtOrBelow(local[t].path) \cup {local[t].to} : pathToId[q] # None}
                T == {<<q, pathToId[q]>> : q \in Q}
                q0 == [local[t] EXCEPT !.cur = None]
                r == [q0 EXCEPT !.todo = T]
    <2>1. Q \subseteq Paths
      BY <1>1, RenameKnows DEF Entries
    <2>2. T \subseteq Paths \X Ids
      BY <2>1, <1>1, TaskKnows DEF Entries
    <2>3. r \in Locals
      <3>1. q0 \in Locals
        BY <1>1, TaskKnows, LocalsChange DEF Entries
      <3>. HIDE DEF q0, T
      <3>. QED  BY <2>2, <3>1, LocalsChange
    <2>4. r.path = local[t].path /\ r.to = local[t].to /\ r.todo = T
      BY <1>1, TaskKnows DEF Entries, Locals
    <2>5. ControlOf("entry", r)
      <3>. HIDE DEF r, T
      <3>. QED  BY <2>2, <2>4, <1>1, TaskKnows DEF Entries, ControlOf
    <2>6. local' = [local EXCEPT ![t] = r]
      BY <1>1 DEF Entries, ControlOK, TypeOK
    <2>7. StoreType' /\ HistoryType'
      BY <1>1, TaskKnows DEF Entries
    <2>. QED  BY <2>3, <2>5, <2>6, <2>7, <1>1, TaskMoves DEF Entries, Goto
  <1>2. ASSUME Entry(t)  PROVE ControlOK'
    <2>1. PICK e \in local[t].todo :
            /\ local' = [local EXCEPT ![t].todo = @ \ {e}, ![t].cur = e]
            /\ idToPath' = IF e[1] = local[t].to
                           THEN [idToPath EXCEPT ![e[2]] = None] ELSE idToPath
            /\ Goto(t, IF Prefix(local[t].path, e[1])
                          /\ (e[1] = local[t].path \/ NewPath(t, e[1]) # e[1])
                       THEN "epath" ELSE "entry")
      BY <1>2 DEF Entry
    <2>. DEFINE q == [local[t] EXCEPT !.todo = @ \ {e}]
                r == [q EXCEPT !.cur = e]
    <2>2. local[t].todo \subseteq Paths \X Ids
      BY <1>2, TaskKnows DEF Entry, ControlOf
    <2>3. e \in Paths \X Ids
      BY <2>2
    <2>4. r \in Locals
      <3>1. q \in Locals
        BY <2>2, <1>2, TaskKnows, LocalsChange DEF Entry
      <3>. HIDE DEF q
      <3>. QED  BY <2>3, <3>1, LocalsChange
    <2>5. /\ r.path = local[t].path /\ r.to = local[t].to
          /\ r.todo = local[t].todo \ {e} /\ r.cur = e
      BY <1>2, TaskKnows DEF Entry, Locals
    <2>6. ControlOf("entry", r) /\ (Prefix(local[t].path, e[1]) => ControlOf("epath", r))
      <3>. HIDE DEF r
      <3>. QED  BY <2>2, <2>3, <2>5, <1>2, TaskKnows DEF Entry, ControlOf, AtOrBelow
    <2>7. local' = [local EXCEPT ![t] = r]
      BY <2>1, <1>2 DEF Entry, ControlOK, TypeOK
    <2>8. StoreType' /\ HistoryType'
      BY <2>1, <1>2, TaskKnows DEF Entry
    <2>. QED  BY <2>1, <2>4, <2>6, <2>7, <2>8, TaskMoves DEF Goto
  <1>. QED  BY <1>1, <1>2

LEMMA EntryStepsControl ==
  ASSUME ControlOK, NEW t \in Tasks,
         \/ EntryPath(t) \/ EntrySet(t) \/ EntryId(t) \/ EntryPut(t)
         \/ EntryTouch(t) \/ EntryTouchPut(t) \/ Renamed(t)
  PROVE  ControlOK'
  <1>1. ASSUME EntryPath(t)  PROVE ControlOK'
    <2>1. StoreType' /\ HistoryType'
      BY <1>1, TaskKnows DEF EntryPath
    <2>. QED  BY <2>1, <1>1, EntryKnows, TaskGoes DEF EntryPath
  <1>2. ASSUME EntrySet(t)  PROVE ControlOK'
    <2>1. StoreType' /\ HistoryType'
      BY <1>2, TaskKnows, EntryKnows DEF EntrySet
    <2>. QED  BY <2>1, <1>2, EntryKnows, TaskGoes DEF EntrySet
  <1>3. ASSUME EntryId(t)  PROVE ControlOK'
    <2>1. StoreType' /\ HistoryType'
      BY <1>3, TaskKnows DEF EntryId
    <2>. QED  BY <2>1, <1>3, EntryKnows, TaskGoes DEF EntryId
  <1>4. ASSUME EntryPut(t)  PROVE ControlOK'
    <2>1. StoreType' /\ HistoryType'
      BY <1>4, TaskKnows, EntryKnows DEF EntryPut
    <2>. QED  BY <2>1, <1>4, EntryKnows, TaskGoes DEF EntryPut
  <1>5. ASSUME EntryTouch(t)  PROVE ControlOK'
    <2>. DEFINE q == NewPath(t, local[t].cur[1])
                r == [local[t] EXCEPT !.cur = None]
                s == [local[t] EXCEPT !.hash = meta[q]]
    <2>1. q \in Paths /\ local[t].cur[2] \in Ids /\ meta[q] \in Hash \cup {None}
      BY <1>5, TaskKnows, EntryKnows DEF EntryTouch
    <2>2. Merged(meta[q], local[t].cur[2]) \in Hash
      BY <2>1, MergedType
    <2>3. StoreType' /\ HistoryType'
      BY <2>1, <2>2, <1>5, TaskKnows DEF EntryTouch
    <2>4. r \in Locals /\ ControlOf("entry", r) /\ s \in Locals /\ ControlOf("etouchput", s)
      BY <2>1, <1>5, EntryNext DEF EntryTouch
    <2>. QED  BY <2>3, <2>4, <1>5, TaskMoves DEF EntryTouch, Goto
  <1>6. ASSUME EntryTouchPut(t)  PROVE ControlOK'
    <2>. DEFINE r == [local[t] EXCEPT !.cur = None, !.hash = None]
    <2>1. Merged(local[t].hash, local[t].cur[2]) \in Hash
      BY <1>6, TaskKnows, EntryKnows, MergedType DEF EntryTouchPut, Locals
    <2>2. StoreType' /\ HistoryType'
      BY <2>1, <1>6, TaskKnows DEF EntryTouchPut
    <2>3. r \in Locals /\ ControlOf("entry", r)
      BY <1>6, EntryNext DEF EntryTouchPut
    <2>4. local' = [local EXCEPT ![t] = r]
      BY <1>6 DEF EntryTouchPut, ControlOK, TypeOK
    <2>. QED  BY <2>2, <2>3, <2>4, <1>6, TaskMoves DEF EntryTouchPut, Goto
  <1>7. ASSUME Renamed(t)  PROVE ControlOK'
    BY <1>7, TaskKnows, TaskEnds DEF Renamed
  <1>. QED  BY <1>1, <1>2, <1>3, <1>4, <1>5, <1>6, <1>7

LEMMA CommitControl ==
  ASSUME ControlOK, NEW t \in Tasks, CommitStep(t)
  PROVE  ControlOK'
  <1>1. ASSUME PutData(t)  PROVE ControlOK'
    <2>1. StoreType' /\ HistoryType'
      BY <1>1, TaskKnows DEF PutData, ControlOf
    <2>2. ControlOf("touch", local[t])
      BY <1>1, TaskKnows DEF PutData, ControlOf
    <2>. QED  BY <2>1, <2>2, <1>1, TaskGoes DEF PutData
  <1>2. ASSUME Touch(t)  PROVE ControlOK'
    <2>. DEFINE q == local[t].path
                s == [local[t] EXCEPT !.hash = meta[q]]
    <2>1. q \in Paths /\ meta[q] \in Hash \cup {None}
      BY <1>2, TaskKnows DEF Touch
    <2>2. Merged(meta[q], None) \in Hash
      BY <2>1, MergedType
    <2>3. StoreType' /\ HistoryType'
      <3>1. meta' = [meta EXCEPT ![q] = Merged(meta[q], None)] \/ meta' = meta
        BY <1>2 DEF Touch
      <3>. HIDE DEF q
      <3>. QED  BY <3>1, <2>1, <2>2, <1>2, TaskKnows DEF Touch
    <2>4. s \in Locals /\ s.path = q
      <3>1. local[t] \in Locals
        BY <1>2, TaskKnows DEF Touch
      <3>2. s \in Locals
        BY <2>1, <3>1, LocalsChange
      <3>. QED  BY <3>1, <3>2 DEF Locals
    <2>5. ControlOf("touchput", s)
      <3>. HIDE DEF s
      <3>. QED  BY <2>1, <2>4 DEF ControlOf
    <2>. QED  BY <2>3, <2>4, <2>5, <1>2, TaskEnds, TaskMoves DEF Touch, Goto
  <1>3. ASSUME TouchPut(t)  PROVE ControlOK'
    <2>1. Merged(local[t].hash, None) \in Hash
      BY <1>3, TaskKnows, MergedType DEF TouchPut, Locals
    <2>2. StoreType' /\ HistoryType'
      BY <2>1, <1>3, TaskKnows DEF TouchPut
    <2>. QED  BY <2>2, <1>3, TaskEnds DEF TouchPut
  <1>. QED  BY <1>1, <1>2, <1>3 DEF CommitStep

LEMMA FaultControl ==
  ASSUME ControlOK, NEW t \in Tasks, Fault(t)
  PROVE  ControlOK'
  <1>1. pc[t] # "idle" /\ UNCHANGED <<store, holders>> /\ Spend("fault")
    BY DEF Fault
  <1>2. tainted' \subseteq Paths
    BY NamedType, Parts DEF Fault
  <1>3. StoreType' /\ HistoryType'
    BY <1>1, <1>2, TaskKnows, SpendType DEF Budgets
  <1>4. CASE GoesOn(t) /\ Goto(t, After(t)[pc[t]]) /\ UNCHANGED local
    <2>1. pc[t] \in {"look", "exists", "zadd", "hash", "link", "p2i", "zrem", "delete",
                     "unpath", "move", "etouch", "etouchput"} \cup KeyLabels
      BY <1>4 DEF GoesOn, After
    <2>2. CASE pc[t] \in {"cutdata", "movekey", "cutkey"}
      BY <2>2, <1>3, <1>4, OnwardControl, TaskGoes DEF After
    <2>3. CASE pc[t] \notin {"cutdata", "movekey", "cutkey"}
      <3>1. After(t)[pc[t]] \in {"incr", "hash", "link", "p2i", "i2p", "delete", "unpath",
                                 "unid", "keys", "movekey", "entry"}
        BY <2>1, <2>3 DEF After, AfterHash
      <3>2. ControlOf(After(t)[pc[t]], local[t])
        BY <2>1, <2>3, <1>1, TaskKnows DEF ControlOf, After, AfterHash
      <3>. QED  BY <3>1, <3>2, <1>3, <1>4, TaskGoes
    <2>. QED  BY <2>2, <2>3
  <1>7. CASE pc[t] = "movedata" /\ Goto(t, Onward(t)) /\ UNCHANGED local
    BY <1>3, <1>7, OnwardControl, TaskGoes
  <1>5. CASE pc[t] = "moving" /\ UNCHANGED pc
             /\ \E q \in local[t].todo : local' = [local EXCEPT ![t].todo = @ \ {q}]
    <2>1. PICK q \in local[t].todo : local' = [local EXCEPT ![t].todo = @ \ {q}]
      BY <1>5
    <2>. DEFINE T == local[t].todo \ {q}
                r == [local[t] EXCEPT !.todo = T]
    <2>2. local[t].todo \subseteq AtOrBelow(local[t].path) /\ T \subseteq Paths
      BY <1>1, <1>5, TaskKnows, RenameKnows DEF ControlOf
    <2>3. r \in Locals
      BY <2>2, <1>1, TaskKnows, LocalsChange
    <2>4. r.path = local[t].path /\ r.to = local[t].to /\ r.todo = T /\ r.keys = local[t].keys
      BY <1>1, TaskKnows DEF Locals
    <2>5. ControlOf("moving", r)
      <3>. HIDE DEF r
      <3>. QED  BY <2>2, <2>4, <1>1, <1>5, TaskKnows DEF ControlOf
    <2>6. pc' = [pc EXCEPT ![t] = "moving"]
      BY <1>5 DEF ControlOK, TypeOK
    <2>. QED  BY <2>1, <2>3, <2>5, <2>6, <1>3, TaskMoves
  <1>6. CASE Finish(t)
    BY <1>3, <1>6, TaskEnds
  <1>. QED  BY <1>4, <1>5, <1>6, <1>7 DEF Fault

LEMMA RestartControl ==
  ASSUME ControlOK, Restart
  PROVE  ControlOK'
  <1>1. \A t \in Tasks : Named(t) \subseteq Paths
    BY NamedType, Parts
  <1>2. HistoryType' /\ StoreType'
    BY <1>1, SpendType, Parts DEF Restart, Budgets
  <1>3. TasksOK'
    BY BlankType DEF Restart, TasksOK, ControlOf
  <1>. QED  BY <1>2, <1>3 DEF TasksOK, ControlOK, TypeOK

LEMMA NextControl == ControlOK /\ [Next]_vars => ControlOK'
  <1>. SUFFICES ASSUME ControlOK, [Next]_vars  PROVE ControlOK'
    OBVIOUS
  <1>1. ASSUME NEW t \in Tasks, Request(t) \/ TaskStep(t) \/ Fault(t)
        PROVE  ControlOK'
    <2>1. CASE RenameStep(t)
      BY <2>1, MovingControl, KeysControl, NodesControl, EntriesControl, EntryStepsControl DEF RenameStep
    <2>. QED  BY <1>1, <2>1, RequestControl, CreateControl, RemoveControl, CommitControl,
                 FaultControl DEF TaskStep
  <1>2. CASE Restart
    BY <1>2, RestartControl
  <1>3. CASE UNCHANGED vars
    BY <1>3 DEF vars, ControlOK, TypeOK
  <1>. QED  BY <1>1, <1>2, <1>3 DEF Next

\* In every reachable state the variables have their types, and every task at
\* work has a path, the ids and lists that its step works on, and, when it
\* renames, room for what it moves (rename.rs and directories.rs).
THEOREM ControlAlways == Spec => []ControlOK
  BY InitControl, NextControl, PTL DEF Spec

-----------------------------------------------------------------------------
(***************************************************************************)
(* Over Redis, once the directory is mounted, no id is issued twice.  The  *)
(* counter goes up only, because MNT does nothing while the mounted        *)
(* directory has metadata, and no request takes that away.                 *)
(***************************************************************************)
IssuedInv == ControlOK /\ IssuedOK

LEMMA InitIssued ==
  ASSUME Mounted, Init
  PROVE  IssuedOK
  <1>1. 1 \in Ids /\ <<>> \in Paths
    BY NamespaceAssumption DEF Ids
  <1>2. meta[<<>>] # None
    <2>1. [type |-> "dir", id |-> 1] \in Hash
      BY <1>1 DEF Hash, Types
    <2>. QED  BY <1>1, <2>1, NamespaceAssumption DEF Init
  <1>3. \A t \in Tasks : CalmOf(pc[t], local[t])
    BY NamespaceAssumption DEF Init, CalmOf, Blank, Ops
  <1>4. \A i \in Ids : (i > nextId => holders[i] = {}) /\ \A p, q \in holders[i] : p = q
    BY DEF Init, Ids
  <1>. QED  BY <1>2, <1>3, <1>4 DEF IssuedOK

\* Steps of a task that issue no id.
LEMMA CalmStep ==
  ASSUME IssuedInv, NEW t \in Tasks, UNCHANGED <<nextId, holders>>, meta'[<<>>] # None,
         \A u \in Tasks \ {t} : pc'[u] = pc[u] /\ local'[u] = local[u],
         CalmOf(pc'[t], local'[t])
  PROVE  IssuedOK'
  <1>1. \A u \in Tasks : CalmOf(pc'[u], local'[u])
    BY DEF IssuedInv, IssuedOK
  <1>. QED  BY <1>1 DEF IssuedInv, IssuedOK

LEMMA CalmFinish ==
  ASSUME IssuedInv, NEW t \in Tasks, Finish(t), UNCHANGED <<nextId, holders>>, meta'[<<>>] # None
  PROVE  IssuedOK'
  <1>1. CalmOf(pc'[t], local'[t])
    BY NamespaceAssumption DEF IssuedInv, ControlOK, TypeOK, Finish, CalmOf, Blank, Ops
  <1>2. \A u \in Tasks \ {t} : pc'[u] = pc[u] /\ local'[u] = local[u]
    BY DEF IssuedInv, ControlOK, TypeOK, Finish
  <1>. QED  BY <1>1, <1>2, CalmStep

LEMMA CalmGoto ==
  ASSUME IssuedInv, NEW t \in Tasks, NEW l \in Labels, Goto(t, l), local' = local,
         l \notin {"look", "empty", "reset", "incrput", "moving"} \cup KeyLabels,
         l \in RemoveLabels => pc[t] \in RemoveLabels,
         l \in RenameLabels => pc[t] \in RenameLabels,
         l \in MovingLabels => pc[t] \in MovingLabels,
         UNCHANGED <<nextId, holders>>, meta'[<<>>] # None
  PROVE  IssuedOK'
  <1>1. CalmOf(pc[t], local[t])
    BY DEF IssuedInv, IssuedOK
  <1>2. CalmOf(pc'[t], local'[t])
    BY <1>1 DEF IssuedInv, ControlOK, TypeOK, Goto, CalmOf
  <1>3. \A u \in Tasks \ {t} : pc'[u] = pc[u] /\ local'[u] = local[u]
    BY DEF IssuedInv, ControlOK, TypeOK, Goto
  <1>. QED  BY <1>2, <1>3, CalmStep

\* Metadata that are written are there.
LEMMA RootStays ==
  ASSUME IssuedInv, NEW p \in Paths, NEW h \in Hash, meta' = [meta EXCEPT ![p] = h]
  PROVE  meta'[<<>>] # None
  BY NamespaceAssumption DEF IssuedInv, IssuedOK, ControlOK, TypeOK

LEMMA BeginIssued ==
  ASSUME IssuedInv, NEW t \in Tasks, NEW op \in Ops, NEW r \in Locals,
         NEW l \in {"exists", "scan", "source", "put"}, Begin(t, op, r, l),
         r.op # "mount", l \in {"scan", "source"} => r.path # <<>>
  PROVE  IssuedOK'
  <1>1. CalmOf(pc'[t], local'[t])
    BY DEF IssuedInv, ControlOK, TypeOK, Begin, Goto, CalmOf
  <1>2. \A u \in Tasks \ {t} : pc'[u] = pc[u] /\ local'[u] = local[u]
    BY DEF IssuedInv, ControlOK, TypeOK, Begin, Goto
  <1>3. meta'[<<>>] # None /\ UNCHANGED <<nextId, holders>>
    BY DEF IssuedInv, IssuedOK, Begin
  <1>. QED  BY <1>1, <1>2, <1>3, CalmStep

LEMMA RequestIssued ==
  ASSUME Redis, IssuedInv, NEW t \in Tasks, Request(t)
  PROVE  IssuedOK'
  <1>1. ASSUME NEW op \in Creates, NEW p \in Paths, StartCreate(t, op, p)
        PROVE  IssuedOK'
    <2>. DEFINE r == [Blank EXCEPT !.op = op, !.path = p]
    <2>1. r \in Locals /\ r.op = op /\ op \in Ops /\ op # "mount"
      BY BeginType DEF Ops, Creates
    <2>. QED  BY <1>1, <2>1, BeginIssued DEF StartCreate
  <1>2. ASSUME NEW p \in Paths, StartRemove(t, p)
        PROVE  IssuedOK'
    <2>. DEFINE r == [Blank EXCEPT !.op = "remove", !.path = p]
    <2>1. r \in Locals /\ r.path = p /\ r.op = "remove" /\ "remove" \in Ops
      BY BeginType DEF Ops
    <2>. QED  BY <1>2, <2>1, BeginIssued DEF StartRemove
  <1>3. ASSUME NEW p \in Paths, NEW i \in Ids, NEW name \in Names, StartRename(t, p, i, name)
        PROVE  IssuedOK'
    <2>. DEFINE q == Append(idToPath[i], name)
                r == [Blank EXCEPT !.op = "rename", !.path = p, !.to = q, !.dir = i, !.name = name]
    <2>1. q \in Paths
      BY <1>3 DEF StartRename, Fits
    <2>2. r \in Locals /\ r.path = p /\ r.op = "rename" /\ "rename" \in Ops
      <3>1. "rename" \in Ops
        BY DEF Ops
      <3>2. q \in Paths
        BY <2>1
      <3>. HIDE DEF q
      <3>. QED  BY <3>1, <3>2, BlankType DEF Locals
    <2>. QED  BY <1>3, <2>2, BeginIssued DEF StartRename
  <1>4. ASSUME NEW i \in Ids, StartCommit(t, i)
        PROVE  IssuedOK'
    <2>. DEFINE p == idToPath[i]
                r == [Blank EXCEPT !.op = "commit", !.path = p, !.id = i]
    <2>1. p \in Paths
      BY <1>4 DEF StartCommit, IssuedInv, ControlOK, TypeOK
    <2>2. r \in Locals /\ r.op = "commit" /\ "commit" \in Ops
      BY <2>1, BeginCommitType DEF Ops
    <2>. QED  BY <1>4, <2>2, BeginIssued DEF StartCommit
  <1>5. ~StartMount(t)
    BY DEF StartMount, Keyed, IssuedInv, IssuedOK
  <1>. QED  BY <1>1, <1>2, <1>3, <1>4, <1>5 DEF Request

LEMMA CreateIssued ==
  ASSUME Redis, IssuedInv, NEW t \in Tasks, CreateStep(t)
  PROVE  IssuedOK'
  <1>. USE DEF CreateLabels, RemoveLabels, RenameLabels
  <1>1. CalmOf(pc[t], local[t]) /\ meta[<<>>] # None
    BY DEF IssuedInv, IssuedOK
  <1>2. ASSUME Exists(t)  PROVE IssuedOK'
    BY <1>1, <1>2, CalmFinish, CalmGoto DEF Exists
  <1>3. ASSUME Incr(t)  PROVE IssuedOK'
    <2>. DEFINE i == nextId + 1
    <2>1. nextId \in Nat /\ i \in Ids
      BY <1>3, NamespaceAssumption DEF Incr, Ids, IssuedInv, ControlOK, TypeOK
    <2>2. nextId' = i /\ holders' = [holders EXCEPT ![i] = @ \cup {local[t].path}] /\ meta' = meta
      BY <1>3 DEF Incr, Issue
    <2>3. holders[i] = {} /\ holders \in [Ids -> SUBSET Paths]
      BY <2>1 DEF IssuedInv, IssuedOK, ControlOK, TypeOK
    <2>4. \A j \in Ids : j > nextId' => holders'[j] = {}
      BY <2>1, <2>2, <2>3 DEF IssuedInv, IssuedOK, Ids
    <2>5. \A j \in Ids : \A p, q \in holders'[j] : p = q
      BY <2>1, <2>2, <2>3 DEF IssuedInv, IssuedOK
    <2>6. CalmOf(pc'[t], local'[t])
      BY <1>1, <1>3, <2>1 DEF Incr, Goto, CalmOf, IssuedInv, ControlOK, TypeOK, Locals
    <2>7. \A u \in Tasks : CalmOf(pc'[u], local'[u])
      BY <2>6, <1>3 DEF Incr, Goto, IssuedInv, IssuedOK, ControlOK, TypeOK
    <2>. QED  BY <1>1, <2>2, <2>4, <2>5, <2>7 DEF IssuedOK
  <1>4. ASSUME ZAdd(t)  PROVE IssuedOK'
    BY <1>1, <1>4, CalmGoto DEF ZAdd
  <1>5. ASSUME PutHash(t)  PROVE IssuedOK'
    <2>1. local[t].path \in Paths /\ [type |-> TypeOf(local[t].op), id |-> local[t].id] \in Hash
      BY <1>5, TaskKnows DEF PutHash, IssuedInv, ControlOf, Hash, TypeOf, Types
    <2>2. meta'[<<>>] # None
      BY <2>1, <1>5, RootStays DEF PutHash
    <2>. QED  BY <1>1, <1>5, <2>2, CalmGoto DEF PutHash, AfterHash
  <1>6. ASSUME PutLink(t)  PROVE IssuedOK'
    BY <1>1, <1>6, CalmGoto DEF PutLink
  <1>7. ASSUME PutPathToId(t)  PROVE IssuedOK'
    BY <1>1, <1>7, CalmGoto DEF PutPathToId
  <1>8. ASSUME PutIdToPath(t)  PROVE IssuedOK'
    BY <1>1, <1>8, CalmFinish DEF PutIdToPath, CalmOf
  <1>9. /\ ~IncrLost(t) /\ ~IncrAgain(t) /\ ~IncrPut(t)
        /\ ~MountLook(t) /\ ~MountEmpty(t) /\ ~MountReset(t)
    BY <1>1 DEF IncrLost, IncrAgain, IncrPut, MountLook, MountEmpty, MountReset, CalmOf
  <1>. QED  BY <1>2, <1>3, <1>4, <1>5, <1>6, <1>7, <1>8, <1>9 DEF CreateStep

LEMMA RemoveIssued ==
  ASSUME Redis, IssuedInv, NEW t \in Tasks, RemoveStep(t)
  PROVE  IssuedOK'
  <1>1. CalmOf(pc[t], local[t]) /\ meta[<<>>] # None
    BY DEF IssuedInv, IssuedOK
  <1>2. ASSUME Scan(t)  PROVE IssuedOK'
    BY <1>1, <1>2, CalmFinish, CalmGoto DEF Scan
  <1>3. ASSUME GetId(t)  PROVE IssuedOK'
    <2>1. CASE Finish(t)
      BY <2>1, <1>1, <1>3, CalmFinish DEF GetId
    <2>2. CASE /\ local' = [local EXCEPT ![t].id = pathToId[local[t].path]]
               /\ Goto(t, "zrem")
      <3>1. CalmOf(pc'[t], local'[t])
        BY <1>1, <1>3, <2>2 DEF GetId, Goto, CalmOf, IssuedInv, ControlOK, TypeOK, Locals
      <3>2. \A u \in Tasks \ {t} : pc'[u] = pc[u] /\ local'[u] = local[u]
        BY <2>2 DEF Goto, IssuedInv, ControlOK, TypeOK
      <3>. QED  BY <3>1, <3>2, <1>1, <1>3, CalmStep DEF GetId
    <2>. QED  BY <1>3, <2>1, <2>2 DEF GetId
  <1>4. ASSUME ZRem(t)  PROVE IssuedOK'
    BY <1>1, <1>4, CalmGoto DEF ZRem
  <1>5. ASSUME Delete(t)  PROVE IssuedOK'
    <2>1. local[t].path # <<>>
      BY <1>1, <1>5 DEF Delete, CalmOf
    <2>2. meta'[<<>>] # None
      BY <2>1, <1>1, <1>5, NamespaceAssumption DEF Delete, IssuedInv, ControlOK, TypeOK
    <2>. QED  BY <2>2, <1>5, CalmGoto DEF Delete
  <1>6. ASSUME DelPathToId(t)  PROVE IssuedOK'
    BY <1>1, <1>6, CalmGoto DEF DelPathToId
  <1>7. ASSUME DelIdToPath(t)  PROVE IssuedOK'
    BY <1>1, <1>7, CalmFinish DEF DelIdToPath
  <1>8. ~HalfDelete(t)
    BY DEF HalfDelete
  <1>. QED  BY <1>2, <1>3, <1>4, <1>5, <1>6, <1>7, <1>8 DEF RemoveStep

\* A path in or below one that is not the mounted directory is not it either.
LEMMA BelowNonempty ==
  ASSUME NEW p \in Paths, NEW q \in AtOrBelow(p), p # <<>>
  PROVE  q # <<>>
  <1>1. p \in Seq(Names) /\ q \in Seq(Names)
    BY NamespaceAssumption DEF AtOrBelow
  <1>2. Len(p) > 0
    BY <1>1, EmptySeq
  <1>. QED  BY <1>1, <1>2 DEF AtOrBelow, Prefix

LEMMA MovedNonempty ==
  ASSUME NEW p \in Paths, NEW q \in Paths, NEW to \in Paths, to # <<>>
  PROVE  Moved(q, p, to) # <<>>
  <1>1. p \in Seq(Names) /\ q \in Seq(Names) /\ to \in Seq(Names)
    BY NamespaceAssumption
  <1>. DEFINE rest == SubSeq(q, Len(p) + 1, Len(q))
  <1>2. rest \in Seq(Names)
    BY <1>1
  <1>3. Len(to) > 0
    BY <1>1, EmptySeq
  <1>4. Len(to \o rest) = Len(to) + Len(rest) /\ Len(rest) \in Nat
    <2>. HIDE DEF rest
    <2>. QED  BY <1>1, <1>2, ConcatProperties, LenProperties
  <1>5. Len(to \o rest) > 0
    <2>. HIDE DEF rest
    <2>. QED  BY <1>1, <1>3, <1>4
  <1>. QED  BY <1>5 DEF Moved

\* No request moves the metadata of the mounted directory away, or others there.
LEMMA MoveHashRoot ==
  ASSUME IssuedInv, NEW p \in Paths, NEW q \in Paths, p # <<>>, q # <<>>, MoveHash(p, q)
  PROVE  meta'[<<>>] # None
  BY NamespaceAssumption DEF MoveHash, IssuedInv, IssuedOK, ControlOK, TypeOK

\* What a renaming task knows.
LEMMA CalmRename ==
  ASSUME IssuedInv, NEW t \in Tasks, pc[t] \in MovingLabels
  PROVE  /\ local[t].path # <<>> /\ local[t].to # <<>>
         /\ \A q \in AtOrBelow(local[t].path) : q # <<>> /\ NewPath(t, q) # <<>>
  <1>1. local[t].path # <<>> /\ local[t].to # <<>>
    BY DEF IssuedInv, IssuedOK, CalmOf
  <1>2. local[t].path \in Paths /\ local[t].to \in Paths /\ AtOrBelow(local[t].path) \subseteq Paths
    BY RenameKnows DEF IssuedInv
  <1>. QED  BY <1>1, <1>2, BelowNonempty, MovedNonempty DEF NewPath

\* A renaming task goes on with the same paths.
LEMMA CalmOn ==
  ASSUME IssuedInv, NEW t \in Tasks, NEW l \in MovingLabels,
         pc[t] \in MovingLabels, pc'[t] = l,
         local'[t].op = local[t].op,
         local'[t].path = local[t].path, local'[t].to = local[t].to,
         l \notin KeyLabels, l = "moving" => local'[t].keys = {},
         \A u \in Tasks \ {t} : pc'[u] = pc[u] /\ local'[u] = local[u],
         UNCHANGED <<nextId, holders>>, meta'[<<>>] # None
  PROVE  IssuedOK'
  <1>1. CalmOf(pc'[t], local'[t])
    BY CalmRename DEF CalmOf, IssuedInv, IssuedOK
  <1>. QED  BY <1>1, CalmStep

LEMMA MovingIssued ==
  ASSUME Redis, IssuedInv, NEW t \in Tasks,
         \/ RenameSource(t) \/ RenameTarget(t) \/ RenameType(t)
         \/ Move(t) \/ Keys(t) \/ MoveKey(t)
  PROVE  IssuedOK'
  <1>1. CalmOf(pc[t], local[t]) /\ meta[<<>>] # None
    BY DEF IssuedInv, IssuedOK
  <1>2. ASSUME RenameSource(t)  PROVE IssuedOK'
    BY <1>1, <1>2, CalmFinish, CalmGoto DEF RenameSource
  <1>3. ASSUME RenameTarget(t)  PROVE IssuedOK'
    <2>1. CASE Finish(t)
      BY <2>1, <1>1, <1>3, CalmFinish DEF RenameTarget
    <2>2. CASE /\ idToPath[local[t].dir] # None
               /\ local' = [local EXCEPT ![t].to = Append(idToPath[local[t].dir], local[t].name)]
               /\ Fits(local[t].path, Append(idToPath[local[t].dir], local[t].name))
               /\ Goto(t, "type")
      <3>. DEFINE to == Append(idToPath[local[t].dir], local[t].name)
      <3>1. local'[t].to = to /\ local'[t].path = local[t].path /\ local'[t].op = local[t].op
        BY <1>3, <2>2, TaskKnows DEF RenameTarget, IssuedInv, ControlOK, TypeOK, Locals
      <3>2. to # <<>>
        <4>1. local[t].dir \in Ids /\ local[t].name \in Names
          BY <1>3, TaskKnows DEF RenameTarget, ControlOf, IssuedInv
        <4>2. idToPath[local[t].dir] \in Seq(Names)
          BY <4>1, <2>2, NamespaceAssumption DEF IssuedInv, ControlOK, TypeOK
        <4>. QED  BY <4>1, <4>2, AppendProperties
      <3>3. CalmOf(pc'[t], local'[t])
        BY <1>1, <1>3, <2>2, <3>1, <3>2
           DEF RenameTarget, Goto, CalmOf, IssuedInv, ControlOK, TypeOK
      <3>4. \A u \in Tasks \ {t} : pc'[u] = pc[u] /\ local'[u] = local[u]
        BY <2>2 DEF Goto, IssuedInv, ControlOK, TypeOK
      <3>. QED  BY <3>3, <3>4, <1>1, <1>3, CalmStep DEF RenameTarget
    <2>. QED  BY <1>3, <2>1, <2>2 DEF RenameTarget
  <1>4. ASSUME RenameType(t)  PROVE IssuedOK'
    BY <1>1, <1>4, CalmFinish, CalmGoto DEF RenameType
  <1>6. ASSUME Move(t)  PROVE IssuedOK'
    <2>1. /\ local[t].path \in Paths /\ local[t].to \in Paths
          /\ local[t].path # <<>> /\ local[t].to # <<>>
      BY <1>6, RenameKnows, CalmRename DEF Move, IssuedInv
    <2>2. meta'[<<>>] # None
      BY <2>1, <1>1, <1>6, MoveHashRoot, NamespaceAssumption
         DEF Move, IssuedInv, ControlOK, TypeOK
    <2>. QED  BY <2>2, <1>6, CalmGoto DEF Move
  <1>7. ASSUME Keys(t)  PROVE IssuedOK'
    <2>1. /\ local'[t].op = local[t].op /\ local'[t].path = local[t].path
          /\ local'[t].to = local[t].to /\ local'[t].keys = {} /\ pc'[t] = "moving"
          /\ \A u \in Tasks \ {t} : pc'[u] = pc[u] /\ local'[u] = local[u]
      BY <1>7, TaskKnows DEF Keys, Goto, IssuedInv, ControlOK, TypeOK, Locals
    <2>. QED  BY <2>1, <1>1, <1>7, CalmOn DEF Keys
  <1>8. ASSUME MoveKey(t)  PROVE IssuedOK'
    <2>1. PICK q \in local[t].todo :
            /\ local' = [local EXCEPT ![t].todo = @ \ {q}]
            /\ IF NewPath(t, q) # q THEN MoveHash(q, NewPath(t, q)) ELSE UNCHANGED hashes
      BY <1>8 DEF MoveKey
    <2>2. q \in AtOrBelow(local[t].path)
      BY <1>8, TaskKnows DEF MoveKey, ControlOf, IssuedInv
    <2>3. /\ q \in Paths /\ q # <<>>
          /\ NewPath(t, q) \in Paths /\ NewPath(t, q) # <<>>
      BY <2>2, <1>8, RenameKnows, CalmRename DEF MoveKey, IssuedInv
    <2>4. meta'[<<>>] # None
      BY <2>1, <2>3, <1>1, MoveHashRoot, NamespaceAssumption DEF IssuedInv, ControlOK, TypeOK
    <2>5. /\ local'[t].op = local[t].op /\ local'[t].path = local[t].path
          /\ local'[t].to = local[t].to /\ local'[t].keys = local[t].keys /\ pc'[t] = "moving"
          /\ \A u \in Tasks \ {t} : pc'[u] = pc[u] /\ local'[u] = local[u]
      BY <2>1, <1>8, TaskKnows DEF MoveKey, IssuedInv, ControlOK, TypeOK, Locals
    <2>6. local[t].keys = {}
      BY <1>1, <1>8 DEF MoveKey, CalmOf
    <2>. QED  BY <2>4, <2>5, <2>6, <1>8, CalmOn DEF MoveKey
  <1>. QED  BY <1>2, <1>3, <1>4, <1>6, <1>7, <1>8

\* A key is renamed in several steps over RocksDB only.
LEMMA NoKeySteps ==
  ASSUME IssuedInv, NEW t \in Tasks
  PROVE  ~(NextKey(t) \/ MoveData(t) \/ CutData(t) \/ SetMovedKey(t) \/ CutKey(t))
  BY DEF IssuedInv, IssuedOK, CalmOf, NextKey, MoveData, CutData, SetMovedKey, CutKey

LEMMA NodesIssued ==
  ASSUME IssuedInv, NEW t \in Tasks, Nodes(t) \/ RemNode(t) \/ AddNode(t)
  PROVE  IssuedOK'
  <1>1. meta[<<>>] # None
    BY DEF IssuedInv, IssuedOK
  <1>2. ASSUME Nodes(t)  PROVE IssuedOK'
    <2>1. /\ local'[t].op = local[t].op /\ local'[t].path = local[t].path
          /\ local'[t].to = local[t].to /\ pc'[t] = "node"
          /\ \A u \in Tasks \ {t} : pc'[u] = pc[u] /\ local'[u] = local[u]
      BY <1>2, TaskKnows DEF Nodes, Goto, IssuedInv, ControlOK, TypeOK, Locals
    <2>. QED  BY <2>1, <1>1, <1>2, CalmOn DEF Nodes
  <1>3. ASSUME RemNode(t)  PROVE IssuedOK'
    <2>1. PICK q \in local[t].todo :
            \/ local' = [local EXCEPT ![t].todo = @ \ {q}] /\ UNCHANGED pc
            \/ local' = [local EXCEPT ![t].todo = @ \ {q}, ![t].cur = q] /\ Goto(t, "renode")
      BY <1>3 DEF RemNode
    <2>2. /\ local'[t].op = local[t].op /\ local'[t].path = local[t].path
          /\ local'[t].to = local[t].to /\ pc'[t] \in {"node", "renode"}
          /\ \A u \in Tasks \ {t} : pc'[u] = pc[u] /\ local'[u] = local[u]
      BY <2>1, <1>3, TaskKnows DEF RemNode, Goto, IssuedInv, ControlOK, TypeOK, Locals
    <2>. QED  BY <2>2, <1>1, <1>3, CalmOn DEF RemNode
  <1>4. ASSUME AddNode(t)  PROVE IssuedOK'
    BY <1>1, <1>4, CalmGoto DEF AddNode
  <1>. QED  BY <1>2, <1>3, <1>4

LEMMA EntriesIssued ==
  ASSUME IssuedInv, NEW t \in Tasks,
         \/ Entries(t) \/ Entry(t) \/ EntryPath(t) \/ EntrySet(t) \/ EntryId(t) \/ EntryPut(t)
         \/ EntryTouch(t) \/ EntryTouchPut(t) \/ Renamed(t)
  PROVE  IssuedOK'
  <1>1. meta[<<>>] # None
    BY DEF IssuedInv, IssuedOK
  <1>2. ASSUME Entries(t)  PROVE IssuedOK'
    <2>1. /\ local'[t].op = local[t].op /\ local'[t].path = local[t].path
          /\ local'[t].to = local[t].to /\ pc'[t] = "entry"
          /\ \A u \in Tasks \ {t} : pc'[u] = pc[u] /\ local'[u] = local[u]
      BY <1>2, TaskKnows DEF Entries, Goto, IssuedInv, ControlOK, TypeOK, Locals
    <2>. QED  BY <2>1, <1>1, <1>2, CalmOn DEF Entries
  <1>3. ASSUME Entry(t)  PROVE IssuedOK'
    <2>1. PICK e \in local[t].todo :
            /\ local' = [local EXCEPT ![t].todo = @ \ {e}, ![t].cur = e]
            /\ Goto(t, "epath") \/ Goto(t, "entry")
      BY <1>3 DEF Entry
    <2>3. local[t] \in Locals
      BY <1>3, TaskKnows DEF Entry, IssuedInv
    <2>4. pc'[t] \in {"entry", "epath"} /\ \A u \in Tasks \ {t} : pc'[u] = pc[u]
      BY <2>1 DEF Goto, IssuedInv, ControlOK, TypeOK
    <2>2. /\ local'[t].op = local[t].op /\ local'[t].path = local[t].path
          /\ local'[t].to = local[t].to /\ pc'[t] \in {"entry", "epath"}
          /\ \A u \in Tasks \ {t} : pc'[u] = pc[u] /\ local'[u] = local[u]
      BY <2>1, <2>3, <2>4 DEF IssuedInv, ControlOK, TypeOK, Locals
    <2>. QED  BY <2>2, <1>1, <1>3, CalmOn DEF Entry
  <1>4. ASSUME EntryPath(t) \/ EntrySet(t) \/ EntryId(t) \/ EntryPut(t)  PROVE IssuedOK'
    BY <1>1, <1>4, CalmGoto DEF EntryPath, EntrySet, EntryId, EntryPut
  <1>5. ASSUME EntryTouch(t)  PROVE IssuedOK'
    <2>. DEFINE q == NewPath(t, local[t].cur[1])
    <2>1. q \in Paths /\ Merged(meta[q], local[t].cur[2]) \in Hash
      BY <1>5, EntryKnows, MergedType DEF EntryTouch, IssuedInv, ControlOK, TypeOK
    <2>2. meta'[<<>>] # None
      BY <2>1, <1>1, <1>5, RootStays DEF EntryTouch
    <2>3. /\ local'[t].op = local[t].op /\ local'[t].path = local[t].path
          /\ local'[t].to = local[t].to /\ pc'[t] \in {"entry", "etouchput"}
          /\ \A u \in Tasks \ {t} : pc'[u] = pc[u] /\ local'[u] = local[u]
      BY <1>5, TaskKnows DEF EntryTouch, Goto, IssuedInv, ControlOK, TypeOK, Locals
    <2>. QED  BY <2>2, <2>3, <1>5, CalmOn DEF EntryTouch
  <1>6. ASSUME EntryTouchPut(t)  PROVE IssuedOK'
    <2>. DEFINE q == NewPath(t, local[t].cur[1])
    <2>1. q \in Paths /\ Merged(local[t].hash, local[t].cur[2]) \in Hash
      BY <1>6, TaskKnows, EntryKnows, MergedType DEF EntryTouchPut, IssuedInv, Locals
    <2>2. meta'[<<>>] # None
      BY <2>1, <1>6, RootStays DEF EntryTouchPut
    <2>3. /\ local'[t].op = local[t].op /\ local'[t].path = local[t].path
          /\ local'[t].to = local[t].to /\ pc'[t] = "entry"
          /\ \A u \in Tasks \ {t} : pc'[u] = pc[u] /\ local'[u] = local[u]
      BY <1>6, TaskKnows DEF EntryTouchPut, Goto, IssuedInv, ControlOK, TypeOK, Locals
    <2>. QED  BY <2>2, <2>3, <1>6, CalmOn DEF EntryTouchPut
  <1>7. ASSUME Renamed(t)  PROVE IssuedOK'
    BY <1>1, <1>7, CalmFinish DEF Renamed
  <1>. QED  BY <1>2, <1>3, <1>4, <1>5, <1>6, <1>7

LEMMA CommitIssued ==
  ASSUME IssuedInv, NEW t \in Tasks, CommitStep(t)
  PROVE  IssuedOK'
  <1>1. CalmOf(pc[t], local[t]) /\ meta[<<>>] # None
    BY DEF IssuedInv, IssuedOK
  <1>2. ASSUME PutData(t)  PROVE IssuedOK'
    BY <1>1, <1>2, CalmGoto DEF PutData
  <1>3. ASSUME Touch(t)  PROVE IssuedOK'
    <2>1. local[t].path \in Paths /\ Merged(meta[local[t].path], None) \in Hash
      BY <1>3, TaskKnows, MergedType DEF Touch, IssuedInv
    <2>2. CASE Redis
      <3>1. meta'[<<>>] # None
        BY <2>1, <2>2, <1>3, RootStays DEF Touch
      <3>. QED  BY <3>1, <2>2, <1>3, CalmFinish DEF Touch
    <2>3. CASE ~Redis
      <3>1. local' = [local EXCEPT ![t].hash = meta[local[t].path]] /\ Goto(t, "touchput")
            /\ UNCHANGED <<nextId, holders, meta>>
        BY <2>3, <1>3 DEF Touch
      <3>2. local[t] \in Locals
        BY <1>3, TaskKnows DEF Touch, IssuedInv
      <3>3. CalmOf(pc'[t], local'[t])
        BY <3>1, <3>2, <1>1 DEF Goto, CalmOf, IssuedInv, ControlOK, TypeOK, Locals
      <3>4. \A u \in Tasks \ {t} : pc'[u] = pc[u] /\ local'[u] = local[u]
        BY <3>1 DEF Goto, IssuedInv, ControlOK, TypeOK
      <3>. QED  BY <3>1, <3>3, <3>4, <1>1, CalmStep
    <2>. QED  BY <2>2, <2>3
  <1>4. ASSUME TouchPut(t)  PROVE IssuedOK'
    <2>1. local[t].path \in Paths /\ Merged(local[t].hash, None) \in Hash
      BY <1>4, TaskKnows, MergedType DEF TouchPut, IssuedInv, Locals
    <2>2. meta'[<<>>] # None
      BY <2>1, <1>4, RootStays DEF TouchPut
    <2>. QED  BY <2>2, <1>4, CalmFinish DEF TouchPut
  <1>. QED  BY <1>2, <1>3, <1>4 DEF CommitStep

LEMMA FaultIssued ==
  ASSUME IssuedInv, NEW t \in Tasks, Fault(t)
  PROVE  IssuedOK'
  <1>1. meta[<<>>] # None /\ UNCHANGED <<nextId, holders, meta>> /\ pc[t] # "idle"
    BY DEF Fault, IssuedInv, IssuedOK
  <1>5. pc[t] \notin {"look"} \cup KeyLabels /\ (pc[t] = "moving" => local[t].keys = {})
    BY DEF IssuedInv, IssuedOK, CalmOf
  <1>2. CASE GoesOn(t) /\ Goto(t, After(t)[pc[t]]) /\ UNCHANGED local
    <2>. DEFINE l == After(t)[pc[t]]
    <2>1. pc[t] \in {"exists", "zadd", "hash", "link", "p2i", "zrem", "delete", "unpath",
                     "move", "etouch", "etouchput"}
      BY <1>2, <1>5 DEF GoesOn, After
    <2>2. /\ l \in {"incr", "hash", "link", "p2i", "i2p", "delete", "unpath", "unid", "keys", "entry"}
          /\ l \in {"delete", "unpath", "unid"} => pc[t] \in {"zrem", "delete", "unpath"}
          /\ l \in {"keys", "entry"} => pc[t] \in {"move", "etouch", "etouchput"}
      BY <2>1 DEF After, AfterHash
    <2>. HIDE DEF l
    <2>. QED  BY <2>2, <1>1, <1>2, CalmGoto DEF l
  <1>3. CASE pc[t] = "moving" /\ UNCHANGED pc
             /\ \E q \in local[t].todo : local' = [local EXCEPT ![t].todo = @ \ {q}]
    <2>1. PICK q \in local[t].todo : local' = [local EXCEPT ![t].todo = @ \ {q}]
      BY <1>3
    <2>2. local[t] \in Locals
      BY <1>1, TaskKnows DEF IssuedInv
    <2>3. /\ local'[t].op = local[t].op /\ local'[t].path = local[t].path
          /\ local'[t].to = local[t].to /\ local'[t].keys = local[t].keys /\ pc'[t] = "moving"
          /\ \A u \in Tasks \ {t} : pc'[u] = pc[u] /\ local'[u] = local[u]
      BY <2>1, <2>2, <1>3 DEF IssuedInv, ControlOK, TypeOK, Locals
    <2>. QED  BY <2>3, <1>1, <1>3, <1>5, CalmOn
  <1>4. CASE Finish(t)
    BY <1>1, <1>4, CalmFinish
  <1>. QED  BY <1>2, <1>3, <1>4, <1>5 DEF Fault

LEMMA RestartIssued ==
  ASSUME IssuedInv, Restart
  PROVE  IssuedOK'
  <1>1. \A t \in Tasks : CalmOf(pc'[t], local'[t])
    BY NamespaceAssumption DEF Restart, CalmOf, Blank, Ops
  <1>. QED  BY <1>1 DEF Restart, IssuedInv, IssuedOK

LEMMA NextIssued ==
  ASSUME Redis, IssuedInv, [Next]_vars
  PROVE  IssuedInv'
  <1>1. ControlOK'
    BY NextControl DEF IssuedInv
  <1>2. ASSUME NEW t \in Tasks, Request(t) \/ TaskStep(t) \/ Fault(t)
        PROVE  IssuedOK'
    <2>1. CASE RenameStep(t)
      BY <2>1, MovingIssued, NoKeySteps, NodesIssued, EntriesIssued DEF RenameStep
    <2>. QED  BY <1>2, <2>1, RequestIssued, CreateIssued, RemoveIssued, CommitIssued,
                 FaultIssued DEF TaskStep
  <1>3. ASSUME Restart  PROVE IssuedOK'
    BY <1>3, RestartIssued
  <1>4. ASSUME UNCHANGED vars  PROVE IssuedOK'
    BY <1>4 DEF vars, IssuedInv, IssuedOK
  <1>. QED  BY <1>1, <1>2, <1>3, <1>4 DEF Next, IssuedInv

\* Over Redis, whose INCR is atomic, no file id is ever given to two paths once
\* the directory is mounted, however many tasks create and MNT at the same time
\* and whatever fails (redis_data_store.rs, mod.rs, directories.rs).
THEOREM IdsUniqueAlways ==
  ASSUME Redis, Mounted
  PROVE  Spec => []IdsAreUnique
  <1>1. Init => IssuedInv
    BY InitControl, InitIssued DEF IssuedInv
  <1>2. IssuedInv /\ [Next]_vars => IssuedInv'
    BY NextIssued
  <1>3. IssuedInv => IdsAreUnique
    BY DEF IssuedInv, IssuedOK, IdsAreUnique
  <1>. QED  BY <1>1, <1>2, <1>3, PTL DEF Spec
=============================================================================
