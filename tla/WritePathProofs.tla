-------------------------- MODULE WritePathProofs --------------------------
(***************************************************************************)
(* The invariant of WritePath is inductive, for every set of files, paths  *)
(* and tasks, every number of permits and every bound, layer by layer: the *)
(* types, the local variables at every step, and the permits; then a       *)
(* channel belongs to one committer or loader, or to one file in           *)
(* active_writes, and its fate follows it; it holds what has arrived; no   *)
(* pack file is on its way to a commit; and the monitor takes only what is *)
(* complete.  The steps of WritePath are steps of BatchStore: what is      *)
(* stored under a path is what a prefix of the chunks written to one       *)
(* channel amounts to.                                                     *)
(***************************************************************************)
EXTENDS WritePathInvariant, ChannelBufferProofs, FiniteSetTheorems, TLAPS

USE ConstantsAssumption DEF ConstantsAssumption

-----------------------------------------------------------------------------
(***************************************************************************)
(* Layer 1.                                                                *)
(***************************************************************************)
Held == {p \in Procs : InCommit(p)}

\* A permit is taken when a process enters commit_write, given back when it
\* leaves, and not touched otherwise.
PermitMove(p, l) ==
  \/ permits' = permits /\ (pc[p] \in HeldLabels <=> l \in HeldLabels)
  \/ permits > 0 /\ permits' = permits - 1 /\ pc[p] \notin HeldLabels /\ l \in HeldLabels
  \/ permits' = permits + 1 /\ pc[p] \in HeldLabels /\ l \notin HeldLabels

LEMMA InCommitIsHeld == \A p : InCommit(p) <=> pc[p] \in HeldLabels
  BY DEF InCommit, Committing, HeldLabels, CommitLabels, StoreLabels

LEMMA HeldFinite ==
  ProcsType => IsFiniteSet(Held) /\ Cardinality(Held) \in Nat
  <1>1. IsFiniteSet(Procs)
    BY FS_Singleton, FS_Union DEF Procs
  <1>. QED  BY <1>1, FS_Subset, FS_CardinalityType DEF Held

LEMMA PermitsStep ==
  ASSUME ProcsType, PermitsAccounted, NEW p \in Procs, NEW l \in Labels,
         pc' = [pc EXCEPT ![p] = l], PermitMove(p, l)
  PROVE  permits' \in 0 .. Permits /\ PermitsAccounted'
  <1>1. permits \in Nat /\ Permits \in Nat
    BY DEF ProcsType
  <1>2. permits + Cardinality(Held) = Permits
    BY DEF PermitsAccounted, Held
  <1>3. p \in Held <=> pc[p] \in HeldLabels
    BY InCommitIsHeld DEF Held
  <1>4. Held' = {q \in Procs : pc'[q] \in HeldLabels}
    BY DEF Held, InCommit, Committing, HeldLabels, CommitLabels, StoreLabels
  <1>5. \A q \in Procs : q # p => (q \in Held <=> pc'[q] \in HeldLabels)
    BY InCommitIsHeld DEF Held, ProcsType
  <1>6. pc'[p] = l
    BY DEF ProcsType
  <1>7. Held \subseteq Procs
    BY DEF Held
  <1>8. IsFiniteSet(Held) /\ Cardinality(Held) \in Nat
    BY HeldFinite
  <1>9. permits' + Cardinality(Held') = Permits /\ permits' \in Nat /\ Cardinality(Held') \in Nat
    <2>1. CASE permits' = permits /\ (pc[p] \in HeldLabels <=> l \in HeldLabels)
      <3>1. Held' = Held
        BY <2>1, <1>3, <1>4, <1>5, <1>6, <1>7
      <3>. QED  BY <2>1, <3>1, <1>1, <1>2, <1>8
    <2>2. CASE permits > 0 /\ permits' = permits - 1 /\ pc[p] \notin HeldLabels /\ l \in HeldLabels
      <3>1. Held' = Held \cup {p} /\ p \notin Held
        BY <2>2, <1>3, <1>4, <1>5, <1>6, <1>7
      <3>2. Cardinality(Held') = Cardinality(Held) + 1
        BY <3>1, <1>8, FS_AddElement
      <3>. QED  BY <2>2, <3>2, <1>1, <1>2, <1>8
    <2>3. CASE permits' = permits + 1 /\ pc[p] \in HeldLabels /\ l \notin HeldLabels
      <3>1. Held' = Held \ {p} /\ p \in Held
        BY <2>3, <1>3, <1>4, <1>5, <1>6, <1>7
      <3>2. Cardinality(Held') = Cardinality(Held) - 1
        BY <3>1, <1>8, FS_RemoveElement
      <3>3. Cardinality(Held') \in Nat
        BY <3>1, <1>8, FS_RemoveElement, FS_CardinalityType
      <3>. QED  BY <2>3, <3>2, <3>3, <1>1, <1>2, <1>8
    <2>. QED  BY <2>1, <2>2, <2>3 DEF PermitMove
  <1>. QED  BY <1>1, <1>9 DEF PermitsAccounted, Held

\* The process variables after a step of process p to label l with local
\* variables r.
ProcsOK ==
  /\ ProcsType
  /\ PermitsAccounted
  /\ \A p \in Procs : ControlOf(pc[p], local[p], nchan)

LEMMA OneProcess ==
  ASSUME ControlOK,
         NEW p \in Procs, NEW l \in Labels, NEW r \in Locals,
         pc' = [pc EXCEPT ![p] = l], local' = [local EXCEPT ![p] = r],
         nchan' \in nchan .. MaxChannels, ControlOf(l, r, nchan'), PermitMove(p, l)
  PROVE  ProcsOK'
  <1>1. ProcsType /\ nchan \in Nat
    BY DEF ControlOK, TypeOK, BuffersType
  <1>2. ASSUME NEW q \in Procs
        PROVE  ControlOf(pc'[q], local'[q], nchan')
    <2>1. CASE q = p
      BY <2>1, <1>1 DEF ProcsType
    <2>2. CASE q # p
      <3>1. pc'[q] = pc[q] /\ local'[q] = local[q]
        BY <2>2, <1>1 DEF ProcsType
      <3>2. 1 .. nchan \subseteq 1 .. nchan'
        BY <1>1
      <3>. QED  BY <3>1, <3>2 DEF ControlOK, ControlOf
    <2>. QED  BY <2>1, <2>2
  <1>3. pc' \in [Procs -> Labels] /\ local' \in [Procs -> Locals]
    BY <1>1 DEF ProcsType
  <1>4. permits' \in 0 .. Permits /\ PermitsAccounted'
    BY <1>1, PermitsStep DEF ControlOK
  <1>. QED  BY <1>2, <1>3, <1>4 DEF ProcsOK, ProcsType

USE DEF Labels, FileLabels, PathLabels, ChanLabels, WriteLabels, CommitLabels, HeldLabels,
        StoreLabels, LoadLabels, ReadLabels, AttrLabels, RemoveLabels

LEMMA BlankType == Blank \in Locals
  BY DEF Blank, Locals, Requests

LEMMA FinishStep ==
  ASSUME ControlOK, NEW t \in Procs, Finish(t), nchan' = nchan, PermitMove(t, "idle")
  PROVE  ProcsOK'
  <1>1. "idle" \in Labels /\ ControlOf("idle", Blank, nchan')
    BY DEF ControlOf
  <1>2. nchan' \in nchan .. MaxChannels
    BY DEF ControlOK, TypeOK, BuffersType
  <1>. QED  BY <1>1, <1>2, BlankType, OneProcess DEF Finish

LEMMA GotoStep ==
  ASSUME ControlOK, NEW p \in Procs, NEW l \in Labels, Goto(p, l),
         local' = local, nchan' = nchan, ControlOf(l, local[p], nchan), PermitMove(p, l)
  PROVE  ProcsOK'
  <1>1. local' = [local EXCEPT ![p] = local[p]] /\ local[p] \in Locals
    BY DEF ControlOK, TypeOK, ProcsType
  <1>2. nchan' \in nchan .. MaxChannels
    BY DEF ControlOK, TypeOK, BuffersType
  <1>. QED  BY <1>1, <1>2, OneProcess DEF Goto

LEMMA BeginStep ==
  ASSUME ControlOK, NEW t \in Tasks, NEW op \in Ops, NEW f \in Files,
         NEW req \in Requests, NEW l \in {"channel", "git", "pack", "data", "attrpath", "rmmeta"},
         Begin(t, op, f, req, l), nchan' = nchan, permits' = permits,
         l = "channel" => req \in Chunk,
         l = "attrpath" => req \in Attrs
  PROVE  ProcsOK'
  <1>. DEFINE r == [Blank EXCEPT !.op = op, !.file = f, !.path = idToPath[f], !.req = req]
  <1>1. idToPath[f] \in Paths
    BY DEF ControlOK, TypeOK, StoreType, Begin
  <1>2. r \in Locals /\ r.file = f /\ r.path = idToPath[f] /\ r.req = req
    BY <1>1 DEF Blank, Locals
  <1>3. l \in Labels /\ ControlOf(l, r, nchan')
    BY <1>1, <1>2 DEF ControlOf
  <1>4. nchan' \in nchan .. MaxChannels
    BY DEF ControlOK, TypeOK, BuffersType
  <1>5. PermitMove(t, l)
    BY DEF Begin, PermitMove
  <1>. QED  BY ZenonT(40), <1>2, <1>3, <1>4, <1>5, OneProcess DEF Begin, Goto, Procs

LEMMA CommitReturnStep ==
  ASSUME ControlOK, NEW p \in Procs, NEW ok \in BOOLEAN, CommitReturn(p, ok),
         pc[p] \in HeldLabels, nchan' = nchan
  PROVE  ProcsOK'
  <1>1. nchan' \in nchan .. MaxChannels
    BY DEF ControlOK, TypeOK, BuffersType
  <1>2. \A l \in {"idle", "scanned", "data"} : l \in Labels /\ PermitMove(p, l)
    BY DEF PermitMove, CommitReturn
  <1>3. CASE p = Monitor
    <2>1. PICK l \in {"idle", "scanned"} : pc' = [pc EXCEPT ![p] = l]
      BY <1>3 DEF CommitReturn, Goto
    <2>2. ControlOf(l, Blank, nchan')
      BY DEF ControlOf
    <2>3. local' = [local EXCEPT ![p] = Blank]
      BY <1>3 DEF CommitReturn
    <2>4. l \in Labels /\ PermitMove(p, l)
      BY <1>2
    <2>. QED  BY <1>1, <2>1, <2>2, <2>3, <2>4, BlankType, OneProcess
  <1>4. CASE p \in Tasks /\ local[p].op = "read" /\ ok
    <2>. DEFINE r == [local[p] EXCEPT !.chan = None, !.size = None, !.image = None, !.seen = 0]
    <2>1. local[p] \in Locals /\ local[p].file \in Files
      BY DEF ControlOK, TypeOK, ProcsType, ControlOf
    <2>2. r \in Locals /\ r.file = local[p].file
      BY <2>1 DEF Locals
    <2>3. ControlOf("data", r, nchan')
      BY <2>1, <2>2 DEF ControlOf
    <2>4. pc' = [pc EXCEPT ![p] = "data"] /\ local' = [local EXCEPT ![p] = r]
      BY <1>4 DEF CommitReturn, Goto
    <2>. QED  BY <1>1, <1>2, <2>2, <2>3, <2>4, OneProcess
  <1>5. CASE p \in Tasks /\ ~(local[p].op = "read" /\ ok)
    BY <1>2, <1>5, FinishStep DEF CommitReturn
  <1>. QED  BY <1>3, <1>4, <1>5 DEF Procs

\* Setting a local variable keeps the type and the others.
LEMMA SetChan ==
  ASSUME NEW r \in Locals, NEW c \in Channels
  PROVE  /\ [r EXCEPT !.chan = c] \in Locals
         /\ [r EXCEPT !.chan = c].chan = c
         /\ [r EXCEPT !.chan = c].file = r.file
         /\ [r EXCEPT !.chan = c].path = r.path
         /\ [r EXCEPT !.chan = c].req = r.req
         /\ [r EXCEPT !.chan = c].op = r.op
  BY DEF Locals

LEMMA SetSize ==
  ASSUME NEW r \in Locals, NEW n \in Nat \cup {None, NoSize}
  PROVE  /\ [r EXCEPT !.size = n] \in Locals
         /\ [r EXCEPT !.size = n].size = n
         /\ [r EXCEPT !.size = n].file = r.file
         /\ [r EXCEPT !.size = n].path = r.path
         /\ [r EXCEPT !.size = n].chan = r.chan
         /\ [r EXCEPT !.size = n].req = r.req
  BY DEF Locals

LEMMA SetPath ==
  ASSUME NEW r \in Locals, NEW q \in Paths
  PROVE  /\ [r EXCEPT !.path = q] \in Locals
         /\ [r EXCEPT !.path = q].path = q
         /\ [r EXCEPT !.path = q].file = r.file
         /\ [r EXCEPT !.path = q].chan = r.chan
  BY DEF Locals

\* What the rest of the state has to satisfy beside the process variables.
DataType ==
  /\ BuffersType /\ StoreType /\ HistoryType
  /\ queue \subseteq Files
  /\ used \in [Budgets -> Nat]

LEMMA ControlParts == ControlOK <=> DataType /\ ProcsOK
  BY DEF ControlOK, TypeOK, DataType, ProcsOK

LEMMA ControlFacts ==
  ASSUME ControlOK, NEW p \in Procs
  PROVE  /\ DataType /\ ProcsOK
         /\ pc[p] \in Labels /\ local[p] \in Locals /\ ControlOf(pc[p], local[p], nchan)
         /\ nchan \in 0 .. MaxChannels
  BY ControlParts DEF ProcsOK, ProcsType, DataType, BuffersType

LEMMA SpendType ==
  ASSUME ControlOK, NEW b \in Budgets, Spend(b)
  PROVE  used' \in [Budgets -> Nat]
  BY DEF ControlOK, TypeOK, Spend

\* A chunk is written to a channel.
LEMMA WriteType ==
  ASSUME ControlOK, NEW c \in Channels, NEW ch \in Chunk, Write(c, ch)
  PROVE  buf' \in [Channels -> Buffer] /\ arrived' \in [Channels -> Seq(Chunk)]
  <1>1. buf \in [Channels -> Buffer] /\ arrived \in [Channels -> Seq(Chunk)]
    BY DEF ControlOK, TypeOK, BuffersType, HistoryType
  <1>2. Pushed(buf[c], ch) \in Buffer
    BY <1>1, OperationsType
  <1>3. Append(arrived[c], ch) \in Seq(Chunk)
    BY <1>1
  <1>. QED  BY <1>1, <1>2, <1>3 DEF Write

\* Layer 1 is preserved by the steps of handle_write.
LEMMA ControlWrite ==
  ASSUME ControlOK, NEW t \in Tasks, WriteStep(t)
  PROVE  ControlOK'
  <1>. t \in Procs
    BY DEF Procs
  <1>0. /\ DataType /\ ProcsOK
        /\ pc[t] \in Labels /\ local[t] \in Locals /\ ControlOf(pc[t], local[t], nchan)
        /\ nchan \in 0 .. MaxChannels
    BY ControlFacts
  <1>1. CASE GetChannel(t)
    <2>1. pc[t] = "channel" /\ local[t].file \in Files /\ local[t].path \in Paths
          /\ local[t].req \in Chunk
      BY <1>0, <1>1 DEF GetChannel, ControlOf
    <2>2. PICK c \in Channels :
            /\ local' = [local EXCEPT ![t].chan = c]
            /\ nchan' \in nchan .. MaxChannels /\ c <= nchan'
            /\ activeWrites' \in [Files -> (1 .. nchan') \cup {None}]
      <3>1. CASE Entry(t) # None
        <4>1. Entry(t) \in 1 .. nchan /\ Entry(t) \in Channels
          BY <2>1, <3>1, <1>0 DEF Entry, DataType, BuffersType, Channels
        <4>. QED  BY <1>0, <1>1, <3>1, <4>1 DEF GetChannel, DataType, BuffersType
      <3>2. CASE Entry(t) = None
        <4>1. nchan + 1 \in Channels /\ nchan' = nchan + 1 /\ nchan' \in nchan .. MaxChannels
              /\ local' = [local EXCEPT ![t].chan = nchan + 1]
          BY <1>0, <1>1, <3>2 DEF GetChannel, Channels
        <4>2. activeWrites' = [activeWrites EXCEPT ![local[t].file] = nchan + 1]
          BY <1>1, <3>2 DEF GetChannel
        <4>3. activeWrites' \in [Files -> (1 .. nchan') \cup {None}]
          <5>1. \A f \in Files : activeWrites[f] \in (1 .. nchan') \cup {None}
            BY <1>0, <4>1 DEF DataType, BuffersType
          <5>2. nchan + 1 \in 1 .. nchan'
            BY <1>0, <4>1
          <5>. QED  BY <1>0, <4>2, <5>1, <5>2 DEF DataType, BuffersType
        <4>4. nchan + 1 <= nchan'
          BY <1>0, <4>1
        <4>. USE <4>1
        <4>. WITNESS nchan + 1 \in Channels
        <4>. QED  BY <4>3, <4>4
      <3>. QED  BY <3>1, <3>2
    <2>3. ControlOf("push", [local[t] EXCEPT !.chan = c], nchan')
      BY <1>0, <2>1, <2>2, SetChan DEF ControlOf, Channels
    <2>4. PermitMove(t, "push")
      BY <1>1, <2>1 DEF GetChannel, PermitMove
    <2>5. [local[t] EXCEPT !.chan = c] \in Locals /\ "push" \in Labels
      BY <1>0, SetChan
    <2>6. ProcsOK'
      BY <1>1, <2>2, <2>3, <2>4, <2>5, OneProcess DEF GetChannel, Goto
    <2>7. DataType'
      BY <1>0, <1>1, <2>2
         DEF GetChannel, DataType, BuffersType, StoreType, HistoryType, store, history
    <2>. QED  BY <2>6, <2>7 DEF ControlOK, TypeOK, DataType, ProcsOK
  <1>2. CASE Push(t)
    <2>1. /\ pc[t] = "push" /\ local[t].chan \in Channels /\ local[t].chan \in 1 .. nchan
          /\ local[t].req \in Chunk
      BY <1>0, <1>2 DEF Push, ControlOf, Channels
    <2>2. ProcsOK'
      <3>1. ControlOf("total", local[t], nchan) /\ PermitMove(t, "total") /\ "total" \in Labels
        BY <1>0, <1>2, <2>1 DEF Push, ControlOf, PermitMove
      <3>. QED  BY <1>2, <3>1, GotoStep DEF Push
    <2>3. DataType'
      BY <1>0, <1>2, <2>1, WriteType
         DEF Push, DataType, BuffersType, StoreType, HistoryType, store
    <2>. QED  BY <2>2, <2>3 DEF ControlOK, TypeOK, DataType, ProcsOK
  <1>3. CASE ReadTotal(t)
    <2>1. pc[t] = "total" /\ local[t].chan \in Channels
      BY <1>0, <1>3 DEF ReadTotal, ControlOf, Channels
    <2>2. buf[local[t].chan].total \in Nat
      BY <1>0, <2>1 DEF DataType, BuffersType, Buffer
    <2>. DEFINE r == [local[t] EXCEPT !.size = buf[local[t].chan].total]
    <2>3. r \in Locals /\ "putsize" \in Labels
      BY <1>0, <2>2, SetSize
    <2>4. ControlOf("putsize", r, nchan')
      BY <1>0, <1>3, <2>1, <2>2, SetSize DEF ReadTotal, buffers, ControlOf
    <2>5. PermitMove(t, "putsize") /\ nchan' \in nchan .. MaxChannels
      BY <1>0, <1>3, <2>1 DEF ReadTotal, buffers, PermitMove
    <2>6. ProcsOK'
      BY <1>3, <2>3, <2>4, <2>5, OneProcess DEF ReadTotal, Goto
    <2>7. DataType'
      BY <1>0, <1>3
         DEF ReadTotal, DataType, BuffersType, StoreType, HistoryType, buffers, store, history
    <2>. QED  BY <2>6, <2>7 DEF ControlOK, TypeOK, DataType, ProcsOK
  <1>4. CASE PutSize(t)
    <2>1. pc[t] = "putsize" /\ local[t].size \in Nat \cup {None, NoSize}
      BY <1>0, <1>4 DEF PutSize, Locals
    <2>2. ProcsOK'
      <3>1. ControlOf("checkpath", local[t], nchan) /\ PermitMove(t, "checkpath")
            /\ "checkpath" \in Labels
        BY <1>0, <1>4, <2>1 DEF PutSize, ControlOf, PermitMove
      <3>. QED  BY <1>4, <3>1, GotoStep DEF PutSize, buffers
    <2>3. DataType'
      BY <1>0, <1>4, <2>1
         DEF PutSize, DataType, BuffersType, StoreType, HistoryType, buffers, history
    <2>. QED  BY <2>2, <2>3 DEF ControlOK, TypeOK, DataType, ProcsOK
  <1>5. ASSUME pc[t] \in {"checklast", "mark"}, CommitIfGit(t), nchan' = nchan, permits' = permits
        PROVE  ProcsOK'
    <2>1. CASE IsGit(local[t].path)
      <3>1. ControlOf("acquire", local[t], nchan) /\ PermitMove(t, "acquire")
            /\ "acquire" \in Labels
        BY <1>0, <1>5 DEF ControlOf, PermitMove
      <3>. QED  BY <1>5, <2>1, <3>1, GotoStep DEF CommitIfGit
    <2>2. CASE ~IsGit(local[t].path)
      <3>1. PermitMove(t, "idle")
        BY <1>5 DEF PermitMove
      <3>. QED  BY <1>5, <2>2, <3>1, FinishStep DEF CommitIfGit
    <2>. QED  BY <2>1, <2>2
  <1>8. CASE CheckPath(t)
    <2>1. pc[t] = "checkpath" /\ nchan' = nchan /\ permits' = permits
      BY <1>8 DEF CheckPath, buffers
    <2>2. ASSUME Goto(t, "checklast"), local' = local
          PROVE  ProcsOK'
      <3>1. ControlOf("checklast", local[t], nchan) /\ PermitMove(t, "checklast")
            /\ "checklast" \in Labels
        BY <1>0, <2>1 DEF ControlOf, PermitMove
      <3>. QED  BY <2>1, <2>2, <3>1, GotoStep
    <2>3. ASSUME Finish(t)
          PROVE  ProcsOK'
      <3>1. PermitMove(t, "idle")
        BY <2>1 DEF PermitMove
      <3>. QED  BY <2>1, <2>3, <3>1, FinishStep
    <2>4. ProcsOK'
      BY <1>8, <2>2, <2>3 DEF CheckPath
    <2>5. DataType'
      BY <1>0, <1>8
         DEF CheckPath, DataType, BuffersType, StoreType, HistoryType, buffers, store, history
    <2>. QED  BY <2>4, <2>5 DEF ControlOK, TypeOK, DataType, ProcsOK
  <1>6. CASE CheckLast(t)
    <2>1. pc[t] = "checklast" /\ nchan' = nchan /\ permits' = permits
      BY <1>6 DEF CheckLast, buffers
    <2>2. ASSUME Goto(t, "mark"), local' = local
          PROVE  ProcsOK'
      <3>1. ControlOf("mark", local[t], nchan) /\ PermitMove(t, "mark") /\ "mark" \in Labels
        BY <1>0, <2>1 DEF ControlOf, PermitMove
      <3>. QED  BY <2>1, <2>2, <3>1, GotoStep
    <2>3. ASSUME Finish(t)
          PROVE  ProcsOK'
      <3>1. PermitMove(t, "idle")
        BY <2>1 DEF PermitMove
      <3>. QED  BY <2>1, <2>3, <3>1, FinishStep
    <2>4. ProcsOK'
      BY <1>5, <1>6, <2>1, <2>2, <2>3 DEF CheckLast
    <2>5. DataType'
      BY <1>0, <1>6
         DEF CheckLast, DataType, BuffersType, StoreType, HistoryType, buffers, store, history
    <2>. QED  BY <2>4, <2>5 DEF ControlOK, TypeOK, DataType, ProcsOK
  <1>7. CASE Mark(t)
    <2>1. ProcsOK'
      BY <1>5, <1>7 DEF Mark
    <2>2. local[t].file \in Files /\ Entry(t) \in Channels \cup {None}
      BY <1>0, <1>7 DEF Mark, ControlOf, Entry, DataType, BuffersType, Channels
    <2>3. buf' \in [Channels -> Buffer]
      <3>1. CASE Entry(t) = None
        BY <1>0, <1>7, <3>1 DEF Mark, DataType, BuffersType
      <3>2. CASE Entry(t) # None
        <4>1. Entry(t) \in Channels /\ buf[Entry(t)] \in Buffer
          BY <1>0, <2>2, <3>2 DEF DataType, BuffersType
        <4>2. Completed(buf[Entry(t)]) \in Buffer
          BY <4>1 DEF Completed, Buffer
        <4>. QED  BY <1>0, <1>7, <3>2, <4>1, <4>2 DEF Mark, DataType, BuffersType
      <3>. QED  BY <3>1, <3>2
    <2>4. DataType'
      BY <1>0, <1>7, <2>3
         DEF Mark, DataType, BuffersType, StoreType, HistoryType, store, history
    <2>. QED  BY <2>1, <2>4 DEF ControlOK, TypeOK, DataType, ProcsOK
  <1>. QED  BY <1>1, <1>2, <1>3, <1>4, <1>6, <1>7, <1>8 DEF WriteStep

\* ... by the steps of commit_write, whoever runs it.
LEMMA ControlCommit ==
  ASSUME ControlOK, NEW p \in Procs, CommitStep(p)
  PROVE  ControlOK'
  <1>0. /\ DataType /\ ProcsOK
        /\ pc[p] \in Labels /\ local[p] \in Locals /\ ControlOf(pc[p], local[p], nchan)
        /\ nchan \in 0 .. MaxChannels
    BY ControlFacts
  <1>1. CASE Acquire(p)
    <2>1. ControlOf("take", local[p], nchan) /\ PermitMove(p, "take") /\ "take" \in Labels
      BY <1>0, <1>1 DEF Acquire, ControlOf, PermitMove
    <2>2. ProcsOK'
      BY <1>1, <2>1, GotoStep DEF Acquire, buffers
    <2>3. DataType'
      BY <1>0, <1>1
         DEF Acquire, DataType, BuffersType, StoreType, HistoryType, buffers, store, history
    <2>. QED  BY <2>2, <2>3 DEF ControlOK, TypeOK, DataType, ProcsOK
  <1>2. CASE Take(p)
    <2>1. /\ pc[p] = "take" /\ local[p].file \in Files
          /\ Entry(p) \in (1 .. nchan) \cup {None}
      BY <1>0, <1>2 DEF Take, ControlOf, Entry, DataType, BuffersType
    <2>2. CASE Entry(p) # None
      <3>. DEFINE r == [local[p] EXCEPT !.chan = Entry(p)]
      <3>1. Entry(p) \in 1 .. nchan /\ Entry(p) \in Channels
        BY <1>0, <2>1, <2>2 DEF Channels
      <3>2. ControlOf("path", r, nchan') /\ r \in Locals /\ "path" \in Labels
        BY <1>0, <1>2, <2>1, <3>1, SetChan DEF Take, ControlOf
      <3>3. PermitMove(p, "path") /\ nchan' \in nchan .. MaxChannels
        <4>1. permits' = permits /\ nchan' = nchan
          BY <1>2, <2>2 DEF Take
        <4>. QED  BY <1>0, <2>1, <4>1 DEF PermitMove
      <3>4. ProcsOK'
        BY <1>2, <2>2, <3>2, <3>3, OneProcess DEF Take, Goto
      <3>5. /\ activeWrites' = [activeWrites EXCEPT ![local[p].file] = None]
            /\ sealed' = [sealed EXCEPT ![Entry(p)] = Len(arrived[Entry(p)])]
            /\ fate' = [fate EXCEPT ![Entry(p)] = "sealed"]
        BY <1>2, <2>2 DEF Take
      <3>6. Len(arrived[Entry(p)]) \in Nat
        BY <1>0, <3>1 DEF DataType, HistoryType
      <3>7. HistoryType' /\ BuffersType'
        BY <1>0, <1>2, <3>1, <3>5, <3>6
           DEF Take, DataType, BuffersType, HistoryType, Fates
      <3>8. DataType'
        BY <1>0, <1>2, <3>7 DEF Take, DataType, StoreType, store
      <3>. QED  BY <3>4, <3>8 DEF ControlOK, TypeOK, DataType, ProcsOK
    <2>3. CASE Entry(p) = None
      <3>1. CommitReturn(p, TRUE) /\ nchan' = nchan
        BY <1>2, <2>3 DEF Take
      <3>2. ProcsOK'
        BY <2>1, <3>1, CommitReturnStep
      <3>3. DataType'
        BY <1>0, <1>2, <2>3
           DEF Take, DataType, BuffersType, StoreType, HistoryType, store
      <3>. QED  BY <3>2, <3>3 DEF ControlOK, TypeOK, DataType, ProcsOK
    <2>. QED  BY <2>2, <2>3
  <1>3. CASE CommitPath(p)
    <2>1. /\ pc[p] = "path" /\ local[p].file \in Files /\ local[p].chan \in 1 .. nchan
          /\ local[p].chan \in Channels
      BY <1>0, <1>3 DEF CommitPath, ControlOf, Channels
    <2>2. CASE idToPath[local[p].file] # None
      <3>. DEFINE r == [local[p] EXCEPT !.path = idToPath[local[p].file]]
      <3>1. idToPath[local[p].file] \in Paths
        BY <1>0, <2>1, <2>2 DEF DataType, StoreType
      <3>2. ControlOf("readall", r, nchan') /\ r \in Locals /\ "readall" \in Labels
        BY <1>0, <1>3, <2>1, <3>1, SetPath DEF CommitPath, ControlOf, buffers
      <3>3. PermitMove(p, "readall") /\ nchan' \in nchan .. MaxChannels
        <4>1. permits' = permits /\ nchan' = nchan
          BY <1>3, <2>2 DEF CommitPath, buffers
        <4>. QED  BY <1>0, <2>1, <4>1 DEF PermitMove
      <3>4. ProcsOK'
        BY <1>3, <2>2, <3>2, <3>3, OneProcess DEF CommitPath, Goto
      <3>5. DataType'
        BY <1>0, <1>3, <2>2
           DEF CommitPath, DataType, BuffersType, StoreType, HistoryType, buffers, store
      <3>. QED  BY <3>4, <3>5 DEF ControlOK, TypeOK, DataType, ProcsOK
    <2>3. CASE idToPath[local[p].file] = None
      <3>1. CommitReturn(p, FALSE) /\ nchan' = nchan
        BY <1>3, <2>3 DEF CommitPath, buffers
      <3>2. ProcsOK'
        BY <2>1, <3>1, CommitReturnStep
      <3>3. fate' = [fate EXCEPT ![local[p].chan] = "lost"]
        BY <1>3, <2>3 DEF CommitPath
      <3>4. DataType'
        BY <1>0, <1>3, <3>3
           DEF CommitPath, DataType, BuffersType, StoreType, HistoryType, Fates, buffers, store
      <3>. QED  BY <3>2, <3>4 DEF ControlOK, TypeOK, DataType, ProcsOK
    <2>. QED  BY <2>2, <2>3
  <1>4. CASE CommitRead(p)
    <2>. DEFINE c   == local[p].chan
                img == ReadAll(buf[c].log, buf[c].total)
                k   == Len(arrived[c])
                r   == [local[p] EXCEPT !.image = img, !.seen = k]
    <2>1. /\ pc[p] = "readall" /\ local[p].file \in Files /\ local[p].path \in Paths
          /\ c \in 1 .. nchan /\ c \in Channels
      BY <1>0, <1>4 DEF CommitRead, ControlOf, Channels
    <2>2. buf[c].log \in Seq(Chunk) /\ buf[c].total \in Nat /\ k \in Nat
      BY <1>0, <2>1 DEF DataType, BuffersType, HistoryType, Buffer
    <2>3. img \in Image
      BY <2>2, ReadAllType
    <2>4. local' = [local EXCEPT ![p] = r]
      BY <1>0, <1>4 DEF CommitRead, ProcsOK, ProcsType
    <2>5. r \in Locals /\ r.file = local[p].file /\ r.path = local[p].path
          /\ r.chan = local[p].chan /\ r.image = img
      BY <1>0, <2>2, <2>3 DEF Locals
    <2>6. ControlOf("store", r, nchan') /\ "store" \in Labels
      BY <1>4, <2>1, <2>3, <2>5 DEF CommitRead, ControlOf, buffers
    <2>7. PermitMove(p, "store") /\ nchan' \in nchan .. MaxChannels
      BY <1>0, <1>4, <2>1 DEF CommitRead, PermitMove, buffers
    <2>8. ProcsOK'
      BY <1>4, <2>4, <2>5, <2>6, <2>7, OneProcess DEF CommitRead, Goto
    <2>9. DataType'
      BY <1>0, <1>4
         DEF CommitRead, DataType, BuffersType, StoreType, HistoryType, buffers, store, history
    <2>. QED  BY <2>8, <2>9 DEF ControlOK, TypeOK, DataType, ProcsOK
  <1>5. CASE CommitStore(p)
    <2>1. pc[p] = "store" /\ local[p].image \in Image
      BY <1>0, <1>5 DEF CommitStore, ControlOf
    <2>2. ControlOf("touch", local[p], nchan) /\ PermitMove(p, "touch") /\ "touch" \in Labels
      BY <1>0, <1>5, <2>1 DEF CommitStore, ControlOf, PermitMove
    <2>3. ProcsOK'
      BY <1>5, <2>2, GotoStep DEF CommitStore, buffers
    <2>4. StoreType' /\ HistoryType'
      BY <1>0, <1>5, <2>1 DEF CommitStore, DataType, StoreType, HistoryType, Fates
    <2>5. DataType'
      BY <1>0, <1>5, <2>4 DEF CommitStore, DataType, BuffersType, buffers
    <2>. QED  BY <2>3, <2>5 DEF ControlOK, TypeOK, DataType, ProcsOK
  <1>6. CASE CommitTouch(p)
    <2>. DEFINE n == meta[local[p].path]
                r == [local[p] EXCEPT !.size = n]
    <2>1. /\ pc[p] = "touch" /\ local[p].file \in Files /\ local[p].path \in Paths
          /\ local[p].chan \in 1 .. nchan
      BY <1>0, <1>6 DEF CommitTouch, ControlOf
    <2>2. n \in Nat \cup {None, NoSize}
      BY <1>0, <2>1 DEF DataType, StoreType
    <2>3. ControlOf("puttimes", r, nchan') /\ r \in Locals /\ "puttimes" \in Labels
      BY <1>0, <1>6, <2>1, <2>2, SetSize DEF CommitTouch, ControlOf, buffers
    <2>4. PermitMove(p, "puttimes") /\ nchan' \in nchan .. MaxChannels
      BY <1>0, <1>6, <2>1 DEF CommitTouch, PermitMove, buffers
    <2>5. ProcsOK'
      BY <1>6, <2>3, <2>4, OneProcess DEF CommitTouch, Goto
    <2>6. DataType'
      BY <1>0, <1>6
         DEF CommitTouch, DataType, BuffersType, StoreType, HistoryType, buffers, store, history
    <2>. QED  BY <2>5, <2>6 DEF ControlOK, TypeOK, DataType, ProcsOK
  <1>7. CASE CommitTimes(p)
    <2>1. pc[p] = "puttimes" /\ local[p].path \in Paths /\ local[p].size \in Nat \cup {None, NoSize}
      BY <1>0, <1>7 DEF CommitTimes, ControlOf, Locals
    <2>2. TimesPut(p) \in Nat \cup {NoSize}
      BY <1>0, <2>1 DEF TimesPut, DataType, StoreType
    <2>3. ControlOf("clear", local[p], nchan) /\ PermitMove(p, "clear") /\ "clear" \in Labels
      BY <1>0, <1>7, <2>1 DEF CommitTimes, ControlOf, PermitMove
    <2>4. ProcsOK'
      BY <1>7, <2>3, GotoStep DEF CommitTimes, buffers
    <2>5. DataType'
      BY <1>0, <1>7, <2>2
         DEF CommitTimes, DataType, BuffersType, StoreType, HistoryType, buffers, history
    <2>. QED  BY <2>4, <2>5 DEF ControlOK, TypeOK, DataType, ProcsOK
  <1>8. CASE CommitClear(p)
    <2>1. pc[p] = "clear" /\ local[p].chan \in Channels
      BY <1>0, <1>8 DEF CommitClear, ControlOf, Channels
    <2>2. CommitReturn(p, TRUE) /\ nchan' = nchan
      BY <1>8 DEF CommitClear
    <2>3. ProcsOK'
      BY <2>1, <2>2, CommitReturnStep
    <2>4. Cleared(buf[local[p].chan]) \in Buffer
      BY <1>0, <2>1, OperationsType DEF DataType, BuffersType
    <2>5. DataType'
      BY <1>0, <1>8, <2>1, <2>4
         DEF CommitClear, DataType, BuffersType, StoreType, HistoryType, store, history
    <2>. QED  BY <2>3, <2>5 DEF ControlOK, TypeOK, DataType, ProcsOK
  <1>. QED  BY <1>1, <1>2, <1>3, <1>4, <1>5, <1>6, <1>7, <1>8 DEF CommitStep

\* ... by the steps of read.
LEMMA ControlRead ==
  ASSUME ControlOK, NEW t \in Tasks, ReadStep(t)
  PROVE  ControlOK'
  <1>. t \in Procs
    BY DEF Procs
  <1>0. /\ DataType /\ ProcsOK
        /\ pc[t] \in Labels /\ local[t] \in Locals /\ ControlOf(pc[t], local[t], nchan)
        /\ nchan \in 0 .. MaxChannels
    BY ControlFacts
  <1>1. CASE GitRead(t)
    <2>1. PICK l \in {"acquire", "data"} : Goto(t, l)
      BY <1>1 DEF GitRead
    <2>2. ControlOf(l, local[t], nchan) /\ PermitMove(t, l) /\ l \in Labels
      BY <1>0, <1>1 DEF GitRead, ControlOf, PermitMove
    <2>3. ProcsOK'
      BY <1>1, <2>1, <2>2, GotoStep DEF GitRead, buffers
    <2>4. DataType'
      BY <1>0, <1>1
         DEF GitRead, DataType, BuffersType, StoreType, HistoryType, buffers, store, history
    <2>. QED  BY <2>3, <2>4 DEF ControlOK, TypeOK, DataType, ProcsOK
  <1>2. CASE ReadData(t)
    <2>1. PermitMove(t, "idle") /\ nchan' = nchan
      BY <1>2 DEF ReadData, PermitMove, buffers
    <2>2. ProcsOK'
      BY <1>2, <2>1, FinishStep DEF ReadData
    <2>3. DataType'
      BY <1>0, <1>2
         DEF ReadData, DataType, BuffersType, StoreType, HistoryType, buffers, store, history
    <2>. QED  BY <2>2, <2>3 DEF ControlOK, TypeOK, DataType, ProcsOK
  <1>3. CASE PackRead(t)
    <2>1. /\ pc[t] = "pack" /\ local[t].file \in Files /\ local[t].path \in Paths
          /\ Entry(t) \in (1 .. nchan) \cup {None}
      BY <1>0, <1>3 DEF PackRead, ControlOf, Entry, DataType, BuffersType
    <2>2. ASSUME NEW c \in Channels, NEW l \in {"range", "load"}, Goto(t, l),
                 local' = [local EXCEPT ![t].chan = c],
                 nchan' \in nchan .. MaxChannels, c \in 1 .. nchan'
          PROVE  ProcsOK'
      <3>1. ControlOf(l, [local[t] EXCEPT !.chan = c], nchan') /\ l \in Labels
            /\ [local[t] EXCEPT !.chan = c] \in Locals
        BY <1>0, <2>1, <2>2, SetChan DEF ControlOf
      <3>2. PermitMove(t, l)
        BY <1>3, <2>1 DEF PackRead, PermitMove
      <3>. QED  BY <2>2, <3>1, <3>2, OneProcess DEF Goto
    <2>3. CASE Entry(t) # None
      <3>1. Entry(t) \in Channels /\ Entry(t) \in 1 .. nchan
        BY <1>0, <2>1, <2>3 DEF Channels
      <3>2. nchan' = nchan /\ local' = [local EXCEPT ![t].chan = Entry(t)] /\ Goto(t, "range")
        BY <1>3, <2>3 DEF PackRead
      <3>3. nchan' \in nchan .. MaxChannels /\ Entry(t) \in 1 .. nchan'
            /\ "range" \in {"range", "load"}
        BY <1>0, <3>1, <3>2
      <3>4. ProcsOK'
        BY <2>2, <3>1, <3>2, <3>3
      <3>5. DataType'
        BY <1>0, <1>3, <3>2
           DEF PackRead, DataType, BuffersType, StoreType, HistoryType, store, history
      <3>. QED  BY <3>4, <3>5 DEF ControlOK, TypeOK, DataType, ProcsOK
    <2>4. CASE Entry(t) = None
      <3>1. nchan' = nchan + 1 /\ local' = [local EXCEPT ![t].chan = nchan + 1]
            /\ Goto(t, "load") /\ nchan < MaxChannels
        BY <1>3, <2>4 DEF PackRead
      <3>2. nchan + 1 \in Channels /\ nchan + 1 \in 1 .. nchan'
            /\ nchan' \in nchan .. MaxChannels
        BY <1>0, <3>1 DEF Channels
      <3>3. ProcsOK'
        BY <2>2, <3>1, <3>2
      <3>4. BuffersType'
        <4>1. 1 .. nchan \subseteq 1 .. nchan'
          BY <1>0, <3>1
        <4>2. activeWrites' = activeWrites /\ buf' = buf
          BY <1>3 DEF PackRead
        <4>. QED  BY <1>0, <3>2, <4>1, <4>2 DEF DataType, BuffersType
      <3>5. DataType'
        BY <1>0, <1>3, <3>4 DEF PackRead, DataType, StoreType, HistoryType, store, history
      <3>. QED  BY <3>3, <3>5 DEF ControlOK, TypeOK, DataType, ProcsOK
    <2>. QED  BY <2>3, <2>4
  <1>4. CASE LoadExisting(t)
    <2>1. /\ pc[t] = "load" /\ local[t].file \in Files /\ local[t].chan \in 1 .. nchan
          /\ local[t].chan \in Channels
      BY <1>0, <1>4 DEF LoadExisting, ControlOf, Channels
    <2>2. CASE idToPath[local[t].file] # None
      <3>. DEFINE ch == [off |-> 0, bytes |-> Content(idToPath[local[t].file])]
      <3>1. idToPath[local[t].file] \in Paths
        BY <1>0, <2>1, <2>2 DEF DataType, StoreType
      <3>2. Content(idToPath[local[t].file]) \in Image
        <4>1. data[idToPath[local[t].file]] \in Image \cup {None}
          BY <1>0, <3>1 DEF DataType, StoreType
        <4>2. <<>> \in Image
          BY DEF Image
        <4>. QED  BY <4>1, <4>2 DEF Content
      <3>3. ch \in Chunk
        BY <3>2 DEF Chunk
      <3>4. Write(local[t].chan, ch) /\ Goto(t, "insert") /\ local' = local /\ fate' = fate
        BY <1>4, <2>2 DEF LoadExisting
      <3>5. buf' \in [Channels -> Buffer] /\ arrived' \in [Channels -> Seq(Chunk)]
        BY <2>1, <3>3, <3>4, WriteType
      <3>6. ControlOf("insert", local[t], nchan) /\ PermitMove(t, "insert") /\ "insert" \in Labels
        BY <1>0, <1>4, <2>1 DEF LoadExisting, ControlOf, PermitMove
      <3>7. ProcsOK'
        BY <1>4, <3>4, <3>6, GotoStep DEF LoadExisting
      <3>8. DataType'
        BY <1>0, <1>4, <3>4, <3>5
           DEF LoadExisting, DataType, BuffersType, StoreType, HistoryType, store
      <3>. QED  BY <3>7, <3>8 DEF ControlOK, TypeOK, DataType, ProcsOK
    <2>3. CASE idToPath[local[t].file] = None
      <3>1. fate' = [fate EXCEPT ![local[t].chan] = "lost"] /\ Finish(t)
            /\ buf' = buf /\ arrived' = arrived
        BY <1>4, <2>3 DEF LoadExisting
      <3>2. PermitMove(t, "idle") /\ nchan' = nchan
        BY <1>4, <2>1 DEF LoadExisting, PermitMove
      <3>3. ProcsOK'
        BY <3>1, <3>2, FinishStep
      <3>4. DataType'
        BY <1>0, <1>4, <3>1
           DEF LoadExisting, DataType, BuffersType, StoreType, HistoryType, Fates, store
      <3>. QED  BY <3>3, <3>4 DEF ControlOK, TypeOK, DataType, ProcsOK
    <2>. QED  BY <2>2, <2>3
  <1>5. CASE InsertLoaded(t)
    <2>1. /\ pc[t] = "insert" /\ local[t].file \in Files /\ local[t].chan \in 1 .. nchan
      BY <1>0, <1>5 DEF InsertLoaded, ControlOf
    <2>2. ControlOf("range", local[t], nchan) /\ PermitMove(t, "range") /\ "range" \in Labels
      BY <1>0, <1>5, <2>1 DEF InsertLoaded, ControlOf, PermitMove
    <2>3. ProcsOK'
      BY <1>5, <2>2, GotoStep DEF InsertLoaded
    <2>4. BuffersType' /\ HistoryType'
      BY <1>0, <1>5, <2>1 DEF InsertLoaded, DataType, BuffersType, HistoryType, Fates
    <2>5. DataType'
      BY <1>0, <1>5, <2>4 DEF InsertLoaded, DataType, StoreType, store
    <2>. QED  BY <2>3, <2>5 DEF ControlOK, TypeOK, DataType, ProcsOK
  <1>6. CASE RangeRead(t)
    <2>1. pc[t] = "range"
      BY <1>6 DEF RangeRead
    <2>2. Finish(t) \/ \E l \in {"spinning", "panicked"} : Goto(t, l) /\ local' = local
      BY <1>6 DEF RangeRead, PackOutcome
    <2>3. nchan' = nchan /\ permits' = permits
      BY <1>6 DEF RangeRead, buffers
    <2>4. ASSUME Finish(t)
          PROVE  ProcsOK'
      <3>1. PermitMove(t, "idle")
        BY <2>1, <2>3 DEF PermitMove
      <3>. QED  BY <2>3, <2>4, <3>1, FinishStep
    <2>5. ASSUME NEW l \in {"spinning", "panicked"}, Goto(t, l), local' = local
          PROVE  ProcsOK'
      <3>1. ControlOf(l, local[t], nchan) /\ PermitMove(t, l) /\ l \in Labels
        BY <1>0, <2>1, <2>3 DEF ControlOf, PermitMove
      <3>. QED  BY <2>3, <2>5, <3>1, GotoStep
    <2>6. DataType'
      BY <1>0, <1>6
         DEF RangeRead, DataType, BuffersType, StoreType, HistoryType, buffers, store, history
    <2>. QED  BY <2>2, <2>4, <2>5, <2>6 DEF ControlOK, TypeOK, DataType, ProcsOK
  <1>. QED  BY <1>1, <1>2, <1>3, <1>4, <1>5, <1>6 DEF ReadStep

\* What setattr does to its local variables.
LEMMA AttrStay ==
  ASSUME NEW r \in Locals, r.req \in Attrs
  PROVE  /\ \A q \in Paths \cup {None} :
              /\ [r EXCEPT !.path = q] \in Locals
              /\ [r EXCEPT !.path = q].file = r.file
              /\ [r EXCEPT !.path = q].req = r.req
         /\ r.req.others > 0 =>
              /\ [r EXCEPT !.req.others = @ - 1] \in Locals
              /\ [r EXCEPT !.req.others = @ - 1].file = r.file
              /\ [r EXCEPT !.req.others = @ - 1].req \in Attrs
  <1>1. ASSUME NEW q \in Paths \cup {None}
        PROVE  /\ [r EXCEPT !.path = q] \in Locals
               /\ [r EXCEPT !.path = q].file = r.file
               /\ [r EXCEPT !.path = q].req = r.req
    BY DEF Locals
  <1>2. ASSUME r.req.others > 0
        PROVE  /\ [r EXCEPT !.req.others = @ - 1] \in Locals
               /\ [r EXCEPT !.req.others = @ - 1].file = r.file
               /\ [r EXCEPT !.req.others = @ - 1].req \in Attrs
    <2>. DEFINE a == [r.req EXCEPT !.others = @ - 1]
    <2>1. r.req.others - 1 \in 0 .. 3
      BY <1>2 DEF Attrs
    <2>2. a \in Attrs /\ a \in Requests
      BY <2>1 DEF Attrs, Requests
    <2>. HIDE DEF a
    <2>3. [r EXCEPT !.req = a] \in Locals /\ [r EXCEPT !.req = a].file = r.file
          /\ [r EXCEPT !.req = a].req = a
      BY <2>2 DEF Locals
    <2>4. [r EXCEPT !.req.others = @ - 1] = [r EXCEPT !.req = a]
      BY DEF a
    <2>. QED  BY <2>2, <2>3, <2>4
  <1>. QED  BY <1>1, <1>2

\* A SETATTR goes on to its next put, or ends.
LEMMA AttrOnwardStep ==
  ASSUME ControlOK, NEW t \in Procs, pc[t] \in {"attrget", "attrput"}, AttrOnward(t),
         nchan' = nchan, permits' = permits
  PROVE  ProcsOK'
  <1>1. /\ local[t] \in Locals /\ local[t].file \in Files /\ local[t].req \in Attrs
        /\ nchan' \in nchan .. MaxChannels
    BY ControlFacts DEF ControlOf
  <1>2. CASE Finish(t)
    <2>1. PermitMove(t, "idle")
      BY DEF PermitMove
    <2>. QED  BY <1>2, <2>1, FinishStep
  <1>3. CASE ~Finish(t)
    <2>. DEFINE r == [local[t] EXCEPT !.req.others = @ - 1]
    <2>1. local[t].req.others > 0 /\ Goto(t, "attrget") /\ local' = [local EXCEPT ![t] = r]
      BY <1>3 DEF AttrOnward
    <2>2. r \in Locals /\ r.file = local[t].file /\ r.req \in Attrs
      BY <1>1, <2>1, AttrStay
    <2>. HIDE DEF r
    <2>3. ControlOf("attrget", r, nchan') /\ "attrget" \in Labels
      BY <1>1, <2>2 DEF ControlOf
    <2>4. PermitMove(t, "attrget")
      BY DEF PermitMove
    <2>. QED  BY <1>1, <2>1, <2>2, <2>3, <2>4, OneProcess DEF Goto
  <1>. QED  BY <1>2, <1>3

\* The path that setattr goes on with is one, or none.
LEMMA AttrPathStep ==
  ASSUME ControlOK, NEW t \in Procs, NEW q \in Paths \cup {None}, pc[t] = "attrpath",
         Goto(t, "attrget"), local' = [local EXCEPT ![t].path = q],
         nchan' = nchan, permits' = permits
  PROVE  ProcsOK'
  <1>. DEFINE r == [local[t] EXCEPT !.path = q]
  <1>1. /\ local[t] \in Locals /\ local[t].file \in Files /\ local[t].req \in Attrs
        /\ nchan' \in nchan .. MaxChannels
    BY ControlFacts DEF ControlOf
  <1>2. r \in Locals /\ r.file = local[t].file /\ r.req = local[t].req
    BY <1>1, AttrStay
  <1>3. local' = [local EXCEPT ![t] = r]
    OBVIOUS
  <1>. HIDE DEF r
  <1>4. ControlOf("attrget", r, nchan') /\ "attrget" \in Labels /\ PermitMove(t, "attrget")
    BY <1>1, <1>2 DEF ControlOf, PermitMove
  <1>. QED  BY <1>1, <1>2, <1>3, <1>4, OneProcess DEF Goto

\* ... by the steps of setattr and remove.
LEMMA ControlAttr ==
  ASSUME ControlOK, NEW t \in Tasks, AttrStep(t)
  PROVE  ControlOK'
  <1>. t \in Procs
    BY DEF Procs
  <1>0. /\ DataType /\ ProcsOK
        /\ pc[t] \in Labels /\ local[t] \in Locals /\ ControlOf(pc[t], local[t], nchan)
        /\ nchan \in 0 .. MaxChannels
    BY ControlFacts
  <1>5. CASE AttrPath(t)
    <2>1. pc[t] = "attrpath" /\ local[t].file \in Files
      BY <1>0, <1>5 DEF AttrPath, ControlOf
    <2>2. idToPath[local[t].file] \in Paths \cup {None}
      BY <1>0, <2>1 DEF DataType, StoreType
    <2>3. ProcsOK'
      BY <1>5, <2>1, <2>2, AttrPathStep DEF AttrPath, buffers
    <2>4. DataType'
      BY <1>0, <1>5
         DEF AttrPath, DataType, BuffersType, StoreType, HistoryType, buffers, store, history
    <2>. QED  BY <2>3, <2>4 DEF ControlOK, TypeOK, DataType, ProcsOK
  <1>1. CASE AttrGet(t)
    <2>. DEFINE n == IF local[t].path = None THEN None ELSE meta[local[t].path]
                r == [local[t] EXCEPT !.size = n]
    <2>1. /\ pc[t] = "attrget" /\ local[t].file \in Files
          /\ local[t].path \in Paths \cup {None} /\ local[t].req \in Attrs
      BY <1>0, <1>1 DEF AttrGet, ControlOf, Locals
    <2>2. n \in Nat \cup {None, NoSize}
      BY <1>0, <2>1 DEF DataType, StoreType
    <2>7. local' = [local EXCEPT ![t] = r] /\ Goto(t, "attrput")
      BY <1>1 DEF AttrGet
    <2>. HIDE DEF n
    <2>8. r \in Locals /\ r.file = local[t].file /\ r.req = local[t].req
      BY <1>0, <2>2, SetSize
    <2>. HIDE DEF r
    <2>3. ControlOf("attrput", r, nchan') /\ r \in Locals /\ "attrput" \in Labels
      BY <2>1, <2>8 DEF ControlOf
    <2>4. PermitMove(t, "attrput") /\ nchan' \in nchan .. MaxChannels
      BY <1>0, <1>1, <2>1 DEF AttrGet, PermitMove, buffers
    <2>5. ProcsOK'
      BY <2>3, <2>4, <2>7, OneProcess DEF Goto
    <2>6. DataType'
      BY <1>0, <1>1
         DEF AttrGet, DataType, BuffersType, StoreType, HistoryType, buffers, store, history
    <2>. QED  BY <2>5, <2>6 DEF ControlOK, TypeOK, DataType, ProcsOK
  <1>2. CASE AttrPut(t)
    <2>1. /\ pc[t] = "attrput" /\ local[t].path \in Paths \cup {None}
          /\ local[t].size \in Nat \cup {None, NoSize}
          /\ local[t].req.size \in Nat \cup {NoSize}
      BY <1>0, <1>2 DEF AttrPut, ControlOf, Locals, Attrs
    <2>2. local[t].path # None => TimesPut(t) \in Nat \cup {NoSize}
      BY <1>0, <2>1 DEF TimesPut, DataType, StoreType
    <2>3. permits' = permits /\ nchan' = nchan
      BY <1>2 DEF AttrPut, buffers
    <2>4. ProcsOK'
      BY <1>2, <2>1, <2>3, AttrOnwardStep DEF AttrPut
    <2>6. meta' \in [Paths -> Nat \cup {None, NoSize}]
      BY <1>0, <1>2, <2>1, <2>2 DEF AttrPut, DataType, StoreType
    <2>5. DataType'
      BY <1>0, <1>2, <2>6
         DEF AttrPut, DataType, BuffersType, StoreType, HistoryType, buffers, history
    <2>. QED  BY <2>4, <2>5 DEF ControlOK, TypeOK, DataType, ProcsOK
  <1>3. CASE RemoveMeta(t)
    <2>1. ControlOf("rmid", local[t], nchan) /\ PermitMove(t, "rmid") /\ "rmid" \in Labels
      BY <1>0, <1>3 DEF RemoveMeta, ControlOf, PermitMove
    <2>2. ProcsOK'
      BY <1>3, <2>1, GotoStep DEF RemoveMeta, buffers
    <2>3. StoreType'
      BY <1>0, <1>3 DEF RemoveMeta, DataType, StoreType
    <2>4. DataType'
      BY <1>0, <1>3, <2>3 DEF RemoveMeta, DataType, BuffersType, HistoryType, buffers, history
    <2>. QED  BY <2>2, <2>4 DEF ControlOK, TypeOK, DataType, ProcsOK
  <1>4. CASE RemoveId(t)
    <2>1. PermitMove(t, "idle") /\ nchan' = nchan
      BY <1>4 DEF RemoveId, PermitMove, buffers
    <2>2. ProcsOK'
      BY <1>4, <2>1, FinishStep DEF RemoveId
    <2>3. DataType'
      BY <1>0, <1>4
         DEF RemoveId, DataType, BuffersType, StoreType, HistoryType, buffers, history
    <2>. QED  BY <2>2, <2>3 DEF ControlOK, TypeOK, DataType, ProcsOK
  <1>. QED  BY <1>1, <1>2, <1>3, <1>4, <1>5 DEF AttrStep

\* ... by the monitor's own steps.
LEMMA ControlMonitor ==
  ASSUME ControlOK, MonitorScan \/ MonitorCommit
  PROVE  ControlOK'
  <1>. Monitor \in Procs
    BY DEF Procs
  <1>0. /\ DataType /\ ProcsOK
        /\ pc[Monitor] \in Labels /\ local[Monitor] \in Locals
        /\ ControlOf(pc[Monitor], local[Monitor], nchan)
        /\ nchan \in 0 .. MaxChannels
    BY ControlFacts
  <1>1. CASE MonitorScan
    <2>1. ControlOf("scanned", local[Monitor], nchan) /\ PermitMove(Monitor, "scanned")
          /\ "scanned" \in Labels
      BY <1>0, <1>1 DEF MonitorScan, ControlOf, PermitMove
    <2>2. ProcsOK'
      BY <1>1, <2>1, GotoStep DEF MonitorScan, buffers
    <2>3. DataType'
      BY <1>0, <1>1
         DEF MonitorScan, DataType, BuffersType, StoreType, HistoryType, buffers, store, history
    <2>. QED  BY <2>2, <2>3 DEF ControlOK, TypeOK, DataType, ProcsOK
  <1>2. CASE MonitorCommit
    <2>1. PICK f \in queue :
            /\ queue' = queue \ {f}
            /\ local' = [local EXCEPT ![Monitor] = [Blank EXCEPT !.op = "commit", !.file = f]]
      BY <1>2 DEF MonitorCommit
    <2>. DEFINE r == [Blank EXCEPT !.op = "commit", !.file = f]
    <2>2. f \in Files
      BY <1>0 DEF DataType
    <2>3. r \in Locals /\ r.file = f
      BY <2>2 DEF Blank, Locals, Ops, Requests
    <2>4. ControlOf("acquire", r, nchan') /\ "acquire" \in Labels
      BY <2>2, <2>3 DEF ControlOf
    <2>5. PermitMove(Monitor, "acquire") /\ nchan' \in nchan .. MaxChannels
      <3>1. pc[Monitor] = "scanned" /\ permits' = permits /\ nchan' = nchan
        BY <1>2 DEF MonitorCommit, buffers
      <3>. QED  BY <1>0, <3>1 DEF PermitMove
    <2>6. pc' = [pc EXCEPT ![Monitor] = "acquire"] /\ local' = [local EXCEPT ![Monitor] = r]
      BY <1>2, <2>1 DEF MonitorCommit, Goto
    <2>7. ProcsOK'
      BY <2>3, <2>4, <2>5, <2>6, OneProcess
    <2>8. DataType'
      BY <1>0, <1>2, <2>1
         DEF MonitorCommit, DataType, BuffersType, StoreType, HistoryType, buffers, store, history
    <2>. QED  BY <2>7, <2>8 DEF ControlOK, TypeOK, DataType, ProcsOK
  <1>. QED  BY <1>1, <1>2

\* ... by the start of a request.
LEMMA ControlRequest ==
  ASSUME ControlOK, NEW t \in Tasks, Request(t)
  PROVE  ControlOK'
  <1>. t \in Procs
    BY DEF Procs
  <1>0. DataType /\ ProcsOK /\ used["write"] \in Nat
    BY ControlFacts DEF DataType, Budgets
  <1>1. ASSUME NEW f \in Files, NEW off \in Offsets, NEW len \in Lens, StartWrite(t, f, off, len)
        PROVE  ControlOK'
    <2>. DEFINE ch == [off |-> off, bytes |-> [i \in 1 .. len |-> used["write"] + 1]]
    <2>1. ch \in Chunk
      <3>1. off \in Nat /\ len \in Nat
        OBVIOUS
      <3>2. used["write"] + 1 \in Nat
        BY <1>0
      <3>3. [i \in 1 .. len |-> used["write"] + 1] \in Seq(Nat)
        BY <3>1, <3>2
      <3>. QED  BY <3>1, <3>3 DEF Chunk, Image, Byte
    <2>2. ch \in Requests /\ "write" \in Ops /\ "write" \in Budgets
      BY <2>1 DEF Requests, Ops, Budgets
    <2>3. Begin(t, "write", f, ch, "channel") /\ nchan' = nchan /\ permits' = permits
      BY <1>1 DEF StartWrite, buffers
    <2>4. ProcsOK'
      BY <2>1, <2>2, <2>3, BeginStep
    <2>5. used' \in [Budgets -> Nat]
      BY <1>1, <2>2, SpendType DEF StartWrite
    <2>6. DataType'
      BY <1>0, <1>1, <2>5
         DEF StartWrite, DataType, BuffersType, StoreType, HistoryType, buffers, store, history
    <2>. QED  BY <2>4, <2>6 DEF ControlOK, TypeOK, DataType, ProcsOK
  <1>2. ASSUME NEW f \in Files, NEW off \in Offsets, NEW count \in Lens, StartRead(t, f, off, count)
        PROVE  ControlOK'
    <2>1. PICK l \in {"pack", "git", "data"} :
            Begin(t, "read", f, [off |-> off, count |-> count], l)
      BY <1>2 DEF StartRead
    <2>2. [off |-> off, count |-> count] \in Requests /\ "read" \in Ops /\ "read" \in Budgets
      BY DEF Requests, Ops, Budgets
    <2>3. nchan' = nchan /\ permits' = permits
      BY <1>2 DEF StartRead, buffers
    <2>4. ProcsOK'
      BY <2>1, <2>2, <2>3, BeginStep
    <2>5. used' \in [Budgets -> Nat]
      BY <1>2, <2>2, SpendType DEF StartRead
    <2>6. DataType'
      BY <1>0, <1>2, <2>5
         DEF StartRead, DataType, BuffersType, StoreType, HistoryType, buffers, store, history
    <2>. QED  BY <2>4, <2>6 DEF ControlOK, TypeOK, DataType, ProcsOK
  <1>3. ASSUME NEW f \in Files, NEW n \in AttrCounts, NEW size \in Offsets \cup {NoSize},
               StartSetAttr(t, f, [others |-> n, size |-> size])
        PROVE  ControlOK'
    <2>1. [others |-> n, size |-> size] \in Attrs
      BY ConstantsAssumption DEF Attrs
    <2>2. [others |-> n, size |-> size] \in Requests /\ "setattr" \in Ops /\ "setattr" \in Budgets
      BY <2>1 DEF Requests, Ops, Budgets
    <2>3. /\ Begin(t, "setattr", f, [others |-> n, size |-> size], "attrpath")
          /\ nchan' = nchan /\ permits' = permits
      BY <1>3 DEF StartSetAttr, buffers
    <2>4. ProcsOK'
      BY <2>1, <2>2, <2>3, BeginStep
    <2>5. used' \in [Budgets -> Nat]
      BY <1>3, <2>2, SpendType DEF StartSetAttr
    <2>6. DataType'
      BY <1>0, <1>3, <2>5
         DEF StartSetAttr, DataType, BuffersType, StoreType, HistoryType, buffers, store, history
    <2>. QED  BY <2>4, <2>6 DEF ControlOK, TypeOK, DataType, ProcsOK
  <1>4. ASSUME NEW f \in Files, StartRemove(t, f)
        PROVE  ControlOK'
    <2>1. None \in Requests /\ "remove" \in Ops /\ "remove" \in Budgets
      BY DEF Requests, Ops, Budgets
    <2>2. Begin(t, "remove", f, None, "rmmeta") /\ nchan' = nchan /\ permits' = permits
      BY <1>4 DEF StartRemove, buffers
    <2>3. ProcsOK'
      BY <2>1, <2>2, BeginStep
    <2>4. used' \in [Budgets -> Nat]
      BY <1>4, <2>1, SpendType DEF StartRemove
    <2>5. DataType'
      BY <1>0, <1>4, <2>4
         DEF StartRemove, DataType, BuffersType, StoreType, HistoryType, buffers, store, history
    <2>. QED  BY <2>3, <2>5 DEF ControlOK, TypeOK, DataType, ProcsOK
  <1>. QED  BY <1>1, <1>2, <1>3, <1>4 DEF Request

\* ... by create.
LEMMA ControlCreate ==
  ASSUME ControlOK, NEW f \in Files, NEW p \in Paths, Create(f, p)
  PROVE  ControlOK'
  <1>0. DataType /\ ProcsOK /\ "create" \in Budgets
    BY ControlParts DEF Budgets
  <1>1. used' \in [Budgets -> Nat]
    BY <1>0, SpendType DEF Create
  <1>2. StoreType'
    BY <1>0 DEF Create, DataType, StoreType
  <1>3. DataType'
    BY <1>0, <1>1, <1>2 DEF Create, DataType, BuffersType, HistoryType, buffers, history
  <1>4. ProcsOK'
    BY <1>0 DEF Create, ProcsOK, ProcsType, PermitsAccounted, InCommit, Committing, buffers
  <1>. QED  BY <1>3, <1>4 DEF ControlOK, TypeOK, DataType, ProcsOK

\* ... by the failure of a call of the store and by a restart.
LEMMA ControlFailure ==
  ASSUME ControlOK, Failure
  PROVE  ControlOK'
  <1>0. DataType /\ ProcsOK /\ {"fault", "crash"} \subseteq Budgets
    BY ControlParts DEF Budgets
  <1>1. ASSUME NEW t \in Tasks, FaultInWrite(t)
        PROVE  ControlOK'
    <2>1. t \in Procs /\ PermitMove(t, "idle") /\ nchan' = nchan
      BY <1>1 DEF Procs, FaultInWrite, PermitMove, buffers
    <2>2. ProcsOK'
      BY <1>1, <2>1, FinishStep DEF FaultInWrite
    <2>3. used' \in [Budgets -> Nat]
      BY <1>0, <1>1, SpendType DEF FaultInWrite
    <2>4. DataType'
      BY <1>0, <1>1, <2>3
         DEF FaultInWrite, DataType, BuffersType, StoreType, HistoryType, buffers, store, history
    <2>. QED  BY <2>2, <2>4 DEF ControlOK, TypeOK, DataType, ProcsOK
  <1>4. ASSUME NEW t \in Tasks, FaultInAttrPath(t)
        PROVE  ControlOK'
    <2>1. t \in Procs /\ pc[t] = "attrpath" /\ nchan' = nchan /\ permits' = permits
      BY <1>4 DEF Procs, FaultInAttrPath, buffers
    <2>2. ProcsOK'
      BY <1>4, <2>1, AttrPathStep DEF FaultInAttrPath
    <2>3. used' \in [Budgets -> Nat]
      BY <1>0, <1>4, SpendType DEF FaultInAttrPath
    <2>4. DataType'
      BY <1>0, <1>4, <2>3
         DEF FaultInAttrPath, DataType, BuffersType, StoreType, HistoryType, buffers, store,
             history
    <2>. QED  BY <2>2, <2>4 DEF ControlOK, TypeOK, DataType, ProcsOK
  <1>5. ASSUME NEW t \in Tasks, FaultInAttr(t)
        PROVE  ControlOK'
    <2>1. /\ t \in Procs /\ pc[t] \in {"attrget", "attrput"}
          /\ nchan' = nchan /\ permits' = permits
      BY <1>5 DEF Procs, FaultInAttr, buffers
    <2>2. ProcsOK'
      BY <1>5, <2>1, AttrOnwardStep DEF FaultInAttr
    <2>3. used' \in [Budgets -> Nat]
      BY <1>0, <1>5, SpendType DEF FaultInAttr
    <2>4. DataType'
      BY <1>0, <1>5, <2>3
         DEF FaultInAttr, DataType, BuffersType, StoreType, HistoryType, buffers, store, history
    <2>. QED  BY <2>2, <2>4 DEF ControlOK, TypeOK, DataType, ProcsOK
  <1>2. ASSUME NEW p \in Procs, FaultInPath(p) \/ FaultInStore(p) \/ FaultInTimes(p)
        PROVE  ControlOK'
    <2>1. pc[p] \in HeldLabels /\ CommitReturn(p, FALSE) /\ nchan' = nchan
      BY <1>2 DEF FaultInPath, FaultInStore, FaultInTimes, buffers
    <2>2. ProcsOK'
      BY <2>1, CommitReturnStep
    <2>3. used' \in [Budgets -> Nat]
      BY <1>0, <1>2, SpendType DEF FaultInPath, FaultInStore, FaultInTimes
    <2>4. HistoryType'
      BY <1>0, <1>2 DEF FaultInPath, FaultInStore, FaultInTimes, DataType, HistoryType, Fates,
                        history
    <2>5. DataType'
      BY <1>0, <1>2, <2>3, <2>4
         DEF FaultInPath, FaultInStore, FaultInTimes, DataType, BuffersType, StoreType, buffers,
             store
    <2>. QED  BY <2>2, <2>5 DEF ControlOK, TypeOK, DataType, ProcsOK
  <1>3. ASSUME Restart
        PROVE  ControlOK'
    <2>1. used' \in [Budgets -> Nat]
      BY <1>0, <1>3, SpendType DEF Restart
    <2>2. HistoryType'
      BY <1>0, <1>3 DEF Restart, DataType, HistoryType, Fates
    <2>3. DataType'
      BY <1>0, <1>3, <2>1, <2>2 DEF Restart, DataType, BuffersType, StoreType, store
    <2>4. pc' \in [Procs -> Labels] /\ local' \in [Procs -> Locals]
      BY <1>3, BlankType DEF Restart
    <2>5. permits' = Permits /\ permits' \in 0 .. Permits
      BY <1>3 DEF Restart
    <2>6. {p \in Procs : InCommit(p)}' = {}
      BY <1>3 DEF Restart, InCommit, Committing
    <2>7. PermitsAccounted'
      <3>1. Cardinality({p \in Procs : InCommit(p)})' = 0
        BY <2>6, FS_EmptySet
      <3>2. permits' + 0 = Permits
        BY <2>5
      <3>. QED  BY <3>1, <3>2 DEF PermitsAccounted
    <2>8. \A p \in Procs : ControlOf(pc'[p], local'[p], nchan')
      BY <1>3 DEF Restart, ControlOf
    <2>9. ProcsOK'
      BY <2>4, <2>5, <2>7, <2>8 DEF ProcsOK, ProcsType
    <2>. QED  BY <2>3, <2>9 DEF ControlOK, TypeOK, DataType, ProcsOK
  <1>. QED  BY <1>1, <1>2, <1>3, <1>4, <1>5 DEF Failure

LEMMA ControlInit == Init => ControlOK
  <1>. SUFFICES ASSUME Init PROVE ControlOK
    OBVIOUS
  <1>1. BuffersType
    <2>1. NewBuffer \in Buffer
      BY DEF NewBuffer, Buffer
    <2>. QED  BY <2>1 DEF Init, BuffersType
  <1>2. StoreType /\ HistoryType
    BY DEF Init, StoreType, HistoryType, Fates
  <1>3. queue \subseteq Files /\ used \in [Budgets -> Nat]
    BY DEF Init
  <1>4. ProcsType
    BY BlankType DEF Init, ProcsType
  <1>5. {p \in Procs : InCommit(p)} = {}
    BY DEF Init, InCommit, Committing
  <1>6. PermitsAccounted
    <2>1. permits = Permits /\ Cardinality({p \in Procs : InCommit(p)}) = 0
      BY <1>5, FS_EmptySet DEF Init
    <2>. QED  BY <2>1 DEF PermitsAccounted
  <1>7. \A p \in Procs : ControlOf(pc[p], local[p], nchan)
    BY DEF Init, ControlOf
  <1>. QED  BY <1>1, <1>2, <1>3, <1>4, <1>6, <1>7 DEF ControlOK, TypeOK

LEMMA ControlNext == ControlOK /\ [Next]_vars => ControlOK'
  <1>. SUFFICES ASSUME ControlOK, [Next]_vars PROVE ControlOK'
    OBVIOUS
  <1>1. CASE \E t \in Tasks : Request(t) \/ TaskStep(t)
    <2>1. PICK t \in Tasks : Request(t) \/ TaskStep(t)
      BY <1>1
    <2>2. t \in Procs
      BY DEF Procs
    <2>. QED
      BY <2>1, <2>2, ControlRequest, ControlWrite, ControlCommit, ControlRead,
                  ControlAttr DEF TaskStep
  <1>2. CASE MonitorStep
    <2>1. Monitor \in Procs
      BY DEF Procs
    <2>. QED  BY <1>2, <2>1, ControlMonitor, ControlCommit DEF MonitorStep
  <1>3. CASE \E f \in Files, p \in Paths : Create(f, p)
    BY <1>3, ControlCreate
  <1>4. CASE Failure
    BY <1>4, ControlFailure
  <1>5. CASE UNCHANGED vars
    BY <1>5
       DEF ControlOK, TypeOK, BuffersType, StoreType, ProcsType, HistoryType, PermitsAccounted,
           InCommit, Committing, vars, buffers, store, history
  <1>. QED  BY <1>1, <1>2, <1>3, <1>4, <1>5 DEF Next

\* Layer 1: at every step of every process the local variables that the step
\* reads are set, and of the right type.
THEOREM ControlAlways == Spec => []ControlOK
  BY ControlInit, ControlNext, PTL DEF Spec

\* Every variable keeps its type.
THEOREM TypeAlways == Spec => []TypeOK
  <1>1. ControlOK => TypeOK
    BY DEF ControlOK
  <1>. QED  BY <1>1, ControlAlways, PTL

\* The permits of commit_semaphore that are taken are those of the processes
\* inside commit_write, however many tasks and permits there are, and wherever
\* commit_write returns early, fails or is cut off by a restart.
THEOREM PermitsAlways == Spec => []PermitsAccounted
  <1>1. ControlOK => PermitsAccounted
    BY DEF ControlOK
  <1>. QED  BY <1>1, ControlAlways, PTL

HIDE DEF Labels, FileLabels, PathLabels, ChanLabels, WriteLabels, CommitLabels, HeldLabels,
         StoreLabels, LoadLabels, ReadLabels, AttrLabels, RemoveLabels

-----------------------------------------------------------------------------
(***************************************************************************)
(* Layers 2 to 5.                                                          *)
(***************************************************************************)

HoldLabels == LoadLabels \cup CommitLabels

\* No process but p moves, nor changes the channel it has.
Others(p) ==
  \A q \in Procs : q # p => pc'[q] = pc[q] /\ local'[q].chan = local[q].chan

LEMMA HolderLabels ==
  /\ \A p : /\ Loading(p) <=> pc[p] \in LoadLabels
            /\ Committing(p) <=> pc[p] \in CommitLabels
            /\ Holding(p) <=> pc[p] \in HoldLabels
  /\ \A p : /\ Loading(p)' <=> pc'[p] \in LoadLabels
            /\ Committing(p)' <=> pc'[p] \in CommitLabels
            /\ Holding(p)' <=> pc'[p] \in HoldLabels
  BY DEF Loading, Committing, Holding, HoldLabels, LoadLabels, CommitLabels, StoreLabels

LEMMA FateOfLabels ==
  /\ \A l \in LoadLabels : FateOf(l) = "open"
  /\ \A l \in CommitLabels : FateOf(l) \in {"sealed", "stored"}
  BY DEF FateOf, LoadLabels, CommitLabels, StoreLabels

\* What a holder has is allocated.
LEMMA HolderChan ==
  ASSUME ControlOK, NEW p \in Procs, pc[p] \in HoldLabels
  PROVE  local[p].chan \in 1 .. nchan /\ local[p].chan \in Channels
  <1>1. pc[p] \in ChanLabels
    BY DEF HoldLabels, ChanLabels, LoadLabels, CommitLabels
  <1>2. local[p].chan \in 1 .. nchan /\ nchan \in 0 .. MaxChannels
    BY <1>1 DEF ControlOK, ControlOf, TypeOK, BuffersType
  <1>. QED  BY <1>2 DEF Channels

\* No file has the channel of a holder.
LEMMA HolderApart ==
  ASSUME ControlOK, HoldersOK, NEW p \in Procs, pc[p] \in HoldLabels, NEW f \in Files
  PROVE  activeWrites[f] # local[p].chan
  <1>1. SUFFICES ASSUME activeWrites[f] = local[p].chan PROVE FALSE
    OBVIOUS
  <1>2. activeWrites[f] # None
    BY <1>1, HolderChan
  <1>3. fate[activeWrites[f]] = "open" /\ ~Loading(p)
    BY <1>1, <1>2 DEF HoldersOK, OpenIsReachable
  <1>4. pc[p] \in CommitLabels /\ fate[local[p].chan] = FateOf(pc[p])
    BY <1>3, HolderLabels DEF HoldersOK, HoldLabels
  <1>. QED  BY <1>1, <1>3, <1>4, FateOfLabels

\* The parts of HoldersOK over labels.
Reach ==
  \A c \in 1 .. nchan : fate[c] = "open" =>
    \/ \E f \in Files : activeWrites[f] = c
    \/ \E p \in Procs : pc[p] \in LoadLabels /\ local[p].chan = c

Entries ==
  \A f \in Files : activeWrites[f] # None =>
    /\ activeWrites[f] \in 1 .. nchan /\ fate[activeWrites[f]] = "open"
    /\ \A g \in Files : activeWrites[g] = activeWrites[f] => g = f
    /\ \A p \in Procs : pc[p] \in LoadLabels => local[p].chan # activeWrites[f]

Fresh == \A c \in Channels : c > nchan => fate[c] = "open" /\ arrived[c] = <<>>

Follow == \A p \in Procs : pc[p] \in HoldLabels => fate[local[p].chan] = FateOf(pc[p])

Distinct ==
  \A p, q \in Procs :
    pc[p] \in HoldLabels /\ pc[q] \in HoldLabels /\ p # q => local[p].chan # local[q].chan

LEMMA HolderParts ==
  /\ HoldersOK <=> Reach /\ Entries /\ Fresh /\ Follow /\ Distinct
  /\ HoldersOK' <=> Reach' /\ Entries' /\ Fresh' /\ Follow' /\ Distinct'
  BY HolderLabels DEF HoldersOK, OpenIsReachable, Reach, Entries, Fresh, Follow, Distinct

\* A step of p that does not change what p holds.
LEMMA Steady ==
  ASSUME ControlOK, HoldersOK, NEW p \in Procs, Others(p),
         activeWrites' = activeWrites, nchan' = nchan, fate' = fate,
         \A c \in Channels : c > nchan => arrived'[c] = arrived[c],
         pc[p] \in HoldLabels <=> pc'[p] \in HoldLabels,
         pc[p] \in LoadLabels <=> pc'[p] \in LoadLabels,
         pc[p] \in HoldLabels => /\ local'[p].chan = local[p].chan
                                 /\ FateOf(pc'[p]) = FateOf(pc[p])
  PROVE  HoldersOK'
  <1>0. Reach /\ Entries /\ Fresh /\ Follow /\ Distinct
    BY HolderParts
  <1>1. \A q \in Procs :
          /\ pc[q] \in HoldLabels <=> pc'[q] \in HoldLabels
          /\ pc[q] \in LoadLabels <=> pc'[q] \in LoadLabels
          /\ pc[q] \in HoldLabels => /\ local'[q].chan = local[q].chan
                                     /\ FateOf(pc'[q]) = FateOf(pc[q])
    BY DEF Others
  <1>2. LoadLabels \subseteq HoldLabels
    BY DEF HoldLabels
  <1>3. Reach'
    BY <1>0, <1>1, <1>2 DEF Reach
  <1>4. Entries'
    BY <1>0, <1>1, <1>2 DEF Entries
  <1>5. Fresh'
    BY <1>0 DEF Fresh
  <1>6. Follow'
    BY <1>0, <1>1 DEF Follow
  <1>7. Distinct'
    BY <1>0, <1>1 DEF Distinct
  <1>. QED  BY <1>3, <1>4, <1>5, <1>6, <1>7, HolderParts

\* A step of a holder p that decides the fate of what it holds.
LEMMA Settle ==
  ASSUME ControlOK, HoldersOK, NEW p \in Procs, Others(p), pc[p] \in HoldLabels,
         NEW x \in Fates \ {"open"}, fate' = [fate EXCEPT ![local[p].chan] = x],
         activeWrites' = activeWrites, nchan' = nchan, arrived' = arrived,
         pc'[p] \notin LoadLabels,
         pc'[p] \in HoldLabels => FateOf(pc'[p]) = x /\ local'[p].chan = local[p].chan
  PROVE  HoldersOK'
  <1>. DEFINE c0 == local[p].chan
  <1>0. Reach /\ Entries /\ Fresh /\ Follow /\ Distinct
    BY HolderParts
  <1>1. c0 \in 1 .. nchan /\ c0 \in Channels
    BY HolderChan
  <1>2. fate \in [Channels -> Fates] /\ nchan \in 0 .. MaxChannels
    BY DEF ControlOK, TypeOK, HistoryType, BuffersType
  <1>3. 1 .. nchan \subseteq Channels
    BY <1>2 DEF Channels
  <1>4. fate'[c0] = x /\ \A c \in Channels : c # c0 => fate'[c] = fate[c]
    BY <1>1, <1>2
  <1>5. \A f \in Files : activeWrites[f] # c0
    BY HolderApart
  <1>6. LoadLabels \subseteq HoldLabels
    BY DEF HoldLabels
  <1>7. \A q \in Procs : q # p =>
          /\ pc'[q] = pc[q] /\ local'[q].chan = local[q].chan
          /\ pc[q] \in HoldLabels => local[q].chan # c0 /\ local[q].chan \in Channels
    BY <1>0, HolderChan DEF Others, Distinct
  <1>8. Reach'
    <2>1. ASSUME NEW c \in 1 .. nchan, fate'[c] = "open"
          PROVE  \/ \E f \in Files : activeWrites'[f] = c
                 \/ \E q \in Procs : pc'[q] \in LoadLabels /\ local'[q].chan = c
      <3>1. c # c0 /\ fate[c] = "open"
        BY <2>1, <1>3, <1>4
      <3>2. \/ \E f \in Files : activeWrites[f] = c
            \/ \E q \in Procs : pc[q] \in LoadLabels /\ local[q].chan = c
        BY <3>1, <1>0 DEF Reach
      <3>3. CASE \E f \in Files : activeWrites[f] = c
        BY <3>3
      <3>4. CASE \E q \in Procs : pc[q] \in LoadLabels /\ local[q].chan = c
        <4>1. PICK q \in Procs : pc[q] \in LoadLabels /\ local[q].chan = c
          BY <3>4
        <4>. QED  BY <4>1, <3>1, <1>7
      <3>. QED  BY <3>2, <3>3, <3>4
    <2>. QED  BY <2>1 DEF Reach
  <1>9. Entries'
    BY <1>0, <1>3, <1>4, <1>5, <1>7 DEF Entries
  <1>10. Fresh'
    BY <1>0, <1>1, <1>2, <1>4 DEF Fresh
  <1>11. Follow'
    BY <1>0, <1>4, <1>7 DEF Follow
  <1>12. Distinct'
    BY <1>0, <1>7 DEF Distinct
  <1>. QED  BY <1>8, <1>9, <1>10, <1>11, <1>12, HolderParts

\* A new channel for a file that has none.
LEMMA HoldersGetChannel ==
  ASSUME ControlOK, HoldersOK, NEW t \in Procs, GetChannel(t)
  PROVE  HoldersOK'
  <1>0. /\ Reach /\ Entries /\ Fresh /\ Follow /\ Distinct
        /\ pc \in [Procs -> Labels] /\ local \in [Procs -> Locals]
        /\ activeWrites \in [Files -> (1 .. nchan) \cup {None}]
        /\ nchan \in 0 .. MaxChannels
    BY HolderParts DEF ControlOK, TypeOK, ProcsType, BuffersType
  <1>1. pc[t] = "channel" /\ pc'[t] = "push" /\ local[t].file \in Files
    BY <1>0 DEF GetChannel, Goto, ControlOK, ControlOf, FileLabels, WriteLabels
  <1>2. pc[t] \notin HoldLabels /\ pc'[t] \notin HoldLabels
    BY <1>1 DEF HoldLabels, LoadLabels, CommitLabels, StoreLabels
  <1>3. Others(t)
    BY <1>0 DEF GetChannel, Goto, Others
  <1>4. LoadLabels \subseteq HoldLabels
    BY DEF HoldLabels
  <1>5. CASE Entry(t) # None
    <2>1. activeWrites' = activeWrites /\ nchan' = nchan /\ fate' = fate /\ arrived' = arrived
      BY <1>5 DEF GetChannel, history
    <2>. QED  BY <2>1, <1>2, <1>3, <1>4, Steady
  <1>6. CASE Entry(t) = None
    <2>. DEFINE f0 == local[t].file
                c0 == nchan + 1
    <2>1. /\ activeWrites' = [activeWrites EXCEPT ![f0] = c0] /\ nchan' = c0
          /\ fate' = fate /\ arrived' = arrived /\ nchan < MaxChannels
      BY <1>6 DEF GetChannel, history
    <2>2. c0 \in Channels /\ c0 \notin 1 .. nchan /\ 1 .. c0 = (1 .. nchan) \cup {c0}
      BY <1>0, <2>1 DEF Channels
    <2>3. fate[c0] = "open"
      BY <1>0, <2>2 DEF Fresh
    <2>4. activeWrites'[f0] = c0 /\ \A f \in Files : f # f0 => activeWrites'[f] = activeWrites[f]
      BY <1>0, <1>1, <2>1
    <2>5. \A f \in Files : activeWrites[f] # c0
      BY <1>0, <2>2
    <2>6. \A q \in Procs :
            /\ pc'[q] \in HoldLabels <=> pc[q] \in HoldLabels
            /\ pc'[q] \in LoadLabels <=> pc[q] \in LoadLabels
            /\ pc[q] \in HoldLabels =>
                 pc'[q] = pc[q] /\ local'[q].chan = local[q].chan /\ local[q].chan # c0
      BY <1>2, <1>3, <1>4, <2>2, HolderChan DEF Others
    <2>7. Reach'
      <3>1. ASSUME NEW c \in 1 .. nchan, fate[c] = "open"
            PROVE  \/ \E f \in Files : activeWrites'[f] = c
                   \/ \E q \in Procs : pc'[q] \in LoadLabels /\ local'[q].chan = c
        <4>1. \/ \E f \in Files : activeWrites[f] = c
              \/ \E q \in Procs : pc[q] \in LoadLabels /\ local[q].chan = c
          BY <3>1, <1>0 DEF Reach
        <4>2. ASSUME NEW f \in Files, activeWrites[f] = c
              PROVE  activeWrites'[f] = c
          BY <4>2, <1>6, <2>4 DEF Entry
        <4>. QED  BY <4>1, <4>2, <1>4, <2>6
      <3>. QED  BY <3>1, <1>1, <2>1, <2>2, <2>4 DEF Reach
    <2>8. Entries'
      BY <1>0, <1>4, <2>1, <2>2, <2>3, <2>4, <2>5, <2>6 DEF Entries
    <2>9. Fresh'
      BY <1>0, <2>1 DEF Fresh, Channels
    <2>10. Follow'
      BY <1>0, <2>1, <2>6 DEF Follow
    <2>11. Distinct'
      BY <1>0, <2>6 DEF Distinct
    <2>. QED  BY <2>7, <2>8, <2>9, <2>10, <2>11, HolderParts
  <1>. QED  BY <1>5, <1>6

\* A reader of a pack file takes the channel of the file or a new one.
LEMMA HoldersPackRead ==
  ASSUME ControlOK, HoldersOK, NEW t \in Procs, PackRead(t)
  PROVE  HoldersOK'
  <1>0. /\ Reach /\ Entries /\ Fresh /\ Follow /\ Distinct
        /\ pc \in [Procs -> Labels] /\ local \in [Procs -> Locals]
        /\ activeWrites \in [Files -> (1 .. nchan) \cup {None}]
        /\ nchan \in 0 .. MaxChannels
    BY HolderParts DEF ControlOK, TypeOK, ProcsType, BuffersType
  <1>1. pc[t] = "pack" /\ pc[t] \notin HoldLabels
    BY DEF PackRead, HoldLabels, LoadLabels, CommitLabels, StoreLabels
  <1>2. Others(t)
    BY <1>0 DEF PackRead, Goto, Others
  <1>3. LoadLabels \subseteq HoldLabels
    BY DEF HoldLabels
  <1>4. activeWrites' = activeWrites /\ fate' = fate /\ arrived' = arrived
    BY DEF PackRead, history
  <1>5. CASE Entry(t) # None
    <2>1. nchan' = nchan /\ pc'[t] = "range"
      BY <1>0, <1>5 DEF PackRead, Goto
    <2>2. pc'[t] \notin HoldLabels
      BY <2>1 DEF HoldLabels, LoadLabels, CommitLabels, StoreLabels
    <2>. QED  BY <2>1, <2>2, <1>1, <1>2, <1>3, <1>4, Steady
  <1>6. CASE Entry(t) = None
    <2>. DEFINE c0 == nchan + 1
    <2>1. /\ nchan' = c0 /\ nchan < MaxChannels /\ pc'[t] = "load"
          /\ local' = [local EXCEPT ![t].chan = c0]
      BY <1>0, <1>6 DEF PackRead, Goto
    <2>2. c0 \in Channels /\ c0 \notin 1 .. nchan /\ 1 .. c0 = (1 .. nchan) \cup {c0}
      BY <1>0, <2>1 DEF Channels
    <2>3. fate[c0] = "open"
      BY <1>0, <2>2 DEF Fresh
    <2>4. local'[t].chan = c0
      <3>1. [local[t] EXCEPT !.chan = c0].chan = c0
        BY <1>0, <2>2, SetChan
      <3>. QED  BY <3>1, <1>0, <2>1
    <2>5. pc'[t] \in LoadLabels /\ FateOf(pc'[t]) = "open"
      BY <2>1 DEF LoadLabels, FateOf
    <2>6. \A q \in Procs : q # t =>
            /\ pc'[q] = pc[q] /\ local'[q].chan = local[q].chan
            /\ pc[q] \in HoldLabels => local[q].chan # c0
      BY <1>2, <2>2, HolderChan DEF Others
    <2>7. \A f \in Files : activeWrites[f] # c0
      BY <1>0, <2>2
    <2>8. Reach'
      <3>1. ASSUME NEW c \in 1 .. nchan, fate[c] = "open"
            PROVE  \/ \E f \in Files : activeWrites[f] = c
                   \/ \E q \in Procs : pc'[q] \in LoadLabels /\ local'[q].chan = c
        <4>1. \/ \E f \in Files : activeWrites[f] = c
              \/ \E q \in Procs : pc[q] \in LoadLabels /\ local[q].chan = c
          BY <3>1, <1>0 DEF Reach
        <4>2. ASSUME NEW q \in Procs, pc[q] \in LoadLabels, local[q].chan = c
              PROVE  pc'[q] \in LoadLabels /\ local'[q].chan = c
          BY <4>2, <1>1, <1>3, <2>6
        <4>. QED  BY <4>1, <4>2
      <3>. QED  BY <3>1, <1>4, <2>1, <2>2, <2>4, <2>5 DEF Reach
    <2>9. Entries'
      BY <1>0, <1>3, <1>4, <2>1, <2>2, <2>4, <2>6, <2>7 DEF Entries
    <2>10. Fresh'
      BY <1>0, <1>4, <2>1 DEF Fresh, Channels
    <2>11. Follow'
      BY <1>0, <1>4, <2>3, <2>4, <2>5, <2>6 DEF Follow
    <2>12. Distinct'
      BY <1>0, <2>4, <2>6 DEF Distinct
    <2>. QED  BY <2>8, <2>9, <2>10, <2>11, <2>12, HolderParts
  <1>. QED  BY <1>5, <1>6

\* A reader of a pack file inserts the channel it has loaded.
LEMMA HoldersInsert ==
  ASSUME ControlOK, HoldersOK, NEW t \in Procs, InsertLoaded(t)
  PROVE  HoldersOK'
  <1>. DEFINE f0 == local[t].file
              c0 == local[t].chan
              e0 == activeWrites[f0]
  <1>0. /\ Reach /\ Entries /\ Fresh /\ Follow /\ Distinct
        /\ pc \in [Procs -> Labels] /\ local \in [Procs -> Locals]
        /\ activeWrites \in [Files -> (1 .. nchan) \cup {None}]
        /\ fate \in [Channels -> Fates]
        /\ nchan \in 0 .. MaxChannels
    BY HolderParts DEF ControlOK, TypeOK, ProcsType, BuffersType, HistoryType
  <1>1. pc[t] = "insert" /\ pc'[t] = "range" /\ f0 \in Files
    BY <1>0 DEF InsertLoaded, Goto, ControlOK, ControlOf, FileLabels, ReadLabels, LoadLabels
  <1>2. /\ pc[t] \in LoadLabels /\ pc[t] \in HoldLabels /\ pc'[t] \notin HoldLabels
        /\ FateOf(pc[t]) = "open"
    BY <1>1 DEF HoldLabels, LoadLabels, CommitLabels, StoreLabels, FateOf
  <1>3. LoadLabels \subseteq HoldLabels /\ 1 .. nchan \subseteq Channels
    BY <1>0 DEF HoldLabels, Channels
  <1>4. c0 \in 1 .. nchan /\ fate[c0] = "open" /\ \A f \in Files : activeWrites[f] # c0
    BY <1>0, <1>2, HolderChan, HolderApart DEF Follow
  <1>5. /\ activeWrites' = [activeWrites EXCEPT ![f0] = c0]
        /\ fate' = IF e0 = None THEN fate ELSE [fate EXCEPT ![e0] = "lost"]
        /\ nchan' = nchan /\ arrived' = arrived /\ local' = local
    BY DEF InsertLoaded, Entry
  <1>6. activeWrites'[f0] = c0 /\ \A f \in Files : f # f0 => activeWrites'[f] = activeWrites[f]
    BY <1>0, <1>1, <1>5
  <1>7. \A c \in 1 .. nchan : fate'[c] = IF c = e0 THEN "lost" ELSE fate[c]
    BY <1>0, <1>1, <1>3, <1>5
  <1>8. \A c \in Channels : c > nchan => fate'[c] = fate[c]
    BY <1>0, <1>1, <1>5
  <1>9. \A q \in Procs : q # t => pc'[q] = pc[q] /\ local'[q].chan = local[q].chan
    BY <1>0, <1>5 DEF InsertLoaded, Goto
  <1>10. \A q \in Procs : q # t /\ pc[q] \in HoldLabels =>
           local[q].chan \in 1 .. nchan /\ local[q].chan # e0 /\ local[q].chan # c0
    BY <1>0, <1>1, <1>2, HolderChan, HolderApart DEF Distinct
  <1>11. Reach'
    <2>1. ASSUME NEW c \in 1 .. nchan, fate'[c] = "open"
          PROVE  \/ \E f \in Files : activeWrites'[f] = c
                 \/ \E q \in Procs : pc'[q] \in LoadLabels /\ local'[q].chan = c
      <3>1. c # e0 /\ fate[c] = "open"
        BY <2>1, <1>7
      <3>2. CASE \E f \in Files : activeWrites[f] = c
        BY <3>1, <3>2, <1>6
      <3>3. CASE \E q \in Procs : pc[q] \in LoadLabels /\ local[q].chan = c
        <4>1. PICK q \in Procs : pc[q] \in LoadLabels /\ local[q].chan = c
          BY <3>3
        <4>2. CASE q = t
          BY <4>1, <4>2, <1>1, <1>6
        <4>3. CASE q # t
          BY <4>1, <4>3, <1>9
        <4>. QED  BY <4>2, <4>3
      <3>. QED  BY <3>1, <3>2, <3>3, <1>0 DEF Reach
    <2>. QED  BY <2>1, <1>5 DEF Reach
  <1>12. Entries'
    <2>1. ASSUME NEW f \in Files, activeWrites'[f] # None
          PROVE  /\ activeWrites'[f] \in 1 .. nchan /\ fate'[activeWrites'[f]] = "open"
                 /\ \A g \in Files : activeWrites'[g] = activeWrites'[f] => g = f
                 /\ \A q \in Procs : pc'[q] \in LoadLabels => local'[q].chan # activeWrites'[f]
      <3>1. CASE f = f0
        <4>1. c0 # e0
          BY <1>1, <1>4
        <4>. QED  BY <3>1, <4>1, <1>2, <1>3, <1>4, <1>6, <1>7, <1>9, <1>10
      <3>2. CASE f # f0
        <4>1. activeWrites[f] # None /\ activeWrites[f] # e0 /\ activeWrites'[f] = activeWrites[f]
          BY <3>2, <2>1, <1>0, <1>1, <1>6 DEF Entries
        <4>2. activeWrites[f] # c0
          BY <1>4
        <4>3. /\ activeWrites[f] \in 1 .. nchan /\ fate[activeWrites[f]] = "open"
              /\ \A g \in Files : activeWrites[g] = activeWrites[f] => g = f
              /\ \A q \in Procs : pc[q] \in LoadLabels => local[q].chan # activeWrites[f]
          BY <4>1, <1>0 DEF Entries
        <4>. QED  BY <4>1, <4>2, <4>3, <1>2, <1>3, <1>6, <1>7, <1>9
      <3>. QED  BY <3>1, <3>2
    <2>. QED  BY <2>1, <1>5 DEF Entries
  <1>13. Fresh'
    BY <1>0, <1>5, <1>8 DEF Fresh
  <1>14. Follow'
    BY <1>0, <1>2, <1>7, <1>9, <1>10 DEF Follow
  <1>15. Distinct'
    BY <1>0, <1>2, <1>9 DEF Distinct
  <1>. QED  BY <1>11, <1>12, <1>13, <1>14, <1>15, HolderParts

\* A commit takes the channel of a file, or finds none.
LEMMA HoldersTake ==
  ASSUME ControlOK, HoldersOK, NEW p \in Procs, Take(p)
  PROVE  HoldersOK'
  <1>. DEFINE f0 == local[p].file
              e0 == activeWrites[f0]
  <1>0. /\ Reach /\ Entries /\ Fresh /\ Follow /\ Distinct
        /\ pc \in [Procs -> Labels] /\ local \in [Procs -> Locals]
        /\ activeWrites \in [Files -> (1 .. nchan) \cup {None}]
        /\ fate \in [Channels -> Fates]
        /\ nchan \in 0 .. MaxChannels
    BY HolderParts DEF ControlOK, TypeOK, ProcsType, BuffersType, HistoryType
  <1>1. pc[p] = "take" /\ f0 \in Files
    BY DEF Take, ControlOK, ControlOf, FileLabels, HeldLabels
  <1>2. pc[p] \notin HoldLabels
    BY <1>1 DEF HoldLabels, LoadLabels, CommitLabels, StoreLabels
  <1>3. LoadLabels \subseteq HoldLabels /\ 1 .. nchan \subseteq Channels
    BY <1>0 DEF HoldLabels, Channels
  <1>4. nchan' = nchan /\ arrived' = arrived
    BY DEF Take
  <1>5. CASE Entry(p) = None
    <2>1. CommitReturn(p, TRUE) /\ activeWrites' = activeWrites /\ fate' = fate
      BY <1>5 DEF Take
    <2>2. Others(p) /\ pc'[p] \in {"idle", "scanned", "data"}
      BY <2>1, <1>0 DEF CommitReturn, Finish, Goto, Others
    <2>3. pc'[p] \notin HoldLabels
      BY <2>2 DEF HoldLabels, LoadLabels, CommitLabels, StoreLabels
    <2>. QED  BY <2>1, <2>2, <2>3, <1>2, <1>3, <1>4, Steady
  <1>6. CASE Entry(p) # None
    <2>1. /\ activeWrites' = [activeWrites EXCEPT ![f0] = None]
          /\ local' = [local EXCEPT ![p].chan = e0]
          /\ fate' = [fate EXCEPT ![e0] = "sealed"]
          /\ pc' = [pc EXCEPT ![p] = "path"]
      BY <1>6 DEF Take, Entry, Goto
    <2>2. e0 \in 1 .. nchan /\ e0 \in Channels
      BY <1>0, <1>1, <1>3, <1>6 DEF Entry
    <2>3. activeWrites'[f0] = None /\ \A f \in Files : f # f0 => activeWrites'[f] = activeWrites[f]
      BY <1>0, <1>1, <2>1
    <2>4. \A c \in Channels : fate'[c] = IF c = e0 THEN "sealed" ELSE fate[c]
      BY <1>0, <2>1, <2>2
    <2>5. local'[p].chan = e0
      <3>1. [local[p] EXCEPT !.chan = e0].chan = e0
        BY <1>0, <2>2, SetChan
      <3>. QED  BY <3>1, <1>0, <2>1
    <2>6. \A q \in Procs : q # p =>
            /\ pc'[q] = pc[q] /\ local'[q].chan = local[q].chan
            /\ pc[q] \in HoldLabels => local[q].chan \in Channels /\ local[q].chan # e0
      BY <1>0, <1>1, <2>1, HolderChan, HolderApart
    <2>7. pc'[p] = "path" /\ pc'[p] \notin LoadLabels /\ FateOf(pc'[p]) = "sealed"
      BY <1>0, <2>1 DEF LoadLabels, FateOf
    <2>8. \A f \in Files : f # f0 /\ activeWrites[f] # None => activeWrites[f] # e0
      BY <1>0, <1>1 DEF Entries
    <2>9. Reach'
      <3>1. ASSUME NEW c \in 1 .. nchan, fate'[c] = "open"
            PROVE  \/ \E f \in Files : activeWrites'[f] = c
                   \/ \E q \in Procs : pc'[q] \in LoadLabels /\ local'[q].chan = c
        <4>1. c # e0 /\ fate[c] = "open"
          BY <3>1, <1>3, <2>4
        <4>2. \/ \E f \in Files : activeWrites[f] = c
              \/ \E q \in Procs : pc[q] \in LoadLabels /\ local[q].chan = c
          BY <4>1, <1>0 DEF Reach
        <4>3. ASSUME NEW f \in Files, activeWrites[f] = c
              PROVE  activeWrites'[f] = c
          BY <4>1, <4>3, <2>3
        <4>4. ASSUME NEW q \in Procs, pc[q] \in LoadLabels, local[q].chan = c
              PROVE  pc'[q] \in LoadLabels /\ local'[q].chan = c
          BY <4>4, <1>2, <1>3, <2>6
        <4>. QED  BY <4>2, <4>3, <4>4
      <3>. QED  BY <3>1, <1>4 DEF Reach
    <2>10. Entries'
      <3>1. ASSUME NEW f \in Files, activeWrites'[f] # None
            PROVE  /\ activeWrites'[f] \in 1 .. nchan /\ fate'[activeWrites'[f]] = "open"
                   /\ \A g \in Files : activeWrites'[g] = activeWrites'[f] => g = f
                   /\ \A q \in Procs : pc'[q] \in LoadLabels => local'[q].chan # activeWrites'[f]
        <4>1. f # f0 /\ activeWrites'[f] = activeWrites[f] /\ activeWrites[f] # e0
          BY <3>1, <2>3, <2>8
        <4>2. /\ activeWrites[f] \in 1 .. nchan /\ fate[activeWrites[f]] = "open"
              /\ \A g \in Files : activeWrites[g] = activeWrites[f] => g = f
              /\ \A q \in Procs : pc[q] \in LoadLabels => local[q].chan # activeWrites[f]
          BY <3>1, <4>1, <1>0 DEF Entries
        <4>3. fate'[activeWrites[f]] = "open"
          BY <4>1, <4>2, <1>3, <2>4
        <4>4. \A g \in Files : activeWrites'[g] = activeWrites'[f] => g = f
          BY <3>1, <4>1, <4>2, <2>3
        <4>. QED  BY <4>1, <4>2, <4>3, <4>4, <2>6, <2>7
      <3>. QED  BY <3>1, <1>4 DEF Entries
    <2>11. Fresh'
      BY <1>0, <1>4, <2>2, <2>4 DEF Fresh
    <2>12. Follow'
      BY <1>0, <2>2, <2>4, <2>5, <2>6, <2>7 DEF Follow
    <2>13. Distinct'
      BY <1>0, <2>5, <2>6 DEF Distinct
    <2>. QED  BY <2>9, <2>10, <2>11, <2>12, <2>13, HolderParts
  <1>. QED  BY <1>5, <1>6

\* The steps of a process that leave what is held as it is.
LEMMA HoldersSteady ==
  ASSUME ControlOK, HoldersOK, NEW p \in Procs,
         \/ Push(p) \/ ReadTotal(p) \/ PutSize(p) \/ CheckPath(p) \/ CheckLast(p) \/ Mark(p)
         \/ Acquire(p) \/ GitRead(p) \/ ReadData(p) \/ RangeRead(p)
         \/ AttrPath(p) \/ AttrGet(p) \/ AttrPut(p) \/ RemoveMeta(p) \/ RemoveId(p)
         \/ FaultInWrite(p) \/ FaultInAttrPath(p) \/ FaultInAttr(p)
  PROVE  HoldersOK'
  <1>0. pc \in [Procs -> Labels] /\ local \in [Procs -> Locals] /\ nchan \in 0 .. MaxChannels
    BY DEF ControlOK, TypeOK, ProcsType, BuffersType
  <1>1. activeWrites' = activeWrites /\ nchan' = nchan /\ fate' = fate
    BY DEF Push, ReadTotal, PutSize, CheckPath, CheckLast, Mark, Acquire, GitRead, ReadData,
           RangeRead,
           AttrPath, AttrGet, AttrPut, AttrOnward, RemoveMeta, RemoveId, FaultInWrite,
           FaultInAttrPath, FaultInAttr, buffers, history
  <1>2. \A c \in Channels : c > nchan => arrived'[c] = arrived[c]
    <2>1. CASE Push(p)
      <3>1. local[p].chan \in 1 .. nchan
        BY <2>1 DEF Push, ControlOK, ControlOf, ChanLabels, WriteLabels
      <3>2. arrived' = [arrived EXCEPT ![local[p].chan] = Append(@, local[p].req)]
        BY <2>1 DEF Push, Write
      <3>3. arrived \in [Channels -> Seq(Chunk)]
        BY DEF ControlOK, TypeOK, HistoryType
      <3>. QED  BY <1>0, <3>1, <3>2, <3>3
    <2>2. CASE ~Push(p)
      BY <2>2
         DEF ReadTotal, PutSize, CheckPath, CheckLast, Mark, Acquire, GitRead, ReadData,
             RangeRead,
             AttrPath, AttrGet, AttrPut, AttrOnward, RemoveMeta, RemoveId, FaultInWrite,
             FaultInAttrPath, FaultInAttr, history
    <2>. QED  BY <2>1, <2>2
  <1>3. Others(p)
    <2>1. \/ Finish(p)
          \/ local' = local /\ \E l \in Labels : Goto(p, l)
          \/ \E l \in Labels : \E r : Goto(p, l) /\ local' = [local EXCEPT ![p] = r]
      BY DEF Push, ReadTotal, PutSize, CheckPath, CheckLast, Mark, Acquire, GitRead, ReadData,
             RangeRead,
             AttrPath, AttrGet, AttrPut, AttrOnward, RemoveMeta, RemoveId, FaultInWrite,
             FaultInAttrPath, FaultInAttr, CommitIfGit, PackOutcome,
             Labels
    <2>. QED  BY <1>0, <2>1 DEF Finish, Goto, Others
  <1>4. pc[p] \notin HoldLabels
    BY DEF Push, ReadTotal, PutSize, CheckPath, CheckLast, Mark, Acquire, GitRead, ReadData,
           RangeRead,
           AttrPath, AttrGet, AttrPut, AttrOnward, RemoveMeta, RemoveId, FaultInWrite,
           FaultInAttrPath, FaultInAttr,
           HoldLabels, LoadLabels, CommitLabels, StoreLabels
  <1>5. pc'[p] \in {"idle", "total", "putsize", "checkpath", "checklast", "mark", "acquire", "take",
                    "data", "spinning", "panicked", "attrget", "attrput", "rmid"}
    BY <1>0
       DEF Push, ReadTotal, PutSize, CheckPath, CheckLast, Mark, Acquire, GitRead, ReadData,
           RangeRead,
           AttrPath, AttrGet, AttrPut, AttrOnward, RemoveMeta, RemoveId, FaultInWrite,
           FaultInAttrPath, FaultInAttr, CommitIfGit, PackOutcome,
           Finish, Goto
  <1>6. pc'[p] \notin HoldLabels
    BY <1>5 DEF HoldLabels, LoadLabels, CommitLabels, StoreLabels
  <1>7. LoadLabels \subseteq HoldLabels
    BY DEF HoldLabels
  <1>. QED  BY <1>1, <1>2, <1>3, <1>4, <1>6, <1>7, Steady

\* What CommitReturn leaves behind.
LEMMA Returned ==
  ASSUME ControlOK, NEW p \in Procs, NEW ok \in BOOLEAN, CommitReturn(p, ok)
  PROVE  Others(p) /\ pc'[p] \notin HoldLabels
  <1>0. pc \in [Procs -> Labels] /\ local \in [Procs -> Locals]
    BY DEF ControlOK, TypeOK, ProcsType
  <1>1. Others(p) /\ pc'[p] \in {"idle", "scanned", "data"}
    BY <1>0 DEF CommitReturn, Finish, Goto, Others
  <1>. QED  BY <1>1 DEF HoldLabels, LoadLabels, CommitLabels, StoreLabels

\* The steps of a commit after it has taken the channel.
LEMMA HoldersCommit ==
  ASSUME ControlOK, HoldersOK, NEW p \in Procs,
         \/ CommitPath(p) \/ CommitRead(p) \/ CommitStore(p) \/ CommitTouch(p)
         \/ CommitTimes(p) \/ CommitClear(p) \/ FaultInPath(p) \/ FaultInStore(p)
         \/ FaultInTimes(p)
  PROVE  HoldersOK'
  <1>0. /\ pc \in [Procs -> Labels] /\ local \in [Procs -> Locals]
        /\ fate \in [Channels -> Fates] /\ Follow
    BY HolderParts DEF ControlOK, TypeOK, ProcsType, HistoryType
  <1>1. activeWrites' = activeWrites /\ nchan' = nchan /\ arrived' = arrived
    BY DEF CommitPath, CommitRead, CommitStore, CommitTouch, CommitTimes, CommitClear,
           FaultInPath, FaultInStore, FaultInTimes, buffers, history
  <1>2. pc[p] \in CommitLabels
    BY DEF CommitPath, CommitRead, CommitStore, CommitTouch, CommitTimes, CommitClear,
           FaultInPath, FaultInStore, FaultInTimes, CommitLabels, StoreLabels
  <1>3. pc[p] \in HoldLabels /\ pc[p] \notin LoadLabels
    BY <1>2 DEF HoldLabels, LoadLabels, CommitLabels, StoreLabels
  <1>4. LoadLabels \subseteq HoldLabels
    BY DEF HoldLabels
  <1>5. local[p].chan \in Channels
    BY <1>3, HolderChan
  <1>6. \A x \in Fates \ {"open"} :
          /\ fate' = [fate EXCEPT ![local[p].chan] = x]
          /\ \E ok \in BOOLEAN : CommitReturn(p, ok)
          => HoldersOK'
    BY <1>1, <1>3, <1>4, Returned, Settle
  <1>7. "lost" \in Fates \ {"open"} /\ "stored" \in Fates \ {"open"}
    BY DEF Fates
  <1>8. CASE CommitPath(p)
    <2>1. CASE idToPath[local[p].file] # None
      <3>1. /\ pc[p] = "path" /\ pc'[p] = "readall" /\ fate' = fate
            /\ local' = [local EXCEPT ![p].path = idToPath[local[p].file]]
        BY <1>0, <1>8, <2>1 DEF CommitPath, Goto
      <3>2. Others(p)
        BY <1>0, <1>8, <2>1, <3>1 DEF CommitPath, Goto, Others
      <3>4. local'[p].chan = local[p].chan
        BY <1>0, <3>1 DEF Locals
      <3>3. pc'[p] \in HoldLabels /\ pc'[p] \notin LoadLabels /\ FateOf(pc'[p]) = FateOf(pc[p])
        BY <3>1 DEF HoldLabels, LoadLabels, CommitLabels, StoreLabels, FateOf
      <3>. QED  BY <1>1, <1>3, <3>1, <3>2, <3>3, <3>4, Steady
    <2>2. CASE idToPath[local[p].file] = None
      <3>1. fate' = [fate EXCEPT ![local[p].chan] = "lost"] /\ CommitReturn(p, FALSE)
        BY <1>8, <2>2 DEF CommitPath
      <3>. QED  BY <1>6, <1>7, <3>1
    <2>. QED  BY <2>1, <2>2
  <1>9. CASE CommitRead(p)
    <2>1. pc[p] = "readall" /\ pc'[p] = "store" /\ fate' = fate
      BY <1>0, <1>9 DEF CommitRead, Goto, history
    <2>2. PICK x, n : local' = [local EXCEPT ![p].image = x, ![p].seen = n]
      BY <1>9 DEF CommitRead
    <2>3. Others(p)
      BY <1>0, <1>9, <2>2 DEF CommitRead, Goto, Others
    <2>4. local'[p].chan = local[p].chan
      BY <1>0, <2>2 DEF Locals
    <2>5. pc'[p] \in HoldLabels /\ pc'[p] \notin LoadLabels /\ FateOf(pc'[p]) = FateOf(pc[p])
      BY <2>1 DEF HoldLabels, LoadLabels, CommitLabels, StoreLabels, FateOf
    <2>. QED  BY <1>1, <1>3, <2>1, <2>3, <2>4, <2>5, Steady
  <1>10. CASE CommitStore(p)
    <2>1. /\ pc[p] = "store" /\ pc'[p] = "touch" /\ local' = local
          /\ fate' = [fate EXCEPT ![local[p].chan] = "stored"]
      BY <1>0, <1>10 DEF CommitStore, Goto
    <2>2. Others(p)
      BY <1>0, <1>10 DEF CommitStore, Goto, Others
    <2>3. pc'[p] \in HoldLabels /\ pc'[p] \notin LoadLabels /\ FateOf(pc'[p]) = "stored"
      BY <2>1 DEF HoldLabels, LoadLabels, CommitLabels, StoreLabels, FateOf
    <2>. QED  BY <1>1, <1>3, <1>7, <2>1, <2>2, <2>3, Settle
  <1>11. CASE CommitTouch(p) \/ CommitTimes(p)
    <2>1. /\ \/ pc[p] = "touch" /\ pc'[p] = "puttimes"
             \/ pc[p] = "puttimes" /\ pc'[p] = "clear"
          /\ fate' = fate
      <3>1. CASE CommitTouch(p)
        BY <1>0, <3>1 DEF CommitTouch, Goto, history
      <3>2. CASE CommitTimes(p)
        BY <1>0, <3>2 DEF CommitTimes, Goto, history
      <3>. QED  BY <1>11, <3>1, <3>2
    <2>2. local' = local \/ \E n : local' = [local EXCEPT ![p].size = n]
      BY <1>11 DEF CommitTouch, CommitTimes
    <2>3. Others(p)
      BY <1>0, <1>11, <2>2 DEF CommitTouch, CommitTimes, Goto, Others
    <2>4. local'[p].chan = local[p].chan
      BY <1>0, <2>2 DEF Locals
    <2>5. pc'[p] \in HoldLabels /\ pc'[p] \notin LoadLabels /\ FateOf(pc'[p]) = FateOf(pc[p])
      BY <2>1 DEF HoldLabels, LoadLabels, CommitLabels, StoreLabels, FateOf
    <2>. QED  BY <1>1, <1>3, <2>1, <2>3, <2>4, <2>5, Steady
  <1>12. CASE CommitClear(p) \/ FaultInTimes(p)
    <2>1. pc[p] \in {"clear", "puttimes"} /\ fate' = fate
      BY <1>12 DEF CommitClear, FaultInTimes, history
    <2>2. fate[local[p].chan] = "stored"
      BY <1>0, <1>3, <2>1 DEF Follow, FateOf, LoadLabels
    <2>3. fate' = [fate EXCEPT ![local[p].chan] = "stored"]
      BY <1>0, <1>5, <2>1, <2>2
    <2>4. \E ok \in BOOLEAN : CommitReturn(p, ok)
      BY <1>12 DEF CommitClear, FaultInTimes
    <2>. QED  BY <1>6, <1>7, <2>3, <2>4
  <1>13. CASE FaultInPath(p) \/ FaultInStore(p)
    <2>1. fate' = [fate EXCEPT ![local[p].chan] = "lost"] /\ CommitReturn(p, FALSE)
      BY <1>13 DEF FaultInPath, FaultInStore
    <2>. QED  BY <1>6, <1>7, <2>1
  <1>. QED  BY <1>8, <1>9, <1>10, <1>11, <1>12, <1>13

\* A reader of a pack file loads the stored content, or fails to.
LEMMA HoldersLoad ==
  ASSUME ControlOK, HoldersOK, NEW t \in Procs, LoadExisting(t)
  PROVE  HoldersOK'
  <1>0. /\ pc \in [Procs -> Labels] /\ local \in [Procs -> Locals]
        /\ arrived \in [Channels -> Seq(Chunk)] /\ nchan \in 0 .. MaxChannels
    BY DEF ControlOK, TypeOK, ProcsType, HistoryType, BuffersType
  <1>1. pc[t] = "load" /\ activeWrites' = activeWrites /\ nchan' = nchan
    BY DEF LoadExisting
  <1>2. pc[t] \in HoldLabels /\ pc[t] \in LoadLabels
    BY <1>1 DEF HoldLabels, LoadLabels
  <1>3. local[t].chan \in 1 .. nchan
    BY <1>2, HolderChan
  <1>4. CASE idToPath[local[t].file] # None
    <2>1. /\ pc'[t] = "insert" /\ local' = local /\ fate' = fate
          /\ \E ch : Write(local[t].chan, ch)
      BY <1>0, <1>4 DEF LoadExisting, Goto
    <2>2. \A c \in Channels : c > nchan => arrived'[c] = arrived[c]
      BY <1>0, <1>3, <2>1 DEF Write
    <2>3. Others(t)
      BY <1>0, <1>4 DEF LoadExisting, Goto, Others
    <2>4. pc'[t] \in HoldLabels /\ pc'[t] \in LoadLabels /\ FateOf(pc'[t]) = FateOf(pc[t])
      BY <1>1, <2>1 DEF HoldLabels, LoadLabels, FateOf
    <2>. QED  BY <1>1, <1>2, <2>1, <2>2, <2>3, <2>4, Steady
  <1>5. CASE idToPath[local[t].file] = None
    <2>1. fate' = [fate EXCEPT ![local[t].chan] = "lost"] /\ arrived' = arrived /\ Finish(t)
      BY <1>5 DEF LoadExisting
    <2>2. Others(t) /\ pc'[t] = "idle"
      BY <1>0, <2>1 DEF Finish, Others
    <2>3. pc'[t] \notin HoldLabels /\ pc'[t] \notin LoadLabels
      BY <2>2 DEF HoldLabels, LoadLabels, CommitLabels, StoreLabels
    <2>4. "lost" \in Fates \ {"open"}
      BY DEF Fates
    <2>. QED  BY <1>1, <1>2, <2>1, <2>2, <2>3, <2>4, Settle
  <1>. QED  BY <1>4, <1>5

\* The steps that start a request or a commit of the monitor, and create.
LEMMA HoldersStart ==
  ASSUME ControlOK, HoldersOK,
         \/ \E t \in Tasks : Request(t)
         \/ MonitorScan \/ MonitorCommit
         \/ \E f \in Files, p \in Paths : Create(f, p)
  PROVE  HoldersOK'
  <1>0. pc \in [Procs -> Labels] /\ local \in [Procs -> Locals]
    BY DEF ControlOK, TypeOK, ProcsType
  <1>1. activeWrites' = activeWrites /\ nchan' = nchan /\ fate' = fate /\ arrived' = arrived
    BY DEF Request, StartWrite, StartRead, StartSetAttr, StartRemove, MonitorScan,
           MonitorCommit, Create, buffers, history
  <1>2. Monitor \in Procs /\ Tasks \subseteq Procs
    BY DEF Procs
  <1>3. LoadLabels \subseteq HoldLabels
    BY DEF HoldLabels
  <1>4. ASSUME NEW p \in Procs, NEW l, Goto(p, l), Others(p),
               pc[p] \in {"idle", "scanned"},
               l \in {"channel", "pack", "git", "data", "attrpath", "rmmeta", "scanned", "acquire"}
        PROVE  HoldersOK'
    <2>1. pc'[p] = l
      BY <1>0, <1>4 DEF Goto
    <2>2. pc[p] \notin HoldLabels /\ pc'[p] \notin HoldLabels
      BY <1>4, <2>1 DEF HoldLabels, LoadLabels, CommitLabels, StoreLabels
    <2>. QED  BY <1>1, <1>3, <1>4, <2>2, Steady
  <1>5. CASE \E t \in Tasks : Request(t)
    <2>1. PICK t \in Tasks : Request(t)
      BY <1>5
    <2>2. PICK l \in {"channel", "pack", "git", "data", "attrpath", "rmmeta"} :
            \E op, f, req : Begin(t, op, f, req, l)
      BY <2>1 DEF Request, StartWrite, StartRead, StartSetAttr, StartRemove
    <2>3. Others(t) /\ Goto(t, l) /\ pc[t] = "idle"
      BY <1>0, <1>2, <2>2 DEF Begin, Goto, Others
    <2>. QED  BY <1>2, <1>4, <2>3
  <1>6. CASE MonitorScan \/ MonitorCommit
    <2>1. Others(Monitor)
      BY <1>0, <1>6 DEF MonitorScan, MonitorCommit, Goto, Others
    <2>2. PICK l \in {"scanned", "acquire"} : Goto(Monitor, l)
      BY <1>6 DEF MonitorScan, MonitorCommit
    <2>3. pc[Monitor] \in {"idle", "scanned"}
      BY <1>6 DEF MonitorScan, MonitorCommit
    <2>. QED  BY <1>2, <1>4, <2>1, <2>2, <2>3
  <1>7. CASE \E f \in Files, p \in Paths : Create(f, p)
    <2>1. pc' = pc /\ local' = local
      BY <1>7 DEF Create
    <2>. QED  BY <1>1, <1>2, <2>1, Steady DEF Others
  <1>. QED  BY <1>5, <1>6, <1>7

\* After a restart nobody holds anything, and what was open is lost.
LEMMA HoldersRestart ==
  ASSUME ControlOK, HoldersOK, Restart
  PROVE  HoldersOK'
  <1>0. Fresh /\ nchan \in 0 .. MaxChannels
    BY HolderParts DEF ControlOK, TypeOK, BuffersType
  <1>1. \A p \in Procs : pc'[p] = "idle"
    BY DEF Restart
  <1>2. \A p \in Procs : pc'[p] \notin HoldLabels /\ pc'[p] \notin LoadLabels
    BY <1>1 DEF HoldLabels, LoadLabels, CommitLabels, StoreLabels
  <1>3. \A c \in 1 .. nchan : fate'[c] # "open"
    BY <1>0 DEF Restart, Channels
  <1>4. Reach' /\ Entries'
    BY <1>3 DEF Restart, Reach, Entries
  <1>5. Fresh'
    BY <1>0 DEF Restart, Fresh, Channels
  <1>6. Follow' /\ Distinct'
    BY <1>2 DEF Follow, Distinct
  <1>. QED  BY <1>4, <1>5, <1>6, HolderParts

LEMMA HoldersInit == Init => HoldersOK
  <1>. SUFFICES ASSUME Init PROVE HoldersOK
    OBVIOUS
  <1>1. \A p \in Procs : pc[p] \notin HoldLabels
    BY DEF Init, HoldLabels, LoadLabels, CommitLabels, StoreLabels
  <1>2. Reach /\ Entries /\ Fresh
    BY DEF Init, Reach, Entries, Fresh
  <1>3. Follow /\ Distinct
    BY <1>1 DEF Follow, Distinct
  <1>. QED  BY <1>2, <1>3, HolderParts

LEMMA HoldersNext == ControlOK /\ HoldersOK /\ [Next]_vars => HoldersOK'
  <1>. SUFFICES ASSUME ControlOK, HoldersOK, [Next]_vars PROVE HoldersOK'
    OBVIOUS
  <1>1. Monitor \in Procs /\ Tasks \subseteq Procs
    BY DEF Procs
  <1>2. ASSUME NEW p \in Procs, CommitStep(p)
        PROVE  HoldersOK'
    BY <1>2, HoldersSteady, HoldersTake, HoldersCommit DEF CommitStep
  <1>3. ASSUME NEW t \in Tasks, TaskStep(t)
        PROVE  HoldersOK'
    <2>1. CASE WriteStep(t)
      BY <1>1, <2>1, HoldersGetChannel, HoldersSteady DEF WriteStep
    <2>2. CASE CommitStep(t)
      BY <1>1, <1>2, <2>2
    <2>3. CASE ReadStep(t)
      BY <1>1, <2>3, HoldersPackRead, HoldersLoad, HoldersInsert, HoldersSteady DEF ReadStep
    <2>4. CASE AttrStep(t)
      BY <1>1, <2>4, HoldersSteady DEF AttrStep
    <2>. QED  BY <1>3, <2>1, <2>2, <2>3, <2>4 DEF TaskStep
  <1>4. CASE MonitorStep
    BY <1>1, <1>2, <1>4, HoldersStart DEF MonitorStep
  <1>5. CASE Failure
    BY <1>1, <1>5, HoldersSteady, HoldersCommit, HoldersRestart DEF Failure
  <1>6. CASE \E t \in Tasks : Request(t)
    BY <1>6, HoldersStart
  <1>7. CASE \E f \in Files, p \in Paths : Create(f, p)
    BY <1>7, HoldersStart
  <1>8. CASE UNCHANGED vars
    BY <1>1, <1>8, Steady DEF vars, buffers, store, history, Others
  <1>. QED  BY <1>3, <1>4, <1>5, <1>6, <1>7, <1>8 DEF Next

\* Layer 2: what is held, by whom, and what becomes of it.
THEOREM HoldersAlways == Spec => []HoldersOK
  BY ControlAlways, HoldersInit, HoldersNext, PTL DEF Spec

\* While a process is inside commit_write with a channel, no other process
\* commits it and no file has it in active_writes: a channel cannot be stored
\* twice, nor be cleared under a writer that found it afterwards.
THEOREM OneCommitterAlways == Spec => []OneCommitter
  <1>1. ControlOK /\ HoldersOK => OneCommitter
    <2>. SUFFICES ASSUME ControlOK, HoldersOK, NEW p \in Procs, Committing(p)
                  PROVE  /\ \A q \in Procs : Committing(q) /\ q # p
                              => local[q].chan # local[p].chan
                         /\ \A f \in Files : activeWrites[f] # local[p].chan
      BY DEF OneCommitter
    <2>1. pc[p] \in HoldLabels
      BY HolderLabels DEF HoldLabels
    <2>. QED  BY <2>1, HolderApart DEF HoldersOK, Holding
  <1>. QED  BY <1>1, ControlAlways, HoldersAlways, PTL

\* A channel that was neither taken nor lost is in active_writes, or about to be
\* inserted there, so that what was written to it can still be committed.
THEOREM OpenIsReachableAlways == Spec => []OpenIsReachable
  <1>1. HoldersOK => OpenIsReachable
    BY DEF HoldersOK
  <1>. QED  BY <1>1, HoldersAlways, PTL

-----------------------------------------------------------------------------
(***************************************************************************)
(* Layer 3, and the steps of BatchStore.                                   *)
(***************************************************************************)
\* What ContentOK says of one channel and of one process.
ChannelContent(c) ==
  /\ fate[c] # "stored" => buf[c].log = arrived[c] /\ IsExtent(arrived[c], buf[c].total)
  /\ fate[c] = "sealed" => sealed[c] <= Len(arrived[c])

ImageContent(p) ==
  pc[p] = "store" =>
    /\ sealed[local[p].chan] <= local[p].seen
    /\ local[p].seen <= Len(arrived[local[p].chan])
    /\ local[p].image = ImageOf(arrived[local[p].chan], local[p].seen)

LEMMA ContentParts ==
  /\ ContentOK <=> (\A c \in Channels : ChannelContent(c)) /\ (\A p \in Procs : ImageContent(p))
  /\ ContentOK' <=> (\A c \in Channels : ChannelContent(c)') /\ (\A p \in Procs : ImageContent(p)')
  BY DEF ContentOK, ChannelContent, ImageContent

\* No process gets to its store step, nor changes its local variables there.
StoringKept ==
  \A p \in Procs : pc'[p] = "store" => pc[p] = "store" /\ local'[p] = local[p]

LEMMA StoringChan ==
  ASSUME ControlOK, NEW p \in Procs, pc[p] = "store"
  PROVE  local[p].chan \in Channels /\ local[p].seen \in Nat /\ local[p].path \in Paths
  <1>1. pc[p] \in HoldLabels /\ pc[p] \in PathLabels
    BY DEF HoldLabels, CommitLabels, StoreLabels, PathLabels
  <1>2. local[p] \in Locals
    BY DEF ControlOK, TypeOK, ProcsType
  <1>. QED  BY <1>1, <1>2, HolderChan DEF Locals, ControlOK, ControlOf

\* A step that writes to no channel.
LEMMA Kept ==
  ASSUME ControlOK, ContentOK, arrived' = arrived, StoringKept,
         \A c \in Channels :
           /\ fate'[c] # "stored" => /\ fate[c] # "stored"
                                     /\ buf'[c].log = buf[c].log /\ buf'[c].total = buf[c].total
           /\ fate'[c] = "sealed" => sealed'[c] <= Len(arrived[c]),
         \A p \in Procs : pc[p] = "store" => sealed'[local[p].chan] = sealed[local[p].chan]
  PROVE  ContentOK'
  <1>1. \A c \in Channels : ChannelContent(c)'
    BY ContentParts DEF ChannelContent
  <1>2. \A p \in Procs : ImageContent(p)'
    BY ContentParts DEF ImageContent, StoringKept
  <1>. QED  BY <1>1, <1>2, ContentParts

\* A step that changes neither buffers nor history.
LEMMA Untouched ==
  ASSUME ControlOK, ContentOK, StoringKept, buf' = buf, UNCHANGED history
  PROVE  ContentOK'
  <1>1. \A c \in Channels : fate[c] = "sealed" => sealed[c] <= Len(arrived[c])
    BY DEF ContentOK
  <1>. QED  BY <1>1, Kept DEF history

\* A step that loses channels.
LEMMA Losing ==
  ASSUME ControlOK, ContentOK, StoringKept, buf' = buf, arrived' = arrived, sealed' = sealed,
         \A c \in Channels : fate'[c] = fate[c] \/ (fate[c] # "stored" /\ fate'[c] = "lost")
  PROVE  ContentOK'
  <1>1. \A c \in Channels : fate[c] = "sealed" => sealed[c] <= Len(arrived[c])
    BY DEF ContentOK
  <1>. QED  BY <1>1, Kept

\* A step that writes a chunk to a channel, in whatever state that is.
LEMMA Writing ==
  ASSUME ControlOK, ContentOK, StoringKept, NEW c \in Channels, NEW ch \in Chunk, Write(c, ch),
         fate' = fate, sealed' = sealed
  PROVE  ContentOK'
  <1>1. buf \in [Channels -> Buffer] /\ arrived \in [Channels -> Seq(Chunk)]
        /\ sealed \in [Channels -> Nat]
    BY DEF ControlOK, TypeOK, BuffersType, HistoryType
  <1>2. /\ buf'[c] = Pushed(buf[c], ch) /\ arrived'[c] = Append(arrived[c], ch)
        /\ \A d \in Channels : d # c => buf'[d] = buf[d] /\ arrived'[d] = arrived[d]
    BY <1>1 DEF Write
  <1>3. /\ Pushed(buf[c], ch).log = Append(buf[c].log, ch)
        /\ Len(Append(arrived[c], ch)) = Len(arrived[c]) + 1 /\ Len(arrived[c]) \in Nat
    BY <1>1 DEF Pushed, Buffer
  <1>4. ChannelContent(c)'
    <2>1. CASE fate[c] # "stored"
      <3>1. buf[c].log = arrived[c] /\ IsExtent(buf[c].log, buf[c].total)
        BY <2>1, ContentParts DEF ChannelContent
      <3>2. IsExtent(Pushed(buf[c], ch).log, Pushed(buf[c], ch).total)
        BY <1>1, <3>1, PushedExtent
      <3>3. buf'[c].log = arrived'[c] /\ IsExtent(arrived'[c], buf'[c].total)
        BY <1>2, <1>3, <3>1, <3>2
      <3>4. fate[c] = "sealed" => sealed[c] <= Len(arrived'[c])
        BY <1>1, <1>2, <1>3, ContentParts DEF ChannelContent
      <3>. QED  BY <3>3, <3>4 DEF ChannelContent
    <2>2. CASE fate[c] = "stored"
      BY <2>2 DEF ChannelContent
    <2>. QED  BY <2>1, <2>2
  <1>5. \A d \in Channels : d # c => ChannelContent(d)'
    BY <1>2, ContentParts DEF ChannelContent
  <1>6. ASSUME NEW p \in Procs, pc'[p] = "store"
        PROVE  ImageContent(p)'
    <2>1. pc[p] = "store" /\ local'[p] = local[p] /\ ImageContent(p)
      BY <1>6, ContentParts DEF StoringKept
    <2>2. local[p].chan \in Channels /\ local[p].seen \in Nat
      BY <2>1, StoringChan
    <2>3. CASE local[p].chan = c
      <3>1. local[p].seen \in 0 .. Len(arrived[c])
        BY <1>3, <2>1, <2>2, <2>3 DEF ImageContent
      <3>2. ImageOf(arrived'[c], local[p].seen) = ImageOf(arrived[c], local[p].seen)
        BY <1>1, <1>2, <3>1, ImageOfPrefix
      <3>3. local[p].seen <= Len(arrived'[c])
        BY <1>2, <1>3, <3>1
      <3>. QED  BY <2>1, <2>3, <3>2, <3>3 DEF ImageContent
    <2>4. CASE local[p].chan # c
      BY <1>2, <2>1, <2>2, <2>4 DEF ImageContent
    <2>. QED  BY <2>3, <2>4
  <1>7. \A p \in Procs : ImageContent(p)'
    BY <1>6 DEF ImageContent
  <1>. QED  BY <1>4, <1>5, <1>7, ContentParts

-----------------------------------------------------------------------------
(***************************************************************************)
(* The steps, grouped by what they do to the channels.                     *)
(***************************************************************************)

\* A step of a SETATTR ends it, or sets its local variables and goes to a put.
LEMMA AttrMoves ==
  ASSUME NEW p \in Procs,
         AttrPath(p) \/ AttrGet(p) \/ AttrPut(p) \/ FaultInAttrPath(p) \/ FaultInAttr(p)
  PROVE  Finish(p) \/ \E l \in {"attrget", "attrput"} : \E r :
                        Goto(p, l) /\ local' = [local EXCEPT ![p] = r]
  <1>1. ASSUME NEW l \in {"attrget", "attrput"}, NEW r,
               Goto(p, l), local' = [local EXCEPT ![p] = r]
        PROVE  \E m \in {"attrget", "attrput"} : \E x :
                 Goto(p, m) /\ local' = [local EXCEPT ![p] = x]
    BY <1>1
  <1>2. CASE AttrPath(p)
    <2>. DEFINE r == [local[p] EXCEPT !.path = idToPath[local[p].file]]
    <2>1. Goto(p, "attrget") /\ local' = [local EXCEPT ![p] = r]
      BY <1>2 DEF AttrPath
    <2>. HIDE DEF r
    <2>. QED  BY <1>1, <2>1
  <1>3. CASE FaultInAttrPath(p)
    <2>. DEFINE r == [local[p] EXCEPT !.path = None]
    <2>1. Goto(p, "attrget") /\ local' = [local EXCEPT ![p] = r]
      BY <1>3 DEF FaultInAttrPath
    <2>. HIDE DEF r
    <2>. QED  BY <1>1, <2>1
  <1>4. CASE AttrGet(p)
    <2>. DEFINE r == [local[p] EXCEPT !.size =
                        IF local[p].path = None THEN None ELSE meta[local[p].path]]
    <2>1. Goto(p, "attrput") /\ local' = [local EXCEPT ![p] = r]
      BY <1>4 DEF AttrGet
    <2>. HIDE DEF r
    <2>. QED  BY <1>1, <2>1
  <1>5. CASE AttrPut(p) \/ FaultInAttr(p)
    <2>. DEFINE r == [local[p] EXCEPT !.req.others = @ - 1]
    <2>1. Finish(p) \/ (Goto(p, "attrget") /\ local' = [local EXCEPT ![p] = r])
      BY <1>5 DEF AttrPut, FaultInAttr, AttrOnward
    <2>. HIDE DEF r
    <2>. QED  BY <1>1, <2>1
  <1>. QED  BY <1>2, <1>3, <1>4, <1>5

\* Steps that leave buffers, history and data alone.
Quiescent(p) ==
  \/ GetChannel(p) \/ ReadTotal(p) \/ PutSize(p) \/ CheckPath(p) \/ CheckLast(p)
  \/ Acquire(p) \/ CommitTouch(p) \/ CommitTimes(p)
  \/ GitRead(p) \/ ReadData(p) \/ PackRead(p) \/ RangeRead(p)
  \/ AttrPath(p) \/ AttrGet(p) \/ AttrPut(p) \/ RemoveId(p)
  \/ FaultInWrite(p) \/ FaultInAttrPath(p) \/ FaultInAttr(p) \/ FaultInTimes(p)
  \/ Request(p)

LEMMA ReturnKeeps ==
  ASSUME ControlOK, NEW p \in Procs, NEW ok \in BOOLEAN, CommitReturn(p, ok)
  PROVE  StoringKept
  BY DEF CommitReturn, Finish, Goto, StoringKept, ControlOK, TypeOK, ProcsType

LEMMA QuiescentKeeps ==
  ASSUME ControlOK, NEW p \in Procs, Quiescent(p)
  PROVE  StoringKept
  <1>0. pc \in [Procs -> Labels] /\ local \in [Procs -> Locals]
    BY DEF ControlOK, TypeOK, ProcsType
  <1>1. CASE FaultInTimes(p)
    BY <1>1, ReturnKeeps DEF FaultInTimes
  <1>2. CASE Request(p)
    BY ZenonT(40), <1>0, <1>2
       DEF Request, StartWrite, StartRead, StartSetAttr, StartRemove, Begin, Goto, StoringKept
  <1>3. CASE GetChannel(p) \/ ReadTotal(p) \/ PutSize(p) \/ CheckPath(p) \/ CheckLast(p)
    BY <1>0, <1>3
       DEF GetChannel, ReadTotal, PutSize, CheckPath, CheckLast, CommitIfGit, Finish, Goto,
           StoringKept
  <1>4. CASE Acquire(p) \/ CommitTouch(p) \/ CommitTimes(p) \/ GitRead(p) \/ ReadData(p)
    BY <1>0, <1>4
       DEF Acquire, CommitTouch, CommitTimes, GitRead, ReadData, Finish, Goto, StoringKept
  <1>5. CASE PackRead(p) \/ RangeRead(p) \/ RemoveId(p)
    BY <1>0, <1>5
       DEF PackRead, RangeRead, PackOutcome, RemoveId, Finish, Goto, StoringKept
  <1>6. CASE FaultInWrite(p)
    BY <1>0, <1>6 DEF FaultInWrite, Finish, Goto, StoringKept
  <1>7. CASE AttrPath(p) \/ AttrGet(p) \/ AttrPut(p) \/ FaultInAttrPath(p) \/ FaultInAttr(p)
    <2>1. Finish(p) \/ \E l \in {"attrget", "attrput"} : \E r :
                         Goto(p, l) /\ local' = [local EXCEPT ![p] = r]
      BY <1>7, AttrMoves
    <2>. QED  BY <1>0, <2>1 DEF Finish, Goto, StoringKept
  <1>. QED  BY <1>1, <1>2, <1>3, <1>4, <1>5, <1>6, <1>7 DEF Quiescent

LEMMA QuiescentUntouched ==
  ASSUME NEW p \in Procs, Quiescent(p)
  PROVE  buf' = buf /\ data' = data /\ UNCHANGED history
  BY DEF Quiescent, GetChannel, ReadTotal, PutSize, CheckPath, CheckLast, Acquire, CommitTouch,
         CommitTimes, GitRead, ReadData, PackRead, RangeRead, AttrPath, AttrGet, AttrPut,
         RemoveId, FaultInWrite, FaultInAttrPath, FaultInAttr, FaultInTimes, Request, StartWrite,
         StartRead, StartSetAttr,
         StartRemove, buffers, store, history

\* What each step has to show: layer 3, and that it is a step of BatchStore.
Good == ContentOK' /\ [Batches!Next]_(Batches!vars)

LEMMA GoodQuiet ==
  ASSUME ControlOK, ContentOK, StoringKept, buf' = buf, data' = data, UNCHANGED history
  PROVE  Good
  BY Untouched DEF Good, Batches!vars, history

\* Losing channels that are not stored.
LEMMA GoodLose ==
  ASSUME ControlOK, ContentOK, StoringKept, buf' = buf, arrived' = arrived, sealed' = sealed,
         data' = data, NEW C \in SUBSET Channels, \A c \in C : fate[c] # "stored",
         fate' = [c \in Channels |-> IF c \in C THEN "lost" ELSE fate[c]]
  PROVE  Good
  <1>1. ContentOK'
    <2>1. ASSUME NEW c \in Channels
          PROVE  fate'[c] = fate[c] \/ (fate[c] # "stored" /\ fate'[c] = "lost")
      <3>1. fate'[c] = IF c \in C THEN "lost" ELSE fate[c]
        OBVIOUS
      <3>. QED  BY <3>1
    <2>. QED  BY <2>1, Losing
  <1>2. Batches!Lose(C)
    BY DEF Batches!Lose
  <1>. QED  BY <1>1, <1>2 DEF Good, Batches!Next

LEMMA GoodLoseOne ==
  ASSUME ControlOK, ContentOK, StoringKept, buf' = buf, arrived' = arrived, sealed' = sealed,
         data' = data, NEW c \in Channels, fate[c] # "stored",
         fate' = [fate EXCEPT ![c] = "lost"]
  PROVE  Good
  <1>1. fate \in [Channels -> Fates]
    BY DEF ControlOK, TypeOK, HistoryType
  <1>2. fate' = [d \in Channels |-> IF d \in {c} THEN "lost" ELSE fate[d]]
    BY <1>1
  <1>. QED  BY <1>2, GoodLose

LEMMA GoodWrite ==
  ASSUME ControlOK, ContentOK, StoringKept, NEW c \in Channels, NEW ch \in Chunk, Write(c, ch),
         fate' = fate, sealed' = sealed, data' = data
  PROVE  Good
  <1>1. arrived \in [Channels -> Seq(Chunk)]
    BY DEF ControlOK, TypeOK, HistoryType
  <1>2. arrived'[c] = Append(arrived[c], ch) /\ arrived' = [arrived EXCEPT ![c] = Append(@, ch)]
    BY <1>1 DEF Write
  <1>3. Len(arrived'[c]) = Len(arrived[c]) + 1 /\ arrived'[c][Len(arrived'[c])] = ch
    BY <1>1, <1>2
  <1>4. Batches!Add(c)
    BY <1>2, <1>3 DEF Batches!Add
  <1>. QED  BY <1>4, Writing DEF Good, Batches!Next

LEMMA GoodPush ==
  ASSUME ControlOK, ContentOK, NEW t \in Procs, Push(t)
  PROVE  Good
  <1>1. local[t].chan \in 1 .. nchan /\ local[t].req \in Chunk /\ nchan \in 0 .. MaxChannels
    BY DEF Push, ControlOK, ControlOf, TypeOK, BuffersType, ChanLabels, WriteLabels
  <1>2. local[t].chan \in Channels
    BY <1>1 DEF Channels
  <1>3. StoringKept
    BY DEF Push, Goto, StoringKept, ControlOK, TypeOK, ProcsType
  <1>. QED  BY <1>1, <1>2, <1>3, GoodWrite DEF Push, store

LEMMA GoodMark ==
  ASSUME ControlOK, ContentOK, NEW t \in Procs, Mark(t)
  PROVE  Good
  <1>1. /\ buf \in [Channels -> Buffer] /\ nchan \in 0 .. MaxChannels
        /\ activeWrites \in [Files -> (1 .. nchan) \cup {None}] /\ local[t].file \in Files
    BY DEF Mark, ControlOK, ControlOf, TypeOK, BuffersType, FileLabels, WriteLabels
  <1>2. StoringKept
    BY DEF Mark, CommitIfGit, Finish, Goto, StoringKept, ControlOK, TypeOK, ProcsType
  <1>3. \A c \in Channels : buf'[c].log = buf[c].log /\ buf'[c].total = buf[c].total
    <2>1. CASE Entry(t) = None
      BY <2>1 DEF Mark
    <2>2. CASE Entry(t) # None
      <3>1. Entry(t) \in Channels /\ buf' = [buf EXCEPT ![Entry(t)] = Completed(@)]
        BY <1>1, <2>2 DEF Mark, Entry, Channels
      <3>. QED  BY <1>1, <3>1 DEF Completed, Buffer
    <2>. QED  BY <2>1, <2>2
  <1>4. UNCHANGED history /\ data' = data
    BY DEF Mark, store
  <1>5. \A c \in Channels : fate[c] = "sealed" => sealed[c] <= Len(arrived[c])
    BY DEF ContentOK
  <1>6. ContentOK'
    BY <1>2, <1>3, <1>4, <1>5, Kept DEF history
  <1>. QED  BY <1>4, <1>6 DEF Good, Batches!vars, history

LEMMA GoodLoad ==
  ASSUME ControlOK, HoldersOK, ContentOK, NEW t \in Procs, LoadExisting(t)
  PROVE  Good
  <1>1. pc[t] = "load" /\ pc[t] \in HoldLabels /\ FateOf(pc[t]) = "open"
    BY DEF LoadExisting, HoldLabels, LoadLabels, FateOf
  <1>2. local[t].chan \in Channels /\ fate[local[t].chan] = "open"
    BY <1>1, HolderChan, HolderLabels DEF HoldersOK
  <1>3. StoringKept
    BY DEF LoadExisting, Finish, Goto, StoringKept, ControlOK, TypeOK, ProcsType
  <1>4. sealed' = sealed /\ data' = data
    BY DEF LoadExisting, store
  <1>5. CASE idToPath[local[t].file] # None
    <2>. DEFINE p == idToPath[local[t].file]
    <2>1. local[t].file \in Files
      BY <1>1 DEF ControlOK, ControlOf, FileLabels, ReadLabels, LoadLabels
    <2>2. p \in Paths
      BY <1>5, <2>1 DEF ControlOK, TypeOK, StoreType
    <2>3. data[p] \in Image \cup {None} /\ <<>> \in Image
      BY <2>2 DEF ControlOK, TypeOK, StoreType, Image
    <2>4. [off |-> 0, bytes |-> Content(p)] \in Chunk
      BY <2>3 DEF Content, Chunk
    <2>5. Write(local[t].chan, [off |-> 0, bytes |-> Content(p)]) /\ fate' = fate
      BY <1>5 DEF LoadExisting
    <2>. QED  BY <1>2, <1>3, <1>4, <2>4, <2>5, GoodWrite
  <1>6. CASE idToPath[local[t].file] = None
    <2>1. buf' = buf /\ arrived' = arrived /\ fate' = [fate EXCEPT ![local[t].chan] = "lost"]
      BY <1>6 DEF LoadExisting
    <2>. QED  BY <1>2, <1>3, <1>4, <2>1, GoodLoseOne
  <1>. QED  BY <1>5, <1>6

LEMMA GoodInsert ==
  ASSUME ControlOK, HoldersOK, ContentOK, NEW t \in Procs, InsertLoaded(t)
  PROVE  Good
  <1>1. local[t].file \in Files
    BY DEF InsertLoaded, ControlOK, ControlOf, FileLabels, ReadLabels, LoadLabels
  <1>2. StoringKept
    BY DEF InsertLoaded, Goto, StoringKept, ControlOK, TypeOK, ProcsType
  <1>3. buf' = buf /\ arrived' = arrived /\ sealed' = sealed /\ data' = data
    BY DEF InsertLoaded, store
  <1>4. CASE Entry(t) = None
    <2>1. fate' = fate
      BY <1>4 DEF InsertLoaded
    <2>. QED  BY <1>2, <1>3, <2>1, GoodQuiet DEF history
  <1>5. CASE Entry(t) # None
    <2>1. fate' = [fate EXCEPT ![Entry(t)] = "lost"]
      BY <1>5 DEF InsertLoaded
    <2>2. Entry(t) \in 1 .. nchan /\ fate[Entry(t)] = "open"
      BY <1>1, <1>5 DEF Entry, HoldersOK, OpenIsReachable
    <2>3. Entry(t) \in Channels
      BY <2>2 DEF Channels, ControlOK, TypeOK, BuffersType
    <2>. QED  BY <1>2, <1>3, <2>1, <2>2, <2>3, GoodLoseOne
  <1>. QED  BY <1>4, <1>5

LEMMA GoodTake ==
  ASSUME ControlOK, HoldersOK, ContentOK, NEW p \in Procs, Take(p)
  PROVE  Good
  <1>1. local[p].file \in Files
    BY DEF Take, ControlOK, ControlOf, FileLabels, HeldLabels
  <1>2. buf' = buf /\ arrived' = arrived /\ data' = data
    BY DEF Take, store
  <1>3. CASE Entry(p) = None
    <2>1. CommitReturn(p, TRUE) /\ UNCHANGED history
      BY <1>3 DEF Take, history
    <2>. QED  BY <1>2, <2>1, ReturnKeeps, GoodQuiet
  <1>4. CASE Entry(p) # None
    <2>. DEFINE c == Entry(p)
    <2>1. c \in 1 .. nchan /\ fate[c] = "open"
      BY <1>1, <1>4 DEF Entry, HoldersOK, OpenIsReachable
    <2>2. c \in Channels
      BY <2>1 DEF Channels, ControlOK, TypeOK, BuffersType
    <2>3. sealed' = [sealed EXCEPT ![c] = Len(arrived[c])] /\ fate' = [fate EXCEPT ![c] = "sealed"]
      BY <1>4 DEF Take
    <2>4. /\ sealed \in [Channels -> Nat] /\ fate \in [Channels -> Fates]
          /\ arrived \in [Channels -> Seq(Chunk)]
      BY DEF ControlOK, TypeOK, HistoryType
    <2>5. StoringKept
      BY <1>4 DEF Take, Goto, StoringKept, ControlOK, TypeOK, ProcsType
    <2>6. \A d \in Channels :
            /\ fate'[d] # "stored" => /\ fate[d] # "stored"
                                      /\ buf'[d].log = buf[d].log /\ buf'[d].total = buf[d].total
            /\ fate'[d] = "sealed" => sealed'[d] <= Len(arrived[d])
      <3>1. \A d \in Channels : fate[d] = "sealed" => sealed[d] <= Len(arrived[d])
        BY DEF ContentOK
      <3>2. Len(arrived[c]) \in Nat
        BY <2>2, <2>4
      <3>. QED  BY <1>2, <2>1, <2>2, <2>3, <2>4, <3>1, <3>2
    <2>7. \A q \in Procs : pc[q] = "store" => sealed'[local[q].chan] = sealed[local[q].chan]
      <3>1. ASSUME NEW q \in Procs, pc[q] = "store"
            PROVE  local[q].chan \in Channels /\ local[q].chan # c
        <4>1. pc[q] \in HoldLabels
          BY <3>1 DEF HoldLabels, CommitLabels, StoreLabels
        <4>. QED  BY <1>1, <4>1, HolderChan, HolderApart DEF Entry
      <3>. QED  BY <3>1, <2>3, <2>4
    <2>8. ContentOK'
      BY <1>2, <2>5, <2>6, <2>7, Kept
    <2>9. Batches!Seal(c)
      BY <1>2, <2>1, <2>3 DEF Batches!Seal
    <2>. QED  BY <2>2, <2>8, <2>9 DEF Good, Batches!Next
  <1>. QED  BY <1>3, <1>4

\* The channel of a committer before and after it is stored.
LEMMA SealedChan ==
  ASSUME ControlOK, HoldersOK, NEW p \in Procs, pc[p] \in {"path", "readall", "store"}
  PROVE  local[p].chan \in Channels /\ fate[local[p].chan] = "sealed"
  <1>1. pc[p] \in HoldLabels /\ FateOf(pc[p]) = "sealed"
    BY DEF HoldLabels, CommitLabels, StoreLabels, LoadLabels, FateOf
  <1>. QED  BY <1>1, HolderChan, HolderLabels DEF HoldersOK

LEMMA GoodPath ==
  ASSUME ControlOK, HoldersOK, ContentOK, NEW p \in Procs, CommitPath(p)
  PROVE  Good
  <1>1. local[p].chan \in Channels /\ fate[local[p].chan] = "sealed"
    BY SealedChan DEF CommitPath
  <1>2. buf' = buf /\ arrived' = arrived /\ sealed' = sealed /\ data' = data
    BY DEF CommitPath, buffers, store
  <1>3. CASE idToPath[local[p].file] # None
    <2>1. StoringKept
      BY <1>3 DEF CommitPath, Goto, StoringKept, ControlOK, TypeOK, ProcsType
    <2>2. fate' = fate
      BY <1>3 DEF CommitPath
    <2>. QED  BY <1>2, <2>1, <2>2, GoodQuiet DEF history
  <1>4. CASE idToPath[local[p].file] = None
    <2>1. CommitReturn(p, FALSE) /\ fate' = [fate EXCEPT ![local[p].chan] = "lost"]
      BY <1>4 DEF CommitPath
    <2>. QED  BY <1>1, <1>2, <2>1, ReturnKeeps, GoodLoseOne
  <1>. QED  BY <1>3, <1>4

\* read_all returns what all the chunks amount to that have arrived.
LEMMA GoodRead ==
  ASSUME ControlOK, HoldersOK, ContentOK, NEW p \in Procs, CommitRead(p)
  PROVE  Good
  <1>. DEFINE c == local[p].chan
  <1>1. c \in Channels /\ fate[c] = "sealed"
    BY SealedChan DEF CommitRead
  <1>2. buf' = buf /\ UNCHANGED history /\ data' = data
    BY DEF CommitRead, buffers, store
  <1>3. /\ pc \in [Procs -> Labels] /\ local \in [Procs -> Locals]
        /\ buf \in [Channels -> Buffer] /\ arrived \in [Channels -> Seq(Chunk)]
    BY DEF ControlOK, TypeOK, ProcsType, BuffersType, HistoryType
  <1>4. \A q \in Procs : q # p => pc'[q] = pc[q] /\ local'[q] = local[q]
    BY <1>3 DEF CommitRead, Goto
  <1>5. /\ local'[p].chan = c
        /\ local'[p].image = ReadAll(buf[c].log, buf[c].total)
        /\ local'[p].seen = Len(arrived[c])
    <2>. DEFINE r1 == [local[p] EXCEPT !.image = ReadAll(buf[c].log, buf[c].total)]
                r  == [r1 EXCEPT !.seen = Len(arrived[c])]
    <2>1. local'[p] = r
      BY <1>3 DEF CommitRead
    <2>. QED  BY <1>3, <2>1 DEF Locals
  <1>6. /\ buf[c].log = arrived[c] /\ IsExtent(arrived[c], buf[c].total)
        /\ sealed[c] <= Len(arrived[c])
    BY <1>1 DEF ContentOK
  <1>7. ImageOf(arrived[c], Len(arrived[c])) = ReadAll(buf[c].log, buf[c].total)
    <2>1. buf[c].total \in Nat /\ arrived[c] \in Seq(Chunk)
      BY <1>1, <1>3 DEF Buffer
    <2>. QED  BY <1>6, <2>1, ImageOfAll
  <1>8. ImageContent(p)'
    <2>1. Len(arrived[c]) \in Nat
      BY <1>1, <1>3
    <2>. QED  BY <1>2, <1>5, <1>6, <1>7, <2>1 DEF ImageContent, history
  <1>9. \A q \in Procs : q # p => ImageContent(q)'
    BY <1>2, <1>4, ContentParts DEF ImageContent, history
  <1>10. \A d \in Channels : ChannelContent(d)'
    BY <1>2, ContentParts DEF ChannelContent, history
  <1>. QED  BY <1>2, <1>8, <1>9, <1>10, ContentParts DEF Good, Batches!vars, history

\* BatchStore uses the operators of ChannelBuffer: its instance has the same.
LEMMA SameImage ==
  ASSUME NEW chunks, NEW k
  PROVE  Batches!ImageOf(chunks, k) = ImageOf(chunks, k)
  <1>1. \A ch : Batches!End(ch) = End(ch)
    BY DEF Batches!End, End
  <1>2. \A ch, i : Batches!Covers(ch, i) <=> Covers(ch, i)
    BY <1>1 DEF Batches!Covers, Covers
  <1>3. \A log, j, i : Batches!IsLastCover(log, j, i) <=> IsLastCover(log, j, i)
    BY <1>2 DEF Batches!IsLastCover, IsLastCover
  <1>4. \A log, i : Batches!ByteAt(log, i) = ByteAt(log, i)
    BY <1>3 DEF Batches!ByteAt, ByteAt
  <1>5. \A log, n : Batches!ReadAll(log, n) = ReadAll(log, n)
    BY <1>4 DEF Batches!ReadAll, ReadAll
  <1>6. \A log, n : Batches!IsExtent(log, n) <=> IsExtent(log, n)
    BY <1>1 DEF Batches!IsExtent, IsExtent
  <1>7. \A log : Batches!Extent(log) = Extent(log)
    BY <1>1, <1>6 DEF Batches!Extent, Extent
  <1>. QED  BY <1>5, <1>7 DEF Batches!ImageOf, ImageOf

LEMMA GoodStore ==
  ASSUME ControlOK, HoldersOK, ContentOK, NEW p \in Procs, CommitStore(p)
  PROVE  Good
  <1>0. pc[p] = "store"
    BY DEF CommitStore
  <1>1. PICK c \in Channels, q \in Paths :
          c = local[p].chan /\ q = local[p].path /\ fate[c] = "sealed"
    BY <1>0, SealedChan, StoringChan
  <1>2. /\ buf' = buf /\ arrived' = arrived /\ sealed' = sealed
        /\ fate' = [fate EXCEPT ![c] = "stored"]
        /\ data' = [data EXCEPT ![q] = local[p].image]
    BY <1>1 DEF CommitStore, buffers
  <1>3. fate \in [Channels -> Fates]
    BY DEF ControlOK, TypeOK, HistoryType
  <1>4. StoringKept
    BY DEF CommitStore, Goto, StoringKept, ControlOK, TypeOK, ProcsType
  <1>5. \A d \in Channels : fate[d] = "sealed" => sealed[d] <= Len(arrived[d])
    BY DEF ContentOK
  <1>6. ContentOK'
    BY <1>1, <1>2, <1>3, <1>4, <1>5, Kept
  <1>7. \E k \in sealed[c] .. Len(arrived[c]) :
          data' = [data EXCEPT ![q] = ImageOf(arrived[c], k)]
    <2>1. /\ sealed[c] <= local[p].seen /\ local[p].seen <= Len(arrived[c])
          /\ local[p].image = ImageOf(arrived[c], local[p].seen)
      BY <1>0, <1>1 DEF ContentOK
    <2>2. local[p].seen \in Nat /\ sealed[c] \in Nat /\ Len(arrived[c]) \in Nat
      BY <1>0, <1>1, StoringChan DEF ControlOK, TypeOK, HistoryType
    <2>3. local[p].seen \in sealed[c] .. Len(arrived[c])
      BY <2>1, <2>2
    <2>. QED  BY <1>2, <2>1, <2>3
  <1>8. Batches!Publish(c, q)
    BY <1>1, <1>2, <1>7, SameImage DEF Batches!Publish
  <1>9. Batches!Next
    BY <1>8 DEF Batches!Next
  <1>. QED  BY <1>6, <1>9 DEF Good

LEMMA GoodFault ==
  ASSUME ControlOK, HoldersOK, ContentOK, NEW p \in Procs, FaultInPath(p) \/ FaultInStore(p)
  PROVE  Good
  <1>1. local[p].chan \in Channels /\ fate[local[p].chan] = "sealed"
    BY SealedChan DEF FaultInPath, FaultInStore
  <1>2. /\ buf' = buf /\ arrived' = arrived /\ sealed' = sealed /\ data' = data
        /\ CommitReturn(p, FALSE) /\ fate' = [fate EXCEPT ![local[p].chan] = "lost"]
    BY DEF FaultInPath, FaultInStore, buffers, store
  <1>. QED  BY <1>1, <1>2, ReturnKeeps, GoodLoseOne

\* A buffer is cleared when its content is stored.
LEMMA GoodClear ==
  ASSUME ControlOK, HoldersOK, ContentOK, NEW p \in Procs, CommitClear(p)
  PROVE  Good
  <1>. DEFINE c == local[p].chan
  <1>1. pc[p] = "clear" /\ pc[p] \in HoldLabels /\ FateOf(pc[p]) = "stored"
    BY DEF CommitClear, HoldLabels, CommitLabels, StoreLabels, LoadLabels, FateOf
  <1>2. c \in Channels /\ fate[c] = "stored"
    BY <1>1, HolderChan, HolderLabels DEF HoldersOK
  <1>3. UNCHANGED history /\ data' = data /\ StoringKept
    BY ReturnKeeps DEF CommitClear, store
  <1>4. buf \in [Channels -> Buffer] /\ buf' = [buf EXCEPT ![c] = Cleared(@)]
    BY DEF CommitClear, ControlOK, TypeOK, BuffersType
  <1>5. \A d \in Channels : fate[d] = "sealed" => sealed[d] <= Len(arrived[d])
    BY DEF ContentOK
  <1>6. \A d \in Channels : fate[d] # "stored" => buf'[d] = buf[d]
    BY <1>2, <1>4
  <1>7. ContentOK'
    BY <1>3, <1>5, <1>6, Kept DEF history
  <1>. QED  BY <1>3, <1>7 DEF Good, Batches!vars, history

LEMMA GoodRemove ==
  ASSUME ControlOK, ContentOK, NEW t \in Procs, RemoveMeta(t)
  PROVE  Good
  <1>1. local[t].path \in Paths
    BY DEF RemoveMeta, ControlOK, ControlOf, PathLabels, RemoveLabels
  <1>2. /\ buf' = buf /\ UNCHANGED history
        /\ data' = [data EXCEPT ![local[t].path] = None]
    BY DEF RemoveMeta, buffers
  <1>3. StoringKept
    BY DEF RemoveMeta, Goto, StoringKept, ControlOK, TypeOK, ProcsType
  <1>4. Batches!Delete(local[t].path)
    BY <1>2 DEF Batches!Delete, history
  <1>. QED  BY <1>1, <1>2, <1>3, <1>4, Untouched DEF Good, Batches!Next

LEMMA GoodRestart ==
  ASSUME ControlOK, ContentOK, Restart
  PROVE  Good
  <1>. DEFINE C == {c \in Channels : fate[c] # "stored" /\ ~(c > nchan)}
  <1>1. /\ buf' = buf /\ arrived' = arrived /\ sealed' = sealed /\ data' = data
        /\ fate' = [c \in Channels |-> IF fate[c] = "stored" \/ c > nchan THEN fate[c] ELSE "lost"]
    BY DEF Restart, store
  <1>2. fate' = [c \in Channels |-> IF c \in C THEN "lost" ELSE fate[c]]
    BY <1>1
  <1>3. StoringKept
    BY DEF Restart, StoringKept
  <1>4. C \in SUBSET Channels /\ \A c \in C : fate[c] # "stored"
    OBVIOUS
  <1>. HIDE DEF C
  <1>. QED  BY <1>1, <1>2, <1>3, <1>4, GoodLose

\* The monitor's own steps, create, and steps in which nothing happens.
LEMMA GoodOther ==
  ASSUME ControlOK, ContentOK,
         \/ MonitorScan \/ MonitorCommit
         \/ \E f \in Files, p \in Paths : Create(f, p)
         \/ UNCHANGED vars
  PROVE  Good
  <1>1. buf' = buf /\ data' = data /\ UNCHANGED history
    BY DEF MonitorScan, MonitorCommit, Create, vars, buffers, store, history
  <1>2. StoringKept
    BY DEF MonitorScan, MonitorCommit, Create, vars, Goto, StoringKept, ControlOK, TypeOK,
           ProcsType
  <1>. QED  BY <1>1, <1>2, GoodQuiet

-----------------------------------------------------------------------------
LEMMA ContentInit == Init => ContentOK /\ Batches!Init
  <1>. SUFFICES ASSUME Init PROVE ContentOK /\ Batches!Init
    OBVIOUS
  <1>1. \A c \in Channels : ChannelContent(c)
    BY DEF Init, ChannelContent, NewBuffer, IsExtent
  <1>2. \A p \in Procs : ImageContent(p)
    BY DEF Init, ImageContent
  <1>3. Batches!Init
    BY DEF Init, Batches!Init
  <1>. QED  BY <1>1, <1>2, <1>3, ContentParts

LEMMA GoodNext == ControlOK /\ HoldersOK /\ ContentOK /\ [Next]_vars => Good
  <1>. SUFFICES ASSUME ControlOK, HoldersOK, ContentOK, [Next]_vars PROVE Good
    OBVIOUS
  <1>1. Monitor \in Procs /\ Tasks \subseteq Procs
    BY DEF Procs
  <1>2. ASSUME NEW p \in Procs, Quiescent(p)
        PROVE  Good
    BY <1>2, QuiescentKeeps, QuiescentUntouched, GoodQuiet
  <1>3. ASSUME NEW p \in Procs, CommitStep(p)
        PROVE  Good
    BY <1>2, <1>3, GoodTake, GoodPath, GoodRead, GoodStore, GoodClear DEF CommitStep, Quiescent
  <1>4. ASSUME NEW t \in Tasks, TaskStep(t)
        PROVE  Good
    <2>1. CASE WriteStep(t)
      BY <1>1, <1>2, <2>1, GoodPush, GoodMark DEF WriteStep, Quiescent
    <2>2. CASE CommitStep(t)
      BY <1>1, <1>3, <2>2
    <2>3. CASE ReadStep(t)
      BY <1>1, <1>2, <2>3, GoodLoad, GoodInsert DEF ReadStep, Quiescent
    <2>4. CASE AttrStep(t)
      BY <1>1, <1>2, <2>4, GoodRemove DEF AttrStep, Quiescent
    <2>. QED  BY <1>4, <2>1, <2>2, <2>3, <2>4 DEF TaskStep
  <1>5. CASE \E t \in Tasks : Request(t)
    BY <1>1, <1>2, <1>5 DEF Quiescent
  <1>6. CASE MonitorStep
    BY <1>1, <1>3, <1>6, GoodOther DEF MonitorStep
  <1>7. CASE Failure
    BY <1>1, <1>2, <1>7, GoodFault, GoodRestart DEF Failure, Quiescent
  <1>8. CASE (\E f \in Files, p \in Paths : Create(f, p)) \/ UNCHANGED vars
    BY <1>8, GoodOther
  <1>. QED  BY <1>4, <1>5, <1>6, <1>7, <1>8 DEF Next

-----------------------------------------------------------------------------
(***************************************************************************)
(* Pack files are not stored.  A step moves one process, to a label that   *)
(* asks nothing of a path, or with a path and a file that it has checked.  *)
(***************************************************************************)
Alone(p) == \A q \in Procs : q # p => pc'[q] = pc[q] /\ local'[q] = local[q]

LooseLabels == {"idle", "scanned", "data", "range", "spinning", "panicked"}
                 \cup AttrLabels \cup RemoveLabels

LEMMA LooseRoute ==
  \A r, ids : \A l \in LooseLabels : RouteOf(l, r, ids)
  BY DEF LooseLabels, AttrLabels, RemoveLabels, RouteOf, WriteLabels, LoadLabels, StoreLabels

LEMMA ProcFacts ==
  ASSUME ControlOK, NEW p \in Procs
  PROVE  /\ pc \in [Procs -> Labels] /\ local \in [Procs -> Locals]
         /\ pc[p] \in Labels /\ local[p] \in Locals /\ ControlOf(pc[p], local[p], nchan)
         /\ idToPath \in [Files -> Paths \cup {None}] /\ data \in [Paths -> Image \cup {None}]
         /\ queue \subseteq Files
  BY DEF ControlOK, TypeOK, ProcsType, StoreType

LEMMA PacksMove ==
  ASSUME ControlOK, PacksOK, NEW p \in Procs, Alone(p),
         \A f \in Files : idToPath'[f] \in {idToPath[f], None},
         \A q \in PackPaths : data'[q] = None,
         \A f \in queue' : f \in queue \/ idToPath[f] \notin PackPaths,
         queue' \subseteq Files,
         RouteOf(pc'[p], local'[p], idToPath')
  PROVE  PacksOK'
  <1>1. None \notin PackPaths
    OBVIOUS
  <1>2. ASSUME NEW q \in Procs
        PROVE  RouteOf(pc'[q], local'[q], idToPath')
    <2>1. CASE q = p
      BY <2>1
    <2>2. CASE q # p
      <3>1. pc'[q] = pc[q] /\ local'[q] = local[q] /\ RouteOf(pc[q], local[q], idToPath)
        BY <2>2 DEF Alone, PacksOK
      <3>2. ControlOf(pc[q], local[q], nchan)
        BY ProcFacts
      <3>3. pc[q] \in FileLabels => local[q].file \in Files
        BY <3>2 DEF ControlOf
      <3>4. pc[q] \in FileLabels => idToPath'[local[q].file] \in {idToPath[local[q].file], None}
        BY <3>3
      <3>5. \A l : l \in WriteLabels \cup {"git", "pack", "acquire", "take", "path"} \cup LoadLabels
              => l \in FileLabels
        BY DEF FileLabels, ReadLabels, HeldLabels, CommitLabels
      <3>. QED  BY <1>1, <3>1, <3>4, <3>5 DEF RouteOf
    <2>. QED  BY <2>1, <2>2
  <1>3. \A f \in queue' : idToPath'[f] \notin PackPaths
    BY <1>1 DEF PacksOK
  <1>. QED  BY <1>2, <1>3 DEF PacksOK, PackNeverStored

\* A step that leaves the store as it is, and takes nothing into the queue.
LEMMA PacksStill ==
  ASSUME ControlOK, PacksOK, NEW p \in Procs, Alone(p),
         idToPath' = idToPath, data' = data, queue' \subseteq queue,
         RouteOf(pc'[p], local'[p], idToPath)
  PROVE  PacksOK'
  <1>1. queue' \subseteq Files
    BY ProcFacts
  <1>. QED  BY <1>1, PacksMove DEF PacksOK, PackNeverStored

LEMMA AloneFinish ==
  ASSUME ControlOK, NEW p \in Procs, Finish(p)
  PROVE  Alone(p) /\ pc'[p] \in LooseLabels
  BY ProcFacts DEF Finish, Alone, LooseLabels

LEMMA AloneGoto ==
  ASSUME ControlOK, NEW p \in Procs, NEW l, Goto(p, l), local' = local
  PROVE  Alone(p) /\ pc'[p] = l /\ local'[p] = local[p]
  BY ProcFacts DEF Goto, Alone

LEMMA AloneSet ==
  ASSUME ControlOK, NEW p \in Procs, NEW l, NEW r, Goto(p, l), local' = [local EXCEPT ![p] = r]
  PROVE  Alone(p) /\ pc'[p] = l /\ local'[p] = r
  BY ProcFacts DEF Goto, Alone

LEMMA AloneReturn ==
  ASSUME ControlOK, NEW p \in Procs, NEW ok \in BOOLEAN, CommitReturn(p, ok)
  PROVE  Alone(p) /\ pc'[p] \in LooseLabels
  <1>1. pc \in [Procs -> Labels] /\ local \in [Procs -> Locals]
    BY ProcFacts
  <1>2. Alone(p) /\ pc'[p] \in {"idle", "scanned", "data"}
    BY <1>1 DEF CommitReturn, Finish, Goto, Alone
  <1>. QED  BY <1>2 DEF LooseLabels

LEMMA PacksRequest ==
  ASSUME ControlOK, PacksOK, NEW t \in Tasks, Request(t)
  PROVE  PacksOK'
  <1>0. t \in Procs
    BY DEF Procs
  <1>1. PICK f \in Files, l \in {"channel", "git", "pack", "data", "attrpath", "rmmeta"} :
          /\ \E op, req : Begin(t, op, f, req, l)
          /\ l = "git" => idToPath[f] \in GitPaths
          /\ l = "pack" => idToPath[f] \in PackPaths
    BY DEF Request, StartWrite, StartRead, StartSetAttr, StartRemove, IsPack, IsGit
  <1>2. idToPath' = idToPath /\ data' = data /\ queue' = queue
    BY DEF Request, StartWrite, StartRead, StartSetAttr, StartRemove, store
  <1>7. PICK op, req : Begin(t, op, f, req, l)
    BY <1>1
  <1>. DEFINE r == [Blank EXCEPT !.op = op, !.file = f, !.path = idToPath[f], !.req = req]
  <1>3. r.file = f /\ r.path = idToPath[f]
    BY DEF Blank
  <1>4. Goto(t, l) /\ local' = [local EXCEPT ![t] = r]
    BY <1>7 DEF Begin
  <1>. HIDE DEF r
  <1>5. Alone(t) /\ pc'[t] = l /\ local'[t] = r
    BY <1>0, <1>4, AloneSet
  <1>6. RouteOf(l, r, idToPath)
    BY <1>1, <1>3 DEF RouteOf, LoadLabels, StoreLabels
  <1>. QED  BY <1>0, <1>2, <1>5, <1>6, PacksStill

\* A handler of a git file commits it, which is no pack file.
LEMMA PacksCommitIfGit ==
  ASSUME ControlOK, PacksOK, NEW t \in Procs, CommitIfGit(t), pc[t] \in WriteLabels
  PROVE  Alone(t) /\ RouteOf(pc'[t], local'[t], idToPath)
  <1>1. CASE IsGit(local[t].path)
    <2>1. Alone(t) /\ pc'[t] = "acquire" /\ local'[t] = local[t]
      BY <1>1, AloneGoto DEF CommitIfGit
    <2>2. idToPath[local[t].file] \in {local[t].path, None}
      BY DEF PacksOK, RouteOf
    <2>3. local[t].path \notin PackPaths /\ None \notin PackPaths
      BY <1>1 DEF IsGit
    <2>. QED  BY <2>1, <2>2, <2>3 DEF RouteOf, WriteLabels, LoadLabels, StoreLabels
  <1>2. CASE ~IsGit(local[t].path)
    BY <1>2, AloneFinish, LooseRoute DEF CommitIfGit
  <1>. QED  BY <1>1, <1>2

LEMMA PacksWrite ==
  ASSUME ControlOK, PacksOK, NEW t \in Procs, WriteStep(t)
  PROVE  PacksOK'
  <1>0. /\ local[t] \in Locals /\ RouteOf(pc[t], local[t], idToPath)
        /\ idToPath' = idToPath /\ data' = data /\ queue' = queue
    BY ProcFacts
       DEF PacksOK, WriteStep, GetChannel, Push, ReadTotal, PutSize, CheckPath, CheckLast, Mark,
           store
  <1>1. CASE GetChannel(t)
    <2>1. PICK c : /\ pc[t] = "channel" /\ Goto(t, "push")
                   /\ local' = [local EXCEPT ![t] = [local[t] EXCEPT !.chan = c]]
      BY <1>1 DEF GetChannel
    <2>. DEFINE r == [local[t] EXCEPT !.chan = c]
    <2>2. r.file = local[t].file /\ r.path = local[t].path
      BY <1>0 DEF Locals
    <2>3. Alone(t) /\ pc'[t] = "push" /\ local'[t] = r
      BY <2>1, AloneSet
    <2>. HIDE DEF r
    <2>4. RouteOf("push", r, idToPath)
      BY <1>0, <2>1, <2>2 DEF RouteOf, WriteLabels, LoadLabels, StoreLabels
    <2>. QED  BY <1>0, <2>3, <2>4, PacksStill
  <1>2. CASE ReadTotal(t)
    <2>1. PICK n : /\ pc[t] = "total" /\ Goto(t, "putsize")
                   /\ local' = [local EXCEPT ![t] = [local[t] EXCEPT !.size = n]]
      BY <1>2 DEF ReadTotal
    <2>. DEFINE r == [local[t] EXCEPT !.size = n]
    <2>2. r.file = local[t].file /\ r.path = local[t].path
      BY <1>0 DEF Locals
    <2>3. Alone(t) /\ pc'[t] = "putsize" /\ local'[t] = r
      BY <2>1, AloneSet
    <2>. HIDE DEF r
    <2>4. RouteOf("putsize", r, idToPath)
      BY <1>0, <2>1, <2>2 DEF RouteOf, WriteLabels, LoadLabels, StoreLabels
    <2>. QED  BY <1>0, <2>3, <2>4, PacksStill
  <1>3. CASE Push(t) \/ PutSize(t)
    <2>1. PICK l \in {"total", "checkpath"} :
            pc[t] \in WriteLabels /\ Goto(t, l) /\ local' = local
      BY <1>3 DEF Push, PutSize, WriteLabels
    <2>2. Alone(t) /\ pc'[t] = l /\ local'[t] = local[t]
      BY <2>1, AloneGoto
    <2>3. RouteOf(l, local[t], idToPath)
      BY <1>0, <2>1 DEF RouteOf, WriteLabels, LoadLabels, StoreLabels
    <2>. QED  BY <1>0, <2>2, <2>3, PacksStill
  <1>4. CASE CheckLast(t) \/ Mark(t)
    <2>1. pc[t] \in WriteLabels
      BY <1>4 DEF CheckLast, Mark, WriteLabels
    <2>2. CASE CommitIfGit(t)
      BY <1>0, <2>1, <2>2, PacksCommitIfGit, PacksStill
    <2>3. CASE Finish(t)
      BY <1>0, <2>3, AloneFinish, LooseRoute, PacksStill
    <2>4. CASE Goto(t, "mark") /\ local' = local
      <3>1. Alone(t) /\ pc'[t] = "mark" /\ local'[t] = local[t]
        BY <2>4, AloneGoto
      <3>2. RouteOf("mark", local[t], idToPath)
        BY <1>0, <2>1 DEF RouteOf, WriteLabels, LoadLabels, StoreLabels
      <3>. QED  BY <1>0, <3>1, <3>2, PacksStill
    <2>. QED  BY <1>4, <2>2, <2>3, <2>4 DEF CheckLast, Mark
  <1>5. CASE CheckPath(t)
    <2>1. CASE Finish(t)
      BY <1>0, <2>1, AloneFinish, LooseRoute, PacksStill
    <2>2. CASE Goto(t, "checklast") /\ local' = local
      <3>1. Alone(t) /\ pc'[t] = "checklast" /\ local'[t] = local[t]
        BY <2>2, AloneGoto
      <3>2. RouteOf("checklast", local[t], idToPath)
        BY <1>0, <1>5 DEF CheckPath, RouteOf, WriteLabels, LoadLabels, StoreLabels
      <3>. QED  BY <1>0, <3>1, <3>2, PacksStill
    <2>. QED  BY <1>5, <2>1, <2>2 DEF CheckPath
  <1>. QED  BY <1>1, <1>2, <1>3, <1>4, <1>5 DEF WriteStep

LEMMA PacksCommit ==
  ASSUME ControlOK, PacksOK, NEW p \in Procs, CommitStep(p)
  PROVE  PacksOK'
  <1>0. /\ local[p] \in Locals /\ RouteOf(pc[p], local[p], idToPath)
        /\ ControlOf(pc[p], local[p], nchan)
        /\ idToPath' = idToPath /\ queue' = queue
    BY ProcFacts
       DEF PacksOK, CommitStep, Acquire, Take, CommitPath, CommitRead, CommitStore, CommitTouch,
           CommitTimes, CommitClear, store
  <1>1. ASSUME data' = data, NEW ok \in BOOLEAN, CommitReturn(p, ok)
        PROVE  PacksOK'
    BY <1>0, <1>1, AloneReturn, LooseRoute, PacksStill
  <1>2. CASE Acquire(p)
    <2>1. pc[p] = "acquire" /\ Goto(p, "take") /\ local' = local /\ data' = data
      BY <1>2 DEF Acquire, store
    <2>2. Alone(p) /\ pc'[p] = "take" /\ local'[p] = local[p]
      BY <2>1, AloneGoto
    <2>3. RouteOf("take", local[p], idToPath)
      BY <1>0, <2>1 DEF RouteOf, WriteLabels, LoadLabels, StoreLabels
    <2>. QED  BY <1>0, <2>1, <2>2, <2>3, PacksStill
  <1>3. CASE Take(p)
    <2>1. pc[p] = "take" /\ data' = data
      BY <1>3 DEF Take, store
    <2>2. CASE Entry(p) # None
      <3>. DEFINE r == [local[p] EXCEPT !.chan = Entry(p)]
      <3>1. Goto(p, "path") /\ local' = [local EXCEPT ![p] = r]
        BY <1>3, <2>2 DEF Take
      <3>2. r.file = local[p].file
        BY <1>0 DEF Locals
      <3>. HIDE DEF r
      <3>3. Alone(p) /\ pc'[p] = "path" /\ local'[p] = r
        BY <3>1, AloneSet
      <3>4. RouteOf("path", r, idToPath)
        BY <1>0, <2>1, <3>2 DEF RouteOf, WriteLabels, LoadLabels, StoreLabels
      <3>. QED  BY <1>0, <2>1, <3>3, <3>4, PacksStill
    <2>3. CASE Entry(p) = None
      BY <1>1, <1>3, <2>1, <2>3 DEF Take
    <2>. QED  BY <2>2, <2>3
  <1>4. CASE CommitPath(p)
    <2>1. pc[p] = "path" /\ data' = data
      BY <1>4 DEF CommitPath, store
    <2>2. CASE idToPath[local[p].file] # None
      <3>. DEFINE r == [local[p] EXCEPT !.path = idToPath[local[p].file]]
      <3>1. Goto(p, "readall") /\ local' = [local EXCEPT ![p] = r]
        BY <1>4, <2>2 DEF CommitPath
      <3>2. r.path = idToPath[local[p].file]
        BY <1>0 DEF Locals
      <3>3. idToPath[local[p].file] \notin PackPaths
        BY <1>0, <2>1 DEF RouteOf
      <3>. HIDE DEF r
      <3>4. Alone(p) /\ pc'[p] = "readall" /\ local'[p] = r
        BY <3>1, AloneSet
      <3>5. RouteOf("readall", r, idToPath)
        BY <3>2, <3>3 DEF RouteOf, WriteLabels, LoadLabels, StoreLabels
      <3>. QED  BY <1>0, <2>1, <3>4, <3>5, PacksStill
    <2>3. CASE idToPath[local[p].file] = None
      BY <1>1, <1>4, <2>1, <2>3 DEF CommitPath
    <2>. QED  BY <2>2, <2>3
  <1>5. CASE CommitRead(p) \/ CommitTouch(p)
    <2>1. \E r : \E l \in {"store", "puttimes"} :
            /\ pc[p] \in StoreLabels /\ Goto(p, l) /\ local' = [local EXCEPT ![p] = r]
            /\ r.path = local[p].path
      <3>1. CASE CommitRead(p)
        <4>. DEFINE r == [local[p] EXCEPT
                            !.image = ReadAll(buf[local[p].chan].log, buf[local[p].chan].total),
                            !.seen  = Len(arrived[local[p].chan])]
        <4>1. pc[p] \in StoreLabels /\ Goto(p, "store") /\ local' = [local EXCEPT ![p] = r]
          BY <3>1 DEF CommitRead, StoreLabels
        <4>2. r.path = local[p].path
          BY <1>0 DEF Locals
        <4>. QED  BY <4>1, <4>2
      <3>2. CASE CommitTouch(p)
        <4>. DEFINE r == [local[p] EXCEPT !.size = meta[local[p].path]]
        <4>1. pc[p] \in StoreLabels /\ Goto(p, "puttimes") /\ local' = [local EXCEPT ![p] = r]
          BY <3>2 DEF CommitTouch, StoreLabels
        <4>2. r.path = local[p].path
          BY <1>0 DEF Locals
        <4>. QED  BY <4>1, <4>2
      <3>. QED  BY <1>5, <3>1, <3>2
    <2>2. PICK r : \E l \in {"store", "puttimes"} :
            /\ pc[p] \in StoreLabels /\ Goto(p, l) /\ local' = [local EXCEPT ![p] = r]
            /\ r.path = local[p].path
      BY <2>1
    <2>3. PICK l \in {"store", "puttimes"} :
            /\ pc[p] \in StoreLabels /\ Goto(p, l) /\ local' = [local EXCEPT ![p] = r]
            /\ r.path = local[p].path
      BY <2>2
    <2>4. Alone(p) /\ pc'[p] = l /\ local'[p] = r
      BY <2>3, AloneSet
    <2>5. RouteOf(l, r, idToPath)
      BY <1>0, <2>3 DEF RouteOf, WriteLabels, LoadLabels, StoreLabels
    <2>6. data' = data
      BY <1>5 DEF CommitRead, CommitTouch, store
    <2>. QED  BY <1>0, <2>4, <2>5, <2>6, PacksStill
  <1>6. CASE CommitTimes(p)
    <2>1. pc[p] = "puttimes" /\ Goto(p, "clear") /\ local' = local /\ data' = data
      BY <1>6 DEF CommitTimes
    <2>2. Alone(p) /\ pc'[p] = "clear" /\ local'[p] = local[p]
      BY <2>1, AloneGoto
    <2>3. RouteOf("clear", local[p], idToPath)
      BY <1>0, <2>1 DEF RouteOf, WriteLabels, LoadLabels, StoreLabels
    <2>. QED  BY <1>0, <2>1, <2>2, <2>3, PacksStill
  <1>7. CASE CommitStore(p)
    <2>1. /\ pc[p] = "store" /\ Goto(p, "touch") /\ local' = local
          /\ data' = [data EXCEPT ![local[p].path] = local[p].image]
      BY <1>7 DEF CommitStore
    <2>2. Alone(p) /\ pc'[p] = "touch" /\ local'[p] = local[p]
      BY <2>1, AloneGoto
    <2>3. RouteOf("touch", local[p], idToPath) /\ local[p].path \notin PackPaths
      BY <1>0, <2>1 DEF RouteOf, WriteLabels, LoadLabels, StoreLabels
    <2>4. \A q \in PackPaths : data'[q] = None
      BY <2>1, <2>3, ProcFacts DEF PacksOK, PackNeverStored
    <2>5. queue \subseteq Files
      BY ProcFacts
    <2>. QED  BY <1>0, <2>2, <2>3, <2>4, <2>5, PacksMove
  <1>8. CASE CommitClear(p)
    BY <1>1, <1>8 DEF CommitClear, store
  <1>. QED  BY <1>2, <1>3, <1>4, <1>5, <1>6, <1>7, <1>8 DEF CommitStep

LEMMA PacksRead ==
  ASSUME ControlOK, PacksOK, NEW t \in Procs, ReadStep(t)
  PROVE  PacksOK'
  <1>0. /\ local[t] \in Locals /\ RouteOf(pc[t], local[t], idToPath)
        /\ idToPath' = idToPath /\ data' = data /\ queue' = queue
    BY ProcFacts
       DEF PacksOK, ReadStep, GitRead, ReadData, PackRead, LoadExisting, InsertLoaded, RangeRead,
           store
  <1>1. ASSUME Finish(t)
        PROVE  PacksOK'
    BY <1>0, <1>1, AloneFinish, LooseRoute, PacksStill
  <1>2. ASSUME NEW l \in LooseLabels, Goto(t, l), local' = local
        PROVE  PacksOK'
    BY <1>0, <1>2, AloneGoto, LooseRoute, PacksStill
  <1>3. CASE GitRead(t)
    <2>1. pc[t] = "git" /\ local' = local
      BY <1>3 DEF GitRead
    <2>2. CASE Goto(t, "acquire")
      <3>1. Alone(t) /\ pc'[t] = "acquire" /\ local'[t] = local[t]
        BY <2>1, <2>2, AloneGoto
      <3>2. idToPath[local[t].file] \in {local[t].path, None} /\ local[t].path \in GitPaths
        BY <1>0, <2>1 DEF RouteOf
      <3>3. RouteOf("acquire", local[t], idToPath)
        BY <3>2 DEF RouteOf, WriteLabels, LoadLabels, StoreLabels
      <3>. QED  BY <1>0, <3>1, <3>3, PacksStill
    <2>3. CASE Goto(t, "data")
      BY <1>2, <2>1, <2>3 DEF LooseLabels
    <2>. QED  BY <1>3, <2>2, <2>3 DEF GitRead
  <1>4. CASE PackRead(t)
    <2>1. PICK l \in {"load", "range"} : \E c :
            /\ pc[t] = "pack" /\ Goto(t, l)
            /\ local' = [local EXCEPT ![t] = [local[t] EXCEPT !.chan = c]]
      BY <1>4 DEF PackRead
    <2>5. PICK c : /\ pc[t] = "pack" /\ Goto(t, l)
                   /\ local' = [local EXCEPT ![t] = [local[t] EXCEPT !.chan = c]]
      BY <2>1
    <2>. DEFINE r == [local[t] EXCEPT !.chan = c]
    <2>2. r.file = local[t].file /\ r.path = local[t].path
      BY <1>0 DEF Locals
    <2>3. Alone(t) /\ pc'[t] = l /\ local'[t] = r
      BY <2>5, AloneSet
    <2>. HIDE DEF r
    <2>4. RouteOf(l, r, idToPath)
      BY <1>0, <2>5, <2>2 DEF RouteOf, WriteLabels, LoadLabels, StoreLabels
    <2>. QED  BY <1>0, <2>3, <2>4, PacksStill
  <1>5. CASE LoadExisting(t)
    <2>1. CASE Goto(t, "insert") /\ local' = local
      <3>1. Alone(t) /\ pc'[t] = "insert" /\ local'[t] = local[t]
        BY <2>1, AloneGoto
      <3>2. RouteOf("insert", local[t], idToPath)
        BY <1>0, <1>5 DEF LoadExisting, RouteOf, WriteLabels, LoadLabels, StoreLabels
      <3>. QED  BY <1>0, <3>1, <3>2, PacksStill
    <2>. QED  BY <1>1, <1>5, <2>1 DEF LoadExisting
  <1>6. CASE InsertLoaded(t)
    BY <1>2, <1>6 DEF InsertLoaded, LooseLabels
  <1>7. CASE ReadData(t) \/ RangeRead(t)
    BY <1>1, <1>2, <1>7 DEF ReadData, RangeRead, PackOutcome, LooseLabels
  <1>. QED  BY <1>3, <1>4, <1>5, <1>6, <1>7 DEF ReadStep

LEMMA PacksAttr ==
  ASSUME ControlOK, PacksOK, NEW t \in Procs, AttrStep(t)
  PROVE  PacksOK'
  <1>0. queue' = queue /\ queue \subseteq Files
    BY ProcFacts DEF AttrStep, AttrPath, AttrGet, AttrPut, RemoveMeta, RemoveId
  <1>1. Alone(t) /\ pc'[t] \in LooseLabels
    <2>1. CASE AttrPath(t) \/ AttrGet(t) \/ AttrPut(t)
      <3>1. Finish(t) \/ \E l \in {"attrget", "attrput"} : \E r :
                           Goto(t, l) /\ local' = [local EXCEPT ![t] = r]
        BY <2>1, AttrMoves
      <3>2. ASSUME NEW l \in {"attrget", "attrput"}, NEW r,
                   Goto(t, l), local' = [local EXCEPT ![t] = r]
            PROVE  Alone(t) /\ pc'[t] \in LooseLabels
        BY <3>2, AloneSet DEF LooseLabels, AttrLabels
      <3>. QED  BY <3>1, <3>2, AloneFinish
    <2>2. CASE RemoveMeta(t)
      <3>1. Goto(t, "rmid") /\ local' = local
        BY <2>2 DEF RemoveMeta
      <3>. QED  BY <3>1, AloneGoto DEF LooseLabels, AttrLabels, RemoveLabels
    <2>3. CASE RemoveId(t)
      BY <2>3, AloneFinish DEF RemoveId
    <2>. QED  BY <2>1, <2>2, <2>3 DEF AttrStep
  <1>2. \A f \in Files : idToPath'[f] \in {idToPath[f], None}
    BY ProcFacts DEF AttrStep, AttrPath, AttrGet, AttrPut, RemoveMeta, RemoveId, store
  <1>3. \A q \in PackPaths : data'[q] = None
    BY ProcFacts
       DEF AttrStep, AttrPath, AttrGet, AttrPut, RemoveMeta, RemoveId, store, PacksOK,
           PackNeverStored
  <1>. QED  BY <1>0, <1>1, <1>2, <1>3, LooseRoute, PacksMove

LEMMA PacksMonitor ==
  ASSUME ControlOK, PacksOK, MonitorScan \/ MonitorCommit
  PROVE  PacksOK'
  <1>0. /\ Monitor \in Procs /\ idToPath' = idToPath /\ data' = data /\ queue \subseteq Files
        /\ \A f \in Files : idToPath'[f] \in {idToPath[f], None}
        /\ \A q \in PackPaths : data'[q] = None
    BY ProcFacts DEF Procs, MonitorScan, MonitorCommit, store, PacksOK, PackNeverStored
  <1>1. CASE MonitorScan
    <2>1. Alone(Monitor) /\ pc'[Monitor] \in LooseLabels
      BY <1>0, <1>1, AloneGoto DEF MonitorScan, LooseLabels
    <2>2. queue' \subseteq Files /\ \A f \in queue' : idToPath[f] \notin PackPaths
      BY <1>1 DEF MonitorScan, Committable, IsPack
    <2>. QED  BY <1>0, <2>1, <2>2, LooseRoute, PacksMove
  <1>2. CASE MonitorCommit
    <2>1. PICK f \in queue : /\ queue' = queue \ {f}
                             /\ local' = [local EXCEPT ![Monitor] =
                                            [Blank EXCEPT !.op = "commit", !.file = f]]
      BY <1>2 DEF MonitorCommit
    <2>. DEFINE r == [Blank EXCEPT !.op = "commit", !.file = f]
    <2>2. r.file = f
      BY DEF Blank
    <2>3. Goto(Monitor, "acquire") /\ local' = [local EXCEPT ![Monitor] = r]
      BY <1>2, <2>1 DEF MonitorCommit
    <2>. HIDE DEF r
    <2>4. Alone(Monitor) /\ pc'[Monitor] = "acquire" /\ local'[Monitor] = r
      BY <1>0, <2>3, AloneSet
    <2>5. RouteOf("acquire", r, idToPath)
      BY <2>1, <2>2 DEF PacksOK, RouteOf, WriteLabels, LoadLabels, StoreLabels
    <2>6. queue' \subseteq queue
      BY <2>1
    <2>. QED  BY <1>0, <2>4, <2>5, <2>6, PacksStill
  <1>. QED  BY <1>1, <1>2

\* A new file is none that a process or the queue has.
LEMMA PacksCreate ==
  ASSUME ControlOK, PacksOK, NEW f \in Files, NEW p \in Paths, Create(f, p)
  PROVE  PacksOK'
  <1>1. /\ idToPath' = [idToPath EXCEPT ![f] = p]
        /\ UNCHANGED <<data, pc, local, queue>>
        /\ f \notin queue /\ \A q \in Procs : local[q].file # f
    BY DEF Create
  <1>2. ASSUME NEW q \in Procs
        PROVE  RouteOf(pc'[q], local'[q], idToPath')
    <2>1. idToPath'[local[q].file] = idToPath[local[q].file]
      BY <1>1, ProcFacts
    <2>2. RouteOf(pc[q], local[q], idToPath)
      BY DEF PacksOK
    <2>. QED  BY <1>1, <2>1, <2>2 DEF RouteOf
  <1>3. \A g \in queue : idToPath'[g] = idToPath[g]
    <2>1. idToPath \in [Files -> Paths \cup {None}] /\ queue \subseteq Files
      BY DEF ControlOK, TypeOK, StoreType
    <2>. QED  BY <1>1, <2>1
  <1>. QED  BY <1>1, <1>2, <1>3 DEF PacksOK, PackNeverStored

LEMMA PacksFailure ==
  ASSUME ControlOK, PacksOK, Failure
  PROVE  PacksOK'
  <1>1. CASE \E t \in Tasks : FaultInWrite(t)
    <2>1. PICK t \in Tasks : FaultInWrite(t)
      BY <1>1
    <2>2. t \in Procs /\ Finish(t) /\ idToPath' = idToPath /\ data' = data /\ queue' = queue
      BY <2>1 DEF FaultInWrite, store, Procs
    <2>. QED  BY <2>2, AloneFinish, LooseRoute, PacksStill
  <1>4. CASE \E t \in Tasks : FaultInAttrPath(t) \/ FaultInAttr(t)
    <2>1. PICK t \in Tasks : FaultInAttrPath(t) \/ FaultInAttr(t)
      BY <1>4
    <2>2. t \in Procs /\ idToPath' = idToPath /\ data' = data /\ queue' = queue
      BY <2>1 DEF FaultInAttrPath, FaultInAttr, store, Procs
    <2>3. Finish(t) \/ \E l \in {"attrget", "attrput"} : \E r :
                         Goto(t, l) /\ local' = [local EXCEPT ![t] = r]
      BY <2>1, <2>2, AttrMoves
    <2>4. ASSUME NEW l \in {"attrget", "attrput"}, NEW r,
                 Goto(t, l), local' = [local EXCEPT ![t] = r]
          PROVE  Alone(t) /\ pc'[t] \in LooseLabels
      BY <2>2, <2>4, AloneSet DEF LooseLabels, AttrLabels
    <2>5. Alone(t) /\ pc'[t] \in LooseLabels
      BY <2>2, <2>3, <2>4, AloneFinish
    <2>. QED  BY <2>2, <2>5, LooseRoute, PacksStill
  <1>2. CASE \E p \in Procs : FaultInPath(p) \/ FaultInStore(p) \/ FaultInTimes(p)
    <2>1. PICK p \in Procs : FaultInPath(p) \/ FaultInStore(p) \/ FaultInTimes(p)
      BY <1>2
    <2>2. CommitReturn(p, FALSE) /\ idToPath' = idToPath /\ data' = data /\ queue' = queue
      BY <2>1 DEF FaultInPath, FaultInStore, FaultInTimes, store
    <2>. QED  BY <2>2, AloneReturn, LooseRoute, PacksStill
  <1>3. CASE Restart
    <2>1. /\ \A p \in Procs : pc'[p] = "idle"
          /\ queue' = {} /\ data' = data
      BY <1>3 DEF Restart, store
    <2>2. \A p \in Procs : RouteOf(pc'[p], local'[p], idToPath')
      BY <2>1, LooseRoute DEF LooseLabels
    <2>. QED  BY <2>1, <2>2 DEF PacksOK, PackNeverStored
  <1>. QED  BY <1>1, <1>2, <1>3, <1>4 DEF Failure

LEMMA PacksInit == Init => PacksOK
  <1>. SUFFICES ASSUME Init PROVE PacksOK
    OBVIOUS
  <1>1. \A p \in Procs : pc[p] = "idle"
    BY DEF Init
  <1>2. \A p \in Procs : RouteOf(pc[p], local[p], idToPath)
    BY <1>1, LooseRoute DEF LooseLabels
  <1>. QED  BY <1>2 DEF Init, PacksOK, PackNeverStored

LEMMA PacksNext == ControlOK /\ PacksOK /\ [Next]_vars => PacksOK'
  <1>. SUFFICES ASSUME ControlOK, PacksOK, [Next]_vars PROVE PacksOK'
    OBVIOUS
  <1>1. Monitor \in Procs /\ Tasks \subseteq Procs
    BY DEF Procs
  <1>2. CASE UNCHANGED vars
    BY <1>2 DEF vars, store, PacksOK, PackNeverStored
  <1>. QED  BY <1>1, <1>2, PacksRequest, PacksWrite, PacksCommit, PacksRead, PacksAttr,
               PacksMonitor, PacksCreate, PacksFailure
            DEF Next, TaskStep, MonitorStep

-----------------------------------------------------------------------------
(***************************************************************************)
(* What the monitor has found complete.  Nothing makes a channel           *)
(* incomplete again, and a file leaves active_writes only by a commit; its *)
(* channel is replaced only by a reader of a pack file.                    *)
(***************************************************************************)
CompleteStays ==
  \A c \in Channels : buf[c].complete => buf'[c].complete

LEMMA CompleteKept == ControlOK /\ Next => CompleteStays
  <1>. SUFFICES ASSUME ControlOK, Next PROVE CompleteStays
    OBVIOUS
  <1>0. buf \in [Channels -> Buffer]
    BY DEF ControlOK, TypeOK, BuffersType
  <1>1. \/ buf' = buf
        \/ \E c, ch : buf' = [buf EXCEPT ![c] = Pushed(@, ch)]
        \/ \E c : buf' = [buf EXCEPT ![c] = Completed(@)]
        \/ \E c : buf' = [buf EXCEPT ![c] = Cleared(@)]
    <2>1. CASE \E t \in Tasks : Request(t)
      BY <2>1 DEF Request, StartWrite, StartRead, StartSetAttr, StartRemove, buffers
    <2>2. CASE \E t \in Tasks : WriteStep(t)
      BY <2>2 DEF WriteStep, GetChannel, Push, ReadTotal, PutSize, CheckPath, CheckLast, Mark,
                  Write, buffers
    <2>3. CASE \E p \in Procs : CommitStep(p)
      BY <2>3 DEF CommitStep, Acquire, Take, CommitPath, CommitRead, CommitStore, CommitTouch,
                  CommitTimes, CommitClear, buffers
    <2>4. CASE \E t \in Tasks : ReadStep(t)
      BY <2>4 DEF ReadStep, GitRead, ReadData, PackRead, LoadExisting, InsertLoaded, RangeRead,
                  Write, buffers
    <2>5. CASE \E t \in Tasks : AttrStep(t)
      BY <2>5 DEF AttrStep, AttrPath, AttrGet, AttrPut, RemoveMeta, RemoveId, buffers
    <2>6. CASE MonitorScan \/ MonitorCommit \/ Failure \/ \E f \in Files, p \in Paths : Create(f, p)
      BY <2>6 DEF MonitorScan, MonitorCommit, Failure, FaultInWrite, FaultInAttrPath,
                  FaultInAttr, FaultInPath, FaultInStore, FaultInTimes,
                  Restart, Create, buffers
    <2>. QED  BY <2>1, <2>2, <2>3, <2>4, <2>5, <2>6 DEF Next, TaskStep, MonitorStep, Procs
  <1>2. \A b \in Buffer : \A ch : /\ Pushed(b, ch).complete = b.complete
                              /\ Completed(b).complete
                              /\ Cleared(b).complete = b.complete
    BY DEF Buffer, Pushed, Completed, Cleared
  <1>3. ASSUME NEW d \in Channels, buf[d].complete
        PROVE  buf'[d].complete
    <2>1. \/ buf'[d] = buf[d]
          \/ \E ch : buf'[d] = Pushed(buf[d], ch)
          \/ buf'[d] = Completed(buf[d])
          \/ buf'[d] = Cleared(buf[d])
      BY <1>0, <1>1
    <2>2. buf[d] \in Buffer
      BY <1>0
    <2>. QED  BY <1>2, <1>3, <2>1, <2>2
  <1>. QED  BY <1>3 DEF CompleteStays

\* A step of a task that takes none of the channels the monitor is to commit.
LEMMA MarkedMove ==
  ASSUME ControlOK, MarkedOK, CompleteStays, NEW t \in Tasks, Alone(t), queue' = queue,
         \A f \in Scanned : activeWrites'[f] = activeWrites[f],
         pc'[t] \notin {"git", "acquire"} \cup HeldLabels,
         pc'[t] \in {"pack"} \cup LoadLabels => local'[t].file \notin Scanned
  PROVE  MarkedOK'
  <1>0. Monitor \in Procs /\ t # Monitor /\ Tasks \subseteq Procs
    BY DEF Procs
  <1>1. pc'[Monitor] = pc[Monitor] /\ local'[Monitor] = local[Monitor]
    BY <1>0 DEF Alone
  <1>2. (MonitorHas' <=> MonitorHas) /\ Scanned' = Scanned
    BY <1>1 DEF MonitorHas, Scanned
  <1>3. activeWrites \in [Files -> (1 .. nchan) \cup {None}] /\ 1 .. nchan \subseteq Channels
    BY DEF ControlOK, TypeOK, BuffersType, Channels
  <1>4. ASSUME NEW f \in Scanned
        PROVE  activeWrites'[f] # None /\ buf'[activeWrites'[f]].complete
    <2>1. f \in Files /\ activeWrites[f] # None /\ buf[activeWrites[f]].complete
      BY DEF MarkedOK, Scanned
    <2>2. activeWrites[f] \in Channels
      BY <1>3, <2>1
    <2>. QED  BY <2>1, <2>2 DEF CompleteStays
  <1>5. \A u \in Tasks : /\ pc'[u] \notin {"git", "acquire"} \cup HeldLabels
                         /\ pc'[u] \in {"pack"} \cup LoadLabels => local'[u].file \notin Scanned
    BY <1>0 DEF Alone, MarkedOK
  <1>6. MonitorHas => local[Monitor].file \notin queue
    BY DEF MarkedOK
  <1>. QED  BY <1>1, <1>2, <1>4, <1>5, <1>6 DEF MarkedOK

\* A step of the monitor, which holds nothing more afterwards than its queue.
LEMMA MarkedDone ==
  ASSUME ControlOK, MarkedOK, CompleteStays, Alone(Monitor), queue' = queue,
         \A f \in queue : activeWrites'[f] = activeWrites[f],
         pc'[Monitor] \notin {"acquire", "take"}
  PROVE  MarkedOK'
  <1>0. Monitor \notin Tasks /\ Tasks \subseteq Procs
    BY DEF Procs
  <1>1. \A u \in Tasks : pc'[u] = pc[u] /\ local'[u] = local[u]
    BY <1>0 DEF Alone
  <1>2. ~MonitorHas' /\ Scanned' = {f \in Files : f \in queue}
    BY DEF MonitorHas, Scanned
  <1>3. activeWrites \in [Files -> (1 .. nchan) \cup {None}] /\ 1 .. nchan \subseteq Channels
    BY DEF ControlOK, TypeOK, BuffersType, Channels
  <1>4. ASSUME NEW f \in Files, f \in queue
        PROVE  /\ activeWrites'[f] # None /\ buf'[activeWrites'[f]].complete
               /\ \A u \in Tasks : pc'[u] \in {"pack"} \cup LoadLabels => local'[u].file # f
    <2>1. f \in Scanned
      BY <1>4 DEF Scanned
    <2>2. activeWrites[f] # None /\ buf[activeWrites[f]].complete
      BY <2>1 DEF MarkedOK
    <2>3. activeWrites[f] \in Channels
      BY <1>3, <2>2
    <2>4. activeWrites'[f] # None /\ buf'[activeWrites'[f]].complete
      BY <1>4, <2>2, <2>3 DEF CompleteStays
    <2>. QED  BY <1>1, <2>1, <2>4 DEF MarkedOK
  <1>5. \A u \in Tasks : pc'[u] \notin {"git", "acquire"} \cup HeldLabels
    BY <1>1 DEF MarkedOK
  <1>. QED  BY <1>2, <1>4, <1>5 DEF MarkedOK

LEMMA MarkedRequest ==
  ASSUME GitPaths = {}, ControlOK, PacksOK, MarkedOK, CompleteStays, NEW t \in Tasks, Request(t)
  PROVE  MarkedOK'
  <1>0. t \in Procs /\ Monitor \in Procs
    BY DEF Procs
  <1>1. PICK f \in Files, l \in {"channel", "pack", "data", "attrpath", "rmmeta"} :
          /\ \E op, req : Begin(t, op, f, req, l)
          /\ l = "pack" => idToPath[f] \in PackPaths
    BY DEF Request, StartWrite, StartRead, StartSetAttr, StartRemove, IsPack, IsGit
  <1>2. activeWrites' = activeWrites /\ queue' = queue
    BY DEF Request, StartWrite, StartRead, StartSetAttr, StartRemove, buffers
  <1>3. PICK op, req : Begin(t, op, f, req, l)
    BY <1>1
  <1>. DEFINE r == [Blank EXCEPT !.op = op, !.file = f, !.path = idToPath[f], !.req = req]
  <1>4. r.file = f
    BY DEF Blank
  <1>5. Goto(t, l) /\ local' = [local EXCEPT ![t] = r]
    BY <1>3 DEF Begin
  <1>. HIDE DEF r
  <1>6. Alone(t) /\ pc'[t] = l /\ local'[t] = r
    BY <1>0, <1>5, AloneSet
  <1>7. l \notin {"git", "acquire"} \cup HeldLabels /\ l \notin LoadLabels
    BY DEF HeldLabels, CommitLabels, StoreLabels, LoadLabels
  <1>8. idToPath[f] \in PackPaths => f \notin Scanned
    BY <1>0 DEF PacksOK, RouteOf, Scanned, MonitorHas
  <1>. QED  BY <1>1, <1>2, <1>4, <1>6, <1>7, <1>8, MarkedMove

LEMMA MarkedWrite ==
  ASSUME GitPaths = {}, ControlOK, MarkedOK, CompleteStays, NEW t \in Tasks, WriteStep(t)
  PROVE  MarkedOK'
  <1>0. t \in Procs /\ queue' = queue
    BY DEF Procs, WriteStep, GetChannel, Push, ReadTotal, PutSize, CheckPath, CheckLast, Mark
  <1>1. \A f \in Scanned : activeWrites'[f] = activeWrites[f]
    <2>1. CASE GetChannel(t)
      <3>1. \A f \in Scanned : f \in Files /\ activeWrites[f] # None
        BY DEF MarkedOK, Scanned
      <3>2. activeWrites \in [Files -> (1 .. nchan) \cup {None}]
        BY DEF ControlOK, TypeOK, BuffersType
      <3>3. \/ activeWrites' = activeWrites
            \/ /\ activeWrites[local[t].file] = None
               /\ activeWrites' = [activeWrites EXCEPT ![local[t].file] = nchan + 1]
        BY <2>1 DEF GetChannel, Entry
      <3>. QED  BY <3>1, <3>2, <3>3
    <2>. QED  BY <2>1 DEF WriteStep, Push, ReadTotal, PutSize, CheckPath, CheckLast, Mark, buffers
  <1>. DEFINE Fine == WriteLabels \cup LooseLabels
  <1>2. Alone(t) /\ pc'[t] \in Fine
    <2>1. CASE GetChannel(t) \/ ReadTotal(t)
      <3>1. \E r : \E l \in WriteLabels : Goto(t, l) /\ local' = [local EXCEPT ![t] = r]
        BY <2>1 DEF GetChannel, ReadTotal, WriteLabels
      <3>2. PICK r : \E l \in WriteLabels : Goto(t, l) /\ local' = [local EXCEPT ![t] = r]
        BY <3>1
      <3>. QED  BY <1>0, <3>2, AloneSet
    <2>2. ASSUME NEW l \in WriteLabels, Goto(t, l), local' = local
          PROVE  Alone(t) /\ pc'[t] \in Fine
      BY <1>0, <2>2, AloneGoto
    <2>3. ASSUME Finish(t)
          PROVE  Alone(t) /\ pc'[t] \in Fine
      BY <1>0, <2>3, AloneFinish
    <2>4. CASE Push(t) \/ PutSize(t)
      BY <2>2, <2>4 DEF Push, PutSize, WriteLabels
    <2>5. CASE CheckLast(t) \/ Mark(t)
      <3>1. Finish(t) \/ (Goto(t, "mark") /\ local' = local)
        BY <2>5 DEF CheckLast, Mark, CommitIfGit, IsGit
      <3>. QED  BY <2>2, <2>3, <3>1 DEF WriteLabels
    <2>6. CASE CheckPath(t)
      <3>1. Finish(t) \/ (Goto(t, "checklast") /\ local' = local)
        BY <2>6 DEF CheckPath
      <3>. QED  BY <2>2, <2>3, <3>1 DEF WriteLabels
    <2>. QED  BY <2>1, <2>4, <2>5, <2>6 DEF WriteStep
  <1>3. /\ pc'[t] \notin {"git", "acquire"} \cup HeldLabels
        /\ pc'[t] \notin {"pack"} \cup LoadLabels
    BY <1>2 DEF WriteLabels, LooseLabels, AttrLabels, RemoveLabels, HeldLabels, CommitLabels,
                StoreLabels,
                LoadLabels
  <1>. QED  BY <1>0, <1>1, <1>2, <1>3, MarkedMove

LEMMA MarkedRead ==
  ASSUME ControlOK, MarkedOK, CompleteStays, NEW t \in Tasks, ReadStep(t)
  PROVE  MarkedOK'
  <1>0. /\ t \in Procs /\ queue' = queue /\ local[t] \in Locals /\ ~GitRead(t)
        /\ activeWrites \in [Files -> (1 .. nchan) \cup {None}]
    BY ProcFacts DEF Procs, MarkedOK, ControlOK, TypeOK, BuffersType,
                     ReadStep, GitRead, ReadData, PackRead, LoadExisting, InsertLoaded, RangeRead
  <1>1. pc[t] \in {"pack"} \cup LoadLabels => local[t].file \notin Scanned
    BY DEF MarkedOK
  <1>2. \A l \in {"load", "insert"} \cup LooseLabels : l \notin {"git", "acquire"} \cup HeldLabels
    BY DEF LooseLabels, AttrLabels, RemoveLabels, HeldLabels, CommitLabels, StoreLabels,
           LoadLabels
  <1>3. \A l \in LooseLabels : l \notin {"pack"} \cup LoadLabels
    BY DEF LooseLabels, AttrLabels, RemoveLabels, LoadLabels
  <1>4. CASE PackRead(t)
    <2>1. PICK l \in {"load", "range"} : \E c :
            /\ pc[t] = "pack" /\ Goto(t, l)
            /\ local' = [local EXCEPT ![t] = [local[t] EXCEPT !.chan = c]]
      BY <1>4 DEF PackRead
    <2>2. PICK c : /\ pc[t] = "pack" /\ Goto(t, l)
                   /\ local' = [local EXCEPT ![t] = [local[t] EXCEPT !.chan = c]]
      BY <2>1
    <2>. DEFINE r == [local[t] EXCEPT !.chan = c]
    <2>3. r.file = local[t].file
      BY <1>0 DEF Locals
    <2>4. Alone(t) /\ pc'[t] = l /\ local'[t] = r
      BY <1>0, <2>2, AloneSet
    <2>. HIDE DEF r
    <2>5. activeWrites' = activeWrites /\ local'[t].file \notin Scanned
      BY <1>1, <1>4, <2>2, <2>3, <2>4 DEF PackRead
    <2>6. pc'[t] \notin {"git", "acquire"} \cup HeldLabels
      BY <1>2, <2>4 DEF LooseLabels
    <2>. QED  BY <1>0, <2>4, <2>5, <2>6, MarkedMove
  <1>5. ASSUME Finish(t), activeWrites' = activeWrites
        PROVE  MarkedOK'
    BY <1>0, <1>2, <1>3, <1>5, AloneFinish, MarkedMove
  <1>6. CASE LoadExisting(t)
    <2>1. activeWrites' = activeWrites /\ pc[t] \in LoadLabels
      BY <1>6 DEF LoadExisting, LoadLabels
    <2>2. CASE Goto(t, "insert") /\ local' = local
      <3>1. Alone(t) /\ pc'[t] = "insert" /\ local'[t] = local[t]
        BY <1>0, <2>2, AloneGoto
      <3>. QED  BY <1>0, <1>1, <1>2, <2>1, <3>1, MarkedMove
    <2>. QED  BY <1>5, <1>6, <2>1, <2>2 DEF LoadExisting
  <1>7. CASE InsertLoaded(t)
    <2>1. /\ pc[t] \in LoadLabels /\ Goto(t, "range") /\ local' = local
          /\ activeWrites' = [activeWrites EXCEPT ![local[t].file] = local[t].chan]
      BY <1>7 DEF InsertLoaded, LoadLabels
    <2>2. \A f \in Scanned : activeWrites'[f] = activeWrites[f]
      BY <1>0, <1>1, <2>1
    <2>3. Alone(t) /\ pc'[t] = "range"
      BY <1>0, <2>1, AloneGoto
    <2>4. "range" \in LooseLabels
      BY DEF LooseLabels
    <2>. QED  BY <1>0, <1>2, <1>3, <2>2, <2>3, <2>4, MarkedMove
  <1>8. CASE ReadData(t) \/ RangeRead(t)
    <2>1. activeWrites' = activeWrites
      BY <1>8 DEF ReadData, RangeRead, buffers
    <2>2. Finish(t) \/ \E l \in {"spinning", "panicked"} : Goto(t, l) /\ local' = local
      BY <1>8 DEF ReadData, RangeRead, PackOutcome
    <2>3. ASSUME NEW l \in {"spinning", "panicked"}, Goto(t, l), local' = local
          PROVE  MarkedOK'
      <3>1. Alone(t) /\ pc'[t] = l /\ l \in LooseLabels
        BY <1>0, <2>3, AloneGoto DEF LooseLabels
      <3>. QED  BY <1>0, <1>2, <1>3, <2>1, <3>1, MarkedMove
    <2>. QED  BY <1>5, <2>1, <2>2, <2>3
  <1>. QED  BY <1>0, <1>4, <1>6, <1>7, <1>8 DEF ReadStep

LEMMA MarkedAttr ==
  ASSUME ControlOK, MarkedOK, CompleteStays, NEW t \in Tasks,
         AttrStep(t) \/ FaultInWrite(t) \/ FaultInAttrPath(t) \/ FaultInAttr(t)
  PROVE  MarkedOK'
  <1>0. t \in Procs /\ queue' = queue /\ activeWrites' = activeWrites
    BY DEF Procs, AttrStep, AttrPath, AttrGet, AttrPut, RemoveMeta, RemoveId, FaultInWrite,
           FaultInAttrPath, FaultInAttr, buffers
  <1>1. Alone(t) /\ pc'[t] \in LooseLabels
    <2>1. CASE AttrPath(t) \/ AttrGet(t) \/ AttrPut(t) \/ FaultInAttrPath(t)
               \/ FaultInAttr(t)
      <3>1. Finish(t) \/ \E l \in {"attrget", "attrput"} : \E r :
                           Goto(t, l) /\ local' = [local EXCEPT ![t] = r]
        BY <1>0, <2>1, AttrMoves
      <3>2. ASSUME NEW l \in {"attrget", "attrput"}, NEW r,
                   Goto(t, l), local' = [local EXCEPT ![t] = r]
            PROVE  Alone(t) /\ pc'[t] \in LooseLabels
        BY <1>0, <3>2, AloneSet DEF LooseLabels, AttrLabels
      <3>. QED  BY <1>0, <3>1, <3>2, AloneFinish
    <2>2. CASE RemoveMeta(t)
      <3>1. Goto(t, "rmid") /\ local' = local
        BY <2>2 DEF RemoveMeta
      <3>. QED  BY <1>0, <3>1, AloneGoto DEF LooseLabels, AttrLabels, RemoveLabels
    <2>3. CASE RemoveId(t) \/ FaultInWrite(t)
      BY <1>0, <2>3, AloneFinish DEF RemoveId, FaultInWrite
    <2>. QED  BY <2>1, <2>2, <2>3 DEF AttrStep
  <1>2. /\ pc'[t] \notin {"git", "acquire"} \cup HeldLabels
        /\ pc'[t] \notin {"pack"} \cup LoadLabels
    BY <1>1 DEF LooseLabels, AttrLabels, RemoveLabels, HeldLabels, CommitLabels, StoreLabels,
                LoadLabels
  <1>. QED  BY <1>0, <1>1, <1>2, MarkedMove

\* A commit is a matter of the monitor.
LEMMA MarkedCommit ==
  ASSUME ControlOK, MarkedOK, CompleteStays, NEW p \in Procs,
         CommitStep(p) \/ FaultInPath(p) \/ FaultInStore(p) \/ FaultInTimes(p)
  PROVE  MarkedOK'
  <1>1. pc[p] \in {"acquire"} \cup HeldLabels
    BY DEF CommitStep, Acquire, Take, CommitPath, CommitRead, CommitStore, CommitTouch,
           CommitTimes,
           CommitClear, FaultInPath, FaultInStore, FaultInTimes, HeldLabels, CommitLabels,
           StoreLabels
  <1>2. p = Monitor
    BY <1>1 DEF MarkedOK, Procs
  <1>3. queue' = queue /\ activeWrites \in [Files -> (1 .. nchan) \cup {None}]
    BY DEF CommitStep, Acquire, Take, CommitPath, CommitRead, CommitStore, CommitTouch,
           CommitTimes,
           CommitClear, FaultInPath, FaultInStore, FaultInTimes, ControlOK, TypeOK, BuffersType
  <1>4. ASSUME NEW ok \in BOOLEAN, CommitReturn(p, ok), activeWrites' = activeWrites
        PROVE  MarkedOK'
    <2>1. Alone(p) /\ pc'[p] \in LooseLabels
      BY <1>4, AloneReturn
    <2>2. pc'[p] \notin {"acquire", "take"}
      BY <2>1 DEF LooseLabels, AttrLabels, RemoveLabels
    <2>. QED  BY <1>2, <1>3, <1>4, <2>1, <2>2, MarkedDone
  <1>5. ASSUME NEW l \in CommitLabels, NEW r, Goto(p, l), local' = [local EXCEPT ![p] = r],
               activeWrites' = activeWrites
        PROVE  MarkedOK'
    <2>1. Alone(p) /\ pc'[p] = l
      BY <1>5, AloneSet
    <2>2. pc'[p] \notin {"acquire", "take"}
      BY <2>1 DEF CommitLabels, StoreLabels
    <2>. QED  BY <1>2, <1>3, <1>5, <2>1, <2>2, MarkedDone
  <1>6. ASSUME NEW l \in CommitLabels, Goto(p, l), local' = local, activeWrites' = activeWrites
        PROVE  MarkedOK'
    <2>1. Alone(p) /\ pc'[p] = l
      BY <1>6, AloneGoto
    <2>2. pc'[p] \notin {"acquire", "take"}
      BY <2>1 DEF CommitLabels, StoreLabels
    <2>. QED  BY <1>2, <1>3, <1>6, <2>1, <2>2, MarkedDone
  <1>7. CASE Acquire(p)
    <2>1. pc[p] = "acquire" /\ Goto(p, "take") /\ local' = local /\ buf' = buf
            /\ activeWrites' = activeWrites
      BY <1>7 DEF Acquire, buffers
    <2>2. Alone(p) /\ pc'[p] = "take" /\ local'[p] = local[p]
      BY <2>1, AloneGoto
    <2>3. MonitorHas /\ MonitorHas' /\ Scanned' = Scanned
      BY <1>2, <1>3, <2>1, <2>2 DEF MonitorHas, Scanned
    <2>4. \A t \in Tasks : pc'[t] = pc[t] /\ local'[t] = local[t]
      BY <1>2, <2>2 DEF Alone, Procs
    <2>5. local'[Monitor].file \notin queue'
      BY <1>2, <1>3, <2>2, <2>3 DEF MarkedOK
    <2>. QED  BY <2>1, <2>3, <2>4, <2>5 DEF MarkedOK
  <1>8. CASE Take(p)
    <2>1. CASE Entry(p) # None
      <3>1. /\ pc[p] = "take" /\ Goto(p, "path")
            /\ local' = [local EXCEPT ![p] = [local[p] EXCEPT !.chan = Entry(p)]]
            /\ activeWrites' = [activeWrites EXCEPT ![local[p].file] = None]
        BY <1>8, <2>1 DEF Take
      <3>2. Alone(p) /\ pc'[p] = "path"
        BY <3>1, AloneSet
      <3>3. local[p].file \notin queue /\ queue \subseteq Files
        BY <1>2, <3>1, ProcFacts DEF MarkedOK, MonitorHas
      <3>4. \A f \in queue : activeWrites'[f] = activeWrites[f]
        BY <1>3, <3>1, <3>3
      <3>. QED  BY <1>2, <1>3, <3>2, <3>4, MarkedDone
    <2>2. CASE Entry(p) = None
      BY <1>4, <1>8, <2>2 DEF Take
    <2>. QED  BY <2>1, <2>2
  <1>9. CASE CommitPath(p)
    <2>1. CASE idToPath[local[p].file] # None
      BY <1>5, <1>9, <2>1 DEF CommitPath, CommitLabels, StoreLabels, buffers
    <2>2. CASE idToPath[local[p].file] = None
      BY <1>4, <1>9, <2>2 DEF CommitPath, buffers
    <2>. QED  BY <2>1, <2>2
  <1>10. CASE CommitRead(p)
    <2>. DEFINE r == [local[p] EXCEPT
                        !.image = ReadAll(buf[local[p].chan].log, buf[local[p].chan].total),
                        !.seen  = Len(arrived[local[p].chan])]
    <2>1. Goto(p, "store") /\ local' = [local EXCEPT ![p] = r] /\ activeWrites' = activeWrites
      BY <1>10 DEF CommitRead, buffers
    <2>. HIDE DEF r
    <2>. QED  BY <1>5, <2>1 DEF CommitLabels, StoreLabels
  <1>11. CASE CommitTouch(p)
    <2>. DEFINE r == [local[p] EXCEPT !.size = meta[local[p].path]]
    <2>1. Goto(p, "puttimes") /\ local' = [local EXCEPT ![p] = r] /\ activeWrites' = activeWrites
      BY <1>11 DEF CommitTouch, buffers
    <2>. HIDE DEF r
    <2>. QED  BY <1>5, <2>1 DEF CommitLabels, StoreLabels
  <1>12. CASE CommitStore(p) \/ CommitTimes(p)
    BY <1>6, <1>12 DEF CommitStore, CommitTimes, CommitLabels, StoreLabels, buffers
  <1>13. CASE CommitClear(p) \/ FaultInPath(p) \/ FaultInStore(p) \/ FaultInTimes(p)
    BY <1>4, <1>13 DEF CommitClear, FaultInPath, FaultInStore, FaultInTimes, buffers
  <1>. QED  BY <1>7, <1>8, <1>9, <1>10, <1>11, <1>12, <1>13 DEF CommitStep

\* The scan takes no pack file, and a reader that is about to insert a channel has
\* the id of one, or of a file that is gone.
LEMMA MarkedMonitor ==
  ASSUME ControlOK, PacksOK, MarkedOK, MonitorScan \/ MonitorCommit
  PROVE  MarkedOK'
  <1>0. /\ Monitor \in Procs /\ Monitor \notin Tasks /\ Tasks \subseteq Procs
        /\ activeWrites' = activeWrites /\ buf' = buf /\ queue \subseteq Files
    BY ProcFacts DEF Procs, MonitorScan, MonitorCommit, buffers
  <1>1. CASE MonitorScan
    <2>1. Goto(Monitor, "scanned") /\ local' = local /\ queue' = {f \in Files : Committable(f)}
      BY <1>1 DEF MonitorScan
    <2>2. Alone(Monitor) /\ pc'[Monitor] = "scanned"
      BY <1>0, <2>1, AloneGoto
    <2>3. ~MonitorHas' /\ Scanned' = {f \in Files : Committable(f)}
      BY <2>1, <2>2 DEF MonitorHas, Scanned
    <2>4. \A t \in Tasks : pc'[t] = pc[t] /\ local'[t] = local[t]
      BY <1>0, <2>2 DEF Alone
    <2>5. \A t \in Tasks : pc[t] \in {"pack"} \cup LoadLabels => ~Committable(local[t].file)
      BY <1>0 DEF PacksOK, RouteOf, Committable, IsPack
    <2>. QED  BY <1>0, <2>3, <2>4, <2>5 DEF MarkedOK, Committable
  <1>2. CASE MonitorCommit
    <2>1. PICK f \in queue : /\ queue' = queue \ {f}
                             /\ local' = [local EXCEPT ![Monitor] =
                                            [Blank EXCEPT !.op = "commit", !.file = f]]
      BY <1>2 DEF MonitorCommit
    <2>. DEFINE r == [Blank EXCEPT !.op = "commit", !.file = f]
    <2>2. r.file = f
      BY DEF Blank
    <2>3. Goto(Monitor, "acquire") /\ local' = [local EXCEPT ![Monitor] = r]
      BY <1>2, <2>1 DEF MonitorCommit
    <2>. HIDE DEF r
    <2>4. Alone(Monitor) /\ pc'[Monitor] = "acquire" /\ local'[Monitor].file = f
      BY <1>0, <2>2, <2>3, AloneSet
    <2>5. \A t \in Tasks : pc'[t] = pc[t] /\ local'[t] = local[t]
      BY <1>0, <2>4 DEF Alone
    <2>6. MonitorHas' /\ Scanned' = {g \in Files : g \in queue}
      BY <1>0, <2>1, <2>4 DEF MonitorHas, Scanned
    <2>7. {g \in Files : g \in queue} \subseteq Scanned /\ f \notin queue'
      BY <2>1 DEF Scanned
    <2>. QED  BY <1>0, <2>4, <2>5, <2>6, <2>7 DEF MarkedOK
  <1>. QED  BY <1>1, <1>2

LEMMA MarkedStill ==
  ASSUME MarkedOK, UNCHANGED <<activeWrites, buf, pc, local, queue>>
  PROVE  MarkedOK'
  <1>1. (MonitorHas' <=> MonitorHas) /\ Scanned' = Scanned
    BY DEF MonitorHas, Scanned
  <1>. QED  BY <1>1 DEF MarkedOK

LEMMA MarkedRestart == Restart => MarkedOK'
  <1>. SUFFICES ASSUME Restart PROVE MarkedOK'
    OBVIOUS
  <1>1. queue' = {} /\ \A p \in Procs : pc'[p] = "idle"
    BY DEF Restart
  <1>2. ~MonitorHas' /\ Scanned' = {}
    BY <1>1 DEF MonitorHas, Scanned, Procs
  <1>3. "idle" \notin {"git", "acquire"} \cup HeldLabels
    BY DEF HeldLabels, CommitLabels, StoreLabels
  <1>. QED  BY <1>1, <1>2, <1>3 DEF MarkedOK, Procs

LEMMA MarkedInit == Init => MarkedOK
  <1>. SUFFICES ASSUME Init PROVE MarkedOK
    OBVIOUS
  <1>1. queue = {} /\ \A p \in Procs : pc[p] = "idle"
    BY DEF Init
  <1>2. ~MonitorHas /\ Scanned = {}
    BY <1>1 DEF MonitorHas, Scanned, Procs
  <1>3. "idle" \notin {"git", "acquire"} \cup HeldLabels
    BY DEF HeldLabels, CommitLabels, StoreLabels
  <1>. QED  BY <1>1, <1>2, <1>3 DEF MarkedOK, Procs

LEMMA MarkedNext ==
  GitPaths = {} /\ ControlOK /\ PacksOK /\ MarkedOK /\ [Next]_vars => MarkedOK'
  <1>. SUFFICES ASSUME GitPaths = {}, ControlOK, PacksOK, MarkedOK, [Next]_vars
                PROVE  MarkedOK'
    OBVIOUS
  <1>1. CASE UNCHANGED vars
    BY <1>1, MarkedStill DEF vars, buffers
  <1>2. CASE Next
    <2>1. CompleteStays
      BY <1>2, CompleteKept
    <2>2. Monitor \in Procs /\ Tasks \subseteq Procs
      BY DEF Procs
    <2>3. CASE \E t \in Tasks : Request(t) \/ TaskStep(t)
      BY <2>1, <2>2, <2>3, MarkedRequest, MarkedWrite, MarkedCommit, MarkedRead, MarkedAttr
         DEF TaskStep
    <2>4. CASE MonitorStep
      BY <2>1, <2>2, <2>4, MarkedMonitor, MarkedCommit DEF MonitorStep
    <2>5. CASE \E f \in Files, p \in Paths : Create(f, p)
      BY <2>5, MarkedStill DEF Create, buffers
    <2>6. CASE Failure
      BY <2>1, <2>2, <2>6, MarkedAttr, MarkedCommit, MarkedRestart DEF Failure
    <2>. QED  BY <1>2, <2>3, <2>4, <2>5, <2>6 DEF Next
  <1>. QED  BY <1>1, <1>2

-----------------------------------------------------------------------------
\* The whole invariant.
THEOREM InvariantAlways == Spec => []Invariant
  <1>1. ControlOK /\ HoldersOK /\ ContentOK /\ [Next]_vars => ContentOK'
    BY GoodNext DEF Good
  <1>2. Init => ContentOK
    BY ContentInit
  <1>3. Spec => []ContentOK
    BY <1>1, <1>2, ControlAlways, HoldersAlways, PTL DEF Spec
  <1>4. Spec => []PacksOK
    BY ControlAlways, PacksInit, PacksNext, PTL DEF Spec
  <1>5. ControlOK /\ PacksOK /\ (GitPaths = {} => MarkedOK) /\ [Next]_vars
          => (GitPaths = {} => MarkedOK)'
    BY MarkedNext
  <1>6. Spec => [](GitPaths = {} => MarkedOK)
    BY <1>4, <1>5, ControlAlways, MarkedInit, PTL DEF Spec
  <1>. QED  BY <1>3, <1>4, <1>6, ControlAlways, HoldersAlways, PTL DEF Invariant

\* Whatever writers, committers, readers, removals, faults and restarts do: what
\* is stored under a path is what a prefix of the chunks of one channel amounts
\* to, with every chunk that was there when the channel was taken, and no channel
\* is stored twice.
THEOREM BatchesAlways == Spec => BatchesImplemented
  <1>1. Init => Batches!Init
    BY ContentInit
  <1>2. Invariant /\ [Next]_vars => [Batches!Next]_(Batches!vars)
    BY GoodNext DEF Good, Invariant
  <1>. QED  BY <1>1, <1>2, InvariantAlways, PTL DEF Spec, Batches!Spec, BatchesImplemented

\* Neither the monitor nor the handler of a git file stores a pack file, though the
\* one checks the path before it takes the channel and the other when the request
\* comes in, and files are removed and created in between.
THEOREM PacksAlways == Spec => []PackNeverStored
  <1>1. Invariant => PackNeverStored
    BY DEF Invariant, PacksOK
  <1>. QED  BY <1>1, InvariantAlways, PTL

\* Without git files, the channel that the monitor takes was marked complete: not
\* only when the scan looked at it, but when it is taken.
THEOREM MonitorAlways ==
  ASSUME GitPaths = {}
  PROVE  Spec => MonitorTakesOnlyComplete
  <1>1. Invariant => (MonitorTakes => buf[activeWrites[local[Monitor].file]].complete)
    <2>. SUFFICES ASSUME ControlOK, MarkedOK, MonitorTakes
                  PROVE  buf[activeWrites[local[Monitor].file]].complete
      BY DEF Invariant
    <2>1. Monitor \in Procs /\ pc[Monitor] = "take"
      BY DEF MonitorTakes, Procs
    <2>2. local[Monitor].file \in Files
      BY <2>1, ProcFacts DEF ControlOf, FileLabels, HeldLabels
    <2>. QED  BY <2>1, <2>2 DEF MarkedOK, MonitorHas, Scanned
  <1>. QED  BY <1>1, InvariantAlways, PTL DEF MonitorTakesOnlyComplete

\* What a committer stores is what the loop of read_all returns: no chunk of the
\* channel it has taken ends past total_size, so that the loop skips none.
THEOREM CommitReadsAll ==
  Spec => [](\A p \in Procs : pc[p] = "readall" =>
               ReadAllLoop(buf[local[p].chan])
                 = ReadAll(buf[local[p].chan].log, buf[local[p].chan].total))
  <1>1. ASSUME Invariant, NEW p \in Procs, pc[p] = "readall"
        PROVE  ReadAllLoop(buf[local[p].chan])
                 = ReadAll(buf[local[p].chan].log, buf[local[p].chan].total)
    <2>. DEFINE c == local[p].chan
    <2>1. ControlOK /\ HoldersOK /\ ContentOK
      BY <1>1 DEF Invariant
    <2>2. pc[p] \in HoldLabels /\ FateOf(pc[p]) = "sealed"
      BY <1>1 DEF HoldLabels, CommitLabels, StoreLabels, FateOf, LoadLabels
    <2>3. c \in Channels /\ fate[c] = "sealed"
      BY <2>1, <2>2, HolderChan, HolderLabels DEF HoldersOK
    <2>4. buf[c] \in Buffer /\ IsExtent(buf[c].log, buf[c].total)
      BY <2>1, <2>3 DEF ContentOK, ControlOK, TypeOK, BuffersType
    <2>5. \A k \in DOMAIN buf[c].log : End(buf[c].log[k]) <= buf[c].total
      BY <2>4 DEF IsExtent
    <2>. QED  BY <2>4, <2>5, LoopIs
  <1>2. Invariant => \A p \in Procs : pc[p] = "readall" =>
          ReadAllLoop(buf[local[p].chan])
            = ReadAll(buf[local[p].chan].log, buf[local[p].chan].total)
    BY <1>1
  <1>. QED  BY <1>2, InvariantAlways, PTL
=============================================================================
