------------------------- MODULE WritePathInvariant -------------------------
(***************************************************************************)
(* The inductive invariant behind the safety properties of WritePath, in   *)
(* layers: what the local variables of a process hold at each of its steps *)
(* and how many permits are taken; who has which channel; what a channel   *)
(* and the local image of a committer hold; which paths are on their way   *)
(* to a commit; what the monitor has found complete.                       *)
(***************************************************************************)
EXTENDS WritePath

(***************************************************************************)
(* Layer 1.  The local variables that a step reads have been set.          *)
(***************************************************************************)
WriteLabels  == {"channel", "push", "total", "putsize", "checkpath", "checklast",
                 "mark"}
StoreLabels  == {"readall", "store", "touch", "puttimes", "clear"}
CommitLabels == {"path"} \cup StoreLabels
LoadLabels   == {"load", "insert"}
ReadLabels   == {"git", "pack", "range", "spinning", "panicked"} \cup LoadLabels
HeldLabels   == {"take"} \cup CommitLabels
AttrLabels   == {"attrpath", "attrget", "attrput"}
RemoveLabels == {"rmmeta", "rmid"}

FileLabels == WriteLabels \cup HeldLabels \cup {"acquire", "data"}
                \cup ReadLabels \cup AttrLabels \cup RemoveLabels
PathLabels == WriteLabels \cup StoreLabels \cup ReadLabels \cup RemoveLabels
ChanLabels == (WriteLabels \ {"channel"}) \cup CommitLabels \cup LoadLabels
                \cup {"range", "spinning", "panicked"}

\* A process at label l with local variables r, when n channels are allocated.
ControlOf(l, r, n) ==
  /\ l \in FileLabels => r.file \in Files
  /\ l \in PathLabels => r.path \in Paths
  /\ l \in ChanLabels => r.chan \in 1 .. n
  /\ l \in {"channel", "push"} => r.req \in Chunk
  /\ l \in AttrLabels => r.req \in Attrs
  /\ l = "store" => r.image \in Image

ControlOK ==
  /\ TypeOK
  /\ PermitsAccounted
  /\ \A p \in Procs : ControlOf(pc[p], local[p], nchan)

(***************************************************************************)
(* Layer 2.  The fate of a channel follows the process that holds it, and  *)
(* two processes that load or commit hold different ones.                  *)
(***************************************************************************)
Holding(p) == Loading(p) \/ Committing(p)

FateOf(l) == IF l \in LoadLabels THEN "open"
             ELSE IF l \in {"path", "readall", "store"} THEN "sealed"
             ELSE "stored"

HoldersOK ==
  /\ OpenIsReachable
  /\ \A c \in Channels : c > nchan => fate[c] = "open" /\ arrived[c] = <<>>
  /\ \A p \in Procs : Holding(p) => fate[local[p].chan] = FateOf(pc[p])
  /\ \A p, q \in Procs :
       Holding(p) /\ Holding(q) /\ p # q => local[p].chan # local[q].chan

(***************************************************************************)
(* Layer 3.  A channel that is not stored holds what has arrived, and its  *)
(* total is the extent of it; what a committer is about to store is what a *)
(* prefix amounts to that holds at least what had arrived at the sealing.  *)
(***************************************************************************)
ContentOK ==
  /\ \A c \in Channels :
       /\ fate[c] # "stored" => buf[c].log = arrived[c]
       /\ fate[c] # "stored" => IsExtent(arrived[c], buf[c].total)
       /\ fate[c] = "sealed" => sealed[c] <= Len(arrived[c])
  /\ \A p \in Procs : pc[p] = "store" =>
       /\ sealed[local[p].chan] <= local[p].seen
       /\ local[p].seen <= Len(arrived[local[p].chan])
       /\ local[p].image = ImageOf(arrived[local[p].chan], local[p].seen)

(***************************************************************************)
(* Layer 4.  The file of a process keeps the path that the process has     *)
(* read until it is removed, and none that is on its way to a commit is a  *)
(* pack file.                                                              *)
(***************************************************************************)
RouteOf(l, r, ids) ==
  /\ l \in WriteLabels \cup {"git", "pack"} \cup LoadLabels => ids[r.file] \in {r.path, None}
  /\ l = "git" => r.path \in GitPaths
  /\ l \in {"pack"} \cup LoadLabels => r.path \in PackPaths
  /\ l \in {"acquire", "take", "path"} => ids[r.file] \notin PackPaths
  /\ l \in StoreLabels => r.path \notin PackPaths

PacksOK ==
  /\ PackNeverStored
  /\ \A p \in Procs : RouteOf(pc[p], local[p], idToPath)
  /\ \A f \in queue : idToPath[f] \notin PackPaths

(***************************************************************************)
(* Layer 5.  Without git files, nobody but the monitor takes a channel:    *)
(* those it has found complete stay where they are until it comes to them. *)
(***************************************************************************)
MonitorHas == pc[Monitor] \in {"acquire", "take"}

Scanned == {f \in Files : f \in queue \/ (MonitorHas /\ f = local[Monitor].file)}

MarkedOK ==
  /\ \A t \in Tasks : pc[t] \notin {"git", "acquire"} \cup HeldLabels
  /\ MonitorHas => local[Monitor].file \notin queue
  /\ \A f \in Scanned :
       /\ activeWrites[f] # None /\ buf[activeWrites[f]].complete
       /\ \A t \in Tasks : pc[t] \in {"pack"} \cup LoadLabels => local[t].file # f

Invariant ==
  ControlOK /\ HoldersOK /\ ContentOK /\ PacksOK /\ (GitPaths = {} => MarkedOK)
=============================================================================
