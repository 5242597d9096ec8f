------------------------- MODULE NamespaceInvariant -------------------------
(***************************************************************************)
(* Inductive invariants of Namespace, proved in NamespaceProofs.           *)
(***************************************************************************)
EXTENDS Namespace

\* The steps at which a task has the id of what it creates or commits.
IdLabels == {"incrput", "zadd", "hash", "link", "p2i", "i2p", "put", "touch"}

\* The steps of rename_directory_file, from the entries of path_to_id on.
OldEntryLabels == {"epath", "eset", "eid", "eput", "etouch", "etouchput"}
EntryLabels    == {"entry"} \cup OldEntryLabels
NodeLabels     == {"moving", "node", "renode"}
MovingLabels   == {"type", "move", "keys"} \cup KeyLabels \cup NodeLabels \cup EntryLabels

\* What a task at step l knows about its local variables r.
ControlOf(l, r) ==
  /\ l # "idle" => r.path \in Paths
  /\ l \in IdLabels => r.id \in Ids
  /\ l \in {"source", "target"} => r.dir \in Ids /\ r.name \in Names
  /\ l \in MovingLabels => Fits(r.path, r.to)
  /\ l \in NodeLabels => r.todo \subseteq AtOrBelow(r.path)
  /\ l \in KeyLabels => r.key \in AtOrBelow(r.path) \X Kinds
  /\ l = "moving" \/ (l \in KeyLabels /\ r.key # <<r.path, "hash">>) =>
       r.todo \subseteq AtOrBelow(r.path) /\ r.keys \subseteq AtOrBelow(r.path) \X Kinds
  /\ l = "renode" => r.cur \in AtOrBelow(r.path)
  /\ l \in EntryLabels => r.todo \subseteq Paths \X Ids
  /\ l \in OldEntryLabels => r.cur \in AtOrBelow(r.path) \X Ids

\* The variables have their types, and a request never works on a path, an id or
\* a list that it has not got: a rename puts what it moves where its target has
\* room for it.
ControlOK ==
  /\ TypeOK
  /\ \A t \in Tasks : ControlOf(pc[t], local[t])

\* The mounted directory stays, nobody is setting it up, and incr is never halfway.
CalmOf(l, r) ==
  /\ l \notin {"look", "empty", "reset", "incrput"} \cup KeyLabels
  /\ l = "moving" => r.keys = {}
  /\ r.op # "mount"
  /\ l \in RemoveLabels \cup RenameLabels => r.path # <<>>
  /\ l \in MovingLabels => r.to # <<>>

\* Nobody has an id that was not issued, and no id was issued for two paths.
IssuedOK ==
  /\ \A i \in Ids : i > nextId => holders[i] = {}
  /\ \A i \in Ids : \A p, q \in holders[i] : p = q
  /\ meta[<<>>] # None
  /\ \A t \in Tasks : CalmOf(pc[t], local[t])

-----------------------------------------------------------------------------
(***************************************************************************)
(* The isolation of names over Redis.  A request that has overlapped with  *)
(* no other and lost no call has its paths for itself, and what is there   *)
(* is known at each of its steps.  Everywhere else the names are sound,    *)
(* but below a path that a request has left half done.                     *)
(***************************************************************************)

\* Nothing at or above p was left half done.
Intact(p) == \A q \in tainted : ~Prefix(q, p)

\* The request of t has its paths for itself.
Clean(t) == \A p \in Named(t), q \in tainted : ~Related(p, q)

\* Requests whose paths meet are tainted, all of them.
ApartOK ==
  \A t \in Tasks :
    /\ Clean(t) \/ Named(t) \subseteq tainted
    /\ \A u \in Tasks \ {t} : \A p \in Named(t), q \in Named(u) :
         Related(p, q) => p \in tainted

\* Where the id i is: the paths that have it or that it leads to, and the path of a
\* request that is going to write it.
HandLabels == {"zadd", "hash", "link", "p2i", "i2p", "zrem", "delete", "unpath", "unid"}

Has(t, i) ==
  \/ pc[t] \in HandLabels /\ local[t].id = i
  \/ pc[t] \in EntryLabels /\ \E e \in local[t].todo : e[2] = i
  \/ pc[t] \in OldEntryLabels /\ local[t].cur[2] = i

Marks(i) ==
  {p \in Paths :
     \/ pathToId[p] = i
     \/ idToPath[i] = p
     \/ \E t \in Tasks : local[t].path = p /\ Has(t, i)}

\* One request is at work on both, or neither is intact.
Tied(p, q) ==
  \/ \E t \in Tasks : Covers(t, p) /\ Covers(t, q)
  \/ ~Intact(p) /\ ~Intact(q)

\* An id is in one place, or what has it in two is at work there or has been left.
OwnersOK ==
  \A i \in Ids : LET places == Marks(i)
                IN  \A p, q \in places : p = q \/ Tied(p, q)

\* Between the calls of init_user_directory that make the first directory.
FirstMount(t) ==
  /\ local[t].op = "mount" /\ local[t].id = 1
  /\ pc[t] \in {"zadd", "hash", "link", "p2i", "i2p", "reset"}

\* An id that the counter has not come to is nowhere.
FreshOK ==
  Intact(<<>>) =>
    \A i \in Ids : Marks(i) # {} =>
      i <= nextId \/ (i = 1 /\ \E t \in Tasks : FirstMount(t))

\* What is stored at p is the file with id i, or nothing.
Holds(p, i) ==
  IF i = None THEN meta[p] = None /\ data[p] = None /\ p \notin links
  ELSE /\ meta[p] # None /\ meta[p].type # None /\ meta[p].id = i
       /\ data[p] \in {None, i}
       /\ p \in links <=> meta[p].type = "link"

DirAt(p) == p \in nodes /\ meta[p] # None

Whole(p) ==
  /\ p \in nodes <=> pathToId[p] # None
  /\ \A i \in Ids : idToPath[i] = p <=> pathToId[p] = i
  /\ Holds(p, pathToId[p])

Sound(p) ==
  /\ Whole(p)
  /\ p \in nodes /\ p # <<>> => DirAt(Parent(p))

Under(p) == AtOrBelow(p) \ {p}

\* At the steps of a request that creates p.
Creating(l, p, i) ==
  /\ \A q \in Under(p) : Sound(q)
  /\ p # <<>> => DirAt(Parent(p))
  /\ l = "exists" => Sound(p)
  /\ l # "exists" =>
       /\ p \in nodes <=> l \in {"hash", "link", "p2i", "i2p"}
       /\ \A q \in Under(p) : Parent(q) = p => q \notin nodes
       /\ l \in HandLabels => \A q \in Under(p) : pathToId[q] # i
       /\ pathToId[p] = IF l = "i2p" THEN i ELSE None
       /\ \A j \in Ids : idToPath[j] # p
       /\ IF l = "link"
          THEN meta[p] = [type |-> "link", id |-> i] /\ data[p] = None /\ p \notin links
          ELSE Holds(p, IF l \in {"p2i", "i2p"} THEN i ELSE None)

\* At the steps of a request that removes p.
Removing(l, p, i) ==
  /\ \A q \in Under(p) : Sound(q) /\ (l # "scan" => q \notin nodes)
  /\ l \in {"scan", "getid"} => Sound(p)
  /\ l \notin {"scan", "getid"} =>
       /\ p \in nodes <=> l = "zrem"
       /\ pathToId[p] = IF l = "unid" THEN None ELSE i
       /\ \A j \in Ids : idToPath[j] = p <=> j = i
       /\ Holds(p, IF l \in {"zrem", "delete"} THEN i ELSE None)

\* At the last step of init_user_directory, and at those of a commit.
AllSound(p, i) ==
  /\ \A q \in AtOrBelow(p) : Sound(q)
  /\ pathToId[p] = i

\* A request that renames p to q has not begun with it.
Renaming(l, r) ==
  /\ \A q \in AtOrBelow(r.path) \cup AtOrBelow(r.to) : Sound(q)
  /\ r.to \in Paths /\ ~Prefix(r.path, r.to)
  /\ \A q \in nodes : ~Below(q, r.to)
  /\ \E d \in Paths : r.to = Append(d, r.name) /\ pathToId[d] = r.dir /\ DirAt(d)
  /\ l = "target" => r.path \in nodes

\* It has begun, and the path q at or below the old one still has its metadata, its
\* member; its new path has got the member.
HashLeft(l, r, q) ==
  \/ l \in {"type", "move"}
  \/ l = "keys" /\ q # r.path
  \/ l = "moving" /\ q \in r.todo

NodeLeft(l, r, q) ==
  \/ l \in {"type", "move", "keys", "moving"}
  \/ l \in {"node", "renode"} /\ q \in r.todo

NodeMade(l, r, q) ==
  \/ l \in EntryLabels
  \/ l \in {"node", "renode"} /\ q \notin r.todo /\ ~(l = "renode" /\ r.cur = q)

\* The id i of q is still at the old path, or already at the new one; and so is the
\* path that it leads to.
IdLeft(l, r, q, i) ==
  \/ l \notin EntryLabels
  \/ <<q, i>> \in r.todo
  \/ l = "epath" /\ r.cur[1] = q

IdMade(l, r, q, i) ==
  /\ l \in EntryLabels
  /\ <<q, i>> \notin r.todo
  /\ ~(l \in {"epath", "eset"} /\ r.cur[1] = q)

PathLeft(l, r, q, i) ==
  \/ l \notin EntryLabels
  \/ <<q, i>> \in r.todo
  \/ l \in {"epath", "eset", "eid"} /\ r.cur[1] = q

PathMade(l, r, q, i) ==
  /\ l \in EntryLabels
  /\ <<q, i>> \notin r.todo
  /\ ~(l \in {"epath", "eset", "eid", "eput"} /\ r.cur[1] = q)

\* F has the ids that there were when the rename began.
OldAt(l, r, F, q) ==
  /\ q \in nodes <=> F[q] # None /\ NodeLeft(l, r, q)
  /\ pathToId[q] = IF IdLeft(l, r, q, F[q]) THEN F[q] ELSE None
  /\ \A i \in Ids : idToPath[i] = q <=> F[q] = i /\ PathLeft(l, r, q, i)
  /\ Holds(q, IF HashLeft(l, r, q) THEN F[q] ELSE None)

\* n is the new path of q.
NewAt(l, r, F, q, n) ==
  /\ n \in nodes <=> F[n] # None \/ (F[q] # None /\ NodeMade(l, r, q))
  /\ pathToId[n] = IF IdMade(l, r, q, F[q]) THEN F[q] ELSE F[n]
  /\ \A i \in Ids : idToPath[i] = n <=>
       \/ F[n] = i /\ (l \in EntryLabels => <<n, i>> \in r.todo)
       \/ F[q] = i /\ PathMade(l, r, q, i)
  /\ Holds(n, IF HashLeft(l, r, q) THEN F[n] ELSE F[q])

\* The lists of the task have what is still to be done.
ListsOK(l, r, F) ==
  /\ l = "moving" => r.path \notin r.todo
  /\ l \in {"node", "renode"} => \A q \in r.todo : F[q] # None
  /\ l = "renode" => r.cur \notin r.todo /\ F[r.cur] # None
  /\ l \in EntryLabels => \A e \in r.todo :
       F[e[1]] = e[2] /\ (Prefix(r.path, e[1]) \/ e[1] = r.to)
  /\ l \in OldEntryLabels => F[r.cur[1]] = r.cur[2] /\ r.cur \notin r.todo

\* What was there: a tree, and at the new path at most one file.
TreeOK(r, F) ==
  /\ F[r.path] # None
  /\ \A q \in Under(r.to) : F[q] = None
  /\ \A p, q \in DOMAIN F : F[p] = F[q] /\ F[p] # None => p = q
  /\ \A q \in Under(r.path) : F[q] # None => F[Parent(q)] # None
  /\ DirAt(Parent(r.to))

Moving(l, r, F) ==
  LET new(q) == Moved(q, r.path, r.to)
  IN  /\ ~Related(r.path, r.to)
      /\ \A q \in AtOrBelow(r.path) : OldAt(l, r, F, q) /\ NewAt(l, r, F, q, new(q))
      /\ \A n \in AtOrBelow(r.to) :
           (\A q \in AtOrBelow(r.path) : n # new(q)) => Sound(n) /\ n \notin nodes
      /\ TreeOK(r, F) /\ ListsOK(l, r, F)

HalfwayOf(l, r) ==
  /\ l \in CreateLabels \ {"incrput", "reset"} => Creating(l, r.path, r.id)
  /\ l \in RemoveLabels => Removing(l, r.path, r.id)
  /\ l \in {"reset", "put", "touch"} => AllSound(r.path, r.id)
  /\ l \in {"source", "target"} => Renaming(l, r)
  /\ l \in MovingLabels =>
       \E F \in [AtOrBelow(r.path) \cup AtOrBelow(r.to) -> Ids \cup {None}] : Moving(l, r, F)

\* What a task can be at, tainted or not.
BearingsOf(l, r) ==
  /\ l = "idle" => r = Blank
  /\ l \notin {"look", "incrput", "etouchput", "touchput"} \cup KeyLabels
  /\ l = "moving" => r.keys = {}
  /\ l \in {"empty", "reset"} => r.op = "mount"
  /\ l = "reset" => r.id = 1
  /\ r.op = "mount" => r.path = <<>>
  /\ l \in CreateLabels \cup RemoveLabels \cup CommitLabels => r.to = None

QuietOK ==
  \A p \in Paths : Intact(p) /\ (\A t \in Tasks : ~Covers(t, p)) => Sound(p)

DoingOK ==
  \A t \in Tasks : \A l \in {pc[t]}, r \in {local[t]} :
    /\ BearingsOf(l, r)
    /\ Clean(t) => HalfwayOf(l, r)
    /\ Clean(t) /\ FirstMount(t) => \A q \in Paths \ {<<>>} : q \notin nodes

IsolatedOK == ApartOK /\ OwnersOK /\ FreshOK /\ QuietOK /\ DoingOK
=============================================================================
