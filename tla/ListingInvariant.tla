-------------------------- MODULE ListingInvariant --------------------------
(***************************************************************************)
(* Inductive invariants of Listing over Redis, beside those of Namespace:  *)
(* why what a listing tells its client is true, proved in ListingProofs.   *)
(***************************************************************************)
EXTENDS Listing, NamespaceInvariant

\* The history of a listing is about one that is under way, of which there is one.
CalmOK ==
  /\ \A p \in calm : Undisturbed(p)
  /\ lister.pc = "idle" =>
       lister = Closed /\ calm = {} /\ overlap = {} /\ making = {}
  /\ lister.pc # "idle" => begun

-----------------------------------------------------------------------------
(***************************************************************************)
(* Beside any requests: what has been read and sent of the paths that      *)
(* nothing has disturbed.  The paths that such a path is in have not been  *)
(* disturbed either, although a request may be at work beside it in them.  *)
(***************************************************************************)
Firm == {d \in Paths : \E p \in calm : Prefix(d, p)}

\* The directory whose members were read is the one that was opened.
PlaceOK ==
  lister.pc \in {"members", "ids", "entries"} =>
    \A d \in Firm : d = lister.path <=> pathToId[d] = lister.id

\* A member that is still to be read has an id, and an id that was read is that of a
\* member.
MembersOK ==
  /\ lister.pc = "members" => lister.ids = {}
  /\ lister.pc = "ids" =>
       /\ \A q \in lister.todo :
            q # <<>> /\ Parent(q) = lister.path /\ (q \in calm => q \in nodes)
       /\ \A p \in calm : pathToId[p] \in lister.ids => p # <<>> /\ Parent(p) = lister.path

\* What the reading r of an entry has of the path p is so.
ReadsTrue(r, p) ==
  /\ r.at = "hash" => r.path = p
  /\ r.at \in {"name", "kept"} => r.type = meta[p].type
  /\ r.at = "kept" => r.name = p[Len(p)]

PageOK ==
  lister.pc = "entries" =>
    \A i \in DOMAIN lister.page : \A p \in calm : pathToId[p] = i =>
      /\ p # <<>> /\ Parent(p) = lister.path
      /\ ReadsTrue(lister.page[i], p)

ListedOK ==
  \A e \in lister.listed : \A p \in calm : pathToId[p] = e.id =>
    p # <<>> /\ e = EntryOf(p) /\ pathToId[Parent(p)] = lister.id

TruthOK == PlaceOK /\ MembersOK /\ PageOK /\ ListedOK

-----------------------------------------------------------------------------
(***************************************************************************)
(* Which entries have been sent: those up to the cookie.                   *)
(***************************************************************************)

\* The ids of ids behind the cookie after, as many as there is room for.
FirstOf(ids, after, max) ==
  LET later == {i \in ids : i > after}
  IN  {i \in later : Cardinality({j \in later : j < i}) < max}

\* A task has the label of what it is doing.
OpOf(l, op) ==
  /\ op = None <=> l = "idle"
  /\ l \in CreateLabels => op \in Creates \cup {"mount"}
  /\ l \in RemoveLabels => op = "remove"
  /\ l \in RenameLabels => op = "rename"
  /\ l \in CommitLabels => op = "commit"

OpsOK == \A t \in Tasks : OpOf(pc[t], local[t].op)

\* The ids of what is in the directory dir.
IdsIn(dir) == {pathToId[p] : p \in ChildrenIn(dir)}

\* A listing without company has all that is in its directory.
LoneOf(dir) ==
  /\ lister.pc = "ids" =>
       /\ lister.todo \subseteq ChildrenIn(dir)
       /\ lister.ids = {pathToId[p] : p \in ChildrenIn(dir) \ lister.todo}
  /\ lister.pc = "entries" =>
       /\ DOMAIN lister.page = FirstOf(IdsIn(dir), lister.after, lister.max)
       /\ \A i \in DOMAIN lister.page : lister.page[i].at # "dropped"
  /\ {e.id : e \in lister.listed} = {i \in IdsIn(dir) : i <= lister.after}

LoneOK ==
  lister.pc # "idle" /\ overlap = {} =>
    LET dir == idToPath[lister.id]
    IN  /\ Quiet /\ dir \in Paths
        /\ \A p \in Paths : Undisturbed(p) => p \in calm
        /\ lister.pc \in {"members", "ids", "entries"} => lister.path = dir
        /\ Tidy(dir) => LoneOf(dir)

\* The name q of the directory dir has the id j.
Stands(q, j, dir) == q \in nodes \ {<<>>} /\ Parent(q) = dir /\ pathToId[q] = j

\* Beside creates and commits: the entry of the path p with the id n has been sent
\* once the cookie is not before it.  No id of a page up to n is dropped, so that a
\* page that n has no room in is full of older ones.
OlderOf(p, n) ==
  /\ \A t \in Makers : n < local[t].id
  /\ n <= lister.after => \E e \in lister.listed : e.id = n
  /\ lister.pc = "ids" =>
       /\ lister.todo \subseteq ChildrenIn(Parent(p))
       /\ p \in lister.todo \/ n \in lister.ids
       /\ \A j \in lister.ids : j <= n => \E q \in Paths : Stands(q, j, Parent(p))
  /\ lister.pc = "entries" /\ n > lister.after =>
       /\ \/ n \in DOMAIN lister.page
          \/ /\ Cardinality(DOMAIN lister.page) >= lister.max
             /\ \A j \in DOMAIN lister.page : j < n
       /\ \A j \in DOMAIN lister.page : j <= n =>
            /\ lister.page[j].at # "dropped"
            /\ \E q \in Paths : Stands(q, j, Parent(p))
            /\ lister.page[j].at = "hash" => Stands(lister.page[j].path, j, Parent(p))

\* The paths that creates and commits do not hide.
Safe(p) ==
  /\ pathToId[p] # None /\ pathToId[Parent(p)] = lister.id
  /\ Tidy(Parent(p)) /\ \A i \in making : pathToId[p] < i

OlderOK ==
  lister.pc # "idle" =>
    /\ \A t \in Tasks : local[t].op \in overlap \cup {None}
    /\ overlap \subseteq Creates \cup {"commit"} =>
         \A p \in calm \ {<<>>} : Safe(p) => OlderOf(p, pathToId[p])
=============================================================================
