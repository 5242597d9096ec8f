------------------------------- MODULE Listing -------------------------------
(***************************************************************************)
(* READDIRPLUS beside the requests of Namespace: a client that lists a     *)
(* directory page by page.                                                 *)
(*                                                                         *)
(*   src/src/sharesfs/mod.rs                          readdir              *)
(*   src/src/kernel/handlers/nfs/directory_ops.rs     the pages            *)
(*                                                                         *)
(* A page is made from the store in many calls, each of which is a step:   *)
(* the path of the directory, its members, the id of each member; then, of *)
(* the ids that the page has room for, and of all of these at once, the    *)
(* path, the metadata and the path again.  The entries go by their ids,    *)
(* and the id of the last one is the cookie from which the next page goes on.  *)
(***************************************************************************)
EXTENDS Namespace

CONSTANTS
  PageSizes,   \* how many entries a page is made for: dircount / 16
  ListingCost, \* bound: the requests that the listing takes the place of
  ReadsFail    \* may a call of readdir fail

ASSUME ListingAssumption ==
  /\ PageSizes \subseteq Nat
  /\ ListingCost \in Nat /\ ReadsFail \in BOOLEAN

VARIABLES
  lister,   \* the listing that is under way
  begun,    \* bound: there is one listing
  \* History, not read by any step of the system:
  calm,     \* the paths that nothing has disturbed since it began
  overlap,  \* the kinds of requests, and failing calls, that it overlapped with
  making    \* the ids of the files that were being made when it began

listing == <<lister, begun, calm, overlap, making>>

\* What has been read of an entry so far.
Reading == [at : {"path", "hash", "name", "kept", "dropped"},
            path : Paths \cup {None}, type : Types \cup {None}, name : Names \cup {None}]

\* What is sent of an entry.
Said == [id : Ids, name : Names \cup {None}, type : Types]

Unread == [at |-> "path", path |-> None, type |-> None, name |-> None]

\* A listing whose page has the entries of P: the directory's id and path, the room of
\* a page, the cookie, the members whose ids are still to be read, the ids read, the
\* page, and the entries sent before.
Listings(P) ==
  [pc : {"idle", "open", "members", "ids", "entries"}, id : Ids \cup {None},
   path : Paths \cup {None}, max : Nat, after : Nat, todo : SUBSET Paths,
   ids : SUBSET Ids, page : [P -> Reading], listed : SUBSET Said]

\* There is no listing.
Closed == [pc |-> "idle", id |-> None, path |-> None, max |-> 0, after |-> 0,
           todo |-> {}, ids |-> {}, page |-> <<>>, listed |-> {}]

ListingInit ==
  /\ Init
  /\ lister = Closed /\ begun = FALSE
  /\ calm = {} /\ overlap = {} /\ making = {}

-----------------------------------------------------------------------------
(***************************************************************************)
(* The steps of a page.                                                    *)
(***************************************************************************)
RoomForListing ==
  used["request"] + used["fault"] + used["crash"] + ListingCost <= Total

Start(i, n) ==
  /\ ~begun /\ RoomForListing
  /\ begun' = TRUE
  /\ idToPath[i] # None /\ Known(idToPath[i])
  /\ lister' = [Closed EXCEPT !.pc = "open", !.id = i, !.max = n]

\* get_path_from_id: a directory that has gone is an error.
ReadPath ==
  /\ lister.pc = "open"
  /\ lister' = IF idToPath[lister.id] = None THEN Closed
               ELSE [lister EXCEPT !.pc = "members", !.path = idToPath[lister.id],
                                   !.ids = {}, !.page = <<>>]

\* zrangebyscore for the level below the directory, and is_direct_child.
Members ==
  /\ lister.pc = "members"
  /\ lister' = [lister EXCEPT
       !.pc = "ids", !.todo = {q \in nodes \ {<<>>} : Parent(q) = lister.path}]

\* get_id_from_path, of one member after the other: one without is an error.
MemberId ==
  /\ lister.pc = "ids"
  /\ \E q \in lister.todo :
       lister' = IF pathToId[q] = None THEN Closed
                 ELSE [lister EXCEPT !.todo = @ \ {q}, !.ids = @ \cup {pathToId[q]}]

\* Mutant of Chosen: the id of the cookie is in the next page again.
ChosenAgain ==
  LET later == {i \in lister.ids : i >= lister.after}
  IN  {i \in later : Cardinality({j \in later : j < i}) < lister.max}

\* Mutant of Chosen: the last ids go first.
ChosenLast ==
  LET later == {i \in lister.ids : i > lister.after}
  IN  {i \in later : Cardinality({j \in later : j > i}) < lister.max}

\* The first ids behind the cookie, for as many as a page has room for.
Chosen ==
  LET later == {i \in lister.ids : i > lister.after}
  IN  {i \in later : Cardinality({j \in later : j < i}) < lister.max}

TakePage ==
  /\ lister.pc = "ids"
  /\ lister.todo = {}
  /\ lister' = [lister EXCEPT !.pc = "entries", !.ids = {},
                              !.page = [i \in Chosen |-> Unread]]

\* The entry of i is left out; that it is shows in nothing else.
Dropped(i) == lister' = [lister EXCEPT !.page[i] = [Unread EXCEPT !.at = "dropped"]]

EntryAt(i, stage) == lister.pc = "entries" /\ lister.page[i].at = stage

\* get_metadata_from_id: the path and, in a step of its own, the hash.
EntryPathOf(i) ==
  /\ EntryAt(i, "path")
  /\ IF idToPath[i] = None THEN Dropped(i)
     ELSE lister' = [lister EXCEPT !.page[i] = [@ EXCEPT !.at = "hash", !.path = idToPath[i]]]

\* Mutant of TypeAt: the attributes are those of the directory.
TypeAtDir(p) == IF meta[lister.path] = None THEN "dir" ELSE meta[lister.path].type

\* A type that lacks is read as 0, a directory.
TypeAt(p) == IF meta[p] = None \/ meta[p].type = None THEN "dir" ELSE meta[p].type

EntryHash(i) ==
  /\ EntryAt(i, "hash")
  /\ LET p == lister.page[i].path
     IN  IF ~Keyed(p) THEN Dropped(i)
         ELSE lister' = [lister EXCEPT
                   !.page[i] = [@ EXCEPT !.at = "name", !.path = None, !.type = TypeAt(p)]]

\* get_path_from_id once more: the name is the last one of the path by now, which is
\* none of Names for the mounted directory itself.
EntryName(i) ==
  /\ EntryAt(i, "name")
  /\ LET p == idToPath[i]
     IN  IF p = None THEN Dropped(i)
         ELSE lister' = [lister EXCEPT
                   !.page[i] = [@ EXCEPT !.at = "kept",
                                         !.name = IF p = <<>> THEN None ELSE p[Len(p)]]]

\* The error of a call ends the request with an error or, of an entry, drops it.
ReadFail ==
  /\ ReadsFail
  /\ \/ lister.pc \in {"open", "members", "ids"} /\ lister' = Closed
     \/ \E i \in DOMAIN lister.page :
          /\ lister.pc = "entries"
          /\ lister.page[i].at \notin {"kept", "dropped"}
          /\ Dropped(i)

-----------------------------------------------------------------------------
(***************************************************************************)
(* The reply, and the client that goes on from its last entry.             *)
(***************************************************************************)
PageIsRead ==
  /\ lister.pc = "entries"
  /\ \A i \in DOMAIN lister.page : lister.page[i].at \in {"kept", "dropped"}

PageEntries ==
  {[id |-> i, name |-> lister.page[i].name, type |-> lister.page[i].type] :
     i \in {j \in DOMAIN lister.page : lister.page[j].at = "kept"}}

\* Mutant of Eof: a page that is full is taken for the last one.
EofFull == Cardinality(PageEntries) <= lister.max

\* The page has got fewer entries than it has room for.
Eof == Cardinality(PageEntries) < lister.max

\* The listing goes on behind the last of the entries sent.
GoOn(sent) ==
  \E last \in {lister.after} \cup {e.id : e \in sent} :
    /\ \A e \in sent : e.id <= last
    /\ lister' = [lister EXCEPT
         !.pc = "open", !.path = None, !.page = <<>>, !.listed = @ \cup sent, !.after = last]

\* The reply has room for all of the page, whose eof goes with it.
Reply ==
  /\ PageIsRead
  /\ IF Eof THEN lister' = Closed ELSE GoOn(PageEntries)

\* The reply has no room for e and what comes after it: it is not the end.
ReplyCut ==
  /\ PageIsRead
  /\ \E e \in PageEntries : GoOn({f \in PageEntries : f.id < e.id})

-----------------------------------------------------------------------------
ReadPage ==
  \/ ReadPath \/ Members \/ MemberId \/ TakePage
  \/ \E i \in DOMAIN lister.page : EntryPathOf(i) \/ EntryHash(i) \/ EntryName(i)
  \/ Reply \/ ReplyCut

\* A handle carries the start of the server that issued it: after a restart the
\* client of the listing is refused.
Refused == used'["crash"] > used["crash"]

\* The tasks that have the id of a file they create.
Makers == {t \in Tasks : pc[t] \in CreateLabels \ {"look", "exists", "incr", "empty"}}

\* History: what the listing overlaps with, and what nothing disturbs meanwhile.
Watch(failed) ==
  LET kinds == {local[t].op : t \in Tasks} \ {None}
      still == {p \in Paths : Undisturbed(p)}
  IN  IF lister'.pc = "idle" THEN calm' = {} /\ overlap' = {} /\ making' = {}
      ELSE /\ calm' = still' \cap (IF lister.pc = "idle" THEN Paths ELSE calm)
           /\ overlap' = overlap \cup kinds'
                \cup (IF failed \/ used'["fault"] > used["fault"] THEN {"fault"} ELSE {})
           /\ making' = IF lister.pc = "idle" THEN {local[t].id : t \in Makers}' ELSE making

ListingStep ==
  /\ \/ /\ Next
        /\ begun => RoomForListing'
        /\ lister' = IF Refused THEN Closed ELSE lister
        /\ UNCHANGED begun
     \/ (\E i \in Ids : \E n \in PageSizes : Start(i, n)) /\ UNCHANGED vars
     \/ ReadPage /\ UNCHANGED <<vars, begun>>
  /\ Watch(FALSE)

ListingNext ==
  \/ ListingStep
  \/ ReadFail /\ UNCHANGED <<vars, begun>> /\ Watch(TRUE)

ListingSpec == ListingInit /\ [][ListingNext]_<<vars, listing>>

-----------------------------------------------------------------------------
(***************************************************************************)
(* Properties.                                                             *)
(***************************************************************************)

\* What has been read of an entry is there for the step that comes next.
ReadingOK(r) ==
  /\ r.at = "hash" => r.path # None
  /\ r.at \in {"name", "kept"} => r.type # None

\* The steps of a page have what they need, and what a page has is behind the
\* cookie while what was sent before is not: no id is listed twice.
ListingOK ==
  /\ DOMAIN lister.page \subseteq Ids /\ lister \in Listings(DOMAIN lister.page)
  /\ begun \in BOOLEAN /\ calm \subseteq Paths /\ overlap \subseteq Ops \cup {"fault"}
  /\ making \subseteq Ids \cup {None}
  /\ lister.pc # "idle" => lister.id # None
  /\ lister.pc \in {"members", "ids", "entries"} => lister.path # None
  /\ \A i \in DOMAIN lister.page : i > lister.after /\ ReadingOK(lister.page[i])
  /\ \A e \in lister.listed : e.id <= lister.after

\* What a client has been told when a reply says that it was the last one.
AtEof  == PageIsRead /\ Eof
Result == lister.listed \cup PageEntries

ChildrenIn(dir) == {p \in nodes \ {<<>>} : Parent(p) = dir}

EntryOf(p) == [id |-> pathToId[p], name |-> p[Len(p)], type |-> meta[p].type]

\* No request that overlapped, failed or was cut off has left anything in p.
Tidy(p) == \A q \in tainted : ~Related(p, q)

\* A listing that nothing overlapped with is the directory of the tree: each of
\* its names once, and no other.
LoneListingIsTheTree ==
  AtEof /\ overlap = {} /\ Tidy(lister.path) =>
    Result = {EntryOf(p) : p \in ChildrenIn(lister.path)}

\* However many files are made or written in the meantime: no name that was there
\* all along is missing when the listing ends, but one that is newer than a file
\* that was being made when the listing began.  The end is where a page is not
\* full, and an entry whose id has no path yet is left out of a page; what saves
\* the others is that they are older and come before it.
CreatesHideNothing ==
  AtEof /\ overlap \subseteq (Creates \cup {"commit"}) /\ Tidy(lister.path) =>
    \A p \in ChildrenIn(lister.path) \cap calm :
      (\A i \in making : pathToId[p] < i) => EntryOf(p) \in Result

\* Whatever goes on besides, and whatever fails: what is said of a file that
\* nothing has disturbed is true, and said of a file of this directory.
EntriesAreTrue ==
  PageIsRead => \A e \in Result : \A p \in calm :
    pathToId[p] = e.id => e = EntryOf(p) /\ Parent(p) = lister.path

\* A listing ends with an error only over a name that something has disturbed.
FailsOnlyOverDisturbed ==
  /\ lister.pc = "open" => \A p \in calm : idToPath[lister.id] = None => pathToId[p] # lister.id
  /\ lister.pc = "ids" => \A q \in lister.todo \cap calm : pathToId[q] # None

\* directory_ops.rs:154: "eof flag is only valid here if we wrote everything".  Then
\* a listing that has come to its end has every name that was there all along,
\* whatever other names were removed meanwhile.
EofMeansAll ==
  AtEof /\ "fault" \notin overlap /\ Tidy(lister.path) =>
    \A p \in ChildrenIn(lister.path) \cap calm : EntryOf(p) \in Result
=============================================================================
