---------------------------- MODULE NamespaceTree ----------------------------
(***************************************************************************)
(* Namespace with the tree that its clients have been shown: the files     *)
(* that the store held when no request was at work on them last.  It is    *)
(* there to show that the requests of any number of clients, and the       *)
(* commits of the monitor beside them, take effect like the operations of  *)
(* module FileTree as long as they do not meet.                            *)
(***************************************************************************)
EXTENDS Listing

ASSUME NamespaceTreeAssumption == None \notin [type : Types, id : Ids, content : BOOLEAN]

VARIABLE shown   \* history: the files that were there when nobody was at work on them

\* What lookup, getattr and read make of the store.
TreeOfStore ==
  [p \in Paths |->
     IF pathToId[p] = None THEN None
     ELSE [type    |-> meta[idToPath[pathToId[p]]].type,
           id      |-> pathToId[p],
           content |-> data[idToPath[pathToId[p]]] = pathToId[p]]]

\* The requests that ran at the same time named paths apart from each other, none above
\* another, and each got all of its calls through.
Smooth == tainted = {}

TreeInit == ListingInit /\ shown = TreeOfStore

\* What a request has done to its paths shows when it ends.
Show ==
  shown' = IF Smooth'
           THEN [p \in Paths |-> IF \E t \in Tasks : Covers(t, p)'
                                THEN shown[p] ELSE TreeOfStore'[p]]
           ELSE shown

TreeNext == ListingNext /\ Show

TreeSpec == TreeInit /\ [][TreeNext]_<<vars, listing, shown>>

\* Until two requests meet, a call fails in the middle of one or the server stops in it,
\* every request takes effect as a whole, or not at all, however its steps interleave
\* with those of others: nothing is lost, left behind or changed beside what it names,
\* no name appears without what it is in, and a rename carries ids and contents along.
Tree == INSTANCE FileTree WITH tree <- shown

RequestsAreWhole == Tree!Spec
=============================================================================
