------------------------------ MODULE FileTree ------------------------------
(***************************************************************************)
(* What the name operations of SharesFS promise to clients whose requests  *)
(* do not meet: a tree of files in which every operation happens as a      *)
(* whole.  A file has a type, an id that no other file has, and the        *)
(* content that was written to it; files of every type can have others in  *)
(* them.                                                                   *)
(***************************************************************************)
EXTENDS Naturals, Sequences

CONSTANTS Paths, Ids, Types, None

VARIABLE tree   \* [Paths -> File \cup {None}]

File == [type : Types, id : Ids, content : BOOLEAN]

Parent(p)    == SubSeq(p, 1, Len(p) - 1)
Prefix(p, q) == Len(p) <= Len(q) /\ SubSeq(q, 1, Len(p)) = p

There(p) == tree[p] # None

Init == tree = [p \in Paths |-> None]

\* The directory that is mounted.
Mount(i) ==
  /\ ~There(<<>>)
  /\ tree' = [tree EXCEPT ![<<>>] = [type |-> "dir", id |-> i, content |-> FALSE]]

Make(p, type, i) ==
  /\ p # <<>> /\ There(Parent(p)) /\ ~There(p)
  /\ \A q \in Paths : There(q) => tree[q].id # i
  /\ tree' = [tree EXCEPT ![p] = [type |-> type, id |-> i, content |-> FALSE]]

Remove(p) ==
  /\ p # <<>> /\ There(p)
  /\ \A q \in Paths : There(q) /\ Prefix(p, q) => q = p
  /\ tree' = [tree EXCEPT ![p] = None]

\* All that is at or below p is at or below q afterwards, in place of what was
\* at q.
Rename(p, q) ==
  /\ p # <<>> /\ There(p) /\ There(Parent(q)) /\ ~Prefix(p, q)
  /\ LET old(r) == p \o SubSeq(r, Len(q) + 1, Len(r))
     IN  tree' = [r \in Paths |->
                    IF Prefix(q, r) /\ old(r) \in Paths THEN tree[old(r)]
                    ELSE IF Prefix(p, r) THEN None ELSE tree[r]]

Write(p) ==
  /\ There(p)
  /\ tree' = [tree EXCEPT ![p].content = TRUE]

Next ==
  \/ \E i \in Ids : Mount(i)
  \/ \E p \in Paths, type \in Types, i \in Ids : Make(p, type, i)
  \/ \E p \in Paths : Remove(p) \/ Write(p)
  \/ \E p, q \in Paths : Rename(p, q)

Spec == Init /\ [][Next]_tree
=============================================================================
