----------------------------- MODULE MCNamespace -----------------------------
(***************************************************************************)
(* Small instances of Namespace: two names at the top, each of which can   *)
(* be a directory with one name in it.                                     *)
(***************************************************************************)
EXTENDS NamespaceInvariant, TLC

CONSTANTS a, b, x, t1, t2

SmallPaths == {<<>>, <<a>>, <<b>>, <<a, x>>, <<b, x>>}

\* The tasks are alike, and so are the two names.
Symmetry == {s @@ r : s \in Permutations(Tasks), r \in Permutations({a, b})}

Bounds(n, f, r, k) == [request |-> n, fault |-> f, recount |-> r, crash |-> k]

TwoRequests   == Bounds(2, 0, 0, 0)
FourAndFault  == Bounds(4, 1, 0, 0)
OneFault      == Bounds(5, 1, 0, 0)
OneOfEach     == Bounds(6, 1, 1, 1)
=============================================================================
