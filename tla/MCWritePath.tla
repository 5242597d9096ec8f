----------------------------- MODULE MCWritePath -----------------------------
(***************************************************************************)
(* WritePath for TLC: the files there are at the start and the bounds of   *)
(* each run.                                                               *)
(***************************************************************************)
EXTENDS WritePathInvariant, TLC

CONSTANTS f1, f2, p1, p2, t1, t2

OneFile  == (f1 :> p1)
TwoFiles == (f1 :> p1 @@ f2 :> p2)
OneOfTwo == (f1 :> p1 @@ f2 :> None)

Bounds(w, r, s, d, c, e, x) ==
  ("write" :> w @@ "read" :> r @@ "setattr" :> s @@ "remove" :> d @@ "create" :> c
     @@ "fault" :> e @@ "crash" :> x)

\* Writes, reads, a removal and a restart.
CommitBounds  == Bounds(2, 1, 0, 1, 0, 0, 1)
\* Files that come and go, metadata that is set, and a failing call of the store.
RemoveBounds  == Bounds(2, 0, 1, 1, 1, 1, 0)
\* What liveness is checked on.
LiveBounds    == Bounds(2, 1, 0, 1, 0, 1, 0)
\* One client.
ClientBounds  == Bounds(3, 0, 0, 0, 0, 0, 0)

Symm == Permutations({t1, t2})
=============================================================================
