--------------------------- MODULE MCProjectTasks ---------------------------
(***************************************************************************)
(* Two calls in flight on two tasks of one file.                           *)
(***************************************************************************)
EXTENDS ProjectTasks, TLC

CONSTANTS w1, w2, t1, t2

Symmetry == Permutations({w1, w2}) \cup Permutations({t1, t2})

=============================================================================
