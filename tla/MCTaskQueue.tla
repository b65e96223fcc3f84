----------------------------- MODULE MCTaskQueue -----------------------------
(***************************************************************************)
(* The task queue on a small instance: every interleaving of three tasks   *)
(* over two slots and two priorities.                                      *)
(***************************************************************************)
EXTENDS TaskQueue

CONSTANTS t1, t2, t3

\* No operator tells the tasks apart.
Symmetry == Permutations({t1, t2, t3})

=============================================================================
