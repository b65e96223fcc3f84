----------------------------- MODULE MCSubAgents ----------------------------
(***************************************************************************)
(* Three tasks, two slots and a limit of one level, which a chain of three *)
(* passes.  Tasks are numbered in the order they are enqueued in: a fresh  *)
(* id is as good as another, and symmetry is not sound for liveness.       *)
(***************************************************************************)
EXTENDS SubAgents

InOrder == \A t, u \in Task : u < t /\ status'[t] # "new" => status'[u] # "new"

MCSpec == InitAgents /\ [][NextAgents /\ InOrder]_allVars /\ FairnessAgents

=============================================================================
