--------------------------- MODULE MCContextBudget ---------------------------
(***************************************************************************)
(* Every conversation of up to four messages after an opening user         *)
(* message, over the kinds of message the passes tell apart.               *)
(***************************************************************************)
EXTENDS ContextBudget, SequencesExt

CONSTANT MaxLen

Kind == {[role |-> "user", seen |-> "recent", size |-> "long"],
         [role |-> "brain", seen |-> "recent", size |-> "short"],
         [role |-> "brain", seen |-> "recent", size |-> "long"],
         [role |-> "tool_result", seen |-> "old", size |-> "short"],
         [role |-> "tool_result", seen |-> "old", size |-> "long"],
         [role |-> "tool_result", seen |-> "unseen", size |-> "long"],
         [role |-> "error", seen |-> "recent", size |-> "short"]}

Opening == [role |-> "user", seen |-> "recent", size |-> "long"]

MCInput == {<<Opening>> \o s : s \in BoundedSeq(Kind, MaxLen)}

MCBudgets == {-1, 3, 9, 16}

MCCost == [short |-> 1, cut |-> 2, long |-> 6]

=============================================================================
