---------------------------- MODULE TaskLifecycle ----------------------------
(***************************************************************************)
(* What the task queue promises, without its queue: a task is submitted    *)
(* with the tasks it needs, starts at most once, holds one of Slots while  *)
(* it runs, and ends in one final outcome it keeps.                        *)
(***************************************************************************)
EXTENDS Naturals, FiniteSets

CONSTANTS Task, Ghost, Slots

VARIABLES life, needs

lifeVars == <<life, needs>>

Outcome == {"completed", "failed", "cancelled"}
Stage == {"new", "queued", "running"} \cup Outcome

Init ==
  /\ life = [t \in Task |-> "new"]
  /\ needs = [t \in Task |-> {}]

Move(t, stage) == life' = [life EXCEPT ![t] = stage]

Submit(t) ==
  /\ life[t] = "new"
  /\ Move(t, "queued")
  /\ \E D \in SUBSET ((Task \cup {Ghost}) \ {t}) : needs' = [needs EXCEPT ![t] = D]

Start(t) ==
  /\ life[t] = "queued"
  /\ Cardinality({u \in Task : life[u] = "running"}) < Slots
  /\ \A d \in needs[t] : d \in Task /\ life[d] = "completed"
  /\ Move(t, "running")
  /\ UNCHANGED needs

\* Any set of waiting tasks can be withdrawn at once: shutdown takes them all.
Withdraw ==
  /\ \E T \in SUBSET {t \in Task : life[t] = "queued"} :
       life' = [t \in Task |-> IF t \in T THEN "cancelled" ELSE life[t]]
  /\ UNCHANGED needs

Finish(t) ==
  /\ life[t] = "running"
  /\ \E o \in Outcome : Move(t, o)
  /\ UNCHANGED needs

Next ==
  \/ Withdraw
  \/ \E t \in Task : Submit(t) \/ Start(t) \/ Finish(t)

Spec == Init /\ [][Next]_lifeVars

=============================================================================
