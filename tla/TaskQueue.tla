------------------------------ MODULE TaskQueue ------------------------------
(***************************************************************************)
(* The engine's in-memory task queue (src/src/core/src/core/task.ts).      *)
(*                                                                         *)
(* JavaScript runs one callback at a time, but the queue is re-entrant:    *)
(* the drain loop and runTask emit bus events whose listeners, and the     *)
(* runner's synchronous prefix, may enqueue and cancel before the loop     *)
(* goes on.  The two program points at which that can happen are state:    *)
(*   draining  the drain loop is on the stack (the field of that name);    *)
(*   settling  runTask has set a task's outcome and is emitting it, and    *)
(*             has not reached its `finally' yet.                          *)
(* createEngine installs the runner before anything can enqueue            *)
(* (index.ts:296), so the "No task runner configured" branch is not here.  *)
(***************************************************************************)
EXTENDS Naturals, FiniteSets, SequencesExt

CONSTANTS
  Task,         \* the tasks ever enqueued; crypto.randomUUID never repeats one
  Ghost,        \* a dependency id that names no task of this queue
  NoTask,       \* no task is settling
  Concurrency,  \* loop.taskConcurrency
  Low           \* the number of the least urgent priority; 0 is urgent

ASSUME ConcurrencyAssumption == Concurrency \in Nat \ {0}
ASSUME LowAssumption == Low \in Nat
ASSUME NamesAssumption == Ghost \notin Task /\ NoTask \notin Task

VARIABLES
  queue,      \* queued tasks in arrival order (createdAt never runs backwards)
  running,    \* tasks holding a concurrency slot
  completed,  \* finished and cancelled tasks, oldest first; never trimmed
  status,     \* the status field of each task, "new" before it is enqueued
  prio,       \* PRIORITY_ORDER of the task's priority
  deps,       \* dependsOn
  draining,   \* the re-entrancy flag of drain
  settling,   \* the task whose outcome is being emitted, or NoTask
  announced,  \* history: the events emitted for each task, in order
  arrived     \* history: every task enqueued, in order

vars == <<queue, running, completed, status, prio, deps, draining, settling,
          announced, arrived>>

TaskStatus == {"queued", "running", "completed", "failed", "cancelled"}
Terminal == {"completed", "failed", "cancelled"}
TaskEvent == {"started", "completed", "failed", "cancelled"}
Priority == 0..Low

Init ==
  /\ queue = << >>
  /\ running = {}
  /\ completed = << >>
  /\ status = [t \in Task |-> "new"]
  /\ prio = [t \in Task |-> 0]
  /\ deps = [t \in Task |-> {}]
  /\ draining = FALSE
  /\ settling = NoTask
  /\ announced = [t \in Task |-> << >>]
  /\ arrived = << >>

\* Mutant: one outcome event per task, whatever happens after it.
AnnounceOnce(t, event) ==
  announced' = [announced EXCEPT ![t] = IF Len(@) >= 2 THEN @ ELSE Append(@, event)]

Announce(t, event) == announced' = [announced EXCEPT ![t] = Append(@, event)]

-----------------------------------------------------------------------------
(* What drain looks at. *)

\* Mutant: a dependency that failed or was cancelled counts as met.
AnyOutcomeMeets(t) == deps[t] \subseteq ToSet(completed)

\* A dependency counts only once it has left the queue with status completed.
AreDependenciesMet(t) ==
  \A d \in deps[t] : d \in ToSet(completed) /\ status[d] = "completed"

ReadyAt == {i \in DOMAIN queue : AreDependenciesMet(queue[i])}

\* Mutants: last come, first served; the filter before the sort forgotten.
LatestFirst(i, j) ==
  \/ prio[queue[i]] < prio[queue[j]]
  \/ prio[queue[i]] = prio[queue[j]] /\ i > j

\* The order of pickNextTask's sort: priority, then arrival.
RunsBefore(i, j) ==
  \/ prio[queue[i]] < prio[queue[j]]
  \/ prio[queue[i]] = prio[queue[j]] /\ i < j

IsFirstInQueue(i) == \A j \in DOMAIN queue \ {i} : RunsBefore(i, j)

IsNext(i) == i \in ReadyAt /\ \A j \in ReadyAt \ {i} : RunsBefore(i, j)

HasSlot == Cardinality(running) < Concurrency

-----------------------------------------------------------------------------
(* The public operations. *)

\* The caller can name tasks it enqueued earlier, or anything else.
Enqueue(t) ==
  /\ status[t] = "new"
  /\ \E p \in Priority, D \in SUBSET ({u \in Task : status[u] # "new"} \cup {Ghost}) :
       /\ prio' = [prio EXCEPT ![t] = p]
       /\ deps' = [deps EXCEPT ![t] = D]
  /\ queue' = Append(queue, t)
  /\ status' = [status EXCEPT ![t] = "queued"]
  /\ draining' = TRUE
  /\ arrived' = Append(arrived, t)
  /\ UNCHANGED <<running, completed, settling, announced>>

CancelQueued(t) ==
  /\ \E i \in DOMAIN queue : queue[i] = t /\ queue' = RemoveAt(queue, i)
  /\ completed' = Append(completed, t)
  /\ status' = [status EXCEPT ![t] = "cancelled"]
  /\ Announce(t, "cancelled")
  /\ UNCHANGED <<running, prio, deps, draining, settling, arrived>>

\* Only a mark, which the loop must notice; no event.
CancelRunning(t) ==
  /\ t \in running
  /\ status' = [status EXCEPT ![t] = "cancelled"]
  /\ UNCHANGED <<queue, running, completed, prio, deps, draining, settling, announced, arrived>>

\* Shutdown: everything queued leaves, everything running is marked.
CancelAll ==
  /\ queue # << >> \/ running # {}
  /\ queue' = << >>
  /\ completed' = completed \o queue
  /\ status' = [t \in Task |-> IF t \in ToSet(queue) \cup running THEN "cancelled" ELSE status[t]]
  /\ announced' = [t \in Task |-> IF t \in ToSet(queue) THEN Append(announced[t], "cancelled")
                                                         ELSE announced[t]]
  /\ UNCHANGED <<running, prio, deps, draining, settling, arrived>>

-----------------------------------------------------------------------------
(* The drain loop. *)

StartAt(i) ==
  /\ draining
  /\ HasSlot
  /\ IsNext(i)
  /\ queue' = RemoveAt(queue, i)
  /\ running' = running \cup {queue[i]}
  /\ status' = [status EXCEPT ![queue[i]] = "running"]
  /\ Announce(queue[i], "started")
  /\ UNCHANGED <<completed, prio, deps, draining, settling, arrived>>

Start == \E i \in DOMAIN queue : StartAt(i)

DrainEnds ==
  /\ draining
  /\ ~HasSlot \/ ReadyAt = {}
  /\ draining' = FALSE
  /\ UNCHANGED <<queue, running, completed, status, prio, deps, settling, announced, arrived>>

-----------------------------------------------------------------------------
(* runTask after `await this.runner(task)'.  It resumes from the event     *)
(* loop, so never inside a drain or inside another task's emission.        *)

Idle == ~draining /\ settling = NoTask

RunnerReturns(t) ==
  /\ Idle
  /\ t \in running
  /\ status' = [status EXCEPT ![t] = IF @ = "cancelled" THEN @ ELSE "completed"]
  /\ settling' = t
  /\ Announce(t, "completed")
  /\ UNCHANGED <<queue, running, completed, prio, deps, draining, arrived>>

RunnerThrows(t) ==
  /\ Idle
  /\ t \in running
  /\ status' = [status EXCEPT ![t] = "failed"]
  /\ settling' = t
  /\ Announce(t, "failed")
  /\ UNCHANGED <<queue, running, completed, prio, deps, draining, arrived>>

\* A listener of task:completed throws: the emission sits inside the try.
ListenerThrows(t) ==
  /\ settling = t
  /\ t \in Task
  /\ ~draining
  /\ Last(announced[t]) = "completed"
  /\ status' = [status EXCEPT ![t] = "failed"]
  /\ Announce(t, "failed")
  /\ UNCHANGED <<queue, running, completed, prio, deps, draining, settling, arrived>>

\* Mutant: nothing drains afterwards.
SettleWithoutDrain(t) ==
  /\ settling = t
  /\ t \in Task
  /\ ~draining
  /\ running' = running \ {t}
  /\ completed' = Append(completed, t)
  /\ settling' = NoTask
  /\ UNCHANGED <<queue, status, prio, deps, draining, announced, arrived>>

\* The `finally' block: free the slot, record the task, drain again.
Settle(t) ==
  /\ settling = t
  /\ t \in Task
  /\ ~draining
  /\ running' = running \ {t}
  /\ completed' = Append(completed, t)
  /\ settling' = NoTask
  /\ draining' = TRUE
  /\ UNCHANGED <<queue, status, prio, deps, announced, arrived>>

RunnerSettles(t) == RunnerReturns(t) \/ RunnerThrows(t)

Next ==
  \/ Start
  \/ DrainEnds
  \/ CancelAll
  \/ \E t \in Task :
       \/ Enqueue(t)
       \/ CancelQueued(t)
       \/ CancelRunning(t)
       \/ RunnerReturns(t)
       \/ RunnerThrows(t)
       \/ ListenerThrows(t)
       \/ Settle(t)

Spec == Init /\ [][Next]_vars

-----------------------------------------------------------------------------
(* The drain loop and the finally block are synchronous code, so they go   *)
(* on; a run is assumed to end one way or the other.                       *)

Fairness ==
  /\ WF_vars(Start)
  /\ WF_vars(DrainEnds)
  /\ \A t \in Task : WF_vars(RunnerSettles(t)) /\ WF_vars(Settle(t))

FairSpec == Spec /\ Fairness

-----------------------------------------------------------------------------
(* What must hold. *)

\* Every variable keeps its type.
TypeOK ==
  /\ queue \in Seq(Task)
  /\ running \in SUBSET Task
  /\ completed \in Seq(Task)
  /\ status \in [Task -> TaskStatus \cup {"new"}]
  /\ prio \in [Task -> Priority]
  /\ deps \in [Task -> SUBSET (Task \cup {Ghost})]
  /\ draining \in BOOLEAN
  /\ settling \in Task \cup {NoTask}
  /\ announced \in [Task -> Seq(TaskEvent)]
  /\ arrived \in Seq(Task)

\* list() and get() read three collections: a task enqueued once is in exactly
\* one of them, once, and its status says which.
OnePlace ==
  /\ IsInjective(queue)
  /\ IsInjective(completed)
  /\ \A t \in Task :
       /\ t \in ToSet(queue) <=> status[t] = "queued"
       /\ t \in ToSet(completed) => t \notin running /\ status[t] \in Terminal
       /\ t \in running => status[t] \in {"running"} \cup Terminal
       /\ status[t] \notin {"new", "queued"} => t \in running \cup ToSet(completed)

\* Re-entrant drains never start more tasks than there are slots.
ConcurrencyBound == Cardinality(running) <= Concurrency

\* A task that ever started did so after everything it depends on had
\* completed, and no later cancellation takes that back.
DependenciesHonoured ==
  \A t \in Task : "started" \in ToSet(announced[t]) => AreDependenciesMet(t)

\* No lost wake-up: when the event loop is idle, a free slot means nothing
\* in the queue could use it.
NoIdleSlot == Idle /\ HasSlot => ReadyAt = {}

\* FIFO within a priority, and no less urgent task overtakes: a task without
\* dependencies has left the queue by the time a later one that is not more
\* urgent starts.
FirstComeFirstServed ==
  \A i, j \in DOMAIN arrived :
    /\ i < j
    /\ deps[arrived[i]] = {}
    /\ prio[arrived[i]] <= prio[arrived[j]]
    /\ "started" \in ToSet(announced[arrived[j]])
    => arrived[i] \notin ToSet(queue)

\* The last event emitted for a run that completed or failed names that
\* outcome, whatever its listeners did.
OutcomeAnnounced ==
  \A t \in ToSet(completed) :
    status[t] \in {"completed", "failed"} => Last(announced[t]) = status[t]

\* What the proofs need besides: a settling task still holds its slot and its
\* event agrees with its status; nothing waiting has started; the queue keeps
\* the order of arrival.
SettlingHoldsSlot ==
  settling # NoTask =>
    /\ settling \in running
    /\ status[settling] \in Terminal
    /\ status[settling] # "cancelled" => Last(announced[settling]) = status[settling]

WaitingNotStarted ==
  \A t \in Task : status[t] \in {"new", "queued"} => "started" \notin ToSet(announced[t])

QueueKeepsArrivalOrder ==
  /\ IsInjective(arrived)
  /\ ToSet(arrived) = {t \in Task : status[t] # "new"}
  /\ \A i, j \in DOMAIN queue : \A a, b \in DOMAIN arrived :
       i < j /\ arrived[a] = queue[i] /\ arrived[b] = queue[j] => a < b

\* The inductive invariant.
IInv ==
  /\ TypeOK
  /\ OnePlace
  /\ ConcurrencyBound
  /\ DependenciesHonoured
  /\ NoIdleSlot
  /\ FirstComeFirstServed
  /\ OutcomeAnnounced
  /\ SettlingHoldsSlot
  /\ WaitingNotStarted
  /\ QueueKeepsArrivalOrder

\* A finished task stays finished, with the outcome it had.
OutcomeFixed ==
  [][\A t \in ToSet(completed) : t \in ToSet(completed') /\ status'[t] = status[t]]_vars

\* A queued task whose dependencies are met leaves the queue.
ReadyTaskLeaves ==
  \A t \in Task :
    t \in ToSet(queue) /\ AreDependenciesMet(t) ~> t \notin ToSet(queue)

\* The queue implements the lifecycle: a run keeps the stage "running" until
\* its slot is freed, whatever its status field says meanwhile.
Stage == [t \in Task |-> IF t \in running THEN "running" ELSE status[t]]

Lifecycle == INSTANCE TaskLifecycle WITH life <- Stage, needs <- deps, Slots <- Concurrency

ImplementsLifecycle == Lifecycle!Spec

=============================================================================
