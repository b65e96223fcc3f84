----------------------------- MODULE SubAgents ------------------------------
(***************************************************************************)
(* The sub-agent tools (src/src/core/src/tool/core-tools.ts) on the task   *)
(* queue: a run may enqueue a task of its own with spawn_agent, and may    *)
(* hold its slot in wait_for_agents, which polls the queue until the tasks *)
(* it names are over or its time is.  The tools do not know which run      *)
(* calls them: spawn_agent takes the first of the running tasks.           *)
(***************************************************************************)
EXTENDS TaskQueue

CONSTANT MaxSpawnDepth  \* MAX_SPAWN_DEPTH

ASSUME DepthAssumption == MaxSpawnDepth \in Nat

VARIABLES
  slots,    \* the running map in its insertion order
  depth,    \* metadata.agentDepth of each task
  nesting,  \* history: how deep a task really is, by the run that spawned it
  waitsFor, \* what a run that is in wait_for_agents waits for
  waited,   \* bound: a run waits once
  alone     \* history: no run has spawned while another held a slot

agentVars == <<slots, depth, nesting, waitsFor, waited, alone>>
allVars == <<vars, agentVars>>

InitAgents ==
  /\ Init
  /\ slots = << >>
  /\ depth = [t \in Task |-> 0]
  /\ nesting = [t \in Task |-> 0]
  /\ waitsFor = [t \in Task |-> {}]
  /\ waited = {}
  /\ alone = TRUE

Known == {t \in Task : status[t] # "new"}

-----------------------------------------------------------------------------
\* The queue's own steps, with the order of its running map.

\* A task from a user, a channel or a schedule; a dependency that names no task
\* is left to the queue's own run.
Submit(t) == Enqueue(t) /\ deps'[t] \subseteq Known /\ UNCHANGED agentVars

StartRun ==
  /\ \E i \in DOMAIN queue : StartAt(i) /\ slots' = Append(slots, queue[i])
  /\ UNCHANGED <<depth, nesting, waitsFor, waited, alone>>

SettleRun(t) ==
  /\ Settle(t)
  /\ \E i \in DOMAIN slots : slots[i] = t /\ slots' = RemoveAt(slots, i)
  /\ UNCHANGED <<depth, nesting, waitsFor, waited, alone>>

\* A run that waits in a tool cannot end.
Waiting(t) == waitsFor[t] # {}

ReturnRun(t) == ~Waiting(t) /\ RunnerReturns(t) /\ UNCHANGED agentVars
ThrowRun(t) == ~Waiting(t) /\ RunnerThrows(t) /\ UNCHANGED agentVars

Cancels == (CancelAll \/ \E t \in Task : CancelQueued(t) \/ CancelRunning(t)) /\ UNCHANGED agentVars

-----------------------------------------------------------------------------
\* The tools.  A tool call is an event of its own: no drain is on the stack.

\* Mutant: the last of the running tasks.
LatestRunning == slots[Len(slots)]

Caller == Head(slots)

\* Mutant: the limit is not looked at.
MaySpawnAlways == TRUE

MaySpawn == depth[Caller] < MaxSpawnDepth

\* spawn_agent, called by run c, maybe while another call of its plan waits: the
\* queue's enqueue with the caller's depth.
SpawnAgent(c, t) ==
  /\ Idle /\ c \in running
  /\ MaySpawn
  /\ Enqueue(t) /\ deps'[t] = {}
  /\ depth' = [depth EXCEPT ![t] = depth[Caller] + 1]
  /\ nesting' = [nesting EXCEPT ![t] = nesting[c] + 1]
  /\ alone' = (alone /\ running = {c})
  /\ UNCHANGED <<slots, waitsFor, waited>>

\* wait_for_agents begins: any tasks whose ids the run knows, itself among them.
WaitForAgents(c) ==
  /\ Idle /\ c \in running \ waited
  /\ \E ids \in (SUBSET Known) \ {{}} : waitsFor' = [waitsFor EXCEPT ![c] = ids]
  /\ waited' = waited \cup {c}
  /\ UNCHANGED <<vars, slots, depth, nesting, alone>>

Over(t) == status[t] \in Terminal

\* A poll that finds them all over.
WaitAnswered(c) ==
  /\ Idle /\ Waiting(c)
  /\ \A t \in waitsFor[c] : Over(t)
  /\ waitsFor' = [waitsFor EXCEPT ![c] = {}]
  /\ UNCHANGED <<vars, slots, depth, nesting, waited, alone>>

\* Mutant: the time is looked at only while one of the tasks is running.
WaitTimesOutWhenRunning(c) ==
  /\ Idle /\ Waiting(c)
  /\ \E t \in waitsFor[c] : ~Over(t)
  /\ waitsFor[c] \cap running # {}
  /\ waitsFor' = [waitsFor EXCEPT ![c] = {}]
  /\ UNCHANGED <<vars, slots, depth, nesting, waited, alone>>

\* timeout_ms has passed.
WaitTimesOut(c) ==
  /\ Idle /\ Waiting(c)
  /\ \E t \in waitsFor[c] : ~Over(t)
  /\ waitsFor' = [waitsFor EXCEPT ![c] = {}]
  /\ UNCHANGED <<vars, slots, depth, nesting, waited, alone>>

RunEndsSomehow(t) == ReturnRun(t) \/ ThrowRun(t)
WaitEnds(t) == WaitAnswered(t) \/ WaitTimesOut(t)

NextAgents ==
  \/ StartRun
  \/ DrainEnds /\ UNCHANGED agentVars
  \/ Cancels
  \/ \E t \in Task :
       \/ Submit(t)
       \/ RunEndsSomehow(t)
       \/ SettleRun(t)
       \/ WaitForAgents(t)
       \/ WaitEnds(t)
       \/ \E c \in Task : SpawnAgent(c, t)

\* The queue's own fairness; a wait ends at the latest with its time.
FairnessAgents ==
  /\ WF_allVars(StartRun)
  /\ WF_allVars(DrainEnds /\ UNCHANGED agentVars)
  /\ \A t \in Task :
       WF_allVars(RunEndsSomehow(t)) /\ WF_allVars(SettleRun(t)) /\ WF_allVars(WaitEnds(t))

SpecAgents == InitAgents /\ [][NextAgents]_allVars /\ FairnessAgents

-----------------------------------------------------------------------------
\* The depth on record never passes the limit, and it is the real one as long
\* as every spawn was made by the only run that held a slot.
DepthIsRealWhenAlone ==
  \A t \in Task :
    /\ depth[t] <= MaxSpawnDepth
    /\ alone => depth[t] = nesting[t] /\ nesting[t] <= MaxSpawnDepth

\* What the proof needs besides: slots is the running map in some order, so its
\* head is the caller when one run holds a slot.
DepthInv ==
  /\ slots \in Seq(Task) /\ IsInjective(slots) /\ ToSet(slots) = running
  /\ depth \in [Task -> Nat] /\ nesting \in [Task -> Nat] /\ alone \in BOOLEAN
  /\ waitsFor \in [Task -> SUBSET Task] /\ waited \in SUBSET Task
  /\ DepthIsRealWhenAlone

\* ReadyTaskLeaves of the queue is checked of this system too: runs that wait
\* for tasks which need their slot, for each other or for themselves still give
\* the slot back, so that no ready task waits in the queue for ever.

=============================================================================
