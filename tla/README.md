# A TLA+ development for OpenVole

OpenVole is an agent engine: a queue of tasks, a loop that runs each of them
against a language model and its tools, plug-ins ("Paws") in subprocesses, a
control plane that supervises many such engines, and a peer-to-peer network
("VoleNet") between machines. This directory models the parts of it whose
correctness depends on order, limits, races and crashes. TLC checks every model
on a small instance; TLAPS proves the safety properties that the runs check, and
that the queue implements its abstract specification, for instances of every size.
What remains with TLC alone is liveness, and one safety property for a file that is
accepted more than once.

Paths below are relative to `src/src/` unless they start with `docs/`.

    tlc -workers 2 -config MCTaskQueue.cfg MCTaskQueue     check a run
    tlapm TaskQueue_proof.tla                              check the proofs

## 1. The system

Everything in one engine runs on one JavaScript thread, so a stretch of code
without an `await` is atomic. What makes it hard is what happens *at* an
`await`, inside a synchronous event listener, and between processes: the
engine, the control plane and the command line are processes of their own that
share files, and VoleNet peers share nothing but messages.

| Component (code) | State | Operations | Talks to | What is hard |
|---|---|---|---|---|
| Task queue (`core/src/core/task.ts`) | queue, running map, completed list, `draining` flag | enqueue, cancel, cancelAll, drain, runTask | emits on the bus; calls the agent loop | listeners re-enter it while it drains; a listener that throws; cancelling only marks a running task |
| Sub-agent tools (`tool/core-tools.ts`) | none of their own | spawn_agent, get_agent_result, wait_for_agents | task queue | who the caller is; waiting while holding a slot |
| Agent loop (`core/loop.ts`) | counters, two copies of the conversation | perceive, think, confirm, act, one exit per limit | Paws, tools, rate limiter, context budget | limits that share counters; which array a note is written to |
| Context budget (`core/context-budget.ts`) | an array, a token counter kept by hand | trimMessages | called by the loop | positions of one array used on another |
| Rate limiter (`core/rate-limiter.ts`) | timestamps per bucket | tryConsume | two gates in the loop | the boundary of the window; two gates in a row |
| Scheduler (`core/scheduler.ts`) | map of schedules, a file, a write chain | add, cancel, restore, persist, stop | task queue, tools, heartbeat | a restart between change and write; changes before the restore |
| Project tasks (`project/tasks.ts`) | an append-only file, last line wins | create, update, chargeIterations | several processes | read, check and append are apart; torn lines |
| Control plane (`agent/control-plane.ts`) | the process, pending requests and ready promise of each agent | startAgent, stopAgent, removeAgent, callAgent, child messages and exits, shutdown | agent manager, engines over IPC, dashboard | awaits inside start and remove; an old process and a new one under one name |
| Agent messaging (`agent/control-adapter.ts`, `control-plane.ts`, `core/reply-address.ts`, `tool/agent-chat-tool.ts`) | hop count and reply address in a task's metadata | agent_message, agent_submit, answers of finished runs | control plane | answers wake runs that answer; what ends the exchange |
| VoleNet transport and discovery (`volenet/src/transport.ts`, `discovery.ts`) | sockets, peer entries | connect, adopt, announce, health check | every part of VoleNet | two nodes dialling at once; half-open sockets |
| VoleNet leader (`leader.ts`) | leader, heartbeats | elect, monitor | discovery | a dead leader; one that comes back |
| VoleNet remote tasks (`remote-task.ts`, `result-outbox.ts`) | pending requests; held answers | delegate, answer, hold, flush | transport | late and early answers; an asker that is gone |
| VoleNet relayed chat (`chat-outbox.ts`, `index.ts`) | outbox, requests in flight | send, verdict, hold, flush | hub, member | loss, repetition and order across restarts |
| VoleNet files (`files.ts`, `blob-store.ts`) | a record of the transfer at each side, tokens, blobs | offer, accept, pull, push, relay, verify, cancel, sweep | hub, HTTP | three routes, retries, ends that cross a request |
| IPC and Paw registry (`core/ipc.ts`, `paw/registry.ts`, `paw/loader.ts`) | pending requests, handlers, health | request, load, unload, crash | Paw subprocesses, tool registry | a crash while a request waits |
| Tool and skill registries (`tool/registry.ts`, `skill/`) | maps | register, unregister, resolve | loop, Paws | names that collide |
| Project store and files (`project/store.ts`, ...) | a manifest per project | create, update, archive | dashboard, tools | read-change-rename without a lock |
| Agent manager (`agent/manager.ts`) | registry file, runtime file per agent | create, start, stop, remove, rename | command line, control plane | read-change-write by several processes; pid reuse |
| Event log (`agent/event-log.ts`) | a promise chain, a stream per day | append, rotate, close | control plane | a stream that has failed |
| VoleNet rooms and sync (`rooms.ts`, `sync.ts`) | membership, keys seen | join, leave, post, sync | hub, members | repetition |
| VoleNet for editors (`volenet-mcp/src`) | an append-only inbox, a cursor per session | append, read, watch | a daemon per identity | several processes on one file |

The command line, the dashboard page and server, the prompt builder, the
configuration loader, the vault, the permission flags of a Paw, the Paw SDK and the
cryptography complete the list. `PROJECT.json` names every component with its
status, and every place where the code is hard to test, with the property that
watches it.

What makes each component correct, and is checked here:

* **Task queue** - no ready task waits beside a free slot; dependencies and arrival
  order are honoured; an outcome is announced and stays; it implements the life
  of a task as others rely on it.
* **Sub-agents** - the depth of a task is bounded; runs that wait for one another
  still give their slots back.
* **Agent loop** - every limit limits, a cancelled run stops using tools, what the
  loop tells the Brain reaches the Brain, and every run ends, unless no limit on tool
  executions is configured and calls never made before succeed again and again.
* **Context budget** - the counter is the estimate of the array; trimming fits
  the budget or has nothing left to remove; what is protected survives.
* **Scheduler** - the file follows memory, and a restart brings back what was saved.
* **Project tasks** - nothing is done without verification; a spent budget stops a
  task; a crash in an append costs at most two updates.
* **Control plane** - one engine per agent, on record; requests settle, with the
  answer of the process that was asked; removed is removed.
* **Messaging** - an exchange between agents ends; whoever waits is told once, in
  their own chat; no window sees more calls of a Brain than its limit for each engine
  that ran in it.
* **VoleNet** - two nodes settle on one socket and one leader; an answer or message
  is delivered or still kept, in order, and what is kept leaves; a file that is
  reported as sent has arrived, whole and once for each time it was accepted, and
  every offer ends.

## 2. The modules

| Module | Models | Code |
|---|---|---|
| `TaskLifecycle` | what a task queue promises: stages of a task, slots, dependencies | abstract specification |
| `TaskQueue` | the whole class | `core/src/core/task.ts` |
| `SubAgents` | the sub-agent tools; EXTENDS `TaskQueue` | `core/src/tool/core-tools.ts` |
| `AgentLoop` | `runAgentLoop`, `runThink`, `runAct` | `core/src/core/loop.ts` |
| `ContextBudget` | `trimMessages` | `core/src/core/context-budget.ts` |
| `RateLimiter` | the limiter and the two gates before the Brain | `core/src/core/rate-limiter.ts`, `loop.ts` |
| `AgentMessages` | agents of one server that talk | `agent/control-adapter.ts`, `control-plane.ts`, `tool/agent-chat-tool.ts`, `core/reply-address.ts` |
| `AgentTraffic` | composes `AgentMessages` and `RateLimiter` | the same |
| `Scheduler` | schedules, their file, start and stop of the engine | `core/src/core/scheduler.ts`, `core/src/index.ts` |
| `ControlPlane` | supervision of the engine of one agent | `core/src/agent/control-plane.ts` |
| `ProjectTasks` | the task log | `core/src/project/tasks.ts`, `types.ts` |
| `FileTransfer` | one transfer at sender, receiver and hub | `volenet/src/files.ts`, `blob-store.ts` |
| `ChatRelay` | sealed chat through a hub, and the sender's outbox | `volenet/src/index.ts`, `chat-outbox.ts` |
| `RemoteTasks` | delegated tasks and tool calls, and the worker's outbox | `volenet/src/remote-task.ts`, `index.ts`, `result-outbox.ts` |
| `Mesh` | the socket of two nodes, discovery, election | `volenet/src/transport.ts`, `discovery.ts`, `leader.ts`, `index.ts` |
| `TaskQueue_proof`, `AgentLoop_proof`, `AgentTraffic_proof`, `ControlPlane_proof`, `Stores_proof`, `FileTransfer_proof`, `ChatRelay_proof`, `VoleNet_proof` | the theorems and their proofs (section 4) | |

A definition that would share its name with one of another module in the same
proof file carries its module's: `SchedulerSpec`, `MeshSpec`, `BudgetSpec`.

Each `MC...` module gives a specification its small instance. Definitions whose
comment begins with "Mutant" are plausible bugs of the code, kept beside what
they mutate; no specification uses them. Variables that say "history" in their
comment exist for a property only.

**TaskQueue.** `queue`, `running`, `completed`, `draining` are the fields of the
class; `status`, `prio` and `deps` are fields of its tasks. `settling` is a
program point: `runTask` has set an outcome and is emitting it, and its
`finally` has not run. `draining` is the other point at which foreign code runs.
At both, a listener (or the synchronous prefix of a runner) may enqueue and
cancel, so `Enqueue`, `CancelQueued`, `CancelRunning` and `CancelAll` are enabled
there too; other runs cannot end while the drain loop or a settlement is on the
stack. One iteration of the drain loop is `Start`, leaving it is `DrainEnds`; a
run ends by `RunnerReturns` or `RunnerThrows`; a listener of `task:completed`
that throws is `ListenerThrows`, which sends the code into its `catch` and turns
the task into a failed one; `Settle` is the `finally`. `announced` and `arrived`
are history. The warning of the tasksPerHour limiter changes nothing and is not
there. Two listeners that throw are not modelled: one of `task:started` would leave
`drain` with a task that holds a slot and has no runner, and one of `task:queued`
(`task.ts` 106) would skip the drain of `enqueue` (107), so that the new task
waits beside a free slot until the next event. No listener in the repository throws
there.

**TaskLifecycle.** One stage per task: new, queued, running, an outcome. The
refinement maps a task that is in `running` to the stage "running" whatever its
status field already says, because the slot is what others see.

**SubAgents.** The queue's steps, with the insertion order of the running map,
since spawn_agent takes the first running task for its caller. A run may spawn,
and may hold its slot in wait_for_agents (`waitsFor`) until the tasks it names are
over or its time is; other calls of the same parallel plan (`loop.ts` 835) may spawn
meanwhile. `nesting` is how deep a task really is; `alone` says that no
run has spawned while another held a slot.

**AgentLoop.** `phase` is the await a run stands at; `idle`, `brainFailures`,
`noResponse`, `calls`, `executed` are the counters of the function. `notes` and
`enriched` are the two message arrays, `shared` says whether they are one: they
are, until a Paw answers over IPC or compaction or trimming make a copy, and
`NextIteration` copies back only where the code does. Only the notes the loop
itself writes are kept. A plan is a function from positions to calls, so that
the limits count within a batch. The limit on the tool executions of a task is chosen
in `Init` and may be `NoLimit`, which is the code's default. A call in `New` stands for
one that was never made before: however often it is made, no counter of repetitions
fills. Every exit and every `continue` of the body is
an action of its own; `Cancel` is `TaskQueue.cancel` from outside.

**ContextBudget.** One action per pass, each followed by the code's early
return. A message is its role, whether the Brain has seen it, and whether its
text is short, long or already cut. Positions are positions, as in the code:
`Protected` is computed from the array as it came. A loop that stops on the counter is
the function `Left` (the counter after each position) with the positions it changed,
`Reached`; a filter is the function `Rest`.

**RateLimiter, AgentMessages, AgentTraffic.** A bucket holds ages instead of
timestamps, so that time can pass for ever in a finite model; an age stops
growing at the window, where it counts as expired. The limiter is in memory and made
with its engine, so that a restart empties the buckets (`NewLimiter`); the history
`restarts` has the ages of the restarts that a window can still see, because calls of
two engines can share it. The call of the Brain that compacts an agent's chat
(`control-adapter.ts` 482) passes neither gate: it is not in the model, and not what
`CallsWithinLimits` counts. `run` holds the runs that wait
for their Brain, run, or have an answer on its way: the agent, whom it answers,
how many hops are on record, and whether a person waits. A message arrives in the
step that sends it or is lost. `Answers` and `CarriesAnswer` are the end of a run
and the plane's `deliverAgentReply`, which has to ask the engine for the facts of
the run and falls back to zero hops when they are gone. `AgentTraffic` puts the two
gates before every call of the Brain of one agent.

**Scheduler.** `schedules` is memory, `chain` the promise chain of whole-list
writes, `file` what the disk holds (torn while a write is in progress and the
process dies). A start brings Paws up before it restores, so that a tool can
change schedules before and during the restore. A write may fail; its error is caught and the chain goes
on (`WriteFails`). `sure` is what a finished write has saved for each id, `loose` the
ids that memory changed without a write, or whose last write failed.

**ControlPlane.** One agent and the processes it ever has. `startAgent` is two
actions around its await (`StartChecks`, then `StartSpawns` or `StartFails`);
`removeAgent` of a running agent is `RemoveRunning` and, when the process has
ended, `RemovePurges`, or `RemoveGivesUp` when its timer of 5.5 s was first. A start
knows its agent by the id, as its callers do. `callAgent` registers a request when the engine is ready
or after the fallback timer. `onChildExit` clears what is on record for the agent,
whoever that is; `shutdown` tells the process on record to end and leaves the
requests to their timers. `Writes` and `Dies` are the engine itself and external.
`orderly` is chosen once in `Init`: in orderly behaviours a start, stop or removal
waits until the one before has taken effect, in the others it does not.

**ProjectTasks.** The file is a sequence of lines, a call is read-and-check
followed by an append, and the await between them is where another call goes.
`chargeIterations` reads, decides on the sum and on the deadline, and calls `update`,
which reads again. `Tears` is a process dying in its append; the next append is then
glued to the torn line and both are unreadable. `TearsAtEnd` is the same just before the
newline: that line can be read until the next append is glued to it. `tail` is how the
file ends, and the history `spoiled` names the tasks that lost a readable line. `serial`,
chosen once, says whether calls overlap.

**FileTransfer.** `snd` and `rcv` are the two records of `transfers`. Each time the
offer is accepted, which the user can do again while the first accept is still probing the
sender, begins a `loop` of its own at the receiver: the probe, then pulls, then a
verification and rename. A pull's token belongs to the accept that made it. `post` is the
receiver's end of each POST, `file` what is in each inode that a request writes (a path
is unlinked or replaced while a stream still has the old file open), `fin` the
verification and rename after a POST, which nobody awaits: what it throws ends the
process. `hub` the blob with its tokens, `net` the control messages under way, lost
or overtaken at will. The catch blocks, retries and fallbacks of `runPull`,
`runPush`, `runRelayUpload` and `runRelayDownload` are actions of their own, and so
are the sweeps and the restart of either side. `overlap` records that the receiver
served two requests of the transfer at once. Left out are: a hub's ready message that
is handled while a second accept is between its probe and its first request; the second chain of
POSTs that a second pull starts by giving up; a hub that is asked for chunks past the end;
and a writer that goes on writing into a file after another request has saved it. A file
that two requests write at once is taken for spoiled.

**ChatRelay.** `up` and `down` are the ordered links between sender and hub;
`outbox` and `flush` are the outbox and the pass that is sending it, with the await
it stands at; `writer` is each `persist` in progress, which share a temporary file.
`past` is history: messages whose verdict timed out or whose member's connection
was dead (`doubt`), which were refused or expired (`ended`), that a roster came at a
moment at which nobody acts on it (`missed`), and that two writes met (`raced`).

**RemoteTasks.** `asked` is `pending` at the asker, `job` the task at the worker,
`outbox`, `flush`, `writer` and `file` as above, with the cap per peer. `past.lost`
names the answers that went into a dead connection, came before the asker had
entered its wait, were beyond the cap, or were in the outbox when the worker went
down in the middle of a write. Any message of the asker that verifies starts a flush
(`OnMessage`), also one that came while the way back is lost. Of two writes that overlap,
the older list may be the one that stays.

**Mesh.** Two nodes. A socket has a state at each end, because each end learns of
its opening and closing by events of its own; `adopt` is `Binds`, which keeps or
drops a socket by the rule of the lower id. A connection can be `cut` without a
sign, which only the ping timer notices; a dial outlives the peer entry it was
made for (`stale`). `inst` is discovery's table and `Elects` is what `electLeader`
returns from it.

## 3. The runs

| Run | Distinct states | What it shows |
|---|---|---|
| `task_queue` | 263,975 | no idle slot, order, dependencies, outcomes announced; the queue implements `TaskLifecycle` |
| `sub_agents` | 277,612 | the depth on record is bounded, and real when runs spawn one at a time; ready tasks leave the queue although runs wait inside their slots |
| `agent_loop` | 894,408 | stuck calls, cancellation, giving up in exactly MaxIterations fruitless iterations, notes arrive; every run ends that has a limit on tool executions, or no call that was never made before |
| `context_budget` | 65,867 | the counter is exact; trimming fits or has nothing left; what is protected is kept if no error is filtered out |
| `agent_traffic` | 156,418 | the depth on record is the true one, one answer at home, no window exceeds its limit, per engine that ran in it; the exchange ends |
| `scheduler` | 165,574 | once writes have drained the file is what memory holds; a restart keeps what is saved |
| `control_plane` | 95,584 | every request settles; in orderly behaviours one engine, the right answers, and a removed directory stays gone if the process ended in time |
| `project_tasks` | 3,273,436 | done was verified however calls race; budgets stop a task when calls do not overlap; a torn append costs at most two updates |
| `file_transfer` | 1,327,471 | sent means saved, saved whole and once per accept if requests do not overlap, no token after the end; every offer ends on both sides and the hub |
| `chat_relay` | 1,096,312 | what the user was told is true; what waits arrives in order and leaves |
| `remote_tasks` | 444,892 | an answer reaches its asker or is kept; what is kept leaves |
| `mesh` | 246,813 | one socket per pair; after the last fault both hold it, and agree on the leader |

The type invariants are not in the configurations: they are part of the inductive
invariants of section 4, which were checked on the same instances before they were
proved.

**Bounds and why they are enough.** *Task queue:* three tasks over two slots give
one task waiting while both slots change hands, every dependency graph on three
tasks (and a dependency on an id nobody has), two priorities, and re-entrant
enqueue and cancel at every program point. *Sub-agents:* three tasks and a limit of
one level, which a chain of three passes; waits for a task behind the waiter, for
itself and in a circle all occur. Tasks are numbered in the order they arrive in,
instead of a symmetry, which liveness does not allow. *Agent loop:* three calls, one
of them denied and one new each time, plans of up to two calls, and limits of two or three
(of tool executions: three or none), so that every limit is met by a batch that lies
across it. *Context budget:* an opening message
and four more contain every order of the roles the passes tell apart, under a
budget below zero (the prompt alone is too long), one nothing fits, one some fit and
one most fit; errors are old after 2 and
texts after 3 messages instead of 5 and 8, so that both lie within such a
conversation. *Agent traffic:* two agents, a budget of two hops where the code has
a larger constant, one question from outside and two extras (messages of a run's own
accord, or failures); windows of two and three ticks with one call each, so that
each gate is the one that refuses somewhere. A budget of three hops was checked
once for the invariants. *Scheduler:* two ids, two contents, three changes, two
stops: a change, its write and the next change fall on either side of a stop.
*Control plane:* two processes are an engine and its replacement; with two requests
and two starts in flight every pair of operations meets. *Project tasks:* two
writers, two tasks and four lines let two updates of one task race while another
task's lines lie between; a budget of two is reached exactly and passed, by charges of one
and of two. *Files:* two chunks (some, all), two tries of every request, two accepts and two faults or user
interventions at any step, of which a second accept uses up two; one where a POST may
fall back to the hub, and three where only pulls are possible, so that a second accept
and a lost message meet.
*Chat:* two messages to one member can overtake each other; two turns of its
connection let it go and come back; one fault. *Remote tasks:* one task and one call
beside an outbox that is full, so that the cap bites. *Mesh:* two sockets at a time,
one retry, two faults; three sockets with one fault were checked once, with one
retry (605,918 states) and with none, and hold too. The bounds that exist for the checker
only are called `Max...`; each is named in its module.

Deadlock checking is off wherever a behaviour ends by design: all tasks done, a
run ended, an array trimmed, the last process gone, the file full, a transfer over,
the faults and turns used up.

**Fairness.** *Task queue and sub-agents:* `Start`, `DrainEnds` and `Settle` are
synchronous code that, once on the stack, goes on; a run that waits for nobody is
assumed to return or throw, which is the agent loop's own liveness plus a Brain that
answers (`think` has no timeout, `core/ipc.ts` 81, so this is an assumption and not a
fact; see the hazards); the poll of wait_for_agents sees what it waits for, and its
deadline passes. *Agent loop:* the await a run stands at resolves, including the
person asked for confirmation. Nothing is assumed about which answer comes. *Agent
traffic:* a run whose Brain has answered ends, with or without a result; the plane
carries what it has; a run that is refused tries again, which the loop does; time
passes. *Control plane:* the timeout of a request and the ready fallback are timers and
fire; the exit of a process is reported by node; a process told to end ends, since
execa follows SIGTERM with SIGKILL after five seconds. A process nobody told to end
may run, or crash, at any time: no fairness for it. *Files:* time passes and the
sweeps run; a control message that is not lost is delivered; a request under way
goes on or breaks. *Chat and remote tasks:* each process goes on with the code
between its awaits, links that are up deliver, and timers fire. *Mesh:* events of a
socket are delivered, timers fire, and (strong fairness) not every answer to an
announcement is lost. Users, faults and restarts owe nothing anywhere.

## 4. What is proved

Eight files of proofs, for every value of the constants that satisfies the named
assumptions of the modules. These say that bounds and limits are natural numbers (at
least one where zero makes no sense), that marks such as "no task" or "nobody" are
not tasks or agents, and of what kind a constant function is (`BudgetAssumption`: a text
of each size has a natural cost; `RelayAssumption`: a message goes to a member; a
budget may be any integer). `NodeAssumption` is narrower, like the model it belongs
to: exactly two nodes, with ids that can be compared. Unless an assumption says so,
no set need be finite.

For each specification a file proves `Init => Inv`, one lemma per action or per
conjunct for the step `Inv /\ [Next]_vars => Inv'`, and from them the theorems. The
properties of section 3 are seldom inductive; the definitions under "Why ... holds" in
each module say what the invariant adds, and the paragraphs below why. Every one of
these invariants was first checked by TLC on the instance of its run.

**TaskQueue_proof.** `TypeCorrect`, `InvCorrect`, and from them `OnePlaceCorrect`,
`ConcurrencyCorrect`, `DependenciesCorrect`, `NoIdleSlotCorrect`, `FirstComeCorrect`,
`OutcomeAnnouncedCorrect`; `OutcomeFixedCorrect` is the action property, `Refinement`
says `Spec => ImplementsLifecycle`. The properties are not inductive on their own;
the invariant adds
  * `SettlingHoldsSlot`: the task whose outcome is being emitted is in `running`
    with a final status, and the event agrees with it. Without it `Settle` could
    file a task that was never running, or announce the wrong outcome.
  * `WaitingNotStarted`: nothing that waits was ever started; needed for
    `DependenciesHonoured` when a dependency is cancelled.
  * `QueueKeepsArrivalOrder`: the queue is a subsequence of the arrivals; removing
    from its middle keeps it one. From it follows `FirstComeFirstServed`.

`NoIdleSlotStep` is the argument that no wake-up is lost: whatever frees a slot or
readies a task leaves the flag `draining` set. For the refinement each action of the
queue maps to one action of `TaskLifecycle` (`LifecycleStep`); the drain loop ending,
a run setting its outcome and a running task being marked are stutters.
The file begins with what `Append`, concatenation and removing one element do to
the elements and the range of a sequence. `FiniteRunning` is there because
`Cardinality` says nothing of infinite sets. The same file treats `SubAgents`:
`SubAgentsUseTheQueue` says `SpecAgents => Spec`, so that every theorem on the queue
holds of it too, and `SubAgentsDepth` that the depth on record is within the limit, and
the real one as long as no run has spawned while another held a slot. Its invariant
ties the insertion order of the running map (`slots`) to the set `running`: the first
running task is the caller if it is alone.

**AgentLoop_proof.** `LoopInvariant`, and from it `StuckLoopStops`,
`CancelledRunStops`, `LoopGivesUp` and `NotesArrive`. The strengthening says that a
call that runs was counted before, also while it waits for confirmation
(`CountedBeforeRun`), that a run that goes on has no call at the limit (`GoesOn`),
that the counter of idle iterations is the number of fruitless ones
(`IdleIsFruitless`), that a cancelled run past its batch is on its way out
(`LateIsLeaving`), and which array has the last note (`NotesKept`).

The same file treats the budget: `BudgetCorrect`, and from it `CounterIsExact`,
`TrimmingFits` and `ProtectedSurvives`, for conversations of any length. A loop that
stops on its counter has subtracted exactly what it reached (`LeftExact`), and one that
ends over the budget has reached all it might (`LeftStops`); a filter leaves a sequence
that costs what the array did without what was dropped (`RestEffect`). `InPlace` is what
makes the positions computed at the start right: without errors to filter out nothing
moves before the last pass.

**AgentTraffic_proof.** `TypeCorrect`, `DepthIsOnRecord`, `OneAnswerComesHome` and
`CallsStayWithinLimits`, about agents that talk, behind the two gates. A question
travels with one run at a time (`OneRunPerQuestion`), a relay names a question that is
still open and the agent that asked it (`KnowsWhom`), and without failures an answer
that was given is on its way or was told (`AnswersOwed`). For the limits every call of
the Brain has left a token of the same age in each bucket (`EveryCallHasToken`): so many
calls in a window are so many unexpired tokens, of which a bucket holds no more than
its limit, also when the second gate refuses after the first has spent its token. A
restart takes the tokens away; a bucket held no more than its limit, so that one more
limit for each restart that the window still sees covers the calls before it.

**ControlPlane_proof.** `SupervisionInvariant`, and from it `EngineStaysOnRecord`,
`AskedOneAnswers`, `RemovedStaysRemoved`, for any number of processes and requests. The
argument: in orderly behaviours one process at a time has not been seen to exit, and
who waits for it is known. It is the record (`RecordIsAlone`), or a removal
(`RemovalWaitsForLast`), or there is none and a start may be on its way
(`StartFindsNobody`).

**Stores_proof.** Of the schedules it proves `SchedulerInvariant`, and from it `FileFollowsMemory` and
`RestartKeepsWhatIsSure`. The last list of the chain is what memory holds
(`LastIsCurrent`), wherever a restart could take its list from, the file or any list
still to be written, it finds what is sure (`SureEverywhere`), and before the restore
nothing is in memory unless a tool put it there (`NothingBeforeRestore`).

Of the project tasks it proves `TaskStoreInvariant`, and from it `DoneOnlyVerified`,
`SpentBudgetStops`, `CrashCostsAtMostTwo`. What a call is about to write was checked
against a line that is still in the file (`WritesWhatWasVerified`), because lines are
only ever added, but for a last one without a newline that the next append spoils, whose
task is in `spoiled` from then on; one at a time, a charge decides on the current line
(`ChargesWhatItRead`). That a crash costs at most two is `TornIsPaid`: a tail that will
cost the next append has not yet used up what its tear may cost.

**FileTransfer_proof.** `TypeCorrect`, `SentFilesAreSaved` and `TokensEndWithTransfers`, for
any number of chunks, tries, faults and accepts, and `FilesAreSavedWholeOnce`, which is
`SavedWholeOnce` for every offer accepted once at the most; an accept that was not made
has started nothing (`LoopsAccepted`). That two accepts save a file twice at the most,
and whole, is model-checked. What follows holds for one accept (`InOrder`). That a file
is saved once needs that its three routes exclude one another in time: nobody has begun
before the receiver chose one (`NothingBegun`), the sender pushes nothing while the
receiver pulls (`PullAlone`), the receiver downloads from the hub when the sender has
pushed in vain (`RelayAlone`), and without overlap one request is served at a time
(`OneAtATime`). That it is whole needs that the file being verified stays the one
that the request brought until the rename (`VerifiedForRequest`, `WholeStays`), and that
the request that saved it was the last (`SavedLast`). Although a done message can come
late, twice or after a restart, it has a file behind it (`DoneMeansSaved`).

**ChatRelay_proof.** `RelayCorrect`, and from it `ToldTruly` and `WaitersKeepTheirOrder`, for
any number of messages and members and any assignment of one to the other. For the
truth of what is told: an acknowledgement means that the message was shown or went to
a dead connection (`AckMeansShown`); a write that met no other is the only one at the
file and holds what the outbox holds (`OneWriter`, `AddsWrite`), so that what is told as
waiting is in the file (`QueuedIsHeld`); and until the first verdict a message is on its
way once, or shown, or held, and not two of them (`FirstTry`). For the order, a pair is
recorded when the later of two messages begins to wait behind an earlier one that
has not been shown. From then on the later one stays behind the earlier one in the
outbox, the file and what is left to the flush (`Behind`), until the earlier one is
shown, refused or in doubt; only a roster at a moment when nobody acts on it (`missed`)
lets them change places.

**VoleNet_proof.** Of remote tasks: `TypeCorrect`, `OutboxCorrect`, `AnswersAreKept`. The
invariant follows the answer from the moment the worker has it, which may be before
the asker has entered its wait (`KeptWhileSending`), and says that the outbox and its
file agree between writes and stay within the cap, one answer per task. Of the mesh:
`MeshTypeCorrect` and `OneSocketAtATime`, for two nodes, any number of sockets, retries
and faults. `SocketShape` relates the two ends of a socket, and `OpenIsHeld` says
that a node's entry names a socket that is open at that node, and that no other one
is open there but a dial on which nothing was ever said; when everything has arrived,
both ends name the same socket. The rule of the lower id is not needed for that: it
decides *which* socket stays, and that one stays at all, which is the liveness property
`LinkForms`.

### What is only model-checked

`SavedWholeOnce` for an offer that is accepted again. Liveness: `ReadyTaskLeaves`,
`RunEnds`, `CallSettles`, `ExchangeEnds`, `Settles`,
`WaitingLeaves`, `AnswersLeave`, `LinkForms`, `OneLeader`. They rest on fairness, and
fairness and ENABLED are outside what the prover does.

### Induction

Theorems of the library that take an operator as a parameter cannot be used with the
provers at hand, and the provers know nothing of what a recursive definition computes.
What the proofs need of that kind, they get from `SetInduction`: a set of natural numbers
that holds 0, and the successor of whatever it holds, holds all of them. It follows
from the library's theorem on the least element (`WFMin`), which takes a set. By it a
recursive function is shown to be defined at every position (`SumStep`, `LeftStep`,
`RestStep`), and what it computes is proved position by position. `SelectSeq` and folds
stay opaque; the modules that are proved about filter and sum with recursive functions
of their own (`Filtered`, `Rest`, `SumTo`), as the code's loops do.

### What the proofs found

Two places where a model and the code differed came out when a step could not be
proved: the early return of `noteAttempt` for a message that is no longer in the chat's
outbox, and the sweep of a restart, which also writes the outbox's file. They were
corrected in the models.

## 5. Where the code and what is said of it differ

Found while modelling. The properties name these cases as what they except, so that
everything else is checked.

*Task queue, agent loop, context budget*
* "force retry (max 3 times)" (`core/loop.ts` 466): `consecutiveNoResponse` is reset for
  every plan that arrives (445), so that the limit of three is never reached; the
  run retries until another limit ends it.
* "Add error to context for next iteration" (`core/loop.ts` 795): after a copy was made,
  the error is written to that copy, and the retry drops it (441).
* "Never trimmed: first user message, last 2 brain messages, last user message"
  (`core/context-budget.ts` 89): pass 2 shortens the array, the later passes (147) use
  the old positions.
* A run need not end: the limit on tool executions (`core/loop.ts` 556) is not set by
  default (`core/src/config/index.ts` 135), and calls that were never made before and
  succeed reset `idleIterations` (665) without filling the counters of repeated calls.
* A run that was cancelled, or ended by the timeout of a delegated task, is recorded as
  completed at the worker (`core/src/index.ts` 305-313).

*Sub-agents*
* "Sub-agents can spawn one level of sub-sub-agents (max depth 2)"
  (`tool/core-tools.ts` 606): the caller is taken to be the first running task, so
  that with two runs the real depth has no bound.
* wait_for_agents "Returns all results once all are done (or any fails/times out)"
  (763): it waits for all of them.

*Scheduler*
* The last schedule that is cancelled comes back with the next start, because an
  empty list is not written over one with schedules (`scheduler.ts` 231).
* A schedule replaced with a bad cron expression is lost in memory and stays in the
  file (126). A change before the restore writes a list without the schedules that
  have not been read yet. A shutdown does not wait for the writes in the chain.

*Control plane and messaging*
* "one engine subprocess per running agent" (`agent/control-plane.ts` 66-67): two
  starts can overlap at the await (197), or the exit of an old process clears the
  record of the new one (949); the engine without a record goes on running. The check of
  `startAgent` (196) looks for the text it was given among ids, although a name is taken
  too (198, 228); its callers give ids. An answer
  of the old process can then settle a request to its successor, because ids restart
  at 1. An agent stopped and then removed is purged before its process has ended; a running
  one is purged after 5.5 s (566), ended or not.
* "Max Brain (LLM) calls per minute across all tasks" (`docs/configuration.md` 215): a
  restart of the engine forgets the calls before it (`core/src/index.ts` 228), and the
  compaction of a chat (`agent/control-adapter.ts` 482) asks the Brain without asking the
  limiter.
* agent_submit starts a chain at zero hops, a sub-agent and a call over MCP (with more
  or fewer than one running run) lose the count, and unreadable facts fall back to
  zero (733): as long as one of these happens again and again an exchange goes on.
* "the finished answer is delivered back as a message" (`control-plane.ts` 815-818):
  not if the submission names a session. A failed run is never told to its asker, an
  answer to an agent that is down is not tried again, and a question that an agent
  passed on is answered in that agent's chat.

*Project tasks*
* "A torn trailing line costs one update" (`project/tasks.ts` 275): the next append is
  glued to it and is lost too. Two updates that race can record an illegal move
  (130-131 says it throws; `control-plane.ts` 279-281 concedes lost updates).
* `chargeIterations` has no caller outside the tests, so that no run enforces a
  budget. The comment at 188 says blocked is reachable from every state that is not
  terminal; from queued it is not.

*VoleNet files*
* A receiver that could not pull tells the sender to push and then fails the transfer
  itself (`files.ts` 936-938), so that the push is refused: this fallback never
  delivers. The last resort of a push, the hub, is tried only if no POST had begun.
* An offer stays pending while the first accept probes the sender (`files.ts` 551, 757), so
  that it can be accepted again; each accept begins a pull of its own, and the file can be
  saved twice, also without a fault. The receiver's record may then say failed although
  the file is in its inbox.
* The verification after a POST is not awaited by anybody (1449): if the partial file is
  gone by then, the rejection (1362) has no handler and ends the process.
* Two POSTs that overlap share one partial path: an incomplete file can be renamed
  into the inbox, or a complete one lost.
* reject, cancel, done and error messages do not look at the state; a cancel during a
  retry delay is followed by another request, a reject during the probe is
  overwritten. An upload to the hub is never retried, whatever `blob-store.ts` says of
  retries. Partial files are left behind by a restart.

*VoleNet chat and remote tasks*
* "One message at a time and in order" (`volenet/src/index.ts` 1904): a new message
  does not wait for the outbox, and a roster that comes during a flush lets a later
  entry overtake an earlier one.
* A roster that comes during a flush, or before a held message was added, starts no
  flush; the message waits for the next one.
* The sender's timeout (4 s, `index.ts` 116) is shorter than the hub's way of finding a
  dead connection (5 s) and counts as delivered.
* Two writes of an outbox share a temporary file (`chat-outbox.ts` 68): the file can be
  torn and a rename fail without a handler. `result-outbox.ts` writes in place, keeps
  50 answers, and looks at their age on load only; the answer of a tool call is not
  kept.
* The wait for a delegated task is entered after the send was awaited
  (`remote-task.ts` 115), so that an answer that comes before is dropped.

*VoleNet mesh*
* After three missed heartbeats "Remove dead leader from consideration and re-elect"
  (`leader.ts` 226) removes nothing; the next leader comes when discovery drops the
  peer after 45 s, not "within 30 seconds" (`docs/volenet.md` 315).
* `shouldRunHeartbeat` (`volenet/src/index.ts` 2641) has no caller: every peer runs its
  heartbeat and schedules, although `docs/volenet.md` 503 says only the leader does and
  `docs/use-cases.md` 68 says schedules run exactly once. Nobody sends `leader:claim`.
* A node with the lower id that holds a half-open socket refuses the new one of its
  peer until its ping timer has found out.

*In parts without a model*
* Paw registry: a subprocess Paw's `order` and `pipeline` for perceive are ignored,
  since `this.paws` is read (`paw/registry.ts` 786) before it is set (152). A crash
  does not settle the requests under way (`core/ipc.ts` 81). Framing compares a length
  in bytes with a length in characters (230).
* Event log: a stream that has failed answers `false` and never drains (113), so that
  the chain, `close()` and the plane's shutdown wait for ever.
* Agent manager: two commands at once lose one change of the registry (`manager.ts`
  187); `vole serve` does not look at the runtime file of `agent start`; a pid in use by
  another process counts as the agent.
* Inbox of an editor (`volenet-mcp/src`): the cursor is a time per peer, so that a message
  with the same or an earlier time than one already read is never unread (`inbox.ts`
  134-136); `volenet_wait` for one peer marks the messages of all as read
  (`tools.ts` 333-334), and so does `watchInbox` with what came during a delivery
  (`watch.ts` 74-75); compacting the log can lose a line another process appends.

## 6. Not modelled, and why

* **IPC and the Paw registry.** Loading and unloading happen once, at start and
  shutdown, and a crash only marks a Paw. The one thing that matters to others, a
  request that never settles, is an assumption of the agent loop's liveness.
* **Agent manager, project store, inbox of editors.** Files that several processes
  read, change and replace. What goes wrong is a lost update, which needs no more than
  two steps to see and is listed above; the task log, the outboxes and the schedules
  are the files whose loss matters, and they are modelled.
* **Event log, event bus, hooks, registries of tools and skills.** Synchronous, or one
  chain of appends. What listeners of the bus do to the task queue is modelled there.
* **VoleNet: consent, pairing, rooms, sync, the notices of a hub.** A request and its
  answer, stored by key, and repeated without harm. `ChatRelay` takes members that have
  consented. More than two nodes of a mesh, heartbeats (all they lead to is the
  election that every tick holds), a leader forced by name, the replay cache and
  the rate limits of the transport are left out of `Mesh`.
* **Cryptography, prompts, configuration, vault, permissions, command line,
  dashboard.** Cryptography is taken as sound; the rest computes or prints, and keeps
  no state that depends on order.
* In the modelled parts: contents of tasks, answers, messages and tool results; the
  transcripts of agents; the cron timer; the age limit of held answers; streaming of
  bytes beyond "some" and "all".
