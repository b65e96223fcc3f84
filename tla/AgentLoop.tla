------------------------------ MODULE AgentLoop ------------------------------
(***************************************************************************)
(* One run of the agent loop (src/src/core/src/core/loop.ts): the phases   *)
(* of an iteration, the counters that end a run, and the two copies of the *)
(* conversation an iteration works with.                                   *)
(*                                                                         *)
(* Of the conversation only the notes are kept that the loop itself writes *)
(* for the Brain; prompts, answers and tool results are data.  The array   *)
(* runPerceive returns is the run's own array unless a paw answered over   *)
(* IPC, compaction ran or messages were trimmed: shared says which.        *)
(***************************************************************************)
EXTENDS Naturals, Sequences, FiniteSets

CONSTANTS
  Call,              \* tool calls with their parameters
  New,               \* those whose parameters are different every time
  Denied,            \* those the tool profile of the task's source refuses
  MaxBatch,          \* bound on the calls of one plan
  MaxIterations,     \* effectiveMaxIterations, counted without progress
  MaxBrainFailures,  \* MAX_BRAIN_FAILURES
  ToolLimits,        \* what rateLimits.toolExecutionsPerTask may be
  NoLimit,           \* it is left undefined, as it is by default
  Stuck,             \* identical calls that stop the run (15)
  ConfirmBeforeAct   \* config.confirmBeforeAct

ASSUME LimitsAssumption ==
  /\ {MaxIterations, MaxBrainFailures, Stuck, MaxBatch} \subseteq Nat
  /\ MaxBrainFailures > 0 /\ Stuck > 1
  /\ ToolLimits \subseteq Nat \cup {NoLimit} /\ NoLimit \notin Nat
  /\ ConfirmBeforeAct \in BOOLEAN
  /\ Denied \subseteq Call /\ New \subseteq Call

\* The calls that can be identical to an earlier one.
Same == Call \ New

VARIABLES
  limit,          \* configuration: rateLimits.toolExecutionsPerTask
  phase,          \* where the run is, between two awaits
  idle,           \* idleIterations
  brainFailures,  \* consecutiveBrainFailures
  noResponse,     \* consecutiveNoResponse
  calls,          \* toolCallSignatures; a new one is counted once and never again
  executed,       \* toolExecutionCount, which is read only where there is a limit
  plan,           \* the calls waiting for confirmation or execution
  notes,          \* context.messages
  enriched,       \* enrichedContext.messages
  shared,         \* enriched is the same array as notes
  cancelled,      \* task.status === 'cancelled'
  result,         \* what task.result says
  lastNote,       \* history: the last note this iteration wrote, or the one before at the top
  late,           \* history: batches of tools begun after the cancellation
  ran,            \* history: how often each call was executed with these parameters
  fruitless       \* history: iterations begun since a tool last succeeded

counters == <<idle, brainFailures, noResponse, calls, executed>>
texts == <<notes, enriched, shared, lastNote>>
tools == <<ran, fruitless>>
vars == <<limit, phase, counters, plan, texts, cancelled, result, late, tools>>

Phase == {"top", "perceiving", "thinking", "confirming", "acting", "ended"}
Note == {"rate limited", "brain error", "narrated", "no response", "blocked", "declined"}
NoNote == "none"
Result == {"none", "answer", "configuration error", "stuck", "sorry"}
Batch == UNION {[1..n -> Call] : n \in 1..MaxBatch}

\* The calls of a plan that are left, each at its position.
Calls == UNION {[S -> Call] : S \in SUBSET (1..MaxBatch)}
NoCalls == [i \in {} |-> 0]

Init ==
  /\ limit \in ToolLimits
  /\ phase = "top"
  /\ idle = 0 /\ brainFailures = 0 /\ noResponse = 0
  /\ calls = [c \in Same |-> 0]
  /\ executed = 0
  /\ plan = NoCalls
  /\ notes = {} /\ enriched = {} /\ shared = TRUE
  /\ cancelled = FALSE
  /\ result = "none"
  /\ lastNote = NoNote
  /\ late = 0
  /\ ran = [c \in Same |-> 0] /\ fruitless = 0

-----------------------------------------------------------------------------
(* The ways an iteration ends. *)

\* Push to enrichedContext.messages; Object.assign comes later, if at all.
Write(note) ==
  /\ enriched' = enriched \cup {note}
  /\ notes' = IF shared THEN notes \cup {note} ELSE notes
  /\ lastNote' = note
  /\ UNCHANGED shared

\* `continue': the next iteration starts from context, not enrichedContext.
Retry(note) == phase' = "top" /\ plan' = NoCalls /\ Write(note)

\* Mutant: without the assignment.
NextIterationForgets ==
  /\ phase' = "top"
  /\ plan' = NoCalls
  /\ shared' = TRUE
  /\ UNCHANGED <<notes, enriched, lastNote>>

\* The end of the loop body: Object.assign(context, enrichedContext).
NextIteration ==
  /\ phase' = "top"
  /\ plan' = NoCalls
  /\ notes' = enriched
  /\ shared' = TRUE
  /\ UNCHANGED <<enriched, lastNote>>

Return(text) ==
  /\ phase' = "ended"
  /\ plan' = NoCalls
  /\ result' = text
  /\ UNCHANGED texts

\* What follows the loop, reached by its condition or by a break.
OutOfLoop == Return(IF idle >= MaxIterations THEN "sorry" ELSE result)

-----------------------------------------------------------------------------
(* The top of an iteration up to the Brain. *)

\* Mutants: the cancellation is not looked at; iterations are not counted.
BeginAnyway ==
  /\ phase = "top"
  /\ idle < MaxIterations
  /\ idle' = idle + 1
  /\ fruitless' = fruitless + 1
  /\ phase' = "perceiving"
  /\ lastNote' = NoNote
  /\ UNCHANGED <<limit, brainFailures, noResponse, calls, executed, plan, notes, enriched, shared, cancelled, result, late, ran>>

BeginUncounted ==
  /\ phase = "top"
  /\ idle < MaxIterations
  /\ ~cancelled
  /\ phase' = "perceiving"
  /\ lastNote' = NoNote
  /\ UNCHANGED <<limit, counters, plan, notes, enriched, shared, cancelled, result, late, tools>>

Begin ==
  /\ phase = "top"
  /\ idle < MaxIterations
  /\ ~cancelled
  /\ idle' = idle + 1
  /\ fruitless' = fruitless + 1
  /\ phase' = "perceiving"
  /\ lastNote' = NoNote
  /\ UNCHANGED <<limit, brainFailures, noResponse, calls, executed, plan, notes, enriched, shared, cancelled, result, late, ran>>

Exhausted ==
  /\ phase = "top"
  /\ idle >= MaxIterations
  /\ OutOfLoop
  /\ UNCHANGED <<limit, counters, cancelled, late, tools>>

NoticeCancel ==
  /\ phase = "top"
  /\ idle < MaxIterations
  /\ cancelled
  /\ Return(result)
  /\ UNCHANGED <<limit, counters, cancelled, late, tools>>

\* Perceive hooks, the budget, compaction and trimming.  A new array holds
\* all the notes, or none when they were compacted away.
Perceive ==
  /\ phase = "perceiving"
  /\ \/ shared' = TRUE /\ enriched' = notes
     \/ shared' = FALSE /\ enriched' \in {notes, {}}
  /\ phase' = "thinking"
  /\ UNCHANGED <<limit, counters, plan, notes, cancelled, result, lastNote, late, tools>>

FixedCostsExceedBudget ==
  /\ phase = "perceiving"
  /\ Return("configuration error")
  /\ UNCHANGED <<limit, counters, cancelled, late, tools>>

\* The limiter is asked once the context is ready and before the Brain is.
RateLimited ==
  /\ phase = "thinking"
  /\ Retry("rate limited")
  /\ UNCHANGED <<limit, counters, cancelled, result, late, tools>>

-----------------------------------------------------------------------------
(* What the Brain answers. *)

NoBrain ==
  /\ phase = "thinking"
  /\ OutOfLoop
  /\ UNCHANGED <<limit, counters, cancelled, late, tools>>

BrainFails ==
  /\ phase = "thinking"
  /\ brainFailures' = brainFailures + 1
  /\ IF brainFailures + 1 >= MaxBrainFailures
       THEN phase' = "ended" /\ plan' = NoCalls /\ Write("brain error")
       ELSE Retry("brain error")
  /\ UNCHANGED <<limit, idle, noResponse, calls, executed, cancelled, result, late, tools>>

\* Any plan at all ends both streaks.
PlanArrives ==
  /\ phase = "thinking"
  /\ brainFailures' = 0

\* consecutiveNoResponse is reset for every plan, whatever it says.
Speaks ==
  /\ PlanArrives
  /\ noResponse' = 0
  /\ UNCHANGED <<limit, idle, executed, cancelled, late, tools>>

Answers == Speaks /\ Return("answer") /\ UNCHANGED calls

Narrates == Speaks /\ Retry("narrated") /\ UNCHANGED <<calls, result>>

\* Done, no response, no calls.  The streak was reset a few lines above, so
\* it is one every time and the fallback at three is never built.
DoneSilently ==
  /\ PlanArrives
  /\ noResponse' = 1
  /\ Retry("no response")
  /\ UNCHANGED <<limit, idle, calls, executed, cancelled, result, late, tools>>

\* Done, with calls but no response: they are not executed.
DoneWithCalls == Speaks /\ Return(result) /\ UNCHANGED calls

\* Not done and nothing to do.
PlansNothing == Speaks /\ NextIteration /\ UNCHANGED <<calls, result>>

Times(c, batch) == Cardinality({i \in DOMAIN batch : batch[i] = c})

\* Mutant: a batch counts each of its calls once.
CountedOnce(batch) == [c \in Same |-> calls[c] + IF Times(c, batch) > 0 THEN 1 ELSE 0]

Counted(batch) == [c \in Same |-> calls[c] + Times(c, batch)]

OverToolLimit(batch) == limit # NoLimit /\ executed + Len(batch) > limit

Allowed(batch) == [i \in {j \in DOMAIN batch : batch[j] \notin Denied} |-> batch[i]]

HitsToolLimit(batch) == Speaks /\ OverToolLimit(batch) /\ OutOfLoop /\ UNCHANGED calls

AllBlocked(batch) ==
  /\ Speaks
  /\ ~OverToolLimit(batch)
  /\ Allowed(batch) = NoCalls
  /\ Retry("blocked")
  /\ UNCHANGED <<calls, result>>

\* The stuck-loop counters go up before anything runs.
GetsStuck(batch) ==
  /\ Speaks
  /\ ~OverToolLimit(batch)
  /\ calls' = Counted(Allowed(batch))
  /\ \E c \in Same : calls'[c] >= Stuck
  /\ Return("stuck")

PlansCalls(batch) ==
  /\ Speaks
  /\ ~OverToolLimit(batch)
  /\ Allowed(batch) # NoCalls
  /\ calls' = Counted(Allowed(batch))
  /\ \A c \in Same : calls'[c] < Stuck
  /\ phase' = "confirming"
  /\ plan' = Allowed(batch)
  /\ IF Allowed(batch) = batch THEN UNCHANGED texts ELSE Write("blocked")
  /\ UNCHANGED result

-----------------------------------------------------------------------------
(* Act and observe.  Lazy perceive hooks are awaited before the tools, and *)
(* a confirmation that is not configured is one nobody declines.           *)

Confirm ==
  /\ phase = "confirming"
  /\ phase' = "acting"
  /\ late' = IF cancelled THEN late + 1 ELSE late
  /\ UNCHANGED <<limit, counters, plan, texts, cancelled, result, tools>>

Decline ==
  /\ phase = "confirming"
  /\ ConfirmBeforeAct
  /\ Retry("declined")
  /\ UNCHANGED <<limit, counters, cancelled, result, late, tools>>

\* One success among the results is progress.
\* Mutant: any result counts as progress.
ToolsReturnAnyhow(success) ==
  /\ phase = "acting"
  /\ executed' = IF limit = NoLimit THEN executed ELSE executed + Cardinality(DOMAIN plan)
  /\ ran' = [c \in Same |-> ran[c] + Times(c, plan)]
  /\ idle' = 0
  /\ fruitless' = IF success THEN 0 ELSE fruitless
  /\ NextIteration
  /\ UNCHANGED <<limit, brainFailures, noResponse, calls, cancelled, result, late>>

ToolsReturn(success) ==
  /\ phase = "acting"
  /\ executed' = IF limit = NoLimit THEN executed ELSE executed + Cardinality(DOMAIN plan)
  /\ ran' = [c \in Same |-> ran[c] + Times(c, plan)]
  /\ idle' = IF success THEN 0 ELSE idle
  /\ fruitless' = IF success THEN 0 ELSE fruitless
  /\ NextIteration
  /\ UNCHANGED <<limit, brainFailures, noResponse, calls, cancelled, result, late>>

\* TaskQueue.cancel marks the task; nothing else happens until the top.
Cancel ==
  /\ phase # "ended"
  /\ ~cancelled
  /\ cancelled' = TRUE
  /\ UNCHANGED <<limit, phase, counters, plan, texts, result, late, tools>>

Step ==
  \/ Begin \/ Exhausted \/ NoticeCancel
  \/ Perceive \/ FixedCostsExceedBudget \/ RateLimited
  \/ NoBrain \/ BrainFails \/ Answers \/ Narrates \/ DoneSilently
  \/ DoneWithCalls \/ PlansNothing
  \/ \E batch \in Batch :
       HitsToolLimit(batch) \/ AllBlocked(batch) \/ GetsStuck(batch) \/ PlansCalls(batch)
  \/ Confirm \/ Decline
  \/ \E success \in BOOLEAN : ToolsReturn(success)

Next == Step \/ Cancel

Spec == Init /\ [][Next]_vars

\* Each await of the run resolves: the Brain, the tools and the person answer.
FairSpec == Spec /\ WF_vars(Step)

-----------------------------------------------------------------------------
(* What must hold. *)

\* Every variable keeps its type.
TypeOK ==
  /\ limit \in ToolLimits
  /\ phase \in Phase
  /\ idle \in 0..MaxIterations
  /\ brainFailures \in 0..MaxBrainFailures
  /\ noResponse \in 0..1
  /\ calls \in [Same -> Nat]
  /\ executed \in Nat
  /\ plan \in Calls
  /\ notes \subseteq Note /\ enriched \subseteq Note /\ shared \in BOOLEAN
  /\ cancelled \in BOOLEAN
  /\ result \in Result
  /\ lastNote \in Note \cup {NoNote}
  /\ late \in Nat
  /\ ran \in [Same -> Nat] /\ fruitless \in Nat

\* No call runs Stuck times, also when one plan repeats it.
StuckCallsStopped == \A c \in Same : ran[c] < Stuck

\* A cancelled run starts at most the batch it was already thinking about.
CancelStopsTools == late <= 1

\* The loop gives up after exactly MaxIterations iterations in which no tool
\* succeeded: it never goes on longer, and says sorry only then.
GivesUpInTime ==
  /\ fruitless <= MaxIterations
  /\ result = "sorry" => fruitless = MaxIterations

\* A run ends, whatever the Brain, the tools and the person do, unless no limit
\* on tool executions is configured and calls it never made before keep
\* succeeding: only those reset the iterations without filling a counter.
SucceedsAnew == ToolsReturn(TRUE) /\ \E i \in DOMAIN plan : plan[i] \in New
RunEnds == <>(phase = "ended") \/ (limit = NoLimit /\ []<><<SucceedsAnew>>_vars)

\* The last note an iteration wrote for the Brain is there when the next one
\* begins, except after a retry in an iteration with an array of its own.
NotesReachNextIteration == phase = "top" /\ shared => lastNote \in notes \cup {NoNote}

-----------------------------------------------------------------------------
(* Why they hold. *)

\* A run that goes on has no result, no call at the limit, and has not used up
\* the failures of its Brain.
GoesOn == phase # "ended" =>
  result = "none" /\ brainFailures < MaxBrainFailures /\ \A c \in Same : calls[c] < Stuck

\* A call that runs was counted before, also while it waits.
CountedBeforeRun ==
  \A c \in Same : ran[c] + (IF phase \in {"confirming", "acting"} THEN Times(c, plan) ELSE 0) <= calls[c]

IdleIsFruitless == idle = fruitless

\* After the batch that it was thinking about, a cancelled run is on its way out.
LateIsLeaving == late > 0 => late = 1 /\ cancelled /\ phase \in {"acting", "top", "ended"}

NotesKept ==
  /\ shared => notes = enriched
  /\ phase = "perceiving" => lastNote = NoNote
  /\ lastNote \in enriched \cup {NoNote}

Inv ==
  /\ TypeOK /\ StuckCallsStopped /\ CancelStopsTools /\ GivesUpInTime /\ NotesReachNextIteration
  /\ GoesOn /\ CountedBeforeRun /\ IdleIsFruitless /\ LateIsLeaving /\ NotesKept

=============================================================================
