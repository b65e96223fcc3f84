---------------------------- MODULE ProjectTasks ----------------------------
(***************************************************************************)
(* The project task store (src/src/core/src/project/tasks.ts): a task is   *)
(* the last of its lines in tasks.jsonl, and every change reads the file,  *)
(* checks the move and appends the whole task again.  The engine, the      *)
(* control plane and the command line do so side by side, with an await    *)
(* between the read and the append and no lock.                            *)
(*                                                                         *)
(* An append is one write; a process that dies in it may leave a line      *)
(* without its end.  Such a line is not JSON, unless only the newline is   *)
(* missing, and neither is what the next append glues to it.               *)
(***************************************************************************)
EXTENDS Naturals, Sequences, SequencesExt, FiniteSets

CONSTANTS
  Task,           \* the tasks ever created
  Writer,         \* calls in flight at once, in whatever process
  MaxIterations,  \* budget.maxIterations of every task
  MaxLines,       \* bound: readable lines of the file
  MaxTears        \* bound: appends a process dies in

ASSUME BoundAssumption == MaxIterations \in Nat \ {0} /\ MaxLines \in Nat /\ MaxTears \in Nat

VARIABLES
  serial,  \* chosen once: a call begins only when no other is in flight
  lines,   \* the readable lines of tasks.jsonl
  tail,    \* how the file ends: with a newline, a torn line, or a whole line without one
  writer,  \* each call: where it is, the patch it was given, the line it will write
  tears,   \* history: appends a process died in
  lost,    \* history: updates that are in no readable line
  spoiled  \* history: tasks of readable lines that an append was glued to

vars == <<serial, lines, tail, writer, tears, lost, spoiled>>

TaskState == {"queued", "running", "verifying", "waiting_approval", "blocked", "done",
              "failed", "cancelled"}

Transitions ==
  [queued |-> {"running", "cancelled"},
   running |-> {"verifying", "waiting_approval", "blocked", "failed", "cancelled"},
   verifying |-> {"done", "blocked", "failed", "cancelled"},
   waiting_approval |-> {"running", "blocked", "cancelled"},
   blocked |-> {"queued", "running", "cancelled"},
   done |-> {},
   failed |-> {"queued"},
   cancelled |-> {}]

TerminalStates == {"done", "failed", "cancelled"}

\* What a call writes: the task, its state, iterationsUsed, and whether it is a
\* charge of iterations that writes it.
Line == [task : Task, state : TaskState, used : Nat, charge : BOOLEAN]

Keep == "keep"  \* a patch that does not name the field
Idle == [at |-> "idle"]
Charging == [at : {"charge"}, task : Task, used : Nat, state : {Keep, "blocked"}]
Appending == [at : {"append"}, line : Line]

Init ==
  /\ serial \in BOOLEAN
  /\ lines = << >>
  /\ tail = "newline"
  /\ writer = [w \in Writer |-> Idle]
  /\ tears = 0
  /\ lost = 0 /\ spoiled = {}

LinesOf(t) == {i \in DOMAIN lines : lines[i].task = t}

\* Last line wins.
Current(t) == lines[CHOOSE i \in LinesOf(t) : \A j \in LinesOf(t) : j <= i]

Known == {t \in Task : LinesOf(t) # {}}

Free(w) == writer[w] = Idle /\ (serial => \A v \in Writer : writer[v] = Idle)

Goes(w, to) == writer' = [writer EXCEPT ![w] = to]

Writing(line) == [at |-> "append", line |-> line]

\* Mutant: the move is not checked.
AnyMove(from, to) == TRUE

LegalMove(from, to) == to \in {Keep, from} \cup Transitions[from]

\* {...current, ...patch}
Patched(t, state, used, charge) ==
  [task |-> t, state |-> IF state = Keep THEN Current(t).state ELSE state, used |-> used,
   charge |-> charge]

-----------------------------------------------------------------------------

\* Ids do not repeat.
Create(w, t) ==
  /\ Free(w) /\ t \notin Known \cup spoiled
  /\ \A v \in Writer : writer[v].at = "append" => writer[v].line.task # t
  /\ Goes(w, Writing([task |-> t, state |-> "queued", used |-> 0, charge |-> FALSE]))
  /\ UNCHANGED <<serial, lines, tail, tears, lost, spoiled>>

\* update: read, check, and the line to write; an illegal move throws.
Update(w, t, state) ==
  /\ Free(w) /\ t \in Known
  /\ LegalMove(Current(t).state, state)
  /\ Goes(w, Writing(Patched(t, state, Current(t).used, FALSE)))
  /\ UNCHANGED <<serial, lines, tail, tears, lost, spoiled>>

\* Mutant: off by one.
ExhaustedLater(t, total) == total > MaxIterations /\ Current(t).state \notin TerminalStates

Exhausted(t, total) == total >= MaxIterations /\ Current(t).state \notin TerminalStates

\* chargeIterations reads for itself and decides on the patch, which blocks the
\* task also when its deadline has passed; update will read again.  A charge of
\* more than the budget is like one of the whole budget.
ChargeReads(w, t) ==
  /\ Free(w) /\ t \in Known
  /\ \E n \in 1..MaxIterations, late \in BOOLEAN :
       LET total == Current(t).used + n
           halts == Exhausted(t, total) \/ (late /\ Current(t).state \notin TerminalStates)
       IN  Goes(w, [at |-> "charge", task |-> t, used |-> total,
                    state |-> IF halts /\ "blocked" \in Transitions[Current(t).state]
                              THEN "blocked" ELSE Keep])
  /\ UNCHANGED <<serial, lines, tail, tears, lost, spoiled>>

ChargeMay(w) == writer[w].task \in Known /\ LegalMove(Current(writer[w].task).state, writer[w].state)

ChargeUpdates(w) ==
  /\ writer[w].at = "charge" /\ ChargeMay(w)
  /\ Goes(w, Writing(Patched(writer[w].task, writer[w].state, writer[w].used, TRUE)))
  /\ UNCHANGED <<serial, lines, tail, tears, lost, spoiled>>

\* The task has moved to where it cannot be blocked, or its only line has been
\* spoiled: the charge is not recorded.
ChargeThrows(w) ==
  /\ writer[w].at = "charge" /\ ~ChargeMay(w)
  /\ Goes(w, Idle)
  /\ UNCHANGED <<serial, lines, tail, tears, lost, spoiled>>

\* What is written lands behind the file's end: glued to a line without a
\* newline it is unreadable, and so is a whole one that it is glued to.
Lands(line) ==
  CASE tail = "newline" -> lines' = Append(lines, line) /\ UNCHANGED spoiled
    [] tail = "torn" -> UNCHANGED <<lines, spoiled>>
    [] tail = "line" -> lines' = Front(lines) /\ spoiled' = spoiled \cup {Last(lines).task}

\* Updates that it takes from the file.
Spoils == CASE tail = "newline" -> 0 [] tail = "torn" -> 1 [] tail = "line" -> 2

\* Mutant: the newline forgotten.
AppendUnended(w) ==
  /\ writer[w].at = "append"
  /\ Len(lines) < MaxLines
  /\ Lands(writer[w].line) /\ lost' = lost + Spoils
  /\ tail' = IF tail = "newline" THEN "line" ELSE "torn"
  /\ Goes(w, Idle)
  /\ UNCHANGED <<serial, tears>>

\* appendFile.
AppendLine(w) ==
  /\ writer[w].at = "append"
  /\ Len(lines) < MaxLines
  /\ Lands(writer[w].line) /\ lost' = lost + Spoils
  /\ tail' = "newline"
  /\ Goes(w, Idle)
  /\ UNCHANGED <<serial, tears>>

\* The process dies: before the write, or in it.
Dies(w) ==
  /\ writer[w].at \in {"charge", "append"}
  /\ Goes(w, Idle)
  /\ UNCHANGED <<serial, lines, tail, tears, lost, spoiled>>

\* Of the line a part has been written.
Tears(w) ==
  /\ writer[w].at = "append"
  /\ tears < MaxTears
  /\ tail' = "torn"
  /\ IF tail = "newline" THEN lost' = lost + 1 /\ UNCHANGED <<lines, spoiled>>
                         ELSE lost' = lost + Spoils /\ Lands(writer[w].line)
  /\ tears' = tears + 1
  /\ Goes(w, Idle)
  /\ UNCHANGED serial

\* All but the newline: the line is readable until the next append.
TearsAtEnd(w) ==
  /\ writer[w].at = "append" /\ tail = "newline"
  /\ tears < MaxTears /\ Len(lines) < MaxLines
  /\ Lands(writer[w].line)
  /\ tail' = "line"
  /\ tears' = tears + 1
  /\ Goes(w, Idle)
  /\ UNCHANGED <<serial, lost>>

Next ==
  \E w \in Writer :
    \/ \E t \in Task :
         Create(w, t) \/ ChargeReads(w, t) \/ \E s \in TaskState \cup {Keep} : Update(w, t, s)
    \/ ChargeUpdates(w) \/ ChargeThrows(w)
    \/ AppendLine(w) \/ Dies(w) \/ Tears(w) \/ TearsAtEnd(w)

Spec == Init /\ [][Next]_vars

-----------------------------------------------------------------------------
(* What must hold. *)

\* Every variable keeps its type.
TypeOK ==
  /\ serial \in BOOLEAN
  /\ lines \in Seq(Line)
  /\ tail \in {"newline", "torn", "line"} /\ (tail = "line" => lines # << >>)
  /\ writer \in [Writer -> {Idle} \cup Charging \cup Appending]
  /\ tears \in 0..MaxTears /\ lost \in Nat /\ spoiled \subseteq Task

\* Whoever races whom, no task is recorded as done unless it was recorded as
\* verifying before.  Excepted are tasks of which a line could be read until
\* another was glued to it.
DoneWasVerified ==
  \A i \in DOMAIN lines : lines[i].state = "done" /\ lines[i].task \notin spoiled =>
    \E j \in LinesOf(lines[i].task) : j < i /\ lines[j].state = "verifying"

\* Then also a charge that spends the budget leaves nothing that goes on running.
ExhaustionStops ==
  serial => \A i \in DOMAIN lines :
    lines[i].charge /\ lines[i].used >= MaxIterations
    => lines[i].state \notin {"running", "verifying", "waiting_approval"}

\* A process that dies in an append costs one update besides its own, and no more.
TearCostsAtMostTwo == lost <= 2 * tears

-----------------------------------------------------------------------------
(* Why they hold. *)

\* What a call is about to write of a task as done has been verified too; and a
\* task stays in the file.
WritesWhatWasVerified ==
  \A w \in Writer :
    /\ writer[w].at = "append" /\ writer[w].line.state = "done" /\ writer[w].line.task \notin spoiled =>
         \E j \in LinesOf(writer[w].line.task) : lines[j].state = "verifying"
    /\ writer[w].at = "charge" => writer[w].task \in Known \cup spoiled

\* Calls that do not overlap charge what they have read.
OneAtATime ==
  serial => \A v, w \in Writer : writer[v] # Idle /\ writer[w] # Idle => v = w

ChargesWhatItRead ==
  serial => \A w \in Writer : writer[w].at = "charge" =>
    LET cur == Current(writer[w].task).state IN
    writer[w].task \in Known /\ writer[w].used >= MaxIterations =>
      writer[w].state = "blocked" \/ cur \in TerminalStates \/ "blocked" \notin Transitions[cur]

WritesWhatStops ==
  serial => \A w \in Writer :
    /\ writer[w].at = "append" /\ writer[w].line.charge
    /\ writer[w].line.used >= MaxIterations
    => writer[w].line.state \notin {"running", "verifying", "waiting_approval"}

\* A line without its end has been paid for.
TornIsPaid ==
  /\ tail = "torn" => lost + 1 <= 2 * tears
  /\ tail = "line" => lost + 2 <= 2 * tears

Inv ==
  /\ TypeOK /\ DoneWasVerified /\ ExhaustionStops /\ TearCostsAtMostTwo
  /\ WritesWhatWasVerified /\ OneAtATime /\ ChargesWhatItRead /\ WritesWhatStops /\ TornIsPaid

=============================================================================
