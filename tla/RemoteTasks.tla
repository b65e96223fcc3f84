----------------------------- MODULE RemoteTasks -----------------------------
(***************************************************************************)
(* Work for another node: tasks delegated to a peer's brain and calls of   *)
(* its tools (src/src/volenet/src/remote-task.ts, the handlers and the     *)
(* delivery of answers in index.ts), and the outbox where the worker keeps *)
(* an answer that did not reach the asker (result-outbox.ts).              *)
(*                                                                         *)
(* One asker and one worker; the asker's way to the worker is open as long *)
(* as it asks.  A request that goes over HTTP is answered on another       *)
(* connection, so that its answer may come before the end of the POST.     *)
(***************************************************************************)
EXTENDS Naturals, Sequences, SequencesExt, FiniteSets

CONSTANTS
  Tasks,      \* tasks the asker delegates
  Calls,      \* tool calls it makes
  Cap,        \* MAX_RESULTS_PER_PEER
  MaxTurns,   \* bound: changes of the worker's way to the asker
  MaxTrouble  \* bound: lost responses of a POST, early timeouts, restarts, and messages of
              \* the asker while the way to it is not open

ASSUME RemoteAssumption ==
  /\ Tasks \cap Calls = {} /\ Tasks \cap {"flush", "torn"} = {}
  /\ Cap \in Nat \ {0} /\ MaxTurns \in Nat /\ MaxTrouble \in Nat

Request == Tasks \cup Calls

VARIABLES
  asked,    \* a request at the asker
  job,      \* the same at the worker
  net,      \* requests and answers under way
  way,      \* the worker's connection to the asker: dead while it has not noticed its loss
  outbox,   \* answers that wait, in order (ResultOutbox.entries)
  flush,    \* flushResultsFor: the rest of its list, and where it stands
  writer,   \* each write of the outbox file in progress: of a delivery, or of the flush
  file,     \* the outbox file
  turns, trouble, \* counters of the bounds
  past      \* history: answers that may have been lost on the way, with the worker
            \* or for want of room; whether two writes were at the file at once

vars == <<asked, job, net, way, outbox, flush, writer, file, turns, trouble, past>>

Torn == <<"torn">> \* a file that is not JSON
Idle == [pc |-> "idle", list |-> << >>]
NoWrite == [on |-> FALSE, shared |-> FALSE, list |-> << >>]
Writer == Tasks \cup {"flush"}

\* The worker has just come up, with answers that wait from before.
Init ==
  /\ \E old \in {q \in SeqOf(Tasks, Cap) : IsInjective(q)} :
       /\ outbox = old /\ file = old
       /\ job = [k \in Request |-> IF Contains(old, k) THEN "told" ELSE "none"]
       /\ asked = [k \in Request |-> IF Contains(old, k) THEN "waiting" ELSE "none"]
  /\ net = {}
  /\ way \in {"on", "off"}
  /\ flush = Idle
  /\ writer = [w \in Writer |-> NoWrite]
  /\ turns = 0 /\ trouble = 0
  /\ past = [lost |-> {}, raced |-> FALSE]

Trouble == trouble < MaxTrouble /\ trouble' = trouble + 1

Ask(k) == [to |-> "worker", of |-> k]
Answer(k) == [to |-> "asker", of |-> k]

-----------------------------------------------------------------------------
\* The asker: delegateTask and executeRemoteTool.

\* Over an open WebSocket the request is sent and the wait begins in one step;
\* over HTTP the send is awaited.
Sends(k) ==
  /\ asked[k] = "none"
  /\ \E pc \in {"waiting", "sending"} : asked' = [asked EXCEPT ![k] = pc]
  /\ net' = net \cup {Ask(k)}
  /\ UNCHANGED <<job, way, outbox, flush, writer, file, turns, trouble, past>>

\* The end of the POST: what waits for the answer is entered now.  A response
\* that is lost fails the request, which may be worked on all the same.
Sent(k) ==
  /\ asked[k] = "sending"
  /\ \/ asked' = [asked EXCEPT ![k] = "waiting"] /\ UNCHANGED trouble
     \/ asked' = [asked EXCEPT ![k] = "failed"] /\ Trouble
  /\ UNCHANGED <<job, net, way, outbox, flush, writer, file, turns, past>>

\* handleTaskResult, handleToolResult: an answer that nothing waits for is dropped.
OnAnswer(k) ==
  /\ Answer(k) \in net
  /\ net' = net \ {Answer(k)}
  /\ asked' = IF asked[k] = "waiting" THEN [asked EXCEPT ![k] = "answered"] ELSE asked
  /\ past' = IF asked[k] = "sending" THEN [past EXCEPT !.lost = @ \cup {k}] ELSE past
  /\ UNCHANGED <<job, way, outbox, flush, writer, file, turns, trouble>>

\* Five minutes for a task, one for a call: long against a quick answer.
Timeout(k) ==
  /\ asked[k] = "waiting"
  /\ IF k \in past.lost \/ k \in ToSet(outbox) THEN UNCHANGED trouble ELSE Trouble
  /\ asked' = [asked EXCEPT ![k] = "failed"]
  /\ UNCHANGED <<job, net, way, outbox, flush, writer, file, turns, past>>

-----------------------------------------------------------------------------
\* The outbox file: it is written in place, with the entries there are when the
\* write begins, by every change on its own.

Writing == {w \in Writer : writer[w].on}

\* A write that is alone writes the outbox; one that another has overlapped
\* keeps the list it began with.
Overlapped(x) ==
  IF writer[x].on /\ ~writer[x].shared THEN [on |-> TRUE, shared |-> TRUE, list |-> outbox] ELSE writer[x]

\* A change of the outbox: its write begins, and the file is empty meanwhile.
Changes(w, entries, lost) ==
  /\ outbox' = entries
  /\ file' = Torn
  /\ writer' = [x \in Writer |->
                  IF x # w THEN Overlapped(x)
                  ELSE IF Writing = {} THEN [on |-> TRUE, shared |-> FALSE, list |-> << >>]
                  ELSE [on |-> TRUE, shared |-> TRUE, list |-> entries]]
  /\ past' = [lost |-> past.lost \cup lost, raced |-> past.raced \/ Writing # {}]

\* Where two writes overlapped, the older list may stay, or the one may have left
\* its tail in the other.
FileWritten(w) ==
  /\ writer[w].on
  /\ writer' = [writer EXCEPT ![w] = NoWrite]
  /\ file' \in IF writer[w].shared THEN {outbox, writer[w].list, Torn} ELSE {outbox}

\* Mutant: the newest is dropped.
HeldWhileRoom(k) ==
  LET all == Append(RemoveFirst(outbox, k), k) IN IF Len(all) > Cap THEN Front(all) ELSE all

\* The one answer for the same task is replaced; the oldest beyond the cap is dropped.
Held(k) ==
  LET all == Append(RemoveFirst(outbox, k), k) IN IF Len(all) > Cap THEN Tail(all) ELSE all

Dropped(k) == IF Len(RemoveFirst(outbox, k)) = Cap THEN {Head(outbox)} ELSE {}

Removed(w, k, lost) ==
  IF Contains(outbox, k) THEN Changes(w, RemoveFirst(outbox, k), lost)
  ELSE past' = [past EXCEPT !.lost = @ \cup lost] /\ UNCHANGED <<outbox, writer, file>>

-----------------------------------------------------------------------------
\* The worker: running what it was asked.

\* Denied, which is answered at once, or run: a task by the task queue, a call
\* by the tool.  A task that has ended waits for its poll as one that runs.
OnAsk(k) ==
  /\ Ask(k) \in net
  /\ net' = net \ {Ask(k)}
  /\ job' = [job EXCEPT ![k] = "running"]
  /\ UNCHANGED <<asked, way, outbox, flush, writer, file, turns, trouble, past>>

\* A send to the asker arrives, goes into a dead connection, or fails; a POST
\* whose response is lost arrives and fails.
Arrives(k) == way = "on" /\ net' = net \cup {Answer(k)} /\ UNCHANGED trouble
Vanishes == way = "dead" /\ UNCHANGED <<net, trouble>>
Fails(k) ==
  \/ way # "on" /\ UNCHANGED <<net, trouble>>
  \/ way = "on" /\ Trouble /\ net' = net \cup {Answer(k)}

\* deliverTaskResult: w is the poll of the task, or the flush.
Delivered(w, k) ==
  \/ Arrives(k) /\ Removed(w, k, {})
  \/ Vanishes /\ Removed(w, k, {k})
NotDelivered(w, k) == Fails(k) /\ Changes(w, Held(k), Dropped(k))

\* The poll finds that the task has ended, or the answer is a denial.
Poll(k) ==
  /\ job[k] = "running" /\ k \in Tasks
  /\ job' = [job EXCEPT ![k] = "told"]
  /\ Delivered(k, k) \/ NotDelivered(k, k)
  /\ UNCHANGED <<asked, way, flush, turns>>

\* The answer of a call is sent once and not kept.
CallAnswered(k) ==
  /\ job[k] = "running" /\ k \in Calls
  /\ job' = [job EXCEPT ![k] = "told"]
  /\ \/ Arrives(k) /\ UNCHANGED past
     \/ (Vanishes \/ Fails(k)) /\ past' = [past EXCEPT !.lost = @ \cup {k}]
  /\ UNCHANGED <<asked, way, outbox, flush, writer, file, turns>>

WriteEnds(k) ==
  /\ FileWritten(k)
  /\ UNCHANGED <<asked, job, net, way, outbox, flush, turns, trouble, past>>

-----------------------------------------------------------------------------
\* The worker: flushResultsFor, on any message of the asker that verifies, also
\* on one that came by another way than the one back.

OnMessage ==
  /\ outbox # << >> /\ flush.pc = "idle"
  /\ flush' = [pc |-> "next", list |-> outbox]
  /\ IF way = "on" THEN UNCHANGED trouble ELSE Trouble
  /\ UNCHANGED <<asked, job, net, way, outbox, writer, file, turns, past>>

\* One answer; after a failure the attempt is noted, which writes once more if
\* the answer is still there, and the rest waits.
FlushNext ==
  /\ flush.pc = "next" /\ flush.list # << >>
  /\ LET k == Head(flush.list) IN
     \/ /\ Delivered("flush", k)
        /\ flush' = [pc |-> IF writer'["flush"].on THEN "wrote" ELSE "next", list |-> Tail(flush.list)]
     \/ /\ NotDelivered("flush", k)
        /\ flush' = [pc |-> "note", list |-> <<k>>]
  /\ UNCHANGED <<asked, job, way, turns>>

FlushWrote ==
  /\ FileWritten("flush") /\ flush.pc = "wrote"
  /\ flush' = [flush EXCEPT !.pc = "next"]
  /\ UNCHANGED <<asked, job, net, way, outbox, turns, trouble, past>>

FlushNotes ==
  /\ flush.pc = "note"
  /\ FileWritten("flush") /\ flush' = [flush EXCEPT !.pc = "again"]
  /\ UNCHANGED <<asked, job, net, way, outbox, turns, trouble, past>>

FlushNoted ==
  /\ flush.pc = "again"
  /\ IF Contains(outbox, Head(flush.list))
     THEN Changes("flush", outbox, {}) /\ flush' = [pc |-> "wrote", list |-> << >>]
     ELSE flush' = [pc |-> "next", list |-> << >>] /\ UNCHANGED <<outbox, writer, file, past>>
  /\ UNCHANGED <<asked, job, net, way, turns, trouble>>

\* Mutant: the flag of the flush is never taken back.
FlushEndsStuck ==
  /\ flush.pc = "next" /\ flush.list = << >>
  /\ flush' = [flush EXCEPT !.pc = "stuck"]
  /\ UNCHANGED <<asked, job, net, way, outbox, writer, file, turns, trouble, past>>

FlushEnds ==
  /\ flush.pc = "next" /\ flush.list = << >>
  /\ flush' = Idle
  /\ UNCHANGED <<asked, job, net, way, outbox, writer, file, turns, trouble, past>>

-----------------------------------------------------------------------------
\* Connections and restarts.

WayChanges ==
  /\ turns < MaxTurns /\ turns' = turns + 1
  /\ way' \in {"on", "dead", "off"} \ {way}
  /\ UNCHANGED <<asked, job, net, outbox, flush, writer, file, trouble, past>>

\* What load makes of the file.
OnDisk == IF file = Torn THEN << >> ELSE file

\* The worker restarts: what it was running and its timers are gone, and the
\* outbox is what the file says.
RestartWorker ==
  /\ Trouble
  /\ outbox' = OnDisk
  /\ job' = [k \in Request |-> IF job[k] = "running" THEN "gone" ELSE job[k]]
  /\ flush' = Idle /\ writer' = [w \in Writer |-> NoWrite]
  /\ past' = [past EXCEPT !.lost = @ \cup (IF Writing = {} THEN {} ELSE ToSet(outbox))]
  /\ UNCHANGED <<asked, net, way, file, turns>>

\* The asker stops: dispose settles everything as failed.
StopAsker ==
  /\ Trouble
  /\ \E k \in Request : asked[k] = "waiting"
  /\ asked' = [k \in Request |-> IF asked[k] = "waiting" THEN "failed" ELSE asked[k]]
  /\ UNCHANGED <<job, net, way, outbox, flush, writer, file, turns, past>>

Asker == \E k \in Request : Sent(k) \/ OnAnswer(k) \/ Timeout(k)
Worker == \E k \in Request : OnAsk(k) \/ Poll(k) \/ CallAnswered(k)
Files == \E k \in Tasks : WriteEnds(k)
Flush == (way = "on" /\ OnMessage) \/ FlushNext \/ FlushWrote \/ FlushNotes \/ FlushNoted \/ FlushEnds

Next == (\E k \in Request : Sends(k)) \/ Asker \/ Worker \/ Files \/ Flush \/ OnMessage
          \/ WayChanges \/ RestartWorker \/ StopAsker

\* Work ends, files are written, and an asker that is connected pings every
\* fifteen seconds.
Spec == Init /\ [][Next]_vars /\ WF_vars(Asker) /\ WF_vars(Worker) /\ WF_vars(Files) /\ WF_vars(Flush)

-----------------------------------------------------------------------------
TypeOK ==
  /\ asked \in [Request -> {"none", "sending", "waiting", "answered", "failed"}]
  /\ job \in [Request -> {"none", "running", "told", "gone"}]
  /\ net \subseteq [to : {"worker", "asker"}, of : Request]
  /\ way \in {"on", "dead", "off"}
  /\ outbox \in Seq(Tasks)
  /\ flush \in [pc : {"idle", "next", "wrote", "note", "again"}, list : Seq(Tasks)]
  /\ writer \in [Writer -> [on : BOOLEAN, shared : BOOLEAN, list : Seq(Tasks)]]
  /\ file = Torn \/ file \in Seq(Tasks)
  /\ turns \in 0..MaxTurns /\ trouble \in 0..MaxTrouble
  /\ past \in [lost : SUBSET Request, raced : BOOLEAN]

\* An answer that is ready reaches an asker that still waits, or is kept, also
\* when the poll, the flush and pings interleave and the worker restarts.
\* Excepted are answers that went into a dead connection, came before the asker
\* had entered its wait, were the oldest beyond the cap, or were in the outbox
\* when the worker went down during a write of its file, and files that two
\* writes at once have been at.
AnswerKept ==
  ~past.raced =>
    \A k \in Tasks \ past.lost :
      job[k] = "told" /\ asked[k] = "waiting" => Answer(k) \in net \/ Contains(outbox, k)

\* An answer that waits for an asker that stays connected leaves.
AnswersLeave == \A k \in Tasks : []<>(~Contains(outbox, k) \/ way # "on")

-----------------------------------------------------------------------------
(* Why AnswerKept holds: what the proofs need besides.                     *)

\* One answer per task and no more than the cap, in memory and in the file.
OutboxBounded ==
  /\ IsInjective(outbox) /\ Len(outbox) <= Cap
  /\ file # Torn => IsInjective(file) /\ Len(file) <= Cap
  /\ \A w \in Writer : IsInjective(writer[w].list) /\ Len(writer[w].list) <= Cap

\* As long as no two writes overlapped the file is the outbox between writes.
FileFollows ==
  /\ \A w \in Writer : writer[w].shared => past.raced
  /\ ~past.raced /\ Writing = {} => outbox = OnDisk

\* Nothing is worked on that was not asked for.
AskedFirst == \A k \in Request : asked[k] = "none" => job[k] = "none" /\ Ask(k) \notin net

\* AnswerKept, also while the request is on its way.
KeptWhileSending ==
  ~past.raced =>
    \A k \in Tasks \ past.lost :
      job[k] = "told" /\ asked[k] \in {"sending", "waiting"} => Answer(k) \in net \/ Contains(outbox, k)

\* The inductive invariant.
RemoteInv == TypeOK /\ OutboxBounded /\ FileFollows /\ AskedFirst /\ KeptWhileSending
=============================================================================
