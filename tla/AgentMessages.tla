---------------------------- MODULE AgentMessages ----------------------------
(***************************************************************************)
(* Agents of one server that talk to each other: the tool agent_message    *)
(* (tool/agent-chat-tool.ts), the control plane that carries messages and  *)
(* the answers of finished runs (agent/control-plane.ts), and the engine   *)
(* at the other end that wakes a run to read them                          *)
(* (agent/control-adapter.ts).                                             *)
(*                                                                         *)
(* An answer is a message too, so an exchange has no end of its own: every *)
(* message carries how deep it is, and past MAX_AGENT_HOPS it is written   *)
(* down and wakes nobody.  A message also carries for whom it was sent: if *)
(* a person was waiting, the answer is put into their chat, once.          *)
(*                                                                         *)
(* A message arrives in the step that sends it, or is lost, and the plane  *)
(* carries an answer in one step: between the calls it makes it reads      *)
(* nothing that can change, except the facts of the finished run, which an *)
(* engine that restarted no longer has.  Transcripts are left out, but for *)
(* the answers told to a person.                                           *)
(***************************************************************************)
EXTENDS Naturals, Sequences, FiniteSets

CONSTANTS
  Agent, Nobody,      \* the agents; the address of a run that answers no agent
  Orchestrator,       \* those that may submit work
  MAX_AGENT_HOPS,     \* as in the code
  Slot, Free,         \* room for runs; an empty slot
  MaxAsks, MaxExtras, \* bounds: runs started from outside; what runs send of their own accord and what fails, together
  MaxReal             \* bound: where the history of depth stops counting

(* at: its agent.  peer: the agent it answers.  relay: a person is waiting  *)
(* for that answer.  The others are history: which question it was woken    *)
(* by, its true depth, whether the count was restarted on the way, the agent *)
(* whose chat a relay names.                                                *)
Run == [stage : {"waiting", "running", "answered"}, at : Agent, peer : Agent \cup {Nobody},
        hops : Nat, relay : BOOLEAN, question : Nat, real : Nat, restarted : BOOLEAN, home : Agent]

ASSUME TalkAssumption ==
  /\ Nobody \notin Agent /\ Free \notin Run /\ Slot \subseteq Nat
  /\ MAX_AGENT_HOPS \in Nat /\ MaxReal \in Nat /\ MAX_AGENT_HOPS < MaxReal
  /\ MaxAsks \in Nat /\ MaxExtras \in Nat

VARIABLES
  run,        \* the runs, and those that ended with an answer on its way
  questions,  \* history: the messages sent for somebody's sake
  told,       \* history: the answers put into a chat
  asks, sends, faults

talkVars == <<run, questions, told, asks, sends, faults>>

Busy == {r \in Slot : run[r] # Free}
In(stage) == {r \in Busy : run[r].stage = stage}
Room == Busy # Slot
Fresh == CHOOSE r \in Slot \ Busy : \A s \in Slot \ Busy : r <= s

TalkInit ==
  /\ run = [r \in Slot |-> Free]
  /\ questions = << >> /\ told = << >>
  /\ asks = 0 /\ sends = 0 /\ faults = 0

Put(r, t) == run' = [run EXCEPT ![r] = t]

Deeper(n) == IF n < MaxReal THEN n + 1 ELSE n
Restarted(t) == [t EXCEPT !.hops = 0, !.relay = FALSE, !.question = 0, !.restarted = TRUE]

-----------------------------------------------------------------------------
(* A message at the engine it is for. *)

Wakes(t) == t.hops < MAX_AGENT_HOPS

\* Mutant: the run that is woken is as deep as the message.
WokenSame(t) == [t EXCEPT !.stage = "waiting", !.real = Deeper(@)]

Woken(t) == [t EXCEPT !.stage = "waiting", !.hops = @ + 1, !.real = Deeper(@)]

\* Past the budget a message is only written down.
Arrives(r, t) == Put(r, IF Wakes(t) THEN Woken(t) ELSE Free)

-----------------------------------------------------------------------------
(* Runs and what they send. *)

\* A person, a schedule or a heartbeat starts a run; a person may also write
\* into the thread with another agent, which the run then answers.
Asks(a, p) ==
  /\ asks < MaxAsks /\ Room /\ p # a
  /\ asks' = asks + 1
  /\ Put(Fresh, [stage |-> "waiting", at |-> a, peer |-> p, hops |-> 0, relay |-> FALSE,
                 question |-> 0, real |-> 0, restarted |-> FALSE, home |-> a])
  /\ UNCHANGED <<questions, told, sends, faults>>

\* The Brain is asked for the first plan of the run.
Thinks(r) ==
  /\ r \in In("waiting")
  /\ Put(r, [run[r] EXCEPT !.stage = "running"])
  /\ UNCHANGED <<questions, told, asks, sends, faults>>

Sends(r) ==
  /\ r \in In("running") /\ Room
  /\ sends + faults < MaxExtras /\ sends' = sends + 1
  /\ UNCHANGED <<told, asks, faults>>

To(b, t) == [t EXCEPT !.at = b, !.peer = t.at]

\* Whether somebody waits for the answer to what a run sends: the one the run
\* was started for, else the conversation it is a turn of, if not an agent's.
OnBehalf(t) == t.relay \/ t.peer = Nobody

\* agent_message.
Messages(r, b) ==
  /\ Sends(r) /\ b # run[r].at
  /\ LET t == run[r] IN
     IF OnBehalf(t)
     THEN /\ Arrives(Fresh, [To(b, t) EXCEPT !.relay = TRUE, !.question = Len(questions) + 1])
          /\ questions' = Append(questions, [home |-> t.home, passedOn |-> t.relay, answered |-> FALSE])
     ELSE /\ Arrives(Fresh, [To(b, t) EXCEPT !.relay = FALSE, !.question = 0])
          /\ UNCHANGED questions

\* The same from a Brain that calls its tools over MCP, where the call belongs
\* to a run only if there is just one.
MessagesOverMcp(r, b) ==
  /\ Sends(r) /\ b # run[r].at
  /\ \E s \in In("waiting") \cup In("running") : s # r /\ run[s].at = run[r].at
  /\ Arrives(Fresh, To(b, Restarted(run[r])))
  /\ UNCHANGED questions

\* agent_submit, which starts a run that answers its sender or, if one is
\* named, a session of its own.
Submits(r, b, session) ==
  /\ Sends(r) /\ run[r].at \in Orchestrator
  /\ LET t == To(b, Restarted(run[r])) IN
     Put(Fresh, [t EXCEPT !.stage = "waiting", !.real = Deeper(@),
                          !.peer = IF session THEN Nobody ELSE @, !.home = b])
  /\ UNCHANGED questions

\* spawn_agent: the sub-agent knows nothing of the message its parent answers.
Spawns(r) ==
  /\ Sends(r)
  /\ Put(Fresh, [Restarted(run[r]) EXCEPT !.stage = "waiting", !.peer = Nobody, !.home = run[r].at])
  /\ UNCHANGED questions

\* The run completes with a result.  Only one that answers another agent has
\* somebody to tell.
Answers(r) ==
  /\ r \in In("running")
  /\ Put(r, IF run[r].peer \in {Nobody, run[r].at} THEN Free ELSE [run[r] EXCEPT !.stage = "answered"])
  /\ questions' = [q \in DOMAIN questions |->
                     IF q = run[r].question THEN [questions[q] EXCEPT !.answered = TRUE] ELSE questions[q]]
  /\ UNCHANGED <<told, asks, sends, faults>>

\* It failed, was cancelled, gave up or has nothing to say.
EndsSilently(r) ==
  /\ r \in In("waiting") \cup In("running")
  /\ Put(r, Free)
  /\ UNCHANGED <<questions, told, asks, sends, faults>>

-----------------------------------------------------------------------------
(* The plane carries an answer. *)

\* Mutant: task_status does not say how deep the run was.
FactsWithoutHops(r) == [run[r] EXCEPT !.hops = 0]

\* What task_status says of a finished run.
Facts(r) == run[r]

\* Mutant: the relay travels on with the answer.
StillRelayed(t) == To(t.peer, t)

\* The answer as a message to the agent that asked; a relay is spent by it.
AnswerTo(t) == [To(t.peer, t) EXCEPT !.relay = FALSE, !.question = 0]

\* It is put in front of the person who was waiting.
Tells(t) ==
  told' = IF t.relay THEN Append(told, [question |-> t.question, at |-> t.peer]) ELSE told

\* deliverAgentReply.
CarriesAnswer(r) ==
  /\ r \in In("answered")
  /\ Arrives(r, AnswerTo(Facts(r)))
  /\ Tells(Facts(r))
  /\ UNCHANGED <<questions, asks, sends, faults>>

Fault ==
  /\ sends + faults < MaxExtras /\ faults' = faults + 1
  /\ UNCHANGED <<questions, told, asks, sends>>

\* task_status fails or does not know the task: the depth falls back to zero,
\* and nobody is known to wait.
CarriesWithoutFacts(r) ==
  /\ r \in In("answered")
  /\ Arrives(r, AnswerTo(Restarted(run[r])))
  /\ Fault

\* The agent that asked got the answer, but the plane gave up on the call, or
\* the one that tells the person failed.
CarriesUntold(r) ==
  /\ r \in In("answered")
  /\ Arrives(r, AnswerTo(Facts(r)))
  /\ Fault

\* It could not be delivered, which ends it.
CarryFails(r) ==
  /\ r \in In("answered")
  /\ Put(r, Free)
  /\ Fault

\* The engine of an agent ends and starts: its runs are gone, and what it knew
\* of those that had finished.
Restarts(a) ==
  /\ run' = [r \in Slot |->
               IF r \notin Busy \/ run[r].at # a THEN run[r]
               ELSE IF run[r].stage = "answered" THEN Restarted(run[r])
               ELSE Free]
  /\ Fault

-----------------------------------------------------------------------------
\* Everything but Thinks, which a limit may hold back, and the restarts, which
\* lose the limiter as well.
Talks ==
  \/ \E a \in Agent, p \in Agent \cup {Nobody} : Asks(a, p)
  \/ \E r \in Slot, b \in Agent :
       \/ Messages(r, b) \/ MessagesOverMcp(r, b)
       \/ \E session \in BOOLEAN : Submits(r, b, session)
  \/ \E r \in Slot :
       \/ Spawns(r) \/ Answers(r) \/ EndsSilently(r) \/ CarriesAnswer(r)
       \/ CarriesWithoutFacts(r) \/ CarriesUntold(r) \/ CarryFails(r)

-----------------------------------------------------------------------------
(* What must hold. *)

\* Every variable keeps its type.
TalkTypeOK ==
  /\ run \in [Slot -> Run \cup {Free}]
  /\ questions \in Seq([home : Agent, passedOn : BOOLEAN, answered : BOOLEAN])
  /\ told \in Seq([question : DOMAIN questions, at : Agent])
  /\ asks \in 0..MaxAsks /\ sends \in Nat /\ faults \in Nat /\ sends + faults <= MaxExtras

\* The depth on record is the number of runs woken since somebody started the
\* chain, and within the budget, unless the count was restarted on the way: by
\* lost facts, a submitted task, a sub-agent, or a call over MCP.
DepthOnRecord ==
  \A r \in Busy : ~run[r].restarted => run[r].hops = run[r].real /\ run[r].real <= MAX_AGENT_HOPS

ToldOf(q) == {i \in DOMAIN told : told[i].question = q}

\* One question, one answer: whoever waits is told at most once, in the chat
\* they asked in unless the question was passed on by a second agent, and, once
\* everything has settled and nothing has failed, told if there was an answer.
OneAnswerAtHome ==
  \A q \in DOMAIN questions :
    /\ Cardinality(ToldOf(q)) <= 1
    /\ \A i \in ToldOf(q) : told[i].at = questions[q].home \/ questions[q].passedOn
    /\ Busy = {} /\ faults = 0 /\ questions[q].answered => ToldOf(q) # {}

\* An exchange between agents comes to an end, although every answer is a
\* message that may wake a run that answers it.
ExchangeEnds == <>[](Busy = {})

-----------------------------------------------------------------------------
(* Why the invariants hold.                                                *)

\* A relay names a question that is still open, and the agent that asked it.
AsksFor(t) ==
  /\ t.peer \notin {Nobody, t.at}
  /\ t.question \in DOMAIN questions /\ ToldOf(t.question) = {}
  /\ t.peer = questions[t.question].home \/ questions[t.question].passedOn

KnowsWhom ==
  \A r \in Busy :
    /\ run[r].question # 0 => run[r].relay
    /\ run[r].relay => AsksFor(run[r])
    /\ run[r].peer = Nobody => run[r].home = run[r].at /\ run[r].stage # "answered"

\* A question travels with one run.
OneRunPerQuestion ==
  \A r, s \in Busy : run[r].relay /\ run[s].relay /\ run[r].question = run[s].question => r = s

ToldOnce == \A i, j \in DOMAIN told : told[i].question = told[j].question => i = j
ToldAtHome ==
  \A i \in DOMAIN told : LET q == questions[told[i].question] IN told[i].at = q.home \/ q.passedOn

\* An answer that was given is on its way, or was told.
AnswersOwed ==
  faults = 0 =>
    \A q \in DOMAIN questions : questions[q].answered =>
      \/ ToldOf(q) # {}
      \/ \E r \in In("answered") : run[r].relay /\ run[r].question = q

TalkInv ==
  TalkTypeOK /\ DepthOnRecord /\ KnowsWhom /\ OneRunPerQuestion /\ ToldOnce /\ ToldAtHome /\ AnswersOwed

=============================================================================
