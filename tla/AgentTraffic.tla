----------------------------- MODULE AgentTraffic -----------------------------
(***************************************************************************)
(* Agents that talk (AgentMessages), one of them with a limit on the calls *)
(* of its Brain (RateLimiter): the loop of a run passes both gates before  *)
(* it asks the Brain (loop.ts), and a run that is refused asks again in    *)
(* its next iteration.  The engines of the others have no limits.          *)
(***************************************************************************)
EXTENDS AgentMessages, RateLimiter

CONSTANT Limited  \* the agent whose configuration has rate limits

vars == <<run, questions, told, asks, sends, faults, buckets, calls, restarts>>

Init == TalkInit /\ GatesInit

ThinksFreely(r) == Thinks(r) /\ run[r].at # Limited /\ UNCHANGED gateVars

\* The first call of a run: admitted, or refused by one of the gates.
AsksBrain(r) ==
  /\ r \in In("waiting") /\ run[r].at = Limited
  /\ \/ Admitted /\ Thinks(r)
     \/ (RefusedByMinute \/ RefusedByHour) /\ UNCHANGED talkVars

\* The calls of its later iterations.
AsksAgain(r) ==
  /\ r \in In("running") /\ run[r].at = Limited
  /\ Attempt /\ UNCHANGED talkVars

\* The engine of an agent ends and starts; only that of the limited one has a
\* limiter to lose.
EngineRestarts(a) == Restarts(a) /\ IF a = Limited THEN NewLimiter ELSE UNCHANGED gateVars

TimePasses == Tick /\ UNCHANGED talkVars

Next ==
  \/ Talks /\ UNCHANGED gateVars
  \/ \E r \in Slot : ThinksFreely(r) \/ AsksBrain(r) \/ AsksAgain(r)
  \/ \E a \in Agent : EngineRestarts(a)
  \/ TimePasses

Spec == Init /\ [][Next]_vars

\* A run whose Brain has answered ends, with or without a result; the plane
\* carries an answer; a run that is refused tries again; and time passes.
Goes(r) == (Answers(r) \/ EndsSilently(r) \/ CarriesAnswer(r)) /\ UNCHANGED gateVars

FairSpec ==
  /\ Spec
  /\ \A r \in Slot : WF_vars(r \notin In("waiting") /\ Goes(r)) /\ WF_vars(ThinksFreely(r))
  /\ WF_vars(\E r \in Slot : AsksBrain(r))
  /\ WF_vars(TimePasses)

=============================================================================
