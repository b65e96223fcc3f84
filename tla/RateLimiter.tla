----------------------------- MODULE RateLimiter -----------------------------
(***************************************************************************)
(* The sliding-window limiter (src/src/core/src/core/rate-limiter.ts) and  *)
(* the two gates the agent loop puts before every call of the Brain        *)
(* (loop.ts): calls per minute, then calls per hour.  Both gates are asked *)
(* in one synchronous stretch.                                             *)
(*                                                                         *)
(* A timestamp t is kept as its age, now - t.  Ages stop growing at the    *)
(* window, where they count as expired; the clock never runs backwards.    *)
(*                                                                         *)
(* The limiter lives in memory and is made with the engine (index.ts): a   *)
(* restart starts with empty buckets.  A compaction asked for in the       *)
(* dashboard calls the Brain past both gates (chat_compact,                *)
(* control-adapter.ts) and is not among the calls counted here.            *)
(***************************************************************************)
EXTENDS Naturals, Sequences, SequencesExt

CONSTANTS
  MinuteWindow, HourWindow,  \* windowMs of each gate, in ticks of the clock
  MinuteLimit, HourLimit     \* llmCallsPerMinute, llmCallsPerHour

ASSUME WindowAssumption == MinuteWindow \in Nat \ {0} /\ HourWindow \in Nat \ {0}
ASSUME LimitAssumption == MinuteLimit \in Nat \ {0} /\ HourLimit \in Nat \ {0}

VARIABLES
  buckets,  \* the timestamps kept for each gate
  calls,    \* history: the calls of the Brain by runs, inside the longer window
  restarts  \* history: the restarts of the engine, likewise

gateVars == <<buckets, calls, restarts>>

Gate == {"minute", "hour"}
Window == [minute |-> MinuteWindow, hour |-> HourWindow]
Limit == [minute |-> MinuteLimit, hour |-> HourLimit]
Longest == IF MinuteWindow > HourWindow THEN MinuteWindow ELSE HourWindow

GatesInit ==
  /\ buckets = [g \in Gate |-> << >>]
  /\ calls = << >> /\ restarts = << >>

\* timestamps.filter: what is younger than age among the first n, for each n.
Filtered(s, age) ==
  LET f[n \in 0..Len(s)] == IF n = 0 THEN << >>
                            ELSE IF s[n] < age THEN Append(f[n - 1], s[n]) ELSE f[n - 1]
  IN f

Younger(s, age) == Filtered(s, age)[Len(s)]

\* Mutant: expired one tick early.
UnexpiredButLast(g) == Younger(buckets[g], Window[g] - 1)

\* cleanup: what is kept of a bucket.
Unexpired(g) == Younger(buckets[g], Window[g])

HasToken(g) == Len(Unexpired(g)) < Limit[g]

Took(g, s) == Append(s, 0)

\* The loop passes both gates and calls the Brain.
Admitted ==
  /\ \A g \in Gate : HasToken(g)
  /\ buckets' = [g \in Gate |-> Took(g, Unexpired(g))]
  /\ calls' = Append(calls, 0)
  /\ UNCHANGED restarts

RefusedByMinute ==
  /\ ~HasToken("minute")
  /\ buckets' = [buckets EXCEPT !["minute"] = Unexpired("minute")]
  /\ UNCHANGED <<calls, restarts>>

\* The token of the first gate is spent although there will be no call.
RefusedByHour ==
  /\ HasToken("minute") /\ ~HasToken("hour")
  /\ buckets' = [minute |-> Took("minute", Unexpired("minute")), hour |-> Unexpired("hour")]
  /\ UNCHANGED <<calls, restarts>>

Attempt == Admitted \/ RefusedByMinute \/ RefusedByHour

Aged(s, most) == [i \in DOMAIN s |-> IF s[i] < most THEN s[i] + 1 ELSE most]

\* Date.now() moves on.
Tick ==
  /\ buckets' = [g \in Gate |-> Aged(buckets[g], Window[g])]
  /\ calls' = Younger(Aged(calls, Longest), Longest)
  /\ restarts' = Younger(Aged(restarts, Longest), Longest)

\* createEngine: a new limiter, while the window behind it may hold calls.
NewLimiter ==
  /\ buckets' = [g \in Gate |-> << >>]
  /\ restarts' = Append(restarts, 0)
  /\ UNCHANGED calls

-----------------------------------------------------------------------------
(* What must hold. *)

\* Every variable keeps its type; no bucket ever holds more than its limit.
GatesTypeOK ==
  /\ \A g \in Gate : buckets[g] \in BoundedSeq(0..Window[g], Limit[g])
  /\ calls \in Seq(0..Longest) /\ restarts \in Seq(0..Longest)

\* No stretch of the length of a window ever saw more calls of the Brain by runs
\* than the limit allows each engine that ran in it: the one that runs, and one
\* before each restart.  Without a restart that is the limit.
CallsWithinLimits ==
  \A g \in Gate : Len(Younger(calls, Window[g])) <= Limit[g] * (1 + Len(Younger(restarts, Window[g])))

-----------------------------------------------------------------------------
(* Why the invariant holds.                                                *)

\* Every call has left a token of the same age in each bucket, and a bucket that
\* was lost in a restart held no more than the limit.
EveryCallHasToken ==
  \A g \in Gate : \A k \in 0..Window[g] :
    Len(Younger(calls, k)) <= Len(Younger(buckets[g], k)) + Limit[g] * Len(Younger(restarts, k))

GatesInv == GatesTypeOK /\ EveryCallHasToken

=============================================================================
