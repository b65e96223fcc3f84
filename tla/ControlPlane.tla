---------------------------- MODULE ControlPlane ----------------------------
(***************************************************************************)
(* How the control plane supervises the engine of one agent                *)
(* (src/src/core/src/agent/control-plane.ts): start, stop and remove, each *)
(* with the await in its middle; the requests the dashboard sends over     *)
(* IPC; and what arrives from a process after the plane has let it go.     *)
(* Everything the plane keeps about the agent is found by the agent's id,  *)
(* whichever process a message or an exit comes from.                      *)
(*                                                                         *)
(* A process that was told to end does end: execa sends SIGKILL after the  *)
(* same five seconds, half a second before a removal stops waiting for it. *)
(* Its answers reach the plane while it lives.  startAgent is called with  *)
(* ids; an agent's name, which it would take too, is not known to its      *)
(* check.                                                                  *)
(***************************************************************************)
EXTENDS Naturals, FiniteSets

CONSTANTS
  MaxProcs,   \* bound: processes ever spawned
  Call,       \* the requests ever made of the agent
  MaxStarts   \* bound: starts in flight at once

ASSUME BoundsAssumption == MaxProcs \in Nat \ {0} /\ MaxStarts \in Nat \ {0}

VARIABLES
  orderly,     \* chosen once: starts, stops and removals wait until the one before
               \* has taken effect
  child,       \* children.get(id): the process on record, or None
  life,        \* what became of each process
  ready,       \* the promise callAgent waits for, per process
  nextId,      \* the next request id, per process
  call,        \* each request: its state, the process asked, its id, whether
               \* that process still has it to answer, and who answered
  starts,      \* startAgent calls waiting for the registry
  removal,     \* removeAgent: not called, waiting for an exit, over, or over without it
  registered,  \* the agent is in the registry
  directory    \* the agent's directory exists

vars == <<orderly, child, life, ready, nextId, call, starts, removal, registered, directory>>

None == 0
Proc == 1..MaxProcs
Alive == {p \in Proc : life[p] \in {"up", "ending"}}
Settled == {"resolved", "rejected"}
Request == [state : {"new", "waiting", "pending"} \cup Settled, to : Proc \cup {None}, id : Nat,
            open : BOOLEAN, by : Proc \cup {None}]

Init ==
  /\ orderly \in BOOLEAN
  /\ child = None
  /\ life = [p \in Proc |-> "unborn"]
  /\ ready = [p \in Proc |-> FALSE]
  /\ nextId = [p \in Proc |-> 1]
  /\ call = [c \in Call |-> [state |-> "new", to |-> None, id |-> 0, open |-> FALSE, by |-> None]]
  /\ starts = 0
  /\ removal = [stage |-> "none", of |-> None]
  /\ registered = TRUE
  /\ directory = TRUE

\* No start or removal is under way and every process let go has been seen to
\* exit.
Quiet ==
  /\ starts = 0 /\ removal.stage # "waiting"
  /\ \A p \in Proc : life[p] \in {"ending", "dead"} => p = child

Asked == orderly => Quiet

PendingOf(p) == {c \in Call : call[c].state = "pending" /\ call[c].to = p}

RejectAll(C) == [c \in Call |-> IF c \in C THEN [call[c] EXCEPT !.state = "rejected"] ELSE call[c]]

-----------------------------------------------------------------------------
(* startAgent, stopAgent, removeAgent, shutdown. *)

\* Mutant: does not look whether an engine is running.
StartChecksNothing ==
  /\ Asked
  /\ starts < MaxStarts
  /\ starts' = starts + 1
  /\ UNCHANGED <<orderly, child, life, ready, nextId, call, removal, registered, directory>>

StartChecks ==
  /\ Asked
  /\ starts < MaxStarts
  /\ child = None
  /\ starts' = starts + 1
  /\ UNCHANGED <<orderly, child, life, ready, nextId, call, removal, registered, directory>>

StartFails ==
  /\ starts > 0
  /\ ~registered
  /\ starts' = starts - 1
  /\ UNCHANGED <<orderly, child, life, ready, nextId, call, removal, registered, directory>>

\* After the await nothing is checked again: the record is overwritten.
StartSpawns ==
  /\ starts > 0
  /\ registered
  /\ starts' = starts - 1
  /\ \E p \in Proc :
       /\ life[p] = "unborn" /\ \A q \in Proc : q < p => life[q] # "unborn"
       /\ life' = [life EXCEPT ![p] = "up"]
       /\ child' = p
  /\ UNCHANGED <<orderly, ready, nextId, call, removal, registered, directory>>

\* SIGTERM, if it is still there to receive one.
Terminate(p) == life' = [life EXCEPT ![p] = IF @ = "up" THEN "ending" ELSE @]

LetGo(p) ==
  /\ child' = None
  /\ Terminate(p)
  /\ call' = RejectAll(PendingOf(p))

Stop ==
  /\ Asked
  /\ child # None
  /\ LetGo(child)
  /\ UNCHANGED <<orderly, ready, nextId, starts, removal, registered, directory>>

\* Told to everybody at once, whatever is under way; the requests are left to
\* their timers.
Shutdown ==
  /\ child # None
  /\ child' = None
  /\ Terminate(child)
  /\ UNCHANGED <<orderly, ready, nextId, call, starts, removal, registered, directory>>

Purges(stage) ==
  /\ removal' = [removal EXCEPT !.stage = stage]
  /\ registered' = FALSE
  /\ directory' = FALSE

\* Mutant: does not wait for the process it stopped.
RemoveRunningAtOnce ==
  /\ Asked
  /\ removal.stage = "none"
  /\ child # None
  /\ LetGo(child)
  /\ Purges("done")
  /\ UNCHANGED <<orderly, ready, nextId, starts>>

RemoveRunning ==
  /\ Asked
  /\ removal.stage = "none"
  /\ child # None
  /\ LetGo(child)
  /\ removal' = [stage |-> "waiting", of |-> child]
  /\ UNCHANGED <<orderly, ready, nextId, starts, registered, directory>>

\* The process it was told to wait for is the one on record: without a record
\* there is nothing to wait for.
RemoveStopped ==
  /\ Asked
  /\ removal.stage = "none"
  /\ child = None
  /\ Purges("done")
  /\ UNCHANGED <<orderly, child, life, ready, nextId, call, starts>>

RemovePurges ==
  /\ removal.stage = "waiting"
  /\ life[removal.of] \in {"dead", "gone"}
  /\ Purges("done")
  /\ UNCHANGED <<orderly, child, life, ready, nextId, call, starts>>

\* Its timer has run out before the process ended.
RemoveGivesUp ==
  /\ removal.stage = "waiting"
  /\ removal.of \in Alive
  /\ Purges("forced")
  /\ UNCHANGED <<orderly, child, life, ready, nextId, call, starts>>

-----------------------------------------------------------------------------
(* callAgent. *)

CallRefused(c) ==
  /\ call[c].state = "new"
  /\ child = None
  /\ call' = RejectAll({c})
  /\ UNCHANGED <<orderly, child, life, ready, nextId, starts, removal, registered, directory>>

CallWaits(c) ==
  /\ call[c].state = "new"
  /\ child # None
  /\ call' = [call EXCEPT ![c] = [state |-> IF ready[child] THEN "pending" ELSE "waiting",
                                   to |-> child, id |-> nextId[child], open |-> TRUE, by |-> None]]
  /\ nextId' = [nextId EXCEPT ![child] = @ + 1]
  /\ UNCHANGED <<orderly, child, life, ready, starts, removal, registered, directory>>

\* The engine says so, or eight seconds have passed: on record or not, dead or
\* not, the requests waiting are sent and their timers start.
BecomesReady(p) ==
  /\ life[p] # "unborn"
  /\ ~ready[p]
  /\ ready' = [ready EXCEPT ![p] = TRUE]
  /\ call' = [c \in Call |-> IF call[c].state = "waiting" /\ call[c].to = p
                             THEN [call[c] EXCEPT !.state = "pending"] ELSE call[c]]
  /\ UNCHANGED <<orderly, child, life, nextId, starts, removal, registered, directory>>

\* Mutant: the deadline only for requests still on record.
TimeoutOnRecord(c) ==
  /\ call[c].state = "pending"
  /\ call[c].to = child
  /\ call' = RejectAll({c})
  /\ UNCHANGED <<orderly, child, life, ready, nextId, starts, removal, registered, directory>>

Timeout(c) ==
  /\ call[c].state = "pending"
  /\ call' = RejectAll({c})
  /\ UNCHANGED <<orderly, child, life, ready, nextId, starts, removal, registered, directory>>

-----------------------------------------------------------------------------
(* What arrives from the processes. *)

\* Mutant: one table of requests for all processes.
SettlesById(d, id) == call[d].state = "pending" /\ call[d].id = id

\* The request an answer with this id settles: looked up in the record of
\* the moment.
Settles(d, id) == call[d].state = "pending" /\ call[d].to = child /\ call[d].id = id

\* Process p answers a request it was sent.
Answer(p) ==
  /\ p \in Alive
  /\ \E c \in Call :
       /\ call[c].to = p /\ call[c].state # "waiting" /\ call[c].open
       /\ \E d \in Call :
            /\ Settles(d, call[c].id)
            /\ call' = [call EXCEPT ![c].open = FALSE, ![d].state = "resolved", ![d].by = p]
  /\ UNCHANGED <<orderly, child, life, ready, nextId, starts, removal, registered, directory>>

\* A process shutting down writes its state.
Writes(p) ==
  /\ p \in Alive
  /\ directory' = TRUE
  /\ UNCHANGED <<orderly, child, life, ready, nextId, call, starts, removal, registered>>

\* It crashes, or has ended as told.
Dies(p) ==
  /\ p \in Alive
  /\ life' = [life EXCEPT ![p] = "dead"]
  /\ UNCHANGED <<orderly, child, ready, nextId, call, starts, removal, registered, directory>>

\* onChildExit(agentId): whoever is on record is taken to be the one that exited.
OnChildExit(p) ==
  /\ life[p] = "dead"
  /\ life' = [life EXCEPT ![p] = "gone"]
  /\ child' = None
  /\ call' = IF child = None THEN call ELSE RejectAll(PendingOf(child))
  /\ UNCHANGED <<orderly, ready, nextId, starts, removal, registered, directory>>

Next ==
  \/ StartChecks \/ StartFails \/ StartSpawns
  \/ Stop \/ Shutdown \/ RemoveRunning \/ RemoveStopped \/ RemovePurges \/ RemoveGivesUp
  \/ \E c \in Call : CallRefused(c) \/ CallWaits(c) \/ Timeout(c)
  \/ \E p \in Proc : BecomesReady(p) \/ Answer(p) \/ Writes(p) \/ Dies(p) \/ OnChildExit(p)

Spec == Init /\ [][Next]_vars

\* The two timers fire, exits are reported and a process told to end does.
FairSpec ==
  /\ Spec
  /\ \A c \in Call : WF_vars(Timeout(c))
  /\ \A p \in Proc : /\ WF_vars(BecomesReady(p)) /\ WF_vars(OnChildExit(p))
                     /\ WF_vars(life[p] = "ending" /\ Dies(p))

-----------------------------------------------------------------------------
(* What must hold. *)

\* Every variable keeps its type.
TypeOK ==
  /\ orderly \in BOOLEAN
  /\ child \in Proc \cup {None}
  /\ life \in [Proc -> {"unborn", "up", "ending", "dead", "gone"}]
  /\ ready \in [Proc -> BOOLEAN]
  /\ nextId \in [Proc -> Nat]
  /\ call \in [Call -> Request]
  /\ starts \in 0..MaxStarts
  /\ removal \in [stage : {"none", "waiting", "done", "forced"}, of : Proc \cup {None}]
  /\ registered \in BOOLEAN /\ directory \in BOOLEAN

\* One engine per agent: a process nobody has told to end is the one on record,
\* so that it can be stopped.
EngineOnRecord == \A p \in Proc : life[p] = "up" => p = child

\* The dashboard is given the answer of the engine it asked.
AnsweredByAsked == \A c \in Call : call[c].state = "resolved" => call[c].by = call[c].to

\* A removed agent's directory does not come back, unless its engine outlived the
\* wait for its end.
DirectoryStaysGone == removal.stage = "done" => ~directory

\* The three hold, whatever crashes, as long as starts, stops and removals wait
\* for one another.
EngineOnRecordInOrder == orderly => EngineOnRecord
AnsweredByAskedInOrder == orderly => AnsweredByAsked
DirectoryStaysGoneInOrder == orderly => DirectoryStaysGone

\* Every request is answered, refused or timed out.
CallSettles == \A c \in Call : call[c].state = "waiting" ~> call[c].state \in Settled

-----------------------------------------------------------------------------
(* Why the three hold in order: at any time there is one process that has  *)
(* not been seen to exit, and who waits for it is known.                   *)

Around == {p \in Proc : life[p] \in {"up", "ending", "dead"}}

\* The process on record is the only one around, and nobody has told it to end.
RecordIsAlone == orderly /\ child # None => Around \subseteq {child} /\ life[child] # "ending"

\* A start that has passed its check finds nobody around.
StartFindsNobody == orderly /\ starts > 0 =>
  starts = 1 /\ child = None /\ Around = {} /\ removal.stage # "waiting"

\* A removal waits for the only process around, and leaves none that writes.
RemovalWaitsForLast == orderly =>
  /\ removal.stage = "waiting" => child = None /\ Around \subseteq {removal.of}
  /\ removal.stage = "done" => child = None /\ ~registered /\ Alive = {}

\* A request that waits for an answer was sent to a process.
AskedSomebody == \A c \in Call : call[c].state \in {"waiting", "pending"} => call[c].to \in Proc

Inv ==
  /\ TypeOK /\ EngineOnRecordInOrder /\ AnsweredByAskedInOrder /\ DirectoryStaysGoneInOrder
  /\ RecordIsAlone /\ StartFindsNobody /\ RemovalWaitsForLast /\ AskedSomebody

=============================================================================
