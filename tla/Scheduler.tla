------------------------------ MODULE Scheduler ------------------------------
(***************************************************************************)
(* The recurring schedules and their file                                  *)
(* (src/src/core/src/core/scheduler.ts): tools create and cancel           *)
(* schedules, every change writes the whole list behind the writes before  *)
(* it, and a start restores the list.  Paws are up before the schedules    *)
(* are restored, so that a run can create one already then.                *)
(*                                                                         *)
(* A list of schedules is a function from ids to their contents.  What the *)
(* user can count on after a write is kept beside it in sure.              *)
(***************************************************************************)
EXTENDS Naturals, Sequences

CONSTANTS
  Id,         \* ids of schedules that tools create
  Content,    \* input and cron expression of a schedule
  Heartbeat,  \* the schedule that the engine makes from its configuration
  MaxChanges, \* bound: changes by tools
  MaxStops    \* bound: shutdowns and crashes

ASSUME SchedulerAssumption == Heartbeat \notin Id /\ MaxChanges \in Nat /\ MaxStops \in Nat
ASSUME ContentAssumption == {"none", "unsure"} \cap Content = {}

VARIABLES
  phase,     \* of the process
  schedules, \* the schedules in memory, whose jobs run
  read,      \* what restore has read
  chain,     \* lists to be written, the first of them in progress if open
  open,
  file,      \* the schedules file
  sure,      \* by id: the content or the absence that a finished write has saved
  loose,     \* ids changed without a write: a bad cron, a failed write, before restore
  changes, stops \* counters of the bounds

schedulerVars == <<phase, schedules, read, chain, open, file, sure, loose, changes, stops>>

None == "none"
Unsure == "unsure"
List == UNION {[S -> Content] : S \in SUBSET (Id \cup {Heartbeat})}
Saved == UNION {[S -> Content] : S \in SUBSET Id}
Empty == [i \in {} |-> None]

\* What the file holds: a list, or what does not parse.
Whole(list) == [whole |-> TRUE, list |-> list]
Torn == [whole |-> FALSE, list |-> Empty]

Only(list, S) == [i \in DOMAIN list \cap S |-> list[i]]

Single(i, c) == [j \in {i} |-> c]

\* The schedules of more take the place of those of list with the same ids.
Over(more, list) ==
  [i \in DOMAIN more \cup DOMAIN list |-> IF i \in DOMAIN more THEN more[i] ELSE list[i]]

SchedulerInit ==
  /\ phase = "down"
  /\ schedules = Empty /\ read = Torn
  /\ chain = << >> /\ open = FALSE
  /\ file \in {Whole(list) : list \in Saved}
  /\ sure = [i \in Id |-> IF i \in DOMAIN file.list THEN file.list[i] ELSE Unsure]
  /\ loose = {}
  /\ changes = 0 /\ stops = 0

-----------------------------------------------------------------------------
\* The file.

\* Mutant: a write overtakes those that wait, as if they were not chained.
QueuedAhead(list) == IF chain = << >> THEN <<list>> ELSE <<Head(chain), list>> \o Tail(chain)

\* persist: the heartbeat is not saved.
Queued(list) == Append(chain, list)

Persists(list) == chain' = Queued(Only(list, Id))

\* A list without schedules does not replace one with schedules.
Refused(list) == DOMAIN list = {} /\ DOMAIN file.list # {}

WriteBegins ==
  /\ chain # << >> /\ ~open
  /\ IF Refused(Head(chain))
     THEN chain' = Tail(chain) /\ UNCHANGED <<open, file>>
     ELSE open' = TRUE /\ file' = Torn /\ UNCHANGED chain
  /\ UNCHANGED <<phase, schedules, read, sure, loose, changes, stops>>

WriteEnds ==
  /\ open
  /\ file' = Whole(Head(chain)) /\ chain' = Tail(chain) /\ open' = FALSE
  /\ sure' = IF Tail(chain) # << >> \/ phase # "up" THEN sure
             ELSE [i \in Id |-> IF i \in loose THEN Unsure
                                ELSE IF i \in DOMAIN schedules THEN schedules[i] ELSE None]
  /\ UNCHANGED <<phase, schedules, read, loose, changes, stops>>

\* The failure is caught and the chain goes on: the file is the old one, or torn
\* if the write had begun, and memory is not saved before the next change.
WriteFails ==
  /\ chain # << >> /\ (open \/ ~Refused(Head(chain)))
  /\ chain' = Tail(chain) /\ open' = FALSE
  /\ sure' = IF open THEN [i \in Id |-> Unsure] ELSE sure
  /\ loose' = IF Tail(chain) = << >> THEN Id ELSE loose
  /\ UNCHANGED <<phase, schedules, read, file, changes, stops>>

-----------------------------------------------------------------------------
\* The tools.

\* A change is not sure until it is written; one before restore leaves nothing
\* sure, since its write holds none of what is to be restored.
Changed(i) ==
  /\ changes < MaxChanges /\ changes' = changes + 1
  /\ phase \in {"starting", "reading", "up"}
  /\ sure' = [j \in Id |-> IF j = i \/ phase # "up" THEN Unsure ELSE sure[j]]
  /\ loose' = IF phase = "up" THEN {} ELSE Id

Add(i, c) ==
  /\ Changed(i)
  /\ schedules' = Over(Single(i, c), schedules)
  /\ Persists(schedules')
  /\ UNCHANGED <<phase, read, open, file, stops>>

\* A cron expression that does not parse: the old schedule is gone by then, and
\* nothing is written.
AddBadCron(i) ==
  /\ changes < MaxChanges /\ changes' = changes + 1
  /\ phase \in {"starting", "reading", "up"} /\ i \in DOMAIN schedules
  /\ schedules' = Only(schedules, DOMAIN schedules \ {i})
  /\ sure' = [sure EXCEPT ![i] = Unsure]
  /\ loose' = loose \cup {i}
  /\ UNCHANGED <<phase, read, chain, open, file, stops>>

Cancel(i) ==
  /\ i \in DOMAIN schedules /\ Changed(i)
  /\ schedules' = Only(schedules, DOMAIN schedules \ {i})
  /\ Persists(schedules')
  /\ UNCHANGED <<phase, read, open, file, stops>>

-----------------------------------------------------------------------------
\* Start and end of the process.

Start ==
  /\ phase = "down"
  /\ phase' = "starting"
  /\ UNCHANGED <<schedules, read, chain, open, file, sure, loose, changes, stops>>

RestoreReads ==
  /\ phase = "starting"
  /\ phase' = "reading" /\ read' = file
  /\ UNCHANGED <<schedules, chain, open, file, sure, loose, changes, stops>>

\* The file's schedules replace those made meanwhile under the same ids; a file
\* that does not parse restores nothing.  The heartbeat comes last, and its
\* creation writes the list.
Restored == Over(read.list, schedules)

Beats(on, c) == IF on THEN Over(Single(Heartbeat, c), Restored) ELSE Restored

\* Mutant: the restored schedules are saved one by one.
RestoreEndsSaving ==
  /\ phase = "reading"
  /\ phase' = "up" /\ read' = Torn
  /\ schedules' = Restored
  /\ chain' = IF DOMAIN Restored = {} THEN chain
              ELSE chain \o <<Only(Restored, {CHOOSE i \in DOMAIN Restored : TRUE}), Only(Restored, Id)>>
  /\ UNCHANGED <<open, file, sure, loose, changes, stops>>

RestoreEnds ==
  /\ phase = "reading"
  /\ phase' = "up" /\ read' = Torn
  /\ \E on \in BOOLEAN, c \in Content :
       /\ schedules' = Beats(on, c)
       /\ IF on THEN Persists(schedules') /\ loose' = {} ELSE UNCHANGED <<chain, loose>>
  /\ UNCHANGED <<open, file, sure, changes, stops>>

\* A crash, or a shutdown, whose clearAll keeps writes that wait from being
\* made; a write in progress may still come to its end.
Stops ==
  /\ stops < MaxStops /\ stops' = stops + 1
  /\ phase # "down" /\ phase' = "down"
  /\ schedules' = Empty /\ read' = Torn
  /\ chain' = << >> /\ open' = FALSE
  /\ file' \in IF open THEN {Torn, Whole(Head(chain))} ELSE {file}
  /\ sure' = IF open THEN [i \in Id |-> Unsure] ELSE sure
  /\ loose' = {}
  /\ UNCHANGED changes

SchedulerNext ==
  \/ WriteBegins \/ WriteEnds \/ WriteFails
  \/ \E i \in Id : AddBadCron(i) \/ Cancel(i) \/ \E c \in Content : Add(i, c)
  \/ Start \/ RestoreReads \/ RestoreEnds \/ Stops

SchedulerSpec == SchedulerInit /\ [][SchedulerNext]_schedulerVars

-----------------------------------------------------------------------------
SchedulerTypeOK ==
  /\ phase \in {"down", "starting", "reading", "up"}
  /\ schedules \in List
  /\ {read, file} \subseteq {Torn} \cup {Whole(list) : list \in Saved}
  /\ chain \in Seq(Saved) /\ open \in BOOLEAN /\ (open => chain # << >>)
  /\ sure \in [Id -> Content \cup {None, Unsure}] /\ loose \subseteq Id
  /\ changes \in 0..MaxChanges /\ stops \in 0..MaxStops

\* Once the writes have drained, the file holds the schedules that run, in
\* whatever order tools, restore and writes came.  Excepted are an empty list,
\* schedules that a bad cron expression took from memory only, a last write that
\* failed, and changes made before the schedules were restored, until the next
\* change.
FileFollows ==
  phase = "up" /\ chain = << >> /\ loose = {} /\ DOMAIN schedules \cap Id # {}
    => file = Whole(Only(schedules, Id))

\* A list has what is sure of a schedule: its content or its absence.
Agrees(list, i, what) ==
  /\ what \in Content => i \in DOMAIN list /\ list[i] = what
  /\ what = None => i \notin DOMAIN list

\* What a finished write has saved holds after any number of restarts: a
\* schedule that was made runs with its content, and one that was cancelled does
\* not run.  Excepted are a stop or a failure during a write, and the last
\* cancelled schedule, whose absence is never written.
RestartKeeps == phase = "up" => \A i \in Id : Agrees(schedules, i, sure[i])

-----------------------------------------------------------------------------
\* Why they hold.  Until a tool changes something, a process that starts has
\* nothing in memory and nothing to write, and what it has read is the file;
\* a change before the restore leaves nothing sure.
NothingBeforeRestore ==
  /\ phase \in {"down", "starting", "reading"} /\ loose = {} =>
       schedules = Empty /\ chain = << >> /\ (phase = "reading" => read = file)
  /\ phase = "down" => loose = {}
  /\ phase \in {"starting", "reading"} /\ loose # {} =>
       loose = Id /\ \A i \in Id : sure[i] = Unsure

SameAt(i, list, other) ==
  /\ i \in DOMAIN list <=> i \in DOMAIN other
  /\ i \in DOMAIN list => list[i] = other[i]

\* The last list to be written is what memory holds, but for what is loose.
LastIsCurrent ==
  phase = "up" /\ chain # << >> =>
    \A i \in Id \ loose : SameAt(i, chain[Len(chain)], schedules)

\* Wherever a restart could take its schedules from, it finds what is sure.
SureEverywhere ==
  \A i \in Id : /\ ~open => Agrees(file.list, i, sure[i])
                /\ \A k \in DOMAIN chain : Agrees(chain[k], i, sure[i])
                /\ phase = "reading" => Agrees(read.list, i, sure[i])

SchedulerInv == SchedulerTypeOK /\ FileFollows /\ RestartKeeps /\ NothingBeforeRestore /\ LastIsCurrent /\ SureEverywhere
=============================================================================
