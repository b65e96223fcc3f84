----------------------------- MODULE Stores_proof -----------------------------
(***************************************************************************)
(* Proofs about the two stores that the engine keeps in files: the         *)
(* schedules, for every set of ids and contents and any number of changes  *)
(* and stops, and after them the project tasks, for any tasks, callers,    *)
(* budget, length of the file and number of crashes.                       *)
(***************************************************************************)
EXTENDS Scheduler, ProjectTasks, FiniteSetTheorems, WellFoundedInduction, SequenceTheorems, TLAPS

-----------------------------------------------------------------------------
(* Lists of schedules.                                                     *)

Ids == Id \cup {Heartbeat}

\* A list is a function from some of the ids to contents.
LEMMA ListMembers ==
  ASSUME NEW S, NEW f
  PROVE  f \in UNION {[D -> Content] : D \in SUBSET S}
           <=> f \in [DOMAIN f -> Content] /\ DOMAIN f \subseteq S
<1>1. ASSUME f \in UNION {[D -> Content] : D \in SUBSET S}
      PROVE  f \in [DOMAIN f -> Content] /\ DOMAIN f \subseteq S
  <2>1. PICK D \in SUBSET S : f \in [D -> Content]
    BY <1>1
  <2>2. DOMAIN f = D
    BY <2>1
  <2> QED BY <2>1, <2>2
<1>2. ASSUME f \in [DOMAIN f -> Content], DOMAIN f \subseteq S
      PROVE  f \in UNION {[D -> Content] : D \in SUBSET S}
  BY <1>2
<1> QED BY <1>1, <1>2

LEMMA EmptyIsSaved == Empty \in Saved /\ Empty \in List /\ DOMAIN Empty = {}
<1>1. DOMAIN Empty = {} /\ Empty \in [DOMAIN Empty -> Content]
  BY DEF Empty
<1> QED BY <1>1, ListMembers DEF Saved, List

\* What is kept of a list.
LEMMA OnlyOf ==
  ASSUME NEW list \in List, NEW S
  PROVE  /\ DOMAIN Only(list, S) = DOMAIN list \cap S
         /\ \A i \in DOMAIN list \cap S : Only(list, S)[i] = list[i]
         /\ Only(list, S) \in List
         /\ S \subseteq Id => Only(list, S) \in Saved
<1> DEFINE o == Only(list, S)
<1>1. list \in [DOMAIN list -> Content] /\ DOMAIN list \subseteq Ids
  BY ListMembers DEF List, Ids
<1>2. DOMAIN o = DOMAIN list \cap S /\ \A i \in DOMAIN list \cap S : o[i] = list[i]
  BY DEF Only
<1>3. o \in [DOMAIN o -> Content]
  BY <1>1 DEF Only
<1>4. o \in List
  BY <1>1, <1>2, <1>3, ListMembers DEF List, Ids
<1>5. S \subseteq Id => o \in Saved
  BY <1>2, <1>3, ListMembers DEF Saved
<1> QED BY <1>2, <1>4, <1>5

LEMMA SingleOf ==
  ASSUME NEW i \in Ids, NEW c \in Content
  PROVE  Single(i, c) \in List /\ DOMAIN Single(i, c) = {i} /\ Single(i, c)[i] = c
<1>1. DOMAIN Single(i, c) = {i} /\ Single(i, c)[i] = c
  BY DEF Single
<1>2. Single(i, c) \in [DOMAIN Single(i, c) -> Content]
  BY DEF Single
<1> QED BY <1>1, <1>2, ListMembers DEF List, Ids

\* Laying one list over another.
LEMMA OverOf ==
  ASSUME NEW more \in List, NEW list \in List
  PROVE  /\ Over(more, list) \in List
         /\ DOMAIN Over(more, list) = DOMAIN more \cup DOMAIN list
         /\ \A i \in DOMAIN more : Over(more, list)[i] = more[i]
         /\ \A i \in DOMAIN list \ DOMAIN more : Over(more, list)[i] = list[i]
<1> DEFINE o == Over(more, list)
<1>1. /\ more \in [DOMAIN more -> Content] /\ DOMAIN more \subseteq Ids
      /\ list \in [DOMAIN list -> Content] /\ DOMAIN list \subseteq Ids
  BY ListMembers DEF List, Ids
<1>2. /\ DOMAIN o = DOMAIN more \cup DOMAIN list
      /\ \A i \in DOMAIN more : o[i] = more[i]
      /\ \A i \in DOMAIN list \ DOMAIN more : o[i] = list[i]
  BY DEF Over
<1>3. o \in [DOMAIN o -> Content]
  BY <1>1 DEF Over
<1> QED BY <1>1, <1>2, <1>3, ListMembers DEF List, Ids

LEMMA LastOfOne ==
  ASSUME NEW s \in Seq(Saved), s # << >>, Tail(s) = << >>
  PROVE  Len(s) = 1
<1>1. Len(Tail(s)) = Len(<< >>)
  OBVIOUS
<1>2. Len(<< >>) = 0
  BY EmptySeq
<1>3. Len(Tail(s)) = Len(s) - 1 /\ Len(s) \in Nat
  BY HeadTailProperties, LenProperties
<1> QED BY <1>1, <1>2, <1>3

LEMMA SavedIsList == ASSUME NEW list \in Saved PROVE list \in List
BY ListMembers DEF Saved, List

\* What a file or a read of it holds is always a list.
LEMMA ContentOfFile ==
  ASSUME NEW f \in {Torn} \cup {Whole(list) : list \in Saved}
  PROVE  f.list \in Saved /\ (DOMAIN f.list # {} => f = Whole(f.list))
<1>1. CASE f = Torn
  BY <1>1, EmptyIsSaved DEF Torn
<1>2. ASSUME NEW list \in Saved, f = Whole(list) PROVE f.list \in Saved /\ f = Whole(f.list)
  BY <1>2 DEF Whole
<1> QED BY <1>1, <1>2

-----------------------------------------------------------------------------
(* The invariant holds at the start.                                       *)

LEMMA SchedulerInvInit == SchedulerInit => SchedulerInv
<1> SUFFICES ASSUME SchedulerInit PROVE SchedulerInv
  OBVIOUS
<1> USE DEF SchedulerInit
<1>1. PICK list \in Saved : file = Whole(list)
  OBVIOUS
<1>2. file.list = list /\ list \in [DOMAIN list -> Content] /\ DOMAIN list \subseteq Id
  BY <1>1, ListMembers DEF Whole, Saved
<1>3. SchedulerTypeOK
  <2>1. sure \in [Id -> Content \cup {None, Unsure}]
    BY <1>2
  <2>2. << >> \in Seq(Saved)
    BY EmptySeq
  <2>3. 0 \in 0..MaxChanges /\ 0 \in 0..MaxStops
    BY SchedulerAssumption
  <2>4. {read, file} \subseteq {Torn} \cup {Whole(l) : l \in Saved}
    BY <1>1
  <2> QED BY <2>1, <2>2, <2>3, <2>4, EmptyIsSaved DEF SchedulerTypeOK
<1>4. \A i \in Id : Agrees(file.list, i, sure[i])
  BY <1>2, ContentAssumption DEF Agrees, None, Unsure
<1>5. NothingBeforeRestore /\ LastIsCurrent /\ FileFollows /\ RestartKeeps
  BY DEF NothingBeforeRestore, LastIsCurrent, FileFollows, RestartKeeps
<1>6. SureEverywhere
  <2>1. DOMAIN chain = {} /\ phase # "reading"
    OBVIOUS
  <2> QED BY <1>4, <2>1 DEF SureEverywhere
<1> QED BY <1>3, <1>5, <1>6 DEF SchedulerInv

-----------------------------------------------------------------------------
(* The writes keep it.                                                     *)

LEMMA WriteBeginsInv == ASSUME SchedulerInv, WriteBegins PROVE SchedulerInv'
<1> USE DEF SchedulerInv, WriteBegins
<1>1. chain \in Seq(Saved) /\ chain # << >>
  BY DEF SchedulerTypeOK
<1>2. CASE Refused(Head(chain))
  <2>1. /\ Tail(chain) \in Seq(Saved) /\ Len(Tail(chain)) = Len(chain) - 1
        /\ \A k \in 1..Len(Tail(chain)) : Tail(chain)[k] = chain[k + 1] /\ k + 1 \in 1..Len(chain)
        /\ Head(chain) = chain[1] /\ Len(chain) \in Nat \ {0}
    BY <1>1, HeadTailProperties, EmptySeq, LenProperties
  <2>2. SchedulerTypeOK'
    BY <1>2, <2>1 DEF SchedulerTypeOK
  <2>3. FileFollows'
    <3> SUFFICES ASSUME phase = "up", Tail(chain) = << >>, loose = {}, DOMAIN schedules \cap Id # {}
                 PROVE  FALSE
      BY <1>2 DEF FileFollows
    <3>1. Len(chain) = 1
      BY <1>1, LastOfOne
    <3>2. \A i \in Id : SameAt(i, chain[1], schedules)
      BY <1>1, <3>1 DEF LastIsCurrent
    <3> QED BY <1>2, <2>1, <3>2 DEF Refused, SameAt
  <2>4. RestartKeeps' /\ NothingBeforeRestore'
    BY <1>2, <2>1 DEF RestartKeeps, NothingBeforeRestore, Agrees
  <2>5. LastIsCurrent'
    <3> SUFFICES ASSUME phase = "up", Tail(chain) # << >>, NEW i \in Id \ loose
                 PROVE  SameAt(i, Tail(chain)[Len(Tail(chain))], schedules)
      BY <1>2 DEF LastIsCurrent, SameAt
    <3>1. Len(Tail(chain)) \in 1..Len(Tail(chain))
      BY <2>1, EmptySeq
    <3>2. Tail(chain)[Len(Tail(chain))] = chain[Len(chain)]
      BY <2>1, <3>1
    <3> QED BY <1>1, <3>2 DEF LastIsCurrent
  <2>6. SureEverywhere'
    <3>1. \A i \in Id, k \in DOMAIN Tail(chain) : Agrees(Tail(chain)[k], i, sure[i])
      BY <2>1, <1>1, LenProperties DEF SureEverywhere
    <3> QED BY <1>2, <3>1 DEF SureEverywhere, Agrees
  <2> QED BY <2>2, <2>3, <2>4, <2>5, <2>6
<1>3. CASE ~Refused(Head(chain))
  <2>1. SchedulerTypeOK'
    BY <1>1, <1>3 DEF SchedulerTypeOK
  <2>2. FileFollows' /\ RestartKeeps' /\ LastIsCurrent' /\ SureEverywhere'
    BY <1>1, <1>3 DEF FileFollows, RestartKeeps, LastIsCurrent, SureEverywhere, Agrees, SameAt
  <2>3. NothingBeforeRestore'
    BY <1>1, <1>3 DEF NothingBeforeRestore, SchedulerTypeOK
  <2> QED BY <2>1, <2>2, <2>3
<1> QED BY <1>2, <1>3

LEMMA WriteEndsInv == ASSUME SchedulerInv, WriteEnds PROVE SchedulerInv'
<1> USE DEF SchedulerInv, WriteEnds
<1>1. chain \in Seq(Saved) /\ chain # << >>
  BY DEF SchedulerTypeOK
<1>2. /\ Tail(chain) \in Seq(Saved) /\ Len(Tail(chain)) = Len(chain) - 1
      /\ \A k \in 1..Len(Tail(chain)) : Tail(chain)[k] = chain[k + 1] /\ k + 1 \in 1..Len(chain)
      /\ Head(chain) = chain[1] /\ Head(chain) \in Saved /\ Len(chain) \in Nat \ {0}
      /\ DOMAIN chain = 1..Len(chain) /\ DOMAIN Tail(chain) = 1..Len(Tail(chain))
  BY <1>1, HeadTailProperties, EmptySeq, LenProperties
<1>3. file'.list = Head(chain)
  BY DEF Whole
<1>4. phase \in {"starting", "reading", "up"}
  BY <1>1 DEF SchedulerTypeOK, NothingBeforeRestore
<1>5. \A i \in Id : Agrees(Head(chain), i, sure[i])
  BY <1>2 DEF SureEverywhere
<1>6. Tail(chain) # << >> => Len(Tail(chain)) \in 1..Len(Tail(chain)) /\ Tail(chain)[Len(Tail(chain))] = chain[Len(chain)]
  BY <1>2, EmptySeq
<1>7. schedules \in [DOMAIN schedules -> Content]
  BY ListMembers DEF SchedulerTypeOK, List
<1>8. SchedulerTypeOK'
  <2>1. sure' \in [Id -> Content \cup {None, Unsure}]
    BY <1>7 DEF SchedulerTypeOK
  <2> QED BY <1>2, <2>1 DEF SchedulerTypeOK
<1>9. NothingBeforeRestore'
  BY <1>1, <1>4 DEF NothingBeforeRestore
<1>10. CASE Tail(chain) # << >> \/ phase # "up"
  <2>1. FileFollows' /\ RestartKeeps'
    BY <1>10 DEF FileFollows, RestartKeeps, Agrees
  <2>2. LastIsCurrent'
    BY <1>1, <1>6, <1>10 DEF LastIsCurrent, SameAt
  <2>3. SureEverywhere'
    <3>1. \A i \in Id, k \in DOMAIN Tail(chain) : Agrees(Tail(chain)[k], i, sure[i])
      BY <1>2 DEF SureEverywhere
    <3>2. sure' = sure
      BY <1>10
    <3>3. \A i \in Id : phase = "reading" => Agrees(read.list, i, sure[i])
      BY DEF SureEverywhere
    <3> QED BY <1>3, <1>5, <3>1, <3>2, <3>3 DEF SureEverywhere, Agrees
  <2> QED BY <1>8, <1>9, <2>1, <2>2, <2>3
<1>11. CASE Tail(chain) = << >> /\ phase = "up"
  <2>1. Len(chain) = 1
    BY <1>1, <1>11, LastOfOne
  <2>2. \A i \in Id \ loose : SameAt(i, Head(chain), schedules)
    BY <1>1, <1>2, <1>11, <2>1 DEF LastIsCurrent
  <2>3. \A i \in Id : sure'[i] = IF i \in loose THEN Unsure ELSE IF i \in DOMAIN schedules THEN schedules[i] ELSE None
    BY <1>11
  <2>4. \A i \in Id : sure'[i] \notin Content \cup {None} \/ i \notin loose
    BY <2>3, ContentAssumption DEF None, Unsure
  <2>5. \A i \in Id \ loose :
          /\ i \in DOMAIN schedules => sure'[i] = schedules[i] /\ sure'[i] \in Content
          /\ i \notin DOMAIN schedules => sure'[i] = None
    BY <1>7, <2>3
  <2>6. FileFollows'
    <3> SUFFICES ASSUME loose = {} PROVE Whole(Head(chain)) = Whole(Only(schedules, Id))
      BY DEF FileFollows
    <3>1. Head(chain) \in [DOMAIN Head(chain) -> Content] /\ DOMAIN Head(chain) \subseteq Id
      BY <1>2, ListMembers DEF Saved
    <3>2. DOMAIN Head(chain) = DOMAIN schedules \cap Id
      BY <2>2, <3>1 DEF SameAt
    <3>3. Head(chain) = Only(schedules, Id)
      BY <2>2, <3>1, <3>2 DEF SameAt, Only
    <3> QED BY <3>3
  <2>7. RestartKeeps'
    <3>1. \A i \in Id : Agrees(schedules', i, sure'[i])
      BY <2>4, <2>5, ContentAssumption DEF Agrees, None
    <3> QED BY <3>1 DEF RestartKeeps
  <2>8. LastIsCurrent'
    BY <1>11 DEF LastIsCurrent
  <2>9. SureEverywhere'
    <3>1. \A i \in Id : Agrees(file'.list, i, sure'[i])
      BY <1>3, <2>2, <2>4, <2>5, ContentAssumption DEF Agrees, SameAt, None
    <3> QED BY <1>11, <3>1 DEF SureEverywhere
  <2> QED BY <1>8, <1>9, <2>6, <2>7, <2>8, <2>9
<1> QED BY <1>10, <1>11

-----------------------------------------------------------------------------
(* The tools keep it.                                                      *)

\* What becomes of the chain when a list is added to it.
LEMMA QueuedList ==
  ASSUME NEW s \in Seq(Saved), NEW list \in Saved
  PROVE  /\ Append(s, list) \in Seq(Saved) /\ Append(s, list) # << >>
         /\ Append(s, list)[Len(Append(s, list))] = list
         /\ \A k \in DOMAIN Append(s, list) : Append(s, list)[k] = list \/ (k \in DOMAIN s /\ Append(s, list)[k] = s[k])
<1> DEFINE a == Append(s, list)
<1>1. /\ DOMAIN s = 1..Len(s) /\ Len(s) \in Nat
      /\ a \in Seq(Saved) /\ Len(a) = Len(s) + 1 /\ DOMAIN a = 1..(Len(s) + 1)
      /\ \A k \in 1..Len(s) : a[k] = s[k]
      /\ a[Len(s) + 1] = list
  BY AppendProperties, LenProperties
<1>2. a # << >>
  BY AppendProperties
<1> HIDE DEF a
<1>3. \A k \in DOMAIN a : a[k] = list \/ (k \in DOMAIN s /\ a[k] = s[k])
  BY <1>1
<1> QED BY <1>1, <1>2, <1>3 DEF a

\* What is saved of a list.
LEMMA KeptOf ==
  ASSUME NEW list \in List
  PROVE  Only(list, Id) \in Saved /\ \A i \in Id : SameAt(i, Only(list, Id), list)
BY OnlyOf DEF SameAt

\* A change of one schedule that is written.
LEMMA ChangedInv ==
  ASSUME SchedulerInv, NEW i \in Id, Changed(i), schedules' \in List, Persists(schedules'),
         \A j \in Id \ {i} : SameAt(j, schedules', schedules),
         UNCHANGED <<phase, read, open, file, stops>>
  PROVE  SchedulerInv'
<1> USE DEF SchedulerInv, Changed
<1>1. Only(schedules', Id) \in Saved /\ \A j \in Id : SameAt(j, Only(schedules', Id), schedules')
  BY KeptOf
<1>2. /\ chain' \in Seq(Saved) /\ chain' # << >>
      /\ chain'[Len(chain')] = Only(schedules', Id)
      /\ \A k \in DOMAIN chain' : chain'[k] = Only(schedules', Id) \/ (k \in DOMAIN chain /\ chain'[k] = chain[k])
  BY <1>1, QueuedList DEF Persists, Queued, SchedulerTypeOK
<1>3. /\ \A j \in Id : sure'[j] = IF j = i \/ phase # "up" THEN Unsure ELSE sure[j]
      /\ sure' \in [Id -> Content \cup {None, Unsure}]
  BY DEF SchedulerTypeOK
<1>4. Unsure \notin Content \cup {None}
  BY ContentAssumption DEF None, Unsure
<1>5. SchedulerTypeOK'
  <2>1. changes' \in 0..MaxChanges
    BY SchedulerAssumption DEF SchedulerTypeOK
  <2> QED BY <1>2, <1>3, <2>1 DEF SchedulerTypeOK
<1>6. FileFollows'
  BY <1>2 DEF FileFollows
<1>7. ASSUME phase = "up" PROVE \A j \in Id : Agrees(schedules', j, sure'[j])
  BY <1>3, <1>4, <1>7 DEF RestartKeeps, Agrees, SameAt
<1>8. RestartKeeps'
  BY <1>7 DEF RestartKeeps, Agrees
<1>9. NothingBeforeRestore'
  BY <1>3 DEF NothingBeforeRestore
<1>10. LastIsCurrent'
  BY <1>1, <1>2 DEF LastIsCurrent, SameAt
<1>11. ASSUME NEW list, NEW j \in Id, Agrees(list, j, sure[j]) PROVE Agrees(list, j, sure'[j])
  BY <1>3, <1>4, <1>11 DEF Agrees
<1>12. \A j \in Id : Agrees(Only(schedules', Id), j, sure'[j])
  BY <1>1, <1>3, <1>4, <1>7 DEF Agrees, SameAt
<1>13. SureEverywhere'
  <2>1. \A j \in Id : (~open => Agrees(file'.list, j, sure'[j])) /\ (phase = "reading" => Agrees(read'.list, j, sure'[j]))
    BY <1>3, <1>4 DEF SureEverywhere, Agrees
  <2>2. \A j \in Id, k \in DOMAIN chain' : Agrees(chain'[k], j, sure'[j])
    <3> SUFFICES ASSUME NEW j \in Id, NEW k \in DOMAIN chain' PROVE Agrees(chain'[k], j, sure'[j])
      OBVIOUS
    <3>1. CASE chain'[k] = Only(schedules', Id)
      BY <1>12, <3>1 DEF Agrees
    <3>2. CASE k \in DOMAIN chain /\ chain'[k] = chain[k]
      BY <1>3, <1>4, <3>2 DEF SureEverywhere, Agrees
    <3> QED BY <1>2, <3>1, <3>2
  <2> QED BY <2>1, <2>2 DEF SureEverywhere, Agrees
<1> QED BY <1>5, <1>6, <1>8, <1>9, <1>10, <1>13

\* Taking one schedule out of a list.
LEMMA WithoutOf ==
  ASSUME NEW list \in List, NEW i
  PROVE  /\ Only(list, DOMAIN list \ {i}) \in List
         /\ \A j \in Id \ {i} : SameAt(j, Only(list, DOMAIN list \ {i}), list)
BY OnlyOf DEF SameAt

LEMMA AddInv == ASSUME SchedulerInv, NEW i \in Id, NEW c \in Content, Add(i, c) PROVE SchedulerInv'
<1>1. Single(i, c) \in List /\ DOMAIN Single(i, c) = {i}
  BY SingleOf DEF Ids
<1>2. schedules \in List
  BY DEF SchedulerInv, SchedulerTypeOK
<1>3. schedules' = Over(Single(i, c), schedules)
  BY DEF Add
<1>4. schedules' \in List
  BY <1>1, <1>2, <1>3, OverOf
<1>5. \A j \in Id \ {i} : SameAt(j, schedules', schedules)
  <2>1. /\ DOMAIN schedules' = {i} \cup DOMAIN schedules
        /\ \A j \in DOMAIN schedules \ {i} : schedules'[j] = schedules[j]
    BY <1>1, <1>2, <1>3, OverOf
  <2> QED BY <2>1 DEF SameAt
<1> QED BY <1>4, <1>5, ChangedInv DEF Add

LEMMA CancelInv == ASSUME SchedulerInv, NEW i \in Id, Cancel(i) PROVE SchedulerInv'
<1>1. schedules \in List
  BY DEF SchedulerInv, SchedulerTypeOK
<1>2. schedules' \in List /\ \A j \in Id \ {i} : SameAt(j, schedules', schedules)
  BY <1>1, WithoutOf DEF Cancel
<1> QED BY <1>2, ChangedInv DEF Cancel

LEMMA AddBadCronInv == ASSUME SchedulerInv, NEW i \in Id, AddBadCron(i) PROVE SchedulerInv'
<1> USE DEF SchedulerInv, AddBadCron
<1>1. schedules' \in List /\ \A j \in Id \ {i} : SameAt(j, schedules', schedules)
  BY WithoutOf DEF SchedulerTypeOK
<1>2. /\ \A j \in Id : sure'[j] = IF j = i THEN Unsure ELSE sure[j]
      /\ sure' \in [Id -> Content \cup {None, Unsure}]
  BY DEF SchedulerTypeOK
<1>3. Unsure \notin Content \cup {None}
  BY ContentAssumption DEF None, Unsure
<1>4. SchedulerTypeOK'
  <2>1. changes' \in 0..MaxChanges
    BY SchedulerAssumption DEF SchedulerTypeOK
  <2> QED BY <1>1, <1>2, <2>1 DEF SchedulerTypeOK
<1>5. FileFollows'
  BY DEF FileFollows
<1>6. RestartKeeps'
  BY <1>1, <1>2, <1>3 DEF RestartKeeps, Agrees, SameAt
<1>7. NothingBeforeRestore'
  BY <1>2, EmptyIsSaved DEF NothingBeforeRestore
<1>8. LastIsCurrent'
  BY <1>1 DEF LastIsCurrent, SameAt
<1>9. SureEverywhere'
  BY <1>2, <1>3 DEF SureEverywhere, Agrees
<1> QED BY <1>4, <1>5, <1>6, <1>7, <1>8, <1>9

-----------------------------------------------------------------------------
(* Start and end of the process keep it.                                   *)

LEMMA StartInv == ASSUME SchedulerInv, Start PROVE SchedulerInv'
<1> USE DEF SchedulerInv, Start
<1>1. SchedulerTypeOK' /\ FileFollows' /\ RestartKeeps' /\ LastIsCurrent'
  BY DEF SchedulerTypeOK, FileFollows, RestartKeeps, LastIsCurrent
<1>2. NothingBeforeRestore' /\ SureEverywhere'
  BY DEF NothingBeforeRestore, SureEverywhere
<1> QED BY <1>1, <1>2

LEMMA RestoreReadsInv == ASSUME SchedulerInv, RestoreReads PROVE SchedulerInv'
<1> USE DEF SchedulerInv, RestoreReads
<1>1. SchedulerTypeOK' /\ FileFollows' /\ RestartKeeps' /\ LastIsCurrent'
  BY DEF SchedulerTypeOK, FileFollows, RestartKeeps, LastIsCurrent
<1>2. NothingBeforeRestore'
  BY DEF NothingBeforeRestore
<1>3. ASSUME NEW i \in Id PROVE Agrees(file.list, i, sure[i])
  <2>1. CASE open
    <3>1. sure[i] = Unsure
      BY <2>1 DEF NothingBeforeRestore, SchedulerTypeOK
    <3> QED BY <3>1, ContentAssumption DEF Agrees, None, Unsure
  <2>2. CASE ~open
    BY <2>2 DEF SureEverywhere
  <2> QED BY <2>1, <2>2 DEF SchedulerTypeOK
<1>4. SureEverywhere'
  BY <1>3 DEF SureEverywhere
<1> QED BY <1>1, <1>2, <1>4

\* What restore makes of the file and of what was made before it.
LEMMA RestoredList ==
  ASSUME SchedulerInv, phase = "reading"
  PROVE  /\ Restored \in List
         /\ \A i \in Id : Agrees(Restored, i, sure[i])
         /\ loose = {} => file = read /\ \A i \in Id : SameAt(i, Restored, read.list)
<1> USE DEF SchedulerInv
<1>1. read.list \in List /\ schedules \in List
  BY ContentOfFile, SavedIsList DEF SchedulerTypeOK
<1>2. /\ Restored \in List
      /\ DOMAIN Restored = DOMAIN read.list \cup DOMAIN schedules
      /\ \A i \in DOMAIN read.list : Restored[i] = read.list[i]
  BY <1>1, OverOf DEF Restored
<1>3. CASE loose = {}
  <2>1. DOMAIN schedules = {} /\ file = read
    BY <1>3, EmptyIsSaved DEF NothingBeforeRestore
  <2>2. \A i \in Id : SameAt(i, Restored, read.list)
    BY <1>2, <2>1 DEF SameAt
  <2>3. \A i \in Id : Agrees(read.list, i, sure[i])
    BY DEF SureEverywhere
  <2> QED BY <1>2, <2>1, <2>2, <2>3 DEF Agrees, SameAt
<1>4. CASE loose # {}
  <2>1. \A i \in Id : sure[i] = Unsure
    BY <1>4 DEF NothingBeforeRestore
  <2> QED BY <1>2, <1>4, <2>1, ContentAssumption DEF Agrees, None, Unsure
<1> QED BY <1>3, <1>4

\* Without a heartbeat nothing is written.
LEMMA RestoreOnlyInv ==
  ASSUME SchedulerInv, phase = "reading", phase' = "up", read' = Torn, schedules' = Restored,
         UNCHANGED <<chain, loose, open, file, sure, changes, stops>>
  PROVE  SchedulerInv'
<1> USE DEF SchedulerInv
<1>1. /\ Restored \in List
      /\ \A i \in Id : Agrees(Restored, i, sure[i])
      /\ loose = {} => file = read /\ \A i \in Id : SameAt(i, Restored, read.list)
  BY RestoredList
<1>2. SchedulerTypeOK'
  BY <1>1 DEF SchedulerTypeOK
<1>3. FileFollows'
  <2> SUFFICES ASSUME loose = {}, DOMAIN Restored \cap Id # {}
               PROVE  file = Whole(Only(Restored, Id))
    BY DEF FileFollows
  <2>1. /\ file = read /\ \A i \in Id : SameAt(i, Restored, read.list)
        /\ read.list \in Saved
        /\ DOMAIN read.list # {} => read = Whole(read.list)
    BY <1>1, ContentOfFile DEF SchedulerTypeOK
  <2>2. read.list \in [DOMAIN read.list -> Content] /\ DOMAIN read.list \subseteq Id
    BY <2>1, ListMembers DEF Saved
  <2>3. DOMAIN read.list = DOMAIN Restored \cap Id
    BY <2>1, <2>2 DEF SameAt
  <2>4. read.list = Only(Restored, Id)
    BY <2>1, <2>2, <2>3 DEF SameAt, Only
  <2> QED BY <2>1, <2>3, <2>4
<1>4. RestartKeeps' /\ NothingBeforeRestore'
  BY <1>1 DEF RestartKeeps, NothingBeforeRestore
<1>5. LastIsCurrent'
  BY DEF LastIsCurrent, NothingBeforeRestore
<1>6. SureEverywhere'
  BY DEF SureEverywhere
<1> QED BY <1>2, <1>3, <1>4, <1>5, <1>6

\* The heartbeat is in memory and the list is written without it.
LEMMA RestoreAndBeatInv ==
  ASSUME SchedulerInv, phase = "reading", phase' = "up", read' = Torn, NEW c \in Content,
         schedules' = Over(Single(Heartbeat, c), Restored), Persists(schedules'), loose' = {},
         UNCHANGED <<open, file, sure, changes, stops>>
  PROVE  SchedulerInv'
<1> USE DEF SchedulerInv
<1>1. Restored \in List /\ \A i \in Id : Agrees(Restored, i, sure[i])
  BY RestoredList
<1>2. Single(Heartbeat, c) \in List /\ DOMAIN Single(Heartbeat, c) = {Heartbeat}
  BY SingleOf DEF Ids
<1>3. schedules' \in List /\ \A i \in Id : SameAt(i, schedules', Restored)
  BY <1>1, <1>2, OverOf, SchedulerAssumption DEF SameAt
<1>4. Only(schedules', Id) \in Saved /\ \A i \in Id : SameAt(i, Only(schedules', Id), schedules')
  BY <1>3, KeptOf
<1>5. /\ chain' \in Seq(Saved) /\ chain' # << >>
      /\ chain'[Len(chain')] = Only(schedules', Id)
      /\ \A k \in DOMAIN chain' : chain'[k] = Only(schedules', Id) \/ (k \in DOMAIN chain /\ chain'[k] = chain[k])
  BY <1>4, QueuedList DEF Persists, Queued, SchedulerTypeOK
<1>6. SchedulerTypeOK'
  BY <1>3, <1>5 DEF SchedulerTypeOK
<1>7. FileFollows' /\ NothingBeforeRestore'
  BY <1>5 DEF FileFollows, NothingBeforeRestore
<1>8. \A i \in Id : Agrees(schedules', i, sure[i]) /\ Agrees(Only(schedules', Id), i, sure[i])
  BY <1>1, <1>3, <1>4 DEF Agrees, SameAt
<1>9. RestartKeeps' /\ LastIsCurrent'
  BY <1>4, <1>5, <1>8 DEF RestartKeeps, LastIsCurrent, SameAt
<1>10. SureEverywhere'
  BY <1>5, <1>8 DEF SureEverywhere
<1> QED BY <1>6, <1>7, <1>9, <1>10

LEMMA RestoreEndsInv == ASSUME SchedulerInv, RestoreEnds PROVE SchedulerInv'
<1>1. PICK on \in BOOLEAN, c \in Content :
        /\ schedules' = Beats(on, c)
        /\ IF on THEN Persists(schedules') /\ loose' = {} ELSE UNCHANGED <<chain, loose>>
  BY DEF RestoreEnds
<1>2. CASE on
  BY <1>1, <1>2, RestoreAndBeatInv DEF RestoreEnds, Beats
<1>3. CASE ~on
  BY <1>1, <1>3, RestoreOnlyInv DEF RestoreEnds, Beats
<1> QED BY <1>2, <1>3

LEMMA StopsInv == ASSUME SchedulerInv, Stops PROVE SchedulerInv'
<1> USE DEF SchedulerInv, Stops
<1>1. open => Head(chain) \in Saved
  BY HeadTailProperties DEF SchedulerTypeOK
<1>2. SchedulerTypeOK'
  <2>1. stops' \in 0..MaxStops
    BY SchedulerAssumption DEF SchedulerTypeOK
  <2>2. sure' \in [Id -> Content \cup {None, Unsure}]
    BY DEF SchedulerTypeOK
  <2>3. << >> \in Seq(Saved)
    BY EmptySeq
  <2>4. {read', file'} \subseteq {Torn} \cup {Whole(list) : list \in Saved}
    BY <1>1 DEF SchedulerTypeOK
  <2> QED BY <2>1, <2>2, <2>3, <2>4, EmptyIsSaved DEF SchedulerTypeOK
<1>3. FileFollows' /\ RestartKeeps' /\ NothingBeforeRestore' /\ LastIsCurrent'
  BY DEF FileFollows, RestartKeeps, NothingBeforeRestore, LastIsCurrent
<1>4. ASSUME NEW i \in Id PROVE Agrees(file'.list, i, sure'[i])
  <2>1. CASE open
    BY <2>1, ContentAssumption DEF Agrees, None, Unsure
  <2>2. CASE ~open
    BY <2>2 DEF SureEverywhere
  <2> QED BY <2>1, <2>2 DEF SchedulerTypeOK
<1>5. SureEverywhere'
  <2>1. DOMAIN chain' = {} /\ phase' # "reading"
    OBVIOUS
  <2> QED BY <1>4, <2>1 DEF SureEverywhere
<1> QED BY <1>2, <1>3, <1>5

LEMMA WriteFailsInv == ASSUME SchedulerInv, WriteFails PROVE SchedulerInv'
<1> USE DEF SchedulerInv, WriteFails
<1>1. chain \in Seq(Saved) /\ chain # << >>
  BY DEF SchedulerTypeOK
<1>2. /\ Tail(chain) \in Seq(Saved) /\ Len(Tail(chain)) = Len(chain) - 1
      /\ \A k \in 1..Len(Tail(chain)) : Tail(chain)[k] = chain[k + 1] /\ k + 1 \in 1..Len(chain)
      /\ Len(chain) \in Nat \ {0}
      /\ DOMAIN chain = 1..Len(chain) /\ DOMAIN Tail(chain) = 1..Len(Tail(chain))
  BY <1>1, HeadTailProperties, EmptySeq, LenProperties
<1>3. \A i \in Id : sure'[i] = sure[i] \/ sure'[i] = Unsure
  BY DEF SchedulerTypeOK
<1>4. \A list, i : Agrees(list, i, Unsure)
  BY ContentAssumption DEF Agrees, Unsure, None
<1>5. phase \in {"starting", "reading", "up"}
  BY <1>1 DEF SchedulerTypeOK, NothingBeforeRestore
<1>6. SchedulerTypeOK'
  BY <1>2 DEF SchedulerTypeOK
<1>7. FileFollows' /\ RestartKeeps'
  <2>1. FileFollows'
    BY DEF FileFollows
  <2>2. RestartKeeps'
    BY <1>3, <1>4 DEF RestartKeeps, Agrees
  <2> QED BY <2>1, <2>2
<1>8. NothingBeforeRestore'
  BY <1>1, <1>3, <1>5 DEF NothingBeforeRestore
<1>9. LastIsCurrent'
  <2>1. Tail(chain) # << >> => Tail(chain)[Len(Tail(chain))] = chain[Len(chain)] /\ loose' = loose
    BY <1>2, EmptySeq
  <2> QED BY <1>1, <2>1 DEF LastIsCurrent, SameAt
<1>10. SureEverywhere'
  <2> SUFFICES ASSUME NEW i \in Id
        PROVE  /\ Agrees(file.list, i, sure'[i])
               /\ \A k \in DOMAIN Tail(chain) : Agrees(Tail(chain)[k], i, sure'[i])
               /\ phase = "reading" => Agrees(read.list, i, sure'[i])
    BY DEF SureEverywhere
  <2>1. CASE open
    BY <1>4, <2>1
  <2>2. CASE ~open
    BY <1>2, <2>2 DEF SureEverywhere
  <2> QED BY <2>1, <2>2
<1> QED BY <1>6, <1>7, <1>8, <1>9, <1>10

-----------------------------------------------------------------------------
(* The theorems.                                                           *)

LEMMA SchedulerInvStep == SchedulerInv /\ [SchedulerNext]_schedulerVars => SchedulerInv'
<1> SUFFICES ASSUME SchedulerInv, [SchedulerNext]_schedulerVars PROVE SchedulerInv'
  OBVIOUS
<1>1. CASE WriteBegins
  BY <1>1, WriteBeginsInv
<1>2. CASE WriteEnds
  BY <1>2, WriteEndsInv
<1>3. ASSUME NEW i \in Id, AddBadCron(i) PROVE SchedulerInv'
  BY <1>3, AddBadCronInv
<1>4. ASSUME NEW i \in Id, Cancel(i) PROVE SchedulerInv'
  BY <1>4, CancelInv
<1>5. ASSUME NEW i \in Id, NEW c \in Content, Add(i, c) PROVE SchedulerInv'
  BY <1>5, AddInv
<1>6. CASE Start
  BY <1>6, StartInv
<1>7. CASE RestoreReads
  BY <1>7, RestoreReadsInv
<1>8. CASE RestoreEnds
  BY <1>8, RestoreEndsInv
<1>9. CASE Stops
  BY <1>9, StopsInv
<1>10. CASE WriteFails
  BY <1>10, WriteFailsInv
<1>11. CASE UNCHANGED schedulerVars
  BY <1>11 DEF schedulerVars, SchedulerInv, SchedulerTypeOK, FileFollows, RestartKeeps, NothingBeforeRestore, LastIsCurrent, SureEverywhere
<1> QED BY <1>1, <1>2, <1>3, <1>4, <1>5, <1>6, <1>7, <1>8, <1>9, <1>10, <1>11 DEF SchedulerNext

\* The strengthening of the two properties is inductive.
THEOREM SchedulerInvariant == SchedulerSpec => []SchedulerInv
<1> QED BY SchedulerInvInit, SchedulerInvStep, PTL DEF SchedulerSpec

\* Whatever tools, heartbeat, restore and writes do in whatever order, a file
\* whose writes have drained holds the schedules that run.
THEOREM FileFollowsMemory == SchedulerSpec => []FileFollows
<1>1. SchedulerInv => FileFollows
  BY DEF SchedulerInv
<1> QED BY <1>1, SchedulerInvariant, PTL

\* What a finished write saved holds after any number of shutdowns, crashes and
\* restarts.
THEOREM RestartKeepsWhatIsSure == SchedulerSpec => []RestartKeeps
<1>1. SchedulerInv => RestartKeeps
  BY DEF SchedulerInv
<1> QED BY <1>1, SchedulerInvariant, PTL

-----------------------------------------------------------------------------
(* The last line of a task.                                                *)

\* A set of positions that is not empty has a last one.
LEMMA LastExists ==
  ASSUME NEW n \in Nat, NEW S \in SUBSET (1..n), S # {}
  PROVE  \E i \in S : \A j \in S : j <= i
<1> DEFINE After(i) == {j \in S : j > i}
           All == {After(i) : i \in S}
<1>1. IsFiniteSet(S)
  <2>1. IsFiniteSet(1..n)
    BY FS_Interval
  <2> QED BY <2>1, FS_Subset
<1>2. All \subseteq FiniteSubsetsOf(S)
  <2>1. \A i \in S : After(i) \subseteq S
    OBVIOUS
  <2>2. FiniteSubsetsOf(S) = SUBSET S
    BY <1>1, FS_FiniteSubsetsOfFinite
  <2> QED BY <2>1, <2>2
<1>3. IsWellFoundedOn(StrictSubsetOrdering(S), FiniteSubsetsOf(S))
  BY FS_StrictSubsetOrderingWellFounded
<1>4. All # {}
  OBVIOUS
<1>5. \E x \in All : \A y \in All : ~ (<<y, x>> \in StrictSubsetOrdering(S))
  <2> HIDE DEF All
  <2> QED BY <1>2, <1>3, <1>4, WFMin
<1>6. PICK i \in S : \A y \in All : ~ (<<y, After(i)>> \in StrictSubsetOrdering(S))
  BY <1>5
<1>7. ASSUME NEW j \in S, j > i PROVE FALSE
  <2>1. After(j) \subseteq After(i) /\ j \in After(i) /\ j \notin After(j)
    <3>1. i \in Int /\ j \in Int /\ \A k \in S : k \in Int
      OBVIOUS
    <3>2. j \in After(i) /\ j \notin After(j)
      BY <1>7, <3>1
    <3>3. \A k \in S : k > j => k > i
      BY <1>7, <3>1
    <3> QED BY <3>2, <3>3
  <2>2. <<After(j), After(i)>> \in StrictSubsetOrdering(S)
    BY <2>1 DEF StrictSubsetOrdering
  <2> QED BY <2>2, <1>6
<1> QED BY <1>7

\* What a task's last line says is what one of its lines says.
LEMMA CurrentIsALine ==
  ASSUME TypeOK, NEW t \in Known
  PROVE  \E i \in LinesOf(t) : Current(t) = lines[i]
<1>1. LinesOf(t) # {} /\ LinesOf(t) \in SUBSET (1..Len(lines)) /\ Len(lines) \in Nat
  BY LenProperties DEF Known, LinesOf, TypeOK
<1>2. \E i \in LinesOf(t) : \A j \in LinesOf(t) : j <= i
  BY <1>1, LastExists
<1> QED BY <1>2 DEF Current

LEMMA LineOf ==
  ASSUME TypeOK, NEW t, NEW i \in LinesOf(t)
  PROVE  lines[i] \in Line /\ lines[i].task = t /\ i \in DOMAIN lines
BY ElementOfSeq, LenProperties DEF LinesOf, TypeOK

LEMMA CurrentIsOfTask ==
  ASSUME TypeOK, NEW t \in Known
  PROVE  Current(t) \in Line /\ Current(t).task = t
BY CurrentIsALine, LineOf

\* A task that is done now has been verified.
LEMMA CurrentWasVerified ==
  ASSUME TypeOK, DoneWasVerified, NEW t \in Known \ spoiled, Current(t).state \in {"verifying", "done"}
  PROVE  \E j \in LinesOf(t) : lines[j].state = "verifying"
<1>1. PICK i \in LinesOf(t) : Current(t) = lines[i]
  BY CurrentIsALine
<1>2. i \in DOMAIN lines /\ lines[i].task = t
  BY LineOf
<1> QED BY <1>1, <1>2 DEF DoneWasVerified

\* Only a verified task becomes done.
LEMMA DoneOnlyFromVerifying ==
  ASSUME NEW from \in TaskState, LegalMove(from, "done")
  PROVE  from \in {"verifying", "done"}
BY DEF LegalMove, TaskState, Transitions, Keep

\* One more line leaves the others where they were.
LEMMA LinesAfterAppend ==
  ASSUME TypeOK, NEW line \in Line, lines' = Append(lines, line)
  PROVE  /\ lines' \in Seq(Line) /\ DOMAIN lines' = DOMAIN lines \cup {Len(lines) + 1}
         /\ \A i \in DOMAIN lines : lines'[i] = lines[i] /\ i < Len(lines) + 1
         /\ lines'[Len(lines) + 1] = line
         /\ \A t : LinesOf(t) \subseteq LinesOf(t)' /\ Known \subseteq Known'
<1>1. lines \in Seq(Line) /\ Len(lines) \in Nat
  BY LenProperties DEF TypeOK
<1>2. /\ lines' \in Seq(Line) /\ DOMAIN lines' = DOMAIN lines \cup {Len(lines) + 1}
      /\ \A i \in DOMAIN lines : lines'[i] = lines[i] /\ i < Len(lines) + 1
      /\ lines'[Len(lines) + 1] = line
  BY <1>1, AppendProperties
<1>3. \A t : LinesOf(t) \subseteq LinesOf(t)'
  BY <1>2 DEF LinesOf
<1>4. Known \subseteq Known'
  BY <1>3 DEF Known
<1> QED BY <1>2, <1>3, <1>4

-----------------------------------------------------------------------------
(* The invariant holds at the start.                                       *)

LEMMA InvInit == Init => Inv
<1> SUFFICES ASSUME Init PROVE Inv
  OBVIOUS
<1> USE DEF Init
<1>1. lines \in Seq(Line) /\ DOMAIN lines = {} /\ \A w \in Writer : writer[w] = Idle
  BY EmptySeq
<1>2. TypeOK
  <2>1. tears \in 0..MaxTears /\ lost \in Nat
    BY BoundAssumption
  <2>2. writer \in [Writer -> {Idle} \cup Charging \cup Appending]
    OBVIOUS
  <2> QED BY <1>1, <2>1, <2>2 DEF TypeOK
<1>3. DoneWasVerified /\ ExhaustionStops
  BY <1>1 DEF DoneWasVerified, ExhaustionStops
<1>4. Idle.at = "idle"
  BY DEF Idle
<1>5. WritesWhatWasVerified /\ OneAtATime /\ ChargesWhatItRead /\ WritesWhatStops
  BY <1>1, <1>4 DEF WritesWhatWasVerified, OneAtATime, ChargesWhatItRead, WritesWhatStops
<1>6. TearCostsAtMostTwo /\ TornIsPaid
  BY DEF TearCostsAtMostTwo, TornIsPaid
<1> QED BY <1>2, <1>3, <1>5, <1>6 DEF Inv

-----------------------------------------------------------------------------
(* Steps of a call that leave the file as it is.                           *)

\* What the invariant asks of a call: of call w being at x.
CallOK(x) ==
  /\ x \in {Idle} \cup Charging \cup Appending
  /\ x.at = "append" /\ x.line.state = "done" /\ x.line.task \notin spoiled =>
       \E j \in LinesOf(x.line.task) : lines[j].state = "verifying"
  /\ x.at = "charge" => x.task \in Known \cup spoiled
  /\ serial /\ x.at = "charge" /\ x.task \in Known /\ x.used >= MaxIterations =>
       \/ x.state = "blocked" \/ Current(x.task).state \in TerminalStates
       \/ "blocked" \notin Transitions[Current(x.task).state]
  /\ serial /\ x.at = "append" /\ x.line.charge /\ x.line.used >= MaxIterations
       => x.line.state \notin {"running", "verifying", "waiting_approval"}

LEMMA CallsOK == ASSUME Inv PROVE \A w \in Writer : CallOK(writer[w])
BY DEF Inv, TypeOK, WritesWhatWasVerified, ChargesWhatItRead, WritesWhatStops, CallOK

LEMMA IdleOK == CallOK(Idle)
<1>1. Idle.at = "idle"
  BY DEF Idle
<1> QED BY <1>1 DEF CallOK

LEMMA CallStep ==
  ASSUME Inv, NEW w \in Writer, NEW x, CallOK(x), Goes(w, x),
         Free(w) \/ writer[w] # Idle,
         UNCHANGED <<serial, lines, tail, tears, lost, spoiled>>
  PROVE  Inv'
<1>1. writer' \in [Writer -> {Idle} \cup Charging \cup Appending]
  BY DEF Inv, TypeOK, CallOK, Goes
<1>2. \A v \in Writer : writer'[v] = IF v = w THEN x ELSE writer[v]
  BY DEF Inv, TypeOK, Goes
<1>3. \A v \in Writer : CallOK(writer'[v])
  BY <1>2, CallsOK
<1>4. TypeOK'
  BY <1>1 DEF Inv, TypeOK
<1>5. /\ \A t : LinesOf(t)' = LinesOf(t) /\ Current(t)' = Current(t)
      /\ Known' = Known
  BY DEF LinesOf, Current, Known
<1>6. (WritesWhatWasVerified /\ ChargesWhatItRead /\ WritesWhatStops)'
  BY <1>3, <1>5 DEF CallOK, WritesWhatWasVerified, ChargesWhatItRead, WritesWhatStops
<1>7. OneAtATime'
  <2> SUFFICES ASSUME serial, NEW u \in Writer, NEW v \in Writer, writer'[u] # Idle, writer'[v] # Idle
               PROVE  u = v
    BY DEF OneAtATime
  <2>1. \A a, b \in Writer : writer[a] # Idle /\ writer[b] # Idle => a = b
    BY DEF Inv, OneAtATime
  <2>2. CASE Free(w)
    BY <1>2, <2>2 DEF Free
  <2>3. CASE writer[w] # Idle
    BY <1>2, <2>1, <2>3
  <2> QED BY <2>2, <2>3
<1>8. (DoneWasVerified /\ ExhaustionStops /\ TearCostsAtMostTwo /\ TornIsPaid)'
  BY <1>5 DEF Inv, DoneWasVerified, ExhaustionStops, TearCostsAtMostTwo, TornIsPaid
<1> QED BY <1>4, <1>6, <1>7, <1>8 DEF Inv

LEMMA WritingOf ==
  ASSUME NEW line \in Line
  PROVE  /\ Writing(line) \in Appending /\ Writing(line).at = "append" /\ Writing(line).line = line
BY DEF Writing, Appending

\* A change that keeps the state or makes a legal move writes as done only what
\* was verified.
LEMMA PatchedOf ==
  ASSUME Inv, NEW t \in Known, NEW state \in TaskState \cup {Keep}, LegalMove(Current(t).state, state)
  PROVE  LET new == IF state = Keep THEN Current(t).state ELSE state IN
         /\ new \in TaskState
         /\ new = "done" /\ t \notin spoiled => \E j \in LinesOf(t) : lines[j].state = "verifying"
<1> DEFINE new == IF state = Keep THEN Current(t).state ELSE state
<1>1. TypeOK /\ DoneWasVerified
  BY DEF Inv
<1>2. Current(t).state \in TaskState
  BY <1>1, CurrentIsOfTask DEF Line
<1>3. new = "done" => Current(t).state \in {"verifying", "done"}
  BY <1>2, DoneOnlyFromVerifying
<1>4. new = "done" /\ t \notin spoiled => \E j \in LinesOf(t) : lines[j].state = "verifying"
  BY <1>1, <1>3, CurrentWasVerified
<1> QED BY <1>2, <1>4

LEMMA CreateStep == ASSUME Inv, NEW w \in Writer, NEW t \in Task, Create(w, t) PROVE Inv'
<1> DEFINE line == [task |-> t, state |-> "queued", used |-> 0, charge |-> FALSE]
<1>1. line \in Line /\ line.state = "queued" /\ line.charge = FALSE
  BY DEF Line, TaskState
<1>2. CallOK(Writing(line))
  BY <1>1, WritingOf DEF CallOK
<1> QED BY <1>2, CallStep DEF Create

LEMMA UpdateStep ==
  ASSUME Inv, NEW w \in Writer, NEW t \in Task, NEW s \in TaskState \cup {Keep}, Update(w, t, s)
  PROVE  Inv'
<1> DEFINE line == Patched(t, s, Current(t).used, FALSE)
<1>1. t \in Known /\ LegalMove(Current(t).state, s)
  BY DEF Update
<1>2. Current(t).used \in Nat
  BY <1>1, CurrentIsOfTask DEF Inv, Line
<1>3. /\ line \in Line /\ line.task = t /\ line.charge = FALSE
      /\ line.state = "done" /\ t \notin spoiled => \E j \in LinesOf(t) : lines[j].state = "verifying"
  <2> DEFINE new == IF s = Keep THEN Current(t).state ELSE s
  <2>1. new \in TaskState /\ (new = "done" /\ t \notin spoiled => \E j \in LinesOf(t) : lines[j].state = "verifying")
    BY <1>1, PatchedOf
  <2>2. line = [task |-> t, state |-> new, used |-> Current(t).used, charge |-> FALSE]
    BY DEF Patched
  <2> HIDE DEF line, new
  <2> QED BY <1>2, <2>1, <2>2 DEF Line
<1>4. CallOK(Writing(line))
  <2> HIDE DEF line
  <2> QED BY <1>3, WritingOf DEF CallOK
<1> QED BY <1>4, CallStep DEF Update

LEMMA ChargeReadsStep ==
  ASSUME Inv, NEW w \in Writer, NEW t \in Task, ChargeReads(w, t) PROVE Inv'
<1>1. t \in Known /\ Free(w) /\ UNCHANGED <<serial, lines, tail, tears, lost, spoiled>>
  BY DEF ChargeReads
<1>2. PICK n \in 1..MaxIterations, late \in BOOLEAN :
        LET total == Current(t).used + n
            halts == Exhausted(t, total) \/ (late /\ Current(t).state \notin TerminalStates)
        IN  Goes(w, [at |-> "charge", task |-> t, used |-> total,
                     state |-> IF halts /\ "blocked" \in Transitions[Current(t).state]
                               THEN "blocked" ELSE Keep])
  BY DEF ChargeReads
<1> DEFINE total == Current(t).used + n
           halts == Exhausted(t, total) \/ (late /\ Current(t).state \notin TerminalStates)
           blocks == halts /\ "blocked" \in Transitions[Current(t).state]
           x == [at |-> "charge", task |-> t, used |-> total, state |-> IF blocks THEN "blocked" ELSE Keep]
<1>3. Goes(w, x)
  BY <1>2
<1>4. total \in Nat
  BY <1>1, CurrentIsOfTask, BoundAssumption DEF Inv, Line
<1>5. /\ x \in Charging /\ x.at = "charge" /\ x.task = t /\ x.used = total
      /\ x.state = "blocked" <=> blocks
  <2> HIDE DEF total, blocks
  <2> QED BY <1>4 DEF Charging, Keep
<1>6. total >= MaxIterations =>
        \/ blocks \/ Current(t).state \in TerminalStates
        \/ "blocked" \notin Transitions[Current(t).state]
  BY DEF Exhausted
<1>7. CallOK(x)
  <2> HIDE DEF x, total, blocks
  <2> QED BY <1>1, <1>5, <1>6 DEF CallOK
<1> HIDE DEF x
<1> QED BY <1>1, <1>3, <1>7, CallStep

LEMMA ChargeUpdatesStep == ASSUME Inv, NEW w \in Writer, ChargeUpdates(w) PROVE Inv'
<1> DEFINE x == writer[w]
           t == x.task
           line == Patched(t, x.state, x.used, TRUE)
<1>1. x.at = "charge" /\ t \in Known /\ LegalMove(Current(t).state, x.state) /\ CallOK(x)
  BY CallsOK DEF ChargeUpdates, ChargeMay
<1>2. x \in Charging
  BY <1>1 DEF CallOK, Idle, Appending
<1>3. x.used \in Nat /\ x.state \in TaskState \cup {Keep} /\ x.state \in {Keep, "blocked"}
  BY <1>2 DEF Charging, TaskState
<1>4. /\ line \in Line /\ line.task = t /\ line.used = x.used /\ line.charge = TRUE
      /\ line.state = IF x.state = Keep THEN Current(t).state ELSE x.state
      /\ line.state = "done" /\ t \notin spoiled => \E j \in LinesOf(t) : lines[j].state = "verifying"
  <2> DEFINE new == IF x.state = Keep THEN Current(t).state ELSE x.state
  <2>1. new \in TaskState /\ (new = "done" /\ t \notin spoiled => \E j \in LinesOf(t) : lines[j].state = "verifying")
    <3> HIDE DEF x, t
    <3> QED BY <1>1, <1>3, PatchedOf
  <2>2. line = [task |-> t, state |-> new, used |-> x.used, charge |-> TRUE]
    BY DEF Patched
  <2>3. t \in Task
    BY <1>1 DEF Known
  <2> HIDE DEF line, new, x, t
  <2>4. /\ line \in Line /\ line.task = t /\ line.used = x.used /\ line.charge = TRUE
        /\ line.state = new
    BY <1>3, <2>1, <2>2, <2>3 DEF Line
  <2> QED BY <2>1, <2>4 DEF new
<1>5. serial /\ line.used >= MaxIterations => line.state \notin {"running", "verifying", "waiting_approval"}
  <2> SUFFICES ASSUME serial, x.used >= MaxIterations
               PROVE  line.state \notin {"running", "verifying", "waiting_approval"}
    BY <1>4
  <2>1. \/ x.state = "blocked" \/ Current(t).state \in TerminalStates
        \/ "blocked" \notin Transitions[Current(t).state]
    BY <1>1 DEF CallOK
  <2> HIDE DEF x, t, line
  <2> QED BY <2>1, <1>3, <1>4 DEF TerminalStates, Transitions, Keep
<1>6. CallOK(Writing(line))
  <2> HIDE DEF line, t, x
  <2> QED BY <1>4, <1>5, WritingOf DEF CallOK
<1>7. writer[w] # Idle
  BY <1>1 DEF Idle
<1> QED BY <1>6, <1>7, CallStep DEF ChargeUpdates

LEMMA CallEndsStep ==
  ASSUME Inv, NEW w \in Writer, ChargeThrows(w) \/ Dies(w) PROVE Inv'
<1>1. writer[w] # Idle
  BY DEF ChargeThrows, Dies, Idle
<1> QED BY <1>1, IdleOK, CallStep DEF ChargeThrows, Dies

-----------------------------------------------------------------------------
(* Steps that write.                                                       *)

\* What has to be shown of a step that writes, but for the count of what is lost.
Written ==
  /\ lines' \in Seq(Line) /\ spoiled' \subseteq Task
  /\ writer' \in [Writer -> {Idle} \cup Charging \cup Appending]
  /\ (DoneWasVerified /\ ExhaustionStops)'
  /\ (WritesWhatWasVerified /\ OneAtATime /\ ChargesWhatItRead /\ WritesWhatStops)'

\* The call that has written is over, and in a serial run it was the only one.
LEMMA CallIsOver ==
  ASSUME Inv, NEW w \in Writer, writer[w].at = "append", Goes(w, Idle), serial' = serial
  PROVE  /\ writer' \in [Writer -> {Idle} \cup Charging \cup Appending]
         /\ \A v \in Writer : writer'[v] = IF v = w THEN Idle ELSE writer[v]
         /\ serial => \A v \in Writer : writer'[v] = Idle
         /\ (OneAtATime /\ ChargesWhatItRead /\ WritesWhatStops)'
<1>1. writer[w] # Idle /\ Idle.at = "idle"
  BY DEF Idle
<1>2. /\ writer' \in [Writer -> {Idle} \cup Charging \cup Appending]
      /\ \A v \in Writer : writer'[v] = IF v = w THEN Idle ELSE writer[v]
  BY DEF Inv, TypeOK, Goes
<1>3. serial => \A v \in Writer : writer'[v] = Idle
  BY <1>1, <1>2 DEF Inv, OneAtATime
<1>4. (OneAtATime /\ ChargesWhatItRead /\ WritesWhatStops)'
  BY <1>1, <1>3 DEF OneAtATime, ChargesWhatItRead, WritesWhatStops
<1> QED BY <1>2, <1>3, <1>4

\* Nothing readable is written and nothing is spoiled.
LEMMA NothingLands ==
  ASSUME Inv, NEW w \in Writer, writer[w].at = "append", Goes(w, Idle), serial' = serial,
         UNCHANGED <<lines, spoiled>>
  PROVE  Written
<1>1. \A t : LinesOf(t)' = LinesOf(t) /\ Known' = Known
  BY DEF LinesOf, Known
<1>2. \A v \in Writer : CallOK(writer'[v])
  BY CallIsOver, CallsOK, IdleOK
<1>3. WritesWhatWasVerified'
  BY <1>1, <1>2 DEF CallOK, WritesWhatWasVerified
<1>4. (DoneWasVerified /\ ExhaustionStops)'
  BY <1>1 DEF Inv, DoneWasVerified, ExhaustionStops
<1> QED BY <1>3, <1>4, CallIsOver DEF Written, Inv, TypeOK

\* The line of a call reaches the file; the calls that are still charging have
\* read another line, which happens only when calls overlap.
LEMMA LineLands ==
  ASSUME Inv, NEW w \in Writer, writer[w].at = "append", Goes(w, Idle), serial' = serial,
         lines' = Append(lines, writer[w].line), UNCHANGED spoiled
  PROVE  Written
<1> DEFINE line == writer[w].line
<1>2. CallOK(writer[w])
  BY CallsOK
<1>3. line \in Line
  BY <1>2 DEF CallOK, Idle, Charging, Appending
<1>4. TypeOK /\ DoneWasVerified
  BY DEF Inv
<1>5. /\ lines' \in Seq(Line) /\ DOMAIN lines' = DOMAIN lines \cup {Len(lines) + 1}
      /\ \A i \in DOMAIN lines : lines'[i] = lines[i] /\ i < Len(lines) + 1
      /\ lines'[Len(lines) + 1] = line
      /\ \A t : LinesOf(t) \subseteq LinesOf(t)' /\ Known \subseteq Known'
  <2>1. lines' = Append(lines, line)
    OBVIOUS
  <2> HIDE DEF line
  <2> QED BY <1>3, <1>4, <2>1, LinesAfterAppend
<1>6. \A v \in Writer : writer'[v] = IF v = w THEN Idle ELSE writer[v]
  BY CallIsOver
<1>8. \A t : \A j \in LinesOf(t) : lines'[j] = lines[j] /\ j \in DOMAIN lines' /\ lines[j].task = t
  BY <1>5 DEF LinesOf
<1>9. DoneWasVerified'
  <2> SUFFICES ASSUME NEW i \in DOMAIN lines', lines'[i].state = "done", lines'[i].task \notin spoiled
               PROVE  \E j \in DOMAIN lines' : lines'[j].task = lines'[i].task /\ j < i /\ lines'[j].state = "verifying"
    BY DEF DoneWasVerified, LinesOf
  <2>1. CASE i \in DOMAIN lines
    <3>1. PICK j \in LinesOf(lines[i].task) : j < i /\ lines[j].state = "verifying"
      BY <1>4, <1>5, <2>1 DEF DoneWasVerified
    <3> QED BY <1>5, <1>8, <2>1, <3>1
  <2>2. CASE i = Len(lines) + 1
    <3>1. PICK j \in LinesOf(line.task) : lines[j].state = "verifying"
      BY <1>2, <1>5, <2>2 DEF CallOK
    <3> QED BY <1>5, <1>8, <2>2, <3>1
  <2> QED BY <1>5, <2>1, <2>2
<1>10. ExhaustionStops'
  <2> SUFFICES ASSUME serial, NEW i \in DOMAIN lines', lines'[i].charge, lines'[i].used >= MaxIterations
               PROVE  lines'[i].state \notin {"running", "verifying", "waiting_approval"}
    BY DEF ExhaustionStops
  <2>1. CASE i \in DOMAIN lines
    BY <1>5, <2>1 DEF Inv, ExhaustionStops
  <2>2. CASE i = Len(lines) + 1
    BY <1>2, <1>5, <2>2 DEF CallOK
  <2> QED BY <1>5, <2>1, <2>2
<1>11. WritesWhatWasVerified'
  <2>1. ASSUME NEW v \in Writer, writer'[v].at = "append", writer'[v].line.state = "done",
               writer'[v].line.task \notin spoiled
        PROVE  \E j \in DOMAIN lines' : lines'[j].task = writer'[v].line.task /\ lines'[j].state = "verifying"
    <3>1. v # w /\ writer'[v] = writer[v]
      BY <1>6, <2>1 DEF Idle
    <3>2. PICK j \in LinesOf(writer[v].line.task) : lines[j].state = "verifying"
      BY <2>1, <3>1, CallsOK DEF CallOK
    <3> QED BY <1>8, <3>1, <3>2
  <2>2. ASSUME NEW v \in Writer, writer'[v].at = "charge" PROVE writer'[v].task \in (Known \cup spoiled)'
    <3>1. v # w /\ writer'[v] = writer[v]
      BY <1>6, <2>2 DEF Idle
    <3> QED BY <1>5, <2>2, <3>1, CallsOK DEF CallOK
  <2> QED BY <2>1, <2>2 DEF WritesWhatWasVerified, LinesOf
<1> QED BY <1>4, <1>5, <1>9, <1>10, <1>11, CallIsOver DEF Written, TypeOK

\* The last line had no newline and is spoiled: what is left is what was there
\* before it, and no other task has lost a line.
LEMMA LastIsSpoiled ==
  ASSUME Inv, NEW w \in Writer, writer[w].at = "append", Goes(w, Idle), serial' = serial,
         tail = "line", lines' = Front(lines), spoiled' = spoiled \cup {Last(lines).task}
  PROVE  Written
<1>1. TypeOK /\ lines \in Seq(Line) /\ lines # << >>
  BY DEF Inv, TypeOK
<1> DEFINE n == Len(lines)
<1>2. n \in Nat \ {0} /\ DOMAIN lines = 1..n /\ \A i \in 1..n : lines[i] \in Line
  BY <1>1, LenProperties, EmptySeq, ElementOfSeq
<1>3. /\ lines' \in Seq(Line) /\ DOMAIN lines' = 1..(n - 1)
      /\ \A i \in 1..(n - 1) : lines'[i] = lines[i]
  <2>1. lines' = SubSeq(lines, 1, n - 1)
    BY DEF Front
  <2>2. /\ SubSeq(lines, 1, n - 1) \in Seq(Line)
        /\ Len(SubSeq(lines, 1, n - 1)) = n - 1
        /\ \A i \in 1..(n - 1) : SubSeq(lines, 1, n - 1)[i] = lines[i]
    <3> HIDE DEF n
    <3>1. 1 \in Int /\ n - 1 \in Int /\ \A i \in 1..(n - 1) : lines[i] \in Line
      BY <1>2
    <3>2. /\ SubSeq(lines, 1, n - 1) \in Seq(Line)
          /\ Len(SubSeq(lines, 1, n - 1)) = IF 1 <= n - 1 THEN (n - 1) - 1 + 1 ELSE 0
          /\ \A i \in 1 .. (n - 1) - 1 + 1 : SubSeq(lines, 1, n - 1)[i] = lines[1 + i - 1]
      BY <3>1, SubSeqProperties
    <3> QED BY <1>2, <3>2
  <2>3. Len(lines') = n - 1 /\ lines' \in Seq(Line)
    BY <2>1, <2>2
  <2>4. DOMAIN lines' = 1..(n - 1)
    BY <2>3, LenProperties
  <2> QED BY <2>1, <2>2, <2>3, <2>4
<1>4. \A t \in Task : t \notin spoiled' =>
        /\ LinesOf(t)' = LinesOf(t)
        /\ \A j \in LinesOf(t) : j \in DOMAIN lines' /\ lines'[j] = lines[j] /\ lines[j].task = t
  <2>1. Last(lines) = lines[n]
    BY DEF Last
  <2> HIDE DEF n
  <2> QED BY <1>2, <1>3, <2>1 DEF LinesOf
<1>5. \A t \in Task : t \notin spoiled' /\ t \in Known => t \in Known'
  BY <1>4 DEF Known
<1>6. DoneWasVerified'
  <2> SUFFICES ASSUME NEW i \in DOMAIN lines', lines'[i].state = "done", lines'[i].task \notin spoiled'
               PROVE  \E j \in DOMAIN lines' : lines'[j].task = lines'[i].task /\ j < i /\ lines'[j].state = "verifying"
    BY DEF DoneWasVerified, LinesOf
  <2>1. i \in DOMAIN lines /\ lines'[i] = lines[i] /\ lines[i].task \in Task
    BY <1>2, <1>3 DEF Line
  <2>2. PICK j \in LinesOf(lines[i].task) : j < i /\ lines[j].state = "verifying"
    BY <2>1 DEF Inv, DoneWasVerified
  <2> QED BY <1>4, <2>1, <2>2
<1>7. ExhaustionStops'
  <2>1. \A i \in DOMAIN lines' : i \in DOMAIN lines /\ lines'[i] = lines[i]
    BY <1>2, <1>3
  <2> QED BY <2>1 DEF Inv, ExhaustionStops
<1>8. WritesWhatWasVerified'
  <2>1. ASSUME NEW v \in Writer, writer'[v].at = "append", writer'[v].line.state = "done",
               writer'[v].line.task \notin spoiled'
        PROVE  \E j \in DOMAIN lines' : lines'[j].task = writer'[v].line.task /\ lines'[j].state = "verifying"
    <3>1. writer'[v] = writer[v]
      BY <2>1, CallIsOver DEF Idle
    <3>2. writer[v].line.task \in Task
      BY <2>1, <3>1 DEF Inv, TypeOK, Idle, Charging, Appending, Line
    <3>3. PICK j \in LinesOf(writer[v].line.task) : lines[j].state = "verifying"
      BY <2>1, <3>1, CallsOK DEF CallOK
    <3> QED BY <1>4, <2>1, <3>1, <3>2, <3>3
  <2>2. ASSUME NEW v \in Writer, writer'[v].at = "charge" PROVE writer'[v].task \in (Known \cup spoiled)'
    <3>1. writer'[v] = writer[v]
      BY <2>2, CallIsOver DEF Idle
    <3>2. writer[v].task \in Known \cup spoiled /\ Known \subseteq Task /\ spoiled \subseteq Task
      BY <2>2, <3>1, CallsOK DEF CallOK, Known, Inv, TypeOK
    <3> QED BY <1>5, <3>1, <3>2
  <2> QED BY <2>1, <2>2 DEF WritesWhatWasVerified, LinesOf
<1>9. spoiled' \subseteq Task
  <2>1. Last(lines) \in Line
    BY <1>2 DEF Last
  <2> QED BY <2>1, <1>1 DEF TypeOK, Line
<1> QED BY <1>3, <1>6, <1>7, <1>8, <1>9, CallIsOver DEF Written

\* Wherever a line lands.
LEMMA LandsStep ==
  ASSUME Inv, NEW w \in Writer, writer[w].at = "append", Goes(w, Idle), serial' = serial,
         Lands(writer[w].line)
  PROVE  Written
<1>1. tail \in {"newline", "torn", "line"}
  BY DEF Inv, TypeOK
<1>2. CASE tail = "newline"
  BY <1>2, LineLands DEF Lands
<1>3. CASE tail = "torn"
  BY <1>3, NothingLands DEF Lands
<1>4. CASE tail = "line"
  BY <1>4, LastIsSpoiled DEF Lands
<1> QED BY <1>1, <1>2, <1>3, <1>4

LEMMA Counts ==
  ASSUME Inv
  PROVE  /\ tears \in Nat /\ lost \in Nat /\ MaxTears \in Nat /\ lost <= 2 * tears
         /\ tail = "torn" => Spoils = 1 /\ lost + 1 <= 2 * tears
         /\ tail = "line" => Spoils = 2 /\ lost + 2 <= 2 * tears
         /\ tail = "newline" => Spoils = 0
         /\ tail \in {"newline", "torn", "line"} /\ tears <= MaxTears
BY BoundAssumption DEF Inv, TypeOK, TearCostsAtMostTwo, TornIsPaid, Spoils

LEMMA AppendStep == ASSUME Inv, NEW w \in Writer, AppendLine(w) PROVE Inv'
<1>1. Written
  BY LandsStep DEF AppendLine
<1>2. tail' = "newline" /\ tears' = tears /\ lost' = lost + Spoils /\ serial' = serial
  BY DEF AppendLine
<1>3. lost' \in Nat /\ lost' <= 2 * tears'
  BY <1>2, Counts
<1>4. (TearCostsAtMostTwo /\ TornIsPaid)'
  BY <1>2, <1>3 DEF TearCostsAtMostTwo, TornIsPaid
<1>5. TypeOK'
  BY <1>1, <1>2, <1>3 DEF Written, Inv, TypeOK
<1> QED BY <1>1, <1>4, <1>5 DEF Written, Inv

LEMMA TearsStep == ASSUME Inv, NEW w \in Writer, Tears(w) PROVE Inv'
<1>1. Written
  BY LandsStep, NothingLands DEF Tears
<1>2. /\ tail' = "torn" /\ tears < MaxTears /\ tears' = tears + 1 /\ serial' = serial
      /\ lost' = lost + (IF tail = "newline" THEN 1 ELSE Spoils)
  BY DEF Tears
<1>3. lost' \in Nat /\ lost' + 1 <= 2 * tears' /\ tears' \in 0..MaxTears
  BY <1>2, Counts
<1>4. (TearCostsAtMostTwo /\ TornIsPaid)'
  BY <1>2, <1>3, Counts DEF TearCostsAtMostTwo, TornIsPaid
<1>5. TypeOK'
  BY <1>1, <1>2, <1>3 DEF Written, Inv, TypeOK
<1> QED BY <1>1, <1>4, <1>5 DEF Written, Inv

LEMMA TearsAtEndStep == ASSUME Inv, NEW w \in Writer, TearsAtEnd(w) PROVE Inv'
<1>1. Written /\ lines' = Append(lines, writer[w].line)
  BY LandsStep DEF TearsAtEnd, Lands
<1>2. tail' = "line" /\ tears < MaxTears /\ tears' = tears + 1 /\ serial' = serial /\ lost' = lost
  BY DEF TearsAtEnd
<1>3. lost' \in Nat /\ lost' + 2 <= 2 * tears' /\ tears' \in 0..MaxTears
  BY <1>2, Counts
<1>4. (TearCostsAtMostTwo /\ TornIsPaid)'
  BY <1>2, <1>3, Counts DEF TearCostsAtMostTwo, TornIsPaid
<1>5. lines' # << >>
  <2>1. CallOK(writer[w]) /\ writer[w].at = "append" /\ lines \in Seq(Line)
    BY CallsOK DEF TearsAtEnd, Inv, TypeOK
  <2>2. writer[w].line \in Line
    BY <2>1 DEF CallOK, Idle, Charging, Appending
  <2> QED BY <1>1, <2>1, <2>2, AppendProperties
<1>6. TypeOK'
  BY <1>1, <1>2, <1>3, <1>5 DEF Written, Inv, TypeOK
<1> QED BY <1>1, <1>4, <1>6 DEF Written, Inv

LEMMA InvStep == Inv /\ [Next]_vars => Inv'
<1> SUFFICES ASSUME Inv, [Next]_vars PROVE Inv'
  OBVIOUS
<1>1. ASSUME NEW w \in Writer, NEW t \in Task, Create(w, t) PROVE Inv'
  BY <1>1, CreateStep
<1>2. ASSUME NEW w \in Writer, NEW t \in Task, ChargeReads(w, t) PROVE Inv'
  BY <1>2, ChargeReadsStep
<1>3. ASSUME NEW w \in Writer, NEW t \in Task, NEW s \in TaskState \cup {Keep}, Update(w, t, s) PROVE Inv'
  BY <1>3, UpdateStep
<1>4. ASSUME NEW w \in Writer, ChargeUpdates(w) PROVE Inv'
  BY <1>4, ChargeUpdatesStep
<1>5. ASSUME NEW w \in Writer, ChargeThrows(w) \/ Dies(w) PROVE Inv'
  BY <1>5, CallEndsStep
<1>6. ASSUME NEW w \in Writer, AppendLine(w) PROVE Inv'
  BY <1>6, AppendStep
<1>7. ASSUME NEW w \in Writer, Tears(w) PROVE Inv'
  BY <1>7, TearsStep
<1>8. ASSUME NEW w \in Writer, TearsAtEnd(w) PROVE Inv'
  BY <1>8, TearsAtEndStep
<1>9. CASE UNCHANGED vars
  <2>1. /\ \A t : LinesOf(t)' = LinesOf(t) /\ Current(t)' = Current(t)
        /\ Known' = Known /\ UNCHANGED <<serial, lines, tail, writer, tears, lost, spoiled>>
    BY <1>9 DEF vars, LinesOf, Current, Known
  <2> QED BY <2>1 DEF Inv, TypeOK, DoneWasVerified, ExhaustionStops, TearCostsAtMostTwo,
             WritesWhatWasVerified, OneAtATime, ChargesWhatItRead, WritesWhatStops, TornIsPaid
<1> QED BY <1>1, <1>2, <1>3, <1>4, <1>5, <1>6, <1>7, <1>8, <1>9 DEF Next

-----------------------------------------------------------------------------
(* The theorems.                                                           *)

\* The types, the properties and the strengthening hold in every reachable state
\* of the task store, for any number of tasks, callers, lines and crashes.
THEOREM TaskStoreInvariant == Spec => []Inv
BY InvInit, InvStep, PTL DEF Spec

\* Whichever calls race, update never records as done what no line has recorded as
\* verifying.
THEOREM DoneOnlyVerified == Spec => []DoneWasVerified
<1>1. Inv => DoneWasVerified
  BY DEF Inv
<1> QED BY <1>1, TaskStoreInvariant, PTL

\* Calls that do not overlap stop a task whose budget chargeIterations spends.
THEOREM SpentBudgetStops == Spec => []ExhaustionStops
<1>1. Inv => ExhaustionStops
  BY DEF Inv
<1> QED BY <1>1, TaskStoreInvariant, PTL

\* A process that dies in an append costs that update and at most the one after.
THEOREM CrashCostsAtMostTwo == Spec => []TearCostsAtMostTwo
<1>1. Inv => TearCostsAtMostTwo
  BY DEF Inv
<1> QED BY <1>1, TaskStoreInvariant, PTL
=============================================================================
