--------------------------- MODULE TaskQueue_proof ---------------------------
(***************************************************************************)
(* Proofs about the task queue for every set of tasks, every concurrency   *)
(* limit and every number of priorities, and about the sub-agent tools on  *)
(* it for every limit of their depth.                                      *)
(***************************************************************************)
EXTENDS SubAgents, SequenceTheorems, FiniteSetTheorems, TLAPS

-----------------------------------------------------------------------------
(* Lemmas: what Append, \o and RemoveAt do to the range of a sequence, and *)
(* when they keep it free of duplicates.                                   *)

\* Appending adds one element to the range of a sequence.
LEMMA AppendRange ==
  ASSUME NEW S, NEW s \in Seq(S), NEW e \in S
  PROVE  /\ Append(s, e) \in Seq(S)
         /\ ToSet(Append(s, e)) = ToSet(s) \cup {e}
         /\ IsInjective(s) /\ e \notin ToSet(s) => IsInjective(Append(s, e))
<1> DEFINE a == Append(s, e)
<1>1. /\ DOMAIN s = 1..Len(s) /\ Len(s) \in Nat
      /\ a \in Seq(S) /\ DOMAIN a = 1..(Len(s) + 1)
      /\ \A i \in 1..Len(s) : a[i] = s[i]
      /\ a[Len(s) + 1] = e
  BY AppendProperties, LenProperties
<1> HIDE DEF a
<1>2. ASSUME NEW x \in ToSet(s) \cup {e} PROVE x \in ToSet(a)
  <2>1. CASE x = e
    BY <2>1, <1>1 DEF ToSet
  <2>2. CASE x \in ToSet(s)
    <3>1. PICK i \in 1..Len(s) : s[i] = x
      BY <2>2, <1>1 DEF ToSet
    <3>2. i \in DOMAIN a /\ a[i] = x
      BY <3>1, <1>1
    <3> QED BY <3>2 DEF ToSet
  <2> QED BY <2>1, <2>2
<1>3. ASSUME NEW x \in ToSet(a) PROVE x \in ToSet(s) \cup {e}
  <2>1. PICK i \in 1..(Len(s) + 1) : a[i] = x
    BY <1>1 DEF ToSet
  <2> QED BY <2>1, <1>1 DEF ToSet
<1>4. ASSUME IsInjective(s), e \notin ToSet(s) PROVE IsInjective(a)
  BY <1>1, <1>4 DEF IsInjective, ToSet
<1> QED BY <1>1, <1>2, <1>3, <1>4 DEF a

\* Concatenation joins the ranges, and keeps disjoint injections injective.
LEMMA ConcatRange ==
  ASSUME NEW S, NEW s \in Seq(S), NEW u \in Seq(S)
  PROVE  /\ s \o u \in Seq(S)
         /\ ToSet(s \o u) = ToSet(s) \cup ToSet(u)
         /\ IsInjective(s) /\ IsInjective(u) /\ ToSet(s) \cap ToSet(u) = {} => IsInjective(s \o u)
<1>1. /\ s \o u \in Seq(S)
      /\ DOMAIN s = 1..Len(s) /\ DOMAIN u = 1..Len(u) /\ Len(s) \in Nat /\ Len(u) \in Nat
      /\ DOMAIN (s \o u) = 1..(Len(s) + Len(u))
      /\ \A i \in 1..(Len(s) + Len(u)) :
           (s \o u)[i] = IF i <= Len(s) THEN s[i] ELSE u[i - Len(s)]
  BY ConcatProperties, LenProperties
<1>2. ToSet(s \o u) = ToSet(s) \cup ToSet(u)
  <2>1. ASSUME NEW x \in ToSet(s) PROVE x \in ToSet(s \o u)
    <3>1. PICK i \in 1..Len(s) : s[i] = x
      BY <1>1 DEF ToSet
    <3>2. i \in 1..(Len(s) + Len(u)) /\ (s \o u)[i] = x
      BY <3>1, <1>1
    <3> QED BY <3>2, <1>1 DEF ToSet
  <2>2. ASSUME NEW x \in ToSet(u) PROVE x \in ToSet(s \o u)
    <3>1. PICK i \in 1..Len(u) : u[i] = x
      BY <1>1 DEF ToSet
    <3>2. Len(s) + i \in 1..(Len(s) + Len(u)) /\ (s \o u)[Len(s) + i] = x
      BY <3>1, <1>1
    <3> QED BY <3>2, <1>1 DEF ToSet
  <2>3. ASSUME NEW x \in ToSet(s \o u) PROVE x \in ToSet(s) \cup ToSet(u)
    <3>1. PICK i \in 1..(Len(s) + Len(u)) : (s \o u)[i] = x
      BY <1>1 DEF ToSet
    <3>2. CASE i <= Len(s)
      BY <3>1, <3>2, <1>1 DEF ToSet
    <3>3. CASE i > Len(s)
      <4>1. i - Len(s) \in 1..Len(u) /\ u[i - Len(s)] = x
        BY <3>1, <3>3, <1>1
      <4> QED BY <4>1, <1>1 DEF ToSet
    <3> QED BY <3>2, <3>3, <1>1
  <2> QED BY <2>1, <2>2, <2>3
<1>3. ASSUME IsInjective(s), IsInjective(u), ToSet(s) \cap ToSet(u) = {},
             NEW i \in 1..(Len(s) + Len(u)), NEW j \in 1..(Len(s) + Len(u)),
             (s \o u)[i] = (s \o u)[j]
      PROVE  i = j
  <2>1. CASE i <= Len(s) /\ j <= Len(s)
    BY <1>1, <1>3, <2>1 DEF IsInjective
  <2>2. CASE i > Len(s) /\ j > Len(s)
    <3>1. Len(s) \in Nat /\ Len(u) \in Nat /\ DOMAIN u = 1..Len(u)
      BY <1>1
    <3>2. i - Len(s) \in 1..Len(u) /\ j - Len(s) \in 1..Len(u)
      BY <1>3, <2>2, <3>1
    <3>3. u[i - Len(s)] = u[j - Len(s)]
      BY <1>1, <1>3, <2>2
    <3>4. i - Len(s) = j - Len(s)
      BY <1>3, <3>1, <3>2, <3>3 DEF IsInjective
    <3> QED BY <1>3, <3>1, <3>4
  <2>3. CASE i <= Len(s) /\ j > Len(s)
    <3>1. i \in DOMAIN s /\ j - Len(s) \in DOMAIN u /\ s[i] = u[j - Len(s)]
      BY <1>1, <1>3, <2>3
    <3> QED BY <3>1, <1>3 DEF ToSet
  <2>4. CASE i > Len(s) /\ j <= Len(s)
    <3>1. j \in DOMAIN s /\ i - Len(s) \in DOMAIN u /\ s[j] = u[i - Len(s)]
      BY <1>1, <1>3, <2>4
    <3> QED BY <3>1, <1>3 DEF ToSet
  <2> QED BY <2>1, <2>2, <2>3, <2>4, <1>1
<1> QED BY <1>1, <1>2, <1>3 DEF IsInjective

\* Removing position i shifts what follows it and drops nothing else.
LEMMA RemoveAtElements ==
  ASSUME NEW S, NEW s \in Seq(S), NEW i \in 1..Len(s)
  PROVE  /\ RemoveAt(s, i) \in Seq(S)
         /\ Len(RemoveAt(s, i)) = Len(s) - 1
         /\ \A k \in 1..(Len(s) - 1) : RemoveAt(s, i)[k] = IF k < i THEN s[k] ELSE s[k + 1]
<1> DEFINE front == SubSeq(s, 1, i - 1)
           back  == SubSeq(s, i + 1, Len(s))
<1>1. Len(s) \in Nat /\ \A k \in 1..Len(s) : s[k] \in S
  BY LenProperties, ElementOfSeq
<1>2. /\ front \in Seq(S) /\ Len(front) = i - 1
      /\ \A k \in 1..(i - 1) : front[k] = s[k]
  <2>1. \A k \in 1..(i - 1) : s[k] \in S
    BY <1>1
  <2> QED BY <1>1, <2>1, SubSeqProperties
<1>3. /\ back \in Seq(S) /\ Len(back) = Len(s) - i
      /\ \A k \in 1..(Len(s) - i) : back[k] = s[k + i]
  <2>1. \A k \in (i + 1)..Len(s) : s[k] \in S
    BY <1>1
  <2> QED BY <1>1, <2>1, SubSeqProperties
<1>4. /\ front \o back \in Seq(S)
      /\ Len(front \o back) = Len(s) - 1
      /\ \A k \in 1..(Len(s) - 1) :
           (front \o back)[k] = IF k <= i - 1 THEN front[k] ELSE back[k - (i - 1)]
  <2> HIDE DEF front, back
  <2>1. /\ front \o back \in Seq(S)
        /\ Len(front \o back) = Len(front) + Len(back)
        /\ \A k \in 1..(Len(front) + Len(back)) :
             (front \o back)[k] = IF k <= Len(front) THEN front[k] ELSE back[k - Len(front)]
    BY <1>2, <1>3, ConcatProperties
  <2>2. Len(front) + Len(back) = Len(s) - 1
    BY <1>1, <1>2, <1>3
  <2> QED BY <2>1, <2>2, <1>2
<1>5. ASSUME NEW k \in 1..(Len(s) - 1)
      PROVE  (front \o back)[k] = IF k < i THEN s[k] ELSE s[k + 1]
  <2> HIDE DEF front, back
  <2>1. CASE k < i
    BY <2>1, <1>1, <1>2, <1>4
  <2>2. CASE k >= i
    <3>1. k - (i - 1) \in 1..(Len(s) - i) /\ (k - (i - 1)) + i = k + 1
      BY <2>2, <1>1
    <3>2. back[k - (i - 1)] = s[(k - (i - 1)) + i]
      BY <3>1, <1>3
    <3>3. (front \o back)[k] = back[k - (i - 1)]
      BY <2>2, <1>1, <1>4
    <3> QED BY <3>1, <3>2, <3>3, <2>2, <1>1
  <2>3. k \in Int /\ i \in Int
    BY <1>1
  <2>4. k < i \/ k >= i
    BY <2>3
  <2> QED BY <2>1, <2>2, <2>4
<1> QED BY <1>4, <1>5 DEF RemoveAt

\* Removing a position of an injection removes exactly its element.
LEMMA RemoveAtRange ==
  ASSUME NEW S, NEW s \in Seq(S), NEW i \in DOMAIN s, IsInjective(s)
  PROVE  /\ RemoveAt(s, i) \in Seq(S)
         /\ ToSet(RemoveAt(s, i)) = ToSet(s) \ {s[i]}
         /\ IsInjective(RemoveAt(s, i))
<1> DEFINE r == RemoveAt(s, i)
<1>1. DOMAIN s = 1..Len(s) /\ Len(s) \in Nat /\ i \in 1..Len(s)
  BY LenProperties
<1>2. /\ r \in Seq(S) /\ Len(r) = Len(s) - 1
      /\ \A k \in 1..(Len(s) - 1) : r[k] = IF k < i THEN s[k] ELSE s[k + 1]
  BY <1>1, RemoveAtElements
<1>3. DOMAIN r = 1..(Len(s) - 1)
  BY <1>2, LenProperties
<1> HIDE DEF r
<1>4. ASSUME NEW k \in DOMAIN r PROVE r[k] \in ToSet(s) \ {s[i]}
  <2>1. CASE k < i
    BY <2>1, <1>1, <1>2, <1>3 DEF ToSet, IsInjective
  <2>2. CASE k >= i
    <3>1. k + 1 \in DOMAIN s /\ k + 1 # i /\ r[k] = s[k + 1]
      BY <2>2, <1>1, <1>2, <1>3
    <3> QED BY <3>1 DEF ToSet, IsInjective
  <2> QED BY <2>1, <2>2, <1>1, <1>3
<1>5. ASSUME NEW k \in DOMAIN s, k # i PROVE s[k] \in ToSet(r)
  <2>1. CASE k < i
    <3>1. k \in DOMAIN r /\ r[k] = s[k]
      BY <2>1, <1>1, <1>2, <1>3
    <3> QED BY <3>1 DEF ToSet
  <2>2. CASE k > i
    <3>1. k - 1 \in DOMAIN r /\ r[k - 1] = s[k]
      BY <2>2, <1>1, <1>2, <1>3
    <3> QED BY <3>1 DEF ToSet
  <2> QED BY <2>1, <2>2, <1>1, <1>5
<1>6. ASSUME NEW j \in DOMAIN r, NEW k \in DOMAIN r, r[j] = r[k] PROVE j = k
  <2>1. j \in 1..(Len(s) - 1) /\ k \in 1..(Len(s) - 1)
    BY <1>3
  <2>2. /\ r[j] = s[IF j < i THEN j ELSE j + 1]
        /\ r[k] = s[IF k < i THEN k ELSE k + 1]
    BY <1>2, <2>1
  <2> DEFINE jj == IF j < i THEN j ELSE j + 1
             kk == IF k < i THEN k ELSE k + 1
  <2>3. jj \in DOMAIN s /\ kk \in DOMAIN s
    BY <2>1, <1>1
  <2>4. s[jj] = s[kk]
    BY <2>2, <1>6
  <2>5. jj = kk
    <3> HIDE DEF jj, kk
    <3> QED BY <2>3, <2>4 DEF IsInjective
  <2> QED BY <2>1, <2>5, <1>1
<1>7. ToSet(r) = ToSet(s) \ {s[i]}
  BY <1>4, <1>5 DEF ToSet
<1> QED BY <1>2, <1>6, <1>7 DEF r, IsInjective

-----------------------------------------------------------------------------
(* Type correctness.                                                       *)

LEMMA TypeInit == Init => TypeOK
<1> SUFFICES ASSUME Init PROVE TypeOK
  OBVIOUS
<1>1. /\ << >> \in Seq(Task)
      /\ << >> \in Seq(TaskEvent)
      /\ 0 \in Priority
  BY EmptySeq, LowAssumption DEF Priority
<1> QED BY <1>1 DEF Init, TypeOK, TaskStatus

\* Emitting an event keeps the history typed.
LEMMA AnnounceType ==
  ASSUME TypeOK, NEW t \in Task, NEW event \in TaskEvent, Announce(t, event)
  PROVE  announced' \in [Task -> Seq(TaskEvent)]
<1>1. announced[t] \in Seq(TaskEvent)
  BY DEF TypeOK
<1>2. Append(announced[t], event) \in Seq(TaskEvent)
  BY <1>1, AppendProperties
<1> QED BY <1>2 DEF TypeOK, Announce

LEMMA TypeStep == TypeOK /\ [Next]_vars => TypeOK'
<1> SUFFICES ASSUME TypeOK, [Next]_vars PROVE TypeOK'
  OBVIOUS
<1> USE DEF TypeOK
<1>1. ASSUME NEW i \in DOMAIN queue, StartAt(i) PROVE TypeOK'
  <2>1. queue[i] \in Task /\ i \in 1..Len(queue)
    BY ElementOfSeq, LenProperties
  <2>2. queue' \in Seq(Task)
    BY <1>1, <2>1, RemoveAtElements DEF StartAt
  <2>3. announced' \in [Task -> Seq(TaskEvent)]
    BY <1>1, <2>1, AnnounceType DEF StartAt, TaskEvent
  <2> QED BY <1>1, <2>1, <2>2, <2>3 DEF StartAt, TaskStatus
<1>2. CASE DrainEnds
  BY <1>2 DEF DrainEnds
<1>3. CASE CancelAll
  <2>1. completed' \in Seq(Task)
    BY <1>3, ConcatProperties DEF CancelAll
  <2>2. \A t \in Task : Append(announced[t], "cancelled") \in Seq(TaskEvent)
    BY AppendProperties DEF TaskEvent
  <2>3. announced' \in [Task -> Seq(TaskEvent)]
    BY <1>3, <2>2 DEF CancelAll
  <2>4. queue' \in Seq(Task)
    BY <1>3 DEF CancelAll
  <2>5. status' \in [Task -> TaskStatus \cup {"new"}]
    BY <1>3 DEF CancelAll, TaskStatus
  <2> QED BY <1>3, <2>1, <2>3, <2>4, <2>5 DEF CancelAll
<1>4. ASSUME NEW t \in Task, Enqueue(t) PROVE TypeOK'
  <2>1. queue' \in Seq(Task) /\ arrived' \in Seq(Task)
    BY <1>4, AppendProperties DEF Enqueue
  <2>2. prio' \in [Task -> Priority] /\ deps' \in [Task -> SUBSET (Task \cup {Ghost})]
    <3>1. PICK p \in Priority, D \in SUBSET ({u \in Task : status[u] # "new"} \cup {Ghost}) :
            /\ prio' = [prio EXCEPT ![t] = p]
            /\ deps' = [deps EXCEPT ![t] = D]
      BY <1>4 DEF Enqueue
    <3>2. D \in SUBSET (Task \cup {Ghost})
      OBVIOUS
    <3> QED BY <3>1, <3>2
  <2>3. status' \in [Task -> TaskStatus \cup {"new"}]
    BY <1>4 DEF Enqueue, TaskStatus
  <2> QED BY <1>4, <2>1, <2>2, <2>3 DEF Enqueue
<1>5. ASSUME NEW t \in Task, CancelQueued(t) PROVE TypeOK'
  <2>1. PICK i \in DOMAIN queue : queue[i] = t /\ queue' = RemoveAt(queue, i)
    BY <1>5 DEF CancelQueued
  <2>2. queue' \in Seq(Task)
    <3>1. queue \in Seq(Task) /\ i \in 1..Len(queue)
      BY LenProperties
    <3>2. RemoveAt(queue, i) \in Seq(Task)
      BY ONLY <3>1, RemoveAtElements
    <3> QED BY <2>1, <3>2
  <2>3. announced' \in [Task -> Seq(TaskEvent)]
    BY <1>5, AnnounceType DEF CancelQueued, TaskEvent
  <2>4. completed' \in Seq(Task)
    BY <1>5, AppendProperties DEF CancelQueued
  <2> QED BY <1>5, <2>2, <2>3, <2>4 DEF CancelQueued, TaskStatus
<1>6. ASSUME NEW t \in Task, CancelRunning(t) PROVE TypeOK'
  BY <1>6 DEF CancelRunning, TaskStatus
<1>7. ASSUME NEW t \in Task, RunnerReturns(t) PROVE TypeOK'
  <2>1. announced' \in [Task -> Seq(TaskEvent)]
    BY <1>7, AnnounceType DEF RunnerReturns, TaskEvent
  <2> QED BY <1>7, <2>1 DEF RunnerReturns, TaskStatus
<1>8. ASSUME NEW t \in Task, RunnerThrows(t) PROVE TypeOK'
  <2>1. announced' \in [Task -> Seq(TaskEvent)]
    BY <1>8, AnnounceType DEF RunnerThrows, TaskEvent
  <2> QED BY <1>8, <2>1 DEF RunnerThrows, TaskStatus
<1>9. ASSUME NEW t \in Task, ListenerThrows(t) PROVE TypeOK'
  <2>1. announced' \in [Task -> Seq(TaskEvent)]
    BY <1>9, AnnounceType DEF ListenerThrows, TaskEvent
  <2> QED BY <1>9, <2>1 DEF ListenerThrows, TaskStatus
<1>10. ASSUME NEW t \in Task, Settle(t) PROVE TypeOK'
  <2>1. completed' \in Seq(Task)
    BY <1>10, AppendProperties DEF Settle
  <2> QED BY <1>10, <2>1 DEF Settle
<1>11. CASE UNCHANGED vars
  BY <1>11 DEF vars
<1> QED BY <1>1, <1>2, <1>3, <1>4, <1>5, <1>6, <1>7, <1>8, <1>9, <1>10, <1>11
        DEF Next, Start

\* Every variable keeps its type, whatever the tasks and the limits are.
THEOREM TypeCorrect == Spec => []TypeOK
BY TypeInit, TypeStep, PTL DEF Spec

-----------------------------------------------------------------------------
(* What each action does to the three collections.                         *)

\* Starting takes one task off the queue.
LEMMA StartEffect ==
  ASSUME TypeOK, OnePlace, NEW i \in DOMAIN queue, StartAt(i)
  PROVE  /\ queue[i] \in Task /\ queue[i] \in ToSet(queue)
         /\ status[queue[i]] = "queued"
         /\ ToSet(queue') = ToSet(queue) \ {queue[i]}
         /\ IsInjective(queue')
<1>1. queue[i] \in Task /\ queue[i] \in ToSet(queue)
  BY ElementOfSeq, LenProperties DEF TypeOK, ToSet
<1> QED BY <1>1, RemoveAtRange DEF TypeOK, OnePlace, StartAt

\* Cancelling a queued task moves it from the queue to the completed list.
LEMMA CancelQueuedEffect ==
  ASSUME TypeOK, OnePlace, NEW t \in Task, CancelQueued(t)
  PROVE  /\ t \in ToSet(queue) /\ status[t] = "queued"
         /\ ToSet(queue') = ToSet(queue) \ {t} /\ IsInjective(queue')
         /\ ToSet(completed') = ToSet(completed) \cup {t} /\ IsInjective(completed')
<1>1. PICK i \in DOMAIN queue : queue[i] = t /\ queue' = RemoveAt(queue, i)
  BY DEF CancelQueued
<1>2. t \in ToSet(queue) /\ status[t] = "queued"
  BY <1>1 DEF ToSet, OnePlace
<1>3. ToSet(queue') = ToSet(queue) \ {t} /\ IsInjective(queue')
  BY <1>1, RemoveAtRange DEF TypeOK, OnePlace
<1>4. t \notin ToSet(completed)
  BY <1>2 DEF OnePlace, Terminal
<1>5. ToSet(completed') = ToSet(completed) \cup {t} /\ IsInjective(completed')
  BY <1>4, AppendRange DEF TypeOK, OnePlace, CancelQueued
<1> QED BY <1>2, <1>3, <1>5

\* Shutdown empties the queue into the completed list.
LEMMA CancelAllEffect ==
  ASSUME TypeOK, OnePlace, CancelAll
  PROVE  /\ ToSet(queue') = {} /\ IsInjective(queue')
         /\ ToSet(completed') = ToSet(completed) \cup ToSet(queue) /\ IsInjective(completed')
<1>1. ToSet(queue) \subseteq Task
  BY ElementOfSeq, LenProperties DEF TypeOK, ToSet
<1>2. ToSet(completed) \cap ToSet(queue) = {}
  BY <1>1 DEF OnePlace, Terminal
<1>3. ToSet(completed') = ToSet(completed) \cup ToSet(queue) /\ IsInjective(completed')
  BY <1>2, ConcatRange DEF TypeOK, OnePlace, CancelAll
<1>4. ToSet(queue') = {} /\ IsInjective(queue')
  BY DEF CancelAll, ToSet, IsInjective
<1> QED BY <1>3, <1>4

\* Enqueueing adds a new task to the queue.
LEMMA EnqueueEffect ==
  ASSUME TypeOK, OnePlace, NEW t \in Task, Enqueue(t)
  PROVE  /\ t \notin ToSet(queue) \cup ToSet(completed) \cup running
         /\ ToSet(queue') = ToSet(queue) \cup {t} /\ IsInjective(queue')
         /\ \E D \in SUBSET ({u \in Task : status[u] # "new"} \cup {Ghost}) :
              deps' = [deps EXCEPT ![t] = D]
<1>1. t \notin ToSet(queue) \cup ToSet(completed) \cup running
  BY DEF Enqueue, OnePlace, Terminal
<1>2. ToSet(queue') = ToSet(queue) \cup {t} /\ IsInjective(queue')
  BY <1>1, AppendRange DEF TypeOK, OnePlace, Enqueue
<1>3. \E D \in SUBSET ({u \in Task : status[u] # "new"} \cup {Ghost}) :
              deps' = [deps EXCEPT ![t] = D]
  BY DEF Enqueue
<1> QED BY <1>1, <1>2, <1>3

\* Settling moves a task from the running set to the completed list.
LEMMA SettleEffect ==
  ASSUME TypeOK, OnePlace, SettlingHoldsSlot, NEW t \in Task, Settle(t)
  PROVE  /\ t \in running /\ status[t] \in Terminal /\ t \notin ToSet(completed)
         /\ ToSet(completed') = ToSet(completed) \cup {t} /\ IsInjective(completed')
<1>1. t \in running /\ status[t] \in Terminal
  BY NamesAssumption DEF SettlingHoldsSlot, Settle
<1>2. t \notin ToSet(completed)
  BY <1>1 DEF OnePlace
<1>3. ToSet(completed') = ToSet(completed) \cup {t} /\ IsInjective(completed')
  BY <1>2, AppendRange DEF TypeOK, OnePlace, Settle
<1> QED BY <1>1, <1>2, <1>3

-----------------------------------------------------------------------------
(* A task is in one place.                                                 *)

LEMMA OnePlaceStep ==
  TypeOK /\ OnePlace /\ SettlingHoldsSlot /\ [Next]_vars => OnePlace'
<1> SUFFICES ASSUME TypeOK, OnePlace, SettlingHoldsSlot, [Next]_vars PROVE OnePlace'
  OBVIOUS
<1> USE DEF TypeOK, OnePlace, Terminal
<1>1. ASSUME NEW i \in DOMAIN queue, StartAt(i) PROVE OnePlace'
  <2>1. /\ running' = running \cup {queue[i]} /\ completed' = completed
        /\ status' = [status EXCEPT ![queue[i]] = "running"]
    BY <1>1 DEF StartAt
  <2>2. /\ queue[i] \in Task /\ queue[i] \in ToSet(queue)
        /\ ToSet(queue') = ToSet(queue) \ {queue[i]} /\ IsInjective(queue')
    BY <1>1, StartEffect
  <2>3. status[queue[i]] = "queued" /\ queue[i] \notin ToSet(completed)
    BY <2>2
  <2> QED BY <2>1, <2>2, <2>3
<1>2. CASE DrainEnds
  BY <1>2 DEF DrainEnds
<1>3. CASE CancelAll
  BY <1>3, CancelAllEffect DEF CancelAll
<1>4. ASSUME NEW t \in Task, Enqueue(t) PROVE OnePlace'
  <2>1. /\ status' = [status EXCEPT ![t] = "queued"]
        /\ running' = running /\ completed' = completed
    BY <1>4 DEF Enqueue
  <2>2. /\ t \notin ToSet(completed) \cup running
        /\ ToSet(queue') = ToSet(queue) \cup {t} /\ IsInjective(queue')
    BY <1>4, EnqueueEffect
  <2> QED BY <2>1, <2>2
<1>5. ASSUME NEW t \in Task, CancelQueued(t) PROVE OnePlace'
  <2>1. running' = running /\ status' = [status EXCEPT ![t] = "cancelled"]
    BY <1>5 DEF CancelQueued
  <2>2. /\ t \in ToSet(queue) /\ status[t] = "queued"
        /\ ToSet(queue') = ToSet(queue) \ {t} /\ IsInjective(queue')
        /\ ToSet(completed') = ToSet(completed) \cup {t} /\ IsInjective(completed')
    BY <1>5, CancelQueuedEffect
  <2>3. t \notin running
    BY <2>2
  <2> QED BY <2>1, <2>2, <2>3
<1>6. ASSUME NEW t \in Task, CancelRunning(t) PROVE OnePlace'
  BY <1>6 DEF CancelRunning
<1>7. ASSUME NEW t \in Task, RunnerReturns(t) PROVE OnePlace'
  BY <1>7 DEF RunnerReturns
<1>8. ASSUME NEW t \in Task, RunnerThrows(t) PROVE OnePlace'
  BY <1>8 DEF RunnerThrows
<1>9. ASSUME NEW t \in Task, ListenerThrows(t) PROVE OnePlace'
  BY <1>9, NamesAssumption DEF ListenerThrows, SettlingHoldsSlot
<1>10. ASSUME NEW t \in Task, Settle(t) PROVE OnePlace'
  BY <1>10, SettleEffect DEF Settle
<1>11. CASE UNCHANGED vars
  BY <1>11 DEF vars
<1> QED BY <1>1, <1>2, <1>3, <1>4, <1>5, <1>6, <1>7, <1>8, <1>9, <1>10, <1>11
        DEF Next, Start

-----------------------------------------------------------------------------
(* The remaining parts of the inductive invariant.                         *)

\* The running set is finite: it is never larger than the limit because a
\* task is added only below the limit.
FiniteRunning == IsFiniteSet(running)

LEMMA SlotsStep ==
  TypeOK /\ FiniteRunning /\ ConcurrencyBound /\ [Next]_vars
    => FiniteRunning' /\ ConcurrencyBound'
<1> SUFFICES ASSUME TypeOK, FiniteRunning, ConcurrencyBound, [Next]_vars
             PROVE  FiniteRunning' /\ ConcurrencyBound'
  OBVIOUS
<1> USE DEF FiniteRunning, ConcurrencyBound
<1>1. ASSUME NEW i \in DOMAIN queue, StartAt(i) PROVE FiniteRunning' /\ ConcurrencyBound'
  <2>1. running' = running \cup {queue[i]} /\ Cardinality(running) < Concurrency
    BY <1>1 DEF StartAt, HasSlot
  <2>2. /\ IsFiniteSet(running')
        /\ Cardinality(running') = Cardinality(running) \/ Cardinality(running') = Cardinality(running) + 1
    BY <2>1, FS_AddElement
  <2>3. Cardinality(running) \in Nat
    BY FS_CardinalityType
  <2> QED BY <2>1, <2>2, <2>3, ConcurrencyAssumption
<1>2. ASSUME NEW t \in Task, Settle(t) PROVE FiniteRunning' /\ ConcurrencyBound'
  <2>1. running' = running \ {t}
    BY <1>2 DEF Settle
  <2>2. /\ IsFiniteSet(running')
        /\ Cardinality(running') = Cardinality(running) \/ Cardinality(running') = Cardinality(running) - 1
    BY <2>1, FS_RemoveElement
  <2>3. Cardinality(running) \in Nat
    BY FS_CardinalityType
  <2> QED BY <2>2, <2>3, ConcurrencyAssumption
<1>3. CASE running' = running
  BY <1>3
<1> QED BY <1>1, <1>2, <1>3
        DEF Next, Start, DrainEnds, CancelAll, Enqueue, CancelQueued, CancelRunning,
            RunnerReturns, RunnerThrows, ListenerThrows, vars

\* A settling task holds its slot, and the last event says what it became.
LEMMA SettlingStep ==
  TypeOK /\ OnePlace /\ SettlingHoldsSlot /\ [Next]_vars => SettlingHoldsSlot'
<1> SUFFICES ASSUME TypeOK, OnePlace, SettlingHoldsSlot, [Next]_vars PROVE SettlingHoldsSlot'
  OBVIOUS
<1> USE NamesAssumption DEF TypeOK, SettlingHoldsSlot, Terminal
<1>0. ASSUME settling \in Task PROVE status[settling] # "queued" /\ status[settling] # "new"
  BY <1>0
<1>1. ASSUME NEW i \in DOMAIN queue, StartAt(i) PROVE SettlingHoldsSlot'
  <2>1. queue[i] \in Task /\ status[queue[i]] = "queued"
    BY <1>1, StartEffect
  <2>2. settling # NoTask => settling # queue[i]
    BY <2>1, <1>0
  <2> QED BY <1>1, <2>1, <2>2 DEF StartAt, Announce
<1>2. CASE DrainEnds
  BY <1>2 DEF DrainEnds
<1>3. CASE CancelAll
  <2>1. settling # NoTask => settling \in running /\ settling \notin ToSet(queue)
    BY <1>0 DEF OnePlace
  <2> QED BY <1>3, <2>1 DEF CancelAll
<1>4. ASSUME NEW t \in Task, Enqueue(t) PROVE SettlingHoldsSlot'
  <2>1. settling # NoTask => settling # t
    BY <1>4, <1>0 DEF Enqueue
  <2>2. /\ status' = [status EXCEPT ![t] = "queued"]
        /\ running' = running /\ settling' = settling /\ announced' = announced
    BY <1>4 DEF Enqueue
  <2> QED BY <2>1, <2>2
<1>5. ASSUME NEW t \in Task, CancelQueued(t) PROVE SettlingHoldsSlot'
  <2>1. settling # NoTask => settling # t
    BY <1>5, <1>0, CancelQueuedEffect
  <2> QED BY <1>5, <2>1 DEF CancelQueued, Announce
<1>6. ASSUME NEW t \in Task, CancelRunning(t) PROVE SettlingHoldsSlot'
  BY <1>6 DEF CancelRunning
<1>7. ASSUME NEW t \in Task, RunnerReturns(t) \/ RunnerThrows(t) PROVE SettlingHoldsSlot'
  <2>1. \A e \in TaskEvent : Last(Append(announced[t], e)) = e
    <3>1. announced[t] \in Seq(TaskEvent)
      OBVIOUS
    <3> QED BY <3>1, AppendProperties DEF Last
  <2>2. CASE RunnerReturns(t)
    <3>1. announced'[t] = Append(announced[t], "completed")
      BY <2>2 DEF RunnerReturns, Announce
    <3>2. Last(announced'[t]) = "completed"
      BY <2>1, <3>1 DEF TaskEvent
    <3> QED BY <2>2, <3>2 DEF RunnerReturns
  <2>3. CASE RunnerThrows(t)
    <3>1. announced'[t] = Append(announced[t], "failed")
      BY <2>3 DEF RunnerThrows, Announce
    <3>2. Last(announced'[t]) = "failed"
      BY <2>1, <3>1 DEF TaskEvent
    <3> QED BY <2>3, <3>2 DEF RunnerThrows
  <2> QED BY <1>7, <2>2, <2>3
<1>8. ASSUME NEW t \in Task, ListenerThrows(t) PROVE SettlingHoldsSlot'
  <2>1. announced'[t] = Append(announced[t], "failed")
    BY <1>8 DEF ListenerThrows, Announce
  <2>2. announced[t] \in Seq(TaskEvent) /\ "failed" \in TaskEvent
    BY DEF TaskEvent
  <2>3. Last(announced'[t]) = "failed"
    BY <2>1, <2>2, AppendProperties DEF Last
  <2> QED BY <1>8, <2>3 DEF ListenerThrows
<1>9. ASSUME NEW t \in Task, Settle(t) PROVE SettlingHoldsSlot'
  BY <1>9 DEF Settle
<1>10. CASE UNCHANGED vars
  BY <1>10 DEF vars
<1> QED BY <1>1, <1>2, <1>3, <1>4, <1>5, <1>6, <1>7, <1>8, <1>9, <1>10
        DEF Next, Start

\* Finished tasks keep their outcome, so a met dependency stays met.
LEMMA FinishedStep ==
  ASSUME TypeOK, OnePlace, SettlingHoldsSlot, [Next]_vars, NEW u \in ToSet(completed)
  PROVE  u \in Task /\ u \in ToSet(completed') /\ status'[u] = status[u]
<1> USE NamesAssumption DEF TypeOK
<1>0. u \in Task /\ u \notin running /\ status[u] \in Terminal /\ u \notin ToSet(queue)
  <2>1. u \in Task
    BY ElementOfSeq, LenProperties DEF ToSet
  <2> QED BY <2>1 DEF OnePlace, Terminal
<1>1. ASSUME NEW i \in DOMAIN queue, StartAt(i) PROVE u \in ToSet(completed') /\ status'[u] = status[u]
  <2>1. queue[i] # u
    BY <1>0, <1>1, StartEffect
  <2> QED BY <1>0, <1>1, <2>1 DEF StartAt
<1>2. CASE DrainEnds
  BY <1>0, <1>2 DEF DrainEnds
<1>3. CASE CancelAll
  <2>1. status' = [t \in Task |-> IF t \in ToSet(queue) \cup running THEN "cancelled" ELSE status[t]]
    BY <1>3 DEF CancelAll
  <2>2. u \in ToSet(completed')
    BY <1>3, CancelAllEffect
  <2>3. status'[u] = IF u \in ToSet(queue) \cup running THEN "cancelled" ELSE status[u]
    BY <1>0, <2>1, Zenon
  <2> QED BY <1>0, <2>2, <2>3
<1>4. ASSUME NEW t \in Task, Enqueue(t) PROVE u \in ToSet(completed') /\ status'[u] = status[u]
  <2>1. t # u /\ completed' = completed /\ status' = [status EXCEPT ![t] = "queued"]
    BY <1>0, <1>4 DEF Enqueue, Terminal
  <2> QED BY <1>0, <2>1
<1>5. ASSUME NEW t \in Task, CancelQueued(t) PROVE u \in ToSet(completed') /\ status'[u] = status[u]
  BY <1>0, <1>5, CancelQueuedEffect DEF CancelQueued
<1>6. ASSUME NEW t \in Task, CancelRunning(t) \/ RunnerReturns(t) \/ RunnerThrows(t)
      PROVE u \in ToSet(completed') /\ status'[u] = status[u]
  BY <1>0, <1>6 DEF CancelRunning, RunnerReturns, RunnerThrows
<1>7. ASSUME NEW t \in Task, ListenerThrows(t) PROVE u \in ToSet(completed') /\ status'[u] = status[u]
  <2>1. t \in running
    BY <1>7 DEF ListenerThrows, SettlingHoldsSlot
  <2> QED BY <1>0, <1>7, <2>1 DEF ListenerThrows
<1>8. ASSUME NEW t \in Task, Settle(t) PROVE u \in ToSet(completed') /\ status'[u] = status[u]
  BY <1>8, SettleEffect DEF Settle
<1>9. CASE UNCHANGED vars
  BY <1>0, <1>9 DEF vars
<1>10. u \in ToSet(completed') /\ status'[u] = status[u]
  BY <1>1, <1>2, <1>3, <1>4, <1>5, <1>6, <1>7, <1>8, <1>9 DEF Next, Start
<1> QED BY <1>0, <1>10

\* An event other than "started" leaves the started tasks as they were.
LEMMA AnnounceStarted ==
  ASSUME TypeOK, NEW t \in Task, NEW event \in TaskEvent, Announce(t, event), NEW u \in Task
  PROVE  "started" \in ToSet(announced'[u]) <=>
           "started" \in ToSet(announced[u]) \/ (u = t /\ event = "started")
<1>1. announced[t] \in Seq(TaskEvent)
  BY DEF TypeOK
<1>2. ToSet(Append(announced[t], event)) = ToSet(announced[t]) \cup {event}
  BY <1>1, AppendRange
<1> QED BY <1>2 DEF TypeOK, Announce

\* The started tasks change only when one starts.
LEMMA StartedStep ==
  ASSUME TypeOK, [Next]_vars, NEW u \in Task,
         \A i \in DOMAIN queue : StartAt(i) => queue[i] # u
  PROVE  "started" \in ToSet(announced'[u]) <=> "started" \in ToSet(announced[u])
<1> USE DEF TypeOK
<1>1. ASSUME NEW i \in DOMAIN queue, StartAt(i)
      PROVE  "started" \in ToSet(announced'[u]) <=> "started" \in ToSet(announced[u])
  <2>1. queue[i] \in Task
    BY ElementOfSeq, LenProperties
  <2>2. queue[i] # u
    BY <1>1
  <2>3. "started" \in TaskEvent /\ Announce(queue[i], "started")
    BY <1>1 DEF StartAt, TaskEvent
  <2> QED BY <2>1, <2>2, <2>3, AnnounceStarted
<1>2. CASE CancelAll
  <2>1. announced[u] \in Seq(TaskEvent) /\ "cancelled" \in TaskEvent
    BY DEF TaskEvent
  <2>2. ToSet(Append(announced[u], "cancelled")) = ToSet(announced[u]) \cup {"cancelled"}
    BY <2>1, AppendRange
  <2>3. announced'[u] = IF u \in ToSet(queue) THEN Append(announced[u], "cancelled") ELSE announced[u]
    BY <1>2 DEF CancelAll
  <2> QED BY <2>2, <2>3
<1>3. ASSUME NEW t \in Task, CancelQueued(t) \/ RunnerReturns(t) \/ RunnerThrows(t) \/ ListenerThrows(t)
      PROVE  "started" \in ToSet(announced'[u]) <=> "started" \in ToSet(announced[u])
  <2>1. PICK e \in {"cancelled", "completed", "failed"} : Announce(t, e)
    BY <1>3 DEF CancelQueued, RunnerReturns, RunnerThrows, ListenerThrows
  <2>2. e \in TaskEvent /\ e # "started"
    BY DEF TaskEvent
  <2> QED BY <2>1, <2>2, AnnounceStarted
<1>4. CASE announced' = announced
  BY <1>4
<1> QED BY <1>1, <1>2, <1>3, <1>4
        DEF Next, Start, DrainEnds, Enqueue, CancelRunning, Settle, vars

\* Nothing that waits has started.
LEMMA WaitingStep ==
  TypeOK /\ OnePlace /\ SettlingHoldsSlot /\ WaitingNotStarted /\ [Next]_vars => WaitingNotStarted'
<1> SUFFICES ASSUME TypeOK, OnePlace, SettlingHoldsSlot, WaitingNotStarted, [Next]_vars,
                    NEW u \in Task, status'[u] \in {"new", "queued"}
             PROVE  "started" \notin ToSet(announced'[u])
  BY DEF WaitingNotStarted
<1>1. status[u] \in {"new", "queued"}
  BY DEF TypeOK, Next, Start, StartAt, DrainEnds, CancelAll, Enqueue, CancelQueued,
         CancelRunning, RunnerReturns, RunnerThrows, ListenerThrows, Settle, vars
<1>2. ASSUME NEW i \in DOMAIN queue, StartAt(i) PROVE queue[i] # u
  BY <1>2, StartEffect DEF StartAt, TypeOK
<1> QED BY <1>1, <1>2, StartedStep DEF WaitingNotStarted

\* What an enqueued task asked for does not change.
LEMMA RequestStep ==
  ASSUME TypeOK, [Next]_vars, NEW u \in Task, status[u] # "new"
  PROVE  deps'[u] = deps[u] /\ prio'[u] = prio[u]
<1>1. ASSUME NEW t \in Task, Enqueue(t) PROVE deps'[u] = deps[u] /\ prio'[u] = prio[u]
  <2>1. PICK p \in Priority, D \in SUBSET ({v \in Task : status[v] # "new"} \cup {Ghost}) :
          /\ prio' = [prio EXCEPT ![t] = p]
          /\ deps' = [deps EXCEPT ![t] = D]
    BY <1>1 DEF Enqueue
  <2>2. t # u
    BY <1>1 DEF Enqueue
  <2> QED BY <2>1, <2>2 DEF TypeOK
<1>2. CASE deps' = deps /\ prio' = prio
  BY <1>2
<1> QED BY <1>1, <1>2
        DEF Next, Start, StartAt, DrainEnds, CancelAll, CancelQueued, CancelRunning,
            RunnerReturns, RunnerThrows, ListenerThrows, Settle, vars

\* Met dependencies stay met.
LEMMA MetStep ==
  ASSUME TypeOK, OnePlace, SettlingHoldsSlot, [Next]_vars,
         NEW u \in Task, status[u] # "new", AreDependenciesMet(u)
  PROVE  AreDependenciesMet(u)'
<1>1. deps'[u] = deps[u]
  BY RequestStep
<1>2. ASSUME NEW d \in deps[u] PROVE d \in ToSet(completed') /\ status'[d] = "completed"
  <2>1. d \in ToSet(completed) /\ status[d] = "completed"
    BY <1>2 DEF AreDependenciesMet
  <2> QED BY <2>1, FinishedStep
<1> QED BY <1>1, <1>2 DEF AreDependenciesMet

LEMMA DependenciesStep ==
  ASSUME TypeOK, OnePlace, SettlingHoldsSlot, WaitingNotStarted, DependenciesHonoured, [Next]_vars
  PROVE  DependenciesHonoured'
<1> SUFFICES ASSUME NEW u \in Task, "started" \in ToSet(announced'[u])
             PROVE  AreDependenciesMet(u)'
  BY DEF DependenciesHonoured
<1>1. ASSUME NEW i \in DOMAIN queue, StartAt(i), queue[i] = u PROVE AreDependenciesMet(u)'
  <2>1. AreDependenciesMet(u) /\ status[u] # "new"
    BY <1>1, StartEffect DEF StartAt, IsNext, ReadyAt
  <2> QED BY <2>1, MetStep
<1>2. ASSUME \A i \in DOMAIN queue : StartAt(i) => queue[i] # u PROVE AreDependenciesMet(u)'
  <2>1. "started" \in ToSet(announced[u])
    BY <1>2, StartedStep
  <2>2. AreDependenciesMet(u) /\ status[u] # "new"
    BY <2>1 DEF DependenciesHonoured, WaitingNotStarted
  <2> QED BY <2>2, MetStep
<1> QED BY <1>1, <1>2

\* Cancelling makes no waiting task ready.
LEMMA CancelStep ==
  ASSUME TypeOK, OnePlace, NEW t \in Task, CancelQueued(t) \/ CancelRunning(t),
         NEW u \in Task, AreDependenciesMet(u)'
  PROVE  AreDependenciesMet(u)
<1>1. /\ deps' = deps /\ status' = [status EXCEPT ![t] = "cancelled"]
      /\ ToSet(completed') \subseteq ToSet(completed) \cup {t}
  BY CancelQueuedEffect DEF CancelQueued, CancelRunning
<1>2. ASSUME NEW d \in deps[u] PROVE d \in ToSet(completed) /\ status[d] = "completed"
  <2>1. d \in ToSet(completed') /\ status'[d] = "completed"
    BY <1>1, <1>2 DEF AreDependenciesMet
  <2>2. status'[t] = "cancelled"
    BY <1>1 DEF TypeOK
  <2>3. d # t
    BY <2>1, <2>2
  <2>4. d \in ToSet(completed)
    BY <1>1, <2>1, <2>3
  <2>5. d \in Task
    BY <2>4, ElementOfSeq, LenProperties DEF ToSet, TypeOK
  <2> QED BY <1>1, <2>1, <2>3, <2>4, <2>5 DEF TypeOK
<1> QED BY <1>2 DEF AreDependenciesMet

LEMMA NoIdleSlotStep ==
  ASSUME TypeOK, OnePlace, NoIdleSlot, [Next]_vars
  PROVE  NoIdleSlot'
<1>0. queue' \in Seq(Task)
  BY TypeStep DEF TypeOK
<1> SUFFICES ASSUME Idle', HasSlot', NEW j \in DOMAIN queue',
                    NEW u \in Task, u = queue'[j], AreDependenciesMet(u)'
             PROVE  FALSE
  <2>1. SUFFICES ASSUME NEW j \in ReadyAt', Idle', HasSlot' PROVE FALSE
    BY DEF NoIdleSlot
  <2>2. PICK u \in Task : u = queue'[j]
    BY <1>0, ElementOfSeq, LenProperties DEF ReadyAt
  <2>3. AreDependenciesMet(u)'
    BY <2>1, <2>2 DEF ReadyAt, AreDependenciesMet
  <2> QED BY <2>1, <2>2, <2>3 DEF ReadyAt
<1>1. CASE DrainEnds
  <2>1. ReadyAt = {}
    BY <1>1 DEF DrainEnds, HasSlot
  <2>2. queue' = queue /\ deps' = deps /\ completed' = completed /\ status' = status
    BY <1>1 DEF DrainEnds
  <2>3. AreDependenciesMet(queue[j])
    BY <2>2 DEF AreDependenciesMet
  <2> QED BY <2>1, <2>2, <2>3 DEF ReadyAt
<1>2. CASE CancelAll
  BY <1>2 DEF CancelAll
<1>3. ASSUME NEW t \in Task, CancelQueued(t) \/ CancelRunning(t) PROVE FALSE
  <2>1. ReadyAt = {}
    BY <1>3 DEF CancelQueued, CancelRunning, NoIdleSlot, Idle, HasSlot
  <2>2. ToSet(queue') \subseteq ToSet(queue)
    BY <1>3, CancelQueuedEffect DEF CancelRunning
  <2>3. PICK k \in DOMAIN queue : queue[k] = u
    BY <2>2 DEF ToSet
  <2>4. AreDependenciesMet(u)
    BY <1>3, CancelStep
  <2> QED BY <2>1, <2>3, <2>4 DEF ReadyAt
<1>4. CASE UNCHANGED vars
  <2>1. queue' = queue /\ deps' = deps /\ completed' = completed /\ status' = status
    BY <1>4 DEF vars
  <2>2. AreDependenciesMet(queue[j])
    BY <2>1 DEF AreDependenciesMet
  <2> QED BY <1>4, <2>1, <2>2 DEF vars, NoIdleSlot, Idle, HasSlot, ReadyAt
<1>5. CASE draining' \/ settling' # NoTask
  BY <1>5 DEF Idle
<1> QED BY <1>1, <1>2, <1>3, <1>4, <1>5, NamesAssumption
        DEF Next, Start, StartAt, Enqueue, RunnerReturns, RunnerThrows, ListenerThrows, Settle

\* A finished task emits nothing more.
LEMMA FinishedQuiet ==
  ASSUME TypeOK, OnePlace, SettlingHoldsSlot, [Next]_vars, NEW u \in ToSet(completed)
  PROVE  announced'[u] = announced[u]
<1>0. u \in Task /\ u \notin running /\ u \notin ToSet(queue)
  <2>1. u \in Task
    BY ElementOfSeq, LenProperties DEF ToSet, TypeOK
  <2> QED BY <2>1 DEF OnePlace, Terminal
<1>1. ASSUME NEW i \in DOMAIN queue, StartAt(i) PROVE announced'[u] = announced[u]
  <2>1. queue[i] # u
    BY <1>0, <1>1, StartEffect
  <2> QED BY <1>0, <1>1, <2>1 DEF StartAt, Announce, TypeOK
<1>2. CASE CancelAll
  BY <1>0, <1>2 DEF CancelAll
<1>3. ASSUME NEW t \in Task, CancelQueued(t) PROVE announced'[u] = announced[u]
  <2>1. t # u
    BY <1>0, <1>3, CancelQueuedEffect
  <2> QED BY <1>0, <1>3, <2>1 DEF CancelQueued, Announce, TypeOK
<1>4. ASSUME NEW t \in Task, RunnerReturns(t) \/ RunnerThrows(t) \/ ListenerThrows(t)
      PROVE  announced'[u] = announced[u]
  <2>1. t \in running
    BY <1>4, NamesAssumption DEF RunnerReturns, RunnerThrows, ListenerThrows, SettlingHoldsSlot
  <2> QED BY <1>0, <1>4, <2>1 DEF RunnerReturns, RunnerThrows, ListenerThrows, Announce, TypeOK
<1>5. CASE announced' = announced
  BY <1>5
<1> QED BY <1>1, <1>2, <1>3, <1>4, <1>5
        DEF Next, Start, DrainEnds, Enqueue, CancelRunning, Settle, vars

LEMMA OutcomeAnnouncedStep ==
  ASSUME TypeOK, OnePlace, SettlingHoldsSlot, OutcomeAnnounced, [Next]_vars
  PROVE  OutcomeAnnounced'
<1> SUFFICES ASSUME NEW u \in ToSet(completed'), status'[u] \in {"completed", "failed"}
             PROVE  Last(announced'[u]) = status'[u]
  BY DEF OutcomeAnnounced
<1>1. CASE u \in ToSet(completed)
  BY <1>1, FinishedStep, FinishedQuiet DEF OutcomeAnnounced
<1>2. ASSUME NEW t \in Task, Settle(t), u \notin ToSet(completed)
      PROVE  Last(announced'[u]) = status'[u]
  BY <1>2, SettleEffect, NamesAssumption DEF Settle, SettlingHoldsSlot
<1>3. ASSUME CancelAll, u \notin ToSet(completed) PROVE FALSE
  <2>1. u \in ToSet(queue)
    BY <1>3, CancelAllEffect
  <2>2. u \in Task
    BY <2>1, ElementOfSeq, LenProperties DEF ToSet, TypeOK
  <2> QED BY <1>3, <2>1, <2>2 DEF CancelAll
<1>4. ASSUME NEW t \in Task, CancelQueued(t), u \notin ToSet(completed) PROVE FALSE
  <2>1. u = t
    BY <1>4, CancelQueuedEffect
  <2> QED BY <1>4, <2>1 DEF CancelQueued, TypeOK
<1>5. CASE completed' = completed
  BY <1>1, <1>5
<1> QED BY <1>1, <1>2, <1>3, <1>4, <1>5
        DEF Next, Start, StartAt, DrainEnds, Enqueue, CancelRunning, RunnerReturns, RunnerThrows,
            ListenerThrows, vars

-----------------------------------------------------------------------------
(* The order of starting.                                                  *)

\* Actions other than Start and Enqueue add nothing to the queue and leave
\* requests and arrivals alone.
LEMMA QuietStep ==
  ASSUME TypeOK, OnePlace, [Next]_vars, ~Start, \A t \in Task : ~Enqueue(t)
  PROVE  /\ arrived' = arrived /\ deps' = deps /\ prio' = prio
         /\ ToSet(queue') \subseteq ToSet(queue)
<1>1. ASSUME NEW t \in Task, CancelQueued(t)
      PROVE  arrived' = arrived /\ deps' = deps /\ prio' = prio /\ ToSet(queue') \subseteq ToSet(queue)
  BY <1>1, CancelQueuedEffect DEF CancelQueued
<1>2. CASE CancelAll
  BY <1>2, CancelAllEffect DEF CancelAll
<1>3. CASE arrived' = arrived /\ deps' = deps /\ prio' = prio /\ queue' = queue
  BY <1>3
<1> QED BY <1>1, <1>2, <1>3
        DEF Next, DrainEnds, CancelRunning, RunnerReturns, RunnerThrows, ListenerThrows, Settle, vars

\* A queue that is a queue of before with one position removed keeps its order.
LEMMA OrderAfterRemoval ==
  ASSUME NEW i \in 1..Len(queue), queue \in Seq(Task), arrived' = arrived, queue' = RemoveAt(queue, i),
         QueueKeepsArrivalOrder
  PROVE  \A j, k \in DOMAIN queue' : \A a, b \in DOMAIN arrived' :
           j < k /\ arrived'[a] = queue'[j] /\ arrived'[b] = queue'[k] => a < b
<1>1. /\ queue' \in Seq(Task) /\ Len(queue') = Len(queue) - 1 /\ Len(queue) \in Nat
      /\ \A j \in 1..(Len(queue) - 1) : queue'[j] = IF j < i THEN queue[j] ELSE queue[j + 1]
  BY RemoveAtElements, LenProperties
<1>2. DOMAIN queue' = 1..(Len(queue) - 1) /\ DOMAIN queue = 1..Len(queue)
  BY <1>1, LenProperties
<1> TAKE j, k \in DOMAIN queue'
<1> TAKE a, b \in DOMAIN arrived'
<1> HAVE j < k /\ arrived'[a] = queue'[j] /\ arrived'[b] = queue'[k]
<1> DEFINE at(x) == IF x < i THEN x ELSE x + 1
<1>3. at(j) \in DOMAIN queue /\ at(k) \in DOMAIN queue /\ at(j) < at(k)
  BY <1>2, <1>1
<1>4. queue'[j] = queue[at(j)] /\ queue'[k] = queue[at(k)]
  BY <1>1, <1>2
<1> HIDE DEF at
<1> QED BY <1>3, <1>4 DEF QueueKeepsArrivalOrder

LEMMA ArrivalOrderStep ==
  ASSUME TypeOK, OnePlace, SettlingHoldsSlot, QueueKeepsArrivalOrder, [Next]_vars
  PROVE  QueueKeepsArrivalOrder'
<1> DEFINE Given == {t \in Task : status[t] # "new"}
<1>0. arrived \in Seq(Task) /\ queue \in Seq(Task)
  BY DEF TypeOK
<1>1. ASSUME NEW t \in Task, Enqueue(t) PROVE QueueKeepsArrivalOrder'
  <2>1. /\ queue' = Append(queue, t) /\ arrived' = Append(arrived, t)
        /\ status' = [status EXCEPT ![t] = "queued"] /\ status[t] = "new"
    BY <1>1 DEF Enqueue
  <2>2. t \notin ToSet(arrived) /\ t \notin ToSet(queue)
    BY <2>1, <1>1, EnqueueEffect DEF QueueKeepsArrivalOrder
  <2>3. /\ ToSet(arrived') = ToSet(arrived) \cup {t} /\ IsInjective(arrived')
    BY <2>1, <2>2, <1>0, AppendRange DEF QueueKeepsArrivalOrder
  <2>4. ToSet(arrived') = {u \in Task : status'[u] # "new"}
    BY <2>1, <2>3 DEF QueueKeepsArrivalOrder, TypeOK
  <2>5. /\ DOMAIN queue = 1..Len(queue) /\ DOMAIN arrived = 1..Len(arrived)
        /\ Len(queue) \in Nat /\ Len(arrived) \in Nat
        /\ DOMAIN queue' = 1..(Len(queue) + 1) /\ DOMAIN arrived' = 1..(Len(arrived) + 1)
        /\ \A j \in 1..Len(queue) : queue'[j] = queue[j]
        /\ \A a \in 1..Len(arrived) : arrived'[a] = arrived[a]
        /\ queue'[Len(queue) + 1] = t /\ arrived'[Len(arrived) + 1] = t
    BY <2>1, <1>0, AppendProperties, LenProperties
  <2>6. ASSUME NEW j \in DOMAIN queue', NEW k \in DOMAIN queue', NEW a \in DOMAIN arrived',
               NEW b \in DOMAIN arrived', j < k, arrived'[a] = queue'[j], arrived'[b] = queue'[k]
        PROVE  a < b
    <3>1. j \in DOMAIN queue /\ queue'[j] = queue[j] /\ queue[j] # t
      BY <2>2, <2>5, <2>6 DEF ToSet
    <3>2. a \in DOMAIN arrived /\ arrived[a] = queue[j]
      BY <3>1, <2>5, <2>6
    <3>3. CASE k \in DOMAIN queue
      <4>1. queue'[k] = queue[k] /\ queue[k] # t
        BY <3>3, <2>2, <2>5 DEF ToSet
      <4>2. b \in DOMAIN arrived /\ arrived[b] = queue[k]
        BY <4>1, <2>5, <2>6
      <4> QED BY <3>1, <3>2, <3>3, <4>2, <2>6 DEF QueueKeepsArrivalOrder
    <3>4. CASE k = Len(queue) + 1
      <4>1. arrived'[b] = t
        BY <3>4, <2>5, <2>6
      <4>2. b \notin DOMAIN arrived
        BY <4>1, <2>2, <2>5 DEF ToSet
      <4> QED BY <3>2, <4>2, <2>5
    <3> QED BY <3>3, <3>4, <2>5
  <2> QED BY <2>3, <2>4, <2>6 DEF QueueKeepsArrivalOrder
<1>2. ASSUME \A t \in Task : ~Enqueue(t)
      PROVE  arrived' = arrived /\ {t \in Task : status'[t] # "new"} = Given
  <2>1. arrived' = arrived
    BY <1>2 DEF Next, Start, StartAt, DrainEnds, CancelAll, CancelQueued, CancelRunning,
                RunnerReturns, RunnerThrows, ListenerThrows, Settle, vars
  <2>2. ASSUME NEW i \in DOMAIN queue, StartAt(i), NEW u \in Task
        PROVE  status'[u] = "new" <=> status[u] = "new"
    BY <2>2, StartEffect DEF StartAt, TypeOK
  <2>3. ASSUME CancelAll, NEW u \in Task PROVE status'[u] = "new" <=> status[u] = "new"
    BY <2>3 DEF CancelAll, OnePlace, Terminal
  <2>4. ASSUME NEW t \in Task, CancelQueued(t), NEW u \in Task
        PROVE  status'[u] = "new" <=> status[u] = "new"
    BY <2>4, CancelQueuedEffect DEF CancelQueued, TypeOK
  <2>5. ASSUME NEW t \in Task, NEW u \in Task,
               CancelRunning(t) \/ RunnerReturns(t) \/ RunnerThrows(t) \/ ListenerThrows(t)
        PROVE  status'[u] = "new" <=> status[u] = "new"
    <3>1. t \in running
      BY <2>5, NamesAssumption
         DEF CancelRunning, RunnerReturns, RunnerThrows, ListenerThrows, SettlingHoldsSlot
    <3>2. status[t] # "new"
      BY <3>1 DEF OnePlace, Terminal
    <3> QED BY <3>2, <2>5 DEF CancelRunning, RunnerReturns, RunnerThrows, ListenerThrows, TypeOK
  <2>6. ASSUME NEW u \in Task PROVE status'[u] = "new" <=> status[u] = "new"
    BY <1>2, <2>2, <2>3, <2>4, <2>5 DEF Next, Start, DrainEnds, Settle, vars
  <2> QED BY <2>1, <2>6
<1>3. ASSUME NEW i \in DOMAIN queue, queue' = RemoveAt(queue, i), \A t \in Task : ~Enqueue(t)
      PROVE  QueueKeepsArrivalOrder'
  <2>1. i \in 1..Len(queue)
    BY <1>0, LenProperties
  <2>2. arrived' = arrived /\ {t \in Task : status'[t] # "new"} = Given
    BY <1>2, <1>3
  <2>3. \A j, k \in DOMAIN queue' : \A a, b \in DOMAIN arrived' :
           j < k /\ arrived'[a] = queue'[j] /\ arrived'[b] = queue'[k] => a < b
    BY <1>0, <1>3, <2>1, <2>2, OrderAfterRemoval
  <2> QED BY <2>2, <2>3 DEF QueueKeepsArrivalOrder
<1>4. ASSUME queue' = << >>, \A t \in Task : ~Enqueue(t) PROVE QueueKeepsArrivalOrder'
  BY <1>2, <1>4 DEF QueueKeepsArrivalOrder
<1>5. ASSUME queue' = queue, \A t \in Task : ~Enqueue(t) PROVE QueueKeepsArrivalOrder'
  BY <1>2, <1>5 DEF QueueKeepsArrivalOrder
<1>6. ASSUME \A t \in Task : ~Enqueue(t)
      PROVE  queue' = queue \/ queue' = << >> \/ \E i \in DOMAIN queue : queue' = RemoveAt(queue, i)
  BY <1>6 DEF Next, Start, StartAt, DrainEnds, CancelAll, CancelQueued, CancelRunning,
              RunnerReturns, RunnerThrows, ListenerThrows, Settle, vars
<1> QED BY <1>1, <1>3, <1>4, <1>5, <1>6

LEMMA FirstComeStep ==
  ASSUME TypeOK, OnePlace, WaitingNotStarted, QueueKeepsArrivalOrder, FirstComeFirstServed, [Next]_vars
  PROVE  FirstComeFirstServed'
<1> SUFFICES ASSUME NEW i \in DOMAIN arrived', NEW j \in DOMAIN arrived', i < j,
                    deps'[arrived'[i]] = {}, prio'[arrived'[i]] <= prio'[arrived'[j]],
                    "started" \in ToSet(announced'[arrived'[j]])
             PROVE  arrived'[i] \notin ToSet(queue')
  BY DEF FirstComeFirstServed
<1>0. arrived \in Seq(Task) /\ \A a \in DOMAIN arrived : arrived[a] \in Task
  BY ElementOfSeq, LenProperties DEF TypeOK
<1>1. ASSUME NEW t \in Task, Enqueue(t) PROVE arrived'[i] \notin ToSet(queue')
  <2>1. /\ arrived' = Append(arrived, t) /\ announced' = announced /\ status[t] = "new"
    BY <1>1 DEF Enqueue
  <2>2. /\ DOMAIN arrived = 1..Len(arrived) /\ DOMAIN arrived' = 1..(Len(arrived) + 1)
        /\ \A a \in 1..Len(arrived) : arrived'[a] = arrived[a]
        /\ arrived'[Len(arrived) + 1] = t /\ Len(arrived) \in Nat
    BY <2>1, <1>0, AppendProperties, LenProperties
  <2>3. arrived'[j] # t
    BY <2>1 DEF WaitingNotStarted
  <2>4. j \in DOMAIN arrived /\ i \in DOMAIN arrived
    BY <2>2, <2>3
  <2>5. arrived'[i] = arrived[i] /\ arrived'[j] = arrived[j]
    BY <2>2, <2>4
  <2>6. arrived[i] \in Task /\ arrived[i] # t /\ arrived[j] \in Task /\ arrived[j] # t
        /\ status[arrived[i]] # "new" /\ status[arrived[j]] # "new"
    BY <2>1, <2>4, <1>0 DEF QueueKeepsArrivalOrder, ToSet
  <2>7. /\ deps'[arrived[i]] = deps[arrived[i]]
        /\ prio'[arrived[i]] = prio[arrived[i]] /\ prio'[arrived[j]] = prio[arrived[j]]
    BY <2>6, RequestStep
  <2>8. arrived[i] \notin ToSet(queue)
    BY <2>1, <2>4, <2>5, <2>7 DEF FirstComeFirstServed
  <2> QED BY <1>1, <2>5, <2>6, <2>8, EnqueueEffect
<1>2. ASSUME NEW k \in DOMAIN queue, StartAt(k) PROVE arrived'[i] \notin ToSet(queue')
  <2>1. arrived' = arrived /\ deps' = deps /\ prio' = prio
    BY <1>2 DEF StartAt
  <2>2. ToSet(queue') = ToSet(queue) \ {queue[k]}
    BY <1>2, StartEffect
  <2>3. ASSUME arrived[j] # queue[k] PROVE arrived'[i] \notin ToSet(queue')
    <3>1. arrived[j] \in Task /\ queue[k] \in Task
      BY <1>0, <2>1, <1>2, StartEffect
    <3>2. announced'[arrived[j]] = announced[arrived[j]]
      BY <1>2, <2>3, <3>1 DEF StartAt, Announce, TypeOK
    <3> QED BY <2>1, <2>2, <3>2 DEF FirstComeFirstServed
  <2>4. ASSUME arrived[j] = queue[k], NEW m \in DOMAIN queue, queue[m] = arrived[i], m # k
        PROVE  FALSE
    <3>1. m \in ReadyAt
      BY <2>1, <2>4 DEF ReadyAt, AreDependenciesMet
    <3>2. RunsBefore(k, m)
      BY <3>1, <2>4, <1>2 DEF StartAt, IsNext
    <3>3. prio[queue[k]] \in Nat /\ prio[queue[m]] \in Nat
      <4>1. queue[k] \in Task /\ queue[m] \in Task
        BY ElementOfSeq, LenProperties DEF TypeOK
      <4> QED BY <4>1, LowAssumption DEF TypeOK, Priority
    <3>4. k < m
      BY <2>1, <2>4, <3>2, <3>3 DEF RunsBefore
    <3>5. j < i
      BY <3>4, <2>1, <2>4 DEF QueueKeepsArrivalOrder
    <3>6. i \in Nat /\ j \in Nat
      BY <1>0, <2>1, LenProperties
    <3> QED BY <3>5, <3>6
  <2> QED BY <2>1, <2>2, <2>3, <2>4 DEF ToSet
<1>3. ASSUME ~Start, \A t \in Task : ~Enqueue(t) PROVE arrived'[i] \notin ToSet(queue')
  <2>1. /\ arrived' = arrived /\ deps' = deps /\ prio' = prio
        /\ ToSet(queue') \subseteq ToSet(queue)
    BY <1>3, QuietStep
  <2>2. arrived[j] \in Task
    BY <1>0, <2>1
  <2>3. \A k \in DOMAIN queue : ~StartAt(k)
    BY <1>3 DEF Start
  <2>4. "started" \in ToSet(announced[arrived[j]])
    BY <2>1, <2>2, <2>3, StartedStep
  <2> QED BY <2>1, <2>4 DEF FirstComeFirstServed
<1> QED BY <1>1, <1>2, <1>3 DEF Start

-----------------------------------------------------------------------------
(* The inductive invariant and what follows from it.                       *)

LEMMA InvInit == Init => IInv /\ FiniteRunning
<1> SUFFICES ASSUME Init PROVE IInv /\ FiniteRunning
  OBVIOUS
<1>1. TypeOK
  BY TypeInit
<1>2. ToSet(<< >>) = {} /\ IsInjective(<< >>)
  BY DEF ToSet, IsInjective
<1>3. IsFiniteSet(running) /\ Cardinality(running) = 0
  BY FS_EmptySet DEF Init
<1>4. OnePlace /\ SettlingHoldsSlot /\ WaitingNotStarted /\ DependenciesHonoured /\ OutcomeAnnounced
  BY <1>2, NamesAssumption
     DEF Init, OnePlace, SettlingHoldsSlot, WaitingNotStarted, DependenciesHonoured, OutcomeAnnounced
<1>5. NoIdleSlot /\ FirstComeFirstServed /\ QueueKeepsArrivalOrder
  BY <1>2 DEF Init, NoIdleSlot, ReadyAt, FirstComeFirstServed, QueueKeepsArrivalOrder
<1>6. ConcurrencyBound
  BY <1>3, ConcurrencyAssumption DEF ConcurrencyBound
<1> QED BY <1>1, <1>3, <1>4, <1>5, <1>6 DEF IInv, FiniteRunning

LEMMA InvStep == IInv /\ FiniteRunning /\ [Next]_vars => (IInv /\ FiniteRunning)'
<1> SUFFICES ASSUME IInv, FiniteRunning, [Next]_vars PROVE (IInv /\ FiniteRunning)'
  OBVIOUS
<1> USE DEF IInv
<1>1. TypeOK' /\ OnePlace' /\ SettlingHoldsSlot'
  BY TypeStep, OnePlaceStep, SettlingStep
<1>2. FiniteRunning' /\ ConcurrencyBound'
  BY SlotsStep
<1>3. WaitingNotStarted' /\ DependenciesHonoured'
  BY WaitingStep, DependenciesStep
<1>4. NoIdleSlot' /\ OutcomeAnnounced'
  BY NoIdleSlotStep, OutcomeAnnouncedStep
<1>5. QueueKeepsArrivalOrder' /\ FirstComeFirstServed'
  BY ArrivalOrderStep, FirstComeStep
<1> QED BY <1>1, <1>2, <1>3, <1>4, <1>5

\* The whole inductive invariant holds in every reachable state.
THEOREM InvCorrect == Spec => [](IInv /\ FiniteRunning)
BY InvInit, InvStep, PTL DEF Spec

\* A task enqueued once is in exactly one of queue, running and completed, and
\* its status says which.
THEOREM OnePlaceCorrect == Spec => []OnePlace
<1>1. IInv => OnePlace
  BY DEF IInv
<1> QED BY <1>1, InvCorrect, PTL

\* Re-entrant drains never run more tasks than there are slots.
THEOREM ConcurrencyCorrect == Spec => []ConcurrencyBound
<1>1. IInv => ConcurrencyBound
  BY DEF IInv
<1> QED BY <1>1, InvCorrect, PTL

\* No task starts before everything it depends on has completed.
THEOREM DependenciesCorrect == Spec => []DependenciesHonoured
<1>1. IInv => DependenciesHonoured
  BY DEF IInv
<1> QED BY <1>1, InvCorrect, PTL

\* No wake-up is lost: an idle event loop has no slot free for a ready task.
THEOREM NoIdleSlotCorrect == Spec => []NoIdleSlot
<1>1. IInv => NoIdleSlot
  BY DEF IInv
<1> QED BY <1>1, InvCorrect, PTL

\* Tasks of one priority start in the order of arrival.
THEOREM FirstComeCorrect == Spec => []FirstComeFirstServed
<1>1. IInv => FirstComeFirstServed
  BY DEF IInv
<1> QED BY <1>1, InvCorrect, PTL

\* The last event emitted for a finished run names its outcome.
THEOREM OutcomeAnnouncedCorrect == Spec => []OutcomeAnnounced
<1>1. IInv => OutcomeAnnounced
  BY DEF IInv
<1> QED BY <1>1, InvCorrect, PTL

\* A finished task keeps its outcome.
THEOREM OutcomeFixedCorrect == Spec => OutcomeFixed
<1>1. IInv /\ [Next]_vars
        => [\A t \in ToSet(completed) : t \in ToSet(completed') /\ status'[t] = status[t]]_vars
  BY FinishedStep DEF IInv
<1> QED BY <1>1, InvCorrect, PTL DEF Spec, OutcomeFixed

-----------------------------------------------------------------------------
(* The queue implements the task lifecycle.                                *)

\* The running stages are the slots taken.
LEMMA RunningStages ==
  ASSUME TypeOK, OnePlace
  PROVE  {u \in Task : Stage[u] = "running"} = running
<1>1. ASSUME NEW u \in Task, u \notin running PROVE Stage[u] # "running"
  BY <1>1 DEF Stage, OnePlace, Terminal
<1>2. ASSUME NEW u \in running PROVE u \in Task /\ Stage[u] = "running"
  BY DEF Stage, TypeOK
<1> QED BY <1>1, <1>2

LEMMA LifecycleInit == Init => Lifecycle!Init
BY DEF Init, Lifecycle!Init, Stage

LEMMA LifecycleStep ==
  ASSUME IInv, [Next]_vars
  PROVE  [Lifecycle!Next]_(Lifecycle!lifeVars)
<1> USE DEF Lifecycle!lifeVars
<1>0. TypeOK /\ OnePlace /\ SettlingHoldsSlot
  BY DEF IInv
<1>1. ASSUME NEW i \in DOMAIN queue, StartAt(i) PROVE Lifecycle!Next
  <2>1. PICK t \in Task : t = queue[i]
    BY <1>0, <1>1, StartEffect
  <2>2. status[t] = "queued" /\ t \notin running
    BY <1>0, <1>1, <2>1, StartEffect DEF OnePlace, Terminal
  <2>3. Stage[t] = "queued"
    BY <2>2 DEF Stage
  <2>4. Cardinality({u \in Task : Stage[u] = "running"}) < Concurrency
    BY <1>0, <1>1, RunningStages DEF StartAt, HasSlot
  <2>5. \A d \in deps[t] : d \in Task /\ Stage[d] = "completed"
    <3>1. TAKE d \in deps[t]
    <3>2. d \in ToSet(completed) /\ status[d] = "completed"
      BY <1>1, <2>1 DEF StartAt, IsNext, ReadyAt, AreDependenciesMet
    <3>3. d \in Task
      BY <1>0, <3>2, ElementOfSeq, LenProperties DEF TypeOK, ToSet
    <3> QED BY <1>0, <3>2, <3>3 DEF Stage, OnePlace
  <2>6. Stage' = [Stage EXCEPT ![t] = "running"]
    BY <1>0, <1>1, <2>1 DEF Stage, StartAt, TypeOK
  <2>7. deps' = deps
    BY <1>1 DEF StartAt
  <2>8. Lifecycle!Cardinality({u \in Task : Stage[u] = "running"}) < Concurrency
    BY <2>4 DEF Cardinality, Lifecycle!Cardinality
  <2>9. Lifecycle!Start(t)
    BY <2>3, <2>5, <2>6, <2>7, <2>8 DEF Lifecycle!Start, Lifecycle!Move
  <2> QED BY <2>9 DEF Lifecycle!Next
<1>2. ASSUME CancelAll PROVE Lifecycle!Next
  <2>1. ToSet(queue) \in SUBSET {t \in Task : Stage[t] = "queued"}
    <3>1. ASSUME NEW u \in ToSet(queue) PROVE u \in Task /\ Stage[u] = "queued"
      <4>1. u \in Task
        BY <1>0, ElementOfSeq, LenProperties DEF TypeOK, ToSet
      <4> QED BY <1>0, <4>1 DEF OnePlace, Stage, Terminal
    <3> QED BY <3>1
  <2>2. /\ running' = running /\ deps' = deps
        /\ status' = [t \in Task |-> IF t \in ToSet(queue) \cup running THEN "cancelled" ELSE status[t]]
    BY <1>2 DEF CancelAll
  <2>3. \A t \in Task : t \in ToSet(queue) => t \notin running
    BY <1>0 DEF OnePlace, Terminal
  <2>4. Stage' = [t \in Task |-> IF t \in ToSet(queue) THEN "cancelled" ELSE Stage[t]]
    BY <2>2, <2>3 DEF Stage
  <2>5. Lifecycle!Withdraw
    BY <2>1, <2>2, <2>4 DEF Lifecycle!Withdraw
  <2> QED BY <2>5 DEF Lifecycle!Next
<1>3. ASSUME NEW t \in Task, Enqueue(t) PROVE Lifecycle!Next
  <2>1. /\ status[t] = "new" /\ t \notin running
        /\ status' = [status EXCEPT ![t] = "queued"] /\ running' = running
    BY <1>0, <1>3, EnqueueEffect DEF Enqueue
  <2>2. Stage[t] = "new" /\ Stage' = [Stage EXCEPT ![t] = "queued"]
    BY <1>0, <2>1 DEF Stage, TypeOK
  <2>3. PICK D \in SUBSET ({u \in Task : status[u] # "new"} \cup {Ghost}) : deps' = [deps EXCEPT ![t] = D]
    BY <1>0, <1>3, EnqueueEffect
  <2>4. D \in SUBSET ((Task \cup {Ghost}) \ {t})
    BY <2>1, NamesAssumption
  <2>5. Lifecycle!Submit(t)
    BY <2>2, <2>3, <2>4 DEF Lifecycle!Submit, Lifecycle!Move
  <2> QED BY <2>5 DEF Lifecycle!Next
<1>4. ASSUME NEW t \in Task, CancelQueued(t) PROVE Lifecycle!Next
  <2>1. status[t] = "queued" /\ t \notin running
    BY <1>0, <1>4, CancelQueuedEffect DEF OnePlace, Terminal
  <2>2. {t} \in SUBSET {u \in Task : Stage[u] = "queued"}
    BY <2>1 DEF Stage
  <2>3. /\ running' = running /\ deps' = deps /\ status' = [status EXCEPT ![t] = "cancelled"]
    BY <1>4 DEF CancelQueued
  <2>4. Stage' = [u \in Task |-> IF u \in {t} THEN "cancelled" ELSE Stage[u]]
    BY <1>0, <2>1, <2>3 DEF Stage, TypeOK
  <2> QED BY <2>2, <2>3, <2>4 DEF Lifecycle!Next, Lifecycle!Withdraw
<1>5. ASSUME NEW t \in Task, Settle(t) PROVE Lifecycle!Next
  <2>1. t \in running /\ status[t] \in Terminal
    BY <1>0, <1>5, SettleEffect
  <2>2. running' = running \ {t} /\ status' = status /\ deps' = deps
    BY <1>5 DEF Settle
  <2>3. Stage[t] = "running" /\ Stage' = [Stage EXCEPT ![t] = status[t]]
    BY <2>1, <2>2 DEF Stage
  <2>4. status[t] \in Lifecycle!Outcome
    BY <2>1 DEF Terminal, Lifecycle!Outcome
  <2>5. Lifecycle!Finish(t)
    BY <2>2, <2>3, <2>4 DEF Lifecycle!Finish, Lifecycle!Move
  <2> QED BY <2>5 DEF Lifecycle!Next
<1>6. ASSUME NEW t \in running, running' = running, deps' = deps,
             \A u \in Task \ {t} : status'[u] = status[u]
      PROVE  UNCHANGED Lifecycle!lifeVars
  BY <1>6 DEF Stage
<1>7. ASSUME NEW t \in Task,
             CancelRunning(t) \/ RunnerReturns(t) \/ RunnerThrows(t) \/ ListenerThrows(t)
      PROVE  UNCHANGED Lifecycle!lifeVars
  <2>1. t \in running /\ running' = running /\ deps' = deps
    BY <1>0, <1>7, NamesAssumption
       DEF CancelRunning, RunnerReturns, RunnerThrows, ListenerThrows, SettlingHoldsSlot
  <2>2. \A u \in Task \ {t} : status'[u] = status[u]
    BY <1>0, <1>7 DEF CancelRunning, RunnerReturns, RunnerThrows, ListenerThrows, TypeOK
  <2> QED BY <1>6, <2>1, <2>2
<1>8. ASSUME DrainEnds \/ UNCHANGED vars PROVE UNCHANGED Lifecycle!lifeVars
  BY <1>8 DEF DrainEnds, vars, Stage
<1> QED BY <1>1, <1>2, <1>3, <1>4, <1>5, <1>7, <1>8 DEF Next, Start

\* Every step of the queue is a step of the lifecycle or none: a task is
\* submitted once, started at most once within the slots and its needs, and
\* ends in one outcome.
THEOREM Refinement == Spec => ImplementsLifecycle
<1>1. IInv /\ [Next]_vars => [Lifecycle!Next]_(Lifecycle!lifeVars)
  BY LifecycleStep
<1> QED BY LifecycleInit, <1>1, InvCorrect, PTL DEF Spec, ImplementsLifecycle, Lifecycle!Spec

-----------------------------------------------------------------------------
(* The sub-agent tools.                                                    *)

LEMMA AgentsInit == InitAgents => Init /\ DepthInv
<1> SUFFICES ASSUME InitAgents PROVE Init /\ DepthInv
  OBVIOUS
<1>1. << >> \in Seq(Task) /\ IsInjective(<< >>) /\ ToSet(<< >>) = {}
  BY EmptySeq DEF IsInjective, ToSet
<1>2. Init /\ running = {} /\ slots = << >>
  BY DEF InitAgents, Init
<1> QED BY <1>1, <1>2, DepthAssumption DEF InitAgents, DepthInv, DepthIsRealWhenAlone

\* The tools change the queue by its own operations only.
LEMMA AgentsStep == [NextAgents]_allVars => [Next]_vars
<1> SUFFICES ASSUME [NextAgents]_allVars PROVE [Next]_vars
  OBVIOUS
<1>1. CASE StartRun
  BY <1>1 DEF StartRun, Next, Start
<1>2. CASE DrainEnds \/ Cancels
  BY <1>2 DEF Cancels, Next
<1>3. ASSUME NEW t \in Task, Submit(t) \/ RunEndsSomehow(t) \/ SettleRun(t) PROVE Next
  BY <1>3 DEF Submit, RunEndsSomehow, ReturnRun, ThrowRun, SettleRun, Next
<1>4. ASSUME NEW t \in Task, WaitForAgents(t) \/ WaitEnds(t) PROVE UNCHANGED vars
  BY <1>4 DEF WaitForAgents, WaitEnds, WaitAnswered, WaitTimesOut
<1>5. ASSUME NEW t \in Task, NEW c \in Task, SpawnAgent(c, t) PROVE Next
  BY <1>5 DEF SpawnAgent, Next
<1>6. CASE UNCHANGED allVars
  BY <1>6 DEF allVars
<1> QED BY <1>1, <1>2, <1>3, <1>4, <1>5, <1>6 DEF NextAgents

\* What the steps do to the running map and to the depths: a run enters, a run
\* leaves, a task is spawned at the depth of the caller plus one, or neither.
LEMMA SlotsKeepRunning ==
  ASSUME IInv, slots \in Seq(Task), IsInjective(slots), ToSet(slots) = running,
         [NextAgents]_allVars
  PROVE  slots' \in Seq(Task) /\ IsInjective(slots') /\ ToSet(slots') = running'
<1>1. ASSUME NEW i \in DOMAIN queue, StartAt(i), slots' = Append(slots, queue[i])
      PROVE  slots' \in Seq(Task) /\ IsInjective(slots') /\ ToSet(slots') = running'
  <2>1. queue[i] \in Task /\ queue[i] \notin running /\ running' = running \cup {queue[i]}
    BY <1>1, StartEffect DEF IInv, StartAt, OnePlace, Terminal
  <2> QED BY <1>1, <2>1, AppendRange
<1>2. ASSUME NEW t \in Task, SettleRun(t)
      PROVE  slots' \in Seq(Task) /\ IsInjective(slots') /\ ToSet(slots') = running'
  <2>1. PICK i \in DOMAIN slots : slots[i] = t /\ slots' = RemoveAt(slots, i)
    BY <1>2 DEF SettleRun
  <2>2. running' = running \ {t}
    BY <1>2 DEF SettleRun, Settle
  <2> QED BY <2>1, <2>2, RemoveAtRange
<1>3. ASSUME NEW t \in Task, Submit(t) \/ RunEndsSomehow(t) \/ WaitForAgents(t) \/ WaitEnds(t)
      PROVE  slots' = slots /\ running' = running
  BY <1>3 DEF Submit, RunEndsSomehow, ReturnRun, ThrowRun, WaitForAgents, WaitEnds,
              WaitAnswered, WaitTimesOut, agentVars, vars, Enqueue, RunnerReturns, RunnerThrows
<1>4. ASSUME NEW t \in Task, NEW c \in Task, SpawnAgent(c, t)
      PROVE  slots' = slots /\ running' = running
  BY <1>4 DEF SpawnAgent, Enqueue
<1>5. CASE (DrainEnds /\ UNCHANGED agentVars) \/ Cancels \/ UNCHANGED allVars
  BY <1>5 DEF DrainEnds, Cancels, CancelAll, CancelQueued, CancelRunning, agentVars, allVars, vars
<1> QED BY <1>1, <1>2, <1>3, <1>4, <1>5 DEF NextAgents, StartRun

\* The caller that spawn_agent takes is the right one when it is the only one.
LEMMA LoneCaller ==
  ASSUME slots \in Seq(Task), ToSet(slots) = running, running # {}
  PROVE  Caller \in running
<1>1. slots # << >>
  BY DEF ToSet
<1>2. Len(slots) \in Nat \ {0} /\ DOMAIN slots = 1..Len(slots)
  BY <1>1, LenProperties, EmptySeq
<1> QED BY <1>1, <1>2, HeadTailProperties DEF Caller, ToSet

LEMMA DepthStep == IInv /\ DepthInv /\ [NextAgents]_allVars => DepthInv'
<1> SUFFICES ASSUME IInv, DepthInv, [NextAgents]_allVars PROVE DepthInv'
  OBVIOUS
<1>1. slots' \in Seq(Task) /\ IsInjective(slots') /\ ToSet(slots') = running'
  BY SlotsKeepRunning DEF DepthInv
<1>2. ASSUME NEW t \in Task, NEW c \in Task, SpawnAgent(c, t) PROVE DepthInv'
  <2>1. Caller \in running /\ running \in SUBSET Task
    BY <1>2, LoneCaller DEF SpawnAgent, DepthInv, IInv, TypeOK
  <2>2. /\ depth[Caller] < MaxSpawnDepth /\ c \in running
        /\ depth' = [depth EXCEPT ![t] = depth[Caller] + 1]
        /\ nesting' = [nesting EXCEPT ![t] = nesting[c] + 1]
        /\ alone' = (alone /\ running = {c})
        /\ waitsFor' = waitsFor /\ waited' = waited
    BY <1>2 DEF SpawnAgent, MaySpawn
  <2>3. /\ depth' \in [Task -> Nat] /\ nesting' \in [Task -> Nat] /\ alone' \in BOOLEAN
        /\ waitsFor' \in [Task -> SUBSET Task] /\ waited' \in SUBSET Task
    BY <2>1, <2>2 DEF DepthInv
  <2>4. /\ depth'[t] = depth[Caller] + 1 /\ nesting'[t] = nesting[c] + 1
        /\ \A u \in Task \ {t} : depth'[u] = depth[u] /\ nesting'[u] = nesting[u]
    BY <2>2 DEF DepthInv
  <2>5. depth[Caller] \in Nat /\ nesting[c] \in Nat
    BY <2>1 DEF DepthInv
  <2>6. alone' => alone /\ Caller = c
    BY <2>1, <2>2
  <2>7. depth'[t] <= MaxSpawnDepth
    BY <2>2, <2>4, <2>5, DepthAssumption
  <2>8. alone' => depth'[t] = nesting'[t] /\ nesting'[t] <= MaxSpawnDepth
    <3> SUFFICES ASSUME alone' PROVE depth'[t] = nesting'[t]
      BY <2>7
    <3>1. depth[c] = nesting[c]
      BY <2>6 DEF DepthInv, DepthIsRealWhenAlone
    <3> QED BY <3>1, <2>4, <2>6
  <2>9. DepthIsRealWhenAlone'
    BY <2>4, <2>6, <2>7, <2>8 DEF DepthInv, DepthIsRealWhenAlone
  <2> QED BY <1>1, <2>3, <2>9 DEF DepthInv
<1>3. ASSUME depth' = depth, nesting' = nesting, alone' = alone,
             waitsFor' \in [Task -> SUBSET Task], waited' \in SUBSET Task
      PROVE  DepthInv'
  BY <1>1, <1>3 DEF DepthInv, DepthIsRealWhenAlone
<1>4. ASSUME NEW t \in Task, WaitForAgents(t) \/ WaitEnds(t) PROVE DepthInv'
  <2>1. depth' = depth /\ nesting' = nesting /\ alone' = alone
    BY <1>4 DEF WaitForAgents, WaitEnds, WaitAnswered, WaitTimesOut
  <2>2. waitsFor' \in [Task -> SUBSET Task] /\ waited' \in SUBSET Task
    <3>1. CASE WaitForAgents(t)
      BY <3>1 DEF WaitForAgents, Known, DepthInv
    <3>2. CASE WaitEnds(t)
      BY <3>2 DEF WaitEnds, WaitAnswered, WaitTimesOut, DepthInv
    <3> QED BY <1>4, <3>1, <3>2
  <2> QED BY <1>3, <2>1, <2>2
<1>5. CASE UNCHANGED <<depth, nesting, waitsFor, waited, alone>>
  BY <1>3, <1>5 DEF DepthInv
<1>6. ASSUME NEW t \in Task, Submit(t) \/ RunEndsSomehow(t) \/ SettleRun(t) PROVE DepthInv'
  BY <1>5, <1>6 DEF Submit, RunEndsSomehow, ReturnRun, ThrowRun, SettleRun, agentVars
<1>7. CASE StartRun \/ (DrainEnds /\ UNCHANGED agentVars) \/ Cancels \/ UNCHANGED allVars
  BY <1>5, <1>7 DEF StartRun, Cancels, agentVars, allVars
<1> QED BY <1>2, <1>4, <1>6, <1>7 DEF NextAgents

\* With runs that spawn tasks and wait for them the queue is still the queue:
\* spawn_agent and wait_for_agents do nothing to it that an enqueue does not,
\* so that everything proved of it above holds of it with them.
THEOREM SubAgentsUseTheQueue == SpecAgents => Spec
<1>1. InitAgents => Init
  BY AgentsInit
<1> QED BY <1>1, AgentsStep, PTL DEF SpecAgents, Spec

\* The depth that spawn_agent puts on record stays within its limit, and is the
\* real one as long as every spawn was made by the only run that held a slot.
THEOREM SubAgentsDepth == SpecAgents => []DepthIsRealWhenAlone
<1>1. InitAgents => DepthInv
  BY AgentsInit
<1>2. DepthInv => DepthIsRealWhenAlone
  BY DEF DepthInv
<1> QED BY <1>1, <1>2, SubAgentsUseTheQueue, InvCorrect, DepthStep, PTL DEF SpecAgents

=============================================================================
