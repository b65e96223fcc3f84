---------------------------- MODULE VoleNet_proof ----------------------------
(***************************************************************************)
(* Proofs about two parts of a VoleNet.                                    *)
(*                                                                         *)
(* Delegated tasks and the worker's outbox (RemoteTasks), for every set of *)
(* tasks and calls, every cap of the outbox and every number of changes of *)
(* the connection, failures and restarts; then the socket of two nodes     *)
(* (Mesh), for every two ids, every number of sockets, of dial retries and *)
(* of crashes, stops and cuts.                                             *)
(***************************************************************************)
EXTENDS RemoteTasks, Mesh, SequenceTheorems, FiniteSetTheorems, TLAPS

-----------------------------------------------------------------------------
(* What the outbox's operators do to a list without duplicates.            *)

LEMMA ContainsIsMember ==
  ASSUME NEW S, NEW s \in Seq(S), NEW e
  PROVE  Contains(s, e) <=> e \in ToSet(s)
BY LenProperties DEF Contains, ToSet

\* Removing position i shifts what follows it.
LEMMA PlaceTakenOut ==
  ASSUME NEW S, NEW s \in Seq(S), NEW i \in 1..Len(s)
  PROVE  /\ RemoveAt(s, i) \in Seq(S) /\ Len(RemoveAt(s, i)) = Len(s) - 1
         /\ \A j \in 1..(Len(s) - 1) : RemoveAt(s, i)[j] = IF j < i THEN s[j] ELSE s[j + 1]
<1> DEFINE before == SubSeq(s, 1, i - 1)
           after  == SubSeq(s, i + 1, Len(s))
<1>1. Len(s) \in Nat /\ i \in Int /\ \A j \in 1..Len(s) : s[j] \in S
  BY LenProperties, ElementOfSeq
<1>2. /\ before \in Seq(S) /\ Len(before) = i - 1
      /\ \A j \in 1..(i - 1) : before[j] = s[j]
  <2>1. \A j \in 1..(i - 1) : s[j] \in S
    BY <1>1
  <2> QED BY <1>1, <2>1, SubSeqProperties
<1>3. /\ after \in Seq(S) /\ Len(after) = Len(s) - i
      /\ \A j \in 1..(Len(s) - i) : after[j] = s[j + i]
  <2>1. \A j \in (i + 1)..Len(s) : s[j] \in S
    BY <1>1
  <2> QED BY <1>1, <2>1, SubSeqProperties
<1> HIDE DEF before, after
<1>4. /\ before \o after \in Seq(S) /\ Len(before \o after) = Len(s) - 1
      /\ \A j \in 1..(Len(s) - 1) :
           (before \o after)[j] = IF j <= i - 1 THEN before[j] ELSE after[j - (i - 1)]
  <2>1. Len(before) + Len(after) = Len(s) - 1
    BY <1>1, <1>2, <1>3
  <2>2. /\ before \o after \in Seq(S) /\ Len(before \o after) = Len(before) + Len(after)
        /\ \A j \in 1..(Len(before) + Len(after)) :
             (before \o after)[j] = IF j <= Len(before) THEN before[j] ELSE after[j - Len(before)]
    BY <1>2, <1>3, ConcatProperties
  <2> QED BY <1>2, <2>1, <2>2
<1>5. ASSUME NEW j \in 1..(Len(s) - 1), j >= i PROVE after[j - (i - 1)] = s[j + 1]
  <2>1. j - (i - 1) \in 1..(Len(s) - i) /\ (j - (i - 1)) + i = j + 1
    BY <1>1, <1>5
  <2> QED BY <1>3, <2>1
<1>6. ASSUME NEW j \in 1..(Len(s) - 1)
      PROVE  (before \o after)[j] = IF j < i THEN s[j] ELSE s[j + 1]
  BY <1>1, <1>2, <1>4, <1>5
<1> QED BY <1>4, <1>6 DEF RemoveAt, before, after

\* The filter takes out the one entry there is, and nothing else.
LEMMA RemoveFirstOne ==
  ASSUME NEW S, NEW s \in Seq(S), IsInjective(s), NEW e
  PROVE  /\ RemoveFirst(s, e) \in Seq(S) /\ IsInjective(RemoveFirst(s, e))
         /\ ToSet(RemoveFirst(s, e)) = ToSet(s) \ {e}
         /\ Len(RemoveFirst(s, e)) = IF e \in ToSet(s) THEN Len(s) - 1 ELSE Len(s)
         /\ e \notin ToSet(s) => RemoveFirst(s, e) = s
<1>1. Len(s) \in Nat /\ DOMAIN s = 1..Len(s) /\ \A j \in 1..Len(s) : s[j] \in S
  BY LenProperties, ElementOfSeq
<1>2. CASE e \notin ToSet(s)
  <2>1. RemoveFirst(s, e) = s
    BY <1>1, <1>2 DEF RemoveFirst, ToSet
  <2> QED BY <1>2, <2>1
<1>3. CASE e \in ToSet(s)
  <2>1. PICK i \in 1..Len(s) : s[i] = e
    BY <1>1, <1>3 DEF ToSet
  <2> DEFINE places == {j \in 1..Len(s) : s[j] = e}
             r == RemoveAt(s, i)
  <2>2. places = {i}
    BY <1>1, <2>1 DEF IsInjective
  <2>3. (CHOOSE x \in places : \A y \in places : x =< y) = i
    <3>1. \A x \in places : x = i
      BY <2>2
    <3>2. i \in places /\ \A y \in places : i =< y
      BY <1>1, <2>2
    <3> HIDE DEF places
    <3> QED BY <3>1, <3>2
  <2>4. RemoveFirst(s, e) = r
    BY <2>1, <2>2, <2>3 DEF RemoveFirst, SelectInSeq, Min
  <2>5. /\ r \in Seq(S) /\ Len(r) = Len(s) - 1
        /\ \A j \in 1..(Len(s) - 1) : r[j] = IF j < i THEN s[j] ELSE s[j + 1]
    BY <2>1, PlaceTakenOut
  <2> HIDE DEF r
  <2>6. DOMAIN r = 1..(Len(s) - 1)
    BY <2>5, LenProperties
  <2>7. ASSUME NEW j \in DOMAIN r PROVE r[j] \in ToSet(s) \ {e}
    BY <1>1, <2>1, <2>5, <2>6 DEF ToSet, IsInjective
  <2>8. ASSUME NEW j \in DOMAIN s, j # i PROVE s[j] \in ToSet(r)
    <3>1. CASE j < i
      <4>1. j \in DOMAIN r /\ r[j] = s[j]
        BY <3>1, <1>1, <2>5, <2>6
      <4> QED BY <4>1 DEF ToSet
    <3>2. CASE j > i
      <4>1. j - 1 \in DOMAIN r /\ r[j - 1] = s[j]
        BY <3>2, <1>1, <2>5, <2>6
      <4> QED BY <4>1 DEF ToSet
    <3> QED BY <1>1, <2>8, <3>1, <3>2
  <2>9. ToSet(r) = ToSet(s) \ {e}
    BY <2>1, <2>7, <2>8 DEF ToSet
  <2>10. IsInjective(r)
    <3> SUFFICES ASSUME NEW a \in 1..(Len(s) - 1), NEW b \in 1..(Len(s) - 1), r[a] = r[b]
                 PROVE  a = b
      BY <2>6 DEF IsInjective
    <3>1. s[IF a < i THEN a ELSE a + 1] = s[IF b < i THEN b ELSE b + 1]
      BY <2>5
    <3>2. /\ (IF a < i THEN a ELSE a + 1) \in DOMAIN s
          /\ (IF b < i THEN b ELSE b + 1) \in DOMAIN s
      BY <1>1
    <3>3. (IF a < i THEN a ELSE a + 1) = (IF b < i THEN b ELSE b + 1)
      BY <3>1, <3>2 DEF IsInjective
    <3> QED BY <3>3, <1>1
  <2> QED BY <1>3, <2>4, <2>5, <2>9, <2>10
<1> QED BY <1>2, <1>3

\* An entry that is not there yet goes to the end.
LEMMA AppendOne ==
  ASSUME NEW S, NEW s \in Seq(S), IsInjective(s), NEW e \in S \ ToSet(s)
  PROVE  /\ Append(s, e) \in Seq(S) /\ IsInjective(Append(s, e))
         /\ ToSet(Append(s, e)) = ToSet(s) \cup {e}
         /\ Len(Append(s, e)) = Len(s) + 1
<1> DEFINE a == Append(s, e)
<1>1. /\ DOMAIN s = 1..Len(s) /\ Len(s) \in Nat
      /\ a \in Seq(S) /\ Len(a) = Len(s) + 1 /\ DOMAIN a = 1..(Len(s) + 1)
      /\ \A j \in 1..Len(s) : a[j] = s[j]
      /\ a[Len(s) + 1] = e
  BY AppendProperties, LenProperties
<1> HIDE DEF a
<1>2. \A j \in 1..Len(s) : s[j] # e
  BY <1>1 DEF ToSet
<1>3. IsInjective(a)
  BY <1>1, <1>2 DEF IsInjective
<1>4. ToSet(a) \subseteq ToSet(s) \cup {e}
  BY <1>1 DEF ToSet
<1>5. ToSet(s) \cup {e} \subseteq ToSet(a)
  <2>1. \A j \in 1..Len(s) : j \in DOMAIN a /\ a[j] = s[j]
    BY <1>1
  <2>2. Len(s) + 1 \in DOMAIN a
    BY <1>1
  <2> QED BY <1>1, <2>1, <2>2 DEF ToSet
<1> QED BY <1>1, <1>3, <1>4, <1>5 DEF a

\* The oldest entry is the only one that Tail drops.
LEMMA TailDropsOldest ==
  ASSUME NEW S, NEW s \in Seq(S), IsInjective(s), s # << >>
  PROVE  /\ Tail(s) \in Seq(S) /\ IsInjective(Tail(s)) /\ Len(Tail(s)) = Len(s) - 1
         /\ Head(s) \in S /\ Head(s) = s[1]
         /\ ToSet(Tail(s)) = ToSet(s) \ {Head(s)}
<1> DEFINE r == Tail(s)
<1>1. /\ Len(s) \in Nat \ {0} /\ DOMAIN s = 1..Len(s)
      /\ Head(s) = s[1] /\ Head(s) \in S
      /\ r \in Seq(S) /\ Len(r) = Len(s) - 1 /\ DOMAIN r = 1..(Len(s) - 1)
      /\ \A j \in 1..(Len(s) - 1) : r[j] = s[j + 1]
  BY LenProperties, EmptySeq, HeadTailProperties
<1> HIDE DEF r
<1>2. IsInjective(r)
  <2> SUFFICES ASSUME NEW a \in DOMAIN r, NEW b \in DOMAIN r, r[a] = r[b] PROVE a = b
    BY DEF IsInjective
  <2>1. a + 1 \in DOMAIN s /\ b + 1 \in DOMAIN s /\ s[a + 1] = s[b + 1]
    BY <1>1
  <2>2. a + 1 = b + 1
    BY <2>1 DEF IsInjective
  <2> QED BY <2>2, <1>1
<1>3. ASSUME NEW j \in DOMAIN r PROVE r[j] \in ToSet(s) \ {s[1]}
  <2>1. j + 1 \in DOMAIN s /\ 1 \in DOMAIN s /\ j + 1 # 1 /\ r[j] = s[j + 1]
    BY <1>1
  <2> QED BY <2>1 DEF ToSet, IsInjective
<1>4. ASSUME NEW j \in DOMAIN s, s[j] # s[1] PROVE s[j] \in ToSet(r)
  <2>1. j - 1 \in DOMAIN r /\ r[j - 1] = s[j]
    BY <1>1, <1>4
  <2> QED BY <2>1 DEF ToSet
<1> QED BY <1>1, <1>2, <1>3, <1>4 DEF r, ToSet

\* A held answer is in the outbox, within the cap; of the others it costs the
\* oldest at most, which Dropped names.
LEMMA HeldKeeps ==
  ASSUME TypeOK, OutboxBounded, NEW k \in Tasks
  PROVE  /\ Held(k) \in Seq(Tasks) /\ IsInjective(Held(k)) /\ Len(Held(k)) <= Cap
         /\ Dropped(k) \in SUBSET Tasks
         /\ \A j \in Tasks : j \in ToSet(outbox) \/ j = k => j \in ToSet(Held(k)) \/ j \in Dropped(k)
         /\ k \in ToSet(Held(k))
<1> DEFINE rest == RemoveFirst(outbox, k)
           all == Append(rest, k)
<1>1. /\ outbox \in Seq(Tasks) /\ IsInjective(outbox) /\ Len(outbox) <= Cap
      /\ Len(outbox) \in Nat /\ Cap \in Nat \ {0}
  BY RemoteAssumption, LenProperties DEF TypeOK, OutboxBounded
<1>2. /\ rest \in Seq(Tasks) /\ IsInjective(rest) /\ ToSet(rest) = ToSet(outbox) \ {k}
      /\ Len(rest) = IF k \in ToSet(outbox) THEN Len(outbox) - 1 ELSE Len(outbox)
      /\ k \notin ToSet(outbox) => rest = outbox
  BY <1>1, RemoveFirstOne
<1> HIDE DEF rest
<1>3. /\ all \in Seq(Tasks) /\ IsInjective(all) /\ ToSet(all) = ToSet(outbox) \cup {k}
      /\ Len(all) = Len(rest) + 1
  <2>1. k \in Tasks \ ToSet(rest)
    BY <1>2
  <2> QED BY <1>2, <2>1, AppendOne
<1>4. Held(k) = (IF Len(all) > Cap THEN Tail(all) ELSE all)
  BY DEF Held, all, rest
<1>5. Dropped(k) = IF Len(rest) = Cap THEN {Head(outbox)} ELSE {}
  BY DEF Dropped, rest
<1>6. Len(rest) \in Nat /\ Len(rest) <= Cap
  BY <1>1, <1>2, LenProperties
<1>7. CASE Len(rest) = Cap
  <2>1. rest = outbox /\ Len(outbox) = Cap /\ k \notin ToSet(outbox)
    BY <1>1, <1>2, <1>7
  <2>2. all # << >> /\ outbox # << >>
    BY <1>1, <1>3, <1>7, <2>1, EmptySeq
  <2>3. /\ Tail(all) \in Seq(Tasks) /\ IsInjective(Tail(all)) /\ Len(Tail(all)) = Len(all) - 1
        /\ Head(all) = all[1] /\ ToSet(Tail(all)) = ToSet(all) \ {Head(all)}
    <3> HIDE DEF all
    <3> QED BY <1>3, <2>2, TailDropsOldest
  <2>4. Head(outbox) \in Tasks /\ Head(outbox) = outbox[1] /\ outbox[1] \in ToSet(outbox)
    <3>1. 1 \in DOMAIN outbox
      BY <1>1, <2>1, LenProperties
    <3> QED BY <1>1, <2>2, <3>1, TailDropsOldest DEF ToSet
  <2>5. all[1] = outbox[1]
    BY <1>1, <2>1, AppendProperties
  <2>6. Held(k) = Tail(all)
    BY <1>3, <1>4, <1>6, <1>7
  <2> QED BY <1>1, <1>3, <1>5, <1>7, <2>1, <2>3, <2>4, <2>5, <2>6
<1>8. CASE Len(rest) # Cap
  <2>1. Held(k) = all /\ Len(all) <= Cap /\ Dropped(k) = {}
    BY <1>1, <1>3, <1>4, <1>5, <1>6, <1>8
  <2> QED BY <1>3, <2>1
<1> QED BY <1>7, <1>8

-----------------------------------------------------------------------------
(* The file and its writers.                                               *)

\* A torn file is not mistaken for a list of answers.
LEMMA TornIsNoList == Torn \notin Seq(Tasks)
<1> SUFFICES ASSUME Torn \in Seq(Tasks) PROVE FALSE
  OBVIOUS
<1>1. Torn = <<"torn">> /\ "torn" \notin Tasks
  BY RemoteAssumption DEF Torn
<1>2. Len(Torn) = 1 /\ Torn[1] = "torn"
  BY <1>1
<1>3. Torn[1] \in Tasks
  BY <1>2, ElementOfSeq
<1> QED BY <1>1, <1>2, <1>3

\* A change of the outbox begins a write, and two at once are put on record.
LEMMA ChangeEffect ==
  ASSUME TypeOK, OutboxBounded, FileFollows, NEW w \in Writer, NEW e \in Seq(Tasks), NEW lost \in SUBSET Request,
         IsInjective(e), Len(e) <= Cap, Changes(w, e, lost)
  PROVE  /\ outbox' = e /\ file' = Torn /\ writer' \in [Writer -> [on : BOOLEAN, shared : BOOLEAN, list : Seq(Tasks)]]
         /\ past' \in [lost : SUBSET Request, raced : BOOLEAN]
         /\ past'.lost = past.lost \cup lost /\ (past.raced => past'.raced)
         /\ writer'[w].on
         /\ OutboxBounded' /\ FileFollows'
<1>1. /\ outbox' = e /\ file' = Torn
      /\ writer' = [x \in Writer |->
                      IF x # w THEN Overlapped(x)
                      ELSE IF Writing = {} THEN [on |-> TRUE, shared |-> FALSE, list |-> << >>]
                      ELSE [on |-> TRUE, shared |-> TRUE, list |-> e]]
      /\ past' = [lost |-> past.lost \cup lost, raced |-> past.raced \/ Writing # {}]
  BY DEF Changes
<1>2. \A x \in Writer : /\ writer[x] \in [on : BOOLEAN, shared : BOOLEAN, list : Seq(Tasks)]
                       /\ IsInjective(writer[x].list) /\ Len(writer[x].list) <= Cap
  BY DEF TypeOK, OutboxBounded
<1>21. << >> \in Seq(Tasks) /\ IsInjective(<< >>) /\ Len(<< >>) <= Cap
  BY EmptySeq, RemoteAssumption DEF IsInjective
<1>3. writer' \in [Writer -> [on : BOOLEAN, shared : BOOLEAN, list : Seq(Tasks)]]
  <2>1. \A x \in Writer : Overlapped(x) \in [on : BOOLEAN, shared : BOOLEAN, list : Seq(Tasks)]
    BY <1>2 DEF Overlapped, TypeOK
  <2>2. /\ [on |-> TRUE, shared |-> TRUE, list |-> e] \in [on : BOOLEAN, shared : BOOLEAN, list : Seq(Tasks)]
        /\ [on |-> TRUE, shared |-> FALSE, list |-> << >>] \in [on : BOOLEAN, shared : BOOLEAN, list : Seq(Tasks)]
    BY <1>21
  <2> QED BY <1>1, <2>1, <2>2
<1>4. /\ past' \in [lost : SUBSET Request, raced : BOOLEAN]
      /\ past'.lost = past.lost \cup lost /\ past'.raced = (past.raced \/ Writing # {})
  BY <1>1 DEF TypeOK
<1>5. writer'[w].on
  BY <1>1
<1>51. \A x \in Writer : IsInjective(writer'[x].list) /\ Len(writer'[x].list) <= Cap
  <2>1. \A x \in Writer : writer'[x].list \in {writer[x].list, outbox, << >>, e}
    BY <1>1 DEF Overlapped
  <2> QED BY <1>2, <1>21, <2>1 DEF OutboxBounded
<1>6. \A x \in Writer : writer'[x].shared => past'.raced
  <2> SUFFICES ASSUME NEW x \in Writer, writer'[x].shared, ~past.raced PROVE Writing # {}
    BY <1>4
  <2>0. ~writer[x].shared
    BY DEF FileFollows
  <2>1. CASE x = w
    BY <1>1, <2>1
  <2>2. CASE x # w
    <3>1. CASE writer[x].on
      BY <3>1 DEF Writing
    <3>2. CASE ~writer[x].on
      <4>1. writer'[x] = writer[x]
        BY <1>1, <2>2, <3>2 DEF Overlapped
      <4> QED BY <3>2, <4>1, <2>0
    <3> QED BY <3>1, <3>2
  <2> QED BY <2>1, <2>2
<1>7. Writing' # {}
  BY <1>5 DEF Writing
<1> QED BY <1>1, <1>3, <1>4, <1>5, <1>51, <1>6, <1>7 DEF OutboxBounded, FileFollows

\* A write that ends leaves the outbox in the file, or what two writes at once
\* make of it.
LEMMA WrittenEffect ==
  ASSUME TypeOK, OutboxBounded, FileFollows, NEW w \in Writer, FileWritten(w),
         outbox' = outbox, past' = past
  PROVE  /\ writer' \in [Writer -> [on : BOOLEAN, shared : BOOLEAN, list : Seq(Tasks)]]
         /\ file' = Torn \/ file' \in Seq(Tasks)
         /\ OutboxBounded' /\ FileFollows'
<1>1. /\ writer' = [writer EXCEPT ![w] = NoWrite]
      /\ file' \in {outbox, writer[w].list, Torn} /\ (~writer[w].shared => file' = outbox)
  BY DEF FileWritten
<1>2. writer' \in [Writer -> [on : BOOLEAN, shared : BOOLEAN, list : Seq(Tasks)]]
  BY <1>1, EmptySeq DEF TypeOK, NoWrite
<1>3. \A x \in Writer : writer'[x].shared => past'.raced
  BY <1>1 DEF TypeOK, FileFollows, NoWrite
<1>4. ~past'.raced => file' = outbox
  BY <1>1 DEF FileFollows
<1>5. outbox # Torn
  BY TornIsNoList DEF TypeOK
<1>6. ~past'.raced => outbox' = OnDisk'
  BY <1>4, <1>5 DEF OnDisk
<1>7. OutboxBounded'
  <2>1. << >> \in Seq(Tasks) /\ IsInjective(<< >>) /\ Len(<< >>) <= Cap
    BY EmptySeq, RemoteAssumption DEF IsInjective
  <2>2. \A x \in Writer : writer'[x].list \in {writer[x].list, << >>}
    BY <1>1 DEF NoWrite, TypeOK
  <2> QED BY <1>1, <2>1, <2>2 DEF OutboxBounded
<1> QED BY <1>1, <1>2, <1>3, <1>6, <1>7 DEF FileFollows, TypeOK

\* A delivery keeps the outbox in order, and every answer that was kept, its own
\* among them, is on its way, kept or on record as lost.
LEMMA DeliveryEffect ==
  ASSUME TypeOK, OutboxBounded, FileFollows, NEW w \in Writer, NEW k \in Tasks,
         Delivered(w, k) \/ NotDelivered(w, k)
  PROVE  /\ outbox' \in Seq(Tasks)
         /\ writer' \in [Writer -> [on : BOOLEAN, shared : BOOLEAN, list : Seq(Tasks)]]
         /\ file' = Torn \/ file' \in Seq(Tasks)
         /\ past' \in [lost : SUBSET Request, raced : BOOLEAN]
         /\ past.lost \subseteq past'.lost /\ (past.raced => past'.raced)
         /\ trouble' \in 0..MaxTrouble
         /\ net \subseteq net' /\ net' \subseteq net \cup {Answer(k)}
         /\ OutboxBounded' /\ FileFollows'
         /\ \A j \in Tasks : j \in ToSet(outbox) \/ j = k =>
              j \in ToSet(outbox') \/ Answer(j) \in net' \/ j \in past'.lost
<1>0. Tasks \subseteq Request
  BY DEF Request
<1>1. trouble' \in 0..MaxTrouble /\ net \subseteq net' /\ net' \subseteq net \cup {Answer(k)}
  BY RemoteAssumption DEF Delivered, NotDelivered, Arrives, Vanishes, Fails, Trouble, TypeOK
<1>2. ASSUME NEW lost \in SUBSET {k}, Removed(w, k, lost), Answer(k) \in net' \/ k \in lost
      PROVE  /\ outbox' \in Seq(Tasks)
             /\ writer' \in [Writer -> [on : BOOLEAN, shared : BOOLEAN, list : Seq(Tasks)]]
             /\ file' = Torn \/ file' \in Seq(Tasks)
             /\ past' \in [lost : SUBSET Request, raced : BOOLEAN]
             /\ past.lost \subseteq past'.lost /\ (past.raced => past'.raced)
             /\ OutboxBounded' /\ FileFollows'
             /\ \A j \in Tasks : j \in ToSet(outbox) \/ j = k =>
                  j \in ToSet(outbox') \/ Answer(j) \in net' \/ j \in past'.lost
  <2>0. lost \in SUBSET Request
    BY <1>0, <1>2
  <2>1. CASE Contains(outbox, k)
    <3> DEFINE rest == RemoveFirst(outbox, k)
    <3>1. Changes(w, rest, lost)
      BY <1>2, <2>1 DEF Removed
    <3>2. /\ outbox \in Seq(Tasks) /\ IsInjective(outbox)
          /\ Len(outbox) \in Nat /\ Len(outbox) <= Cap /\ Cap \in Nat
      BY RemoteAssumption, LenProperties DEF TypeOK, OutboxBounded
    <3>3. /\ rest \in Seq(Tasks) /\ IsInjective(rest) /\ ToSet(rest) = ToSet(outbox) \ {k}
          /\ Len(rest) = IF k \in ToSet(outbox) THEN Len(outbox) - 1 ELSE Len(outbox)
      BY <3>2, RemoveFirstOne
    <3> HIDE DEF rest
    <3>4. Len(rest) <= Cap
      BY <3>2, <3>3
    <3>5. /\ outbox' = rest /\ file' = Torn /\ writer' \in [Writer -> [on : BOOLEAN, shared : BOOLEAN, list : Seq(Tasks)]]
          /\ past' \in [lost : SUBSET Request, raced : BOOLEAN]
          /\ past'.lost = past.lost \cup lost /\ (past.raced => past'.raced)
          /\ OutboxBounded' /\ FileFollows'
      BY <2>0, <3>1, <3>3, <3>4, ChangeEffect
    <3> QED BY <1>2, <3>3, <3>5
  <2>2. CASE ~Contains(outbox, k)
    <3>1. past' = [past EXCEPT !.lost = @ \cup lost] /\ outbox' = outbox /\ writer' = writer /\ file' = file
      BY <1>2, <2>2 DEF Removed
    <3>2. /\ past' \in [lost : SUBSET Request, raced : BOOLEAN]
          /\ past'.lost = past.lost \cup lost /\ past'.raced = past.raced
      BY <2>0, <3>1 DEF TypeOK
    <3>3. OutboxBounded' /\ FileFollows'
      BY <3>1, <3>2 DEF OutboxBounded, FileFollows, Writing, OnDisk
    <3> QED BY <1>2, <3>1, <3>2, <3>3 DEF TypeOK
  <2> QED BY <2>1, <2>2
<1>3. CASE Delivered(w, k)
  <2>1. PICK lost \in SUBSET {k} : Removed(w, k, lost) /\ (Answer(k) \in net' \/ k \in lost)
    BY <1>3 DEF Delivered, Arrives, Vanishes
  <2> QED BY <1>1, <1>2, <2>1
<1>4. CASE NotDelivered(w, k)
  <2>1. Changes(w, Held(k), Dropped(k))
    BY <1>4 DEF NotDelivered
  <2>2. /\ Held(k) \in Seq(Tasks) /\ IsInjective(Held(k)) /\ Len(Held(k)) <= Cap
        /\ Dropped(k) \in SUBSET Request
        /\ \A j \in Tasks : j \in ToSet(outbox) \/ j = k => j \in ToSet(Held(k)) \/ j \in Dropped(k)
    BY <1>0, HeldKeeps
  <2>3. /\ outbox' = Held(k) /\ file' = Torn /\ writer' \in [Writer -> [on : BOOLEAN, shared : BOOLEAN, list : Seq(Tasks)]]
        /\ past' \in [lost : SUBSET Request, raced : BOOLEAN]
        /\ past'.lost = past.lost \cup Dropped(k) /\ (past.raced => past'.raced)
        /\ OutboxBounded' /\ FileFollows'
    BY <2>1, <2>2, ChangeEffect
  <2> QED BY <1>1, <2>2, <2>3
<1> QED BY <1>3, <1>4

\* After a restart the outbox is what the file says; what is not in it was in
\* the outbox during a write, which is on record.
LEMMA RestartEffect ==
  ASSUME TypeOK, OutboxBounded, FileFollows, RestartWorker
  PROVE  /\ outbox' \in Seq(Tasks)
         /\ writer' \in [Writer -> [on : BOOLEAN, shared : BOOLEAN, list : Seq(Tasks)]]
         /\ past' \in [lost : SUBSET Request, raced : BOOLEAN]
         /\ past.lost \subseteq past'.lost /\ (past.raced => past'.raced)
         /\ OutboxBounded' /\ FileFollows'
         /\ ~past'.raced => \A j \in ToSet(outbox) : j \in ToSet(outbox') \/ j \in past'.lost
<1>1. /\ outbox' = OnDisk /\ file' = file
      /\ writer' = [w \in Writer |-> NoWrite]
      /\ past' = [past EXCEPT !.lost = @ \cup (IF Writing = {} THEN {} ELSE ToSet(outbox))]
  BY DEF RestartWorker
<1>2. ToSet(outbox) \subseteq Request
  <2>1. \A n \in DOMAIN outbox : outbox[n] \in Tasks
    BY ElementOfSeq, LenProperties DEF TypeOK
  <2> QED BY <2>1 DEF ToSet, Request
<1>3. /\ past' \in [lost : SUBSET Request, raced : BOOLEAN]
      /\ past'.lost = past.lost \cup (IF Writing = {} THEN {} ELSE ToSet(outbox))
      /\ past'.raced = past.raced
  BY <1>1, <1>2 DEF TypeOK
<1>4. outbox' \in Seq(Tasks) /\ OutboxBounded'
  <2>1. << >> \in Seq(Tasks) /\ IsInjective(<< >>) /\ Len(<< >>) <= Cap
    BY EmptySeq, RemoteAssumption DEF IsInjective
  <2>2. \A w \in Writer : writer'[w].list = << >>
    BY <1>1 DEF NoWrite
  <2> QED BY <1>1, <2>1, <2>2 DEF OnDisk, TypeOK, OutboxBounded
<1>5. FileFollows'
  <2>1. \A w \in Writer : ~writer'[w].shared
    BY <1>1 DEF NoWrite
  <2> QED BY <1>1, <2>1 DEF FileFollows, OnDisk
<1>6. ~past'.raced => \A j \in ToSet(outbox) : j \in ToSet(outbox') \/ j \in past'.lost
  BY <1>1, <1>3 DEF FileFollows
<1>7. writer' \in [Writer -> [on : BOOLEAN, shared : BOOLEAN, list : Seq(Tasks)]]
  BY <1>1, EmptySeq DEF NoWrite
<1> QED BY <1>3, <1>4, <1>5, <1>6, <1>7

LEMMA FilesUntouched ==
  ASSUME OutboxBounded, FileFollows, outbox' = outbox, file' = file, writer' = writer,
         past'.raced = past.raced
  PROVE  OutboxBounded' /\ FileFollows'
BY DEF OutboxBounded, FileFollows, Writing, OnDisk

-----------------------------------------------------------------------------
(* The outbox and its file hold in every step.                             *)

OutboxInv == TypeOK /\ OutboxBounded /\ FileFollows

LEMMA OutboxInit == Init => OutboxInv
<1> SUFFICES ASSUME Init PROVE OutboxInv
  OBVIOUS
<1>1. PICK held \in {q \in SeqOf(Tasks, Cap) : IsInjective(q)} :
        /\ outbox = held /\ file = held
        /\ job = [k \in Request |-> IF Contains(held, k) THEN "told" ELSE "none"]
        /\ asked = [k \in Request |-> IF Contains(held, k) THEN "waiting" ELSE "none"]
  BY DEF Init
<1>2. held \in Seq(Tasks) /\ IsInjective(held) /\ Len(held) <= Cap
  <2>1. PICK m \in 0..Cap : held \in [1..m -> Tasks]
    BY <1>1 DEF SeqOf
  <2>2. m \in Nat /\ m <= Cap
    BY <2>1, RemoteAssumption
  <2>3. held \in Seq(Tasks) /\ Len(held) = m
    BY <2>1, <2>2, SeqDef, LenProperties
  <2> QED BY <1>1, <2>2, <2>3
<1>3. /\ net = {} /\ way \in {"on", "off"} /\ flush = Idle
      /\ writer = [w \in Writer |-> NoWrite]
      /\ turns = 0 /\ trouble = 0 /\ past = [lost |-> {}, raced |-> FALSE]
  BY DEF Init
<1>4. << >> \in Seq(Tasks)
  BY EmptySeq
<1>5. /\ asked \in [Request -> {"none", "sending", "waiting", "answered", "failed"}]
      /\ job \in [Request -> {"none", "running", "told", "gone"}]
  BY <1>1
<1>6. flush \in [pc : {"idle", "next", "wrote", "note", "again"}, list : Seq(Tasks)]
  BY <1>3, <1>4 DEF Idle
<1>7. writer \in [Writer -> [on : BOOLEAN, shared : BOOLEAN, list : Seq(Tasks)]]
  BY <1>3, <1>4 DEF NoWrite
<1>8. past \in [lost : SUBSET Request, raced : BOOLEAN]
  BY <1>3
<1>9. turns \in 0..MaxTurns /\ trouble \in 0..MaxTrouble
  BY <1>3, RemoteAssumption
<1>10. TypeOK
  BY <1>1, <1>2, <1>3, <1>5, <1>6, <1>7, <1>8, <1>9 DEF TypeOK
<1>11. OutboxBounded
  <2>1. IsInjective(<< >>) /\ Len(<< >>) <= Cap /\ \A w \in Writer : writer[w].list = << >>
    BY <1>3, EmptySeq, RemoteAssumption DEF IsInjective, NoWrite
  <2> QED BY <1>1, <1>2, <2>1 DEF OutboxBounded
<1>12. FileFollows
  <2>1. \A w \in Writer : ~writer[w].shared
    BY <1>3 DEF NoWrite
  <2>2. outbox = OnDisk
    <3>1. held # Torn
      BY <1>2, TornIsNoList
    <3> QED BY <1>1, <3>1 DEF OnDisk
  <2> QED BY <2>1, <2>2 DEF FileFollows
<1> QED BY <1>10, <1>11, <1>12 DEF OutboxInv

\* What the asker does, and messages that arrive.
LEMMA OutboxAsker ==
  ASSUME OutboxInv, NEW k \in Request,
         Sends(k) \/ Sent(k) \/ OnAnswer(k) \/ Timeout(k) \/ OnAsk(k) \/ CallAnswered(k)
  PROVE  OutboxInv'
<1> USE RemoteAssumption DEF OutboxInv, TypeOK, Request, Ask, Answer, Trouble
<1>1. outbox' = outbox /\ file' = file /\ writer' = writer /\ flush' = flush /\ way' = way /\ turns' = turns
  BY DEF Sends, Sent, OnAnswer, Timeout, OnAsk, CallAnswered
<1>2. past' \in [lost : SUBSET Request, raced : BOOLEAN] /\ past'.raced = past.raced
  BY DEF Sends, Sent, OnAnswer, Timeout, OnAsk, CallAnswered
<1>3. asked' \in [Request -> {"none", "sending", "waiting", "answered", "failed"}]
  BY DEF Sends, Sent, OnAnswer, Timeout, OnAsk, CallAnswered
<1>4. job' \in [Request -> {"none", "running", "told", "gone"}]
  BY DEF Sends, Sent, OnAnswer, Timeout, OnAsk, CallAnswered
<1>5. net' \subseteq [to : {"worker", "asker"}, of : Request]
  BY DEF Sends, Sent, OnAnswer, Timeout, OnAsk, CallAnswered, Arrives, Vanishes, Fails
<1>6. trouble' \in 0..MaxTrouble
  BY DEF Sends, Sent, OnAnswer, Timeout, OnAsk, CallAnswered, Arrives, Vanishes, Fails
<1>7. OutboxBounded' /\ FileFollows'
  BY <1>1, <1>2, FilesUntouched
<1> QED BY <1>1, <1>2, <1>3, <1>4, <1>5, <1>6, <1>7

\* A delivery by the poll of a task or by the flush.
LEMMA OutboxDelivery ==
  ASSUME OutboxInv, NEW w \in Writer, NEW k \in Tasks, Delivered(w, k) \/ NotDelivered(w, k),
         asked' = asked, job' \in [Request -> {"none", "running", "told", "gone"}], way' = way,
         flush' \in [pc : {"idle", "next", "wrote", "note", "again"}, list : Seq(Tasks)],
         turns' = turns
  PROVE  OutboxInv'
<1>1. Answer(k) \in [to : {"worker", "asker"}, of : Request]
  BY DEF Answer, Request
<1> QED BY <1>1, DeliveryEffect DEF OutboxInv, TypeOK

LEMMA FlushStates ==
  ASSUME NEW p \in {"idle", "next", "wrote", "note", "again"}, NEW l \in Seq(Tasks)
  PROVE  [pc |-> p, list |-> l] \in [pc : {"idle", "next", "wrote", "note", "again"}, list : Seq(Tasks)]
OBVIOUS

LEMMA OutboxStep == OutboxInv /\ [Next]_vars => OutboxInv'
<1> SUFFICES ASSUME OutboxInv, [Next]_vars PROVE OutboxInv'
  OBVIOUS
<1> DEFINE FlushState == [pc : {"idle", "next", "wrote", "note", "again"}, list : Seq(Tasks)]
<1>0. Tasks \subseteq Request /\ Tasks \subseteq Writer /\ "flush" \in Writer /\ flush \in FlushState
  BY DEF Request, Writer, OutboxInv, TypeOK
<1>1. ASSUME NEW k \in Request,
             Sends(k) \/ Sent(k) \/ OnAnswer(k) \/ Timeout(k) \/ OnAsk(k) \/ CallAnswered(k)
      PROVE  OutboxInv'
  BY <1>1, OutboxAsker
<1>2. ASSUME NEW k \in Request, Poll(k) PROVE OutboxInv'
  <2>1. /\ k \in Tasks /\ (Delivered(k, k) \/ NotDelivered(k, k))
        /\ job' = [job EXCEPT ![k] = "told"]
        /\ asked' = asked /\ way' = way /\ flush' = flush /\ turns' = turns
    BY <1>2 DEF Poll
  <2>2. job' \in [Request -> {"none", "running", "told", "gone"}]
    BY <2>1 DEF OutboxInv, TypeOK
  <2> QED BY <1>0, <1>2, <2>1, <2>2, OutboxDelivery DEF Poll
<1>3. CASE FlushNext
  <2>1. flush.list \in Seq(Tasks) /\ flush.list # << >>
    BY <1>0, <1>3 DEF FlushNext
  <2>2. Head(flush.list) \in Tasks /\ Tail(flush.list) \in Seq(Tasks) /\ <<Head(flush.list)>> \in Seq(Tasks)
    BY <2>1, HeadTailProperties
  <2>3. /\ Delivered("flush", Head(flush.list)) \/ NotDelivered("flush", Head(flush.list))
        /\ asked' = asked /\ job' = job /\ way' = way /\ turns' = turns
    BY <1>3 DEF FlushNext
  <2>4. flush' \in FlushState
    <3>1. \/ flush' = [pc |-> "wrote", list |-> Tail(flush.list)]
          \/ flush' = [pc |-> "next", list |-> Tail(flush.list)]
          \/ flush' = [pc |-> "note", list |-> <<Head(flush.list)>>]
      BY <1>3 DEF FlushNext
    <3>2. \E p \in {"wrote", "next", "note"} : \E l \in Seq(Tasks) : flush' = [pc |-> p, list |-> l]
      BY <2>2, <3>1
    <3> QED BY <3>2, FlushStates
  <2> HIDE DEF FlushState
  <2>5. job' \in [Request -> {"none", "running", "told", "gone"}]
    BY <2>3 DEF OutboxInv, TypeOK
  <2> QED BY <1>0, <2>2, <2>3, <2>4, <2>5, OutboxDelivery DEF FlushState
<1>4. ASSUME NEW w \in Writer, FileWritten(w), flush' \in FlushState,
             UNCHANGED <<asked, job, net, way, outbox, turns, trouble, past>>
      PROVE  OutboxInv'
  BY <1>4, WrittenEffect DEF OutboxInv, TypeOK
<1>5. ASSUME NEW k \in Tasks, WriteEnds(k) PROVE OutboxInv'
  <2>1. k \in Writer /\ FileWritten(k) /\ flush' \in FlushState
    BY <1>0, <1>5 DEF WriteEnds
  <2> QED BY <1>4, <1>5, <2>1 DEF WriteEnds
<1>6. CASE FlushWrote \/ FlushNotes
  <2>1. flush' \in FlushState
    <3>1. flush' = [flush EXCEPT !.pc = "next"] \/ flush' = [flush EXCEPT !.pc = "again"]
      BY <1>6 DEF FlushWrote, FlushNotes
    <3> QED BY <1>0, <3>1
  <2> HIDE DEF FlushState
  <2> QED BY <1>0, <1>4, <1>6, <2>1 DEF FlushWrote, FlushNotes
<1>7. ASSUME outbox' = outbox, file' = file, writer' = writer, past' = past,
             asked' = asked, job' = job, net' = net, way' \in {"on", "dead", "off"},
             flush' \in FlushState, turns' \in 0..MaxTurns, trouble' \in 0..MaxTrouble
      PROVE  OutboxInv'
  BY <1>7, FilesUntouched DEF OutboxInv, TypeOK
<1>8. CASE FlushNoted
  <2>1. << >> \in Seq(Tasks)
    BY EmptySeq
  <2>2. flush' \in FlushState
    <3>1. \/ flush' = [pc |-> "wrote", list |-> << >>]
          \/ flush' = [pc |-> "next", list |-> << >>]
      BY <1>8 DEF FlushNoted
    <3>2. \E p \in {"wrote", "next"} : \E l \in Seq(Tasks) : flush' = [pc |-> p, list |-> l]
      BY <2>1, <3>1
    <3> QED BY <3>2, FlushStates
  <2>3. asked' = asked /\ job' = job /\ net' = net /\ way' = way /\ turns' = turns /\ trouble' = trouble
    BY <1>8 DEF FlushNoted
  <2>4. CASE Changes("flush", outbox, {})
    <3>1. /\ outbox \in Seq(Tasks) /\ IsInjective(outbox) /\ Len(outbox) <= Cap
          /\ TypeOK /\ OutboxBounded /\ FileFollows
      BY DEF OutboxInv, TypeOK, OutboxBounded
    <3>2. /\ outbox' = outbox /\ file' = Torn
          /\ writer' \in [Writer -> [on : BOOLEAN, shared : BOOLEAN, list : Seq(Tasks)]]
          /\ past' \in [lost : SUBSET Request, raced : BOOLEAN]
          /\ OutboxBounded' /\ FileFollows'
      BY <1>0, <2>4, <3>1, ChangeEffect
    <3> QED BY <2>2, <2>3, <3>2 DEF OutboxInv, TypeOK
  <2>5. CASE outbox' = outbox /\ writer' = writer /\ file' = file /\ past' = past
    <3> HIDE DEF FlushState
    <3>1. way' \in {"on", "dead", "off"} /\ turns' \in 0..MaxTurns /\ trouble' \in 0..MaxTrouble
      BY <2>3 DEF OutboxInv, TypeOK
    <3> QED BY <1>7, <2>2, <2>3, <2>5, <3>1
  <2> QED BY <1>8, <2>4, <2>5 DEF FlushNoted
<1>9. CASE OnMessage \/ FlushEnds
  <2>1. flush' \in FlushState
    <3>1. flush' = [pc |-> "next", list |-> outbox] \/ flush' = [pc |-> "idle", list |-> << >>]
      BY <1>9 DEF OnMessage, FlushEnds, Idle
    <3>2. outbox \in Seq(Tasks) /\ << >> \in Seq(Tasks)
      BY EmptySeq DEF OutboxInv, TypeOK
    <3>3. \E p \in {"next", "idle"} : \E l \in Seq(Tasks) : flush' = [pc |-> p, list |-> l]
      BY <3>1, <3>2
    <3> QED BY <3>3, FlushStates
  <2>2. way' \in {"on", "dead", "off"} /\ turns' \in 0..MaxTurns /\ trouble' \in 0..MaxTrouble
    BY <1>9, RemoteAssumption DEF OnMessage, FlushEnds, Trouble, OutboxInv, TypeOK
  <2> HIDE DEF FlushState
  <2> QED BY <1>7, <1>9, <2>1, <2>2 DEF OnMessage, FlushEnds
<1>10. CASE WayChanges \/ UNCHANGED vars
  <2>1. flush' \in FlushState
    BY <1>0, <1>10 DEF WayChanges, vars
  <2>2. way' \in {"on", "dead", "off"} /\ turns' \in 0..MaxTurns /\ trouble' \in 0..MaxTrouble
    BY <1>10, RemoteAssumption DEF WayChanges, vars, OutboxInv, TypeOK
  <2> HIDE DEF FlushState
  <2> QED BY <1>7, <1>10, <2>1, <2>2 DEF WayChanges, vars
<1>11. CASE RestartWorker
  <2>1. /\ asked' = asked /\ net' = net /\ way' = way /\ turns' = turns /\ file' = file
        /\ job' = [k \in Request |-> IF job[k] = "running" THEN "gone" ELSE job[k]]
        /\ flush' = Idle
    BY <1>11 DEF RestartWorker
  <2>2. job' \in [Request -> {"none", "running", "told", "gone"}]
    BY <2>1 DEF OutboxInv, TypeOK
  <2>3. flush' \in FlushState
    BY <2>1, EmptySeq DEF Idle
  <2>4. trouble' \in 0..MaxTrouble
    BY <1>11, RemoteAssumption DEF RestartWorker, Trouble, OutboxInv, TypeOK
  <2> QED BY <1>11, <2>1, <2>2, <2>3, <2>4, RestartEffect DEF OutboxInv, TypeOK
<1>12. CASE StopAsker
  <2>1. asked' \in [Request -> {"none", "sending", "waiting", "answered", "failed"}]
    BY <1>12 DEF StopAsker, OutboxInv, TypeOK
  <2>2. trouble' \in 0..MaxTrouble
    BY <1>12, RemoteAssumption DEF StopAsker, Trouble, OutboxInv, TypeOK
  <2> QED BY <1>12, <2>1, <2>2, FilesUntouched DEF StopAsker, OutboxInv, TypeOK
<1> QED BY <1>1, <1>2, <1>3, <1>5, <1>6, <1>8, <1>9, <1>10, <1>11, <1>12
        DEF Next, Asker, Worker, Files, Flush

-----------------------------------------------------------------------------
(* Answers are kept.                                                       *)

LEMMA AskedFirstStep == TypeOK /\ AskedFirst /\ [Next]_vars => AskedFirst'
<1> SUFFICES ASSUME TypeOK, AskedFirst, [Next]_vars, NEW k \in Request, asked'[k] = "none"
             PROVE  job'[k] = "none" /\ Ask(k) \notin net'
  BY DEF AskedFirst, Ask
<1>1. \A j \in Request : Answer(j) # Ask(k) /\ (j # k => Ask(j) # Ask(k))
  BY DEF Ask, Answer
<1>2. ASSUME asked' = asked \/ asked[k] = "none"
      PROVE  asked[k] = "none" /\ job[k] = "none" /\ Ask(k) \notin net
  BY <1>2 DEF AskedFirst
<1>3. ASSUME NEW j \in Request, Sends(j) PROVE job'[k] = "none" /\ Ask(k) \notin net'
  <2>1. j # k /\ asked'[k] = asked[k] /\ net' = net \cup {Ask(j)} /\ job' = job
    BY <1>3 DEF Sends, TypeOK
  <2> QED BY <1>1, <1>2, <2>1
<1>4. ASSUME NEW j \in Request, Sent(j) \/ OnAnswer(j) \/ Timeout(j)
      PROVE  job'[k] = "none" /\ Ask(k) \notin net'
  <2>1. asked[k] = "none" /\ net' \subseteq net /\ job' = job
    BY <1>4 DEF Sent, OnAnswer, Timeout, TypeOK
  <2> QED BY <1>2, <2>1
<1>5. ASSUME NEW j \in Request, OnAsk(j) PROVE job'[k] = "none" /\ Ask(k) \notin net'
  <2>1. asked' = asked /\ Ask(j) \in net /\ net' \subseteq net /\ job' = [job EXCEPT ![j] = "running"]
    BY <1>5 DEF OnAsk
  <2>2. job[k] = "none" /\ Ask(k) \notin net /\ j # k
    BY <1>2, <2>1
  <2> QED BY <2>1, <2>2 DEF TypeOK
<1>6. ASSUME asked' = asked, NEW j \in Request, job[j] = "running" \/ job' = job,
             net' \subseteq net \cup {Answer(j)},
             job' = job \/ job' = [job EXCEPT ![j] = "told"]
      PROVE  job'[k] = "none" /\ Ask(k) \notin net'
  <2>1. job[k] = "none" /\ Ask(k) \notin net
    BY <1>2, <1>6
  <2>2. job'[k] = "none"
    BY <1>6, <2>1 DEF TypeOK
  <2> QED BY <1>1, <1>6, <2>1, <2>2
<1>7. ASSUME NEW j \in Request, Poll(j) \/ CallAnswered(j) PROVE job'[k] = "none" /\ Ask(k) \notin net'
  <2>1. /\ asked' = asked /\ job[j] = "running" /\ job' = [job EXCEPT ![j] = "told"]
        /\ net' \subseteq net \cup {Answer(j)}
    BY <1>7 DEF Poll, CallAnswered, Delivered, NotDelivered, Arrives, Vanishes, Fails
  <2> QED BY <1>6, <2>1
<1>8. CASE FlushNext
  <2>1. Head(flush.list) \in Request
    BY <1>8, HeadTailProperties DEF FlushNext, TypeOK, Request
  <2>2. /\ asked' = asked /\ job' = job
        /\ net' \subseteq net \cup {Answer(Head(flush.list))}
    BY <1>8 DEF FlushNext, Delivered, NotDelivered, Arrives, Vanishes, Fails
  <2> QED BY <1>6, <2>1, <2>2
<1>9. ASSUME asked' = asked, job' = job, net' = net PROVE job'[k] = "none" /\ Ask(k) \notin net'
  BY <1>2, <1>9
<1>10. ASSUME (\E j \in Tasks : WriteEnds(j)) \/ OnMessage \/ FlushWrote \/ FlushNotes \/ FlushNoted
               \/ FlushEnds \/ WayChanges \/ UNCHANGED vars
       PROVE  job'[k] = "none" /\ Ask(k) \notin net'
  <2>1. asked' = asked /\ job' = job /\ net' = net
    BY <1>10 DEF WriteEnds, OnMessage, FlushWrote, FlushNotes, FlushNoted, FlushEnds, WayChanges, vars
  <2> QED BY <1>9, <2>1
<1>11. CASE RestartWorker
  <2>1. asked' = asked /\ net' = net /\ job'[k] = IF job[k] = "running" THEN "gone" ELSE job[k]
    BY <1>11 DEF RestartWorker
  <2> QED BY <1>2, <2>1
<1>12. CASE StopAsker
  <2>1. asked[k] = "none" /\ net' = net /\ job' = job
    BY <1>12 DEF StopAsker
  <2> QED BY <1>2, <2>1
<1> QED BY <1>3, <1>4, <1>5, <1>7, <1>8, <1>10, <1>11, <1>12 DEF Next, Asker, Worker, Files, Flush

LEMMA KeptStep == RemoteInv /\ [Next]_vars => KeptWhileSending'
<1> SUFFICES ASSUME RemoteInv, [Next]_vars, OutboxInv', ~past'.raced,
                    NEW k \in Tasks \ past'.lost, job'[k] = "told", asked'[k] \in {"sending", "waiting"}
             PROVE  Answer(k) \in net' \/ k \in ToSet(outbox')
  <2>1. RemoteInv => OutboxInv
    BY DEF RemoteInv, OutboxInv
  <2>2. RemoteInv /\ [Next]_vars => OutboxInv'
    BY <2>1, OutboxStep
  <2>3. OutboxInv' => \A k \in Tasks : Contains(outbox', k) <=> k \in ToSet(outbox')
    BY ContainsIsMember DEF OutboxInv, TypeOK
  <2> QED BY <2>2, <2>3 DEF KeptWhileSending, Answer
<1>0. /\ TypeOK /\ OutboxBounded /\ FileFollows /\ AskedFirst /\ KeptWhileSending
      /\ k \in Request /\ Tasks \subseteq Request /\ Tasks \subseteq Writer /\ "flush" \in Writer
  BY DEF RemoteInv, Request, Writer
<1>1. ASSUME past.lost \subseteq past'.lost, past.raced => past'.raced,
             job[k] = "told", asked[k] \in {"sending", "waiting"}
      PROVE  Answer(k) \in net \/ k \in ToSet(outbox)
  BY <1>0, <1>1, ContainsIsMember DEF KeptWhileSending, TypeOK
<1>2. ASSUME past' = past, outbox' = outbox, net \subseteq net', job' = job, asked' = asked
      PROVE  Answer(k) \in net' \/ k \in ToSet(outbox')
  BY <1>1, <1>2
<1>3. ASSUME NEW j \in Request, Sends(j) PROVE Answer(k) \in net' \/ k \in ToSet(outbox')
  <2>1. /\ asked[j] = "none" /\ job' = job /\ past' = past /\ outbox' = outbox /\ net \subseteq net'
        /\ \E pc \in {"waiting", "sending"} : asked' = [asked EXCEPT ![j] = pc]
    BY <1>3 DEF Sends
  <2>2. j # k
    BY <1>0, <2>1 DEF AskedFirst
  <2>3. asked'[k] = asked[k]
    BY <1>0, <2>1, <2>2 DEF TypeOK
  <2> QED BY <1>1, <2>1, <2>3
<1>4. ASSUME NEW j \in Request, Sent(j) \/ Timeout(j) PROVE Answer(k) \in net' \/ k \in ToSet(outbox')
  <2>1. job' = job /\ past' = past /\ outbox' = outbox /\ net' = net
    BY <1>4 DEF Sent, Timeout
  <2>2. asked[k] \in {"sending", "waiting"}
    BY <1>0, <1>4 DEF Sent, Timeout, TypeOK
  <2> QED BY <1>1, <2>1, <2>2
<1>5. ASSUME NEW j \in Request, OnAnswer(j) PROVE Answer(k) \in net' \/ k \in ToSet(outbox')
  <2>1. /\ net' = net \ {Answer(j)} /\ job' = job /\ outbox' = outbox
        /\ asked' = (IF asked[j] = "waiting" THEN [asked EXCEPT ![j] = "answered"] ELSE asked)
        /\ past' = (IF asked[j] = "sending" THEN [past EXCEPT !.lost = @ \cup {j}] ELSE past)
    BY <1>5 DEF OnAnswer
  <2>2. past.lost \subseteq past'.lost /\ past'.raced = past.raced
    BY <1>0, <2>1 DEF TypeOK
  <2>3. asked[k] \in {"sending", "waiting"}
    BY <1>0, <2>1 DEF TypeOK
  <2>4. j # k
    <3> SUFFICES ASSUME j = k PROVE FALSE
      OBVIOUS
    <3>1. asked[k] = "sending" => k \in past'.lost
      BY <1>0, <2>1 DEF TypeOK
    <3>2. asked[k] = "waiting" => asked'[k] = "answered"
      BY <1>0, <2>1 DEF TypeOK
    <3> QED BY <2>3, <3>1, <3>2
  <2>5. Answer(j) # Answer(k)
    BY <2>4 DEF Answer
  <2> QED BY <1>1, <2>1, <2>2, <2>3, <2>5
<1>6. ASSUME NEW j \in Request, OnAsk(j) PROVE Answer(k) \in net' \/ k \in ToSet(outbox')
  <2>1. /\ net' = net \ {Ask(j)} /\ job' = [job EXCEPT ![j] = "running"]
        /\ outbox' = outbox /\ past' = past /\ asked' = asked
    BY <1>6 DEF OnAsk
  <2>2. job[k] = "told"
    BY <1>0, <2>1 DEF TypeOK
  <2>3. Answer(k) # Ask(j)
    BY DEF Answer, Ask
  <2> QED BY <1>1, <2>1, <2>2, <2>3
<1>7. ASSUME NEW j \in Request, CallAnswered(j) PROVE Answer(k) \in net' \/ k \in ToSet(outbox')
  <2>1. /\ j \in Calls /\ job' = [job EXCEPT ![j] = "told"]
        /\ outbox' = outbox /\ asked' = asked /\ net \subseteq net'
        /\ past' = past \/ past' = [past EXCEPT !.lost = @ \cup {j}]
    BY <1>7 DEF CallAnswered, Arrives, Vanishes, Fails
  <2>2. j # k
    BY <2>1, RemoteAssumption
  <2>3. job[k] = "told"
    BY <1>0, <2>1, <2>2 DEF TypeOK
  <2>4. past.lost \subseteq past'.lost /\ past'.raced = past.raced
    BY <1>0, <2>1 DEF TypeOK
  <2> QED BY <1>1, <2>1, <2>3, <2>4
<1>8. ASSUME NEW w \in Writer, NEW j \in Tasks, Delivered(w, j) \/ NotDelivered(w, j),
             asked' = asked, job[k] = "told" \/ j = k
      PROVE  Answer(k) \in net' \/ k \in ToSet(outbox')
  <2>1. /\ past.lost \subseteq past'.lost /\ (past.raced => past'.raced) /\ net \subseteq net'
        /\ \A i \in Tasks : i \in ToSet(outbox) \/ i = j =>
             i \in ToSet(outbox') \/ Answer(i) \in net' \/ i \in past'.lost
    BY <1>0, <1>8, DeliveryEffect
  <2> QED BY <1>1, <1>8, <2>1
<1>9. ASSUME NEW j \in Request, Poll(j) PROVE Answer(k) \in net' \/ k \in ToSet(outbox')
  <2>1. /\ j \in Tasks /\ (Delivered(j, j) \/ NotDelivered(j, j))
        /\ job' = [job EXCEPT ![j] = "told"] /\ asked' = asked
    BY <1>9 DEF Poll
  <2>2. job[k] = "told" \/ j = k
    BY <1>0, <2>1 DEF TypeOK
  <2> QED BY <1>0, <1>8, <1>9, <2>1, <2>2 DEF Poll
<1>10. CASE FlushNext
  <2>1. Head(flush.list) \in Tasks
    BY <1>0, <1>10, HeadTailProperties DEF FlushNext, TypeOK
  <2>2. /\ Delivered("flush", Head(flush.list)) \/ NotDelivered("flush", Head(flush.list))
        /\ asked' = asked /\ job' = job
    BY <1>10 DEF FlushNext
  <2> QED BY <1>0, <1>8, <2>1, <2>2
<1>11. CASE (\E j \in Tasks : WriteEnds(j)) \/ OnMessage \/ FlushWrote \/ FlushNotes
              \/ FlushEnds \/ WayChanges \/ UNCHANGED vars
  <2>1. past' = past /\ outbox' = outbox /\ net' = net /\ job' = job /\ asked' = asked
    BY <1>11 DEF WriteEnds, OnMessage, FlushWrote, FlushNotes, FlushEnds, WayChanges, vars
  <2> QED BY <1>2, <2>1
<1>12. CASE FlushNoted
  <2>1. /\ outbox' = outbox /\ net' = net /\ job' = job /\ asked' = asked
        /\ past' = past \/ past' = [lost |-> past.lost \cup {}, raced |-> past.raced \/ Writing # {}]
    BY <1>12 DEF FlushNoted, Changes
  <2>2. past.lost \subseteq past'.lost /\ (past.raced => past'.raced)
    BY <1>0, <2>1 DEF TypeOK
  <2> QED BY <1>1, <2>1, <2>2
<1>13. CASE RestartWorker
  <2>1. /\ past.lost \subseteq past'.lost /\ (past.raced => past'.raced)
        /\ \A j \in ToSet(outbox) : j \in ToSet(outbox') \/ j \in past'.lost
    BY <1>0, <1>13, RestartEffect
  <2>2. /\ net' = net /\ asked' = asked
        /\ job'[k] = IF job[k] = "running" THEN "gone" ELSE job[k]
    BY <1>0, <1>13 DEF RestartWorker
  <2> QED BY <1>1, <2>1, <2>2
<1>14. CASE StopAsker
  <2>1. /\ past' = past /\ outbox' = outbox /\ net' = net /\ job' = job
        /\ asked[k] \in {"sending", "waiting"}
    BY <1>0, <1>14 DEF StopAsker
  <2> QED BY <1>1, <2>1
<1> QED BY <1>3, <1>4, <1>5, <1>6, <1>7, <1>9, <1>10, <1>11, <1>12, <1>13, <1>14
        DEF Next, Asker, Worker, Files, Flush

-----------------------------------------------------------------------------
(* The theorems.                                                           *)

LEMMA InitInv == Init => RemoteInv
<1> SUFFICES ASSUME Init PROVE RemoteInv
  OBVIOUS
<1>1. OutboxInv
  BY OutboxInit
<1>2. PICK held \in {q \in SeqOf(Tasks, Cap) : IsInjective(q)} :
        /\ outbox = held
        /\ job = [k \in Request |-> IF Contains(held, k) THEN "told" ELSE "none"]
        /\ asked = [k \in Request |-> IF Contains(held, k) THEN "waiting" ELSE "none"]
  BY DEF Init
<1>3. AskedFirst
  BY <1>2 DEF AskedFirst, Init
<1>4. KeptWhileSending
  BY <1>2 DEF KeptWhileSending, Request
<1> QED BY <1>1, <1>3, <1>4 DEF RemoteInv, OutboxInv

LEMMA NextInv == RemoteInv /\ [Next]_vars => RemoteInv'
BY OutboxStep, AskedFirstStep, KeptStep DEF RemoteInv, OutboxInv

\* Type correctness.
THEOREM TypeCorrect == Spec => []TypeOK
<1>1. RemoteInv => TypeOK
  BY DEF RemoteInv
<1> QED BY <1>1, InitInv, NextInv, PTL DEF Spec

\* The outbox and its file keep one answer per task and no more than the cap,
\* and between writes that did not overlap the file is what the outbox is.
THEOREM OutboxCorrect == Spec => [](OutboxBounded /\ FileFollows)
<1>1. RemoteInv => OutboxBounded /\ FileFollows
  BY DEF RemoteInv
<1> QED BY <1>1, InitInv, NextInv, PTL DEF Spec

\* An answer that is ready reaches an asker that still waits, or is kept, in
\* every order of polls, flushes, pings, losses and restarts, except as
\* AnswerKept says.
THEOREM AnswersAreKept == Spec => []AnswerKept
<1>1. RemoteInv => AnswerKept
  BY DEF RemoteInv, KeptWhileSending, AnswerKept
<1> QED BY <1>1, InitInv, NextInv, PTL DEF Spec

-----------------------------------------------------------------------------
(* The mesh: what its operators return.                                    *)

\* Two nodes: each has one other.
LEMMA TwoNodes ==
  ASSUME NEW n \in Node
  PROVE  /\ Other(n) \in Node /\ Other(n) # n /\ Other(Other(n)) = n /\ n # None
         /\ \A m \in Node : m = n \/ m = Other(n)
<1>1. IsFiniteSet(Node \ {n}) /\ Cardinality(Node \ {n}) = 1
  BY NodeAssumption, FS_RemoveElement
<1>2. PICK m : Node \ {n} = {m}
  BY <1>1, FS_Singleton
<1>3. m \in Node /\ m # n /\ \A x \in Node : x = n \/ x = m
  BY <1>2
<1>4. Other(n) = m /\ Other(m) = n
  BY <1>3 DEF Other
<1>5. n # None
  BY NodeAssumption DEF None
<1> QED BY <1>3, <1>4, <1>5

LEMMA FreeIsState == Free \in SocketState /\ Shape(Free) /\ \A n \in Node : Free.end[n] = "none"
BY DEF Free, SocketState, EndState, Shape, None

\* A socket that has just been dialled.
LEMMA DialledEffect ==
  ASSUME NEW n \in Node
  PROVE  /\ Dialled(n) \in SocketState /\ Shape(Dialled(n))
         /\ \A m \in Node : Dialled(n).end[m] # "open"
<1>1. /\ Dialled(n).dialer = n /\ Dialled(n).said = FALSE /\ Dialled(n).cut = FALSE /\ Dialled(n).stale = FALSE
      /\ Dialled(n).end = [m \in Node |-> IF m = n THEN "connecting" ELSE "none"]
      /\ Dialled(n) \in SocketState
  BY DEF Dialled, Free, SocketState, EndState
<1>2. Shape(Dialled(n))
  BY <1>1, TwoNodes DEF Shape
<1> QED BY <1>1, <1>2

\* One end changes.
LEMMA OneEnd ==
  ASSUME NEW r \in SocketState, NEW n \in Node, NEW state \in EndState
  PROVE  LET q == [r EXCEPT !.end[n] = state] IN
         /\ q \in SocketState
         /\ q.dialer = r.dialer /\ q.said = r.said /\ q.cut = r.cut /\ q.stale = r.stale
         /\ q.end[n] = state
         /\ \A m \in Node \ {n} : q.end[m] = r.end[m]
BY DEF SocketState

\* An end that has begun closes: the socket keeps its shape or is forgotten, and
\* the other end is as open as it was.
LEMMA EndedEffect ==
  ASSUME MeshTypeOK, SocketShape, NEW s \in Socket, NEW n \in Node, NEW state \in {"closing", "closed"},
         sock[s].end[n] # "none"
  PROVE  /\ Ended(s, n, state) \in SocketState /\ Shape(Ended(s, n, state))
         /\ Ended(s, n, state).end[n] # "open"
         /\ \A m \in Node \ {n} :
              /\ Ended(s, n, state).end[m] = "open" <=> sock[s].end[m] = "open"
              /\ sock[s].end[m] = "open" => /\ Ended(s, n, state).dialer = sock[s].dialer
                                            /\ Ended(s, n, state).said = sock[s].said
<1> DEFINE r == sock[s]
           q == [r EXCEPT !.end[n] = state]
<1>1. r \in SocketState /\ Shape(r) /\ state \in EndState
  BY DEF MeshTypeOK, SocketShape, EndState
<1>2. Ended(s, n, state) = (IF \A m \in Node : q.end[m] \in {"none", "closed"} THEN Free ELSE q)
  BY DEF Ended, Tidy
<1>3. r.end[n] # "none"
  OBVIOUS
<1> HIDE DEF r
<1>4. /\ q \in SocketState
      /\ q.dialer = r.dialer /\ q.said = r.said
      /\ q.end[n] = state
      /\ \A m \in Node \ {n} : q.end[m] = r.end[m]
  BY <1>1, OneEnd
<1> HIDE DEF q
<1>5. r.dialer \in Node
  <2>1. r.dialer \in Node \cup {None}
    BY <1>1 DEF SocketState
  <2>2. r.dialer # None
    BY <1>1, <1>3, FreeIsState DEF Shape
  <2> QED BY <2>1, <2>2
<1>6. CASE \A m \in Node : q.end[m] \in {"none", "closed"}
  <2>1. Ended(s, n, state) = Free
    BY <1>2, <1>6
  <2>2. \A m \in Node \ {n} : r.end[m] # "open" /\ Free.end[m] # "open"
    BY <1>4, <1>6, FreeIsState
  <2> QED BY <2>1, <2>2, FreeIsState DEF r
<1>7. CASE ~(\A m \in Node : q.end[m] \in {"none", "closed"})
  <2>1. Ended(s, n, state) = q
    BY <1>2, <1>7
  <2>2. Shape(q)
    <3>1. r.dialer # None /\ Other(r.dialer) \in Node /\ Other(r.dialer) # r.dialer
          /\ (n = r.dialer \/ n = Other(r.dialer))
      BY <1>5, TwoNodes
    <3>2. \A m \in Node : m = r.dialer \/ m = Other(r.dialer)
      BY <1>5, TwoNodes
    <3>3. CASE n = r.dialer
      BY <1>1, <1>3, <1>4, <1>5, <1>7, <3>1, <3>2, <3>3 DEF Shape
    <3>4. CASE n = Other(r.dialer)
      BY <1>1, <1>3, <1>4, <1>5, <1>7, <3>1, <3>2, <3>4 DEF Shape
    <3> QED BY <3>1, <3>3, <3>4
  <2> QED BY <1>4, <2>1, <2>2 DEF r
<1> QED BY <1>6, <1>7

-----------------------------------------------------------------------------
\* What a step must keep besides the ranges of the other variables.
Links ==
  /\ sock \in [Socket -> SocketState] /\ entry \in [Node -> EntryState]
  /\ SocketShape /\ OpenIsHeld

HeldAt(n, s) ==
  /\ entry[n].ws = s => sock[s].end[n] = "open"
  /\ sock[s].end[n] = "open" => entry[n].ws = s \/ (sock[s].dialer = n /\ ~sock[s].said)

LEMMA LinksOfInv == ASSUME MeshInv PROVE Links
BY DEF MeshInv, MeshTypeOK, Links

LEMMA HeldOfLinks == ASSUME Links, NEW n \in Node, NEW s \in Socket PROVE HeldAt(n, s)
BY DEF Links, OpenIsHeld, HeldAt

LEMMA LinksAgain ==
  ASSUME sock' \in [Socket -> SocketState], entry' \in [Node -> EntryState],
         \A s \in Socket : Shape(sock'[s]),
         \A n \in Node : \A s \in Socket : HeldAt(n, s)'
  PROVE  Links'
BY DEF Links, SocketShape, OpenIsHeld, HeldAt

\* A step that leaves an end as open as it was, and its entry's choice.
LEMMA HeldStill ==
  ASSUME Links, NEW n \in Node, NEW s \in Socket,
         entry'[n].ws = s <=> entry[n].ws = s,
         sock'[s].end[n] = "open" <=> sock[s].end[n] = "open",
         sock[s].end[n] = "open" => sock'[s].dialer = sock[s].dialer /\ sock'[s].said = sock[s].said
  PROVE  HeldAt(n, s)'
BY HeldOfLinks DEF HeldAt

\* An end that is not open, of a socket that the entry does not name.
LEMMA HeldNot ==
  ASSUME NEW n \in Node, NEW s \in Socket, entry'[n].ws # s, sock'[s].end[n] # "open"
  PROVE  HeldAt(n, s)'
BY DEF HeldAt

LEMMA UsedIsDialled ==
  ASSUME Links, NEW s \in Socket, Used(s)
  PROVE  /\ sock[s] \in SocketState /\ Shape(sock[s])
         /\ sock[s].dialer \in Node /\ Acceptor(s) \in Node /\ Acceptor(s) # sock[s].dialer
         /\ \A m \in Node : m = sock[s].dialer \/ m = Acceptor(s)
<1>1. sock[s] \in SocketState /\ Shape(sock[s])
  BY DEF Links, SocketShape
<1>2. sock[s].dialer \in Node
  BY <1>1 DEF SocketState, Used
<1> QED BY <1>1, <1>2, TwoNodes DEF Acceptor

-----------------------------------------------------------------------------
\* The sockets' steps.

LEMMA DialIfNeededLinks ==
  ASSUME Links, NEW n \in Node, NEW e \in EntryState, e.ws = entry[n].ws, DialIfNeeded(n, e)
  PROVE  Links'
<1>0. /\ sock \in [Socket -> SocketState] /\ entry \in [Node -> EntryState]
      /\ \A s \in Socket : Shape(sock[s])
  BY DEF Links, SocketShape
<1>1. entry' \in [Node -> EntryState] /\ \A m \in Node : entry'[m].ws = entry[m].ws
  <2>1. CASE MayDial(e)
    <3>1. [e EXCEPT !.connecting = TRUE] \in EntryState /\ [e EXCEPT !.connecting = TRUE].ws = e.ws
      BY DEF EntryState
    <3> QED BY <1>0, <2>1, <3>1 DEF DialIfNeeded, Dial
  <2>2. CASE ~MayDial(e)
    BY <1>0, <2>2 DEF DialIfNeeded
  <2> QED BY <2>1, <2>2
<1>2. CASE sock' = sock
  <2>1. \A m \in Node : \A s \in Socket : HeldAt(m, s)'
    BY <1>1, <1>2, HeldStill
  <2> QED BY <1>0, <1>1, <1>2, <2>1, LinksAgain
<1>3. ASSUME sock' # sock PROVE Links'
  <2>1. MayDial(e)
    BY <1>3 DEF DialIfNeeded
  <2>2. /\ \E s \in Socket : ~Used(s)
        /\ sock' = [sock EXCEPT ![FreeSocket] = Dialled(n)]
    BY <2>1 DEF DialIfNeeded, Dial
  <2>3. FreeSocket \in Socket /\ ~Used(FreeSocket)
    BY <2>2 DEF FreeSocket
  <2>4. PICK f \in Socket : f = FreeSocket /\ ~Used(f)
    BY <2>3
  <2>5. sock[f] = Free /\ sock'[f] = Dialled(n) /\ \A s \in Socket \ {f} : sock'[s] = sock[s]
    BY <1>0, <2>2, <2>4 DEF Shape, Used
  <2>6. sock' \in [Socket -> SocketState] /\ \A s \in Socket : Shape(sock'[s])
    BY <1>0, <2>2, <2>4, <2>5, DialledEffect
  <2>7. \A m \in Node : \A s \in Socket : sock'[s].end[m] = "open" <=> sock[s].end[m] = "open"
    BY <2>5, DialledEffect, FreeIsState
  <2>8. \A m \in Node : \A s \in Socket : sock[s].end[m] = "open" => sock'[s] = sock[s]
    BY <2>5, FreeIsState
  <2>9. \A m \in Node : \A s \in Socket : HeldAt(m, s)'
    BY <1>1, <2>7, <2>8, HeldStill
  <2> QED BY <1>1, <2>6, <2>9, LinksAgain
<1> QED BY <1>2, <1>3

\* One socket becomes q, of the same dialer, at whose ends nothing opens or closes.
LEMMA OneSocketLinks ==
  ASSUME Links, NEW s \in Socket, NEW q \in SocketState, Shape(q), sock' = [sock EXCEPT ![s] = q],
         entry' \in [Node -> EntryState], \A m \in Node : entry'[m].ws = entry[m].ws,
         \A m \in Node : q.end[m] = "open" <=> sock[s].end[m] = "open",
         \A m \in Node : q.end[m] = "open" => q.dialer = sock[s].dialer /\ q.said = sock[s].said
  PROVE  Links'
<1>0. /\ sock \in [Socket -> SocketState] /\ \A r \in Socket : Shape(sock[r])
  BY DEF Links, SocketShape
<1>1. sock'[s] = q /\ \A r \in Socket \ {s} : sock'[r] = sock[r]
  BY <1>0
<1>2. sock' \in [Socket -> SocketState] /\ \A r \in Socket : Shape(sock'[r])
  BY <1>0, <1>1
<1>3. ASSUME NEW m \in Node, NEW r \in Socket PROVE HeldAt(m, r)'
  <2>1. CASE r = s
    BY <1>1, <2>1, HeldStill
  <2>2. CASE r # s
    BY <1>1, <2>2, HeldStill
  <2> QED BY <2>1, <2>2
<1> QED BY <1>2, <1>3, LinksAgain

\* n takes s, which becomes q, for its own and lets go of the one it had.
LEMMA TakesLinks ==
  ASSUME MeshInv, NEW n \in Node, NEW s \in Socket, NEW q \in SocketState, Shape(q),
         q.end[n] = "open", sock[s].end[n] # "open",
         \A m \in Node \ {n} : q.end[m] = sock[s].end[m],
         q.dialer = sock[s].dialer, q.said = sock[s].said \/ sock[s].dialer = n,
         sock' = [r \in Socket |-> sock'[r]], sock'[s] = q,
         \A r \in Socket \ {s} : sock'[r] = IF r = entry[n].ws THEN Ended(r, n, "closing") ELSE sock[r],
         entry' \in [Node -> EntryState], entry'[n].ws = s,
         \A m \in Node \ {n} : entry'[m].ws = entry[m].ws
  PROVE  Links'
<1>0. Links /\ MeshTypeOK /\ SocketShape /\ \A r \in Socket : Shape(sock[r])
  BY LinksOfInv DEF MeshInv, SocketShape
<1>1. ASSUME NEW r \in Socket, r # s, r = entry[n].ws
      PROVE  sock'[r] = Ended(r, n, "closing") /\ sock[r].end[n] = "open"
  BY <1>0, <1>1, HeldOfLinks DEF HeldAt
<1>2. ASSUME NEW r \in Socket, r # s, r # entry[n].ws PROVE sock'[r] = sock[r]
  BY <1>2
<1>3. ASSUME NEW r \in Socket PROVE sock'[r] \in SocketState /\ Shape(sock'[r])
  <2>1. CASE r = s
    BY <2>1
  <2>2. CASE r # s /\ r = entry[n].ws
    BY <1>0, <1>1, <2>2, EndedEffect
  <2>3. CASE r # s /\ r # entry[n].ws
    BY <1>0, <1>2, <2>3 DEF Links
  <2> QED BY <2>1, <2>2, <2>3
<1>4. ASSUME NEW r \in Socket PROVE HeldAt(n, r)'
  <2>1. CASE r = s
    BY <2>1 DEF HeldAt
  <2>2. CASE r # s /\ r = entry[n].ws
    <3>1. sock'[r].end[n] # "open"
      BY <1>0, <1>1, <2>2, EndedEffect
    <3> QED BY <2>2, <3>1, HeldNot
  <2>3. CASE r # s /\ r # entry[n].ws
    BY <1>0, <1>2, <2>3, HeldStill
  <2> QED BY <2>1, <2>2, <2>3
<1>5. ASSUME NEW m \in Node, m # n, NEW r \in Socket PROVE HeldAt(m, r)'
  <2>0. HeldAt(m, r) /\ entry'[m].ws = entry[m].ws
    BY <1>0, <1>5, HeldOfLinks
  <2>1. CASE r = s
    <3>1. q.end[m] = sock[s].end[m]
      BY <1>5
    <3> QED BY <1>5, <2>0, <2>1, <3>1 DEF HeldAt
  <2>2. CASE r # s /\ r = entry[n].ws
    <3>1. /\ sock'[r].end[m] = "open" <=> sock[r].end[m] = "open"
          /\ sock[r].end[m] = "open" => sock'[r].dialer = sock[r].dialer /\ sock'[r].said = sock[r].said
      BY <1>0, <1>1, <1>5, <2>2, EndedEffect
    <3> QED BY <1>0, <2>0, <3>1, HeldStill
  <2>3. CASE r # s /\ r # entry[n].ws
    BY <1>0, <1>2, <2>0, <2>3, HeldStill
  <2> QED BY <2>1, <2>2, <2>3
<1>6. sock' \in [Socket -> SocketState]
  BY <1>3
<1>7. \A m \in Node : \A r \in Socket : HeldAt(m, r)'
  BY <1>4, <1>5
<1> QED BY <1>3, <1>6, <1>7, LinksAgain

LEMMA AcceptLinks == ASSUME Links, NEW s \in Socket, Accept(s) PROVE Links'
<1>0. sock \in [Socket -> SocketState] /\ entry \in [Node -> EntryState]
  BY DEF Links
<1> DEFINE n == Acceptor(s)
           q == [sock[s] EXCEPT !.end[n] = "new"]
<1>1. /\ sock[s] \in SocketState /\ Shape(sock[s]) /\ sock[s].dialer \in Node /\ n \in Node
      /\ n # sock[s].dialer /\ \A m \in Node : m = sock[s].dialer \/ m = n
  BY UsedIsDialled DEF Accept
<1>2. /\ sock[s].end[sock[s].dialer] = "connecting" /\ sock[s].end[n] = "none"
      /\ entry' = entry /\ sock' = [sock EXCEPT ![s] = q]
  BY <1>0 DEF Accept
<1>3. n = Other(sock[s].dialer)
  BY DEF Acceptor
<1> HIDE DEF n
<1>4. /\ q \in SocketState /\ q.dialer = sock[s].dialer /\ q.said = sock[s].said
      /\ q.end[n] = "new" /\ \A m \in Node \ {n} : q.end[m] = sock[s].end[m]
  <2>1. "new" \in EndState
    BY DEF EndState
  <2> QED BY <1>1, <2>1, OneEnd
<1> HIDE DEF q
<1>5. Shape(q)
  BY <1>1, <1>2, <1>3, <1>4, TwoNodes DEF Shape
<1>6. \A m \in Node : q.end[m] = "open" <=> sock[s].end[m] = "open"
  BY <1>2, <1>4
<1> QED BY <1>0, <1>2, <1>4, <1>5, <1>6, OneSocketLinks

\* One socket becomes q; the entries' choice of the other sockets stays.
LEMMA OneSocketHeld ==
  ASSUME Links, NEW s \in Socket, NEW q \in SocketState, Shape(q), sock' = [sock EXCEPT ![s] = q],
         entry' \in [Node -> EntryState],
         \A m \in Node : \A r \in Socket \ {s} : entry'[m].ws = r <=> entry[m].ws = r,
         \A m \in Node : HeldAt(m, s)'
  PROVE  Links'
<1>0. /\ sock \in [Socket -> SocketState] /\ \A r \in Socket : Shape(sock[r])
  BY DEF Links, SocketShape
<1>1. sock'[s] = q /\ \A r \in Socket \ {s} : sock'[r] = sock[r]
  BY <1>0
<1>2. sock' \in [Socket -> SocketState] /\ \A r \in Socket : Shape(sock'[r])
  BY <1>0, <1>1
<1>3. ASSUME NEW m \in Node, NEW r \in Socket PROVE HeldAt(m, r)'
  <2>1. CASE r = s
    BY <2>1
  <2>2. CASE r # s
    BY <1>1, <2>2, HeldStill
  <2> QED BY <2>1, <2>2
<1> QED BY <1>2, <1>3, LinksAgain

\* n's end of s, which was not open and had begun, is now closing.
LEMMA ClosingLinks ==
  ASSUME Links, NEW s \in Socket, Used(s), NEW n \in Node, sock[s].end[n] \in {"connecting", "new"},
         sock[s].end[Acceptor(s)] # "none",
         sock' = [sock EXCEPT ![s].end[n] = "closing"],
         entry' \in [Node -> EntryState], \A m \in Node : entry'[m].ws = entry[m].ws
  PROVE  Links'
<1>0. sock \in [Socket -> SocketState]
  BY DEF Links
<1> DEFINE q == [sock[s] EXCEPT !.end[n] = "closing"]
<1>1. /\ sock[s] \in SocketState /\ Shape(sock[s]) /\ sock[s].dialer \in Node
      /\ Acceptor(s) # sock[s].dialer /\ \A m \in Node : m = sock[s].dialer \/ m = Acceptor(s)
  BY UsedIsDialled
<1>2. sock' = [sock EXCEPT ![s] = q]
  BY <1>0
<1>3. /\ q \in SocketState /\ q.dialer = sock[s].dialer /\ q.said = sock[s].said
      /\ q.end[n] = "closing" /\ \A m \in Node \ {n} : q.end[m] = sock[s].end[m]
  <2>1. "closing" \in EndState
    BY DEF EndState
  <2> QED BY <1>1, <2>1, OneEnd
<1> HIDE DEF q
<1>4. Shape(q)
  <2>1. sock[s].dialer # None /\ Acceptor(s) = Other(sock[s].dialer)
    BY <1>1, TwoNodes DEF Acceptor
  <2>2. CASE n = sock[s].dialer
    <3>1. q.end[q.dialer] = "closing" /\ q.end[Other(q.dialer)] = sock[s].end[Acceptor(s)]
      BY <1>1, <1>3, <2>1, <2>2, TwoNodes
    <3>2. sock[s].end[Acceptor(s)] # "connecting" /\ (sock[s].end[Acceptor(s)] = "open" => sock[s].said)
      BY <1>1, <2>1 DEF Shape
    <3> QED BY <1>3, <2>1, <3>1, <3>2 DEF Shape
  <2>3. CASE n = Acceptor(s)
    <3>1. q.end[q.dialer] = sock[s].end[sock[s].dialer] /\ q.end[Other(q.dialer)] = "closing"
      BY <1>1, <1>3, <2>1, <2>3
    <3> QED BY <1>1, <1>3, <2>1, <3>1 DEF Shape
  <2> QED BY <1>1, <2>2, <2>3
<1>5. \A m \in Node : q.end[m] = "open" <=> sock[s].end[m] = "open"
  BY <1>3
<1> QED BY <1>2, <1>3, <1>4, <1>5, OneSocketLinks

LEMMA OpensLinks == ASSUME MeshInv, NEW s \in Socket, Opens(s) PROVE Links'
<1> DEFINE n == sock[s].dialer
           q == [sock[s] EXCEPT !.end[n] = "open"]
           e == [entry[n] EXCEPT !.connecting = FALSE, !.tries = 0]
<1>0. Links /\ Used(s) /\ MeshTypeOK
  BY LinksOfInv DEF MeshInv, Opens
<1>1. sock \in [Socket -> SocketState] /\ entry \in [Node -> EntryState]
  BY <1>0 DEF Links
<1>2. /\ sock[s] \in SocketState /\ Shape(sock[s]) /\ n \in Node /\ Acceptor(s) # n
      /\ \A m \in Node : m = n \/ m = Acceptor(s)
  BY <1>0, UsedIsDialled
<1>3. sock[s].end[n] = "connecting" /\ sock[s].end[Acceptor(s)] # "none"
  BY DEF Opens
<1>4. /\ q \in SocketState /\ q.dialer = n /\ q.said = sock[s].said
      /\ q.end[n] = "open" /\ \A m \in Node \ {n} : q.end[m] = sock[s].end[m]
  <2>1. "open" \in EndState
    BY DEF EndState
  <2> QED BY <1>2, <2>1, OneEnd
<1>5. n # None /\ Acceptor(s) = Other(n) /\ Acceptor(s) \in Node
  BY <1>2, TwoNodes DEF Acceptor
<1>6. Shape(q) /\ ~sock[s].said
  BY <1>2, <1>3, <1>4, <1>5 DEF Shape
<1>7. e \in EntryState /\ e.ws = entry[n].ws
  <2>1. 0 \in 0..MaxTries /\ entry[n] \in EntryState
    BY <1>1, <1>2, MeshAssumption
  <2> QED BY <2>1 DEF EntryState
<1>8. CASE sock[s].stale
  <2>1. entry' = entry /\ sock' = [sock EXCEPT ![s] = q]
    BY <1>1, <1>8 DEF Opens
  <2>2. sock'[s] = q
    BY <1>1, <2>1
  <2>3. ASSUME NEW m \in Node, m = n PROVE HeldAt(m, s)'
    <3>1. HeldAt(m, s)
      BY <1>0, HeldOfLinks
    <3>2. sock[s].end[m] = "connecting" /\ sock'[s].end[m] = "open" /\ sock'[s].dialer = m /\ ~sock'[s].said
      BY <1>3, <1>4, <1>6, <2>2, <2>3
    <3> QED BY <2>1, <3>1, <3>2 DEF HeldAt
  <2>4. ASSUME NEW m \in Node, m # n PROVE HeldAt(m, s)'
    <3>1. q.end[m] = sock[s].end[m]
      BY <1>4, <2>4
    <3> QED BY <1>0, <1>4, <2>1, <2>2, <3>1, HeldStill
  <2>5. ASSUME NEW m \in Node PROVE HeldAt(m, s)'
    <3> HIDE DEF n
    <3> QED BY <2>3, <2>4
  <2> HIDE DEF n, q, e
  <2> QED BY <1>0, <1>1, <1>4, <1>6, <2>1, <2>5, OneSocketHeld
<1>9. CASE ~sock[s].stale /\ KeepsOld(n, s, TRUE)
  <2>1. entry' = [entry EXCEPT ![n] = e] /\ sock' = [sock EXCEPT ![s].end[n] = "closing"]
    BY <1>9 DEF Opens
  <2>2. entry' \in [Node -> EntryState] /\ \A m \in Node : entry'[m].ws = entry[m].ws
    BY <1>1, <1>7, <2>1
  <2> HIDE DEF n, q, e
  <2>3. sock[s].end[n] \in {"connecting", "new"}
    BY <1>3
  <2> QED BY <1>0, <1>2, <1>3, <2>1, <2>2, <2>3, ClosingLinks
<1>10. CASE ~sock[s].stale /\ ~KeepsOld(n, s, TRUE)
  <2> DEFINE p == [q EXCEPT !.said = TRUE]
  <2>1. /\ entry' = [entry EXCEPT ![n] = [e EXCEPT !.ws = s]]
        /\ sock' = [Adopted(n, s) EXCEPT ![s].said = TRUE]
    BY <1>10 DEF Opens
  <2>2. /\ p \in SocketState /\ p.dialer = n /\ p.said = TRUE /\ p.end = q.end
    BY <1>4 DEF SocketState
  <2>3. Shape(p)
    BY <1>4, <1>5, <1>6, <2>2 DEF Shape
  <2>4. /\ entry' \in [Node -> EntryState] /\ entry'[n].ws = s
        /\ \A m \in Node \ {n} : entry'[m].ws = entry[m].ws
    <3>1. [e EXCEPT !.ws = s] \in EntryState /\ [e EXCEPT !.ws = s].ws = s
      BY <1>7 DEF EntryState
    <3> QED BY <1>1, <1>2, <2>1, <3>1
  <2>5. sock'[s] = p /\ sock' = [r \in Socket |-> sock'[r]]
    BY <2>1 DEF Adopted
  <2>6. \A r \in Socket \ {s} : sock'[r] = IF r = entry[n].ws THEN Ended(r, n, "closing") ELSE sock[r]
    BY <2>1 DEF Adopted
  <2>7. p.end[n] = "open" /\ sock[s].end[n] # "open" /\ \A m \in Node \ {n} : p.end[m] = sock[s].end[m]
    BY <1>3, <1>4, <2>2
  <2>8. p.dialer = sock[s].dialer /\ (p.said = sock[s].said \/ sock[s].dialer = n)
    BY <2>2
  <2> HIDE DEF n, q, e, p
  <2> QED BY <1>2, <2>2, <2>3, <2>4, <2>5, <2>6, <2>7, <2>8, TakesLinks
<1> QED BY <1>8, <1>9, <1>10

LEMMA BindsLinks == ASSUME MeshInv, NEW s \in Socket, Binds(s) PROVE Links'
<1> DEFINE n == Acceptor(s)
           q == [sock[s] EXCEPT !.end[n] = "open"]
<1>0. Links /\ Used(s)
  BY LinksOfInv DEF Binds
<1>1. sock \in [Socket -> SocketState] /\ entry \in [Node -> EntryState]
  BY <1>0 DEF Links
<1>2. /\ sock[s] \in SocketState /\ Shape(sock[s]) /\ sock[s].dialer \in Node /\ n \in Node
      /\ n # sock[s].dialer
  BY <1>0, UsedIsDialled
<1>3. sock[s].end[n] = "new" /\ sock[s].said
  BY DEF Binds
<1>4. n = Other(sock[s].dialer) /\ sock[s].dialer # None
  BY <1>2, TwoNodes DEF Acceptor
<1>5. CASE KeepsOld(n, s, FALSE)
  <2>1. sock' = [sock EXCEPT ![s].end[n] = "closing"] /\ entry' = entry
    BY <1>5 DEF Binds
  <2>2. sock[s].end[n] \in {"connecting", "new"} /\ sock[s].end[Acceptor(s)] # "none"
    BY <1>3
  <2> HIDE DEF n
  <2> QED BY <1>0, <1>1, <1>2, <2>1, <2>2, ClosingLinks
<1>6. CASE ~KeepsOld(n, s, FALSE)
  <2>1. /\ entry' = [entry EXCEPT ![n].known = TRUE, ![n].ws = s]
        /\ sock' = Adopted(n, s)
    BY <1>6 DEF Binds
  <2>2. sock'[s] = q /\ sock' = [r \in Socket |-> sock'[r]]
    BY <2>1 DEF Adopted
  <2>3. \A r \in Socket \ {s} : sock'[r] = IF r = entry[n].ws THEN Ended(r, n, "closing") ELSE sock[r]
    BY <2>1 DEF Adopted
  <2> HIDE DEF n
  <2>4. /\ entry' \in [Node -> EntryState] /\ entry'[n].ws = s
        /\ \A m \in Node \ {n} : entry'[m].ws = entry[m].ws
    <3>1. [entry[n] EXCEPT !.known = TRUE, !.ws = s] \in EntryState
      BY <1>1, <1>2 DEF EntryState
    <3>2. entry' = [entry EXCEPT ![n] = [entry[n] EXCEPT !.known = TRUE, !.ws = s]]
      BY <1>1, <1>2, <2>1
    <3>3. [entry[n] EXCEPT !.known = TRUE, !.ws = s].ws = s
      BY <1>1, <1>2 DEF EntryState
    <3> QED BY <1>1, <1>2, <3>1, <3>2, <3>3
  <2>5. /\ q \in SocketState /\ q.dialer = sock[s].dialer /\ q.said = sock[s].said
        /\ q.end[n] = "open" /\ \A m \in Node \ {n} : q.end[m] = sock[s].end[m]
    <3>1. "open" \in EndState
      BY DEF EndState
    <3> QED BY <1>2, <3>1, OneEnd
  <2> HIDE DEF q
  <2>6. Shape(q)
    BY <1>2, <1>3, <1>4, <2>5 DEF Shape
  <2>7. sock[s].end[n] # "open"
    BY <1>3
  <2> QED BY <1>2, <2>2, <2>3, <2>4, <2>5, <2>6, <2>7, TakesLinks
<1> QED BY <1>5, <1>6

LEMMA AuthTimeoutLinks == ASSUME Links, NEW s \in Socket, AuthTimeout(s) PROVE Links'
<1>1. Used(s) /\ entry \in [Node -> EntryState] /\ entry' = entry
  BY DEF Links, AuthTimeout
<1>2. Acceptor(s) \in Node
  BY <1>1, UsedIsDialled
<1>3. sock[s].end[Acceptor(s)] \in {"connecting", "new"} /\ sock[s].end[Acceptor(s)] # "none"
  BY DEF AuthTimeout
<1>4. sock' = [sock EXCEPT ![s].end[Acceptor(s)] = "closing"]
  BY DEF AuthTimeout
<1> QED BY <1>1, <1>2, <1>3, <1>4, ClosingLinks

\* The close event of s takes s, and no other socket, out of the entry.
LEMMA AfterCloseEffect ==
  ASSUME Links, NEW n \in Node, NEW s \in Socket
  PROVE  /\ AfterClose(n, s) \in EntryState
         /\ AfterClose(n, s).ws = IF entry[n].ws = s THEN None ELSE entry[n].ws
<1>1. entry[n] \in EntryState
  BY DEF Links
<1>2. ASSUME NEW e \in EntryState PROVE Rescheduled(e) \in EntryState /\ Rescheduled(e).ws = e.ws
  <2>1. CASE ~e.known \/ e.timer \/ e.tries >= MaxTries
    BY <2>1 DEF Rescheduled
  <2>2. CASE ~(~e.known \/ e.timer \/ e.tries >= MaxTries)
    <3>1. e.tries + 1 \in 0..MaxTries
      BY <2>2, MeshAssumption DEF EntryState
    <3> QED BY <2>2, <3>1 DEF Rescheduled, EntryState
  <2> QED BY <2>1, <2>2
<1>3. LetGo(n, s) \in EntryState /\ LetGo(n, s).ws = IF entry[n].ws = s THEN None ELSE entry[n].ws
  BY <1>1 DEF LetGo, EntryState
<1>4. CASE sock[s].dialer = n
  <2> DEFINE e == [LetGo(n, s) EXCEPT !.connecting = IF sock[s].stale THEN @ ELSE FALSE]
  <2>1. e \in EntryState /\ e.ws = LetGo(n, s).ws
    BY <1>3 DEF EntryState
  <2>2. AfterClose(n, s) = Rescheduled(e)
    BY <1>4 DEF AfterClose
  <2> HIDE DEF e
  <2> QED BY <1>2, <1>3, <2>1, <2>2
<1>5. CASE sock[s].dialer # n /\ entry[n].ws = s
  BY <1>2, <1>3, <1>5 DEF AfterClose
<1>6. CASE sock[s].dialer # n /\ entry[n].ws # s
  BY <1>1, <1>6 DEF AfterClose
<1> QED BY <1>4, <1>5, <1>6

\* The end of s at n is closed.
LEMMA ClosedLinks ==
  ASSUME MeshInv, NEW n \in Node, NEW s \in Socket, sock[s].end[n] # "none",
         entry' = [entry EXCEPT ![n] = AfterClose(n, s)],
         sock' = [sock EXCEPT ![s] = Ended(s, n, "closed")]
  PROVE  Links'
<1>0. Links /\ MeshTypeOK /\ SocketShape
  BY LinksOfInv DEF MeshInv
<1>1. sock \in [Socket -> SocketState] /\ entry \in [Node -> EntryState]
  BY <1>0 DEF Links
<1>2. PICK q : q = Ended(s, n, "closed")
  OBVIOUS
<1>3. /\ q \in SocketState /\ Shape(q) /\ q.end[n] # "open"
      /\ \A m \in Node \ {n} :
           /\ q.end[m] = "open" <=> sock[s].end[m] = "open"
           /\ sock[s].end[m] = "open" => q.dialer = sock[s].dialer /\ q.said = sock[s].said
  BY <1>0, <1>2, EndedEffect
<1>4. sock' = [sock EXCEPT ![s] = q] /\ sock'[s] = q
  BY <1>1, <1>2
<1>5. /\ entry' \in [Node -> EntryState]
      /\ entry'[n].ws = IF entry[n].ws = s THEN None ELSE entry[n].ws
      /\ \A m \in Node \ {n} : entry'[m] = entry[m]
  BY <1>0, <1>1, AfterCloseEffect
<1>6. None \notin Socket
  BY DEF None, Socket
<1>7. \A m \in Node : \A r \in Socket \ {s} : entry'[m].ws = r <=> entry[m].ws = r
  BY <1>5, <1>6
<1>8. HeldAt(n, s)'
  BY <1>3, <1>4, <1>5, <1>6, HeldNot
<1>9. ASSUME NEW m \in Node, m # n PROVE HeldAt(m, s)'
  <2>1. entry'[m].ws = s <=> entry[m].ws = s
    BY <1>5, <1>9
  <2>2. /\ sock'[s].end[m] = "open" <=> sock[s].end[m] = "open"
        /\ sock[s].end[m] = "open" => sock'[s].dialer = sock[s].dialer /\ sock'[s].said = sock[s].said
    BY <1>3, <1>4, <1>9
  <2> QED BY <1>0, <2>1, <2>2, HeldStill
<1>10. \A m \in Node : HeldAt(m, s)'
  BY <1>8, <1>9
<1> QED BY <1>0, <1>3, <1>4, <1>5, <1>7, <1>10, OneSocketHeld

LEMMA CutLinks == ASSUME Links, NEW s \in Socket, Cut(s) PROVE Links'
<1>1. sock \in [Socket -> SocketState] /\ entry \in [Node -> EntryState] /\ Shape(sock[s])
  BY DEF Links, SocketShape
<1>2. PICK q : q = [sock[s] EXCEPT !.cut = TRUE]
  OBVIOUS
<1>3. q \in SocketState /\ q.dialer = sock[s].dialer /\ q.said = sock[s].said /\ q.end = sock[s].end
  BY <1>1, <1>2 DEF SocketState
<1>4. sock[s].dialer # None
  BY DEF Cut, Used
<1>5. Shape(q)
  BY <1>1, <1>3, <1>4 DEF Shape
<1>6. entry' = entry /\ sock' = [sock EXCEPT ![s] = q]
  BY <1>1, <1>2 DEF Cut
<1> QED BY <1>1, <1>3, <1>5, <1>6, OneSocketLinks

-----------------------------------------------------------------------------
\* The nodes' steps.

\* What a node forgets of the other: no socket is named, and of its ends only
\* those stay open on which it said nothing.
LEMMA ForgetsLinks ==
  ASSUME Links, NEW n \in Node, entry' = [entry EXCEPT ![n] = NoEntry],
         sock' \in [Socket -> SocketState], \A s \in Socket : Shape(sock'[s]),
         \A s \in Socket : sock'[s].end[n] = "open" => sock'[s].dialer = n /\ ~sock'[s].said,
         \A s \in Socket : \A m \in Node \ {n} :
           /\ sock'[s].end[m] = "open" <=> sock[s].end[m] = "open"
           /\ sock[s].end[m] = "open" => sock'[s].dialer = sock[s].dialer /\ sock'[s].said = sock[s].said
  PROVE  Links'
<1>1. entry \in [Node -> EntryState]
  BY DEF Links
<1>2. NoEntry \in EntryState /\ NoEntry.ws = None /\ None \notin Socket
  BY MeshAssumption DEF NoEntry, EntryState, None, Socket
<1>3. /\ entry' \in [Node -> EntryState] /\ entry'[n].ws = None
      /\ \A m \in Node \ {n} : entry'[m] = entry[m]
  BY <1>1, <1>2
<1>4. ASSUME NEW s \in Socket, NEW m \in Node PROVE HeldAt(m, s)'
  <2>1. CASE m = n
    BY <1>2, <1>3, <2>1 DEF HeldAt
  <2>2. CASE m # n
    <3>1. entry'[m].ws = entry[m].ws
      BY <1>3, <2>2
    <3>2. /\ sock'[s].end[m] = "open" <=> sock[s].end[m] = "open"
          /\ sock[s].end[m] = "open" => sock'[s].dialer = sock[s].dialer /\ sock'[s].said = sock[s].said
      BY <2>2
    <3> QED BY <3>1, <3>2, HeldStill
  <2> QED BY <2>1, <2>2
<1> QED BY <1>3, <1>4, LinksAgain

LEMMA HealthCheckLinks == ASSUME MeshInv, NEW n \in Node, HealthCheck(n) PROVE Links'
<1>0. Links /\ MeshTypeOK /\ SocketShape
  BY LinksOfInv DEF MeshInv
<1>1. entry' = [entry EXCEPT ![n] = NoEntry]
  BY DEF HealthCheck
<1>2. ASSUME NEW s \in Socket
      PROVE  /\ sock'[s] \in SocketState /\ Shape(sock'[s])
             /\ sock'[s].end[n] = "open" => sock'[s].dialer = n /\ ~sock'[s].said
             /\ \A m \in Node \ {n} :
                  /\ sock'[s].end[m] = "open" <=> sock[s].end[m] = "open"
                  /\ sock[s].end[m] = "open" => sock'[s].dialer = sock[s].dialer /\ sock'[s].said = sock[s].said
  <2>1. PICK r : r = IF s = entry[n].ws THEN Ended(s, n, "closing") ELSE sock[s]
    OBVIOUS
  <2>2. sock'[s] = IF r.dialer = n THEN [r EXCEPT !.stale = TRUE] ELSE r
    BY <2>1 DEF HealthCheck
  <2>3. HeldAt(n, s)
    BY <1>0, HeldOfLinks
  <2>4. /\ r \in SocketState /\ Shape(r)
        /\ r.end[n] = "open" => r.dialer = n /\ ~r.said
        /\ \A m \in Node \ {n} :
             /\ r.end[m] = "open" <=> sock[s].end[m] = "open"
             /\ sock[s].end[m] = "open" => r.dialer = sock[s].dialer /\ r.said = sock[s].said
    <3>1. CASE s = entry[n].ws
      <4>1. sock[s].end[n] # "none" /\ r = Ended(s, n, "closing")
        BY <2>1, <2>3, <3>1 DEF HeldAt
      <4> QED BY <1>0, <4>1, EndedEffect
    <3>2. CASE s # entry[n].ws
      <4>1. r = sock[s]
        BY <2>1, <3>2
      <4> QED BY <1>0, <2>3, <3>2, <4>1 DEF HeldAt, MeshTypeOK, SocketShape
    <3> QED BY <3>1, <3>2
  <2>5. /\ sock'[s] \in SocketState /\ sock'[s].dialer = r.dialer /\ sock'[s].said = r.said
        /\ sock'[s].end = r.end
    BY <2>2, <2>4 DEF SocketState
  <2>6. Shape(sock'[s])
    <3>1. CASE r.dialer = n
      <4>1. r.dialer # None
        BY <3>1, TwoNodes
      <4> QED BY <2>4, <2>5, <4>1 DEF Shape
    <3>2. CASE r.dialer # n
      BY <2>2, <2>4, <3>2
    <3> QED BY <3>1, <3>2
  <2> QED BY <2>4, <2>5, <2>6
<1>3. sock' \in [Socket -> SocketState]
  <2>1. sock' = [s \in Socket |-> sock'[s]]
    BY DEF HealthCheck
  <2> QED BY <1>2, <2>1
<1> QED BY <1>0, <1>1, <1>2, <1>3, ForgetsLinks

LEMMA StopLinks == ASSUME MeshInv, NEW n \in Node, Stop(n) PROVE Links'
<1>0. Links /\ MeshTypeOK /\ SocketShape
  BY LinksOfInv DEF MeshInv
<1>1. entry' = [entry EXCEPT ![n] = NoEntry]
  BY DEF Stop
<1>2. ASSUME NEW s \in Socket
      PROVE  /\ sock'[s] \in SocketState /\ Shape(sock'[s])
             /\ sock'[s].end[n] # "open"
             /\ \A m \in Node \ {n} :
                  /\ sock'[s].end[m] = "open" <=> sock[s].end[m] = "open"
                  /\ sock[s].end[m] = "open" => sock'[s].dialer = sock[s].dialer /\ sock'[s].said = sock[s].said
  <2>1. sock'[s] = IF sock[s].end[n] = "none" THEN sock[s] ELSE Ended(s, n, "closed")
    BY DEF Stop
  <2>2. CASE sock[s].end[n] = "none"
    BY <1>0, <2>1, <2>2 DEF MeshTypeOK, SocketShape
  <2>3. CASE sock[s].end[n] # "none"
    BY <1>0, <2>1, <2>3, EndedEffect
  <2> QED BY <2>2, <2>3
<1>3. sock' \in [Socket -> SocketState]
  <2>1. sock' = [s \in Socket |-> sock'[s]]
    BY DEF Stop
  <2> QED BY <1>2, <2>1
<1> QED BY <1>0, <1>1, <1>2, <1>3, ForgetsLinks

\* The variables that no socket depends on.
Ranges == reach \subseteq Node /\ up \subseteq Node /\ inst \subseteq up /\ old \subseteq inst /\ faults \in 0..MaxFaults

LEMMA MeshInitInv == MeshInit => MeshInv
<1> SUFFICES ASSUME MeshInit PROVE MeshInv
  OBVIOUS
<1>1. sock \in [Socket -> SocketState] /\ \A s \in Socket : sock[s] = Free
  BY FreeIsState DEF MeshInit
<1>2. NoEntry \in EntryState /\ NoEntry.ws = None /\ None \notin Socket
  BY MeshAssumption DEF NoEntry, EntryState, None, Socket
<1>3. entry \in [Node -> EntryState] /\ \A n \in Node : entry[n].ws = None
  BY <1>2 DEF MeshInit
<1>4. MeshTypeOK
  BY <1>1, <1>3, MeshAssumption DEF MeshInit, MeshTypeOK
<1>5. SocketShape
  BY <1>1, FreeIsState DEF SocketShape
<1>6. OpenIsHeld
  BY <1>1, <1>2, <1>3, FreeIsState DEF OpenIsHeld
<1> QED BY <1>4, <1>5, <1>6 DEF MeshInv

\* A discovery adds the peer and dials it.
LEMMA DiscoversInv ==
  ASSUME MeshInv, NEW n \in Node, n \in up, Discovers(n)
  PROVE  Links' /\ Ranges'
<1>1. Links
  BY LinksOfInv
<1>2. PICK e : e = [entry[n] EXCEPT !.known = TRUE, !.addr = TRUE, !.tries = 0]
  OBVIOUS
<1>3. e \in EntryState /\ e.ws = entry[n].ws
  <2>1. 0 \in 0..MaxTries /\ entry[n] \in EntryState
    BY <1>1, MeshAssumption DEF Links
  <2> QED BY <1>2, <2>1 DEF EntryState
<1>4. DialIfNeeded(n, e)
  BY <1>2 DEF Discovers, AddPeer
<1>5. Links'
  BY <1>1, <1>3, <1>4, DialIfNeededLinks
<1>6. Ranges'
  BY DEF Ranges, MeshInv, MeshTypeOK, Discovers
<1> QED BY <1>5, <1>6

LEMMA ReconnectLinks == ASSUME Links, NEW n \in Node, Reconnect(n) PROVE Links'
<1>1. PICK e : e = [entry[n] EXCEPT !.timer = FALSE]
  OBVIOUS
<1>2. e \in EntryState /\ e.ws = entry[n].ws
  BY <1>1 DEF Links, EntryState
<1>3. DialIfNeeded(n, e)
  BY <1>1 DEF Reconnect
<1> QED BY <1>2, <1>3, DialIfNeededLinks

LEMMA SameLinks == ASSUME Links, sock' = sock, entry' = entry PROVE Links'
BY DEF Links, SocketShape, OpenIsHeld

LEMMA MeshNextInv == MeshInv /\ [MeshNext]_meshVars => MeshInv'
<1> SUFFICES ASSUME MeshInv, [MeshNext]_meshVars PROVE MeshInv'
  OBVIOUS
<1>0. Links /\ Ranges
  BY LinksOfInv DEF MeshInv, MeshTypeOK, Ranges
<1>1. ASSUME NEW s \in Socket, Accept(s) PROVE Links' /\ Ranges'
  BY <1>0, <1>1, AcceptLinks DEF Accept, Ranges
<1>2. ASSUME NEW s \in Socket, Opens(s) PROVE Links' /\ Ranges'
  <2>1. Ranges'
    BY <1>0, <1>2 DEF Opens, Ranges
  <2> QED BY <1>2, <2>1, OpensLinks
<1>3. ASSUME NEW s \in Socket, Binds(s) PROVE Links' /\ Ranges'
  <2>1. Ranges'
    BY <1>0, <1>3 DEF Binds, Ranges
  <2> QED BY <1>3, <2>1, BindsLinks
<1>4. ASSUME NEW s \in Socket, AuthTimeout(s) PROVE Links' /\ Ranges'
  BY <1>0, <1>4, AuthTimeoutLinks DEF AuthTimeout, Ranges
<1>5. ASSUME NEW s \in Socket, DialFails(s) PROVE Links' /\ Ranges'
  <2> DEFINE n == sock[s].dialer
  <2>1. n \in Node /\ sock[s].end[n] # "none"
    BY <1>0, <1>5, UsedIsDialled DEF DialFails
  <2>2. /\ entry' = [entry EXCEPT ![n] = AfterClose(n, s)]
        /\ sock' = [sock EXCEPT ![s] = Ended(s, n, "closed")]
    BY <1>5 DEF DialFails
  <2>3. Ranges'
    BY <1>0, <1>5 DEF DialFails, Ranges
  <2> HIDE DEF n
  <2> QED BY <2>1, <2>2, <2>3, ClosedLinks
<1>6. ASSUME NEW s \in Socket, Cut(s) PROVE Links' /\ Ranges'
  <2>1. Ranges'
    BY <1>0, <1>6, MeshAssumption DEF Cut, Ranges
  <2> QED BY <1>0, <1>6, <2>1, CutLinks
<1>7. ASSUME NEW s \in Socket, NEW n \in Node, Closes(n, s) PROVE Links' /\ Ranges'
  <2>1. sock[s].end[n] # "none"
    BY <1>7 DEF Closes, Live
  <2>2. /\ entry' = [entry EXCEPT ![n] = AfterClose(n, s)]
        /\ sock' = [sock EXCEPT ![s] = Ended(s, n, "closed")]
    BY <1>7 DEF Closes
  <2>3. Ranges'
    BY <1>0, <1>7 DEF Closes, Ranges
  <2> QED BY <2>1, <2>2, <2>3, ClosedLinks
<1>8. ASSUME NEW n \in Node, Silence(n) \/ Ping(n) PROVE Links' /\ Ranges'
  <2>1. sock' = sock /\ entry' = entry
    BY <1>8 DEF Silence, Ping
  <2>2. Ranges'
    BY <1>0, <1>8 DEF Silence, Ping, Ranges
  <2> QED BY <1>0, <2>1, <2>2, SameLinks
<1>9. ASSUME NEW n \in Node, HealthCheck(n) PROVE Links' /\ Ranges'
  <2>1. Ranges'
    BY <1>0, <1>9 DEF HealthCheck, Ranges
  <2> QED BY <1>9, <2>1, HealthCheckLinks
<1>10. ASSUME NEW n \in Node, Announce(n) PROVE Links' /\ Ranges'
  <2>1. Other(n) \in Node /\ Other(n) \in up /\ Discovers(Other(n))
    BY <1>10, TwoNodes DEF Announce
  <2> QED BY <2>1, DiscoversInv
<1>11. ASSUME NEW n \in Node, Responds(n) PROVE Links' /\ Ranges'
  BY <1>11, DiscoversInv DEF Responds
<1>12. ASSUME NEW n \in Node, Reconnect(n) PROVE Links' /\ Ranges'
  <2>1. Ranges'
    BY <1>0, <1>12 DEF Reconnect, Ranges
  <2> QED BY <1>0, <1>12, <2>1, ReconnectLinks
<1>13. ASSUME NEW n \in Node, Stop(n) PROVE Links' /\ Ranges'
  <2>1. Ranges'
    BY <1>0, <1>13, MeshAssumption DEF Stop, Ranges
  <2> QED BY <1>13, <2>1, StopLinks
<1>14. ASSUME NEW n \in Node, Restart(n) PROVE Links' /\ Ranges'
  <2>1. sock' = sock /\ entry' = entry /\ Ranges'
    BY <1>0, <1>14 DEF Restart, Ranges
  <2> QED BY <1>0, <2>1, SameLinks
<1>15. Links' /\ Ranges'
  <2>1. CASE UNCHANGED meshVars
    <3>1. sock' = sock /\ entry' = entry /\ Ranges'
      BY <1>0, <2>1 DEF meshVars, Ranges
    <3> QED BY <1>0, <3>1, SameLinks
  <2>2. ASSUME NEW s \in Socket, SocketStep(s) \/ Cut(s) \/ \E n \in Node : Closes(n, s)
        PROVE  Links' /\ Ranges'
    BY <2>2, <1>1, <1>2, <1>3, <1>4, <1>5, <1>6, <1>7 DEF SocketStep
  <2>3. ASSUME NEW n \in Node, NodeStep(n) \/ Announce(n) \/ Responds(n) \/ Reconnect(n) \/ Stop(n) \/ Restart(n)
        PROVE  Links' /\ Ranges'
    BY <2>3, <1>8, <1>9, <1>10, <1>11, <1>12, <1>13, <1>14 DEF NodeStep
  <2> QED BY <2>1, <2>2, <2>3 DEF MeshNext
<1> QED BY <1>15 DEF Links, Ranges, MeshInv, MeshTypeOK

\* A used socket that is settled is open at both ends, so that something was said
\* on it and both entries name it.
LEMMA SettledIsHeld == MeshInv => OneSocketPerPair
<1> SUFFICES ASSUME MeshInv, \A s \in Socket : Settled(s), NEW s \in Socket, Used(s), NEW n \in Node
             PROVE  entry[n].ws = s
  BY DEF OneSocketPerPair
<1>0. Links
  BY LinksOfInv
<1> DEFINE d == sock[s].dialer
<1>1. /\ sock[s] \in SocketState /\ Shape(sock[s])
      /\ d \in Node /\ Acceptor(s) \in Node /\ Acceptor(s) # d
      /\ n = d \/ n = Acceptor(s)
  BY <1>0, UsedIsDialled
<1>2. d # None /\ Acceptor(s) = Other(d)
  BY <1>1, TwoNodes DEF Acceptor
<1>3. sock[s].end[d] \in {"none", "open"} /\ sock[s].end[Acceptor(s)] \in {"none", "open"}
  BY <1>1 DEF Settled
<1>4. sock[s].end[d] = "open" /\ sock[s].end[Acceptor(s)] = "open" /\ sock[s].said
  BY <1>1, <1>2, <1>3 DEF Shape
<1>5. sock[s].end[n] = "open"
  BY <1>1, <1>4
<1> QED BY <1>0, <1>4, <1>5, HeldOfLinks DEF HeldAt

\* Every state of the mesh is well formed: discovery.ts' instances of a node that
\* does not run are gone, and what timed out is among them.
THEOREM MeshTypeCorrect == MeshSpec => []MeshTypeOK
<1>1. MeshInv => MeshTypeOK
  BY DEF MeshInv
<1> QED BY MeshInitInv, MeshNextInv, <1>1, PTL DEF MeshSpec

\* adopt (transport.ts) keeps one socket per peer, however the dials, first
\* messages, closes, removals and crashes of the two nodes cross.
THEOREM OneSocketAtATime == MeshSpec => []OneSocketPerPair
BY MeshInitInv, MeshNextInv, SettledIsHeld, PTL DEF MeshSpec
=============================================================================
