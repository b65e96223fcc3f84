--------------------------- MODULE ChatRelay_proof ---------------------------
(***************************************************************************)
(* Proofs about relayed chat, for every number of messages and members,    *)
(* every assignment of messages to members, and every number of turns of   *)
(* the connections, refusals, timeouts, expiries, broken links and         *)
(* restarts.  What a filter keeps is defined by recursion on the list, so  *)
(* the lemmas about it go by induction, here as: a set of numbers that     *)
(* holds zero and every successor of its elements holds them all.          *)
(***************************************************************************)
EXTENDS ChatRelay, SequenceTheorems, NaturalsInduction, WellFoundedInduction, TLAPS

-----------------------------------------------------------------------------
(* Lists.                                                                  *)

LEMMA SetInduction ==
  ASSUME NEW S, 0 \in S, \A n \in Nat : n \in S => n + 1 \in S
  PROVE  Nat \subseteq S
<1> SUFFICES ASSUME Nat \ S # {} PROVE FALSE
  OBVIOUS
<1>1. PICK m \in Nat \ S : \A n \in Nat \ S : ~(<<n, m>> \in OpToRel(<, Nat))
  BY WFMin, NatLessThanWellFounded
<1>2. m # 0 /\ m \in Nat
  OBVIOUS
<1>3. m - 1 \in Nat /\ m - 1 < m /\ (m - 1) + 1 = m
  BY <1>2
<1>4. m - 1 \notin S
  BY <1>2, <1>3
<1>5. <<m - 1, m>> \in OpToRel(<, Nat)
  BY <1>2, <1>3 DEF OpToRel
<1> QED BY <1>1, <1>3, <1>4, <1>5

LEMMA AbsentLeads ==
  ASSUME NEW j, NEW i, NEW s, i \notin ToSet(s)
  PROVE  Leads(j, i, s)
BY DEF Leads, ToSet

\* One more at the end.
LEMMA AppendEffect ==
  ASSUME NEW T, NEW s \in Seq(T), NEW e \in T
  PROVE  /\ Append(s, e) \in Seq(T)
         /\ ToSet(Append(s, e)) = ToSet(s) \cup {e}
         /\ \A j, i : Leads(j, i, s) /\ (e # i \/ j \in ToSet(s)) => Leads(j, i, Append(s, e))
<1> DEFINE a == Append(s, e)
<1>1. /\ a \in Seq(T) /\ Len(s) \in Nat /\ DOMAIN s = 1..Len(s) /\ DOMAIN a = 1..(Len(s) + 1)
      /\ a[Len(s) + 1] = e /\ \A k \in 1..Len(s) : a[k] = s[k]
  BY AppendProperties, LenProperties
<1> HIDE DEF a
<1>2. ToSet(a) = ToSet(s) \cup {e}
  <2>1. ASSUME NEW x \in ToSet(a) PROVE x \in ToSet(s) \cup {e}
    <3>1. PICK k \in 1..(Len(s) + 1) : a[k] = x
      BY <1>1 DEF ToSet
    <3>2. k = Len(s) + 1 \/ k \in 1..Len(s)
      BY <1>1
    <3> QED BY <1>1, <3>1, <3>2 DEF ToSet
  <2>2. ASSUME NEW x \in ToSet(s) PROVE x \in ToSet(a)
    <3>1. PICK k \in 1..Len(s) : s[k] = x
      BY <1>1 DEF ToSet
    <3>2. k \in 1..(Len(s) + 1) /\ a[k] = x
      BY <1>1, <3>1
    <3> QED BY <1>1, <3>2 DEF ToSet
  <2>3. e \in ToSet(a)
    <3>1. Len(s) + 1 \in 1..(Len(s) + 1)
      BY <1>1
    <3> QED BY <1>1, <3>1 DEF ToSet
  <2> QED BY <2>1, <2>2, <2>3
<1>3. ASSUME NEW j, NEW i, Leads(j, i, s), e # i \/ j \in ToSet(s) PROVE Leads(j, i, a)
  <2> SUFFICES ASSUME NEW y \in 1..(Len(s) + 1), a[y] = i PROVE \E x \in 1..(y - 1) : a[x] = j
    BY <1>1 DEF Leads
  <2>1. CASE y \in 1..Len(s)
    <3>1. PICK x \in 1..(y - 1) : s[x] = j
      BY <1>1, <1>3, <2>1 DEF Leads
    <3> QED BY <1>1, <2>1, <3>1
  <2>2. CASE y = Len(s) + 1
    <3>1. j \in ToSet(s)
      BY <1>1, <1>3, <2>2
    <3>2. PICK x \in 1..Len(s) : s[x] = j
      BY <1>1, <3>1 DEF ToSet
    <3>3. x \in 1..(y - 1) /\ a[x] = j
      BY <1>1, <2>2, <3>2
    <3> QED BY <3>3
  <2> QED BY <1>1, <2>1, <2>2
<1> QED BY <1>1, <1>2, <1>3 DEF a

\* The first one goes.
LEMMA TailEffect ==
  ASSUME NEW T, NEW s \in Seq(T), s # << >>
  PROVE  /\ Head(s) \in T /\ Head(s) \in ToSet(s) /\ Tail(s) \in Seq(T)
         /\ ToSet(Tail(s)) \subseteq ToSet(s)
         /\ \A j, i : Leads(j, i, s) => Head(s) # i /\ (Head(s) # j => Leads(j, i, Tail(s)))
<1> DEFINE t == Tail(s)
<1>1. /\ t \in Seq(T) /\ Len(s) \in Nat \ {0} /\ DOMAIN s = 1..Len(s) /\ DOMAIN t = 1..(Len(s) - 1)
      /\ Head(s) = s[1] /\ \A k \in 1..(Len(s) - 1) : t[k] = s[k + 1]
  <2>1. Len(s) \in Nat /\ Len(s) # 0
    BY LenProperties, EmptySeq
  <2> QED BY <2>1, HeadTailProperties, LenProperties, ElementOfSeq
<1>2. s[1] \in T /\ s[1] \in ToSet(s)
  <2>1. 1 \in 1..Len(s)
    BY <1>1
  <2> QED BY <1>1, <2>1, ElementOfSeq DEF ToSet
<1> HIDE DEF t
<1>3. ASSUME NEW x \in ToSet(t) PROVE x \in ToSet(s)
  <2>1. PICK k \in 1..(Len(s) - 1) : t[k] = x
    BY <1>1 DEF ToSet
  <2>2. k + 1 \in 1..Len(s) /\ s[k + 1] = x
    BY <1>1, <2>1
  <2> QED BY <1>1, <2>2 DEF ToSet
<1>4. ASSUME NEW j, NEW i, Leads(j, i, s) PROVE s[1] # i /\ (s[1] # j => Leads(j, i, t))
  <2>1. s[1] # i
    <3>1. 1 \in 1..Len(s) /\ 1..(1 - 1) = {}
      BY <1>1
    <3> QED BY <1>1, <1>4, <3>1 DEF Leads
  <2>2. ASSUME s[1] # j, NEW y \in 1..(Len(s) - 1), t[y] = i PROVE \E x \in 1..(y - 1) : t[x] = j
    <3>1. y + 1 \in 1..Len(s) /\ s[y + 1] = i
      BY <1>1, <2>2
    <3>2. PICK x \in 1..((y + 1) - 1) : s[x] = j
      BY <1>1, <1>4, <3>1 DEF Leads
    <3>3. x # 1 /\ x \in 1..y
      BY <1>1, <2>2, <3>2
    <3>4. x - 1 \in 1..(y - 1) /\ x - 1 \in 1..(Len(s) - 1) /\ t[x - 1] = s[(x - 1) + 1] /\ (x - 1) + 1 = x
      BY <1>1, <3>3
    <3> QED BY <3>2, <3>4
  <2> QED BY <1>1, <2>1, <2>2 DEF Leads
<1> QED BY <1>1, <1>2, <1>3, <1>4 DEF t

-----------------------------------------------------------------------------
(* What a filter keeps.                                                    *)

\* One step of the recursion.
Filter(s, S, n, before) == IF s[n] \in S THEN Append(before, s[n]) ELSE before

\* The recursion has a solution on every initial segment, so it defines a function.
LEMMA FilteredDefined ==
  ASSUME NEW T, NEW s \in Seq(T), NEW S
  PROVE  Filtered(s, S) =
           [n \in 0..Len(s) |-> IF n = 0 THEN << >> ELSE Filter(s, S, n, Filtered(s, S)[n - 1])]
<1> DEFINE IsFilter(f, m) == f = [n \in 0..m |-> IF n = 0 THEN << >> ELSE Filter(s, S, n, f[n - 1])]
           N == {m \in Nat : \E f : IsFilter(f, m)}
<1>1. 0 \in N
  <2>1. IsFilter([n \in 0..0 |-> << >>], 0)
    OBVIOUS
  <2> QED BY <2>1
<1>2. ASSUME NEW m \in Nat, m \in N PROVE m + 1 \in N
  <2>1. PICK f : IsFilter(f, m)
    BY <1>2
  <2> DEFINE g == [n \in 0..(m + 1) |-> IF n = m + 1 THEN Filter(s, S, m + 1, f[m]) ELSE f[n]]
  <2>2. ASSUME NEW n \in 0..(m + 1) PROVE g[n] = IF n = 0 THEN << >> ELSE Filter(s, S, n, g[n - 1])
    <3> HIDE DEF Filter
    <3>1. CASE n = 0
      BY <2>1, <3>1
    <3>2. CASE n = m + 1
      BY <2>1, <3>2
    <3>3. CASE n \in 1..m
      BY <2>1, <3>3
    <3> QED BY <3>1, <3>2, <3>3
  <2>3. IsFilter(g, m + 1)
    BY <2>2 DEF g
  <2> HIDE DEF g, IsFilter
  <2> QED BY <2>3
<1>3. Len(s) \in N
  <2> HIDE DEF N
  <2> QED BY <1>1, <1>2, SetInduction, LenProperties
<1>4. \E f : IsFilter(f, Len(s))
  BY <1>3
<1> QED BY <1>4 DEF Filtered, Filter

LEMMA FilteredStep ==
  ASSUME NEW T, NEW s \in Seq(T), NEW S
  PROVE  /\ Filtered(s, S)[0] = << >>
         /\ \A n \in Nat : n + 1 <= Len(s) => Filtered(s, S)[n + 1] = Filter(s, S, n + 1, Filtered(s, S)[n])
<1> DEFINE f == Filtered(s, S)
<1>1. f = [n \in 0..Len(s) |-> IF n = 0 THEN << >> ELSE Filter(s, S, n, f[n - 1])]
  BY FilteredDefined
<1>2. Len(s) \in Nat
  BY LenProperties
<1> HIDE DEF f
<1>3. f[0] = << >>
  BY <1>1, <1>2
<1>4. ASSUME NEW n \in Nat, n + 1 <= Len(s) PROVE f[n + 1] = Filter(s, S, n + 1, f[n])
  <2>1. n + 1 \in 0..Len(s) /\ n + 1 # 0 /\ (n + 1) - 1 = n
    BY <1>4, <1>2
  <2> QED BY <1>1, <2>1
<1> QED BY <1>3, <1>4 DEF f

\* What is kept of a list: its elements in S; of two of them the one that led
\* still leads.
LEMMA KeptEffect ==
  ASSUME NEW T, NEW s \in Seq(T), NEW S
  PROVE  /\ Kept(s, S) \in Seq(T)
         /\ ToSet(Kept(s, S)) = ToSet(s) \cap S
         /\ \A j \in S : \A i : Leads(j, i, s) => Leads(j, i, Kept(s, S))
<1> DEFINE f == Filtered(s, S)
           First(n) == {s[k] : k \in 1..n} \cap S
           Good(n) == /\ f[n] \in Seq(T) /\ ToSet(f[n]) = First(n)
                      /\ \A j \in S : \A i : Leads(j, i, s) => Leads(j, i, f[n])
           N == {n \in Nat : n <= Len(s) => Good(n)}
<1>0. Len(s) \in Nat /\ DOMAIN s = 1..Len(s) /\ \A k \in 1..Len(s) : s[k] \in T
  BY LenProperties, ElementOfSeq
<1>r. f[0] = << >> /\ \A n \in Nat : n + 1 <= Len(s) => f[n + 1] = Filter(s, S, n + 1, f[n])
  BY FilteredStep
<1> HIDE DEF f
<1>1. Good(0)
  <2>1. << >> \in Seq(T) /\ ToSet(<< >>) = {} /\ First(0) = {}
    BY EmptySeq DEF ToSet
  <2>2. \A j, i : Leads(j, i, << >>)
    BY <2>1, AbsentLeads
  <2> QED BY <1>r, <2>1, <2>2
<1>2. ASSUME NEW n \in Nat, n + 1 <= Len(s), Good(n) PROVE Good(n + 1)
  <2>0. n + 1 \in 1..Len(s) /\ f[n + 1] = Filter(s, S, n + 1, f[n]) /\ s[n + 1] \in T
    BY <1>0, <1>2, <1>r
  <2>1. {s[k] : k \in 1..(n + 1)} = {s[k] : k \in 1..n} \cup {s[n + 1]}
    <3>1. 1..(n + 1) = (1..n) \cup {n + 1}
      OBVIOUS
    <3> QED BY <3>1
  <2>2. CASE s[n + 1] \in S
    <3>1. f[n + 1] = Append(f[n], s[n + 1])
      BY <2>0, <2>2 DEF Filter
    <3>2. First(n + 1) = First(n) \cup {s[n + 1]}
      BY <2>1, <2>2
    <3>3. ASSUME NEW j \in S, NEW i, Leads(j, i, s) PROVE s[n + 1] # i \/ j \in ToSet(f[n])
      <4>1. ASSUME s[n + 1] = i PROVE \E x \in 1..((n + 1) - 1) : s[x] = j
        BY <1>0, <2>0, <3>3, <4>1 DEF Leads
      <4>2. (n + 1) - 1 = n
        OBVIOUS
      <4> QED BY <1>2, <4>1, <4>2
    <3>4. /\ f[n] \in Seq(T) /\ ToSet(f[n]) = First(n)
          /\ \A j \in S : \A i : Leads(j, i, s) => Leads(j, i, f[n])
      BY <1>2
    <3> HIDE DEF First
    <3>5. f[n + 1] \in Seq(T) /\ ToSet(f[n + 1]) = First(n + 1)
      <4>1. ToSet(Append(f[n], s[n + 1])) = ToSet(f[n]) \cup {s[n + 1]} /\ Append(f[n], s[n + 1]) \in Seq(T)
        BY <2>0, <3>4, AppendEffect
      <4> QED BY <3>1, <3>2, <3>4, <4>1
    <3>6. ASSUME NEW j \in S, NEW i, Leads(j, i, s) PROVE Leads(j, i, f[n + 1])
      <4>1. Leads(j, i, f[n]) /\ (s[n + 1] # i \/ j \in ToSet(f[n]))
        BY <3>3, <3>4, <3>6
      <4>2. Leads(j, i, Append(f[n], s[n + 1]))
        BY <2>0, <3>4, <4>1, AppendEffect
      <4> QED BY <3>1, <4>2
    <3> QED BY <3>5, <3>6
  <2>3. CASE s[n + 1] \notin S
    <3>1. f[n + 1] = f[n]
      BY <2>0, <2>3 DEF Filter
    <3>2. First(n + 1) = First(n)
      BY <2>1, <2>3
    <3> HIDE DEF First
    <3> QED BY <1>2, <3>1, <3>2
  <2> QED BY <2>2, <2>3
<1> HIDE DEF Good
<1>3. 0 \in N
  BY <1>1
<1>4. ASSUME NEW n \in Nat, n \in N PROVE n + 1 \in N
  <2>1. n + 1 <= Len(s) => n <= Len(s)
    BY <1>0
  <2> QED BY <1>2, <1>4, <2>1
<1>5. Nat \subseteq N
  <2> HIDE DEF N
  <2> QED BY <1>3, <1>4, SetInduction
<1>6. Good(Len(s))
  BY <1>0, <1>5
<1>7. First(Len(s)) = ToSet(s) \cap S
  BY <1>0 DEF ToSet
<1> QED BY <1>6, <1>7 DEF Good, f, Kept

-----------------------------------------------------------------------------
(* The links.                                                              *)

LEMMA UpAppend ==
  ASSUME up \in Seq(EnvelopeState), NEW j \in Message, up' = Append(up, Envelope(j))
  PROVE  /\ up' \in Seq(EnvelopeState)
         /\ \A i : InUp(i)' <=> InUp(i) \/ i = j
         /\ \A i : OnceUp(i) /\ (i # j \/ ~InUp(i)) => OnceUp(i)'
<1>1. Envelope(j) \in EnvelopeState /\ Envelope(j).of = j
  BY DEF Envelope, EnvelopeState
<1>2. /\ up' \in Seq(EnvelopeState) /\ Len(up) \in Nat /\ DOMAIN up = 1..Len(up) /\ DOMAIN up' = 1..(Len(up) + 1)
      /\ up'[Len(up) + 1].of = j /\ \A k \in 1..Len(up) : up'[k] = up[k]
  BY <1>1, AppendProperties, LenProperties
<1>3. Len(up) + 1 \in DOMAIN up' /\ \A k \in DOMAIN up' : k \in DOMAIN up \/ k = Len(up) + 1
  BY <1>2
<1>4. ASSUME NEW i PROVE InUp(i)' <=> InUp(i) \/ i = j
  BY <1>2, <1>3 DEF InUp
<1>5. ASSUME NEW i, OnceUp(i), i # j \/ ~InUp(i) PROVE OnceUp(i)'
  BY <1>2, <1>3, <1>5 DEF OnceUp, InUp
<1> QED BY <1>2, <1>4, <1>5

LEMMA UpTail ==
  ASSUME up \in Seq(EnvelopeState), up # << >>, up' = Tail(up)
  PROVE  /\ up' \in Seq(EnvelopeState) /\ Head(up) \in EnvelopeState /\ InUp(Head(up).of)
         /\ \A i : InUp(i)' => InUp(i)
         /\ \A i : OnceUp(i) => OnceUp(i)' /\ (i = Head(up).of => ~InUp(i)')
<1>1. /\ up' \in Seq(EnvelopeState) /\ Len(up) \in Nat \ {0} /\ DOMAIN up = 1..Len(up) /\ DOMAIN up' = 1..(Len(up) - 1)
      /\ Head(up) = up[1] /\ \A k \in 1..(Len(up) - 1) : up'[k] = up[k + 1]
  <2>1. Len(up) \in Nat /\ Len(up) # 0
    BY LenProperties, EmptySeq
  <2> QED BY <2>1, HeadTailProperties, LenProperties, ElementOfSeq
<1>2. 1 \in DOMAIN up /\ \A k \in DOMAIN up' : k + 1 \in DOMAIN up /\ k + 1 # 1 /\ up'[k] = up[k + 1]
  BY <1>1
<1>3. Head(up) \in EnvelopeState /\ InUp(Head(up).of)
  BY <1>1, <1>2, ElementOfSeq DEF InUp
<1>4. ASSUME NEW i, InUp(i)' PROVE InUp(i)
  BY <1>2, <1>4 DEF InUp
<1>5. ASSUME NEW i, OnceUp(i) PROVE OnceUp(i)' /\ (i = Head(up).of => ~InUp(i)')
  <2>1. ASSUME NEW k \in DOMAIN up', NEW l \in DOMAIN up', up'[k].of = i, up'[l].of = i PROVE k = l
    <3>1. k + 1 = l + 1
      BY <1>2, <1>5, <2>1 DEF OnceUp
    <3> QED BY <1>1, <3>1
  <2>2. ASSUME i = Head(up).of, NEW k \in DOMAIN up', up'[k].of = i PROVE FALSE
    <3>1. up[1].of = i /\ up[k + 1].of = i
      BY <1>1, <1>2, <2>2
    <3> QED BY <1>2, <1>5, <3>1 DEF OnceUp
  <2> QED BY <2>1, <2>2 DEF OnceUp, InUp
<1> QED BY <1>1, <1>3, <1>4, <1>5

LEMMA UpDead ==
  ASSUME up \in Seq(EnvelopeState), NEW j, up' = Dead(up, j)
  PROVE  /\ up' \in Seq(EnvelopeState)
         /\ \A i : (InUp(i)' <=> InUp(i)) /\ (OnceUp(i)' <=> OnceUp(i))
<1>1. Len(up) \in Nat /\ DOMAIN up = 1..Len(up) /\ \A k \in DOMAIN up : up[k] \in EnvelopeState
  BY LenProperties, ElementOfSeq
<1>2. ASSUME NEW e \in EnvelopeState
      PROVE  [e EXCEPT !.live = FALSE] \in EnvelopeState /\ [e EXCEPT !.live = FALSE].of = e.of
  BY DEF EnvelopeState
<1>3. DOMAIN up' = DOMAIN up /\ \A k \in DOMAIN up : up'[k] \in EnvelopeState /\ up'[k].of = up[k].of
  BY <1>1, <1>2 DEF Dead
<1>4. up' = [k \in 1..Len(up) |-> up'[k]]
  BY <1>1 DEF Dead
<1>5. up' \in Seq(EnvelopeState)
  BY <1>1, <1>3, <1>4, SeqDef
<1>6. ASSUME NEW i PROVE (InUp(i)' <=> InUp(i)) /\ (OnceUp(i)' <=> OnceUp(i))
  BY <1>3 DEF InUp, OnceUp
<1> QED BY <1>5, <1>6

\* A message of the hub is a roster or a verdict.
IsVerdict(d, i, told) == "verdict" \in DOMAIN d /\ d.of = i /\ d.verdict = told

LEMMA AnswerShape ==
  ASSUME NEW d \in AnswerState
  PROVE  \/ d \in [on : SUBSET Member] /\ DOMAIN d = {"on"}
         \/ d \in [verdict : Verdict \ {"timeout"}, of : Message, live : BOOLEAN] /\ DOMAIN d = {"verdict", "of", "live"}
BY DEF AnswerState

LEMMA DownAppend ==
  ASSUME down \in Seq(AnswerState), NEW d \in AnswerState, down' = Append(down, d)
  PROVE  /\ down' \in Seq(AnswerState)
         /\ \A i, told : Was(i, told)' <=> Was(i, told) \/ IsVerdict(d, i, told)
<1>1. /\ down' \in Seq(AnswerState) /\ Len(down) \in Nat /\ DOMAIN down = 1..Len(down)
      /\ DOMAIN down' = 1..(Len(down) + 1)
      /\ down'[Len(down) + 1] = d /\ \A k \in 1..Len(down) : down'[k] = down[k]
  BY AppendProperties, LenProperties
<1>2. Len(down) + 1 \in DOMAIN down' /\ \A k \in DOMAIN down' : k \in DOMAIN down \/ k = Len(down) + 1
  BY <1>1
<1>3. \A k \in DOMAIN down : k \in DOMAIN down'
  BY <1>1
<1>4. ASSUME NEW i, NEW told PROVE Was(i, told)' <=> Was(i, told) \/ IsVerdict(d, i, told)
  BY <1>1, <1>2, <1>3 DEF Was, IsVerdict
<1> QED BY <1>1, <1>4

LEMMA DownTail ==
  ASSUME down \in Seq(AnswerState), down # << >>, down' = Tail(down)
  PROVE  /\ down' \in Seq(AnswerState) /\ Head(down) \in AnswerState
         /\ \A i, told : Was(i, told)' => Was(i, told)
         /\ \A i, told : IsVerdict(Head(down), i, told) => Was(i, told)
<1>1. /\ down' \in Seq(AnswerState) /\ Len(down) \in Nat \ {0} /\ DOMAIN down = 1..Len(down)
      /\ DOMAIN down' = 1..(Len(down) - 1)
      /\ Head(down) = down[1] /\ \A k \in 1..(Len(down) - 1) : down'[k] = down[k + 1]
  <2>1. Len(down) \in Nat /\ Len(down) # 0
    BY LenProperties, EmptySeq
  <2> QED BY <2>1, HeadTailProperties, LenProperties, ElementOfSeq
<1>2. 1 \in DOMAIN down /\ \A k \in DOMAIN down' : k + 1 \in DOMAIN down /\ down'[k] = down[k + 1]
  BY <1>1
<1>3. Head(down) \in AnswerState
  BY <1>1, <1>2, ElementOfSeq
<1>4. ASSUME NEW i, NEW told, Was(i, told)' PROVE Was(i, told)
  BY <1>2, <1>4 DEF Was
<1>5. ASSUME NEW i, NEW told, IsVerdict(Head(down), i, told) PROVE Was(i, told)
  BY <1>1, <1>2, <1>5 DEF Was, IsVerdict
<1> QED BY <1>1, <1>3, <1>4, <1>5

LEMMA DownDead ==
  ASSUME down \in Seq(AnswerState), NEW j, down' = Dead(down, j)
  PROVE  /\ down' \in Seq(AnswerState)
         /\ \A i, told : Was(i, told)' <=> Was(i, told)
<1>1. Len(down) \in Nat /\ DOMAIN down = 1..Len(down) /\ \A k \in DOMAIN down : down[k] \in AnswerState
  BY LenProperties, ElementOfSeq
<1>2. ASSUME NEW d \in AnswerState, "of" \in DOMAIN d
      PROVE  LET e == [d EXCEPT !.live = FALSE] IN
             /\ e \in AnswerState /\ DOMAIN e = DOMAIN d /\ e.of = d.of /\ e.verdict = d.verdict
  <2>1. d \in [verdict : Verdict \ {"timeout"}, of : Message, live : BOOLEAN]
    BY <1>2, AnswerShape
  <2> QED BY <2>1 DEF AnswerState
<1>3. /\ DOMAIN down' = DOMAIN down
      /\ \A k \in DOMAIN down :
           \/ down'[k] = down[k]
           \/ "of" \in DOMAIN down[k] /\ down'[k] = [down[k] EXCEPT !.live = FALSE]
  BY <1>1 DEF Dead
<1>4. \A k \in DOMAIN down :
        /\ down'[k] \in AnswerState
        /\ \A i, told : IsVerdict(down'[k], i, told) <=> IsVerdict(down[k], i, told)
  BY <1>1, <1>2, <1>3 DEF IsVerdict
<1>5. down' = [k \in 1..Len(down) |-> down'[k]]
  BY <1>1 DEF Dead
<1>6. down' \in Seq(AnswerState)
  BY <1>1, <1>3, <1>4, <1>5, SeqDef
<1>7. ASSUME NEW i, NEW told PROVE Was(i, told)' <=> Was(i, told)
  <2>1. Was(i, told) <=> \E k \in DOMAIN down : IsVerdict(down[k], i, told)
    BY DEF Was, IsVerdict
  <2>2. Was(i, told)' <=> \E k \in DOMAIN down' : IsVerdict(down'[k], i, told)
    BY DEF Was, IsVerdict
  <2> QED BY <1>3, <1>4, <2>1, <2>2
<1> QED BY <1>6, <1>7

LEMMA NoLinks ==
  /\ << >> \in Seq(EnvelopeState) /\ << >> \in Seq(AnswerState)
  /\ up' = << >> => \A i : ~InUp(i)' /\ OnceUp(i)'
  /\ down' = << >> => \A i, told : ~Was(i, told)'
BY EmptySeq DEF InUp, OnceUp, Was

-----------------------------------------------------------------------------
(* Type correctness.                                                       *)

LEMMA Numbers == /\ Message \subseteq Write /\ 0 \in Write /\ 0 \notin Message
                 /\ To \in [Message -> Member] /\ MaxTurns \in Nat /\ MaxTrouble \in Nat
BY RelayAssumption DEF Message, Write

LEMMA PersistedType ==
  ASSUME TypeOK, NEW w \in Write, NEW entries \in Seq(Message), Persisted(w, entries)
  PROVE  writer' \in [Write -> WriterState]
<1>1. \A x \in Write : writer[x] \in WriterState
  BY DEF TypeOK
<1>2. ASSUME NEW x \in Write, x # w PROVE [writer[x] EXCEPT !.shared = writer[x].on] \in WriterState
  BY <1>1 DEF WriterState
<1>3. [on |-> TRUE, val |-> entries, shared |-> Writing # {}] \in WriterState
  BY DEF WriterState
<1> QED BY <1>2, <1>3 DEF Persisted

LEMMA IdleIsState == Idle \in FlushState /\ NoWrite \in WriterState /\ Idle.pc = "idle" /\ ~NoWrite.on
                     /\ Idle.list = << >> /\ NoWrite.val = << >>
<1>1. << >> \in Seq(Message)
  BY EmptySeq
<1> QED BY <1>1, Numbers DEF Idle, NoWrite, FlushState, WriterState

LEMMA RenamedType ==
  ASSUME TypeOK, NEW w \in Write, Renamed(w)
  PROVE  file' \in Seq(Message) \cup {Torn} /\ writer' \in [Write -> WriterState]
<1>1. \A x \in Write : writer[x].val \in Seq(Message)
  BY DEF TypeOK, WriterState
<1> QED BY <1>1, IdleIsState DEF TypeOK, Renamed, Writing

LEMMA HoldsType ==
  ASSUME TypeOK, NEW i \in Message, Holds(i)
  PROVE  outbox' \in Seq(Message) /\ writer' \in [Write -> WriterState] /\ past' \in PastState
<1>1. outbox' \in Seq(Message)
  BY AppendEffect DEF TypeOK, Holds
<1>2. writer' \in [Write -> WriterState]
  BY <1>1, Numbers, PersistedType DEF Holds
<1>3. ToSet(outbox) \subseteq Message
  BY ElementOfSeq, LenProperties DEF TypeOK, ToSet
<1>4. {<<j, i>> : j \in {k \in ToSet(outbox) : To[k] = To[i]}} \subseteq Message \X Message
  BY <1>3
<1>5. past' \in PastState
  BY <1>4 DEF TypeOK, PastState, Holds
<1> QED BY <1>1, <1>2, <1>5

LEMMA ReloadType == ASSUME TypeOK, Reload, trouble' \in 0..MaxTrouble PROVE TypeOK'
<1>1. outbox' \in Seq(Message) /\ file' \in Seq(Message) \cup {Torn}
  <2>1. CASE file = Torn
    BY <2>1, EmptySeq DEF Reload
  <2>2. CASE file # Torn
    <3>1. Kept(file, Young) \in Seq(Message)
      BY <2>2, KeptEffect DEF TypeOK
    <3> QED BY <2>2, <3>1 DEF Reload
  <2> QED BY <2>1, <2>2
<1>2. up' \in Seq(EnvelopeState) /\ down' \in Seq(AnswerState) /\ roster' \subseteq Member /\ due' \in BOOLEAN
  BY NoLinks DEF Reload
<1>3. st' \in [Message -> Status] /\ verdict' \in [Message -> Verdict \cup {"none"}]
  BY DEF TypeOK, Reload, Status
<1>4. flush' \in FlushState /\ flush'.pc = "idle" /\ writer' \in [Write -> WriterState]
  BY IdleIsState DEF Reload
<1>5. conn' = conn /\ seen' = seen /\ turns' = turns /\ past' = past
  BY DEF Reload
<1> QED BY <1>1, <1>2, <1>3, <1>4, <1>5 DEF TypeOK

\* The part of the types that the members and the hub change.
LEMMA WorldType ==
  ASSUME TypeOK, NEW m \in Member, Connects(m) \/ Disconnects(m) \/ Noticed(m)
  PROVE  TypeOK'
<1>1. conn' \in [Member -> {"on", "dead", "off"}] /\ due' \in BOOLEAN
  BY DEF TypeOK, Connects, Disconnects, Noticed
<1>2. turns' \in 0..MaxTurns
  BY Numbers DEF TypeOK, Connects, Disconnects, Noticed, Turn
<1>3. UNCHANGED <<up, down, roster, st, verdict, outbox, flush, writer, file, seen, trouble, past>>
  BY DEF Connects, Disconnects, Noticed
<1> QED BY <1>1, <1>2, <1>3 DEF TypeOK

LEMMA TroubleType == ASSUME TypeOK, Trouble \/ trouble' = trouble PROVE trouble' \in 0..MaxTrouble
BY Numbers DEF TypeOK, Trouble

LEMMA SaysType ==
  ASSUME TypeOK, NEW v \in Verdict \ {"timeout"}, NEW e \in EnvelopeState, Says(v, e)
  PROVE  /\ down' \in Seq(AnswerState)
         /\ \A i, told : Was(i, told)' <=> Was(i, told) \/ (i = e.of /\ told = v)
<1> DEFINE d == [verdict |-> v, of |-> e.of, live |-> e.live]
<1>1. d \in AnswerState
  BY DEF AnswerState, EnvelopeState
<1>2. \A i, told : IsVerdict(d, i, told) <=> (i = e.of /\ told = v)
  BY DEF IsVerdict
<1>3. down \in Seq(AnswerState) /\ down' = Append(down, d)
  BY DEF TypeOK, Says
<1> HIDE DEF d
<1> QED BY <1>1, <1>2, <1>3, DownAppend

\* The member is shown the message, or its connection is dead.
HubForwards(i) ==
  \/ seen' = seen /\ past' = [past EXCEPT !.doubt = @ \cup {i}]
  \/ seen' = [seen EXCEPT ![To[i]] = Append(@, i)] /\ past' = past

\* What the hub does with an envelope: a verdict, and the message shown or a doubt.
LEMMA ForwardEffect ==
  ASSUME TypeOK, Forward
  PROVE  /\ up # << >> /\ up' = Tail(up) /\ Head(up) \in EnvelopeState
         /\ UNCHANGED <<conn, due, roster, st, verdict, outbox, flush, writer, file, turns>>
         /\ trouble' \in 0..MaxTrouble
         /\ LET i == Head(up).of IN
            /\ i \in Message
            /\ \E v \in {"error", "held", "ack"} :
                 /\ Says(v, Head(up))
                 /\ v # "ack" => seen' = seen /\ past' = past
                 /\ v = "ack" => HubForwards(i)
<1> DEFINE e == Head(up)
           i == Head(up).of
<1>1. up # << >> /\ up' = Tail(up)
  BY DEF Forward
<1>2. Head(up) \in EnvelopeState
  BY <1>1, TailEffect DEF TypeOK
<1>3. Head(up).of \in Message
  BY <1>2 DEF EnvelopeState
<1>4. trouble' \in 0..MaxTrouble
  <2>1. Trouble \/ trouble' = trouble
    BY DEF Forward
  <2> QED BY <2>1, TroubleType
<1>5. UNCHANGED <<conn, due, roster, st, verdict, outbox, flush, writer, file, turns>>
  BY DEF Forward
<1>6. \/ Says("error", e) /\ seen' = seen /\ past' = past
      \/ Says("held", e) /\ seen' = seen /\ past' = past
      \/ Says("ack", e) /\ seen' = seen /\ past' = [past EXCEPT !.doubt = @ \cup {i}]
      \/ Says("ack", e) /\ seen' = [seen EXCEPT ![To[i]] = Append(@, i)] /\ past' = past
  BY DEF Forward
<1> HIDE DEF e, i
<1>7. \E v \in {"error", "held", "ack"} :
        /\ Says(v, e)
        /\ v # "ack" => seen' = seen /\ past' = past
        /\ v = "ack" => HubForwards(i)
  BY <1>6 DEF HubForwards
<1> QED BY <1>1, <1>2, <1>3, <1>4, <1>5, <1>7 DEF e, i

LEMMA ForwardType == ASSUME TypeOK, Forward PROVE TypeOK'
<1> DEFINE i == Head(up).of
<1>1. /\ up # << >> /\ up' = Tail(up) /\ Head(up) \in EnvelopeState
      /\ UNCHANGED <<conn, due, roster, st, verdict, outbox, flush, writer, file, turns>>
      /\ trouble' \in 0..MaxTrouble /\ i \in Message
  BY ForwardEffect
<1>2. PICK v \in {"error", "held", "ack"} :
        /\ Says(v, Head(up))
        /\ v # "ack" => seen' = seen /\ past' = past
        /\ v = "ack" => HubForwards(i)
  BY ForwardEffect
<1>3. down' \in Seq(AnswerState)
  <2>1. v \in Verdict \ {"timeout"}
    BY DEF Verdict
  <2> QED BY <1>1, <1>2, <2>1, SaysType
<1>4. up' \in Seq(EnvelopeState)
  BY <1>1, UpTail DEF TypeOK
<1> HIDE DEF i
<1>5. seen' \in [Member -> Seq(Message)] /\ past' \in PastState
  <2>1. seen \in [Member -> Seq(Message)] /\ past \in PastState
    BY DEF TypeOK
  <2>2. CASE v # "ack"
    BY <1>2, <2>1, <2>2
  <2>3. CASE v = "ack" /\ seen' = seen /\ past' = [past EXCEPT !.doubt = @ \cup {i}]
    BY <1>1, <2>1, <2>3 DEF PastState
  <2>4. CASE v = "ack" /\ seen' = [seen EXCEPT ![To[i]] = Append(@, i)] /\ past' = past
    <3>1. To[i] \in Member
      BY <1>1, Numbers
    <3>2. Append(seen[To[i]], i) \in Seq(Message)
      BY <1>1, <2>1, <3>1, AppendEffect
    <3> QED BY <2>1, <2>4, <3>1, <3>2
  <2> QED BY <1>2, <2>2, <2>3, <2>4 DEF HubForwards
<1> QED BY <1>1, <1>3, <1>4, <1>5 DEF TypeOK

\* Changes of the flush's own record.
LEMMA FlushFields ==
  ASSUME flush \in FlushState, NEW pc \in {"idle", "next", "sweep", "wait", "noted"}, NEW list \in Seq(Message),
         NEW away \in SUBSET Member, NEW cur \in Write
  PROVE  LET f == [flush EXCEPT !.pc = pc, !.list = list, !.away = away, !.cur = cur] IN
         /\ f \in FlushState /\ f.pc = pc /\ f.list = list /\ f.away = away /\ f.cur = cur
BY DEF FlushState

\* A roster: the directory, and the start of a flush with what is not too old.
LEMMA OnRosterEffect ==
  ASSUME TypeOK, OnRoster
  PROVE  /\ down # << >> /\ down' = Tail(down) /\ roster' \subseteq Member
         /\ UNCHANGED <<conn, due, up, st, verdict, file, seen, turns, trouble>>
         /\ past' \in PastState /\ past'.doubt = past.doubt /\ past'.ended = past.ended /\ past'.ahead = past.ahead
         /\ past.missed => past'.missed
         /\ past.raced => past'.raced
         /\ flush.pc # "idle" => past'.missed
         /\ \/ flush.pc # "idle" /\ UNCHANGED <<outbox, writer, flush>>
            \/ outbox = << >> /\ UNCHANGED <<outbox, writer, flush>>
            \/ /\ outbox' = Kept(outbox, Young)
               /\ flush' \in FlushState /\ flush'.pc \in {"next", "sweep"} /\ flush'.list = outbox'
               /\ flush.pc = "idle" /\ flush'.away = {}
               /\ \/ outbox' = outbox /\ writer' = writer
                  \/ Persisted(0, outbox') /\ (Writing # {} => past'.raced)
<1>0. past \in PastState /\ flush \in FlushState /\ outbox \in Seq(Message) /\ down \in Seq(AnswerState)
  BY DEF TypeOK
<1>1. down # << >> /\ down' = Tail(down) /\ UNCHANGED <<conn, due, up, st, verdict, file, seen, turns, trouble>>
  BY DEF OnRoster
<1>2. roster' \subseteq Member
  <2>1. Head(down) \in AnswerState /\ "on" \in DOMAIN Head(down) /\ roster' = Head(down).on
    BY <1>0, <1>1, TailEffect DEF OnRoster
  <2>2. Head(down) \in [on : SUBSET Member]
    BY <2>1, AnswerShape
  <2> QED BY <2>1, <2>2
<1>3. CASE ~MayFlush
  <2>1. UNCHANGED <<outbox, writer, flush>> /\ past' = [past EXCEPT !.missed = @ \/ Misses]
    BY <1>3 DEF OnRoster
  <2>2. Misses \in BOOLEAN /\ (flush.pc # "idle" => Misses)
    BY DEF Misses
  <2>3. /\ past' \in PastState /\ past'.doubt = past.doubt /\ past'.ended = past.ended /\ past'.ahead = past.ahead
        /\ past'.missed = (past.missed \/ Misses) /\ past'.raced = past.raced
    BY <1>0, <2>1, <2>2 DEF PastState
  <2>4. flush.pc # "idle" \/ outbox = << >>
    BY <1>3 DEF MayFlush
  <2> QED BY <1>1, <1>2, <2>1, <2>2, <2>3, <2>4
<1>4. CASE MayFlush
  <2> DEFINE kept == Kept(outbox, Young)
             hit == kept # outbox /\ Writing # {}
  <2>1. /\ outbox' = kept
        /\ IF kept = outbox THEN UNCHANGED writer ELSE Persisted(0, kept)
        /\ flush' = [Idle EXCEPT !.pc = IF kept = outbox THEN "next" ELSE "sweep", !.list = kept]
        /\ past' = [past EXCEPT !.raced = @ \/ hit, !.missed = @ \/ Misses]
    BY <1>4 DEF OnRoster
  <2>2. kept \in Seq(Message) /\ hit \in BOOLEAN /\ Misses \in BOOLEAN
    BY <1>0, KeptEffect DEF Misses
  <2> HIDE DEF kept
  <2>3. /\ flush' \in FlushState /\ flush'.pc \in {"next", "sweep"} /\ flush'.list = kept /\ flush'.away = {}
    BY <2>1, <2>2, Numbers DEF Idle, FlushState
  <2>4. flush.pc = "idle"
    BY <1>4 DEF MayFlush
  <2>5. /\ past' \in PastState /\ past'.doubt = past.doubt /\ past'.ended = past.ended /\ past'.ahead = past.ahead
        /\ past'.missed = (past.missed \/ Misses) /\ past'.raced = (past.raced \/ hit)
    <3> HIDE DEF hit
    <3> QED BY <1>0, <2>1, <2>2 DEF PastState
  <2>6. (outbox' = outbox /\ writer' = writer) \/ (Persisted(0, outbox') /\ (Writing # {} => past'.raced))
    <3>1. CASE kept = outbox
      BY <2>1, <3>1
    <3>2. CASE kept # outbox
      <4>1. Persisted(0, outbox') /\ outbox' = kept
        BY <2>1, <3>2
      <4>2. Writing # {} => past'.raced
        BY <2>5, <3>2
      <4> QED BY <4>1, <4>2
    <3> QED BY <3>1, <3>2
  <2> QED BY <1>1, <1>2, <2>1, <2>3, <2>4, <2>5, <2>6 DEF kept
<1> QED BY <1>3, <1>4

-----------------------------------------------------------------------------
(* The writes of the outbox.                                               *)

\* The writers as they were, but for w, which has the new list to write.
LEMMA PersistedEffect ==
  ASSUME TypeOK, NEW w \in Write, NEW entries \in Seq(Message), Persisted(w, entries)
  PROVE  /\ writer' \in [Write -> WriterState]
         /\ writer'[w].on /\ writer'[w].val = entries /\ (Writing = {} => ~writer'[w].shared)
         /\ \A x \in Write : x # w => writer'[x].on = writer[x].on /\ writer'[x].val = writer[x].val
<1>1. ASSUME NEW x \in Write, x # w
      PROVE  LET r == [writer[x] EXCEPT !.shared = writer[x].on] IN r.on = writer[x].on /\ r.val = writer[x].val
  BY DEF TypeOK, WriterState
<1>2. /\ writer'[w] = [on |-> TRUE, val |-> entries, shared |-> Writing # {}]
      /\ \A x \in Write : x # w => writer'[x] = [writer[x] EXCEPT !.shared = writer[x].on]
  BY DEF Persisted
<1>3. writer' \in [Write -> WriterState]
  BY PersistedType
<1>4. writer'[w].on /\ writer'[w].val = entries /\ (Writing = {} => ~writer'[w].shared)
  <2>1. writer'[w].on = TRUE /\ writer'[w].val = entries /\ writer'[w].shared = (Writing # {})
    BY <1>2
  <2> QED BY <2>1
<1>5. \A x \in Write : x # w => writer'[x].on = writer[x].on /\ writer'[x].val = writer[x].val
  BY <1>1, <1>2
<1> QED BY <1>3, <1>4, <1>5

LEMMA PersistedOne ==
  ASSUME TypeOK, OneWriter, NEW w \in Write, outbox' \in Seq(Message), Persisted(w, outbox'), file' = file,
         ~past'.raced => ~past.raced /\ Writing = {}
  PROVE  OneWriter'
<1> SUFFICES ASSUME ~past'.raced
             PROVE  /\ file' # Torn
                    /\ \A x \in Write : writer'[x].on => writer'[x].val = outbox' /\ ~writer'[x].shared /\ Writing' = {x}
  BY DEF OneWriter
<1>1. file # Torn /\ \A x \in Write : ~writer[x].on
  BY DEF OneWriter, Writing
<1>2. /\ writer'[w].on /\ writer'[w].val = outbox' /\ ~writer'[w].shared
      /\ \A x \in Write : x # w => ~writer'[x].on
  <2>1. /\ writer'[w].on /\ writer'[w].val = outbox' /\ (Writing = {} => ~writer'[w].shared)
        /\ \A x \in Write : x # w => writer'[x].on = writer[x].on /\ writer'[x].val = writer[x].val
    BY PersistedEffect
  <2> QED BY <1>1, <2>1
<1>3. Writing' = {w}
  BY <1>2 DEF Writing
<1> QED BY <1>1, <1>2, <1>3

\* Messages that were written nowhere still are not.
LEMMA PersistedVals ==
  ASSUME TypeOK, NEW w \in Write, NEW entries \in Seq(Message), Persisted(w, entries),
         NEW k, k \notin ToSet(entries), \A x \in Write : k \notin ToSet(writer[x].val)
  PROVE  \A x \in Write : k \notin ToSet(writer'[x].val)
<1>1. writer'[w].val = entries /\ \A x \in Write : x # w => writer'[x].val = writer[x].val
  BY PersistedEffect
<1> QED BY <1>1

LEMMA TornIsNoList == Torn \notin Seq(Message) /\ \A i \in Message : i \notin ToSet(Torn)
<1>1. DOMAIN Torn = 1..1 /\ Torn[1] = 0 /\ 0 \notin Message
  BY Numbers DEF Torn
<1>2. Torn \notin Seq(Message)
  <2>1. ASSUME Torn \in Seq(Message) PROVE FALSE
    <3>1. 1 \in 1..Len(Torn)
      BY <1>1, <2>1, LenProperties
    <3> QED BY <1>1, <2>1, <3>1, ElementOfSeq
  <2> QED BY <2>1
<1>3. ASSUME NEW i \in Message, i \in ToSet(Torn) PROVE FALSE
  BY <1>1, <1>3 DEF ToSet
<1> QED BY <1>2, <1>3

\* The end of a write.
LEMMA RenamedEffect ==
  ASSUME TypeOK, NEW w \in Write, Renamed(w) \/ (Throws(w) /\ file' = file)
  PROVE  /\ writer[w].on /\ file' \in Seq(Message) \cup {Torn} /\ writer' \in [Write -> WriterState]
         /\ \A x \in Write : writer'[x].on => x # w /\ writer[x].on
         /\ \A k \in Message : k \notin ToSet(file) /\ (\A x \in Write : k \notin ToSet(writer[x].val)) =>
              k \notin ToSet(file') /\ \A x \in Write : k \notin ToSet(writer'[x].val)
         /\ OneWriter /\ ~past.raced => file' = outbox /\ Writing' = {}
<1>1. writer[w].on /\ writer' = [writer EXCEPT ![w] = NoWrite]
  BY DEF Renamed, Throws
<1>2. writer \in [Write -> WriterState] /\ \A x \in Write : writer[x].val \in Seq(Message)
  BY DEF TypeOK, WriterState
<1>3. file' \in {file, Torn} \cup {writer[x].val : x \in Write}
  BY DEF Renamed, Throws, Writing
<1>4. file' \in Seq(Message) \cup {Torn}
  BY <1>2, <1>3 DEF TypeOK
<1>5. writer' \in [Write -> WriterState] /\ writer'[w] = NoWrite /\ \A x \in Write : x # w => writer'[x] = writer[x]
  BY <1>1, <1>2, IdleIsState
<1>6. \A x \in Write : writer'[x].on => x # w /\ writer[x].on
  BY <1>5, IdleIsState
<1>7. ASSUME NEW k \in Message, k \notin ToSet(file), \A x \in Write : k \notin ToSet(writer[x].val)
      PROVE  k \notin ToSet(file') /\ \A x \in Write : k \notin ToSet(writer'[x].val)
  <2>1. k \notin ToSet(file')
    BY <1>3, <1>7, TornIsNoList
  <2>2. k \notin ToSet(NoWrite.val)
    BY IdleIsState DEF ToSet
  <2> QED BY <1>5, <1>7, <2>1, <2>2
<1>8. ASSUME OneWriter, ~past.raced PROVE file' = outbox /\ Writing' = {}
  <2>1. writer[w].val = outbox /\ ~writer[w].shared /\ Writing = {w}
    BY <1>1, <1>8 DEF OneWriter
  <2>2. file' = outbox
    BY <2>1 DEF Renamed, Throws
  <2>3. \A x \in Write : ~writer'[x].on
    BY <1>6, <2>1 DEF Writing
  <2> QED BY <2>2, <2>3 DEF Writing
<1> QED BY <1>1, <1>4, <1>5, <1>6, <1>7, <1>8

LEMMA RenamedOne ==
  ASSUME TypeOK, OneWriter, NEW w \in Write, Renamed(w) \/ (Throws(w) /\ file' = file), outbox' = outbox, past' = past
  PROVE  OneWriter'
<1> SUFFICES ASSUME ~past.raced PROVE file' # Torn /\ \A x \in Write : ~writer'[x].on
  BY DEF OneWriter
<1>1. file' = outbox /\ Writing' = {}
  BY RenamedEffect
<1> QED BY <1>1, TornIsNoList DEF TypeOK, Writing

-----------------------------------------------------------------------------
(* Steps that only take from the links, or leave them as they are.         *)

LEMMA LessUnderWay ==
  ASSUME RelayInv, TypeOK',
         roster' = roster, st' = st, verdict' = verdict, outbox' = outbox, flush' = flush,
         writer' = writer, file' = file, seen' = seen, past' = past,
         \A i : (InUp(i)' => InUp(i)) /\ (OnceUp(i) => OnceUp(i)'),
         \A i, told : Was(i, told)' => Was(i, told)
  PROVE  RelayInv'
<1>1. AckMeansShown'
  BY DEF RelayInv, AckMeansShown, Shown
<1>2. OneWriter'
  BY DEF RelayInv, OneWriter, Writing
<1>3. AddsWrite' /\ QueuedIsHeld'
  BY DEF RelayInv, AddsWrite, QueuedIsHeld, Shown, Expired
<1>4. FirstTry'
  BY DEF RelayInv, FirstTry, Shown
<1>5. OrderKept'
  BY DEF RelayInv, OrderKept, Behind, Leads, Shown
<1> QED BY <1>1, <1>2, <1>3, <1>4, <1>5 DEF RelayInv

LEMMA WorldKeeps ==
  ASSUME RelayInv, NEW m \in Member, Connects(m) \/ Disconnects(m) \/ Noticed(m)
  PROVE  RelayInv'
<1>1. up' = up /\ down' = down
  BY DEF Connects, Disconnects, Noticed
<1>2. /\ roster' = roster /\ st' = st /\ verdict' = verdict /\ outbox' = outbox /\ flush' = flush
      /\ writer' = writer /\ file' = file /\ seen' = seen /\ past' = past
  BY DEF Connects, Disconnects, Noticed
<1>3. /\ \A i : (InUp(i)' => InUp(i)) /\ (OnceUp(i) => OnceUp(i)')
      /\ \A i, told : Was(i, told)' => Was(i, told)
  BY <1>1 DEF InUp, OnceUp, Was
<1>4. TypeOK'
  BY WorldType DEF RelayInv
<1> QED BY <1>2, <1>3, <1>4, LessUnderWay

LEMMA BroadcastKeeps == ASSUME RelayInv, BroadcastRoster PROVE RelayInv'
<1> DEFINE d == [on |-> {m \in Member : conn[m] # "off"}]
<1>1. /\ up' = up /\ down' = Append(down, d) /\ due' = FALSE /\ conn' = conn /\ trouble' = trouble /\ turns' = turns
      /\ roster' = roster /\ st' = st /\ verdict' = verdict /\ outbox' = outbox /\ flush' = flush
      /\ writer' = writer /\ file' = file /\ seen' = seen /\ past' = past
  BY DEF BroadcastRoster
<1>2. d \in AnswerState /\ \A i, told : ~IsVerdict(d, i, told)
  BY DEF AnswerState, IsVerdict
<1> HIDE DEF d
<1>3. down \in Seq(AnswerState)
  BY DEF RelayInv, TypeOK
<1>4. down' \in Seq(AnswerState) /\ \A i, told : Was(i, told)' => Was(i, told)
  BY <1>1, <1>2, <1>3, DownAppend
<1>5. \A i : (InUp(i)' => InUp(i)) /\ (OnceUp(i) => OnceUp(i)')
  BY <1>1 DEF InUp, OnceUp
<1>6. TypeOK'
  BY <1>1, <1>4 DEF RelayInv, TypeOK
<1> QED BY <1>1, <1>4, <1>5, <1>6, LessUnderWay

LEMMA LinkBreaksKeeps == ASSUME RelayInv, LinkBreaks PROVE RelayInv'
<1>1. /\ up' = << >> /\ down' = << >> /\ due' = TRUE /\ conn' = conn /\ turns' = turns
      /\ roster' = roster /\ st' = st /\ verdict' = verdict /\ outbox' = outbox /\ flush' = flush
      /\ writer' = writer /\ file' = file /\ seen' = seen /\ past' = past
  BY DEF LinkBreaks
<1>2. trouble' \in 0..MaxTrouble
  BY TroubleType DEF RelayInv, LinkBreaks
<1>3. TypeOK'
  BY <1>1, <1>2, NoLinks DEF RelayInv, TypeOK
<1>4. /\ \A i : (InUp(i)' => InUp(i)) /\ (OnceUp(i) => OnceUp(i)')
      /\ \A i, told : Was(i, told)' => Was(i, told)
  BY <1>1, NoLinks
<1> QED BY <1>1, <1>3, <1>4, LessUnderWay

LEMMA StutterKeeps == ASSUME RelayInv, UNCHANGED vars PROVE RelayInv'
<1>1. /\ up' = up /\ down' = down /\ due' = due /\ conn' = conn /\ turns' = turns /\ trouble' = trouble
      /\ roster' = roster /\ st' = st /\ verdict' = verdict /\ outbox' = outbox /\ flush' = flush
      /\ writer' = writer /\ file' = file /\ seen' = seen /\ past' = past
  BY DEF vars
<1>2. /\ \A i : (InUp(i)' => InUp(i)) /\ (OnceUp(i) => OnceUp(i)')
      /\ \A i, told : Was(i, told)' => Was(i, told)
  BY <1>1 DEF InUp, OnceUp, Was
<1>3. TypeOK'
  BY <1>1 DEF RelayInv, TypeOK
<1> QED BY <1>1, <1>2, <1>3, LessUnderWay

LEMMA AgesKeeps == ASSUME RelayInv, NEW k \in Message, Ages(k) PROVE RelayInv'
<1>1. /\ up' = up /\ down' = down /\ due' = due /\ conn' = conn /\ turns' = turns
      /\ roster' = roster /\ st' = st /\ verdict' = verdict /\ outbox' = outbox /\ flush' = flush
      /\ writer' = writer /\ file' = file /\ seen' = seen
  BY DEF Ages
<1>2. /\ past' \in PastState /\ past'.doubt = past.doubt /\ past'.ahead = past.ahead
      /\ past'.raced = past.raced /\ past'.missed = past.missed /\ past.ended \subseteq past'.ended
  <2>1. past' = [past EXCEPT !.ended = @ \cup {k}] /\ past \in PastState
    BY DEF RelayInv, TypeOK, Ages
  <2> QED BY <2>1 DEF PastState
<1>3. trouble' \in 0..MaxTrouble
  BY TroubleType DEF RelayInv, Ages
<1>4. TypeOK'
  BY <1>1, <1>2, <1>3 DEF RelayInv, TypeOK
<1>5. AckMeansShown'
  BY <1>1, <1>2 DEF RelayInv, AckMeansShown, Shown, Was
<1>6. OneWriter'
  BY <1>1, <1>2 DEF RelayInv, OneWriter, Writing
<1>7. AddsWrite' /\ QueuedIsHeld'
  BY <1>1, <1>2 DEF RelayInv, AddsWrite, QueuedIsHeld, Shown, Expired
<1>8. FirstTry'
  BY <1>1 DEF RelayInv, FirstTry, Shown, InUp, OnceUp, Was
<1>9. OrderKept'
  <2>1. \A j, i \in Message : Behind(j, i) => Behind(j, i)'
    BY <1>1 DEF Behind, Leads, InUp
  <2>2. \A j, i \in Message : Leads(j, i, seen'[To[i]]) <=> Leads(j, i, seen[To[i]])
    BY <1>1
  <2>3. \A j : Shown(j)' <=> Shown(j)
    BY <1>1 DEF Shown
  <2> QED BY <1>1, <1>2, <2>1, <2>2, <2>3 DEF RelayInv, OrderKept
<1> QED BY <1>4, <1>5, <1>6, <1>7, <1>8, <1>9 DEF RelayInv

-----------------------------------------------------------------------------
(* The hub forwards.                                                       *)

\* Only the message that is forwarded may be shown.
LEMMA HubForwardsEffect ==
  ASSUME TypeOK, NEW i \in Message, HubForwards(i) \/ (seen' = seen /\ past' = past)
  PROVE  /\ past'.ahead = past.ahead /\ past'.ended = past.ended /\ past'.raced = past.raced
         /\ past'.missed = past.missed /\ past.doubt \subseteq past'.doubt
         /\ HubForwards(i) => i \in past'.doubt \/ Shown(i)'
         /\ \A k \in Message : Shown(k) => Shown(k)'
         /\ \A k \in Message : Shown(k)' => Shown(k) \/ k = i
         /\ \A j, k \in Message : Leads(j, k, seen[To[k]]) /\ To[j] = To[k] /\ (k = i => Shown(j)) =>
              Leads(j, k, seen'[To[k]])
<1>1. seen \in [Member -> Seq(Message)] /\ past \in PastState /\ To \in [Message -> Member]
  BY Numbers DEF TypeOK
<1>2. CASE seen' = seen /\ past' = past
  <2>1. HubForwards(i) => i \in past'.doubt
    <3>1. ASSUME past' = [past EXCEPT !.doubt = @ \cup {i}] PROVE i \in past'.doubt
      BY <1>1, <3>1 DEF PastState
    <3>2. seen' # [seen EXCEPT ![To[i]] = Append(@, i)]
      <4>1. Append(seen[To[i]], i) # seen[To[i]]
        <5>1. seen[To[i]] \in Seq(Message)
          BY <1>1
        <5>2. Len(Append(seen[To[i]], i)) = Len(seen[To[i]]) + 1 /\ Len(seen[To[i]]) \in Nat
          BY <5>1, AppendProperties, LenProperties
        <5> QED BY <5>2
      <4> QED BY <1>1, <1>2, <4>1
    <3> QED BY <3>1, <3>2 DEF HubForwards
  <2> QED BY <1>2, <2>1 DEF Shown
<1>3. CASE seen' = seen /\ past' = [past EXCEPT !.doubt = @ \cup {i}]
  <2>1. /\ past'.ahead = past.ahead /\ past'.ended = past.ended /\ past'.raced = past.raced
        /\ past'.missed = past.missed /\ past.doubt \subseteq past'.doubt /\ i \in past'.doubt
    BY <1>1, <1>3 DEF PastState
  <2> QED BY <1>3, <2>1 DEF Shown
<1>4. CASE seen' = [seen EXCEPT ![To[i]] = Append(@, i)] /\ past' = past
  <2>1. To[i] \in Member /\ seen[To[i]] \in Seq(Message)
    BY <1>1
  <2>2. /\ seen'[To[i]] = Append(seen[To[i]], i)
        /\ \A m \in Member : m # To[i] => seen'[m] = seen[m]
    BY <1>1, <1>4, <2>1
  <2>3. /\ ToSet(seen'[To[i]]) = ToSet(seen[To[i]]) \cup {i}
        /\ \A j, k : Leads(j, k, seen[To[i]]) /\ (i # k \/ j \in ToSet(seen[To[i]])) => Leads(j, k, seen'[To[i]])
    BY <2>1, <2>2, AppendEffect
  <2>4. Shown(i)'
    BY <2>3 DEF Shown
  <2>5. ASSUME NEW k \in Message PROVE (Shown(k) => Shown(k)') /\ (Shown(k)' => Shown(k) \/ k = i)
    <3>1. To[k] \in Member
      BY <1>1
    <3>2. CASE To[k] = To[i]
      BY <2>3, <3>2 DEF Shown
    <3>3. CASE To[k] # To[i]
      BY <2>2, <3>1, <3>3 DEF Shown
    <3> QED BY <3>2, <3>3
  <2>6. ASSUME NEW j \in Message, NEW k \in Message, Leads(j, k, seen[To[k]]), To[j] = To[k], k = i => Shown(j)
        PROVE  Leads(j, k, seen'[To[k]])
    <3>1. To[k] \in Member
      BY <1>1
    <3>2. CASE To[k] = To[i]
      <4>1. i # k \/ j \in ToSet(seen[To[i]])
        BY <2>6, <3>2 DEF Shown
      <4>2. Leads(j, k, seen[To[i]])
        BY <2>6, <3>2
      <4>3. Leads(j, k, seen'[To[i]])
        BY <2>3, <4>1, <4>2
      <4> QED BY <3>2, <4>3
    <3>3. CASE To[k] # To[i]
      BY <2>2, <2>6, <3>1, <3>3
    <3> QED BY <3>2, <3>3
  <2> QED BY <1>4, <2>4, <2>5, <2>6
<1> QED BY <1>2, <1>3, <1>4 DEF HubForwards

\* A verdict of the hub, and with an ack the message shown, or in doubt.
LEMMA ForwardKeeps == ASSUME RelayInv, Forward PROVE RelayInv'
<1>0. TypeOK /\ AckMeansShown /\ OneWriter /\ AddsWrite /\ QueuedIsHeld /\ FirstTry /\ OrderKept
  BY DEF RelayInv
<1>i. PICK i \in Message : i = Head(up).of
  BY <1>0, ForwardEffect
<1>1. /\ up # << >> /\ up' = Tail(up) /\ Head(up) \in EnvelopeState
      /\ UNCHANGED <<conn, due, roster, st, verdict, outbox, flush, writer, file, turns>>
  BY <1>0, ForwardEffect
<1>2. PICK v \in {"error", "held", "ack"} :
        /\ Says(v, Head(up))
        /\ v # "ack" => seen' = seen /\ past' = past
        /\ v = "ack" => HubForwards(i)
  BY <1>i, <1>0, ForwardEffect
<1>3. TypeOK'
  BY <1>0, ForwardType
<1>4. \A k, told : Was(k, told)' <=> Was(k, told) \/ (k = i /\ told = v)
  <2>1. v \in Verdict \ {"timeout"}
    BY DEF Verdict
  <2> QED BY <1>i, <1>0, <1>1, <1>2, <2>1, SaysType
<1>5. /\ InUp(i)
      /\ \A k : InUp(k)' => InUp(k)
      /\ \A k : OnceUp(k) => OnceUp(k)' /\ (k = i => ~InUp(k)')
  BY <1>i, <1>0, <1>1, UpTail DEF TypeOK
<1>6. HubForwards(i) \/ (seen' = seen /\ past' = past)
  BY <1>2
<1>7. /\ past'.ahead = past.ahead /\ past'.ended = past.ended /\ past'.raced = past.raced
      /\ past'.missed = past.missed /\ past.doubt \subseteq past'.doubt
      /\ HubForwards(i) => i \in past'.doubt \/ Shown(i)'
      /\ \A k \in Message : Shown(k) => Shown(k)'
      /\ \A k \in Message : Shown(k)' => Shown(k) \/ k = i
      /\ \A j, k \in Message : Leads(j, k, seen[To[k]]) /\ To[j] = To[k] /\ (k = i => Shown(j)) =>
           Leads(j, k, seen'[To[k]])
  BY <1>0, <1>1, <1>6, HubForwardsEffect
<1>8. /\ roster' = roster /\ st' = st /\ verdict' = verdict /\ outbox' = outbox /\ flush' = flush
      /\ writer' = writer /\ file' = file
  BY <1>1
<1>ack. AckMeansShown'
  <2> SUFFICES ASSUME NEW k \in Message \ past'.doubt
               PROVE  /\ Was(k, "ack")' \/ verdict[k] = "ack" \/ st[k] = "delivered" => Shown(k)'
                      /\ verdict[k] # "timeout"
    BY <1>8 DEF AckMeansShown
  <2>1. k \in Message \ past.doubt
    BY <1>7
  <2>2. Was(k, "ack")' => Was(k, "ack") \/ Shown(k)'
    <3>1. k = i /\ v = "ack" => Shown(k)'
      BY <1>2, <1>7
    <3> QED BY <1>4, <3>1
  <2>3. /\ Was(k, "ack") \/ verdict[k] = "ack" \/ st[k] = "delivered" => Shown(k)
        /\ verdict[k] # "timeout"
    BY <1>0, <2>1 DEF AckMeansShown
  <2> QED BY <1>7, <2>2, <2>3
<1>one. OneWriter'
  BY <1>0, <1>7, <1>8 DEF OneWriter, Writing
<1>adds. AddsWrite'
  BY <1>0, <1>8 DEF AddsWrite
<1>queued. QueuedIsHeld'
  BY <1>0, <1>7, <1>8 DEF QueuedIsHeld, Expired
<1>first. FirstTry'
  <2> SUFFICES ASSUME NEW k \in Message, st[k] \in {"unwritten", "sent"}
               PROVE  /\ OnceUp(k)'
                      /\ InUp(k)' => ~Shown(k)' /\ ~Was(k, "held")' /\ verdict[k] # "held"
                      /\ Was(k, "held")' \/ verdict[k] = "held" => ~Shown(k)'
                      /\ st[k] = "unwritten" => /\ ~InUp(k)' /\ ~Shown(k)' /\ verdict[k] = "none"
                                                /\ \A told \in Verdict : ~Was(k, told)'
    BY <1>0, <1>8 DEF FirstTry
  <2>1. /\ OnceUp(k)
        /\ InUp(k) => ~Shown(k) /\ ~Was(k, "held") /\ verdict[k] # "held"
        /\ Was(k, "held") \/ verdict[k] = "held" => ~Shown(k)
        /\ st[k] = "unwritten" => /\ ~InUp(k) /\ ~Shown(k) /\ verdict[k] = "none"
                                  /\ \A told \in Verdict : ~Was(k, told)
    BY <1>0 DEF FirstTry
  <2>2. CASE k = i
    <3>1. InUp(k) /\ ~InUp(k)' /\ OnceUp(k)'
      BY <1>5, <2>1, <2>2
    <3>2. Was(k, "held")' => v = "held"
      BY <1>4, <2>1, <3>1
    <3>3. v = "held" => (Shown(k)' <=> Shown(k))
      BY <1>2 DEF Shown
    <3> QED BY <2>1, <3>1, <3>2, <3>3
  <2>3. CASE k # i
    BY <1>4, <1>5, <1>7, <2>1, <2>3
  <2> QED BY <2>2, <2>3
<1>order. OrderKept'
  <2> SUFFICES ASSUME NEW j \in Message, NEW k \in Message, <<j, k>> \in past.ahead
               PROVE  /\ To[j] = To[k] /\ st[k] \notin {"unwritten", "sent"}
                      /\ ~past.missed /\ ~past.raced /\ j \notin past'.doubt \cup past.ended =>
                           Leads(j, k, seen'[To[k]]) /\ (Shown(j)' \/ Behind(j, k)')
    BY <1>7, <1>8 DEF OrderKept
  <2>1. To[j] = To[k] /\ st[k] \notin {"unwritten", "sent"}
    BY <1>0 DEF OrderKept
  <2>2. ASSUME ~past.missed, ~past.raced, j \notin past'.doubt \cup past.ended
        PROVE  Leads(j, k, seen'[To[k]]) /\ (Shown(j)' \/ Behind(j, k)')
    <3>1. Leads(j, k, seen[To[k]]) /\ (Shown(j) \/ Behind(j, k))
      BY <1>0, <1>7, <2>2 DEF OrderKept
    <3>2. k = i => Shown(j)
      BY <1>5, <3>1 DEF Behind
    <3>3. Leads(j, k, seen'[To[k]])
      BY <1>7, <2>1, <3>1, <3>2
    <3>4. Behind(j, k) => Behind(j, k)'
      BY <1>5, <1>8 DEF Behind, Leads
    <3> QED BY <1>7, <3>1, <3>3, <3>4
  <2> QED BY <2>1, <2>2
<1> QED BY <1>3, <1>ack, <1>one, <1>adds, <1>queued, <1>first, <1>order DEF RelayInv

-----------------------------------------------------------------------------
(* A message is written, and its verdict comes or does not.                *)

LEMMA SendChatKeeps == ASSUME RelayInv, NEW i \in Message, SendChat(i) PROVE RelayInv'
<1>0. TypeOK /\ AckMeansShown /\ OneWriter /\ AddsWrite /\ QueuedIsHeld /\ FirstTry /\ OrderKept
  BY DEF RelayInv
<1>1. /\ st[i] = "unwritten" /\ st' = [st EXCEPT ![i] = "sent"] /\ up' = Append(up, Envelope(i))
      /\ down' = down /\ due' = due /\ conn' = conn /\ turns' = turns /\ trouble' = trouble
      /\ roster' = roster /\ verdict' = verdict /\ outbox' = outbox /\ flush' = flush
      /\ writer' = writer /\ file' = file /\ seen' = seen /\ past' = past
  BY DEF SendChat
<1>2. /\ up' \in Seq(EnvelopeState)
      /\ \A k : InUp(k)' <=> InUp(k) \/ k = i
      /\ \A k : OnceUp(k) /\ (k # i \/ ~InUp(k)) => OnceUp(k)'
  BY <1>0, <1>1, UpAppend DEF TypeOK
<1>3. /\ st' \in [Message -> Status] /\ st'[i] = "sent" /\ \A k \in Message : k # i => st'[k] = st[k]
  BY <1>0, <1>1 DEF TypeOK, Status
<1>4. TypeOK'
  BY <1>0, <1>1, <1>2, <1>3 DEF TypeOK
<1>5. /\ \A k, told : Was(k, told)' <=> Was(k, told)
      /\ \A k : Shown(k)' <=> Shown(k)
  BY <1>1 DEF Was, Shown
<1>ack. AckMeansShown'
  BY <1>0, <1>1, <1>3, <1>5 DEF AckMeansShown
<1>one. OneWriter'
  BY <1>0, <1>1 DEF OneWriter, Writing
<1>adds. AddsWrite'
  BY <1>0, <1>1, <1>3 DEF AddsWrite
<1>queued. QueuedIsHeld'
  BY <1>0, <1>1, <1>3, <1>5 DEF QueuedIsHeld, Expired
<1>first. FirstTry'
  <2> SUFFICES ASSUME NEW k \in Message, st'[k] \in {"unwritten", "sent"}
               PROVE  /\ k \notin ToSet(outbox) \cup ToSet(flush.list) \cup ToSet(file)
                      /\ \A w \in Write : k \notin ToSet(writer[w].val)
                      /\ flush.pc = "wait" => flush.cur # k
                      /\ OnceUp(k)'
                      /\ InUp(k)' => ~Shown(k) /\ ~Was(k, "held") /\ verdict[k] # "held"
                      /\ Was(k, "held") \/ verdict[k] = "held" => ~Shown(k)
                      /\ st'[k] = "unwritten" => /\ ~InUp(k)' /\ ~Shown(k) /\ verdict[k] = "none"
                                                 /\ \A told \in Verdict : ~Was(k, told)
    BY <1>1, <1>5 DEF FirstTry
  <2>1. st[k] \in {"unwritten", "sent"}
    BY <1>1, <1>3
  <2>2. /\ k \notin ToSet(outbox) \cup ToSet(flush.list) \cup ToSet(file)
        /\ \A w \in Write : k \notin ToSet(writer[w].val)
        /\ flush.pc = "wait" => flush.cur # k
        /\ OnceUp(k)
        /\ InUp(k) => ~Shown(k) /\ ~Was(k, "held") /\ verdict[k] # "held"
        /\ Was(k, "held") \/ verdict[k] = "held" => ~Shown(k)
        /\ st[k] = "unwritten" => /\ ~InUp(k) /\ ~Shown(k) /\ verdict[k] = "none"
                                  /\ \A told \in Verdict : ~Was(k, told)
    BY <1>0, <2>1 DEF FirstTry
  <2>3. "held" \in Verdict
    BY DEF Verdict
  <2>4. CASE k = i
    BY <1>1, <1>2, <1>3, <2>2, <2>3, <2>4
  <2>5. CASE k # i
    BY <1>2, <1>3, <2>2, <2>5
  <2> QED BY <2>4, <2>5
<1>order. OrderKept'
  <2>1. ASSUME NEW j \in Message, NEW k \in Message, k # i, Behind(j, k) PROVE Behind(j, k)'
    BY <1>1, <1>2, <2>1 DEF Behind, Leads
  <2>2. \A j, k : Leads(j, k, seen'[To[k]]) <=> Leads(j, k, seen[To[k]])
    BY <1>1
  <2> QED BY <1>0, <1>1, <1>3, <1>5, <2>1, <2>2 DEF OrderKept
<1> QED BY <1>4, <1>ack, <1>one, <1>adds, <1>queued, <1>first, <1>order DEF RelayInv

\* A verdict comes: it settles the wait for the message it is about, or nothing.
LEMMA OnVerdictKeeps == ASSUME RelayInv, OnVerdict PROVE RelayInv'
<1>0. TypeOK /\ AckMeansShown /\ OneWriter /\ AddsWrite /\ QueuedIsHeld /\ FirstTry /\ OrderKept
  BY DEF RelayInv
<1>1. /\ down # << >> /\ down' = Tail(down)
      /\ up' = up /\ due' = due /\ conn' = conn /\ turns' = turns /\ trouble' = trouble
      /\ roster' = roster /\ st' = st /\ outbox' = outbox /\ flush' = flush
      /\ writer' = writer /\ file' = file /\ seen' = seen /\ past' = past
  BY DEF OnVerdict
<1>2. /\ down' \in Seq(AnswerState) /\ Head(down) \in AnswerState
      /\ \A k, told : Was(k, told)' => Was(k, told)
      /\ \A k, told : IsVerdict(Head(down), k, told) => Was(k, told)
  BY <1>0, <1>1, DownTail DEF TypeOK
<1>3. \A k \in Message : \/ verdict'[k] = verdict[k]
                         \/ /\ verdict'[k] \in Verdict \ {"timeout"}
                            /\ Waits(k) /\ Was(k, verdict'[k])
  <2>1. "verdict" \in DOMAIN Head(down)
    BY DEF OnVerdict
  <2>2. Head(down) \in [verdict : Verdict \ {"timeout"}, of : Message, live : BOOLEAN]
    BY <1>2, <2>1, AnswerShape
  <2>3. PICK d \in AnswerState : d = Head(down)
    BY <1>2
  <2>4. d.verdict \in Verdict \ {"timeout"} /\ d.of \in Message /\ IsVerdict(d, d.of, d.verdict)
    BY <2>1, <2>2, <2>3 DEF IsVerdict
  <2>5. Was(d.of, d.verdict)
    BY <1>2, <2>3, <2>4
  <2>6. verdict' = IF d.live /\ Waits(d.of) THEN [verdict EXCEPT ![d.of] = d.verdict] ELSE verdict
    BY <2>3 DEF OnVerdict
  <2>7. verdict \in [Message -> Verdict \cup {"none"}]
    BY <1>0 DEF TypeOK
  <2> QED BY <2>4, <2>5, <2>6, <2>7
<1>4. verdict' \in [Message -> Verdict \cup {"none"}]
  <2>1. verdict \in [Message -> Verdict \cup {"none"}]
    BY <1>0 DEF TypeOK
  <2>2. DOMAIN verdict' = Message /\ verdict' = [k \in Message |-> verdict'[k]]
    BY <2>1 DEF OnVerdict
  <2> QED BY <1>3, <2>1, <2>2
<1>5. TypeOK'
  BY <1>0, <1>1, <1>2, <1>4 DEF TypeOK
<1>6. /\ \A k : Shown(k)' <=> Shown(k)
      /\ \A k : (InUp(k)' <=> InUp(k)) /\ (OnceUp(k)' <=> OnceUp(k))
  BY <1>1 DEF Shown, InUp, OnceUp
<1>ack. AckMeansShown'
  BY <1>0, <1>1, <1>2, <1>3, <1>6 DEF AckMeansShown
<1>one. OneWriter'
  BY <1>0, <1>1 DEF OneWriter, Writing
<1>adds. AddsWrite'
  BY <1>0, <1>1 DEF AddsWrite
<1>queued. QueuedIsHeld'
  BY <1>0, <1>1, <1>6 DEF QueuedIsHeld, Expired
<1>first. FirstTry'
  <2> SUFFICES ASSUME NEW k \in Message, st[k] \in {"unwritten", "sent"}
               PROVE  /\ InUp(k) => ~Shown(k) /\ ~Was(k, "held")' /\ verdict'[k] # "held"
                      /\ Was(k, "held")' \/ verdict'[k] = "held" => ~Shown(k)
                      /\ st[k] = "unwritten" => /\ ~InUp(k) /\ ~Shown(k) /\ verdict'[k] = "none"
                                                /\ \A told \in Verdict : ~Was(k, told)'
    BY <1>0, <1>1, <1>6 DEF FirstTry
  <2>1. /\ flush.pc = "wait" => flush.cur # k
        /\ InUp(k) => ~Shown(k) /\ ~Was(k, "held") /\ verdict[k] # "held"
        /\ Was(k, "held") \/ verdict[k] = "held" => ~Shown(k)
        /\ st[k] = "unwritten" => /\ ~InUp(k) /\ ~Shown(k) /\ verdict[k] = "none"
                                  /\ \A told \in Verdict : ~Was(k, told)
    BY <1>0 DEF FirstTry
  <2>2. verdict'[k] = "held" => verdict[k] = "held" \/ Was(k, "held")
    BY <1>3
  <2>3. st[k] = "unwritten" => verdict'[k] = "none"
    BY <1>3, <2>1
  <2> QED BY <1>2, <2>1, <2>2, <2>3
<1>order. OrderKept'
  <2>1. ASSUME NEW j \in Message, NEW k \in Message, Behind(j, k) PROVE Behind(j, k)'
    BY <1>1, <1>6, <2>1 DEF Behind, Leads
  <2>2. \A j, k : Leads(j, k, seen'[To[k]]) <=> Leads(j, k, seen[To[k]])
    BY <1>1
  <2> QED BY <1>0, <1>1, <1>6, <2>1, <2>2 DEF OrderKept
<1> QED BY <1>5, <1>ack, <1>one, <1>adds, <1>queued, <1>first, <1>order DEF RelayInv

\* No verdict in time: whatever comes later finds nobody waiting.
LEMMA VerdictTimeoutKeeps == ASSUME RelayInv, NEW i \in Message, VerdictTimeout(i) PROVE RelayInv'
<1>0. TypeOK /\ AckMeansShown /\ OneWriter /\ AddsWrite /\ QueuedIsHeld /\ FirstTry /\ OrderKept
  BY DEF RelayInv
<1>1. /\ Waits(i) /\ up' = Dead(up, i) /\ down' = Dead(down, i)
      /\ due' = due /\ conn' = conn /\ turns' = turns
      /\ roster' = roster /\ st' = st /\ outbox' = outbox /\ flush' = flush
      /\ writer' = writer /\ file' = file /\ seen' = seen
  BY DEF VerdictTimeout
<1>2. /\ past' \in PastState /\ past'.doubt = past.doubt \cup {i} /\ past'.ahead = past.ahead
      /\ past'.raced = past.raced /\ past'.missed = past.missed /\ past'.ended = past.ended
  <2>1. past' = [past EXCEPT !.doubt = @ \cup {i}] /\ past \in PastState
    BY <1>0 DEF TypeOK, VerdictTimeout
  <2> QED BY <2>1 DEF PastState
<1>3. /\ verdict' \in [Message -> Verdict \cup {"none"}] /\ verdict'[i] = "timeout"
      /\ \A k \in Message : k # i => verdict'[k] = verdict[k]
  BY <1>0 DEF TypeOK, VerdictTimeout, Verdict
<1>4. trouble' \in 0..MaxTrouble
  <2>1. Trouble \/ trouble' = trouble
    BY DEF VerdictTimeout
  <2> QED BY <1>0, <2>1, TroubleType
<1>5. up' \in Seq(EnvelopeState) /\ \A k : (InUp(k)' <=> InUp(k)) /\ (OnceUp(k)' <=> OnceUp(k))
  BY <1>0, <1>1, UpDead DEF TypeOK
<1>6. down' \in Seq(AnswerState) /\ \A k, told : Was(k, told)' <=> Was(k, told)
  BY <1>0, <1>1, DownDead DEF TypeOK
<1>7. TypeOK'
  BY <1>0, <1>1, <1>2, <1>3, <1>4, <1>5, <1>6 DEF TypeOK
<1>8. \A k : Shown(k)' <=> Shown(k)
  BY <1>1 DEF Shown
<1>ack. AckMeansShown'
  BY <1>0, <1>1, <1>2, <1>3, <1>6, <1>8 DEF AckMeansShown
<1>one. OneWriter'
  BY <1>0, <1>1, <1>2 DEF OneWriter, Writing
<1>adds. AddsWrite'
  BY <1>0, <1>1 DEF AddsWrite
<1>queued. QueuedIsHeld'
  BY <1>0, <1>1, <1>2, <1>8 DEF QueuedIsHeld, Expired
<1>first. FirstTry'
  <2> SUFFICES ASSUME NEW k \in Message, st[k] \in {"unwritten", "sent"}
               PROVE  /\ InUp(k) => verdict'[k] # "held"
                      /\ verdict'[k] = "held" => ~Shown(k)
                      /\ st[k] = "unwritten" => verdict'[k] = "none"
    BY <1>0, <1>1, <1>5, <1>6, <1>8 DEF FirstTry
  <2>1. /\ flush.pc = "wait" => flush.cur # k
        /\ InUp(k) => verdict[k] # "held"
        /\ verdict[k] = "held" => ~Shown(k)
        /\ st[k] = "unwritten" => verdict[k] = "none"
    BY <1>0 DEF FirstTry
  <2>2. k = i => st[k] = "sent"
    BY <1>1, <2>1 DEF Waits
  <2> QED BY <1>3, <2>1, <2>2
<1>order. OrderKept'
  <2>1. ASSUME NEW j \in Message, NEW k \in Message, Behind(j, k) PROVE Behind(j, k)'
    BY <1>1, <1>5, <2>1 DEF Behind, Leads
  <2>2. \A j, k : Leads(j, k, seen'[To[k]]) <=> Leads(j, k, seen[To[k]])
    BY <1>1
  <2> QED BY <1>0, <1>1, <1>2, <1>8, <2>1, <2>2 DEF OrderKept
<1> QED BY <1>7, <1>ack, <1>one, <1>adds, <1>queued, <1>first, <1>order DEF RelayInv

\* The hub could not forward it: it waits, behind what waits for the same member.
LEMMA SendHeldKeeps ==
  ASSUME RelayInv, NEW i \in Message, SendSettled(i), verdict[i] = "held"
  PROVE  RelayInv'
<1>0. TypeOK /\ AckMeansShown /\ OneWriter /\ AddsWrite /\ QueuedIsHeld /\ FirstTry /\ OrderKept
  BY DEF RelayInv
<1>1. /\ st[i] = "sent" /\ Holds(i) /\ outbox' = Append(outbox, i) /\ Persisted(i, outbox')
      /\ up' = up /\ down' = down /\ due' = due /\ conn' = conn /\ turns' = turns /\ trouble' = trouble
      /\ roster' = roster /\ flush' = flush /\ file' = file /\ seen' = seen
  BY DEF SendSettled, Holds
<1>2. /\ st' = [st EXCEPT ![i] = "adding"] /\ verdict' = [verdict EXCEPT ![i] = "none"]
      /\ past' = [past EXCEPT !.raced = @ \/ Writing # {},
                              !.ahead = @ \cup {<<j, i>> : j \in {k \in ToSet(outbox) : To[k] = To[i]}}]
  BY DEF SendSettled, Holds
<1>3. /\ st' \in [Message -> Status] /\ st'[i] = "adding" /\ \A k \in Message : k # i => st'[k] = st[k]
      /\ verdict' \in [Message -> Verdict \cup {"none"}] /\ verdict'[i] = "none"
      /\ \A k \in Message : k # i => verdict'[k] = verdict[k]
  BY <1>0, <1>2 DEF TypeOK, Status
<1>4. outbox' \in Seq(Message) /\ writer' \in [Write -> WriterState] /\ past' \in PastState
  BY <1>0, <1>1, HoldsType
<1>5. /\ past'.doubt = past.doubt /\ past'.ended = past.ended /\ past'.missed = past.missed
      /\ past'.raced = (past.raced \/ Writing # {})
      /\ past'.ahead = past.ahead \cup {<<j, i>> : j \in {k \in ToSet(outbox) : To[k] = To[i]}}
  BY <1>0, <1>2 DEF TypeOK, PastState
<1>6. TypeOK'
  BY <1>0, <1>1, <1>3, <1>4 DEF TypeOK
<1>7. /\ ToSet(outbox') = ToSet(outbox) \cup {i}
      /\ \A j, k : Leads(j, k, outbox) /\ (i # k \/ j \in ToSet(outbox)) => Leads(j, k, outbox')
  BY <1>0, <1>1, AppendEffect DEF TypeOK
<1>8. /\ \A k : (Shown(k)' <=> Shown(k)) /\ (InUp(k)' <=> InUp(k)) /\ (OnceUp(k)' <=> OnceUp(k))
      /\ \A k, told : Was(k, told)' <=> Was(k, told)
  BY <1>1 DEF Shown, InUp, OnceUp, Was
<1>9. i \in Write
  BY Numbers
<1>ack. AckMeansShown'
  BY <1>0, <1>3, <1>5, <1>8 DEF AckMeansShown
<1>one. OneWriter'
  <2>1. ~past'.raced => ~past.raced /\ Writing = {}
    BY <1>5
  <2> QED BY <1>0, <1>1, <1>4, <1>9, <2>1, PersistedOne
<1>adds. AddsWrite'
  <2>1. \A x \in Write : x # i => writer'[x].on = writer[x].on
    BY <1>0, <1>1, <1>4, <1>9, PersistedEffect
  <2> QED BY <1>0, <1>3, <2>1, Numbers DEF AddsWrite
<1>queued. QueuedIsHeld'
  <2>1. ~past'.raced => ~past.raced
    BY <1>5
  <2>2. \A k \in Message : /\ st'[k] = "queued" => k # i /\ st[k] = "queued"
                           /\ st'[k] = "adding" => k = i \/ st[k] = "adding"
    BY <1>3
  <2>3. \A k : Expired(k)' <=> Expired(k)
    BY <1>5 DEF Expired
  <2> QED BY <1>0, <1>1, <1>5, <1>7, <1>8, <2>1, <2>2, <2>3 DEF QueuedIsHeld
<1>first. FirstTry'
  <2> SUFFICES ASSUME NEW k \in Message, k # i, st[k] \in {"unwritten", "sent"}
               PROVE  /\ k \notin ToSet(outbox')
                      /\ \A w \in Write : k \notin ToSet(writer'[w].val)
    BY <1>0, <1>1, <1>3, <1>8 DEF FirstTry
  <2>1. k \notin ToSet(outbox) /\ \A w \in Write : k \notin ToSet(writer[w].val)
    BY <1>0 DEF FirstTry
  <2>2. k \notin ToSet(outbox')
    BY <1>7, <2>1
  <2> QED BY <1>0, <1>1, <1>4, <1>9, <2>1, <2>2, PersistedVals
<1>order. OrderKept'
  <2>1. /\ i \notin ToSet(outbox) \cup ToSet(flush.list) \cup ToSet(file)
        /\ flush.pc = "wait" => flush.cur # i
        /\ ~InUp(i) /\ ~Shown(i)
    <3>1. st[i] \in {"unwritten", "sent"}
      BY <1>1
    <3> QED BY <1>0, <3>1 DEF FirstTry
  <2>2. ASSUME NEW j \in Message, NEW k \in Message, <<j, k>> \in past.ahead
        PROVE  /\ To[j] = To[k] /\ st'[k] \notin {"unwritten", "sent"}
               /\ ~past'.missed /\ ~past'.raced /\ j \notin past'.doubt \cup past'.ended =>
                    Leads(j, k, seen'[To[k]]) /\ (Shown(j)' \/ Behind(j, k)')
    <3>1. /\ To[j] = To[k] /\ st[k] \notin {"unwritten", "sent"}
          /\ ~past.missed /\ ~past.raced /\ j \notin past.doubt \cup past.ended =>
               Leads(j, k, seen[To[k]]) /\ (Shown(j) \/ Behind(j, k))
      BY <1>0, <2>2 DEF OrderKept
    <3>2. k # i
      BY <1>1, <3>1
    <3>3. Leads(j, k, outbox) => Leads(j, k, outbox')
      BY <1>7, <3>2
    <3>4. Behind(j, k) => Behind(j, k)'
      BY <1>1, <1>8, <3>3 DEF Behind, Leads
    <3> QED BY <1>1, <1>3, <1>5, <1>8, <3>1, <3>2, <3>4
  <2>3. ASSUME NEW j \in Message, j \in ToSet(outbox), To[j] = To[i]
        PROVE  /\ To[j] = To[i] /\ st'[i] \notin {"unwritten", "sent"}
               /\ Leads(j, i, seen'[To[i]]) /\ Behind(j, i)'
    <3>1. Leads(j, i, seen'[To[i]])
      BY <1>1, <2>1, AbsentLeads DEF Shown
    <3>2. Leads(j, i, outbox) /\ Leads(j, i, file) /\ Leads(j, i, flush.list)
      BY <2>1, AbsentLeads
    <3>3. Leads(j, i, outbox')
      BY <1>7, <2>3, <3>2
    <3>4. ~InUp(i)' /\ ~(flush'.pc = "wait" /\ flush'.cur = i)
      BY <1>1, <1>8, <2>1
    <3>5. Leads(j, i, file') /\ Leads(j, i, flush'.list)
      BY <1>1, <3>2
    <3>6. Behind(j, i)'
      BY <3>3, <3>4, <3>5 DEF Behind
    <3> QED BY <1>3, <2>3, <3>1, <3>6
  <2>4. ASSUME NEW j \in Message, NEW k \in Message, <<j, k>> \in past'.ahead, <<j, k>> \notin past.ahead
        PROVE  k = i /\ j \in ToSet(outbox) /\ To[j] = To[i]
    BY <1>5, <2>4
  <2> QED BY <2>2, <2>3, <2>4 DEF OrderKept
<1> QED BY <1>6, <1>ack, <1>one, <1>adds, <1>queued, <1>first, <1>order DEF RelayInv

\* Otherwise nothing waits.
LEMMA SendDoneKeeps ==
  ASSUME RelayInv, NEW i \in Message, SendSettled(i), verdict[i] # "held"
  PROVE  RelayInv'
<1>0. TypeOK /\ AckMeansShown /\ OneWriter /\ AddsWrite /\ QueuedIsHeld /\ FirstTry /\ OrderKept
  BY DEF RelayInv
<1>1. /\ st[i] = "sent" /\ verdict[i] # "none" /\ past' = past /\ outbox' = outbox /\ writer' = writer
      /\ up' = up /\ down' = down /\ due' = due /\ conn' = conn /\ turns' = turns /\ trouble' = trouble
      /\ roster' = roster /\ flush' = flush /\ file' = file /\ seen' = seen
  BY DEF SendSettled
<1>2. /\ st' = [st EXCEPT ![i] = CASE verdict[i] = "ack" -> "delivered" [] verdict[i] = "error" -> "refused"
                                    [] OTHER -> "assumed"]
      /\ verdict' = [verdict EXCEPT ![i] = "none"]
  BY DEF SendSettled
<1>3. /\ st' \in [Message -> Status] /\ st'[i] \in {"delivered", "refused", "assumed"}
      /\ st'[i] = "delivered" => verdict[i] = "ack"
      /\ \A k \in Message : k # i => st'[k] = st[k]
      /\ verdict' \in [Message -> Verdict \cup {"none"}] /\ verdict'[i] = "none"
      /\ \A k \in Message : k # i => verdict'[k] = verdict[k]
  BY <1>0, <1>2 DEF TypeOK, Status
<1>4. TypeOK'
  BY <1>0, <1>1, <1>3 DEF TypeOK
<1>5. /\ \A k : (Shown(k)' <=> Shown(k)) /\ (InUp(k)' <=> InUp(k)) /\ (OnceUp(k)' <=> OnceUp(k))
      /\ \A k, told : Was(k, told)' <=> Was(k, told)
  BY <1>1 DEF Shown, InUp, OnceUp, Was
<1>ack. AckMeansShown'
  BY <1>0, <1>1, <1>3, <1>5 DEF AckMeansShown
<1>one. OneWriter'
  BY <1>0, <1>1 DEF OneWriter, Writing
<1>adds. AddsWrite'
  BY <1>0, <1>1, <1>3 DEF AddsWrite
<1>queued. QueuedIsHeld'
  BY <1>0, <1>1, <1>3, <1>5 DEF QueuedIsHeld, Expired
<1>first. FirstTry'
  BY <1>0, <1>1, <1>3, <1>5 DEF FirstTry
<1>order. OrderKept'
  <2>1. ASSUME NEW j \in Message, NEW k \in Message, Behind(j, k) PROVE Behind(j, k)'
    BY <1>1, <1>5, <2>1 DEF Behind, Leads
  <2>2. \A j, k : Leads(j, k, seen'[To[k]]) <=> Leads(j, k, seen[To[k]])
    BY <1>1
  <2>3. \A k \in Message : st[k] \notin {"unwritten", "sent"} => st'[k] \notin {"unwritten", "sent"}
    BY <1>3
  <2> QED BY <1>0, <1>1, <1>5, <2>1, <2>2, <2>3 DEF OrderKept
<1> QED BY <1>4, <1>ack, <1>one, <1>adds, <1>queued, <1>first, <1>order DEF RelayInv

\* The add is written, or its write fails: then two were at the file at once.
LEMMA AddEndsKeeps == ASSUME RelayInv, NEW i \in Message, AddEnds(i) PROVE RelayInv'
<1>0. TypeOK /\ AckMeansShown /\ OneWriter /\ AddsWrite /\ QueuedIsHeld /\ FirstTry /\ OrderKept
  BY DEF RelayInv
<1>1. /\ up' = up /\ down' = down /\ due' = due /\ conn' = conn /\ turns' = turns /\ trouble' = trouble
      /\ roster' = roster /\ verdict' = verdict /\ outbox' = outbox /\ flush' = flush /\ seen' = seen /\ past' = past
  BY DEF AddEnds
<1>2. Renamed(i) \/ (Throws(i) /\ file' = file)
  BY DEF AddEnds
<1>3. /\ st' \in [Message -> Status] /\ st'[i] \in {"queued", "failed"}
      /\ \A k \in Message : k # i => st'[k] = st[k]
  BY <1>0 DEF AddEnds, TypeOK, Status
<1>4. i \in Write
  BY Numbers
<1>5. /\ writer[i].on /\ file' \in Seq(Message) \cup {Torn} /\ writer' \in [Write -> WriterState]
      /\ \A x \in Write : writer'[x].on => x # i /\ writer[x].on
      /\ \A k \in Message : k \notin ToSet(file) /\ (\A x \in Write : k \notin ToSet(writer[x].val)) =>
           k \notin ToSet(file') /\ \A x \in Write : k \notin ToSet(writer'[x].val)
      /\ ~past.raced => file' = outbox /\ Writing' = {}
  BY <1>0, <1>2, <1>4, RenamedEffect
<1>6. TypeOK'
  BY <1>0, <1>1, <1>3, <1>5 DEF TypeOK
<1>7. st[i] = "adding"
  BY <1>0, <1>5 DEF AddsWrite
<1>8. /\ \A k : (Shown(k)' <=> Shown(k)) /\ (InUp(k)' <=> InUp(k)) /\ (OnceUp(k)' <=> OnceUp(k))
      /\ \A k, told : Was(k, told)' <=> Was(k, told)
  BY <1>1 DEF Shown, InUp, OnceUp, Was
<1>ack. AckMeansShown'
  BY <1>0, <1>1, <1>3, <1>8 DEF AckMeansShown
<1>one. OneWriter'
  BY <1>0, <1>1, <1>2, <1>4, RenamedOne
<1>adds. AddsWrite'
  BY <1>0, <1>3, <1>5, Numbers DEF AddsWrite
<1>queued. QueuedIsHeld'
  <2> SUFFICES ASSUME ~past.raced, NEW k \in Message \ past.doubt, st'[k] \in {"adding", "queued"}
               PROVE  k \in ToSet(outbox) \/ Shown(k) \/ Expired(k)
    BY <1>1, <1>5, <1>8 DEF QueuedIsHeld, Expired
  <2>1. st[k] \in {"adding", "queued"}
    BY <1>3, <1>7
  <2> QED BY <1>0, <2>1 DEF QueuedIsHeld
<1>first. FirstTry'
  <2> SUFFICES ASSUME NEW k \in Message, st[k] \in {"unwritten", "sent"}
               PROVE  k \notin ToSet(file') /\ \A w \in Write : k \notin ToSet(writer'[w].val)
    BY <1>0, <1>1, <1>3, <1>7, <1>8 DEF FirstTry
  <2>1. k \notin ToSet(file) /\ \A w \in Write : k \notin ToSet(writer[w].val)
    BY <1>0 DEF FirstTry
  <2> QED BY <1>5, <2>1
<1>order. OrderKept'
  <2>1. ASSUME NEW j \in Message, NEW k \in Message, ~past.raced, Behind(j, k) PROVE Behind(j, k)'
    BY <1>1, <1>5, <1>8, <2>1 DEF Behind, Leads
  <2>2. \A j, k : Leads(j, k, seen'[To[k]]) <=> Leads(j, k, seen[To[k]])
    BY <1>1
  <2>3. \A k \in Message : st[k] \notin {"unwritten", "sent"} => st'[k] \notin {"unwritten", "sent"}
    BY <1>3
  <2> QED BY <1>0, <1>1, <1>8, <2>1, <2>2, <2>3 DEF OrderKept
<1> QED BY <1>6, <1>ack, <1>one, <1>adds, <1>queued, <1>first, <1>order DEF RelayInv

-----------------------------------------------------------------------------
(* The flush.                                                              *)

LEMMA OnRosterKeeps == ASSUME RelayInv, OnRoster PROVE RelayInv'
<1>0. TypeOK /\ AckMeansShown /\ OneWriter /\ AddsWrite /\ QueuedIsHeld /\ FirstTry /\ OrderKept
  BY DEF RelayInv
<1>1. /\ down # << >> /\ down' = Tail(down) /\ roster' \subseteq Member
      /\ up' = up /\ due' = due /\ conn' = conn /\ turns' = turns /\ trouble' = trouble
      /\ st' = st /\ verdict' = verdict /\ file' = file /\ seen' = seen
      /\ past' \in PastState /\ past'.doubt = past.doubt /\ past'.ended = past.ended /\ past'.ahead = past.ahead
      /\ past.missed => past'.missed
      /\ past.raced => past'.raced
      /\ flush.pc # "idle" => past'.missed
  BY <1>0, OnRosterEffect
<1>2. \/ UNCHANGED <<outbox, writer, flush>> /\ (flush.pc = "idle" \/ past'.missed)
      \/ /\ outbox' = Kept(outbox, Young)
         /\ flush' \in FlushState /\ flush'.pc \in {"next", "sweep"} /\ flush'.list = outbox'
         /\ \/ outbox' = outbox /\ writer' = writer
            \/ Persisted(0, outbox') /\ (Writing # {} => past'.raced)
  BY <1>0, OnRosterEffect
<1>3. /\ down' \in Seq(AnswerState)
      /\ \A k, told : Was(k, told)' => Was(k, told)
  BY <1>0, <1>1, DownTail DEF TypeOK
<1>4. /\ outbox' \in Seq(Message)
      /\ ToSet(outbox') \subseteq ToSet(outbox)
      /\ \A k \in ToSet(outbox) \cap Message : k \in ToSet(outbox') \/ Expired(k)
      /\ \A j, k \in Message : Leads(j, k, outbox) => Leads(j, k, outbox') \/ Expired(j)
  <2>1. outbox \in Seq(Message)
    BY <1>0 DEF TypeOK
  <2>2. CASE outbox' = outbox
    BY <2>1, <2>2
  <2>3. CASE outbox' = Kept(outbox, Young)
    <3>1. /\ outbox' \in Seq(Message) /\ ToSet(outbox') = ToSet(outbox) \cap Young
          /\ \A j \in Young : \A k : Leads(j, k, outbox) => Leads(j, k, outbox')
      BY <2>1, <2>3, KeptEffect
    <3>2. \A k \in Message : k \in Young \/ Expired(k)
      BY DEF Young
    <3> QED BY <3>1, <3>2
  <2> QED BY <1>2, <2>2, <2>3
<1>5. (writer' = writer /\ outbox' = outbox) \/ (Persisted(0, outbox') /\ (~past'.raced => Writing = {}))
  BY <1>2
<1>6. writer' \in [Write -> WriterState]
  <2>1. CASE writer' = writer
    BY <1>0, <2>1 DEF TypeOK
  <2>2. CASE Persisted(0, outbox')
    BY <1>0, <1>4, <2>2, Numbers, PersistedType
  <2> QED BY <1>5, <2>1, <2>2
<1>7. TypeOK'
  <2>1. flush' \in FlushState /\ (flush'.pc = "wait" => flush'.cur \in Message)
    <3>1. flush \in FlushState /\ (flush.pc = "wait" => flush.cur \in Message)
      BY <1>0 DEF TypeOK
    <3>2. CASE flush' = flush
      BY <3>1, <3>2
    <3>3. CASE flush' \in FlushState /\ flush'.pc \in {"next", "sweep"}
      BY <3>3
    <3> QED BY <1>2, <3>2, <3>3
  <2> QED BY <1>0, <1>1, <1>3, <1>4, <1>6, <2>1 DEF TypeOK
<1>8. /\ \A k : (Shown(k)' <=> Shown(k)) /\ (InUp(k)' <=> InUp(k)) /\ (OnceUp(k)' <=> OnceUp(k))
      /\ \A k : Expired(k)' <=> Expired(k)
  BY <1>1 DEF Shown, InUp, OnceUp, Expired
<1>ack. AckMeansShown'
  BY <1>0, <1>1, <1>3, <1>8 DEF AckMeansShown
<1>one. OneWriter'
  <2>1. CASE writer' = writer /\ outbox' = outbox
    BY <1>0, <1>1, <2>1 DEF OneWriter, Writing
  <2>2. CASE Persisted(0, outbox') /\ (~past'.raced => Writing = {})
    <3>1. ~past'.raced => ~past.raced /\ Writing = {}
      BY <1>1, <2>2
    <3> QED BY <1>0, <1>1, <1>4, <2>2, <3>1, Numbers, PersistedOne
  <2> QED BY <1>5, <2>1, <2>2
<1>adds. AddsWrite'
  <2>1. \A x \in Write : x # 0 => writer'[x].on = writer[x].on
    <3>1. CASE Persisted(0, outbox')
      BY <1>0, <1>4, <3>1, Numbers, PersistedEffect
    <3> QED BY <1>5, <3>1
  <2> QED BY <1>0, <1>1, <2>1, Numbers DEF AddsWrite
<1>queued. QueuedIsHeld'
  <2> SUFFICES ASSUME ~past.raced, NEW k \in Message \ past.doubt
               PROVE  /\ st[k] \in {"adding", "queued"} => k \in ToSet(outbox') \/ Shown(k) \/ Expired(k)
                      /\ st[k] = "queued" => k \in ToSet(file) \/ Shown(k) \/ Expired(k)
    BY <1>1, <1>8 DEF QueuedIsHeld
  <2> QED BY <1>0, <1>4 DEF QueuedIsHeld
<1>first. FirstTry'
  <2> SUFFICES ASSUME NEW k \in Message, st[k] \in {"unwritten", "sent"}
               PROVE  /\ k \notin ToSet(outbox') \cup ToSet(flush'.list)
                      /\ \A w \in Write : k \notin ToSet(writer'[w].val)
                      /\ flush'.pc = "wait" => flush'.cur # k
    BY <1>0, <1>1, <1>3, <1>8 DEF FirstTry
  <2>1. /\ k \notin ToSet(outbox) \cup ToSet(flush.list)
        /\ \A w \in Write : k \notin ToSet(writer[w].val)
        /\ flush.pc = "wait" => flush.cur # k
    BY <1>0 DEF FirstTry
  <2>2. k \notin ToSet(outbox')
    BY <1>4, <2>1
  <2>3. k \notin ToSet(flush'.list) /\ (flush'.pc = "wait" => flush'.cur # k)
    BY <1>2, <2>1, <2>2
  <2>4. CASE writer' = writer
    BY <2>1, <2>2, <2>3, <2>4
  <2>5. CASE Persisted(0, outbox')
    <3>1. \A w \in Write : k \notin ToSet(writer'[w].val)
      BY <1>0, <1>4, <2>1, <2>2, <2>5, Numbers, PersistedVals
    <3> QED BY <2>2, <2>3, <3>1
  <2> QED BY <1>5, <2>4, <2>5
<1>order. OrderKept'
  <2> SUFFICES ASSUME NEW j \in Message, NEW k \in Message, <<j, k>> \in past.ahead,
                      ~past'.missed, ~past'.raced, j \notin past.doubt \cup past.ended
               PROVE  Leads(j, k, seen[To[k]]) /\ (Shown(j) \/ Behind(j, k)')
    BY <1>0, <1>1, <1>8 DEF OrderKept
  <2>1. Leads(j, k, seen[To[k]]) /\ (Shown(j) \/ Behind(j, k))
    BY <1>0, <1>1 DEF OrderKept
  <2>2. ASSUME Behind(j, k) PROVE Behind(j, k)'
    <3>1. flush.pc = "idle"
      BY <1>1
    <3>2. Leads(j, k, outbox')
      BY <1>4, <2>2 DEF Behind, Expired
    <3>3. ~InUp(k)' /\ Leads(j, k, file')
      BY <1>1, <1>8, <2>2 DEF Behind
    <3>4. flush'.pc # "wait" /\ (flush'.pc = "idle" \/ Leads(j, k, flush'.list))
      BY <1>2, <3>1, <3>2
    <3> QED BY <3>2, <3>3, <3>4 DEF Behind
  <2> QED BY <2>1, <2>2
<1> QED BY <1>7, <1>ack, <1>one, <1>adds, <1>queued, <1>first, <1>order DEF RelayInv

\* A restart, or an error in the write of the flush: the outbox is what the file says.
LEMMA ReloadKeeps == ASSUME RelayInv, Reload, trouble' \in 0..MaxTrouble PROVE RelayInv'
<1>0. TypeOK /\ AckMeansShown /\ OneWriter /\ AddsWrite /\ QueuedIsHeld /\ FirstTry /\ OrderKept
  BY DEF RelayInv
<1>1. /\ up' = << >> /\ down' = << >> /\ flush' = Idle
      /\ st' = [i \in Message |-> IF st[i] \in {"sent", "adding"} THEN "unknown" ELSE st[i]]
      /\ verdict' = [i \in Message |-> "none"] /\ writer' = [w \in Write |-> NoWrite]
      /\ seen' = seen /\ past' = past
  BY DEF Reload
<1>2. TypeOK'
  BY <1>0, ReloadType
<1>3. \/ file = Torn /\ outbox' = << >> /\ file' = file
      \/ file # Torn /\ outbox' = Kept(file, Young) /\ file' = outbox'
  BY DEF Reload
<1>4. /\ ToSet(outbox') \subseteq ToSet(file) /\ ToSet(file') \subseteq ToSet(file)
      /\ file # Torn =>
           /\ \A k \in ToSet(file) \cap Message : k \in ToSet(outbox') \/ Expired(k)
           /\ \A j, k \in Message : Leads(j, k, file) => Leads(j, k, outbox') \/ Expired(j)
           /\ file' = outbox' /\ file' # Torn
  <2>1. CASE file = Torn
    BY <1>3, <2>1 DEF ToSet
  <2>2. CASE file # Torn
    <3>1. file \in Seq(Message)
      BY <1>0, <2>2 DEF TypeOK
    <3>2. /\ outbox' \in Seq(Message) /\ ToSet(outbox') = ToSet(file) \cap Young
          /\ \A j \in Young : \A k : Leads(j, k, file) => Leads(j, k, outbox')
      BY <1>3, <2>2, <3>1, KeptEffect
    <3>3. \A k \in Message : k \in Young \/ Expired(k)
      BY DEF Young
    <3> QED BY <1>3, <2>2, <3>2, <3>3, TornIsNoList
  <2> QED BY <2>1, <2>2
<1>5. /\ \A w \in Write : ~writer'[w].on /\ writer'[w].val = << >>
      /\ flush'.pc = "idle" /\ flush'.list = << >>
  BY <1>1, IdleIsState
<1>6. /\ \A k : ~InUp(k)' /\ OnceUp(k)'
      /\ \A k, told : ~Was(k, told)'
  BY <1>1, NoLinks
<1>7. \A k : (Shown(k)' <=> Shown(k)) /\ (Expired(k)' <=> Expired(k))
  BY <1>1 DEF Shown, Expired
<1>8. \A k \in Message : /\ st'[k] \notin {"sent", "adding"}
                         /\ st'[k] # "unknown" => st'[k] = st[k]
                         /\ verdict'[k] = "none"
  BY <1>1
<1>ack. AckMeansShown'
  BY <1>0, <1>1, <1>6, <1>7, <1>8 DEF AckMeansShown
<1>one. OneWriter'
  BY <1>0, <1>1, <1>4, <1>5 DEF OneWriter
<1>adds. AddsWrite'
  BY <1>5, Numbers DEF AddsWrite
<1>queued. QueuedIsHeld'
  <2> SUFFICES ASSUME ~past.raced, NEW k \in Message \ past.doubt, st'[k] = "queued"
               PROVE  k \in ToSet(outbox') \cap ToSet(file') \/ Shown(k) \/ Expired(k)
    BY <1>1, <1>7, <1>8 DEF QueuedIsHeld
  <2>1. k \in ToSet(file) \/ Shown(k) \/ Expired(k)
    BY <1>0, <1>8 DEF QueuedIsHeld
  <2>2. file # Torn
    BY <1>0 DEF OneWriter
  <2> QED BY <1>4, <2>1, <2>2
<1>first. FirstTry'
  <2> SUFFICES ASSUME NEW k \in Message, st'[k] = "unwritten"
               PROVE  k \notin ToSet(outbox') \cup ToSet(file') /\ ~Shown(k) /\ k \notin ToSet(<< >>)
    BY <1>5, <1>6, <1>7, <1>8 DEF FirstTry
  <2>1. st[k] = "unwritten"
    BY <1>8
  <2>2. k \notin ToSet(file) /\ ~Shown(k)
    BY <1>0, <2>1 DEF FirstTry
  <2> QED BY <1>4, <2>2 DEF ToSet
<1>order. OrderKept'
  <2> SUFFICES ASSUME NEW j \in Message, NEW k \in Message, <<j, k>> \in past.ahead,
                      ~past.missed, ~past.raced, j \notin past.doubt \cup past.ended
               PROVE  Leads(j, k, seen[To[k]]) /\ (Shown(j) \/ Behind(j, k)')
    <3>1. ASSUME NEW j \in Message, NEW k \in Message, <<j, k>> \in past.ahead
          PROVE  To[j] = To[k] /\ st'[k] \notin {"unwritten", "sent"}
      BY <1>0, <1>8, <3>1 DEF OrderKept
    <3> QED BY <1>1, <1>7, <3>1 DEF OrderKept
  <2>1. Leads(j, k, seen[To[k]]) /\ (Shown(j) \/ Behind(j, k))
    BY <1>0 DEF OrderKept
  <2>2. ASSUME Behind(j, k) PROVE Behind(j, k)'
    <3>1. file # Torn
      BY <1>0 DEF OneWriter
    <3>2. Leads(j, k, outbox') /\ Leads(j, k, file')
      BY <1>4, <2>2, <3>1 DEF Behind, Expired
    <3> QED BY <1>5, <1>6, <3>2 DEF Behind
  <2> QED BY <2>1, <2>2
<1> QED BY <1>2, <1>ack, <1>one, <1>adds, <1>queued, <1>first, <1>order DEF RelayInv

\* What happens to the first of the list: it is passed over, sent, or not sealed.
PassesOver(i) ==
  /\ To[i] \in flush.away \/ To[i] \notin roster
  /\ flush' = [flush EXCEPT !.list = Tail(@)]
  /\ up' = up /\ writer' = writer /\ past' = past

SendsAgain(i) ==
  /\ To[i] \notin flush.away /\ To[i] \in roster
  /\ flush' = [flush EXCEPT !.list = Tail(@), !.pc = "wait", !.cur = i]
  /\ up' = Append(up, Envelope(i)) /\ writer' = writer /\ past' = past

DoesNotSeal(i) ==
  /\ flush' = [flush EXCEPT !.list = Tail(@), !.pc = "noted", !.cur = i]
  /\ Persisted(0, outbox)
  /\ past' = [past EXCEPT !.raced = @ \/ Writing # {}, !.missed = TRUE]
  /\ up' = up

\* The flush ends, or goes through one entry; in any case what is left of the list
\* is its rest, and the member of a message that goes was neither away nor absent.
LEMMA FlushNextEffect ==
  ASSUME TypeOK, FlushNext
  PROVE  /\ flush.pc = "next" /\ trouble' \in 0..MaxTrouble
         /\ down' = down /\ due' = due /\ conn' = conn /\ turns' = turns
         /\ roster' = roster /\ st' = st /\ verdict' = verdict /\ outbox' = outbox
         /\ file' = file /\ seen' = seen
         /\ \/ flush' = Idle /\ up' = up /\ writer' = writer /\ past' = past
            \/ \E i \in Message : /\ flush.list # << >> /\ i = Head(flush.list)
                                  /\ PassesOver(i) \/ SendsAgain(i) \/ DoesNotSeal(i)
<1>1. /\ flush.pc = "next"
      /\ down' = down /\ due' = due /\ conn' = conn /\ turns' = turns
      /\ roster' = roster /\ st' = st /\ verdict' = verdict /\ outbox' = outbox
      /\ file' = file /\ seen' = seen
  BY DEF FlushNext
<1>2. trouble' \in 0..MaxTrouble
  <2>1. Trouble \/ trouble' = trouble
    BY DEF FlushNext
  <2> QED BY <2>1, TroubleType
<1>3. CASE flush.list = << >>
  BY <1>1, <1>2, <1>3 DEF FlushNext
<1>4. CASE flush.list # << >>
  <2>1. flush.list \in Seq(Message)
    BY DEF TypeOK, FlushState
  <2>2. PICK i \in Message : i = Head(flush.list)
    BY <1>4, <2>1, TailEffect
  <2>3. PassesOver(i) \/ SendsAgain(i) \/ DoesNotSeal(i)
    BY <1>4, <2>2 DEF FlushNext, PassesOver, SendsAgain, DoesNotSeal
  <2> QED BY <1>1, <1>2, <1>4, <2>2, <2>3
<1> QED BY <1>3, <1>4

\* The entry passed over is behind nothing that can still leave in this flush; the
\* entry that goes stands first, so nothing that waits stands before it.
LEMMA FlushEntry ==
  ASSUME TypeOK, flush.pc = "next", flush.list # << >>, NEW i \in Message, i = Head(flush.list),
         PassesOver(i) \/ SendsAgain(i) \/ DoesNotSeal(i)
  PROVE  /\ flush' \in FlushState /\ (flush'.pc = "wait" => flush'.cur = i) /\ flush'.away = flush.away
         /\ i \in ToSet(flush.list) /\ ToSet(flush'.list) \subseteq ToSet(flush.list)
         /\ \A j, k : Leads(j, k, flush.list) => i # k /\ (i # j => Leads(j, k, flush'.list))
         /\ PassesOver(i) => flush'.pc = "next"
         /\ SendsAgain(i) => flush'.pc = "wait"
         /\ DoesNotSeal(i) => flush'.pc = "noted"
<1>1. flush \in FlushState /\ flush.list \in Seq(Message) /\ i \in Write
  BY Numbers DEF TypeOK, FlushState
<1>2. /\ Tail(flush.list) \in Seq(Message) /\ i \in ToSet(flush.list)
      /\ ToSet(Tail(flush.list)) \subseteq ToSet(flush.list)
      /\ \A j, k : Leads(j, k, flush.list) => i # k /\ (i # j => Leads(j, k, Tail(flush.list)))
  BY <1>1, TailEffect
<1>3. /\ flush' \in FlushState /\ (flush'.pc = "wait" => flush'.cur = i) /\ flush'.away = flush.away
      /\ flush'.list = Tail(flush.list)
      /\ PassesOver(i) => flush'.pc = "next"
      /\ SendsAgain(i) => flush'.pc = "wait"
      /\ DoesNotSeal(i) => flush'.pc = "noted"
  <2>1. CASE flush' = [flush EXCEPT !.list = Tail(@)]
    <3>1. /\ flush' \in FlushState /\ flush'.pc = "next" /\ flush'.away = flush.away
          /\ flush'.list = Tail(flush.list)
      BY <1>1, <1>2, <2>1 DEF FlushState
    <3>2. ~SendsAgain(i) /\ ~DoesNotSeal(i)
      <4>1. SendsAgain(i) => flush'.pc = "wait"
        BY <1>1 DEF SendsAgain, FlushState
      <4>2. DoesNotSeal(i) => flush'.pc = "noted"
        BY <1>1 DEF DoesNotSeal, FlushState
      <4> QED BY <3>1, <4>1, <4>2
    <3> QED BY <3>1, <3>2
  <2>2. CASE flush' = [flush EXCEPT !.list = Tail(@), !.pc = "wait", !.cur = i]
    <3>1. /\ flush' \in FlushState /\ flush'.pc = "wait" /\ flush'.cur = i /\ flush'.away = flush.away
          /\ flush'.list = Tail(flush.list)
      BY <1>1, <1>2, <2>2 DEF FlushState
    <3>2. ~PassesOver(i) /\ ~DoesNotSeal(i)
      <4>1. PassesOver(i) => flush'.pc = flush.pc
        BY <1>1 DEF PassesOver, FlushState
      <4>2. DoesNotSeal(i) => flush'.pc = "noted"
        BY <1>1 DEF DoesNotSeal, FlushState
      <4> QED BY <3>1, <4>1, <4>2
    <3> QED BY <3>1, <3>2
  <2>3. CASE flush' = [flush EXCEPT !.list = Tail(@), !.pc = "noted", !.cur = i]
    <3>1. /\ flush' \in FlushState /\ flush'.pc = "noted" /\ flush'.away = flush.away
          /\ flush'.list = Tail(flush.list)
      BY <1>1, <1>2, <2>3 DEF FlushState
    <3>2. ~PassesOver(i) /\ ~SendsAgain(i)
      <4>1. PassesOver(i) => flush'.pc = flush.pc
        BY <1>1 DEF PassesOver, FlushState
      <4>2. SendsAgain(i) => flush'.pc = "wait"
        BY <1>1 DEF SendsAgain, FlushState
      <4> QED BY <3>1, <4>1, <4>2
    <3> QED BY <3>1, <3>2
  <2> QED BY <2>1, <2>2, <2>3 DEF PassesOver, SendsAgain, DoesNotSeal
<1> QED BY <1>2, <1>3

LEMMA FlushNextKeeps == ASSUME RelayInv, FlushNext PROVE RelayInv'
<1>0. TypeOK /\ AckMeansShown /\ OneWriter /\ AddsWrite /\ QueuedIsHeld /\ FirstTry /\ OrderKept
  BY DEF RelayInv
<1>1. /\ flush.pc = "next" /\ trouble' \in 0..MaxTrouble
      /\ down' = down /\ due' = due /\ conn' = conn /\ turns' = turns
      /\ roster' = roster /\ st' = st /\ verdict' = verdict /\ outbox' = outbox
      /\ file' = file /\ seen' = seen
  BY <1>0, FlushNextEffect
<1> DEFINE Goes(i) == /\ flush.list # << >> /\ i = Head(flush.list)
                      /\ PassesOver(i) \/ SendsAgain(i) \/ DoesNotSeal(i)
           Ends == flush' = Idle /\ up' = up /\ writer' = writer /\ past' = past
<1>2. Ends \/ \E i \in Message : Goes(i)
  BY <1>0, FlushNextEffect
<1>3. ASSUME NEW i \in Message, Goes(i)
      PROVE  /\ flush' \in FlushState /\ (flush'.pc = "wait" => flush'.cur = i) /\ flush'.away = flush.away
             /\ i \in ToSet(flush.list) /\ ToSet(flush'.list) \subseteq ToSet(flush.list)
             /\ \A j, k : Leads(j, k, flush.list) => i # k /\ (i # j => Leads(j, k, flush'.list))
             /\ PassesOver(i) => flush'.pc = "next"
             /\ SendsAgain(i) => flush'.pc = "wait"
             /\ DoesNotSeal(i) => flush'.pc = "noted"
  BY <1>0, <1>1, <1>3, FlushEntry
<1>4. /\ past' \in PastState /\ past'.doubt = past.doubt /\ past'.ended = past.ended /\ past'.ahead = past.ahead
      /\ past.missed => past'.missed
      /\ \A i : DoesNotSeal(i) => past'.missed
      /\ past' = past \/ past'.raced = (past.raced \/ Writing # {})
  <2>1. past \in PastState
    BY <1>0 DEF TypeOK
  <2>2. ASSUME past' = [past EXCEPT !.raced = @ \/ Writing # {}, !.missed = TRUE]
        PROVE  /\ past' \in PastState /\ past'.doubt = past.doubt /\ past'.ended = past.ended
               /\ past'.ahead = past.ahead /\ past'.missed = TRUE /\ past'.raced = (past.raced \/ Writing # {})
    BY <2>1, <2>2 DEF PastState
  <2>3. \A i : DoesNotSeal(i) => past' = [past EXCEPT !.raced = @ \/ Writing # {}, !.missed = TRUE]
    BY DEF DoesNotSeal
  <2>4. past' = past \/ past' = [past EXCEPT !.raced = @ \/ Writing # {}, !.missed = TRUE]
    BY <1>2 DEF PassesOver, SendsAgain, DoesNotSeal
  <2> QED BY <2>1, <2>2, <2>3, <2>4
<1>5. (writer' = writer /\ past' = past) \/ (Persisted(0, outbox) /\ past'.raced = (past.raced \/ Writing # {}))
  <2>1. (writer' = writer /\ past' = past)
           \/ (Persisted(0, outbox) /\ past' = [past EXCEPT !.raced = @ \/ Writing # {}, !.missed = TRUE])
    BY <1>2 DEF PassesOver, SendsAgain, DoesNotSeal
  <2>2. past \in PastState
    BY <1>0 DEF TypeOK
  <2>3. ASSUME past' = [past EXCEPT !.raced = @ \/ Writing # {}, !.missed = TRUE]
        PROVE  past'.raced = (past.raced \/ Writing # {})
    BY <2>2, <2>3 DEF PastState
  <2> QED BY <2>1, <2>3
<1>6. /\ up' \in Seq(EnvelopeState)
      /\ \A k : InUp(k)' => InUp(k) \/ (k \in Message /\ Goes(k) /\ SendsAgain(k))
      /\ \A k : OnceUp(k) /\ (InUp(k)' => InUp(k)) /\ (InUp(k) => k \notin ToSet(flush.list)) => OnceUp(k)'
  <2>0. up \in Seq(EnvelopeState)
    BY <1>0 DEF TypeOK
  <2>1. CASE up' = up
    BY <2>0, <2>1 DEF InUp, OnceUp
  <2>2. ASSUME NEW i \in Message, Goes(i), SendsAgain(i)
        PROVE  /\ up' \in Seq(EnvelopeState)
               /\ \A k : InUp(k)' => InUp(k) \/ (k \in Message /\ Goes(k) /\ SendsAgain(k))
               /\ \A k : OnceUp(k) /\ (InUp(k)' => InUp(k)) /\ (InUp(k) => k \notin ToSet(flush.list)) => OnceUp(k)'
    <3>1. /\ up' \in Seq(EnvelopeState)
          /\ \A k : InUp(k)' <=> InUp(k) \/ k = i
          /\ \A k : OnceUp(k) /\ (k # i \/ ~InUp(k)) => OnceUp(k)'
      <4>1. up' = Append(up, Envelope(i))
        BY <2>2 DEF SendsAgain
      <4> QED BY <2>0, <4>1, UpAppend
    <3>2. i \in ToSet(flush.list)
      BY <1>3, <2>2
    <3> HIDE DEF Goes
    <3> QED BY <2>2, <3>1, <3>2
  <2>3. up' = up \/ \E i \in Message : Goes(i) /\ SendsAgain(i)
    BY <1>2 DEF PassesOver, DoesNotSeal
  <2> HIDE DEF Goes
  <2> QED BY <2>1, <2>2, <2>3
<1>7. writer' \in [Write -> WriterState]
  <2>1. CASE writer' = writer
    BY <1>0, <2>1 DEF TypeOK
  <2>2. CASE Persisted(0, outbox)
    BY <1>0, <2>2, Numbers, PersistedType DEF TypeOK
  <2> QED BY <1>5, <2>1, <2>2
<1> HIDE DEF Goes
<1>8. flush' \in FlushState /\ (flush'.pc = "wait" => flush'.cur \in Message)
  <2>1. Ends => flush' \in FlushState /\ flush'.pc = "idle"
    BY IdleIsState
  <2> QED BY <1>2, <1>3, <2>1
<1>9. TypeOK'
  BY <1>0, <1>1, <1>4, <1>6, <1>7, <1>8 DEF TypeOK
<1>10. /\ \A k : (Shown(k)' <=> Shown(k)) /\ (Expired(k)' <=> Expired(k))
       /\ \A k, told : Was(k, told)' <=> Was(k, told)
  BY <1>1, <1>4 DEF Shown, Was, Expired
<1>ack. AckMeansShown'
  BY <1>0, <1>1, <1>4, <1>10 DEF AckMeansShown
<1>one. OneWriter'
  <2>1. CASE writer' = writer /\ past' = past
    BY <1>0, <1>1, <2>1 DEF OneWriter, Writing
  <2>2. CASE Persisted(0, outbox) /\ past'.raced = (past.raced \/ Writing # {})
    <3>1. ~past'.raced => ~past.raced /\ Writing = {}
      BY <2>2
    <3>2. Persisted(0, outbox') /\ outbox' \in Seq(Message)
      BY <1>0, <1>1, <2>2 DEF TypeOK
    <3> QED BY <1>0, <1>1, <3>1, <3>2, Numbers, PersistedOne
  <2> QED BY <1>5, <2>1, <2>2
<1>adds. AddsWrite'
  <2>1. \A x \in Write : x # 0 => writer'[x].on = writer[x].on
    <3>1. CASE Persisted(0, outbox)
      BY <1>0, <3>1, Numbers, PersistedEffect DEF TypeOK
    <3> QED BY <1>5, <3>1
  <2> QED BY <1>0, <1>1, <2>1, Numbers DEF AddsWrite
<1>queued. QueuedIsHeld'
  <2>1. past.raced => past'.raced
    BY <1>5
  <2> QED BY <1>0, <1>1, <1>4, <1>10, <2>1 DEF QueuedIsHeld
<1>first. FirstTry'
  <2> SUFFICES ASSUME NEW k \in Message, st[k] \in {"unwritten", "sent"}
               PROVE  /\ k \notin ToSet(flush'.list)
                      /\ \A w \in Write : k \notin ToSet(writer'[w].val)
                      /\ flush'.pc = "wait" => flush'.cur # k
                      /\ InUp(k)' => InUp(k)
                      /\ OnceUp(k)'
    BY <1>0, <1>1, <1>10 DEF FirstTry
  <2>1. /\ k \notin ToSet(outbox) \cup ToSet(flush.list)
        /\ \A w \in Write : k \notin ToSet(writer[w].val)
        /\ OnceUp(k)
    BY <1>0 DEF FirstTry
  <2>2. \A i \in Message : Goes(i) => i # k
    BY <1>3, <2>1
  <2>3. (InUp(k)' => InUp(k)) /\ OnceUp(k)'
    BY <1>6, <2>1, <2>2
  <2>4. k \notin ToSet(flush'.list) /\ (flush'.pc = "wait" => flush'.cur # k)
    <3>1. Ends => flush'.list = << >> /\ flush'.pc = "idle"
      BY IdleIsState
    <3>2. k \notin ToSet(<< >>)
      BY DEF ToSet
    <3> QED BY <1>2, <1>3, <2>1, <2>2, <3>1, <3>2
  <2>5. \A w \in Write : k \notin ToSet(writer'[w].val)
    <3>1. CASE Persisted(0, outbox)
      BY <1>0, <2>1, <3>1, Numbers, PersistedVals DEF TypeOK
    <3> QED BY <1>5, <2>1, <3>1
  <2> QED BY <2>3, <2>4, <2>5
<1>order. OrderKept'
  <2> SUFFICES ASSUME NEW j \in Message, NEW k \in Message, <<j, k>> \in past.ahead,
                      ~past'.missed, ~past'.raced, j \notin past.doubt \cup past.ended, ~Shown(j)
               PROVE  Leads(j, k, seen[To[k]]) /\ Behind(j, k)'
    <3>1. ASSUME NEW j \in Message, NEW k \in Message, <<j, k>> \in past.ahead
          PROVE  /\ To[j] = To[k] /\ st[k] \notin {"unwritten", "sent"}
                 /\ ~past.missed /\ ~past.raced /\ j \notin past.doubt \cup past.ended =>
                      Leads(j, k, seen[To[k]])
      BY <1>0, <3>1 DEF OrderKept
    <3>2. past.raced => past'.raced
      BY <1>5
    <3> QED BY <1>1, <1>4, <1>10, <3>1, <3>2 DEF OrderKept
  <2>1. Leads(j, k, seen[To[k]]) /\ Behind(j, k) /\ To[j] = To[k]
    <3>1. ~past.raced /\ ~past.missed
      BY <1>4, <1>5
    <3> QED BY <1>0, <3>1 DEF OrderKept
  <2>2. Leads(j, k, outbox') /\ Leads(j, k, file') /\ ~InUp(k)
    BY <1>1, <2>1 DEF Behind
  <2>3. Leads(j, k, flush.list) \/ To[k] \in flush.away \/ To[k] \notin roster
    BY <1>1, <2>1 DEF Behind
  <2>4. CASE Ends
    <3>1. flush'.pc = "idle" /\ ~InUp(k)'
      BY <2>2, <2>4, IdleIsState DEF InUp
    <3> QED BY <2>1, <2>2, <3>1 DEF Behind
  <2>5. ASSUME NEW i \in Message, Goes(i) PROVE Behind(j, k)'
    <3>1. i = k => To[k] \in flush.away \/ To[k] \notin roster
      BY <1>3, <2>3, <2>5
    <3>2. SendsAgain(i) => i # k
      BY <3>1 DEF SendsAgain
    <3>3. ~DoesNotSeal(i)
      BY <1>4
    <3>4. PassesOver(i) \/ SendsAgain(i)
      BY <2>5, <3>3 DEF Goes
    <3>5. ~InUp(k)'
      <4>1. ~(Goes(k) /\ SendsAgain(k))
        BY <1>3, <2>3 DEF SendsAgain
      <4> QED BY <1>6, <2>2, <4>1
    <3>6. ~(flush'.pc = "wait" /\ flush'.cur = k)
      BY <1>3, <2>5, <3>2, <3>4
    <3>7. \/ Leads(j, k, flush'.list) \/ To[k] \in flush'.away \/ To[k] \notin roster'
          \/ flush'.pc = "wait" /\ flush'.cur = j
      <4>1. CASE To[k] \in flush.away \/ To[k] \notin roster
        BY <1>1, <1>3, <2>5, <4>1
      <4>2. CASE Leads(j, k, flush.list) /\ i # j
        BY <1>3, <2>5, <4>2
      <4>3. CASE i = j /\ PassesOver(i)
        BY <1>1, <1>3, <2>1, <2>5, <4>3 DEF PassesOver
      <4>4. CASE i = j /\ SendsAgain(i)
        BY <1>3, <2>5, <4>4
      <4> QED BY <2>3, <3>4, <4>1, <4>2, <4>3, <4>4
    <3> QED BY <2>2, <3>5, <3>6, <3>7 DEF Behind
  <2> QED BY <1>2, <2>1, <2>4, <2>5
<1> QED BY <1>9, <1>ack, <1>one, <1>adds, <1>queued, <1>first, <1>order DEF RelayInv

\* A verdict in the flush: with it the message leaves or stays, and its member may be away.
LEMMA FlushVerdictEffect ==
  ASSUME RelayInv, FlushVerdict
  PROVE  \E i \in Message : \E v \in Verdict :
           /\ flush.pc = "wait" /\ flush.cur = i /\ v = verdict[i]
           /\ verdict' \in [Message -> Verdict \cup {"none"}] /\ verdict'[i] = "none"
           /\ \A k \in Message : k # i => verdict'[k] = verdict[k]
           /\ outbox' = IF Leaves(v) THEN Kept(outbox, Message \ {i}) ELSE outbox
           /\ Persisted(0, outbox')
           /\ flush' \in FlushState /\ flush'.pc = "noted" /\ flush'.list = flush.list
           /\ flush.away \subseteq flush'.away /\ (v = "held" => To[i] \in flush'.away)
           /\ past' \in PastState /\ past'.doubt = past.doubt /\ past'.ended = past.ended
           /\ past'.ahead = past.ahead
           /\ past'.raced = (past.raced \/ Writing # {}) /\ past'.missed = (past.missed \/ v = "error")
<1>0. TypeOK /\ flush.pc = "wait" /\ verdict[flush.cur] # "none"
  BY DEF RelayInv, FlushVerdict
<1>1. PICK i \in Message : i = flush.cur
  BY <1>0 DEF TypeOK
<1>2. PICK v \in Verdict : v = verdict[i]
  BY <1>0, <1>1 DEF TypeOK
<1>3. /\ verdict' = [verdict EXCEPT ![i] = "none"]
      /\ outbox' = IF Leaves(v) THEN Kept(outbox, Message \ {i}) ELSE outbox
      /\ Persisted(0, outbox')
      /\ flush' = [flush EXCEPT !.pc = "noted", !.away = IF v = "held" THEN @ \cup {To[i]} ELSE @]
      /\ past' = [past EXCEPT !.raced = @ \/ Writing # {}, !.missed = @ \/ v = "error"]
  BY <1>1, <1>2 DEF FlushVerdict
<1>4. /\ verdict' \in [Message -> Verdict \cup {"none"}] /\ verdict'[i] = "none"
      /\ \A k \in Message : k # i => verdict'[k] = verdict[k]
  BY <1>0, <1>3 DEF TypeOK
<1>5. /\ flush' \in FlushState /\ flush'.pc = "noted" /\ flush'.list = flush.list
      /\ flush.away \subseteq flush'.away /\ (v = "held" => To[i] \in flush'.away)
  <2>1. flush \in FlushState /\ To[i] \in Member
    BY <1>0, Numbers DEF TypeOK
  <2> QED BY <1>3, <2>1 DEF FlushState
<1>6. /\ past' \in PastState /\ past'.doubt = past.doubt /\ past'.ended = past.ended
      /\ past'.ahead = past.ahead
      /\ past'.raced = (past.raced \/ Writing # {}) /\ past'.missed = (past.missed \/ v = "error")
  <2>1. past \in PastState
    BY <1>0 DEF TypeOK
  <2>2. PICK r \in BOOLEAN : r = (past.raced \/ Writing # {})
    OBVIOUS
  <2>3. PICK s \in BOOLEAN : s = (past.missed \/ v = "error")
    OBVIOUS
  <2>4. past' = [past EXCEPT !.raced = r, !.missed = s]
    BY <1>3, <2>1, <2>2, <2>3 DEF PastState
  <2>5. /\ past' \in PastState /\ past'.doubt = past.doubt /\ past'.ended = past.ended
        /\ past'.ahead = past.ahead /\ past'.raced = r /\ past'.missed = s
    BY <2>1, <2>4 DEF PastState
  <2> QED BY <2>2, <2>3, <2>5
<1> QED BY <1>0, <1>1, <1>2, <1>3, <1>4, <1>5, <1>6

LEMMA FlushVerdictKeeps == ASSUME RelayInv, FlushVerdict PROVE RelayInv'
<1>0. TypeOK /\ AckMeansShown /\ OneWriter /\ AddsWrite /\ QueuedIsHeld /\ FirstTry /\ OrderKept
  BY DEF RelayInv
<1>1. PICK i \in Message, v \in Verdict :
        /\ flush.pc = "wait" /\ flush.cur = i /\ v = verdict[i]
        /\ verdict' \in [Message -> Verdict \cup {"none"}] /\ verdict'[i] = "none"
        /\ \A k \in Message : k # i => verdict'[k] = verdict[k]
        /\ outbox' = IF Leaves(v) THEN Kept(outbox, Message \ {i}) ELSE outbox
        /\ Persisted(0, outbox')
        /\ flush' \in FlushState /\ flush'.pc = "noted" /\ flush'.list = flush.list
        /\ flush.away \subseteq flush'.away /\ (v = "held" => To[i] \in flush'.away)
        /\ past' \in PastState /\ past'.doubt = past.doubt /\ past'.ended = past.ended
        /\ past'.ahead = past.ahead
        /\ past'.raced = (past.raced \/ Writing # {}) /\ past'.missed = (past.missed \/ v = "error")
  BY FlushVerdictEffect
<1>2. /\ up' = up /\ down' = down /\ due' = due /\ conn' = conn /\ turns' = turns /\ trouble' = trouble
      /\ roster' = roster /\ st' = st /\ file' = file /\ seen' = seen
  BY DEF FlushVerdict
<1>3. /\ outbox' \in Seq(Message) /\ ToSet(outbox') \subseteq ToSet(outbox)
      /\ \A k \in ToSet(outbox) \cap Message : k \in ToSet(outbox') \/ (k = i /\ Leaves(v))
      /\ \A j, k \in Message : Leads(j, k, outbox) => Leads(j, k, outbox') \/ (j = i /\ Leaves(v))
  <2>1. outbox \in Seq(Message)
    BY <1>0 DEF TypeOK
  <2>2. CASE ~Leaves(v)
    BY <1>1, <2>1, <2>2
  <2>3. CASE Leaves(v)
    <3>1. outbox' = Kept(outbox, Message \ {i})
      BY <1>1, <2>3
    <3>2. /\ outbox' \in Seq(Message) /\ ToSet(outbox') = ToSet(outbox) \cap (Message \ {i})
          /\ \A j \in Message \ {i} : \A k : Leads(j, k, outbox) => Leads(j, k, outbox')
      BY <2>1, <3>1, KeptEffect
    <3> QED BY <2>3, <3>2
  <2> QED BY <2>2, <2>3
<1>4. Leaves(v) => v = "ack" \/ v = "timeout"
  BY DEF Leaves
<1>5. i \notin past.doubt => v # "timeout" /\ (v = "ack" => Shown(i))
  BY <1>0, <1>1 DEF AckMeansShown
<1>6. writer' \in [Write -> WriterState]
  BY <1>0, <1>1, <1>3, Numbers, PersistedType
<1>7. TypeOK'
  BY <1>0, <1>1, <1>2, <1>3, <1>6 DEF TypeOK
<1>8. /\ \A k : (Shown(k)' <=> Shown(k)) /\ (Expired(k)' <=> Expired(k))
      /\ \A k : (InUp(k)' <=> InUp(k)) /\ (OnceUp(k)' <=> OnceUp(k))
      /\ \A k, told : Was(k, told)' <=> Was(k, told)
  BY <1>1, <1>2 DEF Shown, Was, Expired, InUp, OnceUp
<1>9. ~past'.raced => ~past.raced /\ Writing = {}
  BY <1>1
<1>ack. AckMeansShown'
  BY <1>0, <1>1, <1>2, <1>8 DEF AckMeansShown
<1>one. OneWriter'
  BY <1>0, <1>1, <1>2, <1>3, <1>9, Numbers, PersistedOne
<1>adds. AddsWrite'
  <2>1. \A x \in Write : x # 0 => writer'[x].on = writer[x].on
    BY <1>0, <1>1, <1>3, Numbers, PersistedEffect
  <2> QED BY <1>0, <1>2, <2>1, Numbers DEF AddsWrite
<1>queued. QueuedIsHeld'
  <2> SUFFICES ASSUME ~past.raced, NEW k \in Message \ past.doubt
               PROVE  /\ st[k] \in {"adding", "queued"} => k \in ToSet(outbox') \/ Shown(k) \/ Expired(k)
                      /\ st[k] = "queued" => k \in ToSet(file) \/ Shown(k) \/ Expired(k)
    BY <1>1, <1>2, <1>8, <1>9 DEF QueuedIsHeld
  <2>1. k \in ToSet(outbox) => k \in ToSet(outbox') \/ Shown(k)
    BY <1>3, <1>4, <1>5
  <2> QED BY <1>0, <2>1 DEF QueuedIsHeld
<1>first. FirstTry'
  <2> SUFFICES ASSUME NEW k \in Message, st[k] \in {"unwritten", "sent"}
               PROVE  /\ k \notin ToSet(outbox') /\ verdict'[k] = verdict[k]
                      /\ \A w \in Write : k \notin ToSet(writer'[w].val)
    BY <1>0, <1>1, <1>2, <1>8 DEF FirstTry
  <2>1. /\ k \notin ToSet(outbox)
        /\ \A w \in Write : k \notin ToSet(writer[w].val)
        /\ flush.pc = "wait" => flush.cur # k
    BY <1>0 DEF FirstTry
  <2>2. k \notin ToSet(outbox') /\ verdict'[k] = verdict[k]
    BY <1>1, <1>3, <2>1
  <2>3. \A w \in Write : k \notin ToSet(writer'[w].val)
    BY <1>0, <1>1, <1>3, <2>1, <2>2, Numbers, PersistedVals
  <2> QED BY <2>2, <2>3
<1>order. OrderKept'
  <2> SUFFICES ASSUME NEW j \in Message, NEW k \in Message, <<j, k>> \in past.ahead,
                      ~past'.missed, ~past'.raced, j \notin past.doubt \cup past.ended, ~Shown(j)
               PROVE  Leads(j, k, seen[To[k]]) /\ Behind(j, k)'
    <3>1. ASSUME NEW j \in Message, NEW k \in Message, <<j, k>> \in past.ahead
          PROVE  /\ To[j] = To[k] /\ st[k] \notin {"unwritten", "sent"}
                 /\ ~past.missed /\ ~past.raced /\ j \notin past.doubt \cup past.ended =>
                      Leads(j, k, seen[To[k]])
      BY <1>0, <3>1 DEF OrderKept
    <3>2. ~past'.missed => ~past.missed
      BY <1>1
    <3> QED BY <1>1, <1>2, <1>8, <1>9, <3>1, <3>2 DEF OrderKept
  <2>1. Leads(j, k, seen[To[k]]) /\ Behind(j, k) /\ To[j] = To[k]
    <3>1. ~past.raced /\ ~past.missed
      BY <1>1
    <3> QED BY <1>0, <3>1 DEF OrderKept
  <2>2. j = i => v = "held"
    <3>1. v \in {"ack", "held", "error", "timeout"}
      BY DEF Verdict
    <3> QED BY <1>1, <1>5, <3>1
  <2>3. ~(j = i /\ Leaves(v))
    BY <1>4, <2>2
  <2>4. Leads(j, k, outbox') /\ Leads(j, k, file') /\ ~InUp(k)'
    BY <1>2, <1>3, <1>8, <2>1, <2>3 DEF Behind
  <2>5. Leads(j, k, flush'.list) \/ To[k] \in flush'.away \/ To[k] \notin roster'
    <3>1. Leads(j, k, flush.list) \/ To[k] \in flush.away \/ To[k] \notin roster \/ i = j
      BY <1>1, <2>1 DEF Behind
    <3>2. i = j => To[k] \in flush'.away
      BY <1>1, <2>1, <2>2
    <3> QED BY <1>1, <1>2, <3>1, <3>2
  <2>6. flush'.pc # "wait"
    BY <1>1
  <2> QED BY <2>1, <2>4, <2>5, <2>6 DEF Behind
<1> QED BY <1>7, <1>ack, <1>one, <1>adds, <1>queued, <1>first, <1>order DEF RelayInv

LEMMA FlushGoesOnKeeps == ASSUME RelayInv, FlushGoesOn PROVE RelayInv'
<1>0. TypeOK /\ AckMeansShown /\ OneWriter /\ AddsWrite /\ QueuedIsHeld /\ FirstTry /\ OrderKept
  BY DEF RelayInv
<1>1. /\ flush.pc \in {"noted", "sweep"} /\ Renamed(0)
      /\ flush' = [flush EXCEPT !.pc = "next", !.cur = 0]
      /\ up' = up /\ down' = down /\ due' = due /\ conn' = conn /\ turns' = turns /\ trouble' = trouble
      /\ roster' = roster /\ st' = st /\ verdict' = verdict /\ outbox' = outbox /\ seen' = seen /\ past' = past
  BY DEF FlushGoesOn
<1>2. /\ file' \in Seq(Message) \cup {Torn} /\ writer' \in [Write -> WriterState]
      /\ \A x \in Write : writer'[x].on => x # 0 /\ writer[x].on
      /\ \A k \in Message : k \notin ToSet(file) /\ (\A x \in Write : k \notin ToSet(writer[x].val)) =>
           k \notin ToSet(file') /\ \A x \in Write : k \notin ToSet(writer'[x].val)
      /\ ~past.raced => file' = outbox /\ Writing' = {}
  BY <1>0, <1>1, Numbers, RenamedEffect
<1>3. /\ flush' \in FlushState /\ flush'.pc = "next" /\ flush'.list = flush.list /\ flush'.away = flush.away
  BY <1>0, <1>1, Numbers DEF TypeOK, FlushState
<1>4. TypeOK'
  BY <1>0, <1>1, <1>2, <1>3 DEF TypeOK
<1>5. /\ \A k : (Shown(k)' <=> Shown(k)) /\ (Expired(k)' <=> Expired(k))
      /\ \A k : (InUp(k)' <=> InUp(k)) /\ (OnceUp(k)' <=> OnceUp(k))
      /\ \A k, told : Was(k, told)' <=> Was(k, told)
  BY <1>1 DEF Shown, Was, Expired, InUp, OnceUp
<1>ack. AckMeansShown'
  BY <1>0, <1>1, <1>5 DEF AckMeansShown
<1>one. OneWriter'
  BY <1>0, <1>1, Numbers, RenamedOne
<1>adds. AddsWrite'
  BY <1>0, <1>1, <1>2, Numbers DEF AddsWrite
<1>queued. QueuedIsHeld'
  BY <1>0, <1>1, <1>2, <1>5 DEF QueuedIsHeld
<1>first. FirstTry'
  <2> SUFFICES ASSUME NEW k \in Message, st[k] \in {"unwritten", "sent"}
               PROVE  k \notin ToSet(file') /\ \A w \in Write : k \notin ToSet(writer'[w].val)
    BY <1>0, <1>1, <1>3, <1>5 DEF FirstTry
  <2>1. k \notin ToSet(file) /\ \A w \in Write : k \notin ToSet(writer[w].val)
    BY <1>0 DEF FirstTry
  <2> QED BY <1>2, <2>1
<1>order. OrderKept'
  <2>1. ASSUME NEW j \in Message, NEW k \in Message, ~past.raced, Behind(j, k) PROVE Behind(j, k)'
    <3>1. Leads(j, k, outbox') /\ Leads(j, k, file') /\ ~InUp(k)'
      BY <1>1, <1>2, <1>5, <2>1 DEF Behind
    <3>2. Leads(j, k, flush'.list) \/ To[k] \in flush'.away \/ To[k] \notin roster'
      BY <1>1, <1>3, <2>1 DEF Behind
    <3> QED BY <1>3, <3>1, <3>2 DEF Behind
  <2>2. \A j, k : Leads(j, k, seen'[To[k]]) <=> Leads(j, k, seen[To[k]])
    BY <1>1
  <2> QED BY <1>0, <1>1, <1>5, <2>1, <2>2 DEF OrderKept
<1> QED BY <1>4, <1>ack, <1>one, <1>adds, <1>queued, <1>first, <1>order DEF RelayInv

-----------------------------------------------------------------------------
(* The results.                                                            *)

LEMMA RelayInvInit == Init => RelayInv
<1> SUFFICES ASSUME Init PROVE RelayInv
  OBVIOUS
<1>1. << >> \in Seq(Message) /\ << >> \in Seq(EnvelopeState) /\ << >> \in Seq(AnswerState)
  BY EmptySeq
<1>2. ToSet(<< >>) = {}
  BY DEF ToSet
<1>3. past \in PastState /\ past.doubt = {} /\ past.ended = {} /\ past.ahead = {} /\ ~past.raced /\ ~past.missed
  BY DEF Init, PastState
<1>4. /\ st \in [Message -> Status] /\ verdict \in [Message -> Verdict \cup {"none"}]
      /\ \A k \in Message : st[k] = "unwritten" /\ verdict[k] = "none"
  BY DEF Init, Status, Verdict
<1>5. /\ flush = Idle /\ \A w \in Write : ~writer[w].on /\ writer[w].val = << >>
      /\ writer \in [Write -> WriterState]
  BY IdleIsState DEF Init
<1>6. TypeOK
  BY <1>1, <1>3, <1>4, <1>5, IdleIsState, Numbers DEF Init, TypeOK
<1>7. /\ \A k, told : ~Was(k, told)
      /\ \A k : ~InUp(k) /\ OnceUp(k)
      /\ \A k \in Message : ~Shown(k)
  BY <1>2, Numbers DEF Init, Was, InUp, OnceUp, Shown
<1>8. AckMeansShown
  BY <1>4, <1>7 DEF AckMeansShown
<1>9. OneWriter
  BY <1>1, <1>5, TornIsNoList DEF Init, OneWriter
<1>10. AddsWrite
  BY <1>5, Numbers DEF AddsWrite
<1>11. QueuedIsHeld
  BY <1>4 DEF QueuedIsHeld
<1>12. FirstTry
  BY <1>2, <1>4, <1>5, <1>7, IdleIsState DEF Init, FirstTry
<1>13. OrderKept
  BY <1>3 DEF OrderKept
<1> QED BY <1>6, <1>8, <1>9, <1>10, <1>11, <1>12, <1>13 DEF RelayInv

LEMMA RelayInvNext == RelayInv /\ [Next]_vars => RelayInv'
<1> SUFFICES ASSUME RelayInv, [Next]_vars PROVE RelayInv'
  OBVIOUS
<1>0. TypeOK
  BY DEF RelayInv
<1>1. CASE Hub
  BY <1>1, BroadcastKeeps, ForwardKeeps, WorldKeeps DEF Hub
<1>2. CASE World
  BY <1>2, WorldKeeps DEF World
<1>3. CASE \E i \in Message : SendChat(i)
  BY <1>3, SendChatKeeps
<1>4. CASE \E i \in Message : SendSettled(i) \/ VerdictTimeout(i) \/ AddEnds(i)
  BY <1>4, SendHeldKeeps, SendDoneKeeps, VerdictTimeoutKeeps, AddEndsKeeps
<1>5. CASE OnVerdict \/ OnRoster \/ FlushNext \/ FlushVerdict \/ FlushGoesOn
  BY <1>5, OnVerdictKeeps, OnRosterKeeps, FlushNextKeeps, FlushVerdictKeeps, FlushGoesOnKeeps
<1>6. CASE FlushThrows \/ Restart
  <2>1. Reload /\ (Trouble \/ trouble' = trouble)
    BY <1>6 DEF FlushThrows, Restart
  <2>2. trouble' \in 0..MaxTrouble
    BY <1>0, <2>1, TroubleType
  <2> QED BY <2>1, <2>2, ReloadKeeps
<1>7. CASE LinkBreaks \/ \E i \in Message : Ages(i)
  BY <1>7, LinkBreaksKeeps, AgesKeeps
<1>8. CASE UNCHANGED vars
  BY <1>8, StutterKeeps
<1> QED BY <1>1, <1>2, <1>3, <1>4, <1>5, <1>6, <1>7, <1>8 DEF Next, Sender, Faults

\* The inductive invariant: what was told is so and what waits stays in order, as
\* the hub, the flush, the writes of the file, faults and restarts interleave.
THEOREM RelayCorrect == Spec => []RelayInv
BY RelayInvInit, RelayInvNext, PTL DEF Spec

\* What the user was told of a message is true.
THEOREM ToldTruly == Spec => []ToldIsTrue
<1>1. RelayInv => ToldIsTrue
  BY DEF RelayInv, ToldIsTrue, AckMeansShown, QueuedIsHeld, Shown, Expired
<1> QED BY <1>1, RelayCorrect, PTL

\* What waits for a member is shown to it in the order in which it began to wait.
THEOREM WaitersKeepTheirOrder == Spec => []WaitedInOrder
<1>1. RelayInv => WaitedInOrder
  <2> SUFFICES ASSUME RelayInv, ~past.missed, ~past.raced, NEW j \in Message, NEW i \in Message,
                      <<j, i>> \in past.ahead, j \notin past.doubt \cup past.ended, i \in ToSet(seen[To[i]])
               PROVE  \E x, y \in DOMAIN seen[To[i]] : x < y /\ seen[To[i]][x] = j /\ seen[To[i]][y] = i
    BY DEF WaitedInOrder
  <2>1. Leads(j, i, seen[To[i]])
    BY DEF RelayInv, OrderKept
  <2>2. seen[To[i]] \in Seq(Message)
    BY Numbers DEF RelayInv, TypeOK
  <2>3. Len(seen[To[i]]) \in Nat /\ DOMAIN seen[To[i]] = 1..Len(seen[To[i]])
    BY <2>2, LenProperties
  <2>4. PICK y \in 1..Len(seen[To[i]]) : seen[To[i]][y] = i
    BY <2>3 DEF ToSet
  <2>5. PICK x \in 1..(y - 1) : seen[To[i]][x] = j
    BY <2>1, <2>3, <2>4 DEF Leads
  <2>6. x \in 1..Len(seen[To[i]]) /\ x < y
    BY <2>3, <2>4, <2>5
  <2> QED BY <2>3, <2>4, <2>5, <2>6
<1> QED BY <1>1, RelayCorrect, PTL
=============================================================================
