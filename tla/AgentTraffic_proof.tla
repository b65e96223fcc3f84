-------------------------- MODULE AgentTraffic_proof --------------------------
(***************************************************************************)
(* Proofs about agents that talk and the limits on their Brain, for any    *)
(* agents, any number of runs, any budget of hops and any limits.          *)
(*                                                                         *)
(* The steps of the runs come in few kinds.  A step opens a run without a  *)
(* relay, or one that carries a new question; it moves a run on, ends it   *)
(* with an answer, or carries that answer; or it restarts an engine.  Each *)
(* part of the invariant has one case for each kind.                       *)
(*                                                                         *)
(* The limits compare two sequences of ages that grow together.  What a    *)
(* filter keeps is defined by recursion on the sequence, so the lemmas     *)
(* about it go by induction, here as: a set of numbers that holds zero and *)
(* every successor of its elements holds them all.                         *)
(***************************************************************************)
EXTENDS AgentTraffic, SequenceTheorems, FiniteSetTheorems, NaturalsInduction, WellFoundedInduction, TLAPS

-----------------------------------------------------------------------------
(* Induction, for sets of numbers.                                         *)

LEMMA SetInduction ==
  ASSUME NEW S, 0 \in S, \A n \in Nat : n \in S => n + 1 \in S
  PROVE  Nat \subseteq S
<1> SUFFICES ASSUME Nat \ S # {} PROVE FALSE
  OBVIOUS
<1>1. PICK m \in Nat \ S : \A n \in Nat \ S : ~(<<n, m>> \in OpToRel(<, Nat))
  BY WFMin, NatLessThanWellFounded
<1>2. m # 0 /\ m \in Nat
  OBVIOUS
<1>3. m - 1 \in Nat /\ m - 1 < m /\ (m - 1) + 1 = m
  BY <1>2
<1>4. m - 1 \notin S
  BY <1>2, <1>3
<1>5. <<m - 1, m>> \in OpToRel(<, Nat)
  BY <1>2, <1>3 DEF OpToRel
<1> QED BY <1>1, <1>3, <1>4, <1>5

\* There is a least number in any set of them that is not empty.
LEMMA Least ==
  ASSUME NEW S, S \subseteq Nat, S # {}
  PROVE  \E m \in S : \A n \in S : m <= n
<1>1. PICK m \in S : \A n \in S : ~(<<n, m>> \in OpToRel(<, Nat))
  BY WFMin, NatLessThanWellFounded
<1>2. ASSUME NEW n \in S PROVE m <= n
  <2>1. n \in Nat /\ m \in Nat /\ ~(n < m)
    BY <1>1 DEF OpToRel
  <2> QED BY <2>1
<1> QED BY <1>2

\* A new run takes a slot that is free.
LEMMA FreshIsFree ==
  ASSUME Room
  PROVE  Fresh \in Slot /\ Fresh \notin Busy /\ run[Fresh] = Free
<1>1. Slot \ Busy # {} /\ Slot \ Busy \subseteq Nat
  BY TalkAssumption DEF Room, Busy
<1>2. \E r \in Slot \ Busy : \A s \in Slot \ Busy : r <= s
  BY <1>1, Least
<1>3. Fresh \in Slot \ Busy
  BY <1>2 DEF Fresh
<1> QED BY <1>3 DEF Busy

-----------------------------------------------------------------------------
(* What a filter keeps.                                                    *)

\* One step of the recursion.
Step(s, age, n, before) == IF s[n] < age THEN Append(before, s[n]) ELSE before

\* The recursion has a solution on every initial segment, so it defines a function.
LEMMA FilteredDefined ==
  ASSUME NEW s \in Seq(Nat), NEW age \in Nat
  PROVE  /\ Filtered(s, age) =
              [n \in 0..Len(s) |-> IF n = 0 THEN << >> ELSE Step(s, age, n, Filtered(s, age)[n - 1])]
<1> DEFINE IsFilter(f, m) == f = [n \in 0..m |-> IF n = 0 THEN << >> ELSE Step(s, age, n, f[n - 1])]
           S == {m \in Nat : \E f : IsFilter(f, m)}
<1>1. 0 \in S
  <2>1. IsFilter([n \in 0..0 |-> << >>], 0)
    OBVIOUS
  <2> QED BY <2>1
<1>2. ASSUME NEW m \in Nat, m \in S PROVE m + 1 \in S
  <2>1. PICK f : IsFilter(f, m)
    BY <1>2
  <2> DEFINE g == [n \in 0..(m + 1) |-> IF n = m + 1 THEN Step(s, age, m + 1, f[m]) ELSE f[n]]
  <2>2. ASSUME NEW n \in 0..(m + 1) PROVE g[n] = IF n = 0 THEN << >> ELSE Step(s, age, n, g[n - 1])
    <3> HIDE DEF Step
    <3>1. CASE n = 0
      BY <2>1, <3>1
    <3>2. CASE n = m + 1
      BY <2>1, <3>2
    <3>3. CASE n \in 1..m
      BY <2>1, <3>3
    <3> QED BY <3>1, <3>2, <3>3
  <2>3. IsFilter(g, m + 1)
    BY <2>2 DEF g
  <2> HIDE DEF g, IsFilter
  <2> QED BY <2>3
<1>3. Len(s) \in S
  <2> HIDE DEF S
  <2> QED BY <1>1, <1>2, SetInduction, LenProperties
<1>4. \E f : IsFilter(f, Len(s))
  BY <1>3
<1> QED BY <1>4 DEF Filtered, Step

LEMMA FilteredStep ==
  ASSUME NEW s \in Seq(Nat), NEW age \in Nat
  PROVE  /\ Filtered(s, age)[0] = << >>
         /\ \A n \in Nat : n + 1 <= Len(s) =>
              Filtered(s, age)[n + 1] = Step(s, age, n + 1, Filtered(s, age)[n])
<1> DEFINE f == Filtered(s, age)
<1>1. f = [n \in 0..Len(s) |-> IF n = 0 THEN << >> ELSE Step(s, age, n, f[n - 1])]
  BY FilteredDefined
<1>2. Len(s) \in Nat
  BY LenProperties
<1> HIDE DEF f
<1>3. f[0] = << >>
  BY <1>1, <1>2
<1>4. ASSUME NEW n \in Nat, n + 1 <= Len(s) PROVE f[n + 1] = Step(s, age, n + 1, f[n])
  <2>1. n + 1 \in 0..Len(s) /\ n + 1 # 0 /\ (n + 1) - 1 = n
    BY <1>4, <1>2
  <2> QED BY <1>1, <2>1
<1> QED BY <1>3, <1>4 DEF f

\* What is kept of the first n: younger elements of the sequence, n at most.
LEMMA FilteredKeeps ==
  ASSUME NEW s \in Seq(Nat), NEW age \in Nat
  PROVE  \A n \in 0..Len(s) :
           /\ Filtered(s, age)[n] \in Seq({a \in Nat : a < age /\ \E i \in 1..Len(s) : s[i] = a})
           /\ Len(Filtered(s, age)[n]) <= n
<1> DEFINE K == {a \in Nat : a < age /\ \E i \in 1..Len(s) : s[i] = a}
           f == Filtered(s, age)
           S == {n \in Nat : n <= Len(s) => f[n] \in Seq(K) /\ Len(f[n]) <= n}
<1>0. Len(s) \in Nat /\ \A n \in 1..Len(s) : s[n] \in Nat
  BY LenProperties, ElementOfSeq
<1>r. f[0] = << >> /\ \A n \in Nat : n + 1 <= Len(s) => f[n + 1] = Step(s, age, n + 1, f[n])
  BY FilteredStep
<1> HIDE DEF f
<1>1. 0 \in S
  <2>1. f[0] \in Seq(K) /\ Len(f[0]) = 0
    <3> HIDE DEF K
    <3> QED BY <1>r, EmptySeq
  <2> QED BY <2>1
<1>2. ASSUME NEW n \in Nat, n \in S PROVE n + 1 \in S
  <2> SUFFICES ASSUME n + 1 <= Len(s) PROVE f[n + 1] \in Seq(K) /\ Len(f[n + 1]) <= n + 1
    OBVIOUS
  <2>1. f[n] \in Seq(K) /\ Len(f[n]) <= n /\ Len(f[n]) \in Nat
    BY <1>2, <1>0, LenProperties
  <2>2. n + 1 \in 1..Len(s)
    BY <1>0
  <2>3. CASE s[n + 1] < age
    <3>1. s[n + 1] \in K
      BY <2>2, <2>3, <1>0
    <3> HIDE DEF K
    <3>2. f[n + 1] = Append(f[n], s[n + 1])
      BY <2>3, <1>r DEF Step
    <3> QED BY <3>1, <3>2, <2>1, AppendProperties
  <2>4. CASE ~(s[n + 1] < age)
    <3>1. f[n + 1] = f[n]
      BY <2>4, <1>r DEF Step
    <3> QED BY <3>1, <2>1
  <2> QED BY <2>3, <2>4
<1>3. Nat \subseteq S
  <2> HIDE DEF S
  <2> QED BY <1>1, <1>2, SetInduction
<1> QED
  <2> SUFFICES ASSUME NEW n \in 0..Len(s) PROVE f[n] \in Seq(K) /\ Len(f[n]) <= n
    BY DEF f
  <2>1. n \in Nat /\ n <= Len(s)
    BY <1>0
  <2>2. n \in S
    <3> HIDE DEF S
    <3> QED BY <2>1, <1>3
  <2> HIDE DEF K
  <2> QED BY <2>1, <2>2

LEMMA YoungerKeeps ==
  ASSUME NEW s \in Seq(Nat), NEW age \in Nat
  PROVE  /\ Younger(s, age) \in Seq({a \in Nat : a < age /\ \E i \in 1..Len(s) : s[i] = a})
         /\ Younger(s, age) \in Seq(Nat)
         /\ Len(Younger(s, age)) <= Len(s)
         /\ Len(Younger(s, age)) \in Nat
<1> DEFINE K == {a \in Nat : a < age /\ \E i \in 1..Len(s) : s[i] = a}
           y == Filtered(s, age)[Len(s)]
<1>1. Len(s) \in 0..Len(s)
  BY LenProperties
<1>2. y \in Seq(K) /\ Len(y) <= Len(s)
  BY <1>1, FilteredKeeps
<1>3. K \subseteq Nat
  OBVIOUS
<1> HIDE DEF K, y
<1>4. y \in Seq(Nat) /\ Len(y) \in Nat
  BY <1>2, <1>3, SeqMonotonic, LenProperties
<1> QED BY <1>2, <1>4 DEF K, y, Younger

\* Nothing is younger than zero.
LEMMA YoungerThanZero ==
  ASSUME NEW s \in Seq(Nat)
  PROVE  Len(Younger(s, 0)) = 0
<1> DEFINE y == Younger(s, 0)
<1>1. y \in Seq({a \in Nat : a < 0 /\ \E i \in 1..Len(s) : s[i] = a}) /\ Len(y) \in Nat
  BY YoungerKeeps
<1>2. {a \in Nat : a < 0 /\ \E i \in 1..Len(s) : s[i] = a} = {}
  OBVIOUS
<1> HIDE DEF y
<1>3. y \in Seq({})
  BY <1>1, <1>2
<1>4. Len(y) > 0 => y[1] \in {}
  BY <1>1, <1>3, ElementOfSeq
<1> QED BY <1>1, <1>4 DEF y

\* Filtering goes from the oldest to the youngest.
LEMMA YoungerAppend ==
  ASSUME NEW s \in Seq(Nat), NEW e \in Nat, NEW age \in Nat
  PROVE  Younger(Append(s, e), age) = IF e < age THEN Append(Younger(s, age), e) ELSE Younger(s, age)
<1> DEFINE a == Append(s, e)
           f == Filtered(s, age)
           g == Filtered(a, age)
           S == {n \in Nat : n <= Len(s) => g[n] = f[n]}
<1>0. /\ a \in Seq(Nat) /\ Len(a) = Len(s) + 1 /\ Len(s) \in Nat
      /\ a[Len(s) + 1] = e /\ \A n \in 1..Len(s) : a[n] = s[n]
  BY AppendProperties, LenProperties
<1>f. f[0] = << >> /\ \A n \in Nat : n + 1 <= Len(s) => f[n + 1] = Step(s, age, n + 1, f[n])
  BY FilteredStep
<1> HIDE DEF a
<1>g. g[0] = << >> /\ \A n \in Nat : n + 1 <= Len(a) => g[n + 1] = Step(a, age, n + 1, g[n])
  BY <1>0, FilteredStep
<1> HIDE DEF f, g
<1>1. 0 \in S
  BY <1>f, <1>g
<1>2. ASSUME NEW n \in Nat, n \in S PROVE n + 1 \in S
  <2> SUFFICES ASSUME n + 1 <= Len(s) PROVE g[n + 1] = f[n + 1]
    OBVIOUS
  <2>1. g[n] = f[n] /\ a[n + 1] = s[n + 1] /\ n + 1 <= Len(a)
    BY <1>2, <1>0
  <2> QED BY <2>1, <1>f, <1>g DEF Step
<1>3. Nat \subseteq S
  <2> HIDE DEF S
  <2> QED BY <1>1, <1>2, SetInduction
<1>4. g[Len(s)] = f[Len(s)]
  BY <1>3, <1>0
<1>5. g[Len(s) + 1] = Step(a, age, Len(s) + 1, g[Len(s)])
  BY <1>g, <1>0
<1>6. g[Len(s) + 1] = IF e < age THEN Append(f[Len(s)], e) ELSE f[Len(s)]
  BY <1>4, <1>5, <1>0 DEF Step
<1> QED BY <1>6, <1>0 DEF f, g, a, Younger

\* What is younger than k is kept by a filter for anything older.
LEMMA YoungerTwice ==
  ASSUME NEW s \in Seq(Nat), NEW age \in Nat, NEW k \in 0..age
  PROVE  Younger(Younger(s, age), k) = Younger(s, k)
<1> DEFINE f == Filtered(s, age)
           h == Filtered(s, k)
           S == {n \in Nat : n <= Len(s) => Younger(f[n], k) = h[n]}
<1>0. k \in Nat /\ k <= age /\ Len(s) \in Nat /\ \A n \in 1..Len(s) : s[n] \in Nat
  BY LenProperties, ElementOfSeq
<1>f. f[0] = << >> /\ \A n \in Nat : n + 1 <= Len(s) => f[n + 1] = Step(s, age, n + 1, f[n])
  BY FilteredStep
<1>h. h[0] = << >> /\ \A n \in Nat : n + 1 <= Len(s) => h[n + 1] = Step(s, k, n + 1, h[n])
  BY FilteredStep, <1>0
<1>s. \A n \in 0..Len(s) : f[n] \in Seq(Nat)
  <2> DEFINE K == {a \in Nat : a < age /\ \E i \in 1..Len(s) : s[i] = a}
  <2>1. \A n \in 0..Len(s) : f[n] \in Seq(K)
    BY FilteredKeeps
  <2>2. K \subseteq Nat
    OBVIOUS
  <2> HIDE DEF K, f
  <2> QED BY <2>1, <2>2, SeqMonotonic
<1> HIDE DEF f, h
<1>1. 0 \in S
  <2>1. Younger(<< >>, k) = << >>
    <3>1. << >> \in Seq(Nat) /\ Len(<< >>) = 0
      OBVIOUS
    <3>2. Filtered(<< >>, k)[0] = << >>
      BY <3>1, <1>0, FilteredStep
    <3> QED BY <3>1, <3>2 DEF Younger
  <2> QED BY <2>1, <1>f, <1>h
<1>2. ASSUME NEW n \in Nat, n \in S PROVE n + 1 \in S
  <2> SUFFICES ASSUME n + 1 <= Len(s) PROVE Younger(f[n + 1], k) = h[n + 1]
    OBVIOUS
  <2>1. Younger(f[n], k) = h[n] /\ f[n] \in Seq(Nat) /\ s[n + 1] \in Nat
    BY <1>2, <1>s, <1>0
  <2>2. CASE s[n + 1] < age
    <3>1. f[n + 1] = Append(f[n], s[n + 1])
      BY <2>2, <1>f DEF Step
    <3>2. Younger(Append(f[n], s[n + 1]), k) =
            IF s[n + 1] < k THEN Append(Younger(f[n], k), s[n + 1]) ELSE Younger(f[n], k)
      BY <2>1, <1>0, YoungerAppend
    <3> QED BY <3>1, <3>2, <2>1, <1>h DEF Step
  <2>3. CASE ~(s[n + 1] < age)
    <3>1. f[n + 1] = f[n] /\ ~(s[n + 1] < k)
      BY <2>3, <2>1, <1>0, <1>f DEF Step
    <3> QED BY <3>1, <2>1, <1>h DEF Step
  <2> QED BY <2>2, <2>3
<1>3. Nat \subseteq S
  <2> HIDE DEF S
  <2> QED BY <1>1, <1>2, SetInduction
<1> QED BY <1>3, <1>0 DEF f, h, Younger

\* After a tick, what is younger than k was younger than k - 1.
LEMMA YoungerAged ==
  ASSUME NEW s \in Seq(Nat), NEW most \in Nat, NEW k \in 1..most
  PROVE  /\ Aged(s, most) \in Seq(0..most) /\ Aged(s, most) \in Seq(Nat) /\ Len(Aged(s, most)) = Len(s)
         /\ Len(Younger(Aged(s, most), k)) = Len(Younger(s, k - 1))
<1> DEFINE a == Aged(s, most)
           f == Filtered(a, k)
           h == Filtered(s, k - 1)
           S == {n \in Nat : n <= Len(s) => Len(f[n]) = Len(h[n])}
<1>0. /\ k \in Nat /\ k <= most /\ k - 1 \in Nat /\ Len(s) \in Nat /\ DOMAIN s = 1..Len(s)
      /\ \A n \in 1..Len(s) : s[n] \in Nat
  BY LenProperties, ElementOfSeq
<1>a. a = [i \in 1..Len(s) |-> IF s[i] < most THEN s[i] + 1 ELSE most]
  BY <1>0 DEF Aged
<1>b. a \in Seq(0..most) /\ a \in Seq(Nat) /\ Len(a) = Len(s)
  <2>1. \A i \in 1..Len(s) : (IF s[i] < most THEN s[i] + 1 ELSE most) \in 0..most
    BY <1>0
  <2>2. a \in [1..Len(s) -> 0..most] /\ a \in [1..Len(s) -> Nat]
    BY <2>1, <1>a
  <2>3. DOMAIN a = 1..Len(s)
    BY <1>a
  <2> HIDE DEF a
  <2>4. a \in Seq(0..most)
    BY <2>2, <1>0, SeqDef
  <2>5. a \in Seq(Nat)
    BY <2>4, SeqMonotonic
  <2> QED BY <2>3, <2>4, <2>5, <1>0, LenProperties
<1>f. f[0] = << >> /\ \A n \in Nat : n + 1 <= Len(s) => f[n + 1] = Step(a, k, n + 1, f[n])
  <2> HIDE DEF a
  <2> QED BY <1>b, <1>0, FilteredStep
<1>h. h[0] = << >> /\ \A n \in Nat : n + 1 <= Len(s) => h[n + 1] = Step(s, k - 1, n + 1, h[n])
  BY FilteredStep, <1>0
<1>s. \A n \in 0..Len(s) : f[n] \in Seq(Nat) /\ h[n] \in Seq(Nat)
  <2> DEFINE K(t, age) == {x \in Nat : x < age /\ \E i \in 1..Len(t) : t[i] = x}
  <2>1. \A n \in 0..Len(s) : h[n] \in Seq(K(s, k - 1))
    BY FilteredKeeps, <1>0
  <2>2. \A n \in 0..Len(s) : f[n] \in Seq(K(a, k))
    <3> HIDE DEF a
    <3> QED BY FilteredKeeps, <1>b, <1>0
  <2>3. K(s, k - 1) \subseteq Nat /\ K(a, k) \subseteq Nat
    OBVIOUS
  <2> HIDE DEF K, f, h
  <2> QED BY <2>1, <2>2, <2>3, SeqMonotonic
<1> HIDE DEF a, f, h
<1>1. 0 \in S
  BY <1>f, <1>h
<1>2. ASSUME NEW n \in Nat, n \in S PROVE n + 1 \in S
  <2> SUFFICES ASSUME n + 1 <= Len(s) PROVE Len(f[n + 1]) = Len(h[n + 1])
    OBVIOUS
  <2>1. /\ Len(f[n]) = Len(h[n]) /\ f[n] \in Seq(Nat) /\ h[n] \in Seq(Nat) /\ s[n + 1] \in Nat
        /\ n + 1 \in 1..Len(s)
    BY <1>2, <1>s, <1>0
  <2>2. a[n + 1] = (IF s[n + 1] < most THEN s[n + 1] + 1 ELSE most) /\ a[n + 1] \in Nat
    BY <2>1, <1>a, <1>0
  <2>3. a[n + 1] < k <=> s[n + 1] < k - 1
    BY <2>1, <2>2, <1>0
  <2>4. CASE s[n + 1] < k - 1
    <3>1. f[n + 1] = Append(f[n], a[n + 1]) /\ h[n + 1] = Append(h[n], s[n + 1])
      BY <2>3, <2>4, <1>f, <1>h DEF Step
    <3>2. \A u \in Seq(Nat), e \in Nat : Len(Append(u, e)) = Len(u) + 1
      BY AppendProperties
    <3> QED BY <3>1, <3>2, <2>1, <2>2
  <2>5. CASE ~(s[n + 1] < k - 1)
    <3>1. f[n + 1] = f[n] /\ h[n + 1] = h[n]
      BY <2>3, <2>5, <1>f, <1>h DEF Step
    <3> QED BY <3>1, <2>1
  <2> QED BY <2>4, <2>5
<1>3. Nat \subseteq S
  <2> HIDE DEF S
  <2> QED BY <1>1, <1>2, SetInduction
<1>4. Len(f[Len(s)]) = Len(h[Len(s)])
  BY <1>3, <1>0
<1> QED BY <1>4, <1>b DEF f, h, a, Younger

-----------------------------------------------------------------------------
(* The limits.                                                             *)

LEMMA Windows ==
  /\ \A g \in Gate : Window[g] \in Nat \ {0} /\ Limit[g] \in Nat \ {0} /\ Window[g] <= Longest
  /\ Longest \in Nat /\ "minute" \in Gate /\ "hour" \in Gate
BY WindowAssumption, LimitAssumption DEF Gate, Window, Limit, Longest

LEMMA BoundedIs ==
  ASSUME NEW S, NEW n \in Nat
  PROVE  \A s : s \in BoundedSeq(S, n) <=> s \in Seq(S) /\ Len(s) <= n
<1>1. ASSUME NEW s \in BoundedSeq(S, n) PROVE s \in Seq(S) /\ Len(s) <= n
  <2>1. PICK m \in 0..n : s \in [1..m -> S]
    BY <1>1 DEF BoundedSeq, SeqOf
  <2>2. s \in Seq(S) /\ DOMAIN s = 1..m /\ m \in Nat
    BY <2>1, SeqDef
  <2>3. Len(s) = m
    BY <2>2, LenProperties
  <2> QED BY <2>2, <2>3
<1>2. ASSUME NEW s \in Seq(S), Len(s) <= n PROVE s \in BoundedSeq(S, n)
  <2>1. Len(s) \in 0..n /\ s \in [1..Len(s) -> S]
    BY <1>2, LenProperties
  <2> QED BY <2>1 DEF BoundedSeq, SeqOf
<1> QED BY <1>1, <1>2

\* A bucket, as it is kept: ages within the window, no more than the limit.
Bucket(g, s) == s \in Seq(0..Window[g]) /\ Len(s) <= Limit[g]

LEMMA BucketIs ==
  ASSUME NEW g \in Gate, NEW s
  PROVE  s \in BoundedSeq(0..Window[g], Limit[g]) <=> Bucket(g, s)
BY Windows, BoundedIs DEF Bucket

\* Every call of s has a token of its age in b, or one that was lost in a restart
\* of t.
Covers(g, b, s, t) ==
  \A k \in 0..Window[g] : Len(Younger(s, k)) <= Len(Younger(b, k)) + Limit[g] * Len(Younger(t, k))

LEMMA AgesAreNat ==
  ASSUME NEW n \in Nat, NEW s \in Seq(0..n)
  PROVE  s \in Seq(Nat)
<1>1. 0..n \subseteq Nat
  OBVIOUS
<1> QED BY <1>1, SeqMonotonic

\* Cleaning a bucket up keeps it one, and loses nothing younger than the window.
LEMMA CleanUp ==
  ASSUME NEW g \in Gate, NEW b, Bucket(g, b), NEW s, NEW t, Covers(g, b, s, t)
  PROVE  LET u == Younger(b, Window[g]) IN Bucket(g, u) /\ Covers(g, u, s, t) /\ Len(u) <= Len(b)
<1> DEFINE W == Window[g]
           u == Younger(b, W)
           K == {a \in Nat : a < W /\ \E i \in 1..Len(b) : b[i] = a}
<1>1. W \in Nat /\ Limit[g] \in Nat
  BY Windows
<1>2. b \in Seq(Nat) /\ Len(b) \in Nat /\ Len(b) <= Limit[g]
  BY <1>1, AgesAreNat, LenProperties DEF Bucket
<1>3. u \in Seq(K) /\ Len(u) <= Len(b) /\ Len(u) \in Nat
  BY <1>1, <1>2, YoungerKeeps
<1>4. K \subseteq 0..W
  BY <1>1
<1>5. \A k \in 0..W : Younger(u, k) = Younger(b, k)
  BY <1>1, <1>2, YoungerTwice
<1> HIDE DEF u, K, W
<1>6. u \in Seq(0..W)
  BY <1>3, <1>4, SeqMonotonic
<1>7. Bucket(g, u)
  BY <1>1, <1>2, <1>3, <1>6 DEF Bucket, W
<1>8. Covers(g, u, s, t)
  BY <1>5 DEF Covers, W
<1> QED BY <1>3, <1>7, <1>8 DEF u, W

\* How many restarts are younger than an age, times the limit.
LEMMA LostIsNat ==
  ASSUME NEW g \in Gate, NEW t \in Seq(Nat), NEW k \in 0..Window[g]
  PROVE  Limit[g] * Len(Younger(t, k)) \in Nat /\ Len(Younger(t, k)) \in Nat
<1>1. k \in Nat /\ Limit[g] \in Nat
  BY Windows
<1>2. Len(Younger(t, k)) \in Nat
  BY <1>1, YoungerKeeps
<1>3. \A m, n \in Nat : m * n \in Nat
  OBVIOUS
<1> QED BY <1>1, <1>2, <1>3

\* A token that is taken, with the call it is for or without.
LEMMA TakeToken ==
  ASSUME NEW g \in Gate, NEW b, Bucket(g, b), Len(b) < Limit[g], NEW s \in Seq(Nat), NEW t \in Seq(Nat),
         Covers(g, b, s, t)
  PROVE  /\ Bucket(g, Append(b, 0))
         /\ Covers(g, Append(b, 0), s, t) /\ Covers(g, Append(b, 0), Append(s, 0), t)
<1> DEFINE W == Window[g]
<1>1. W \in Nat /\ Limit[g] \in Nat /\ 0 \in 0..W
  BY Windows
<1>2. b \in Seq(Nat) /\ b \in Seq(0..W) /\ Len(b) \in Nat
  BY <1>1, AgesAreNat, LenProperties DEF Bucket
<1>3. Append(b, 0) \in Seq(0..W) /\ Len(Append(b, 0)) = Len(b) + 1
  BY <1>1, <1>2, AppendProperties
<1>4. ASSUME NEW k \in 0..W
      PROVE  /\ Len(Younger(s, k)) <= Len(Younger(Append(b, 0), k)) + Limit[g] * Len(Younger(t, k))
             /\ Len(Younger(Append(s, 0), k)) <= Len(Younger(Append(b, 0), k)) + Limit[g] * Len(Younger(t, k))
  <2> DEFINE lost == Limit[g] * Len(Younger(t, k))
  <2>0. k \in Nat /\ lost \in Nat
    BY <1>1, LostIsNat
  <2>1. /\ Younger(s, k) \in Seq(Nat) /\ Len(Younger(s, k)) \in Nat
        /\ Younger(b, k) \in Seq(Nat) /\ Len(Younger(b, k)) \in Nat
    BY <2>0, <1>2, YoungerKeeps
  <2>2. Len(Younger(s, k)) <= Len(Younger(b, k)) + lost
    BY DEF Covers
  <2>3. /\ Younger(Append(s, 0), k) = IF 0 < k THEN Append(Younger(s, k), 0) ELSE Younger(s, k)
        /\ Younger(Append(b, 0), k) = IF 0 < k THEN Append(Younger(b, k), 0) ELSE Younger(b, k)
    BY <2>0, <1>2, YoungerAppend
  <2>4. /\ Len(Append(Younger(s, k), 0)) = Len(Younger(s, k)) + 1
        /\ Len(Append(Younger(b, k), 0)) = Len(Younger(b, k)) + 1
    BY <2>1, AppendProperties
  <2> HIDE DEF lost
  <2>5. /\ Len(Younger(s, k)) <= Len(Younger(Append(b, 0), k)) + lost
        /\ Len(Younger(Append(s, 0), k)) <= Len(Younger(Append(b, 0), k)) + lost
    BY <2>0, <2>1, <2>2, <2>3, <2>4
  <2> QED BY <2>5 DEF lost
<1> QED BY <1>1, <1>2, <1>3, <1>4 DEF Bucket, Covers

\* A restart loses a bucket, which held no more than the limit.
LEMMA LoseBucket ==
  ASSUME NEW g \in Gate, NEW b, Bucket(g, b), NEW s \in Seq(Nat), NEW t \in Seq(Nat), Covers(g, b, s, t)
  PROVE  Bucket(g, << >>) /\ Covers(g, << >>, s, Append(t, 0))
<1> DEFINE L == Limit[g]
<1>1. Window[g] \in Nat /\ L \in Nat /\ << >> \in Seq(Nat) /\ Bucket(g, << >>)
  BY Windows, EmptySeq DEF Bucket
<1>2. b \in Seq(Nat) /\ Len(b) \in Nat /\ Len(b) <= L
  BY <1>1, AgesAreNat, LenProperties DEF Bucket
<1>3. ASSUME NEW k \in 0..Window[g]
      PROVE  Len(Younger(s, k)) <= Len(Younger(<< >>, k)) + L * Len(Younger(Append(t, 0), k))
  <2> DEFINE R == Len(Younger(t, k))
             R1 == Len(Younger(Append(t, 0), k))
  <2>0. k \in Nat
    BY <1>1
  <2>1. /\ Len(Younger(s, k)) \in Nat /\ R \in Nat /\ Younger(t, k) \in Seq(Nat)
        /\ Len(Younger(b, k)) \in Nat /\ Len(Younger(b, k)) <= Len(b)
        /\ Len(Younger(<< >>, k)) \in Nat
    BY <2>0, <1>1, <1>2, YoungerKeeps
  <2>2. Append(t, 0) \in Seq(Nat)
    BY AppendProperties
  <2>3. R1 \in Nat
    BY <2>0, <2>2, YoungerKeeps
  <2>4. CASE k = 0
    <3>1. Len(Younger(s, k)) = 0
      BY <2>4, YoungerThanZero
    <3>2. L * R1 \in Nat
      <4> HIDE DEF R1, L
      <4>1. \A m, n \in Nat : m * n \in Nat
        OBVIOUS
      <4> QED BY <1>1, <2>3, <4>1
    <3> QED BY <3>1, <3>2, <2>1
  <2>5. CASE k # 0
    <3>1. Younger(Append(t, 0), k) = Append(Younger(t, k), 0)
      BY <2>0, <2>5, YoungerAppend
    <3>2. R1 = R + 1
      BY <3>1, <2>1, AppendProperties
    <3>3. Len(Younger(s, k)) <= Len(Younger(b, k)) + L * R
      BY DEF Covers
    <3>4. L * R1 = L * R + L /\ L * R \in Nat
      <4> HIDE DEF R, R1, L
      <4>1. \A m, n \in Nat : m * (n + 1) = m * n + m /\ m * n \in Nat
        OBVIOUS
      <4> QED BY <1>1, <2>1, <3>2, <4>1
    <3>5. Len(Younger(b, k)) \in Nat /\ Len(Younger(b, k)) <= L
      BY <2>1, <1>1, <1>2
    <3>6. Len(Younger(s, k)) <= L * R1
      <4> HIDE DEF R, R1, L
      <4> QED BY <3>3, <3>4, <3>5, <2>1, <1>1
    <3>7. Len(Younger(<< >>, k)) \in Nat /\ L * R1 \in Nat
      <4> HIDE DEF R, R1, L
      <4> QED BY <3>4, <2>1, <1>1
    <3>8. Len(Younger(s, k)) <= Len(Younger(<< >>, k)) + L * R1
      <4> HIDE DEF R, R1, L
      <4>1. Len(Younger(<< >>, k)) \in Nat /\ Len(Younger(s, k)) \in Nat
        BY <2>1
      <4> QED BY <3>6, <3>7, <4>1
    <3> QED BY <3>8
  <2> QED BY <2>4, <2>5
<1> QED BY <1>1, <1>3 DEF Covers

\* A tick makes all of them a tick older.
LEMMA AllAge ==
  ASSUME NEW g \in Gate, NEW b, Bucket(g, b), NEW s \in Seq(Nat), NEW t \in Seq(Nat), Covers(g, b, s, t)
  PROVE  /\ Bucket(g, Aged(b, Window[g]))
         /\ Covers(g, Aged(b, Window[g]), Younger(Aged(s, Longest), Longest), Younger(Aged(t, Longest), Longest))
<1> DEFINE W == Window[g]
           Then(u) == Younger(Aged(u, Longest), Longest)
<1>1. W \in Nat /\ 1 \in 1..W /\ 1 \in 1..Longest /\ Longest \in Nat /\ W <= Longest
  BY Windows
<1>2. b \in Seq(Nat)
  BY <1>1, AgesAreNat DEF Bucket
<1>3. Bucket(g, Aged(b, W))
  <2>1. Aged(b, W) \in Seq(0..W) /\ Len(Aged(b, W)) = Len(b)
    BY <1>1, <1>2, YoungerAged
  <2> QED BY <2>1 DEF Bucket
<1>4. Aged(b, W) \in Seq(Nat)
  BY <1>1, <1>2, YoungerAged
<1>5. ASSUME NEW u \in Seq(Nat), NEW k \in 0..W
      PROVE  /\ Younger(Then(u), k) = Younger(Aged(u, Longest), k)
             /\ Aged(u, Longest) \in Seq(Nat) /\ Then(u) \in Seq(Nat)
             /\ k # 0 => Len(Younger(Then(u), k)) = Len(Younger(u, k - 1))
  <2>1. k \in 0..Longest /\ k \in Nat /\ Longest \in Nat /\ 1 \in 1..Longest
    BY <1>1
  <2>5. Aged(u, Longest) \in Seq(Nat)
    BY <2>1, YoungerAged
  <2>2. Younger(Then(u), k) = Younger(Aged(u, Longest), k)
    BY <2>1, <2>5, YoungerTwice
  <2>3. Then(u) \in Seq(Nat)
    BY <2>1, <2>5, YoungerKeeps
  <2>4. ASSUME k # 0 PROVE Len(Younger(Aged(u, Longest), k)) = Len(Younger(u, k - 1))
    <3>1. k \in 1..Longest
      BY <2>1, <2>4
    <3> QED BY <2>1, <3>1, YoungerAged
  <2> QED BY <2>2, <2>3, <2>4, <2>5
<1>6. ASSUME NEW k \in 0..W
      PROVE  Len(Younger(Then(s), k)) <= Len(Younger(Aged(b, W), k)) + Limit[g] * Len(Younger(Then(t), k))
  <2>1. CASE k = 0
    <3>1. Len(Younger(Then(s), k)) = 0 /\ Then(t) \in Seq(Nat)
      BY <2>1, <1>5, YoungerThanZero
    <3>2. Len(Younger(Aged(b, W), k)) \in Nat /\ k \in Nat
      BY <2>1, <1>4, YoungerKeeps
    <3>3. Limit[g] * Len(Younger(Then(t), k)) \in Nat
      <4> HIDE DEF Then
      <4> QED BY <3>1, LostIsNat
    <3> QED BY <3>1, <3>2, <3>3
  <2>2. CASE k # 0
    <3>1. k \in 1..W /\ k - 1 \in 0..W
      BY <2>2, <1>1
    <3>2. Len(Younger(Then(s), k)) = Len(Younger(s, k - 1)) /\ Len(Younger(Then(t), k)) = Len(Younger(t, k - 1))
      BY <2>2, <1>5
    <3>3. Len(Younger(Aged(b, W), k)) = Len(Younger(b, k - 1))
      BY <3>1, <1>1, <1>2, YoungerAged
    <3>4. Len(Younger(s, k - 1)) <= Len(Younger(b, k - 1)) + Limit[g] * Len(Younger(t, k - 1))
      BY <3>1 DEF Covers
    <3> QED BY <3>2, <3>3, <3>4
  <2> QED BY <2>1, <2>2
<1> QED BY <1>3, <1>6 DEF Covers

\* What is left of a history when time passes is one.
LEMMA HistoryAges ==
  ASSUME NEW s \in Seq(0..Longest)
  PROVE  Younger(Aged(s, Longest), Longest) \in Seq(0..Longest)
<1> DEFINE a == Aged(s, Longest)
           K == {x \in Nat : x < Longest /\ \E i \in 1..Len(a) : a[i] = x}
<1>1. Longest \in Nat /\ 1 \in 1..Longest /\ s \in Seq(Nat)
  BY Windows, AgesAreNat
<1>2. a \in Seq(Nat)
  BY <1>1, YoungerAged
<1> HIDE DEF a
<1>3. Younger(a, Longest) \in Seq(K)
  BY <1>1, <1>2, YoungerKeeps
<1>4. K \subseteq 0..Longest
  BY <1>1
<1> HIDE DEF K
<1> QED BY <1>3, <1>4, SeqMonotonic DEF a

GatesOK ==
  /\ \A g \in Gate : Bucket(g, buckets[g]) /\ Covers(g, buckets[g], calls, restarts)
  /\ calls \in Seq(0..Longest) /\ restarts \in Seq(0..Longest)

LEMMA GatesOKIs == GatesInv <=> GatesOK
BY BucketIs DEF GatesInv, GatesTypeOK, GatesOK, EveryCallHasToken, Covers

LEMMA GatesInitInv == GatesInit => GatesOK
<1> SUFFICES ASSUME GatesInit PROVE GatesOK
  OBVIOUS
<1>1. calls = << >> /\ restarts = << >> /\ \A g \in Gate : buckets[g] = << >>
  BY DEF GatesInit
<1>2. \A g \in Gate : Bucket(g, << >>)
  BY Windows, EmptySeq DEF Bucket
<1>3. ASSUME NEW g \in Gate PROVE Covers(g, << >>, << >>, << >>)
  <2>1. << >> \in Seq(Nat)
    BY EmptySeq
  <2>2. \A k \in 0..Window[g] : Len(Younger(<< >>, k)) \in Nat /\ Limit[g] * Len(Younger(<< >>, k)) \in Nat
    BY <2>1, LostIsNat
  <2>3. ASSUME NEW k \in 0..Window[g]
        PROVE  Len(Younger(<< >>, k)) <= Len(Younger(<< >>, k)) + Limit[g] * Len(Younger(<< >>, k))
    BY <2>2
  <2> QED BY <2>3 DEF Covers
<1>4. calls \in Seq(0..Longest) /\ restarts \in Seq(0..Longest)
  BY <1>1, EmptySeq
<1> QED BY <1>1, <1>2, <1>3, <1>4 DEF GatesOK

LEMMA GatesStep ==
  ASSUME GatesOK, Attempt \/ Tick \/ NewLimiter \/ UNCHANGED gateVars
  PROVE  GatesOK'
<1>1. /\ calls \in Seq(Nat) /\ calls \in Seq(0..Longest) /\ 0 \in 0..Longest
      /\ restarts \in Seq(Nat) /\ restarts \in Seq(0..Longest)
  BY Windows, AgesAreNat DEF GatesOK
<1>2. ASSUME NEW g \in Gate
      PROVE  /\ Bucket(g, Unexpired(g)) /\ Covers(g, Unexpired(g), calls, restarts)
             /\ HasToken(g) => /\ Bucket(g, Took(g, Unexpired(g)))
                               /\ Covers(g, Took(g, Unexpired(g)), calls, restarts)
                               /\ Covers(g, Took(g, Unexpired(g)), Append(calls, 0), restarts)
  <2>1. Bucket(g, Unexpired(g)) /\ Covers(g, Unexpired(g), calls, restarts)
    BY <1>1, CleanUp DEF GatesOK, Unexpired
  <2> QED BY <2>1, <1>1, TakeToken DEF HasToken, Took
<1>3. CASE Admitted
  <2>1. calls' = Append(calls, 0) /\ calls' \in Seq(0..Longest) /\ restarts' = restarts
    BY <1>1, <1>3, AppendProperties DEF Admitted
  <2>2. \A g \in Gate : HasToken(g) /\ buckets'[g] = Took(g, Unexpired(g))
    BY <1>3 DEF Admitted
  <2> QED BY <2>1, <2>2, <1>1, <1>2 DEF GatesOK
<1>4. CASE RefusedByMinute
  <2>1. calls' = calls /\ restarts' = restarts
    BY <1>4 DEF RefusedByMinute
  <2>2. \A g \in Gate : buckets'[g] = buckets[g] \/ buckets'[g] = Unexpired(g)
    BY <1>4 DEF RefusedByMinute, Gate
  <2> QED BY <2>1, <2>2, <1>2 DEF GatesOK
<1>5. CASE RefusedByHour
  <2>1. calls' = calls /\ restarts' = restarts
    BY <1>5 DEF RefusedByHour
  <2>2. \A g \in Gate : buckets'[g] = Unexpired(g) \/ (HasToken(g) /\ buckets'[g] = Took(g, Unexpired(g)))
    BY <1>5 DEF RefusedByHour, Gate
  <2> QED BY <2>1, <2>2, <1>2 DEF GatesOK
<1>6. CASE Tick
  <2>1. /\ calls' = Younger(Aged(calls, Longest), Longest) /\ restarts' = Younger(Aged(restarts, Longest), Longest)
        /\ \A g \in Gate : buckets'[g] = Aged(buckets[g], Window[g])
    BY <1>6 DEF Tick
  <2>2. \A g \in Gate : Bucket(g, buckets'[g]) /\ Covers(g, buckets'[g], calls', restarts')
    BY <2>1, <1>1, AllAge DEF GatesOK
  <2>3. calls' \in Seq(0..Longest) /\ restarts' \in Seq(0..Longest)
    BY <2>1, <1>1, HistoryAges
  <2> QED BY <2>2, <2>3 DEF GatesOK
<1>7. CASE NewLimiter
  <2>1. /\ calls' = calls /\ restarts' = Append(restarts, 0) /\ restarts' \in Seq(0..Longest)
        /\ \A g \in Gate : buckets'[g] = << >>
    BY <1>1, <1>7, AppendProperties DEF NewLimiter
  <2>2. \A g \in Gate : Bucket(g, << >>) /\ Covers(g, << >>, calls, Append(restarts, 0))
    BY <1>1, LoseBucket DEF GatesOK
  <2> QED BY <2>1, <2>2, <1>1 DEF GatesOK
<1>8. CASE UNCHANGED gateVars
  BY <1>8 DEF gateVars, GatesOK
<1> QED BY <1>3, <1>4, <1>5, <1>6, <1>7, <1>8 DEF Attempt

LEMMA GatesLimit == GatesOK => CallsWithinLimits
<1> SUFFICES ASSUME GatesOK, NEW g \in Gate
             PROVE  Len(Younger(calls, Window[g])) <= Limit[g] * (1 + Len(Younger(restarts, Window[g])))
  BY DEF CallsWithinLimits
<1> DEFINE L == Limit[g]
           R == Len(Younger(restarts, Window[g]))
<1>1. /\ Window[g] \in Nat /\ Window[g] \in 0..Window[g] /\ L \in Nat
      /\ calls \in Seq(Nat) /\ restarts \in Seq(Nat)
  BY Windows, AgesAreNat DEF GatesOK
<1>2. buckets[g] \in Seq(Nat) /\ Len(buckets[g]) <= L /\ Len(buckets[g]) \in Nat
  BY <1>1, AgesAreNat, LenProperties DEF GatesOK, Bucket
<1>3. Len(Younger(calls, Window[g])) <= Len(Younger(buckets[g], Window[g])) + L * R
  BY <1>1 DEF GatesOK, Covers
<1>4. /\ Len(Younger(buckets[g], Window[g])) <= Len(buckets[g]) /\ R \in Nat
      /\ Len(Younger(buckets[g], Window[g])) \in Nat /\ Len(Younger(calls, Window[g])) \in Nat
  BY <1>1, <1>2, YoungerKeeps
<1> HIDE DEF L, R
<1>5. L * (1 + R) = L + L * R /\ L * R \in Nat
  <2>1. \A m, n \in Nat : m * (1 + n) = m + m * n /\ m * n \in Nat
    OBVIOUS
  <2> QED BY <1>1, <1>4, <2>1
<1>6. Len(Younger(calls, Window[g])) <= L * (1 + R)
  BY <1>1, <1>2, <1>3, <1>4, <1>5
<1> QED BY <1>6 DEF L, R

-----------------------------------------------------------------------------
(* The messages: what the steps of the runs do, in kinds.                  *)

\* The depth a run has on record is the true one, as far as it was counted.
Counted(t) == ~t.restarted => t.hops = t.real /\ t.real <= MAX_AGENT_HOPS

\* A run that is woken, if it is: Free stands for a message that wakes nobody.
Plain(x) ==
  x = Free \/ (/\ x \in Run /\ x.stage = "waiting" /\ Counted(x)
               /\ x.relay = FALSE /\ x.question = 0 /\ (x.peer = Nobody => x.home = x.at))

Carrying(x) ==
  x = Free \/ (/\ x \in Run /\ x.stage = "waiting" /\ Counted(x)
               /\ x.relay = TRUE /\ x.question = Len(questions) + 1 /\ x.peer \notin {Nobody, x.at})

\* A slot is taken, or one is used again or freed whose answer was lost.
Puts(r, x) ==
  /\ Plain(x) /\ Put(r, x) /\ UNCHANGED <<questions, told>>
  /\ r \in Busy => faults' = faults + 1 \/ (faults' = faults /\ run[r].stage # "answered")
  /\ r \notin Busy => faults' = faults

\* A message goes out for somebody's sake.
Relays(r, x, q) ==
  /\ r \notin Busy /\ Carrying(x) /\ Put(r, x)
  /\ q \in [home : Agent, passedOn : BOOLEAN, answered : {FALSE}]
  /\ questions' = Append(questions, q) /\ (x # Free => x.peer = q.home \/ q.passedOn)
  /\ UNCHANGED <<told, faults>>

\* An answer comes in, and is told to whoever waits for it.
Carries(r, x) ==
  /\ r \in In("answered") /\ Plain(x) /\ Put(r, x) /\ Tells(run[r])
  /\ UNCHANGED <<questions, faults>>

LEMMA TalkFacts ==
  ASSUME TalkTypeOK
  PROVE  /\ \A r \in Busy : run[r] \in Run /\ r \in Slot
         /\ \A r \in Slot : r \notin Busy => run[r] = Free
         /\ DOMAIN run = Slot
         /\ questions \in Seq([home : Agent, passedOn : BOOLEAN, answered : BOOLEAN])
         /\ DOMAIN questions = 1..Len(questions) /\ Len(questions) \in Nat
         /\ told \in Seq([question : DOMAIN questions, at : Agent])
         /\ DOMAIN told = 1..Len(told) /\ Len(told) \in Nat
         /\ faults \in Nat /\ sends \in Nat
<1>1. told \in Seq([question : DOMAIN questions, at : Agent]) /\ questions \in Seq([home : Agent, passedOn : BOOLEAN, answered : BOOLEAN])
  BY DEF TalkTypeOK
<1>2. DOMAIN questions = 1..Len(questions) /\ Len(questions) \in Nat /\ DOMAIN told = 1..Len(told) /\ Len(told) \in Nat
  BY <1>1, LenProperties
<1> QED BY <1>1, <1>2 DEF TalkTypeOK, Busy

\* A message that arrives wakes a run that is one deeper, or nobody.
LEMMA Wakening ==
  ASSUME NEW t \in Run, Counted(t)
  PROVE  LET x == IF Wakes(t) THEN Woken(t) ELSE Free IN
         \/ x = Free
         \/ /\ x \in Run /\ x.stage = "waiting" /\ Counted(x)
            /\ x.relay = t.relay /\ x.question = t.question /\ x.peer = t.peer /\ x.home = t.home /\ x.at = t.at
<1> SUFFICES ASSUME Wakes(t)
             PROVE  /\ Woken(t) \in Run /\ Woken(t).stage = "waiting" /\ Counted(Woken(t))
                    /\ Woken(t).relay = t.relay /\ Woken(t).question = t.question
                    /\ Woken(t).peer = t.peer /\ Woken(t).home = t.home /\ Woken(t).at = t.at
  OBVIOUS
<1>1. t.real \in Nat /\ t.hops \in Nat /\ t.hops < MAX_AGENT_HOPS
  BY DEF Run, Wakes
<1>2. /\ Deeper(t.real) \in Nat
      /\ t.real < MAX_AGENT_HOPS => Deeper(t.real) = t.real + 1
  BY <1>1, TalkAssumption DEF Deeper
<1>3. Woken(t) = [t EXCEPT !.stage = "waiting", !.hops = t.hops + 1, !.real = Deeper(t.real)]
  BY DEF Woken, Run
<1>4. t.hops + 1 \in Nat
  BY <1>1
<1>5. /\ Woken(t) \in Run /\ Woken(t).stage = "waiting"
      /\ Woken(t).relay = t.relay /\ Woken(t).question = t.question
      /\ Woken(t).peer = t.peer /\ Woken(t).home = t.home /\ Woken(t).at = t.at
      /\ Woken(t).hops = t.hops + 1 /\ Woken(t).real = Deeper(t.real) /\ Woken(t).restarted = t.restarted
  BY <1>2, <1>3, <1>4 DEF Run
<1>6. Counted(Woken(t))
  BY <1>1, <1>2, <1>5, TalkAssumption DEF Counted
<1> QED BY <1>5, <1>6

LEMMA RestartedIs ==
  ASSUME NEW t \in Run
  PROVE  LET x == Restarted(t) IN
         /\ x \in Run /\ x.restarted = TRUE /\ x.relay = FALSE /\ x.question = 0
         /\ x.stage = t.stage /\ x.at = t.at /\ x.peer = t.peer /\ x.home = t.home /\ x.real = t.real
BY DEF Run, Restarted

LEMMA ToIs ==
  ASSUME NEW t \in Run, NEW b \in Agent
  PROVE  LET x == To(b, t) IN
         /\ x \in Run /\ x.at = b /\ x.peer = t.at /\ x.hops = t.hops /\ x.real = t.real
         /\ x.restarted = t.restarted /\ x.relay = t.relay /\ x.question = t.question /\ x.home = t.home
BY DEF Run, To

\* What the answer of t, or of t with its facts lost, wakes.
LEMMA AnswerIsPlain ==
  ASSUME NEW t \in Run, Counted(t), t.peer # Nobody
  PROVE  Plain(IF Wakes(AnswerTo(t)) THEN Woken(AnswerTo(t)) ELSE Free)
<1>1. t.peer \in Agent
  BY DEF Run
<1> DEFINE x == To(t.peer, t)
           y == [x EXCEPT !.relay = FALSE, !.question = 0]
<1>2. /\ x \in Run /\ x.at = t.peer /\ x.peer = t.at /\ x.hops = t.hops /\ x.real = t.real
      /\ x.restarted = t.restarted /\ t.at \in Agent /\ Nobody \notin Agent
  BY <1>1, ToIs, TalkAssumption DEF Run
<1> HIDE DEF x
<1>3. /\ y \in Run /\ y.relay = FALSE /\ y.question = 0 /\ y.peer = t.at /\ y.peer # Nobody
      /\ y.hops = t.hops /\ y.real = t.real /\ y.restarted = t.restarted
  BY <1>2 DEF Run
<1>4. y = AnswerTo(t)
  BY DEF AnswerTo, x
<1> HIDE DEF y
<1>5. Counted(y)
  BY <1>3 DEF Counted
<1>6. Plain(IF Wakes(y) THEN Woken(y) ELSE Free)
  BY <1>3, <1>5, Wakening DEF Plain
<1> QED BY <1>4, <1>6

LEMMA AskedPuts ==
  ASSUME NEW a \in Agent, NEW p \in Agent \cup {Nobody}, Asks(a, p)
  PROVE  \E x : Fresh \in Slot /\ Puts(Fresh, x)
<1> DEFINE x == [stage |-> "waiting", at |-> a, peer |-> p, hops |-> 0, relay |-> FALSE,
                 question |-> 0, real |-> 0, restarted |-> FALSE, home |-> a]
<1>1. x \in Run /\ Counted(x)
  BY TalkAssumption DEF Run, Counted
<1>2. Plain(x)
  BY <1>1 DEF Plain
<1> HIDE DEF x
<1>3. Fresh \in Slot /\ Fresh \notin Busy
  BY FreshIsFree DEF Asks
<1>4. Put(Fresh, x) /\ UNCHANGED <<questions, told, faults>>
  BY DEF Asks, x
<1> QED BY <1>2, <1>3, <1>4 DEF Puts

LEMMA MessageKind ==
  ASSUME TalkInv, NEW r \in Slot, NEW b \in Agent, Messages(r, b)
  PROVE  Fresh \in Slot /\ \E x : Puts(Fresh, x) \/ \E q : Relays(Fresh, x, q)
<1> DEFINE t == run[r]
<1>1. /\ t \in Run /\ Counted(t) /\ r \in Busy /\ b # t.at /\ UNCHANGED <<told, faults>>
      /\ t.peer = Nobody => t.home = t.at
  BY TalkFacts DEF TalkInv, Messages, Sends, In, Counted, DepthOnRecord, KnowsWhom
<1>2. Fresh \in Slot /\ Fresh \notin Busy
  BY FreshIsFree DEF Messages, Sends
<1>3. t.at \in Agent /\ t.home \in Agent /\ t.relay \in BOOLEAN /\ Nobody \notin Agent /\ Len(questions) + 1 \in Nat
  BY <1>1, TalkAssumption, TalkFacts DEF TalkInv, Run
<1> DEFINE u == To(b, t)
<1>4. /\ u \in Run /\ u.at = b /\ u.peer = t.at /\ u.hops = t.hops /\ u.real = t.real
      /\ u.restarted = t.restarted /\ u.home = t.home
  BY <1>1, ToIs
<1>5. IF OnBehalf(t)
      THEN /\ Arrives(Fresh, [u EXCEPT !.relay = TRUE, !.question = Len(questions) + 1])
           /\ questions' = Append(questions, [home |-> t.home, passedOn |-> t.relay, answered |-> FALSE])
      ELSE /\ Arrives(Fresh, [u EXCEPT !.relay = FALSE, !.question = 0])
           /\ UNCHANGED questions
  BY DEF Messages
<1> HIDE DEF t, u
<1>6. CASE OnBehalf(t)
  <2> DEFINE y == [u EXCEPT !.relay = TRUE, !.question = Len(questions) + 1]
             x == IF Wakes(y) THEN Woken(y) ELSE Free
             q == [home |-> t.home, passedOn |-> t.relay, answered |-> FALSE]
  <2>1. /\ y \in Run /\ y.relay = TRUE /\ y.question = Len(questions) + 1 /\ y.peer = t.at /\ y.at = b
        /\ y.hops = t.hops /\ y.real = t.real /\ y.restarted = t.restarted
    BY <1>3, <1>4 DEF Run
  <2>2. q \in [home : Agent, passedOn : BOOLEAN, answered : {FALSE}] /\ (t.at = q.home \/ q.passedOn)
    BY <1>1, <1>3, <1>6 DEF OnBehalf
  <2>3. Put(Fresh, x) /\ questions' = Append(questions, q)
    BY <1>5, <1>6 DEF Arrives
  <2> HIDE DEF y, q
  <2>4. Counted(y)
    BY <2>1, <1>1 DEF Counted
  <2>5. x = Free \/ (/\ x \in Run /\ x.stage = "waiting" /\ Counted(x) /\ x.relay = TRUE
                     /\ x.question = Len(questions) + 1 /\ x.peer = t.at /\ x.at = b)
    BY <2>1, <2>4, Wakening
  <2> HIDE DEF x
  <2>6. Carrying(x) /\ (x # Free => x.peer = q.home \/ q.passedOn)
    BY <2>2, <2>5, <1>1, <1>3 DEF Carrying
  <2> QED BY <1>1, <1>2, <2>2, <2>3, <2>6 DEF Relays
<1>7. CASE ~OnBehalf(t)
  <2> DEFINE y == [u EXCEPT !.relay = FALSE, !.question = 0]
             x == IF Wakes(y) THEN Woken(y) ELSE Free
  <2>1. /\ y \in Run /\ y.relay = FALSE /\ y.question = 0 /\ y.peer = t.at /\ y.at = b
        /\ y.hops = t.hops /\ y.real = t.real /\ y.restarted = t.restarted
    BY <1>4 DEF Run
  <2>2. Put(Fresh, x) /\ UNCHANGED questions
    BY <1>5, <1>7 DEF Arrives
  <2> HIDE DEF y
  <2>3. Counted(y)
    BY <2>1, <1>1 DEF Counted
  <2>4. Plain(x)
    BY <2>1, <2>3, <1>3, Wakening DEF Plain
  <2> HIDE DEF x
  <2> QED BY <1>1, <1>2, <2>2, <2>4 DEF Puts
<1> QED BY <1>2, <1>6, <1>7

\* What a run whose count is restarted sends.
LEMMA RestartedPuts ==
  ASSUME TalkInv, NEW r \in Slot,
         \/ \E b \in Agent : MessagesOverMcp(r, b) \/ \E session \in BOOLEAN : Submits(r, b, session)
         \/ Spawns(r)
  PROVE  \E x : Fresh \in Slot /\ Puts(Fresh, x)
<1> DEFINE t == Restarted(run[r])
<1>0. Sends(r)
  BY DEF MessagesOverMcp, Submits, Spawns
<1>1. run[r] \in Run /\ UNCHANGED <<told, faults>> /\ run[r].at \in Agent
  BY <1>0, TalkFacts DEF TalkInv, Sends, In, Run
<1>2. Fresh \in Slot /\ Fresh \notin Busy
  BY <1>0, FreshIsFree DEF Sends
<1>3. /\ t \in Run /\ t.restarted = TRUE /\ t.relay = FALSE /\ t.question = 0 /\ t.at = run[r].at /\ t.at \in Agent
      /\ Nobody \notin Agent /\ t.real \in Nat /\ t.stage = run[r].stage
  BY <1>1, RestartedIs, TalkAssumption DEF Run
<1>4. Deeper(t.real) \in Nat
  BY <1>3 DEF Deeper
<1> HIDE DEF t
<1>5. ASSUME NEW b \in Agent, MessagesOverMcp(r, b) PROVE \E x : Plain(x) /\ Put(Fresh, x)
  <2> DEFINE y == To(b, t)
             x == IF Wakes(y) THEN Woken(y) ELSE Free
  <2>1. y \in Run /\ y.relay = FALSE /\ y.question = 0 /\ y.peer = t.at /\ y.restarted = TRUE
    BY <1>3, ToIs
  <2>2. Put(Fresh, x)
    BY <1>5 DEF MessagesOverMcp, Arrives, t
  <2> HIDE DEF y
  <2>3. Plain(x)
    BY <2>1, <1>3, Wakening DEF Plain, Counted
  <2> QED BY <2>2, <2>3
<1>6. ASSUME NEW b \in Agent, NEW session \in BOOLEAN, Submits(r, b, session)
      PROVE  \E x : Plain(x) /\ Put(Fresh, x)
  <2> DEFINE y == To(b, t)
             x == [y EXCEPT !.stage = "waiting", !.real = Deeper(@), !.peer = IF session THEN Nobody ELSE @, !.home = b]
  <2>1. y \in Run /\ y.relay = FALSE /\ y.question = 0 /\ y.peer = t.at /\ y.restarted = TRUE /\ y.real = t.real /\ y.at = b
    BY <1>3, ToIs
  <2>2. Put(Fresh, x)
    BY <1>6 DEF Submits, t
  <2> HIDE DEF y
  <2>3. /\ x \in Run /\ x.stage = "waiting" /\ x.relay = FALSE /\ x.question = 0 /\ x.restarted = TRUE
        /\ x.home = b /\ x.at = b
    BY <2>1, <1>3, <1>4 DEF Run
  <2>4. Plain(x)
    BY <2>3 DEF Plain, Counted
  <2> QED BY <2>2, <2>4
<1>7. ASSUME Spawns(r) PROVE \E x : Plain(x) /\ Put(Fresh, x)
  <2> DEFINE x == [t EXCEPT !.stage = "waiting", !.peer = Nobody, !.home = run[r].at]
  <2>1. x \in Run /\ x.stage = "waiting" /\ x.relay = FALSE /\ x.question = 0 /\ x.restarted = TRUE /\ x.home = x.at
    BY <1>1, <1>3 DEF Run
  <2>2. Put(Fresh, x)
    BY <1>7 DEF Spawns, t
  <2>3. Plain(x)
    BY <2>1 DEF Plain, Counted
  <2> QED BY <2>2, <2>3
<1>8. UNCHANGED questions
  BY DEF MessagesOverMcp, Submits, Spawns
<1>9. ASSUME NEW x, Plain(x), Put(Fresh, x) PROVE Puts(Fresh, x)
  BY <1>1, <1>2, <1>8, <1>9 DEF Puts
<1>10. \E x : Plain(x) /\ Put(Fresh, x)
  <2>1. (\E b \in Agent : MessagesOverMcp(r, b) \/ \E session \in BOOLEAN : Submits(r, b, session)) \/ Spawns(r)
    OBVIOUS
  <2> HIDE DEF t
  <2> QED BY <2>1, <1>5, <1>6, <1>7
<1> QED BY <1>2, <1>9, <1>10

\* A run that ends without an answer, and an answer that does not arrive as it should.
LEMMA LostPuts ==
  ASSUME TalkInv, NEW r \in Slot, EndsSilently(r) \/ CarriesWithoutFacts(r) \/ CarriesUntold(r) \/ CarryFails(r)
  PROVE  \E x : Puts(r, x)
<1> DEFINE t == run[r]
<1>0. r \in Busy /\ UNCHANGED <<questions, told>>
  BY DEF EndsSilently, CarriesWithoutFacts, CarriesUntold, CarryFails, In, Fault
<1>1. t \in Run /\ Counted(t) /\ (t.stage = "answered" => t.peer # Nobody)
  BY <1>0, TalkFacts DEF TalkInv, DepthOnRecord, KnowsWhom, Counted
<1>f. Plain(Free)
  BY DEF Plain
<1>2. CASE EndsSilently(r)
  <2>1. Put(r, Free) /\ faults' = faults /\ run[r].stage # "answered"
    BY <1>2 DEF EndsSilently, In
  <2> QED BY <1>0, <1>f, <2>1 DEF Puts
<1>3. CASE CarriesWithoutFacts(r)
  <2> DEFINE y == Restarted(t)
             x == IF Wakes(AnswerTo(y)) THEN Woken(AnswerTo(y)) ELSE Free
  <2>1. y \in Run /\ y.peer = t.peer /\ y.restarted = TRUE
    BY <1>1, RestartedIs
  <2>2. t.stage = "answered" /\ Put(r, x) /\ faults' = faults + 1
    BY <1>3 DEF CarriesWithoutFacts, In, Arrives, Fault
  <2> HIDE DEF y, t
  <2>3. Plain(x)
    BY <1>1, <2>1, <2>2, AnswerIsPlain DEF Counted
  <2> QED BY <1>0, <2>2, <2>3 DEF Puts
<1>4. CASE CarriesUntold(r)
  <2> DEFINE x == IF Wakes(AnswerTo(t)) THEN Woken(AnswerTo(t)) ELSE Free
  <2>1. t.stage = "answered" /\ Put(r, x) /\ faults' = faults + 1
    BY <1>4 DEF CarriesUntold, In, Arrives, Fault, Facts
  <2> HIDE DEF t
  <2>2. Plain(x)
    BY <1>1, <2>1, AnswerIsPlain
  <2> QED BY <1>0, <2>1, <2>2 DEF Puts
<1>5. CASE CarryFails(r)
  <2>1. Put(r, Free) /\ faults' = faults + 1
    BY <1>5 DEF CarryFails, Fault
  <2> QED BY <1>0, <1>f, <2>1 DEF Puts
<1> QED BY <1>2, <1>3, <1>4, <1>5

LEMMA CarriedIs ==
  ASSUME TalkInv, NEW r \in Slot, CarriesAnswer(r)
  PROVE  \E x : Carries(r, x)
<1> DEFINE t == run[r]
           x == IF Wakes(AnswerTo(t)) THEN Woken(AnswerTo(t)) ELSE Free
<1>1. r \in In("answered") /\ r \in Busy /\ Put(r, x) /\ Tells(run[r]) /\ UNCHANGED <<questions, faults>>
  BY DEF CarriesAnswer, Arrives, Facts, In
<1>2. t \in Run /\ Counted(t) /\ t.peer # Nobody
  BY <1>1, TalkFacts DEF TalkInv, DepthOnRecord, KnowsWhom, Counted, In
<1> HIDE DEF t
<1>3. Plain(x)
  BY <1>2, AnswerIsPlain
<1> QED BY <1>1, <1>3 DEF Carries

LEMMA TalkKinds ==
  ASSUME TalkInv, [Next]_vars
  PROVE  \/ \E r \in Slot : \/ \E x : Puts(r, x) \/ Carries(r, x) \/ \E q : Relays(r, x, q)
                            \/ Thinks(r) \/ Answers(r)
         \/ \E a \in Agent : Restarts(a)
         \/ UNCHANGED talkVars
<1> DEFINE Good == \/ \E r \in Slot : \/ \E x : Puts(r, x) \/ Carries(r, x) \/ \E q : Relays(r, x, q)
                                      \/ Thinks(r) \/ Answers(r)
                   \/ \E a \in Agent : Restarts(a)
                   \/ UNCHANGED talkVars
<1>1. ASSUME NEW a \in Agent, NEW p \in Agent \cup {Nobody}, Asks(a, p) PROVE Good
  BY <1>1, AskedPuts
<1>2. ASSUME NEW r \in Slot, NEW b \in Agent, Messages(r, b) PROVE Good
  BY <1>2, MessageKind
<1>3. ASSUME NEW r \in Slot, NEW b \in Agent, MessagesOverMcp(r, b) PROVE Good
  BY <1>3, RestartedPuts
<1>4. ASSUME NEW r \in Slot, NEW b \in Agent, NEW session \in BOOLEAN, Submits(r, b, session) PROVE Good
  BY <1>4, RestartedPuts
<1>5. ASSUME NEW r \in Slot, Spawns(r) PROVE Good
  BY <1>5, RestartedPuts
<1>6. ASSUME NEW r \in Slot, EndsSilently(r) \/ CarriesWithoutFacts(r) \/ CarriesUntold(r) \/ CarryFails(r) PROVE Good
  BY <1>6, LostPuts
<1>7. ASSUME NEW r \in Slot, CarriesAnswer(r) PROVE Good
  BY <1>7, CarriedIs
<1>8. Talks => Good
  BY <1>1, <1>2, <1>3, <1>4, <1>5, <1>6, <1>7 DEF Talks
<1>9. ASSUME NEW r \in Slot, ThinksFreely(r) \/ AsksBrain(r) \/ AsksAgain(r) PROVE Good
  BY <1>9 DEF ThinksFreely, AsksBrain, AsksAgain
<1>10. TimePasses \/ UNCHANGED vars => Good
  BY DEF TimePasses, vars, talkVars
<1>11. ASSUME NEW a \in Agent, EngineRestarts(a) PROVE Good
  BY <1>11 DEF EngineRestarts
<1> QED BY <1>8, <1>9, <1>10, <1>11 DEF Next

-----------------------------------------------------------------------------
(* The messages: the invariant, one part after the other.                  *)

LEMMA PutIs ==
  ASSUME TalkTypeOK, NEW r \in Slot, NEW x, Put(r, x)
  PROVE  /\ \A s \in Slot : run'[s] = IF s = r THEN x ELSE run[s]
         /\ \A s \in Busy' : /\ s \in Slot
                             /\ s = r => x # Free /\ run'[s] = x
                             /\ s # r => s \in Busy /\ run'[s] = run[s]
         /\ \A s \in Busy : s # r => s \in Busy' /\ run'[s] = run[s]
         /\ x \in Run \cup {Free} => run' \in [Slot -> Run \cup {Free}]
<1>1. run \in [Slot -> Run \cup {Free}] /\ run' = [run EXCEPT ![r] = x]
  BY DEF TalkTypeOK, Put
<1>2. \A s \in Slot : run'[s] = IF s = r THEN x ELSE run[s]
  BY <1>1
<1>3. x \in Run \cup {Free} => run' \in [Slot -> Run \cup {Free}]
  <2> HIDE DEF Run
  <2> QED BY <1>1
<1> QED BY <1>2, <1>3 DEF Busy

LEMMA PlainIs ==
  ASSUME NEW x, Plain(x)
  PROVE  /\ x \in Run \cup {Free}
         /\ x # Free => /\ x.relay = FALSE /\ x.question = 0 /\ x.stage = "waiting" /\ Counted(x)
                        /\ x.peer = Nobody => x.home = x.at
BY DEF Plain

\* The answers and the questions of a step that asks and tells nothing.
LEMMA SameTold ==
  ASSUME UNCHANGED told
  PROVE  \A q : ToldOf(q)' = ToldOf(q)
BY DEF ToldOf

LEMMA RelayedIs ==
  ASSUME TalkTypeOK, NEW r, NEW x, NEW q, Relays(r, x, q)
  PROVE  /\ Put(r, x) /\ r \notin Busy /\ UNCHANGED <<told, faults>> /\ x \in Run \cup {Free}
         /\ questions' \in Seq([home : Agent, passedOn : BOOLEAN, answered : BOOLEAN])
         /\ DOMAIN questions' = 1..(Len(questions) + 1) /\ DOMAIN questions = 1..Len(questions) /\ Len(questions) \in Nat
         /\ \A p \in DOMAIN questions : p \in DOMAIN questions' /\ questions'[p] = questions[p]
         /\ questions'[Len(questions) + 1] = q /\ q.answered = FALSE /\ Len(questions) + 1 \notin DOMAIN questions
         /\ x # Free => /\ x.relay = TRUE /\ x.question = Len(questions) + 1 /\ x.stage = "waiting" /\ Counted(x)
                        /\ x.peer \notin {Nobody, x.at} /\ (x.peer = q.home \/ q.passedOn)
<1>1. questions' = Append(questions, q) /\ q \in [home : Agent, passedOn : BOOLEAN, answered : {FALSE}]
  BY DEF Relays
<1>2. q \in [home : Agent, passedOn : BOOLEAN, answered : BOOLEAN] /\ q.answered = FALSE
  BY <1>1
<1>3. questions \in Seq([home : Agent, passedOn : BOOLEAN, answered : BOOLEAN])
  BY DEF TalkTypeOK
<1>4. /\ questions' \in Seq([home : Agent, passedOn : BOOLEAN, answered : BOOLEAN])
      /\ Len(questions') = Len(questions) + 1 /\ Len(questions) \in Nat
      /\ DOMAIN questions' = 1..(Len(questions) + 1) /\ DOMAIN questions = 1..Len(questions)
      /\ \A p \in 1..Len(questions) : questions'[p] = questions[p]
      /\ questions'[Len(questions) + 1] = q
  BY <1>1, <1>2, <1>3, AppendProperties, LenProperties
<1> QED BY <1>2, <1>4 DEF Relays, Carrying

LEMMA AnsweredIs ==
  ASSUME TalkTypeOK, NEW r \in Slot, Answers(r)
  PROVE  /\ r \in In("running") /\ run[r] \in Run /\ UNCHANGED <<told, faults>>
         /\ DOMAIN questions' = DOMAIN questions
         /\ questions' \in Seq([home : Agent, passedOn : BOOLEAN, answered : BOOLEAN])
         /\ \A q \in DOMAIN questions :
              /\ questions'[q].home = questions[q].home /\ questions'[q].passedOn = questions[q].passedOn
              /\ questions'[q].answered => questions[q].answered \/ q = run[r].question
         /\ \E x : /\ Put(r, x) /\ x \in Run \cup {Free}
                   /\ x = Free <=> run[r].peer \in {Nobody, run[r].at}
                   /\ x # Free => /\ x.stage = "answered" /\ x.at = run[r].at /\ x.peer = run[r].peer
                                  /\ x.hops = run[r].hops /\ x.real = run[r].real /\ x.restarted = run[r].restarted
                                  /\ x.relay = run[r].relay /\ x.question = run[r].question /\ x.home = run[r].home
<1> DEFINE Q == [home : Agent, passedOn : BOOLEAN, answered : BOOLEAN]
           y == [run[r] EXCEPT !.stage = "answered"]
           x == IF run[r].peer \in {Nobody, run[r].at} THEN Free ELSE y
<1>1. r \in In("running") /\ run[r] \in Run /\ UNCHANGED <<told, faults>>
  BY TalkFacts DEF Answers, In
<1>2. questions' = [q \in DOMAIN questions |->
         IF q = run[r].question THEN [questions[q] EXCEPT !.answered = TRUE] ELSE questions[q]]
  BY DEF Answers
<1>3. questions \in Seq(Q) /\ DOMAIN questions = 1..Len(questions) /\ Len(questions) \in Nat
  BY TalkFacts
<1>4. \A q \in DOMAIN questions : questions[q] \in Q
  BY <1>3, ElementOfSeq
<1>5. ASSUME NEW q \in DOMAIN questions
      PROVE  /\ questions'[q] \in Q
             /\ questions'[q].home = questions[q].home /\ questions'[q].passedOn = questions[q].passedOn
             /\ questions'[q].answered => questions[q].answered \/ q = run[r].question
  <2>1. questions'[q] = (IF q = run[r].question THEN [questions[q] EXCEPT !.answered = TRUE] ELSE questions[q])
    BY <1>2
  <2>2. questions[q] \in Q
    BY <1>4
  <2> QED BY <2>1, <2>2
<1>6. DOMAIN questions' = DOMAIN questions
  BY <1>2
<1>7. questions' \in Seq(Q)
  <2>1. questions' \in [1..Len(questions) -> Q]
    <3> HIDE DEF Q
    <3> QED BY <1>2, <1>3, <1>5, <1>6
  <2> QED BY <2>1, <1>3, SeqDef
<1>8. Put(r, x)
  BY DEF Answers
<1>9. /\ y \in Run /\ y.stage = "answered" /\ y.at = run[r].at /\ y.peer = run[r].peer
      /\ y.hops = run[r].hops /\ y.real = run[r].real /\ y.restarted = run[r].restarted
      /\ y.relay = run[r].relay /\ y.question = run[r].question /\ y.home = run[r].home
  BY <1>1 DEF Run
<1>10. y # Free
  BY <1>9, TalkAssumption
<1> HIDE DEF y
<1>11. /\ x \in Run \cup {Free} /\ (x = Free <=> run[r].peer \in {Nobody, run[r].at})
       /\ x # Free => x = y
  BY <1>9, <1>10
<1> HIDE DEF x
<1> QED BY <1>1, <1>5, <1>6, <1>7, <1>8, <1>9, <1>11

LEMMA ThinksIs ==
  ASSUME TalkTypeOK, NEW r \in Slot, Thinks(r)
  PROVE  /\ r \in Busy /\ run[r] \in Run /\ UNCHANGED <<told, faults, questions>> /\ run[r].stage = "waiting"
         /\ \E x \in Run : /\ Put(r, x) /\ x.stage = "running" /\ x.at = run[r].at /\ x.peer = run[r].peer
                    /\ x.hops = run[r].hops /\ x.real = run[r].real /\ x.restarted = run[r].restarted
                    /\ x.relay = run[r].relay /\ x.question = run[r].question /\ x.home = run[r].home
<1>1. r \in Busy /\ run[r] \in Run /\ UNCHANGED <<told, faults, questions>> /\ run[r].stage = "waiting"
  BY TalkFacts DEF Thinks, In
<1> DEFINE x == [run[r] EXCEPT !.stage = "running"]
<1>2. /\ x \in Run /\ x.stage = "running" /\ x.at = run[r].at /\ x.peer = run[r].peer
      /\ x.hops = run[r].hops /\ x.real = run[r].real /\ x.restarted = run[r].restarted
      /\ x.relay = run[r].relay /\ x.question = run[r].question /\ x.home = run[r].home
  BY <1>1 DEF Run
<1>3. Put(r, x)
  BY DEF Thinks
<1> QED BY <1>1, <1>2, <1>3

LEMMA RestartsIs ==
  ASSUME TalkTypeOK, NEW a \in Agent, Restarts(a)
  PROVE  /\ UNCHANGED <<told, questions>> /\ faults' = faults + 1
         /\ run' \in [Slot -> Run \cup {Free}]
         /\ \A s \in Busy' :
              /\ s \in Busy /\ run[s] \in Run
              /\ run'[s] # run[s] => run'[s] = Restarted(run[s])
<1>1. /\ UNCHANGED <<told, questions>> /\ faults' = faults + 1
      /\ run' = [r \in Slot |->
               IF r \notin Busy \/ run[r].at # a THEN run[r]
               ELSE IF run[r].stage = "answered" THEN Restarted(run[r])
               ELSE Free]
  BY DEF Restarts, Fault
<1>2. ASSUME NEW s \in Slot
      PROVE  /\ run'[s] \in {run[s], Free} \/ (s \in Busy /\ run'[s] = Restarted(run[s]))
             /\ s \notin Busy => run'[s] = Free
             /\ run'[s] \in Run \cup {Free}
  <2>1. run[s] \in Run \cup {Free} /\ (s \in Busy <=> run[s] # Free)
    BY DEF TalkTypeOK, Busy
  <2>2. run[s] \in Run => Restarted(run[s]) \in Run
    BY RestartedIs
  <2>3. run'[s] = IF s \notin Busy \/ run[s].at # a THEN run[s]
                  ELSE IF run[s].stage = "answered" THEN Restarted(run[s])
                  ELSE Free
    BY <1>1
  <2> QED BY <2>1, <2>2, <2>3
<1>3. ASSUME NEW s \in Busy' PROVE s \in Busy /\ run[s] \in Run /\ (run'[s] # run[s] => run'[s] = Restarted(run[s]))
  <2>1. s \in Slot /\ run'[s] # Free
    BY DEF Busy
  <2>2. s \in Busy
    BY <2>1, <1>2
  <2>3. run[s] \in Run
    BY <2>2, TalkFacts
  <2> QED BY <2>1, <2>2, <2>3, <1>2
<1>4. run' \in [Slot -> Run \cup {Free}]
  <2> HIDE DEF Run
  <2> QED BY <1>1, <1>2
<1> QED BY <1>1, <1>3, <1>4

LEMMA CountersStep ==
  ASSUME TalkTypeOK, [Next]_vars
  PROVE  asks' \in 0..MaxAsks /\ sends' \in Nat /\ faults' \in Nat /\ sends' + faults' <= MaxExtras
<1> DEFINE Good == asks' \in 0..MaxAsks /\ sends' \in Nat /\ faults' \in Nat /\ sends' + faults' <= MaxExtras
<1>0. /\ asks \in 0..MaxAsks /\ sends \in Nat /\ faults \in Nat /\ sends + faults <= MaxExtras
      /\ MaxAsks \in Nat /\ MaxExtras \in Nat
  BY TalkAssumption DEF TalkTypeOK
<1>1. UNCHANGED <<asks, sends, faults>> => Good
  BY <1>0
<1>2. /\ UNCHANGED asks /\ sends + faults < MaxExtras
      /\ (sends' = sends + 1 /\ faults' = faults) \/ (sends' = sends /\ faults' = faults + 1)
      => Good
  BY <1>0
<1>3. ASSUME NEW a \in Agent, NEW p \in Agent \cup {Nobody}, Asks(a, p) PROVE Good
  BY <1>0, <1>3 DEF Asks
<1>4. ASSUME NEW r \in Slot, Sends(r) PROVE Good
  <2>1. asks' = asks /\ faults' = faults /\ sends + faults < MaxExtras /\ sends' = sends + 1
    BY <1>4 DEF Sends
  <2> QED BY <1>0, <2>1
<1>5. ASSUME NEW r \in Slot, NEW b \in Agent,
             Messages(r, b) \/ MessagesOverMcp(r, b) \/ \E session \in BOOLEAN : Submits(r, b, session)
      PROVE  Good
  BY <1>4, <1>5 DEF Messages, MessagesOverMcp, Submits
<1>6. ASSUME NEW r \in Slot, CarriesWithoutFacts(r) \/ CarriesUntold(r) \/ CarryFails(r) PROVE Good
  <2>1. Fault /\ UNCHANGED asks
    BY <1>6 DEF CarriesWithoutFacts, CarriesUntold, CarryFails, Fault
  <2> QED BY <1>2, <2>1 DEF Fault
<1>7. ASSUME NEW r \in Slot, Thinks(r) \/ Answers(r) \/ EndsSilently(r) \/ CarriesAnswer(r) PROVE Good
  BY <1>1, <1>7 DEF Thinks, Answers, EndsSilently, CarriesAnswer
<1>8. ASSUME NEW r \in Slot, Spawns(r) PROVE Good
  BY <1>4, <1>8 DEF Spawns
<1>9. ASSUME NEW a \in Agent, Restarts(a) PROVE Good
  BY <1>2, <1>9 DEF Restarts, Fault
<1>10. Talks => Good
  BY <1>3, <1>5, <1>6, <1>7, <1>8, <1>9 DEF Talks
<1>11. ASSUME NEW r \in Slot, ThinksFreely(r) \/ AsksBrain(r) \/ AsksAgain(r) PROVE Good
  BY <1>1, <1>7, <1>11 DEF ThinksFreely, AsksBrain, AsksAgain, talkVars
<1>12. TimePasses \/ UNCHANGED vars => Good
  BY <1>1 DEF TimePasses, vars, talkVars
<1>13. ASSUME NEW a \in Agent, EngineRestarts(a) PROVE Good
  BY <1>9, <1>13 DEF EngineRestarts
<1> QED BY <1>10, <1>11, <1>12, <1>13 DEF Next

\* The entry that a carried answer leaves in a chat.
LEMMA CarriedTells ==
  ASSUME TalkInv, NEW r \in Slot, NEW x, Carries(r, x)
  PROVE  /\ r \in Busy /\ run[r] \in Run /\ run[r].stage = "answered" /\ Plain(x) /\ Put(r, x)
         /\ UNCHANGED <<questions, faults>>
         /\ ~run[r].relay => UNCHANGED told
         /\ run[r].relay =>
              /\ AsksFor(run[r])
              /\ told' \in Seq([question : DOMAIN questions, at : Agent])
              /\ DOMAIN told = 1..Len(told) /\ DOMAIN told' = 1..(Len(told) + 1) /\ Len(told) \in Nat
              /\ \A i \in DOMAIN told : told'[i] = told[i]
              /\ told'[Len(told) + 1].question = run[r].question /\ told'[Len(told) + 1].at = run[r].peer
<1>1. /\ r \in Busy /\ run[r] \in Run /\ run[r].stage = "answered" /\ Plain(x) /\ Put(r, x)
      /\ UNCHANGED <<questions, faults>> /\ Tells(run[r])
  BY TalkFacts DEF TalkInv, Carries, In
<1>2. ~run[r].relay => UNCHANGED told
  BY <1>1 DEF Tells
<1>3. ASSUME run[r].relay
      PROVE  /\ AsksFor(run[r])
             /\ told' \in Seq([question : DOMAIN questions, at : Agent])
             /\ DOMAIN told = 1..Len(told) /\ DOMAIN told' = 1..(Len(told) + 1) /\ Len(told) \in Nat
             /\ \A i \in DOMAIN told : told'[i] = told[i]
             /\ told'[Len(told) + 1].question = run[r].question /\ told'[Len(told) + 1].at = run[r].peer
  <2> DEFINE e == [question |-> run[r].question, at |-> run[r].peer]
  <2>1. AsksFor(run[r])
    BY <1>1, <1>3 DEF TalkInv, KnowsWhom
  <2>2. told' = Append(told, e)
    BY <1>1, <1>3 DEF Tells
  <2>3. run[r].question \in DOMAIN questions /\ run[r].peer \in Agent
    BY <2>1, <1>1 DEF AsksFor, Run
  <2>4. e \in [question : DOMAIN questions, at : Agent] /\ e.question = run[r].question /\ e.at = run[r].peer
    BY <2>3
  <2>5. told \in Seq([question : DOMAIN questions, at : Agent])
    BY DEF TalkInv, TalkTypeOK
  <2> HIDE DEF e
  <2>6. /\ told' \in Seq([question : DOMAIN questions, at : Agent])
        /\ Len(told') = Len(told) + 1 /\ DOMAIN told' = 1..(Len(told) + 1)
        /\ \A i \in 1..Len(told) : told'[i] = told[i]
        /\ told'[Len(told) + 1] = e
    BY <2>2, <2>4, <2>5, AppendProperties, LenProperties
  <2> QED BY <2>1, <2>4, <2>5, <2>6, LenProperties
<1> QED BY <1>1, <1>2, <1>3

LEMMA TalkTypeStep ==
  ASSUME TalkInv, [Next]_vars
  PROVE  TalkTypeOK'
<1> DEFINE Q == [home : Agent, passedOn : BOOLEAN, answered : BOOLEAN]
           Good == /\ run' \in [Slot -> Run \cup {Free}]
                   /\ questions' \in Seq(Q)
                   /\ told' \in Seq([question : DOMAIN questions', at : Agent])
<1>0. /\ TalkTypeOK
      /\ run \in [Slot -> Run \cup {Free}] /\ questions \in Seq(Q) /\ told \in Seq([question : DOMAIN questions, at : Agent])
  BY DEF TalkInv, TalkTypeOK
<1>1. ASSUME NEW r \in Slot, NEW x, Puts(r, x) PROVE Good
  <2>1. x \in Run \cup {Free} /\ Put(r, x) /\ UNCHANGED <<questions, told>>
    BY <1>1, PlainIs DEF Puts
  <2> QED BY <2>1, <1>0, PutIs
<1>2. ASSUME NEW r \in Slot, NEW x, Carries(r, x) PROVE Good
  <2>1. x \in Run \cup {Free} /\ Put(r, x) /\ UNCHANGED questions
    BY <1>2, CarriedTells, PlainIs
  <2>2. told' \in Seq([question : DOMAIN questions, at : Agent])
    BY <1>2, <1>0, CarriedTells
  <2>3. run' \in [Slot -> Run \cup {Free}]
    BY <2>1, <1>0, PutIs
  <2> QED BY <2>1, <2>2, <2>3, <1>0
<1>3. ASSUME NEW r \in Slot, NEW x, NEW q, Relays(r, x, q) PROVE Good
  <2>1. Put(r, x) /\ x \in Run \cup {Free} /\ UNCHANGED told /\ questions' \in Seq(Q)
    BY <1>3, <1>0, RelayedIs
  <2>2. \A p \in DOMAIN questions : p \in DOMAIN questions'
    BY <1>3, <1>0, RelayedIs
  <2>3. [question : DOMAIN questions, at : Agent] \subseteq [question : DOMAIN questions', at : Agent]
    BY <2>2
  <2>4. told' \in Seq([question : DOMAIN questions', at : Agent])
    BY <2>1, <2>3, <1>0, SeqMonotonic
  <2>5. run' \in [Slot -> Run \cup {Free}]
    BY <2>1, <1>0, PutIs
  <2> QED BY <2>1, <2>4, <2>5
<1>4. ASSUME NEW r \in Slot, Thinks(r) PROVE Good
  <2>1. UNCHANGED <<told, questions>> /\ \E x \in Run : Put(r, x)
    BY <1>4, <1>0, ThinksIs
  <2>2. run' \in [Slot -> Run \cup {Free}]
    BY <2>1, <1>0, PutIs
  <2> QED BY <2>1, <2>2, <1>0
<1>5. ASSUME NEW r \in Slot, Answers(r) PROVE Good
  BY <1>5, <1>0, AnsweredIs, PutIs
<1>6. ASSUME NEW a \in Agent, Restarts(a) PROVE Good
  BY <1>6, <1>0, RestartsIs
<1>7. UNCHANGED talkVars => Good
  BY <1>0 DEF talkVars
<1>8. Good
  BY <1>1, <1>2, <1>3, <1>4, <1>5, <1>6, <1>7, TalkKinds
<1> QED BY <1>0, <1>8, CountersStep DEF TalkTypeOK

LEMMA DepthStep ==
  ASSUME TalkInv, [Next]_vars
  PROVE  DepthOnRecord'
<1> DEFINE Good == \A s \in Busy' : Counted(run'[s])
<1>0. TalkTypeOK /\ \A s \in Busy : run[s] \in Run /\ Counted(run[s])
  BY TalkFacts DEF TalkInv, DepthOnRecord, Counted
<1>1. ASSUME NEW r \in Slot, NEW x, Put(r, x), x # Free => Counted(x) PROVE Good
  BY <1>1, <1>0, PutIs
<1>2. ASSUME NEW r \in Slot, NEW x, Puts(r, x) PROVE Good
  BY <1>1, <1>2, PlainIs DEF Puts
<1>3. ASSUME NEW r \in Slot, NEW x, Carries(r, x) PROVE Good
  BY <1>1, <1>3, PlainIs DEF Carries
<1>4. ASSUME NEW r \in Slot, NEW x, NEW q, Relays(r, x, q) PROVE Good
  BY <1>0, <1>1, <1>4, RelayedIs
<1>5. ASSUME NEW r \in Slot, Thinks(r) PROVE Good
  <2>1. \E x \in Run : Put(r, x) /\ Counted(x)
    BY <1>0, <1>5, ThinksIs DEF Counted
  <2> QED BY <2>1, <1>1
<1>6. ASSUME NEW r \in Slot, Answers(r) PROVE Good
  <2>1. r \in Busy
    BY <1>0, <1>6, AnsweredIs DEF In
  <2>2. \E x : Put(r, x) /\ (x # Free => Counted(x))
    BY <1>0, <1>6, <2>1, AnsweredIs DEF Counted
  <2> QED BY <2>2, <1>1
<1>7. ASSUME NEW a \in Agent, Restarts(a) PROVE Good
  <2> SUFFICES ASSUME NEW s \in Busy' PROVE Counted(run'[s])
    OBVIOUS
  <2>1. s \in Busy /\ run[s] \in Run /\ (run'[s] # run[s] => run'[s] = Restarted(run[s]))
    BY <1>0, <1>7, RestartsIs
  <2>2. Restarted(run[s]).restarted = TRUE
    BY <2>1, RestartedIs
  <2> QED BY <2>1, <2>2, <1>0 DEF Counted
<1>8. UNCHANGED talkVars => Good
  BY <1>0 DEF talkVars, Busy
<1>9. Good
  BY <1>2, <1>3, <1>4, <1>5, <1>6, <1>7, <1>8, TalkKinds
<1> QED BY <1>9 DEF DepthOnRecord, Counted

LEMMA ToldKnown ==
  ASSUME TalkTypeOK
  PROVE  \A i \in DOMAIN told : told[i].question \in DOMAIN questions
<1> DEFINE T == [question : DOMAIN questions, at : Agent]
<1>1. told \in Seq(T) /\ DOMAIN told = 1..Len(told)
  BY TalkFacts
<1>2. \A t \in T : t.question \in DOMAIN questions
  OBVIOUS
<1> HIDE DEF T
<1>3. \A i \in DOMAIN told : told[i] \in T
  BY <1>1, ElementOfSeq
<1> QED BY <1>2, <1>3

\* AsksFor, of any questions and any answers.
AsksForIn(t, qs, tl) ==
  /\ t.peer \notin {Nobody, t.at}
  /\ t.question \in DOMAIN qs /\ \A i \in DOMAIN tl : tl[i].question # t.question
  /\ t.peer = qs[t.question].home \/ qs[t.question].passedOn

KnowsIn(t, qs, tl) ==
  /\ t.question # 0 => t.relay
  /\ t.relay => AsksForIn(t, qs, tl)
  /\ t.peer = Nobody => t.home = t.at /\ t.stage # "answered"

LEMMA KnowsWhomIs == KnowsWhom <=> \A r \in Busy : KnowsIn(run[r], questions, told)
BY DEF KnowsWhom, KnowsIn, AsksFor, AsksForIn, ToldOf

LEMMA KnowsWhomStep ==
  ASSUME TalkInv, [Next]_vars
  PROVE  KnowsWhom'
<1> DEFINE Good == \A s \in Busy' : KnowsIn(run'[s], questions', told')
<1>0. /\ TalkTypeOK /\ OneRunPerQuestion
      /\ \A s \in Busy : s \in Slot /\ run[s] \in Run /\ KnowsIn(run[s], questions, told)
  BY TalkFacts, KnowsWhomIs DEF TalkInv
<1>1. ASSUME NEW r \in Slot, NEW x, Put(r, x), x # Free => KnowsIn(x, questions', told'),
             \A s \in Busy : s # r => KnowsIn(run[s], questions', told')
      PROVE  Good
  BY <1>0, <1>1, PutIs
<1>2. ASSUME NEW x, Plain(x), x # Free PROVE KnowsIn(x, questions', told')
  BY <1>2, PlainIs DEF KnowsIn
<1>3. ASSUME NEW r \in Slot, NEW x, Puts(r, x) PROVE Good
  <2>1. Put(r, x) /\ Plain(x) /\ questions' = questions /\ told' = told
    BY <1>3 DEF Puts
  <2>2. \A s \in Busy : KnowsIn(run[s], questions', told')
    BY <2>1, <1>0
  <2> HIDE DEF Good
  <2> QED BY <2>1, <2>2, <1>1, <1>2
<1>4. ASSUME NEW r \in Slot, NEW x, Carries(r, x) PROVE Good
  <2>1. Put(r, x) /\ Plain(x) /\ questions' = questions /\ r \in Busy
    BY <1>4, CarriedTells
  <2>2. ASSUME NEW s \in Busy, s # r PROVE KnowsIn(run[s], questions', told')
    <3>1. CASE ~run[r].relay
      <4>1. told' = told
        BY <1>4, <3>1, CarriedTells
      <4> QED BY <4>1, <2>1, <1>0
    <3>2. CASE run[r].relay
      <4>1. /\ DOMAIN told = 1..Len(told) /\ DOMAIN told' = 1..(Len(told) + 1) /\ Len(told) \in Nat
            /\ \A i \in DOMAIN told : told'[i] = told[i]
            /\ told'[Len(told) + 1].question = run[r].question
        BY <1>4, <3>2, CarriedTells
      <4>2. run[s].relay => run[s].question # run[r].question
        BY <1>0, <2>1, <2>2, <3>2 DEF OneRunPerQuestion
      <4>3. ASSUME run[s].relay, NEW i \in DOMAIN told' PROVE told'[i].question # run[s].question
        <5>1. CASE i = Len(told) + 1
          BY <5>1, <4>1, <4>2, <4>3
        <5>2. CASE i # Len(told) + 1
          <6>1. i \in DOMAIN told /\ told'[i] = told[i]
            BY <5>2, <4>1
          <6>2. told[i].question # run[s].question
            BY <6>1, <4>3, <1>0 DEF KnowsIn, AsksForIn
          <6> QED BY <6>1, <6>2
        <5> QED BY <5>1, <5>2
      <4> QED BY <4>3, <2>1, <1>0 DEF KnowsIn, AsksForIn
    <3> QED BY <3>1, <3>2
  <2> HIDE DEF Good
  <2> QED BY <2>1, <2>2, <1>1, <1>2
<1>5. ASSUME NEW r \in Slot, NEW x, NEW q, Relays(r, x, q) PROVE Good
  <2>1. /\ Put(r, x) /\ told' = told
        /\ \A p \in DOMAIN questions : p \in DOMAIN questions' /\ questions'[p] = questions[p]
        /\ questions'[Len(questions) + 1] = q /\ Len(questions) + 1 \notin DOMAIN questions
        /\ Len(questions) + 1 \in DOMAIN questions'
        /\ x # Free => /\ x.relay = TRUE /\ x.question = Len(questions) + 1 /\ x.stage = "waiting"
                       /\ x.peer \notin {Nobody, x.at} /\ (x.peer = q.home \/ q.passedOn)
    <3>1. DOMAIN questions' = 1..(Len(questions) + 1) /\ Len(questions) \in Nat
      BY <1>0, <1>5, RelayedIs
    <3>2. Len(questions) + 1 \in DOMAIN questions'
      BY <3>1
    <3> QED BY <1>0, <1>5, <3>2, RelayedIs
  <2>2. \A s \in Busy : KnowsIn(run[s], questions', told')
    BY <2>1, <1>0 DEF KnowsIn, AsksForIn
  <2>3. \A i \in DOMAIN told : told[i].question \in DOMAIN questions
    BY <1>0, ToldKnown
  <2>4. x # Free => KnowsIn(x, questions', told')
    BY <2>1, <2>3 DEF KnowsIn, AsksForIn
  <2> HIDE DEF Good
  <2> QED BY <2>1, <2>2, <2>4, <1>1
<1>6. ASSUME NEW r \in Slot, Thinks(r) PROVE Good
  <2>1. r \in Busy /\ told' = told /\ questions' = questions
    BY <1>6, <1>0, ThinksIs
  <2>2. PICK x \in Run : /\ Put(r, x) /\ x.stage = "running" /\ x.at = run[r].at /\ x.peer = run[r].peer
                    /\ x.relay = run[r].relay /\ x.question = run[r].question /\ x.home = run[r].home
    BY <1>6, <1>0, ThinksIs
  <2>3. KnowsIn(x, questions', told')
    BY <2>1, <2>2, <1>0 DEF KnowsIn, AsksForIn
  <2>4. \A s \in Busy : KnowsIn(run[s], questions', told')
    BY <2>1, <1>0
  <2> HIDE DEF Good
  <2> QED BY <2>2, <2>3, <2>4, <1>1
<1>7. ASSUME NEW r \in Slot, Answers(r) PROVE Good
  <2>1. /\ r \in Busy /\ told' = told /\ DOMAIN questions' = DOMAIN questions
        /\ \A q \in DOMAIN questions :
              questions'[q].home = questions[q].home /\ questions'[q].passedOn = questions[q].passedOn
    BY <1>7, <1>0, AnsweredIs DEF In
  <2>2. PICK x : /\ Put(r, x) /\ (x = Free <=> run[r].peer \in {Nobody, run[r].at})
                 /\ x # Free => /\ x.at = run[r].at /\ x.peer = run[r].peer
                                /\ x.relay = run[r].relay /\ x.question = run[r].question /\ x.home = run[r].home
    BY <1>7, <1>0, AnsweredIs
  <2>3. \A s \in Busy : KnowsIn(run[s], questions', told')
    BY <2>1, <1>0 DEF KnowsIn, AsksForIn
  <2>4. x # Free => KnowsIn(x, questions', told')
    BY <2>1, <2>2, <2>3 DEF KnowsIn, AsksForIn
  <2> HIDE DEF Good
  <2> QED BY <2>2, <2>3, <2>4, <1>1
<1>8. ASSUME NEW a \in Agent, Restarts(a) PROVE Good
  <2> SUFFICES ASSUME NEW s \in Busy' PROVE KnowsIn(run'[s], questions', told')
    OBVIOUS
  <2>1. /\ told' = told /\ questions' = questions
        /\ s \in Busy /\ run[s] \in Run /\ (run'[s] # run[s] => run'[s] = Restarted(run[s]))
    BY <1>0, <1>8, RestartsIs
  <2>2. KnowsIn(run[s], questions, told)
    BY <2>1, <1>0
  <2>3. KnowsIn(Restarted(run[s]), questions, told)
    BY <2>1, <2>2, RestartedIs DEF KnowsIn
  <2> QED BY <2>1, <2>2, <2>3
<1>9. UNCHANGED talkVars => Good
  BY <1>0 DEF talkVars, Busy
<1>10. Good
  BY <1>3, <1>4, <1>5, <1>6, <1>7, <1>8, <1>9, TalkKinds
<1> HIDE DEF Good
<1>11. Good <=> KnowsWhom'
  BY DEF Good, KnowsWhom, KnowsIn, AsksFor, AsksForIn, ToldOf
<1> QED BY <1>10, <1>11

LEMMA OneRunStep ==
  ASSUME TalkInv, [Next]_vars
  PROVE  OneRunPerQuestion'
<1> DEFINE Good == \A r, s \in Busy' : run'[r].relay /\ run'[s].relay /\ run'[r].question = run'[s].question => r = s
<1>0. /\ TalkTypeOK /\ OneRunPerQuestion
      /\ \A s \in Busy : s \in Slot /\ run[s] \in Run /\ KnowsIn(run[s], questions, told)
  BY TalkFacts, KnowsWhomIs DEF TalkInv
<1>1. ASSUME NEW r \in Slot, NEW x, Put(r, x),
             x # Free /\ x.relay => \A s \in Busy : s # r /\ run[s].relay => run[s].question # x.question
      PROVE  Good
  <2> SUFFICES ASSUME NEW u \in Busy', NEW v \in Busy', run'[u].relay, run'[v].relay, run'[u].question = run'[v].question
               PROVE  u = v
    OBVIOUS
  <2>1. \A s \in {u, v} : /\ s = r => x # Free /\ run'[s] = x
                          /\ s # r => s \in Busy /\ run'[s] = run[s]
    BY <1>0, <1>1, PutIs
  <2> QED BY <2>1, <1>0, <1>1 DEF OneRunPerQuestion
<1>2. ASSUME NEW r \in Slot, NEW x, Plain(x), Put(r, x) PROVE Good
  <2>1. x # Free => x.relay = FALSE
    BY <1>2, PlainIs
  <2> HIDE DEF Good
  <2> QED BY <1>1, <1>2, <2>1
<1>3. ASSUME NEW r \in Slot, NEW x, Puts(r, x) \/ Carries(r, x) PROVE Good
  BY <1>2, <1>3 DEF Puts, Carries
<1>4. ASSUME NEW r \in Slot, NEW x, NEW q, Relays(r, x, q) PROVE Good
  <2>1. /\ Put(r, x) /\ Len(questions) + 1 \notin DOMAIN questions
        /\ x # Free => x.question = Len(questions) + 1
    BY <1>0, <1>4, RelayedIs
  <2>2. \A s \in Busy : run[s].relay => run[s].question \in DOMAIN questions
    BY <1>0 DEF KnowsIn, AsksForIn
  <2> HIDE DEF Good
  <2> QED BY <2>1, <2>2, <1>1
<1>5. ASSUME NEW r \in Slot, Thinks(r) \/ Answers(r) PROVE Good
  <2>1. r \in Busy
    BY <1>0, <1>5, ThinksIs, AnsweredIs DEF In
  <2>2. \E x : Put(r, x) /\ (x # Free => x.relay = run[r].relay /\ x.question = run[r].question)
    BY <1>0, <1>5, ThinksIs, AnsweredIs
  <2>3. \A s \in Busy : s # r /\ run[r].relay /\ run[s].relay => run[s].question # run[r].question
    BY <1>0, <2>1 DEF OneRunPerQuestion
  <2> HIDE DEF Good
  <2> QED BY <2>2, <2>3, <1>1
<1>6. ASSUME NEW a \in Agent, Restarts(a) PROVE Good
  <2> SUFFICES ASSUME NEW u \in Busy', NEW v \in Busy', run'[u].relay, run'[v].relay, run'[u].question = run'[v].question
               PROVE  u = v
    OBVIOUS
  <2>1. \A s \in {u, v} : s \in Busy /\ run[s] \in Run /\ (run'[s] # run[s] => run'[s] = Restarted(run[s]))
    BY <1>0, <1>6, RestartsIs
  <2>2. \A s \in {u, v} : Restarted(run[s]).relay = FALSE
    BY <2>1, RestartedIs
  <2>3. run'[u] = run[u] /\ run'[v] = run[v]
    BY <2>1, <2>2
  <2> QED BY <2>1, <2>3, <1>0 DEF OneRunPerQuestion
<1>7. UNCHANGED talkVars => Good
  BY <1>0 DEF talkVars, Busy, OneRunPerQuestion
<1>8. Good
  BY <1>3, <1>4, <1>5, <1>6, <1>7, TalkKinds
<1> QED BY <1>8 DEF OneRunPerQuestion

LEMMA ToldStep ==
  ASSUME TalkInv, [Next]_vars
  PROVE  ToldOnce' /\ ToldAtHome'
<1> DEFINE Once == \A i, j \in DOMAIN told' : told'[i].question = told'[j].question => i = j
           Home == \A i \in DOMAIN told' :
                     \/ told'[i].at = questions'[told'[i].question].home
                     \/ questions'[told'[i].question].passedOn
<1>0. /\ TalkTypeOK
      /\ \A i, j \in DOMAIN told : told[i].question = told[j].question => i = j
      /\ \A i \in DOMAIN told : told[i].at = questions[told[i].question].home \/ questions[told[i].question].passedOn
      /\ \A i \in DOMAIN told : told[i].question \in DOMAIN questions
  BY ToldKnown DEF TalkInv, ToldOnce, ToldAtHome
<1>1. ASSUME told' = told,
             \A q \in DOMAIN questions : questions'[q].home = questions[q].home /\ questions'[q].passedOn = questions[q].passedOn
      PROVE  Once /\ Home
  BY <1>0, <1>1
<1>2. ASSUME told' = told, questions' = questions PROVE Once /\ Home
  BY <1>0, <1>2
<1>3. ASSUME NEW r \in Slot, NEW x, Puts(r, x) PROVE Once /\ Home
  BY <1>2, <1>3 DEF Puts
<1>4. ASSUME NEW r \in Slot, NEW x, NEW q, Relays(r, x, q) PROVE Once /\ Home
  <2>1. told' = told /\ \A p \in DOMAIN questions : questions'[p] = questions[p]
    BY <1>0, <1>4, RelayedIs
  <2> QED BY <2>1, <1>1
<1>5. ASSUME NEW r \in Slot, Thinks(r) PROVE Once /\ Home
  BY <1>0, <1>2, <1>5, ThinksIs
<1>6. ASSUME NEW r \in Slot, Answers(r) PROVE Once /\ Home
  BY <1>0, <1>1, <1>6, AnsweredIs
<1>7. ASSUME NEW a \in Agent, Restarts(a) PROVE Once /\ Home
  BY <1>0, <1>2, <1>7, RestartsIs
<1>8. ASSUME NEW r \in Slot, NEW x, Carries(r, x) PROVE Once /\ Home
  <2>1. questions' = questions
    BY <1>8, CarriedTells
  <2>2. CASE ~run[r].relay
    <3>1. told' = told
      BY <1>8, <2>2, CarriedTells
    <3> QED BY <2>1, <3>1, <1>2
  <2>3. CASE run[r].relay
    <3>1. /\ AsksFor(run[r]) /\ DOMAIN told = 1..Len(told) /\ DOMAIN told' = 1..(Len(told) + 1) /\ Len(told) \in Nat
          /\ \A i \in DOMAIN told : told'[i] = told[i]
          /\ told'[Len(told) + 1].question = run[r].question /\ told'[Len(told) + 1].at = run[r].peer
      BY <1>8, <2>3, CarriedTells
    <3>2. /\ \A i \in DOMAIN told : told[i].question # run[r].question
          /\ run[r].peer = questions[run[r].question].home \/ questions[run[r].question].passedOn
      BY <3>1 DEF AsksFor, ToldOf
    <3>3. ASSUME NEW i \in DOMAIN told'
          PROVE  \/ i \in DOMAIN told /\ told'[i] = told[i]
                 \/ i = Len(told) + 1 /\ told'[i].question = run[r].question /\ told'[i].at = run[r].peer
      BY <3>1
    <3>4. Once
      BY <3>2, <3>3, <1>0
    <3>5. Home
      BY <2>1, <3>2, <3>3, <1>0
    <3> QED BY <3>4, <3>5
  <2> QED BY <2>2, <2>3
<1>9. UNCHANGED talkVars => Once /\ Home
  BY <1>2 DEF talkVars
<1>10. Once /\ Home
  BY <1>3, <1>4, <1>5, <1>6, <1>7, <1>8, <1>9, TalkKinds
<1> QED BY <1>10 DEF ToldOnce, ToldAtHome

\* The answer to a question was told, or is on its way.
Owed(q) == \/ \E i \in DOMAIN told : told[i].question = q
           \/ \E s \in Busy : run[s].stage = "answered" /\ run[s].relay /\ run[s].question = q

LEMMA AnswersOwedIs == AnswersOwed <=> (faults = 0 => \A q \in DOMAIN questions : questions[q].answered => Owed(q))
BY DEF AnswersOwed, Owed, ToldOf, In

LEMMA OwedStep ==
  ASSUME TalkInv, [Next]_vars
  PROVE  AnswersOwed'
<1> DEFINE OwedThen(q) == \/ \E i \in DOMAIN told' : told'[i].question = q
                          \/ \E s \in Busy' : run'[s].stage = "answered" /\ run'[s].relay /\ run'[s].question = q
           Good == faults' = 0 => \A q \in DOMAIN questions' : questions'[q].answered => OwedThen(q)
<1>0. /\ TalkTypeOK /\ faults \in Nat
      /\ faults = 0 => \A q \in DOMAIN questions : questions[q].answered => Owed(q)
      /\ \A s \in Busy : s \in Slot /\ run[s] \in Run /\ KnowsIn(run[s], questions, told)
  BY TalkFacts, KnowsWhomIs, AnswersOwedIs DEF TalkInv
<1>1. ASSUME NEW r \in Slot, NEW x, Put(r, x), told' = told, r \in Busy => run[r].stage # "answered",
             NEW q, Owed(q)
      PROVE  OwedThen(q)
  <2>1. \A s \in Busy : s # r => s \in Busy' /\ run'[s] = run[s]
    BY <1>0, <1>1, PutIs
  <2> QED BY <2>1, <1>1 DEF Owed
<1>2. ASSUME NEW r \in Slot, NEW x, Puts(r, x) PROVE Good
  <2> SUFFICES ASSUME faults' = 0, NEW q \in DOMAIN questions', questions'[q].answered PROVE OwedThen(q)
    OBVIOUS
  <2>1. /\ Put(r, x) /\ told' = told /\ questions' = questions /\ faults = 0
        /\ r \in Busy => run[r].stage # "answered"
    BY <1>0, <1>2 DEF Puts
  <2>2. Owed(q)
    BY <2>1, <1>0
  <2> HIDE DEF OwedThen
  <2> QED BY <2>1, <2>2, <1>1
<1>3. ASSUME NEW r \in Slot, NEW x, NEW p, Relays(r, x, p) PROVE Good
  <2> SUFFICES ASSUME faults' = 0, NEW q \in DOMAIN questions', questions'[q].answered PROVE OwedThen(q)
    OBVIOUS
  <2>1. /\ Put(r, x) /\ told' = told /\ faults = 0 /\ r \notin Busy
        /\ DOMAIN questions' = 1..(Len(questions) + 1) /\ DOMAIN questions = 1..Len(questions) /\ Len(questions) \in Nat
        /\ \A k \in DOMAIN questions : questions'[k] = questions[k]
        /\ questions'[Len(questions) + 1] = p /\ p.answered = FALSE
    BY <1>0, <1>3, RelayedIs
  <2>2. q \in DOMAIN questions
    BY <2>1
  <2>3. Owed(q)
    BY <2>1, <2>2, <1>0
  <2> HIDE DEF OwedThen
  <2> QED BY <2>1, <2>3, <1>1
<1>4. ASSUME NEW r \in Slot, Thinks(r) PROVE Good
  <2> SUFFICES ASSUME faults' = 0, NEW q \in DOMAIN questions', questions'[q].answered PROVE OwedThen(q)
    OBVIOUS
  <2>1. /\ told' = told /\ questions' = questions /\ faults = 0 /\ run[r].stage # "answered"
        /\ \E x \in Run : Put(r, x)
    BY <1>0, <1>4, ThinksIs
  <2>2. Owed(q)
    BY <2>1, <1>0
  <2> HIDE DEF OwedThen
  <2> QED BY <2>1, <2>2, <1>1
<1>5. ASSUME NEW r \in Slot, Answers(r) PROVE Good
  <2> SUFFICES ASSUME faults' = 0, NEW q \in DOMAIN questions', questions'[q].answered PROVE OwedThen(q)
    OBVIOUS
  <2>1. /\ told' = told /\ faults = 0 /\ r \in Busy /\ run[r].stage # "answered"
        /\ q \in DOMAIN questions /\ (questions[q].answered \/ q = run[r].question)
    BY <1>0, <1>5, AnsweredIs DEF In
  <2>2. PICK x : /\ Put(r, x) /\ (x = Free <=> run[r].peer \in {Nobody, run[r].at})
                 /\ x # Free => x.stage = "answered" /\ x.relay = run[r].relay /\ x.question = run[r].question
    BY <1>0, <1>5, AnsweredIs
  <2>3. CASE questions[q].answered
    <3>1. Owed(q)
      BY <2>1, <2>3, <1>0
    <3> HIDE DEF OwedThen
    <3> QED BY <2>1, <2>2, <3>1, <1>1
  <2>4. CASE q = run[r].question
    <3>1. q # 0
      <4>1. DOMAIN questions = 1..Len(questions) /\ Len(questions) \in Nat
        BY <1>0, TalkFacts
      <4> QED BY <4>1, <2>1
    <3>2. run[r].relay /\ run[r].peer \notin {Nobody, run[r].at}
      BY <2>1, <2>4, <3>1, <1>0 DEF KnowsIn, AsksForIn
    <3>3. x # Free /\ run'[r] = x
      BY <2>2, <3>2, <1>0, PutIs
    <3>4. r \in Busy'
      BY <3>3 DEF Busy
    <3> QED BY <2>2, <2>4, <3>2, <3>3, <3>4
  <2> QED BY <2>1, <2>3, <2>4
<1>6. ASSUME NEW a \in Agent, Restarts(a) PROVE Good
  <2>1. faults' # 0
    BY <1>0, <1>6, RestartsIs
  <2> QED BY <2>1
<1>7. ASSUME NEW r \in Slot, NEW x, Carries(r, x) PROVE Good
  <2> SUFFICES ASSUME faults' = 0, NEW q \in DOMAIN questions', questions'[q].answered PROVE OwedThen(q)
    OBVIOUS
  <2>1. Put(r, x) /\ questions' = questions /\ faults = 0 /\ r \in Busy
    BY <1>7, CarriedTells
  <2>2. Owed(q)
    BY <2>1, <1>0
  <2>3. \A s \in Busy : s # r => s \in Busy' /\ run'[s] = run[s]
    BY <1>0, <2>1, PutIs
  <2>4. CASE ~run[r].relay
    <3>1. told' = told
      BY <1>7, <2>4, CarriedTells
    <3> QED BY <2>2, <2>3, <2>4, <3>1 DEF Owed
  <2>5. CASE run[r].relay
    <3>1. /\ DOMAIN told = 1..Len(told) /\ DOMAIN told' = 1..(Len(told) + 1) /\ Len(told) \in Nat
          /\ \A i \in DOMAIN told : told'[i] = told[i]
          /\ told'[Len(told) + 1].question = run[r].question
      BY <1>7, <2>5, CarriedTells
    <3>2. Len(told) + 1 \in DOMAIN told' /\ \A i \in DOMAIN told : i \in DOMAIN told'
      BY <3>1
    <3> QED BY <2>2, <2>3, <3>1, <3>2 DEF Owed
  <2> QED BY <2>4, <2>5
<1>8. UNCHANGED talkVars => Good
  BY <1>0 DEF talkVars, Busy, Owed
<1>9. Good
  BY <1>2, <1>3, <1>4, <1>5, <1>6, <1>7, <1>8, TalkKinds
<1> QED BY <1>9 DEF AnswersOwed, ToldOf, In

-----------------------------------------------------------------------------
(* The invariants.                                                         *)

Inv == TalkInv /\ GatesOK

LEMMA InitInv == Init => Inv
<1> SUFFICES ASSUME Init PROVE Inv
  OBVIOUS
<1>1. GatesOK
  BY GatesInitInv DEF Init
<1>2. /\ run = [r \in Slot |-> Free] /\ questions = << >> /\ told = << >>
      /\ asks = 0 /\ sends = 0 /\ faults = 0
  BY DEF Init, TalkInit
<1>3. Busy = {}
  BY <1>2 DEF Busy
<1>4. DOMAIN questions = {} /\ DOMAIN told = {}
  BY <1>2
<1>5. TalkTypeOK
  <2>1. run \in [Slot -> Run \cup {Free}]
    BY <1>2
  <2>2. /\ questions \in Seq([home : Agent, passedOn : BOOLEAN, answered : BOOLEAN])
        /\ told \in Seq([question : DOMAIN questions, at : Agent])
    BY <1>2, EmptySeq
  <2> QED BY <2>1, <2>2, <1>2, TalkAssumption DEF TalkTypeOK
<1>6. DepthOnRecord /\ KnowsWhom /\ OneRunPerQuestion /\ ToldOnce /\ ToldAtHome /\ AnswersOwed
  BY <1>3, <1>4 DEF DepthOnRecord, KnowsWhom, OneRunPerQuestion, ToldOnce, ToldAtHome, AnswersOwed
<1> QED BY <1>1, <1>5, <1>6 DEF Inv, TalkInv

LEMMA NextInv == Inv /\ [Next]_vars => Inv'
<1> SUFFICES ASSUME Inv, [Next]_vars PROVE Inv'
  OBVIOUS
<1>1. TalkInv'
  BY TalkTypeStep, DepthStep, KnowsWhomStep, OneRunStep, ToldStep, OwedStep DEF Inv, TalkInv
<1>2. Attempt \/ Tick \/ NewLimiter \/ UNCHANGED gateVars
  <2>1. ASSUME NEW r \in Slot, ThinksFreely(r) \/ AsksBrain(r) \/ AsksAgain(r)
        PROVE  Attempt \/ UNCHANGED gateVars
    BY <2>1 DEF ThinksFreely, AsksBrain, AsksAgain, Attempt
  <2> QED BY <2>1 DEF Next, TimePasses, EngineRestarts, vars, gateVars
<1>3. GatesOK'
  BY <1>2, GatesStep DEF Inv
<1> QED BY <1>1, <1>3 DEF Inv

LEMMA InvHolds == Spec => []Inv
BY InitInv, NextInv, PTL DEF Spec

\* Every variable keeps its type, and no bucket of the limiter ever holds more
\* tokens than its limit: tryConsume looks at the length after the cleanup.
THEOREM TypeCorrect == Spec => [](TalkTypeOK /\ GatesTypeOK)
<1>1. Inv => TalkTypeOK /\ GatesTypeOK
  BY GatesOKIs DEF Inv, TalkInv, GatesInv
<1> QED BY <1>1, InvHolds, PTL

\* The depth that a message carries is the number of runs that were woken since
\* somebody started the chain, and at most MAX_AGENT_HOPS, unless the count was
\* restarted on the way.
THEOREM DepthIsOnRecord == Spec => []DepthOnRecord
<1>1. Inv => DepthOnRecord
  BY DEF Inv, TalkInv
<1> QED BY <1>1, InvHolds, PTL

\* Whoever asked through an agent is told once, in the chat they asked in, and
\* told if there was an answer and nothing failed: a relay is spent by the answer
\* that deliverAgentReply carries, and a question travels with one run.
THEOREM OneAnswerComesHome == Spec => []OneAnswerAtHome
<1>1. ASSUME TalkInv PROVE OneAnswerAtHome
  <2> SUFFICES ASSUME NEW q \in DOMAIN questions
               PROVE  /\ Cardinality(ToldOf(q)) <= 1
                      /\ \A i \in ToldOf(q) : told[i].at = questions[q].home \/ questions[q].passedOn
                      /\ Busy = {} /\ faults = 0 /\ questions[q].answered => ToldOf(q) # {}
    BY DEF OneAnswerAtHome
  <2>1. Cardinality(ToldOf(q)) <= 1
    <3>1. CASE ToldOf(q) = {}
      BY <3>1, FS_EmptySet
    <3>2. CASE ToldOf(q) # {}
      <4>1. PICK i \in ToldOf(q) : TRUE
        BY <3>2
      <4>2. ToldOf(q) = {i}
        BY <4>1, <1>1 DEF TalkInv, ToldOnce, ToldOf
      <4>3. Cardinality({i}) = 1
        BY FS_Singleton
      <4> QED BY <4>2, <4>3
    <3> QED BY <3>1, <3>2
  <2>2. \A i \in ToldOf(q) : told[i].at = questions[q].home \/ questions[q].passedOn
    BY <1>1 DEF TalkInv, ToldAtHome, ToldOf
  <2>3. Busy = {} /\ faults = 0 /\ questions[q].answered => ToldOf(q) # {}
    BY <1>1 DEF TalkInv, AnswersOwed, In
  <2> QED BY <2>1, <2>2, <2>3
<1>2. Inv => OneAnswerAtHome
  BY <1>1 DEF Inv
<1> QED BY <1>2, InvHolds, PTL

\* No stretch of a minute, or of an hour, sees more calls of the Brain by runs than
\* the limit allows each engine that ran in it, wherever the window is laid: every
\* call left a token of its age in both buckets, whatever was cleaned up, refused
\* or spent in vain, and a restart loses buckets that were within the limit.
THEOREM CallsStayWithinLimits == Spec => []CallsWithinLimits
<1>1. Inv => CallsWithinLimits
  BY GatesLimit DEF Inv
<1> QED BY <1>1, InvHolds, PTL

==============================================================================
