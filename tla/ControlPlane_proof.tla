------------------------- MODULE ControlPlane_proof -------------------------
(***************************************************************************)
(* Proofs about the supervision of an agent's engine when starts, stops    *)
(* and removals wait for one another, for any number of processes and      *)
(* requests and any crash.                                                 *)
(***************************************************************************)
EXTENDS ControlPlane, TLAPS

LEMMA Numbers == MaxProcs \in Nat /\ MaxStarts \in Nat /\ 1 \in Proc /\ None \notin Proc /\ Proc \subseteq Nat
BY BoundsAssumption DEF Proc, None

LEMMA InvInit == Init => Inv
<1> SUFFICES ASSUME Init PROVE Inv
  OBVIOUS
<1> USE Numbers DEF Init
<1>1. TypeOK
  <2>1. \A c \in Call : call[c] \in Request
    BY DEF Request
  <2>2. call \in [Call -> Request]
    BY <2>1
  <2>3. starts \in 0..MaxStarts
    OBVIOUS
  <2> QED BY <2>2, <2>3 DEF TypeOK
<1>2. EngineOnRecordInOrder /\ AnsweredByAskedInOrder /\ DirectoryStaysGoneInOrder
  BY DEF EngineOnRecordInOrder, AnsweredByAskedInOrder, DirectoryStaysGoneInOrder, EngineOnRecord,
         AnsweredByAsked, DirectoryStaysGone
<1>3. RecordIsAlone /\ StartFindsNobody /\ RemovalWaitsForLast /\ AskedSomebody
  BY DEF RecordIsAlone, StartFindsNobody, RemovalWaitsForLast, AskedSomebody
<1> QED BY <1>1, <1>2, <1>3 DEF Inv

-----------------------------------------------------------------------------
(* What the helpers do.                                                    *)

LEMMA RejectAllOf ==
  ASSUME call \in [Call -> Request], NEW C
  PROVE  /\ RejectAll(C) \in [Call -> Request]
         /\ \A c \in Call : /\ RejectAll(C)[c].to = call[c].to /\ RejectAll(C)[c].by = call[c].by
                            /\ RejectAll(C)[c].state = IF c \in C THEN "rejected" ELSE call[c].state
<1>1. \A c \in Call : call[c] \in Request
  OBVIOUS
<1>2. \A c \in Call : RejectAll(C)[c] = IF c \in C THEN [call[c] EXCEPT !.state = "rejected"] ELSE call[c]
  BY DEF RejectAll
<1>3. ASSUME NEW r \in Request
      PROVE  LET n == [r EXCEPT !.state = "rejected"] IN
             n \in Request /\ n.to = r.to /\ n.by = r.by /\ n.state = "rejected"
  BY DEF Request, Settled
<1>4. \A c \in Call : RejectAll(C)[c] \in Request
  BY <1>1, <1>2, <1>3
<1>5. RejectAll(C) \in [Call -> Request]
  BY <1>4 DEF RejectAll
<1> QED BY <1>1, <1>2, <1>3, <1>5

LEMMA TerminateOf ==
  ASSUME TypeOK, NEW p \in Proc, Terminate(p)
  PROVE  /\ life' \in [Proc -> {"unborn", "up", "ending", "dead", "gone"}]
         /\ \A q \in Proc : life'[q] = IF q = p /\ life[q] = "up" THEN "ending" ELSE life[q]
BY DEF TypeOK, Terminate

\* Requests that are neither resolved nor sent elsewhere by a step.
CallParts == call \in [Call -> Request] /\ AskedSomebody /\ AnsweredByAskedInOrder

LEMMA RejectKeepsCalls ==
  ASSUME CallParts, NEW C, call' = RejectAll(C), orderly' = orderly
  PROVE  CallParts'
<1>1. call' \in [Call -> Request]
  BY RejectAllOf DEF CallParts
<1>2. \A c \in Call : /\ call'[c].to = call[c].to /\ call'[c].by = call[c].by
                      /\ call'[c].state \in {"rejected", call[c].state}
  BY RejectAllOf DEF CallParts
<1> QED BY <1>1, <1>2 DEF CallParts, AskedSomebody, AnsweredByAskedInOrder, AnsweredByAsked

-----------------------------------------------------------------------------
(* Every step keeps the invariant, one part at a time.                     *)

\* The requests.
LEMMA CallStep ==
  ASSUME Inv, [Next]_vars
  PROVE  CallParts'
<1>0. CallParts /\ TypeOK /\ RecordIsAlone
  BY DEF Inv, CallParts, TypeOK
<1>u. ASSUME UNCHANGED <<call, orderly>> PROVE CallParts'
  BY <1>0, <1>u DEF CallParts, AskedSomebody, AnsweredByAskedInOrder, AnsweredByAsked
<1>1. CASE StartChecks
  BY <1>1, <1>u DEF StartChecks
<1>2. CASE StartFails
  BY <1>2, <1>u DEF StartFails
<1>3. CASE StartSpawns
  BY <1>3, <1>u DEF StartSpawns
<1>4. CASE Stop
  <2> QED BY <1>4, <1>0, RejectKeepsCalls DEF Stop, LetGo
<1>5. CASE RemoveRunning
  <2> QED BY <1>5, <1>0, RejectKeepsCalls DEF RemoveRunning, LetGo
<1>6. CASE RemoveStopped
  BY <1>6, <1>u DEF RemoveStopped
<1>7. CASE RemovePurges
  BY <1>7, <1>u DEF RemovePurges
<1>8. ASSUME NEW c \in Call, CallRefused(c) PROVE CallParts'
  BY <1>8, <1>0, RejectKeepsCalls DEF CallRefused
<1>9. ASSUME NEW c \in Call, CallWaits(c) PROVE CallParts'
  <2> DEFINE r == [state |-> IF ready[child] THEN "pending" ELSE "waiting",
                   to |-> child, id |-> nextId[child], open |-> TRUE, by |-> None]
  <2>1. child \in Proc /\ nextId[child] \in Nat /\ call' = [call EXCEPT ![c] = r] /\ orderly' = orderly
    BY <1>9, <1>0 DEF CallWaits, TypeOK
  <2>2. r \in Request /\ r.to \in Proc /\ r.state # "resolved"
    BY <2>1 DEF Request
  <2> HIDE DEF r
  <2>3. call' \in [Call -> Request] /\ \A d \in Call : call'[d] = IF d = c THEN r ELSE call[d]
    BY <2>1, <2>2, <1>0 DEF CallParts
  <2> QED BY <2>1, <2>2, <2>3, <1>0 DEF CallParts, AskedSomebody, AnsweredByAskedInOrder, AnsweredByAsked
<1>10. ASSUME NEW c \in Call, Timeout(c) PROVE CallParts'
  BY <1>10, <1>0, RejectKeepsCalls DEF Timeout
<1>11. ASSUME NEW p \in Proc, BecomesReady(p) PROVE CallParts'
  <2>1. /\ orderly' = orderly
        /\ call' = [c \in Call |-> IF call[c].state = "waiting" /\ call[c].to = p
                                  THEN [call[c] EXCEPT !.state = "pending"] ELSE call[c]]
    BY <1>11 DEF BecomesReady
  <2>2. ASSUME NEW r \in Request
        PROVE  LET n == [r EXCEPT !.state = "pending"] IN
               n \in Request /\ n.to = r.to /\ n.by = r.by /\ n.state = "pending"
    BY DEF Request
  <2>3. \A c \in Call : call[c] \in Request
    BY <1>0 DEF CallParts
  <2>4. \A c \in Call : /\ call'[c] \in Request /\ call'[c].to = call[c].to /\ call'[c].by = call[c].by
                        /\ \/ call'[c].state = call[c].state
                           \/ call'[c].state = "pending" /\ call[c].state = "waiting"
    BY <2>1, <2>2, <2>3
  <2>5. call' \in [Call -> Request]
    BY <2>1, <2>4
  <2> QED BY <2>1, <2>4, <2>5, <1>0 DEF CallParts, AskedSomebody, AnsweredByAskedInOrder, AnsweredByAsked
<1>12. ASSUME NEW p \in Proc, Answer(p) PROVE CallParts'
  <2>1. PICK c \in Call, d \in Call :
          /\ Settles(d, call[c].id)
          /\ call' = [call EXCEPT ![c].open = FALSE, ![d].state = "resolved", ![d].by = p]
    BY <1>12 DEF Answer
  <2>2. orderly' = orderly /\ p \in Around
    BY <1>12 DEF Answer, Alive, Around
  <2>3. call[d].state = "pending" /\ call[d].to = child /\ child \in Proc
    BY <2>1, <1>0 DEF Settles, CallParts, AskedSomebody
  <2>4. orderly => p = child
    BY <2>2, <2>3, <1>0, Numbers DEF RecordIsAlone
  <2>5. ASSUME NEW r \in Request
        PROVE  LET n == [r EXCEPT !.open = FALSE] IN
               n \in Request /\ n.to = r.to /\ n.by = r.by /\ n.state = r.state
    BY DEF Request
  <2>6. ASSUME NEW r \in Request
        PROVE  LET n == [[r EXCEPT !.state = "resolved"] EXCEPT !.by = p] IN
               n \in Request /\ n.to = r.to /\ n.by = p /\ n.state = "resolved"
    BY DEF Request, Settled
  <2> DEFINE one == [call EXCEPT ![c].open = FALSE]
             two == [one EXCEPT ![d] = [[@ EXCEPT !.state = "resolved"] EXCEPT !.by = p]]
  <2>7. /\ one \in [Call -> Request]
        /\ \A e \in Call : one[e].to = call[e].to /\ one[e].by = call[e].by /\ one[e].state = call[e].state
    BY <1>0, <2>5 DEF CallParts
  <2>8. call' = two
    BY <2>1, <2>7
  <2> HIDE DEF one
  <2>9. /\ two \in [Call -> Request]
        /\ \A e \in Call : /\ two[e].to = one[e].to
                           /\ e # d => two[e].by = one[e].by /\ two[e].state = one[e].state
                           /\ e = d => two[e].by = p /\ two[e].state = "resolved"
    BY <2>6, <2>7
  <2> HIDE DEF two
  <2>10. \A e \in Call : /\ call'[e].to = call[e].to
                         /\ e # d => call'[e].by = call[e].by /\ call'[e].state = call[e].state
                         /\ e = d => call'[e].by = p /\ call'[e].state = "resolved"
    BY <2>7, <2>8, <2>9
  <2>11. /\ \A e \in Call : call[e].state \in {"waiting", "pending"} => call[e].to \in Proc
         /\ orderly => \A e \in Call : call[e].state = "resolved" => call[e].by = call[e].to
    BY <1>0 DEF CallParts, AskedSomebody, AnsweredByAskedInOrder, AnsweredByAsked
  <2>12. AskedSomebody'
    <3> SUFFICES ASSUME NEW e \in Call, call'[e].state \in {"waiting", "pending"} PROVE call'[e].to \in Proc
      BY DEF AskedSomebody
    <3>1. e # d
      BY <2>10
    <3> QED BY <2>10, <2>11, <3>1
  <2>13. AnsweredByAskedInOrder'
    <3> SUFFICES ASSUME orderly, NEW e \in Call, call'[e].state = "resolved" PROVE call'[e].by = call'[e].to
      BY <2>2 DEF AnsweredByAskedInOrder, AnsweredByAsked
    <3>1. CASE e = d
      BY <2>3, <2>4, <2>10, <3>1
    <3>2. CASE e # d
      BY <2>10, <2>11, <3>2
    <3> QED BY <3>1, <3>2
  <2> QED BY <2>8, <2>9, <2>12, <2>13 DEF CallParts
<1>13. ASSUME NEW p \in Proc, Writes(p) PROVE CallParts'
  BY <1>13, <1>u DEF Writes
<1>14. ASSUME NEW p \in Proc, Dies(p) PROVE CallParts'
  BY <1>14, <1>u DEF Dies
<1>15. ASSUME NEW p \in Proc, OnChildExit(p) PROVE CallParts'
  <2>1. CASE child = None
    BY <1>15, <2>1, <1>u DEF OnChildExit
  <2>2. CASE child # None
    BY <1>15, <2>2, <1>0, RejectKeepsCalls DEF OnChildExit
  <2> QED BY <2>1, <2>2
<1>16. CASE Shutdown
  BY <1>16, <1>u DEF Shutdown
<1>17. CASE UNCHANGED vars
  BY <1>17, <1>u DEF vars
<1>18. CASE RemoveGivesUp
  BY <1>18, <1>u DEF RemoveGivesUp
<1> QED BY <1>1, <1>2, <1>3, <1>4, <1>5, <1>6, <1>7, <1>8, <1>9, <1>10, <1>11, <1>12, <1>13,
          <1>14, <1>15, <1>16, <1>17, <1>18 DEF Next

\* The types of the rest.
LEMMA TypeStep ==
  ASSUME Inv, [Next]_vars
  PROVE  TypeOK'
<1>0. /\ orderly \in BOOLEAN /\ child \in Proc \cup {None}
      /\ life \in [Proc -> {"unborn", "up", "ending", "dead", "gone"}]
      /\ ready \in [Proc -> BOOLEAN] /\ nextId \in [Proc -> Nat] /\ starts \in 0..MaxStarts
      /\ removal \in [stage : {"none", "waiting", "done", "forced"}, of : Proc \cup {None}]
      /\ registered \in BOOLEAN /\ directory \in BOOLEAN
  BY DEF Inv, TypeOK
<1>c. call' \in [Call -> Request]
  BY CallStep DEF CallParts
<1> USE <1>0, <1>c, Numbers DEF TypeOK, LetGo, Terminate, Purges
<1>1. CASE StartChecks
  BY <1>1 DEF StartChecks
<1>2. CASE StartFails
  BY <1>2 DEF StartFails
<1>3. CASE StartSpawns
  BY <1>3 DEF StartSpawns
<1>4. CASE Stop
  BY <1>4 DEF Stop
<1>5. CASE RemoveRunning
  BY <1>5 DEF RemoveRunning
<1>6. CASE RemoveStopped
  BY <1>6 DEF RemoveStopped
<1>7. CASE RemovePurges
  BY <1>7 DEF RemovePurges
<1>8. ASSUME NEW c \in Call, CallRefused(c) PROVE TypeOK'
  BY <1>8 DEF CallRefused
<1>9. ASSUME NEW c \in Call, CallWaits(c) PROVE TypeOK'
  BY <1>9 DEF CallWaits
<1>10. ASSUME NEW c \in Call, Timeout(c) PROVE TypeOK'
  BY <1>10 DEF Timeout
<1>11. ASSUME NEW p \in Proc, BecomesReady(p) PROVE TypeOK'
  BY <1>11 DEF BecomesReady
<1>12. ASSUME NEW p \in Proc, Answer(p) PROVE TypeOK'
  BY <1>12 DEF Answer
<1>13. ASSUME NEW p \in Proc, Writes(p) PROVE TypeOK'
  BY <1>13 DEF Writes
<1>14. ASSUME NEW p \in Proc, Dies(p) PROVE TypeOK'
  BY <1>14 DEF Dies
<1>15. ASSUME NEW p \in Proc, OnChildExit(p) PROVE TypeOK'
  BY <1>15 DEF OnChildExit
<1>16. CASE Shutdown
  BY <1>16 DEF Shutdown
<1>17. CASE UNCHANGED vars
  BY <1>17 DEF vars
<1>18. CASE RemoveGivesUp
  BY <1>18 DEF RemoveGivesUp
<1> QED BY <1>1, <1>2, <1>3, <1>4, <1>5, <1>6, <1>7, <1>8, <1>9, <1>10, <1>11, <1>12, <1>13,
          <1>14, <1>15, <1>16, <1>17, <1>18 DEF Next

\* One process at a time.
OrderParts ==
  EngineOnRecordInOrder /\ DirectoryStaysGoneInOrder /\ RecordIsAlone /\ StartFindsNobody /\ RemovalWaitsForLast

\* The same in terms of the processes.
OneAround ==
  /\ \A p \in Proc : life[p] = "up" => p = child
  /\ child # None => life[child] # "ending" /\ \A p \in Proc : life[p] \in {"up", "ending", "dead"} => p = child
  /\ starts > 0 => /\ starts = 1 /\ child = None /\ removal.stage # "waiting"
                   /\ \A p \in Proc : life[p] \notin {"up", "ending", "dead"}
  /\ removal.stage = "waiting" =>
       child = None /\ \A p \in Proc : life[p] \in {"up", "ending", "dead"} => p = removal.of
  /\ removal.stage = "done" =>
       child = None /\ ~registered /\ ~directory /\ \A p \in Proc : life[p] \notin {"up", "ending"}

LEMMA OrderIsOneAround == orderly => (OrderParts <=> OneAround)
<1> USE DEF OrderParts, OneAround, Around, Alive, EngineOnRecordInOrder, EngineOnRecord, DirectoryStaysGoneInOrder,
            DirectoryStaysGone, RecordIsAlone, StartFindsNobody, RemovalWaitsForLast
<1>1. orderly /\ OrderParts => OneAround
  OBVIOUS
<1>2. orderly /\ OneAround => OrderParts
  OBVIOUS
<1> QED BY <1>1, <1>2

LEMMA OneAroundStep ==
  ASSUME Inv, orderly, [Next]_vars
  PROVE  OneAround'
<1>0. /\ child \in Proc \cup {None} /\ starts \in Nat /\ OneAround
      /\ life \in [Proc -> {"unborn", "up", "ending", "dead", "gone"}]
      /\ removal \in [stage : {"none", "waiting", "done", "forced"}, of : Proc \cup {None}]
  <2>1. OrderParts
    BY DEF Inv, OrderParts
  <2>2. OneAround
    BY <2>1, OrderIsOneAround
  <2> QED BY <2>2, Numbers DEF Inv, TypeOK
<1> USE <1>0, Numbers DEF OneAround, Asked, Quiet, LetGo, Terminate, Purges, Alive
<1>1. CASE StartChecks
  BY <1>1 DEF StartChecks
<1>2. CASE StartFails
  BY <1>2 DEF StartFails
<1>3. CASE StartSpawns
  BY <1>3 DEF StartSpawns
<1>4. CASE Stop
  BY <1>4 DEF Stop
<1>5. CASE RemoveRunning
  BY <1>5 DEF RemoveRunning
<1>6. CASE RemoveStopped
  BY <1>6 DEF RemoveStopped
<1>7. CASE RemovePurges
  BY <1>7 DEF RemovePurges
<1>8. ASSUME NEW c \in Call, CallRefused(c) PROVE OneAround'
  BY <1>8 DEF CallRefused
<1>9. ASSUME NEW c \in Call, CallWaits(c) PROVE OneAround'
  BY <1>9 DEF CallWaits
<1>10. ASSUME NEW c \in Call, Timeout(c) PROVE OneAround'
  BY <1>10 DEF Timeout
<1>11. ASSUME NEW p \in Proc, BecomesReady(p) PROVE OneAround'
  BY <1>11 DEF BecomesReady
<1>12. ASSUME NEW p \in Proc, Answer(p) PROVE OneAround'
  BY <1>12 DEF Answer
<1>13. ASSUME NEW p \in Proc, Writes(p) PROVE OneAround'
  BY <1>13 DEF Writes
<1>14. ASSUME NEW p \in Proc, Dies(p) PROVE OneAround'
  BY <1>14 DEF Dies
<1>15. ASSUME NEW p \in Proc, OnChildExit(p) PROVE OneAround'
  BY <1>15 DEF OnChildExit
<1>16. CASE Shutdown
  BY <1>16 DEF Shutdown
<1>17. CASE UNCHANGED vars
  BY <1>17 DEF vars
<1>18. CASE RemoveGivesUp
  BY <1>18 DEF RemoveGivesUp
<1> QED BY <1>1, <1>2, <1>3, <1>4, <1>5, <1>6, <1>7, <1>8, <1>9, <1>10, <1>11, <1>12, <1>13,
          <1>14, <1>15, <1>16, <1>17, <1>18 DEF Next

LEMMA OrderStep ==
  ASSUME Inv, [Next]_vars
  PROVE  OrderParts'
<1>1. orderly' = orderly
  BY DEF Next, vars, StartChecks, StartFails, StartSpawns, Stop, Shutdown, RemoveRunning, RemoveStopped, RemovePurges, RemoveGivesUp,
         CallRefused, CallWaits, Timeout, BecomesReady, Answer, Writes, Dies, OnChildExit
<1>2. CASE ~orderly
  BY <1>1, <1>2 DEF OrderParts, EngineOnRecordInOrder, DirectoryStaysGoneInOrder, RecordIsAlone, StartFindsNobody,
                   RemovalWaitsForLast
<1>3. CASE orderly
  <2>1. OneAround'
    BY <1>3, OneAroundStep
  <2>2. (orderly => (OrderParts <=> OneAround))'
    BY OrderIsOneAround, PTL
  <2> QED BY <1>1, <1>3, <2>1, <2>2
<1> QED BY <1>2, <1>3

LEMMA InvStep == Inv /\ [Next]_vars => Inv'
BY CallStep, TypeStep, OrderStep DEF Inv, CallParts, OrderParts

-----------------------------------------------------------------------------
(* The theorems.                                                           *)

\* The types, the three properties and the strengthening hold in every reachable
\* state, for any number of processes and requests.
THEOREM SupervisionInvariant == Spec => []Inv
BY InvInit, InvStep, PTL DEF Spec

\* When starts, stops and removals wait for one another, startAgent never leaves an
\* engine that children does not know.
THEOREM EngineStaysOnRecord == Spec => []EngineOnRecordInOrder
<1>1. Inv => EngineOnRecordInOrder
  BY DEF Inv
<1> QED BY <1>1, SupervisionInvariant, PTL

\* Then also a request is answered by the engine that was asked, although the ids
\* of requests begin anew with every engine.
THEOREM AskedOneAnswers == Spec => []AnsweredByAskedInOrder
<1>1. Inv => AnsweredByAskedInOrder
  BY DEF Inv
<1> QED BY <1>1, SupervisionInvariant, PTL

\* Then also nobody writes to the directory of a removed agent.
THEOREM RemovedStaysRemoved == Spec => []DirectoryStaysGoneInOrder
<1>1. Inv => DirectoryStaysGoneInOrder
  BY DEF Inv
<1> QED BY <1>1, SupervisionInvariant, PTL

=============================================================================
