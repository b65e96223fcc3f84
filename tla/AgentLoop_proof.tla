--------------------------- MODULE AgentLoop_proof ---------------------------
(***************************************************************************)
(* Proofs about a run of the agent loop, for any calls, plans, limits and  *)
(* interleavings with a cancellation; and about the context budget that    *)
(* trims its conversation, for any conversation, budget and cost of texts. *)
(***************************************************************************)
EXTENDS AgentLoop, ContextBudget, SequenceTheorems, FiniteSetTheorems, WellFoundedInduction,
        NaturalsInduction, TLAPS

-----------------------------------------------------------------------------
(* Plans and how often they repeat a call.                                 *)

LEMMA NoCallsIsPlan == NoCalls \in Calls /\ DOMAIN NoCalls = {}
<1>1. NoCalls \in [{} -> Call] /\ {} \in SUBSET (1..MaxBatch)
  BY DEF NoCalls
<1> QED BY <1>1 DEF Calls

LEMMA AllowedIsPlan == ASSUME NEW batch \in Batch PROVE Allowed(batch) \in Calls
<1>1. PICK n \in 1..MaxBatch : batch \in [1..n -> Call]
  BY DEF Batch
<1> DEFINE S == {j \in DOMAIN batch : batch[j] \notin Denied}
<1>2. S \in SUBSET (1..MaxBatch)
  BY <1>1, LimitsAssumption
<1>3. Allowed(batch) \in [S -> Call]
  BY <1>1 DEF Allowed
<1> QED BY <1>2, <1>3 DEF Calls

LEMMA TimesIsNat == ASSUME NEW p \in Calls, NEW c \in Same PROVE Times(c, p) \in Nat
<1>1. PICK S \in SUBSET (1..MaxBatch) : p \in [S -> Call]
  BY DEF Calls
<1>2. {i \in DOMAIN p : p[i] = c} \subseteq 1..MaxBatch
  BY <1>1
<1>3. IsFiniteSet(1..MaxBatch)
  BY FS_Interval, LimitsAssumption
<1> QED BY <1>2, <1>3, FS_Subset, FS_CardinalityType DEF Times

LEMMA SizeIsNat == ASSUME NEW p \in Calls PROVE Cardinality(DOMAIN p) \in Nat
<1>1. PICK S \in SUBSET (1..MaxBatch) : p \in [S -> Call]
  BY DEF Calls
<1>2. IsFiniteSet(1..MaxBatch)
  BY FS_Interval, LimitsAssumption
<1> QED BY <1>1, <1>2, FS_Subset, FS_CardinalityType

LEMMA CountedOf ==
  ASSUME TypeOK, NEW batch \in Batch
  PROVE  /\ Counted(Allowed(batch)) \in [Same -> Nat]
         /\ \A c \in Same : /\ Counted(Allowed(batch))[c] = calls[c] + Times(c, Allowed(batch))
                            /\ Times(c, Allowed(batch)) \in Nat
<1>1. \A c \in Same : Times(c, Allowed(batch)) \in Nat
  BY AllowedIsPlan, TimesIsNat
<1>2. \A c \in Same : Counted(Allowed(batch))[c] = calls[c] + Times(c, Allowed(batch))
  BY DEF Counted
<1>3. calls \in [Same -> Nat]
  BY DEF TypeOK
<1>4. Counted(Allowed(batch)) \in [Same -> Nat]
  BY <1>1, <1>3 DEF Counted
<1> QED BY <1>1, <1>2, <1>4

-----------------------------------------------------------------------------
(* The invariant holds at the start.                                       *)

LEMMA InvInit == Init => Inv
<1> SUFFICES ASSUME Init PROVE Inv
  OBVIOUS
<1> USE LimitsAssumption DEF Init
<1>1. TypeOK
  <2>1. /\ idle \in 0..MaxIterations /\ brainFailures \in 0..MaxBrainFailures /\ noResponse \in 0..1
        /\ calls \in [Same -> Nat] /\ ran \in [Same -> Nat] /\ executed \in Nat
        /\ late \in Nat /\ fruitless \in Nat
    OBVIOUS
  <2>2. /\ limit \in ToolLimits /\ phase \in Phase /\ notes \subseteq Note /\ enriched \subseteq Note /\ shared \in BOOLEAN
        /\ cancelled \in BOOLEAN /\ result \in Result /\ lastNote \in Note \cup {NoNote}
    BY DEF Phase, Result
  <2> QED BY <2>1, <2>2, NoCallsIsPlan DEF TypeOK
<1>2. StuckCallsStopped /\ CancelStopsTools /\ GivesUpInTime
  BY DEF StuckCallsStopped, CancelStopsTools, GivesUpInTime
<1>3. GoesOn /\ CountedBeforeRun /\ IdleIsFruitless /\ LateIsLeaving
  BY DEF GoesOn, CountedBeforeRun, IdleIsFruitless, LateIsLeaving
<1>4. NotesKept /\ NotesReachNextIteration
  BY DEF NotesKept, NotesReachNextIteration
<1> QED BY <1>1, <1>2, <1>3, <1>4 DEF Inv

-----------------------------------------------------------------------------
(* Every step keeps it, one part at a time.                                *)

Numbers ==
  /\ idle \in 0..MaxIterations /\ brainFailures \in 0..MaxBrainFailures /\ noResponse \in 0..1
  /\ late \in Nat /\ fruitless \in Nat
Tools == calls \in [Same -> Nat] /\ ran \in [Same -> Nat] /\ executed \in Nat /\ plan \in Calls
Words ==
  /\ limit \in ToolLimits
  /\ phase \in Phase /\ notes \subseteq Note /\ enriched \subseteq Note /\ shared \in BOOLEAN
  /\ cancelled \in BOOLEAN /\ result \in Result /\ lastNote \in Note \cup {NoNote}

LEMMA TypeParts == TypeOK <=> Numbers /\ Tools /\ Words
BY DEF TypeOK, Numbers, Tools, Words

LEMMA NumbersStep ==
  ASSUME Numbers, GoesOn, [Next]_vars
  PROVE  Numbers'
<1> USE LimitsAssumption DEF Numbers, GoesOn, counters, texts, tools, Return, OutOfLoop, Retry,
        Speaks, PlanArrives, NextIteration
<1>1. CASE Begin
  BY <1>1 DEF Begin
<1>2. CASE Exhausted
  BY <1>2 DEF Exhausted
<1>3. CASE NoticeCancel
  BY <1>3 DEF NoticeCancel
<1>4. CASE Perceive
  BY <1>4 DEF Perceive
<1>5. CASE FixedCostsExceedBudget
  BY <1>5 DEF FixedCostsExceedBudget
<1>6. CASE RateLimited
  BY <1>6 DEF RateLimited
<1>7. CASE NoBrain
  BY <1>7 DEF NoBrain
<1>8. CASE BrainFails
  <2>1. /\ phase = "thinking" /\ brainFailures' = brainFailures + 1
        /\ brainFailures' >= MaxBrainFailures => phase' = "ended"
        /\ phase' \in {"top", "ended"}
        /\ UNCHANGED <<idle, noResponse, calls, result, late, ran, fruitless>>
    BY <1>8 DEF BrainFails, tools
  <2> QED BY <2>1
<1>9. CASE Answers
  BY <1>9 DEF Answers
<1>10. CASE Narrates
  BY <1>10 DEF Narrates
<1>11. CASE DoneSilently
  <2>1. /\ brainFailures' = 0 /\ noResponse' = 1 /\ phase' = "top" /\ phase = "thinking"
        /\ UNCHANGED <<idle, calls, result, late, ran, fruitless>>
    BY <1>11 DEF DoneSilently, tools
  <2> QED BY <2>1
<1>12. CASE DoneWithCalls
  BY <1>12 DEF DoneWithCalls
<1>13. CASE PlansNothing
  BY <1>13 DEF PlansNothing
<1>14. ASSUME NEW batch \in Batch, HitsToolLimit(batch) PROVE Numbers'
  BY <1>14 DEF HitsToolLimit
<1>15. ASSUME NEW batch \in Batch, AllBlocked(batch) PROVE Numbers'
  BY <1>15 DEF AllBlocked
<1>16. ASSUME NEW batch \in Batch, GetsStuck(batch) PROVE Numbers'
  BY <1>16 DEF GetsStuck
<1>17. ASSUME NEW batch \in Batch, PlansCalls(batch) PROVE Numbers'
  BY <1>17 DEF PlansCalls
<1>18. CASE Confirm
  BY <1>18 DEF Confirm
<1>19. CASE Decline
  BY <1>19 DEF Decline
<1>20. ASSUME NEW success \in BOOLEAN, ToolsReturn(success) PROVE Numbers'
  BY <1>20 DEF ToolsReturn
<1>21. CASE Cancel
  BY <1>21 DEF Cancel
<1>22. CASE UNCHANGED vars
  BY <1>22 DEF vars
<1> QED BY <1>1, <1>2, <1>3, <1>4, <1>5, <1>6, <1>7, <1>8, <1>9, <1>10, <1>11, <1>12, <1>13,
          <1>14, <1>15, <1>16, <1>17, <1>18, <1>19, <1>20, <1>21, <1>22 DEF Next, Step

LEMMA ToolsStep ==
  ASSUME TypeOK, Tools, [Next]_vars
  PROVE  Tools'
<1> USE NoCallsIsPlan DEF Tools, counters, texts, tools, Return, OutOfLoop, Retry, Write,
        Speaks, PlanArrives, NextIteration
<1>1. CASE Begin
  BY <1>1 DEF Begin
<1>2. CASE Exhausted
  BY <1>2 DEF Exhausted
<1>3. CASE NoticeCancel
  BY <1>3 DEF NoticeCancel
<1>4. CASE Perceive
  BY <1>4 DEF Perceive
<1>5. CASE FixedCostsExceedBudget
  BY <1>5 DEF FixedCostsExceedBudget
<1>6. CASE RateLimited
  BY <1>6 DEF RateLimited
<1>7. CASE NoBrain
  BY <1>7 DEF NoBrain
<1>8. CASE BrainFails
  BY <1>8 DEF BrainFails
<1>9. CASE Answers
  BY <1>9 DEF Answers
<1>10. CASE Narrates
  BY <1>10 DEF Narrates
<1>11. CASE DoneSilently
  BY <1>11 DEF DoneSilently
<1>12. CASE DoneWithCalls
  BY <1>12 DEF DoneWithCalls
<1>13. CASE PlansNothing
  BY <1>13 DEF PlansNothing
<1>14. ASSUME NEW batch \in Batch, HitsToolLimit(batch) PROVE Tools'
  BY <1>14 DEF HitsToolLimit
<1>15. ASSUME NEW batch \in Batch, AllBlocked(batch) PROVE Tools'
  BY <1>15 DEF AllBlocked
<1>16. ASSUME NEW batch \in Batch, GetsStuck(batch) PROVE Tools'
  BY <1>16, CountedOf DEF GetsStuck
<1>17. ASSUME NEW batch \in Batch, PlansCalls(batch) PROVE Tools'
  BY <1>17, CountedOf, AllowedIsPlan DEF PlansCalls
<1>18. CASE Confirm
  BY <1>18 DEF Confirm
<1>19. CASE Decline
  BY <1>19 DEF Decline
<1>20. ASSUME NEW success \in BOOLEAN, ToolsReturn(success) PROVE Tools'
  <2>1. \A c \in Same : Times(c, plan) \in Nat
    BY TimesIsNat
  <2>2. Cardinality(DOMAIN plan) \in Nat
    BY SizeIsNat
  <2> QED BY <1>20, <2>1, <2>2 DEF ToolsReturn
<1>21. CASE Cancel
  BY <1>21 DEF Cancel
<1>22. CASE UNCHANGED vars
  BY <1>22 DEF vars
<1> QED BY <1>1, <1>2, <1>3, <1>4, <1>5, <1>6, <1>7, <1>8, <1>9, <1>10, <1>11, <1>12, <1>13,
          <1>14, <1>15, <1>16, <1>17, <1>18, <1>19, <1>20, <1>21, <1>22 DEF Next, Step

LEMMA WordsStep ==
  ASSUME Words, [Next]_vars
  PROVE  Words'
<1> USE DEF Words, Phase, Note, Result, counters, texts, tools, Return, OutOfLoop, Retry, Write,
        Speaks, PlanArrives, NextIteration
<1>1. CASE Begin
  BY <1>1 DEF Begin
<1>2. CASE Exhausted
  BY <1>2 DEF Exhausted
<1>3. CASE NoticeCancel
  BY <1>3 DEF NoticeCancel
<1>4. CASE Perceive
  BY <1>4 DEF Perceive
<1>5. CASE FixedCostsExceedBudget
  BY <1>5 DEF FixedCostsExceedBudget
<1>6. CASE RateLimited
  BY <1>6 DEF RateLimited
<1>7. CASE NoBrain
  BY <1>7 DEF NoBrain
<1>8. CASE BrainFails
  BY <1>8 DEF BrainFails
<1>9. CASE Answers
  BY <1>9 DEF Answers
<1>10. CASE Narrates
  BY <1>10 DEF Narrates
<1>11. CASE DoneSilently
  BY <1>11 DEF DoneSilently
<1>12. CASE DoneWithCalls
  BY <1>12 DEF DoneWithCalls
<1>13. CASE PlansNothing
  BY <1>13 DEF PlansNothing
<1>14. ASSUME NEW batch \in Batch, HitsToolLimit(batch) PROVE Words'
  BY <1>14 DEF HitsToolLimit
<1>15. ASSUME NEW batch \in Batch, AllBlocked(batch) PROVE Words'
  BY <1>15 DEF AllBlocked
<1>16. ASSUME NEW batch \in Batch, GetsStuck(batch) PROVE Words'
  BY <1>16 DEF GetsStuck
<1>17. ASSUME NEW batch \in Batch, PlansCalls(batch) PROVE Words'
  BY <1>17 DEF PlansCalls
<1>18. CASE Confirm
  BY <1>18 DEF Confirm
<1>19. CASE Decline
  BY <1>19 DEF Decline
<1>20. ASSUME NEW success \in BOOLEAN, ToolsReturn(success) PROVE Words'
  BY <1>20 DEF ToolsReturn
<1>21. CASE Cancel
  BY <1>21 DEF Cancel
<1>22. CASE UNCHANGED vars
  BY <1>22 DEF vars
<1> QED BY <1>1, <1>2, <1>3, <1>4, <1>5, <1>6, <1>7, <1>8, <1>9, <1>10, <1>11, <1>12, <1>13,
          <1>14, <1>15, <1>16, <1>17, <1>18, <1>19, <1>20, <1>21, <1>22 DEF Next, Step

LEMMA TypeStep == Inv /\ [Next]_vars => TypeOK'
<1> SUFFICES ASSUME Inv, [Next]_vars PROVE TypeOK'
  OBVIOUS
<1>1. TypeOK /\ GoesOn
  BY DEF Inv
<1>2. Numbers /\ Tools /\ Words
  BY <1>1, TypeParts
<1>3. Numbers' /\ Tools' /\ Words'
  BY <1>1, <1>2, NumbersStep, ToolsStep, WordsStep
<1> QED BY <1>3 DEF TypeOK, Numbers, Tools, Words

\* No call runs that was not counted first, and the run ends when one reaches the
\* limit.
CallParts == StuckCallsStopped /\ GoesOn /\ CountedBeforeRun

LEMMA CallStep ==
  ASSUME Inv, [Next]_vars
  PROVE  CallParts'
<1>0. /\ StuckCallsStopped /\ GoesOn /\ CountedBeforeRun /\ phase \in Phase
      /\ calls \in [Same -> Nat] /\ ran \in [Same -> Nat] /\ plan \in Calls /\ Stuck \in Nat
      /\ brainFailures \in Nat /\ MaxBrainFailures \in Nat
      /\ \A c \in Same : Times(c, plan) \in Nat
  BY TimesIsNat, LimitsAssumption DEF Inv, TypeOK
<1> USE <1>0 DEF CallParts, StuckCallsStopped, GoesOn, CountedBeforeRun, Phase, counters, tools, Return,
        OutOfLoop, Retry, Speaks, PlanArrives, NextIteration
<1>1. CASE Begin
  BY <1>1 DEF Begin
<1>2. CASE Exhausted
  BY <1>2 DEF Exhausted
<1>3. CASE NoticeCancel
  BY <1>3 DEF NoticeCancel
<1>4. CASE Perceive
  BY <1>4 DEF Perceive
<1>5. CASE FixedCostsExceedBudget
  BY <1>5 DEF FixedCostsExceedBudget
<1>6. CASE RateLimited
  BY <1>6 DEF RateLimited
<1>7. CASE NoBrain
  BY <1>7 DEF NoBrain
<1>8. CASE BrainFails
  <2>1. /\ phase = "thinking" /\ brainFailures' = brainFailures + 1
        /\ brainFailures' >= MaxBrainFailures => phase' = "ended"
        /\ phase' \in {"top", "ended"}
        /\ UNCHANGED <<idle, noResponse, calls, result, late, ran, fruitless>>
    BY <1>8 DEF BrainFails, tools
  <2> QED BY <2>1
<1>9. CASE Answers
  BY <1>9 DEF Answers
<1>10. CASE Narrates
  BY <1>10 DEF Narrates
<1>11. CASE DoneSilently
  <2>1. /\ brainFailures' = 0 /\ noResponse' = 1 /\ phase' = "top" /\ phase = "thinking"
        /\ UNCHANGED <<idle, calls, result, late, ran, fruitless>>
    BY <1>11 DEF DoneSilently, tools
  <2> QED BY <2>1
<1>12. CASE DoneWithCalls
  BY <1>12 DEF DoneWithCalls
<1>13. CASE PlansNothing
  BY <1>13 DEF PlansNothing
<1>14. ASSUME NEW batch \in Batch, HitsToolLimit(batch) PROVE CallParts'
  BY <1>14 DEF HitsToolLimit
<1>15. ASSUME NEW batch \in Batch, AllBlocked(batch) PROVE CallParts'
  BY <1>15 DEF AllBlocked
<1>16. ASSUME NEW batch \in Batch, GetsStuck(batch) PROVE CallParts'
  <2>1. \A c \in Same : Counted(Allowed(batch))[c] = calls[c] + Times(c, Allowed(batch)) /\ Times(c, Allowed(batch)) \in Nat
    BY CountedOf DEF Inv
  <2> QED BY <1>16, <2>1 DEF GetsStuck
<1>17. ASSUME NEW batch \in Batch, PlansCalls(batch) PROVE CallParts'
  <2>1. /\ calls' = Counted(Allowed(batch)) /\ plan' = Allowed(batch) /\ phase' = "confirming"
        /\ ran' = ran /\ result' = result /\ brainFailures' = 0 /\ \A c \in Same : calls'[c] < Stuck
        /\ phase = "thinking"
    BY <1>17 DEF PlansCalls
  <2>2. \A c \in Same : calls'[c] = calls[c] + Times(c, plan') /\ Times(c, plan') \in Nat
    BY <2>1, CountedOf DEF Inv
  <2>3. GoesOn'
    BY <2>1, LimitsAssumption
  <2>4. CountedBeforeRun'
    BY <2>1, <2>2
  <2> QED BY <2>1, <2>3, <2>4
<1>18. CASE Confirm
  BY <1>18 DEF Confirm
<1>19. CASE Decline
  BY <1>19 DEF Decline
<1>20. ASSUME NEW success \in BOOLEAN, ToolsReturn(success) PROVE CallParts'
  <2>1. /\ \A c \in Same : ran'[c] = ran[c] + Times(c, plan)
        /\ phase = "acting" /\ phase' = "top" /\ UNCHANGED <<calls, result, brainFailures>>
    BY <1>20 DEF ToolsReturn
  <2>2. GoesOn
    OBVIOUS
  <2>3. \A c \in Same : ran'[c] <= calls[c] /\ calls[c] < Stuck
    BY <2>1
  <2>4. \A c \in Same : ran'[c] \in Nat
    BY <2>1
  <2> QED BY <2>1, <2>3, <2>4
<1>21. CASE Cancel
  BY <1>21 DEF Cancel
<1>22. CASE UNCHANGED vars
  BY <1>22 DEF vars
<1> QED BY <1>1, <1>2, <1>3, <1>4, <1>5, <1>6, <1>7, <1>8, <1>9, <1>10, <1>11, <1>12, <1>13,
          <1>14, <1>15, <1>16, <1>17, <1>18, <1>19, <1>20, <1>21, <1>22 DEF Next, Step

\* The counter of iterations is that of the iterations without a success, and
\* a cancelled run begins no other.
EndParts == GivesUpInTime /\ IdleIsFruitless /\ LateIsLeaving /\ CancelStopsTools

LEMMA EndStep == Inv /\ [Next]_vars => EndParts'
<1> SUFFICES ASSUME Inv, [Next]_vars PROVE EndParts'
  OBVIOUS
<1> USE LimitsAssumption
    DEF Inv, TypeOK, EndParts, GivesUpInTime, IdleIsFruitless, LateIsLeaving, CancelStopsTools, GoesOn,
        counters, tools, Return, OutOfLoop, Retry, Speaks, PlanArrives, NextIteration
<1>1. CASE Begin
  BY <1>1 DEF Begin
<1>2. CASE Exhausted
  BY <1>2 DEF Exhausted
<1>3. CASE NoticeCancel
  BY <1>3 DEF NoticeCancel
<1>4. CASE Perceive
  BY <1>4 DEF Perceive
<1>5. CASE FixedCostsExceedBudget
  BY <1>5 DEF FixedCostsExceedBudget
<1>6. CASE RateLimited
  BY <1>6 DEF RateLimited
<1>7. CASE NoBrain
  BY <1>7 DEF NoBrain
<1>8. CASE BrainFails
  BY <1>8 DEF BrainFails
<1>9. CASE Answers
  BY <1>9 DEF Answers
<1>10. CASE Narrates
  BY <1>10 DEF Narrates
<1>11. CASE DoneSilently
  BY <1>11 DEF DoneSilently
<1>12. CASE DoneWithCalls
  BY <1>12 DEF DoneWithCalls
<1>13. CASE PlansNothing
  BY <1>13 DEF PlansNothing
<1>14. ASSUME NEW batch \in Batch, HitsToolLimit(batch) PROVE EndParts'
  BY <1>14 DEF HitsToolLimit
<1>15. ASSUME NEW batch \in Batch, AllBlocked(batch) PROVE EndParts'
  BY <1>15 DEF AllBlocked
<1>16. ASSUME NEW batch \in Batch, GetsStuck(batch) PROVE EndParts'
  BY <1>16 DEF GetsStuck
<1>17. ASSUME NEW batch \in Batch, PlansCalls(batch) PROVE EndParts'
  BY <1>17 DEF PlansCalls
<1>18. CASE Confirm
  BY <1>18 DEF Confirm
<1>19. CASE Decline
  BY <1>19 DEF Decline
<1>20. ASSUME NEW success \in BOOLEAN, ToolsReturn(success) PROVE EndParts'
  BY <1>20 DEF ToolsReturn
<1>21. CASE Cancel
  BY <1>21 DEF Cancel
<1>22. CASE UNCHANGED vars
  BY <1>22 DEF vars
<1> QED BY <1>1, <1>2, <1>3, <1>4, <1>5, <1>6, <1>7, <1>8, <1>9, <1>10, <1>11, <1>12, <1>13,
          <1>14, <1>15, <1>16, <1>17, <1>18, <1>19, <1>20, <1>21, <1>22 DEF Next, Step

\* Both copies of the conversation have the note as long as they are one.
NoteParts == NotesKept /\ NotesReachNextIteration

LEMMA NoteStep == Inv /\ [Next]_vars => NoteParts'
<1> SUFFICES ASSUME Inv, [Next]_vars PROVE NoteParts'
  OBVIOUS
<1> USE DEF Inv, TypeOK, NoteParts, NotesKept, NotesReachNextIteration, texts, Return, OutOfLoop, Retry,
            Write, Speaks, PlanArrives, NextIteration
<1>1. CASE Begin
  BY <1>1 DEF Begin
<1>2. CASE Exhausted
  BY <1>2 DEF Exhausted
<1>3. CASE NoticeCancel
  BY <1>3 DEF NoticeCancel
<1>4. CASE Perceive
  BY <1>4 DEF Perceive
<1>5. CASE FixedCostsExceedBudget
  BY <1>5 DEF FixedCostsExceedBudget
<1>6. CASE RateLimited
  BY <1>6 DEF RateLimited
<1>7. CASE NoBrain
  BY <1>7 DEF NoBrain
<1>8. CASE BrainFails
  BY <1>8 DEF BrainFails
<1>9. CASE Answers
  BY <1>9 DEF Answers
<1>10. CASE Narrates
  BY <1>10 DEF Narrates
<1>11. CASE DoneSilently
  BY <1>11 DEF DoneSilently
<1>12. CASE DoneWithCalls
  BY <1>12 DEF DoneWithCalls
<1>13. CASE PlansNothing
  BY <1>13 DEF PlansNothing
<1>14. ASSUME NEW batch \in Batch, HitsToolLimit(batch) PROVE NoteParts'
  BY <1>14 DEF HitsToolLimit
<1>15. ASSUME NEW batch \in Batch, AllBlocked(batch) PROVE NoteParts'
  BY <1>15 DEF AllBlocked
<1>16. ASSUME NEW batch \in Batch, GetsStuck(batch) PROVE NoteParts'
  BY <1>16 DEF GetsStuck
<1>17. ASSUME NEW batch \in Batch, PlansCalls(batch) PROVE NoteParts'
  BY <1>17 DEF PlansCalls
<1>18. CASE Confirm
  BY <1>18 DEF Confirm
<1>19. CASE Decline
  BY <1>19 DEF Decline
<1>20. ASSUME NEW success \in BOOLEAN, ToolsReturn(success) PROVE NoteParts'
  BY <1>20 DEF ToolsReturn
<1>21. CASE Cancel
  BY <1>21 DEF Cancel
<1>22. CASE UNCHANGED vars
  BY <1>22 DEF vars
<1> QED BY <1>1, <1>2, <1>3, <1>4, <1>5, <1>6, <1>7, <1>8, <1>9, <1>10, <1>11, <1>12, <1>13,
          <1>14, <1>15, <1>16, <1>17, <1>18, <1>19, <1>20, <1>21, <1>22 DEF Next, Step

LEMMA InvStep == Inv /\ [Next]_vars => Inv'
BY TypeStep, CallStep, EndStep, NoteStep DEF Inv, CallParts, EndParts, NoteParts

-----------------------------------------------------------------------------
(* The theorems.                                                           *)

\* The types, the safety properties and the strengthening hold in every reachable
\* state of a run, whatever the Brain plans and whenever it is cancelled.
THEOREM LoopInvariant == Spec => []Inv
BY InvInit, InvStep, PTL DEF Spec

\* The stuck-loop counter lets no call run as often as its limit.
THEOREM StuckLoopStops == Spec => []StuckCallsStopped
<1>1. Inv => StuckCallsStopped
  BY DEF Inv
<1> QED BY <1>1, LoopInvariant, PTL

\* After task.cancel at most one more batch of tools begins.
THEOREM CancelledRunStops == Spec => []CancelStopsTools
<1>1. Inv => CancelStopsTools
  BY DEF Inv
<1> QED BY <1>1, LoopInvariant, PTL

\* effectiveMaxIterations bounds the iterations without a success, and the loop
\* says sorry only when they are used up.
THEOREM LoopGivesUp == Spec => []GivesUpInTime
<1>1. Inv => GivesUpInTime
  BY DEF Inv
<1> QED BY <1>1, LoopInvariant, PTL

\* A note to the Brain is in the conversation that the next iteration starts from,
\* unless a retry dropped the iteration's own array.
THEOREM NotesArrive == Spec => []NotesReachNextIteration
<1>1. Inv => NotesReachNextIteration
  BY DEF Inv
<1> QED BY <1>1, LoopInvariant, PTL

-----------------------------------------------------------------------------
(* The context budget: sums and filters by recursion on the position.      *)

LEMMA SetInduction ==
  ASSUME NEW S, 0 \in S, \A n \in Nat : n \in S => n + 1 \in S
  PROVE  Nat \subseteq S
<1> SUFFICES ASSUME Nat \ S # {} PROVE FALSE
  OBVIOUS
<1>1. PICK m \in Nat \ S : \A n \in Nat \ S : ~(<<n, m>> \in OpToRel(<, Nat))
  BY WFMin, NatLessThanWellFounded
<1>2. m # 0 /\ m \in Nat
  OBVIOUS
<1>3. m - 1 \in Nat /\ m - 1 < m /\ (m - 1) + 1 = m
  BY <1>2
<1>4. m - 1 \notin S
  BY <1>2, <1>3
<1>5. <<m - 1, m>> \in OpToRel(<, Nat)
  BY <1>2, <1>3 DEF OpToRel
<1> QED BY <1>1, <1>3, <1>4, <1>5

\* The sum is defined at every position, and is what the recursion says.
LEMMA SumStep ==
  ASSUME NEW w, NEW n \in Nat
  PROVE  /\ SumTo(w, n)[0] = 0
         /\ \A k \in Nat : k + 1 <= n => SumTo(w, n)[k + 1] = SumTo(w, n)[k] + w[k + 1]
<1> DEFINE Sums(f, m) == f = [k \in 0..m |-> IF k = 0 THEN 0 ELSE f[k - 1] + w[k]]
           N == {m \in Nat : \E f : Sums(f, m)}
<1>1. 0 \in N
  <2>1. Sums([k \in 0..0 |-> 0], 0)
    OBVIOUS
  <2> QED BY <2>1
<1>2. ASSUME NEW m \in Nat, m \in N PROVE m + 1 \in N
  <2>1. PICK f : Sums(f, m)
    BY <1>2
  <2> DEFINE g == [k \in 0..(m + 1) |-> IF k = m + 1 THEN f[m] + w[m + 1] ELSE f[k]]
  <2>2. ASSUME NEW k \in 0..(m + 1) PROVE g[k] = IF k = 0 THEN 0 ELSE g[k - 1] + w[k]
    <3>1. CASE k = 0
      BY <2>1, <3>1
    <3>2. CASE k = m + 1
      BY <2>1, <3>2
    <3>3. CASE k \in 1..m
      BY <2>1, <3>3
    <3> QED BY <3>1, <3>2, <3>3
  <2>3. Sums(g, m + 1)
    BY <2>2 DEF g
  <2> HIDE DEF g, Sums
  <2> QED BY <2>3
<1>3. n \in N
  <2> HIDE DEF N
  <2> QED BY <1>1, <1>2, SetInduction
<1>4. \E f : Sums(f, n)
  BY <1>3
<1>5. SumTo(w, n) = [k \in 0..n |-> IF k = 0 THEN 0 ELSE SumTo(w, n)[k - 1] + w[k]]
  BY <1>4 DEF SumTo
<1> DEFINE s == SumTo(w, n)
<1> HIDE DEF s
<1>6. s = [k \in 0..n |-> IF k = 0 THEN 0 ELSE s[k - 1] + w[k]]
  BY <1>5 DEF s
<1>7. s[0] = 0
  BY <1>6
<1>8. ASSUME NEW k \in Nat, k + 1 <= n PROVE s[k + 1] = s[k] + w[k + 1]
  <2>1. k + 1 \in 0..n /\ k + 1 # 0 /\ (k + 1) - 1 = k
    BY <1>8
  <2> QED BY <1>6, <2>1
<1> QED BY <1>7, <1>8 DEF s

\* Only the weights count, not where the array ends.
LEMMA SumAgrees ==
  ASSUME NEW w, NEW v, NEW n \in Nat, NEW p \in Nat, NEW q \in Nat, q <= n, q <= p,
         \A i \in 1..q : w[i] = v[i]
  PROVE  SumTo(w, n)[q] = SumTo(v, p)[q]
<1> DEFINE N == {k \in Nat : k <= q => SumTo(w, n)[k] = SumTo(v, p)[k]}
<1>1. 0 \in N
  BY SumStep
<1>2. ASSUME NEW k \in Nat, k \in N PROVE k + 1 \in N
  <2> SUFFICES ASSUME k + 1 <= q PROVE SumTo(w, n)[k + 1] = SumTo(v, p)[k + 1]
    OBVIOUS
  <2>1. k <= q /\ k + 1 <= n /\ k + 1 <= p /\ w[k + 1] = v[k + 1]
    OBVIOUS
  <2>2. SumTo(w, n)[k + 1] = SumTo(w, n)[k] + w[k + 1] /\ SumTo(v, p)[k + 1] = SumTo(v, p)[k] + v[k + 1]
    BY <2>1, SumStep
  <2> QED BY <1>2, <2>1, <2>2
<1>3. q \in N
  <2> HIDE DEF N
  <2> QED BY <1>1, <1>2, SetInduction
<1> QED BY <1>3

\* One weight more.
LEMMA TotalOf ==
  ASSUME NEW w, NEW n \in Nat
  PROVE  Total(w, 0) = 0 /\ Total(w, n + 1) = Total(w, n) + w[n + 1]
<1>1. SumTo(w, 0)[0] = 0
  BY SumStep
<1>2. SumTo(w, n + 1)[n + 1] = SumTo(w, n + 1)[n] + w[n + 1]
  BY SumStep
<1>3. SumTo(w, n + 1)[n] = SumTo(w, n)[n]
  BY SumAgrees
<1> QED BY <1>1, <1>2, <1>3 DEF Total

LEMMA TotalAgrees ==
  ASSUME NEW w, NEW v, NEW n \in Nat, \A i \in 1..n : w[i] = v[i]
  PROVE  Total(w, n) = Total(v, n)
BY SumAgrees DEF Total

\* Sums of whole and of natural numbers; the sum of differences.
LEMMA TotalType ==
  ASSUME NEW n \in Nat, NEW w
  PROVE  /\ (\A i \in 1..n : w[i] \in Int) => Total(w, n) \in Int
         /\ (\A i \in 1..n : w[i] \in Nat) => Total(w, n) \in Nat
<1> DEFINE N(V) == {k \in Nat : k <= n => Total(w, k) \in V}
<1>1. ASSUME NEW V, V = Int \/ V = Nat, \A i \in 1..n : w[i] \in V PROVE Total(w, n) \in V
  <2>1. 0 \in N(V)
    BY <1>1, TotalOf
  <2>2. ASSUME NEW k \in Nat, k \in N(V) PROVE k + 1 \in N(V)
    <3> SUFFICES ASSUME k + 1 <= n PROVE Total(w, k + 1) \in V
      OBVIOUS
    <3>1. Total(w, k) \in V /\ w[k + 1] \in V
      BY <1>1, <2>2
    <3>2. Total(w, k + 1) = Total(w, k) + w[k + 1]
      BY TotalOf
    <3> QED BY <1>1, <3>1, <3>2
  <2>3. n \in N(V)
    <3> HIDE DEF N
    <3> QED BY <2>1, <2>2, SetInduction
  <2> QED BY <2>3
<1> QED BY <1>1

LEMMA TotalLess ==
  ASSUME NEW n \in Nat, NEW u, NEW v, NEW w,
         \A i \in 1..n : u[i] \in Int /\ v[i] \in Int /\ w[i] = u[i] - v[i]
  PROVE  Total(w, n) = Total(u, n) - Total(v, n)
<1> DEFINE N == {k \in Nat : k <= n => Total(w, k) = Total(u, k) - Total(v, k)}
<1>1. 0 \in N
  BY TotalOf
<1>2. ASSUME NEW k \in Nat, k \in N PROVE k + 1 \in N
  <2> SUFFICES ASSUME k + 1 <= n PROVE Total(w, k + 1) = Total(u, k + 1) - Total(v, k + 1)
    OBVIOUS
  <2>1. Total(w, k) = Total(u, k) - Total(v, k) /\ Total(u, k) \in Int /\ Total(v, k) \in Int
    BY <1>2, TotalType
  <2>2. /\ Total(w, k + 1) = Total(w, k) + w[k + 1] /\ Total(u, k + 1) = Total(u, k) + u[k + 1]
        /\ Total(v, k + 1) = Total(v, k) + v[k + 1]
    BY TotalOf
  <2>3. u[k + 1] \in Int /\ v[k + 1] \in Int /\ w[k + 1] = u[k + 1] - v[k + 1]
    OBVIOUS
  <2> QED BY <2>1, <2>2, <2>3
<1>3. n \in N
  <2> HIDE DEF N
  <2> QED BY <1>1, <1>2, SetInduction
<1> QED BY <1>3

-----------------------------------------------------------------------------
(* The loops and the filter of trimMessages.                               *)

\* A loop at position k: what it leaves of the counter.
Takes(S, gain, k, before) == IF k \in S /\ before > available THEN before - gain[k] ELSE before

LEMMA LeftStep ==
  ASSUME messages \in Seq(Message), NEW S, NEW gain
  PROVE  /\ Left(S, gain)[0] = tokens
         /\ \A k \in Nat : k + 1 <= Len(messages) =>
              Left(S, gain)[k + 1] = Takes(S, gain, k + 1, Left(S, gain)[k])
<1> DEFINE n == Len(messages)
           Leaves(f, m) == f = [k \in 0..m |-> IF k = 0 THEN tokens ELSE Takes(S, gain, k, f[k - 1])]
           N == {m \in Nat : \E f : Leaves(f, m)}
<1>0. n \in Nat
  BY LenProperties
<1>1. 0 \in N
  <2>1. Leaves([k \in 0..0 |-> tokens], 0)
    OBVIOUS
  <2> QED BY <2>1
<1>2. ASSUME NEW m \in Nat, m \in N PROVE m + 1 \in N
  <2>1. PICK f : Leaves(f, m)
    BY <1>2
  <2> DEFINE g == [k \in 0..(m + 1) |-> IF k = m + 1 THEN Takes(S, gain, m + 1, f[m]) ELSE f[k]]
  <2>2. ASSUME NEW k \in 0..(m + 1) PROVE g[k] = IF k = 0 THEN tokens ELSE Takes(S, gain, k, g[k - 1])
    <3> HIDE DEF Takes
    <3>1. CASE k = 0
      BY <2>1, <3>1
    <3>2. CASE k = m + 1
      BY <2>1, <3>2
    <3>3. CASE k \in 1..m
      BY <2>1, <3>3
    <3> QED BY <3>1, <3>2, <3>3
  <2>3. Leaves(g, m + 1)
    BY <2>2 DEF g
  <2> HIDE DEF g, Leaves
  <2> QED BY <2>3
<1>3. n \in N
  <2> HIDE DEF N
  <2> QED BY <1>0, <1>1, <1>2, SetInduction
<1>4. \E f : Leaves(f, n)
  BY <1>3
<1>5. Left(S, gain) = [k \in 0..n |-> IF k = 0 THEN tokens ELSE Takes(S, gain, k, Left(S, gain)[k - 1])]
  BY <1>4 DEF Left, Takes
<1> DEFINE s == Left(S, gain)
<1> HIDE DEF s
<1>6. s = [k \in 0..n |-> IF k = 0 THEN tokens ELSE Takes(S, gain, k, s[k - 1])]
  BY <1>5 DEF s
<1>7. s[0] = tokens
  BY <1>0, <1>6
<1>8. ASSUME NEW k \in Nat, k + 1 <= n PROVE s[k + 1] = Takes(S, gain, k + 1, s[k])
  <2>1. k + 1 \in 0..n /\ k + 1 # 0 /\ (k + 1) - 1 = k
    BY <1>0, <1>8
  <2> QED BY <1>6, <2>1
<1> QED BY <1>7, <1>8 DEF s

\* The counter of a loop is what it was without what it took.
LEMMA LeftExact ==
  ASSUME messages \in Seq(Message), tokens \in Int, available \in Int, NEW S,
         NEW gain \in [DOMAIN messages -> Int]
  PROVE  \A k \in 0..Len(messages) :
           Left(S, gain)[k] \in Int /\ Left(S, gain)[k] = tokens - Total(Of(Reached(S, gain), gain), k)
<1> DEFINE n == Len(messages)
           r == Of(Reached(S, gain), gain)
           N == {k \in Nat : k <= n => Left(S, gain)[k] \in Int /\ Left(S, gain)[k] = tokens - Total(r, k)}
<1>0. n \in Nat /\ DOMAIN messages = 1..n
  BY LenProperties
<1>1. 0 \in N
  BY LeftStep, TotalOf
<1>2. ASSUME NEW k \in Nat, k \in N PROVE k + 1 \in N
  <2> SUFFICES ASSUME k + 1 <= n
               PROVE  Left(S, gain)[k + 1] \in Int /\ Left(S, gain)[k + 1] = tokens - Total(r, k + 1)
    OBVIOUS
  <2>1. Left(S, gain)[k] \in Int /\ Left(S, gain)[k] = tokens - Total(r, k)
    BY <1>0, <1>2
  <2>2. Left(S, gain)[k + 1] = Takes(S, gain, k + 1, Left(S, gain)[k])
    BY LeftStep
  <2>3. k + 1 \in DOMAIN messages /\ (k + 1) - 1 = k
    BY <1>0
  <2>4. k + 1 \in Reached(S, gain) <=> k + 1 \in S /\ Left(S, gain)[k] > available
    BY <2>3 DEF Reached
  <2>5. r[k + 1] = IF k + 1 \in Reached(S, gain) THEN gain[k + 1] ELSE 0
    BY <2>3 DEF Of
  <2>6. gain[k + 1] \in Int
    BY <2>3
  <2>7. Left(S, gain)[k + 1] = Left(S, gain)[k] - r[k + 1] /\ r[k + 1] \in Int
    BY <2>1, <2>2, <2>4, <2>5, <2>6 DEF Takes
  <2>8. Total(r, k) \in Int
    <3>1. \A i \in 1..k : r[i] \in Int
      BY <1>0 DEF Of
    <3> QED BY <3>1, TotalType
  <2>9. Total(r, k + 1) = Total(r, k) + r[k + 1]
    BY TotalOf
  <2> QED BY <2>1, <2>7, <2>8, <2>9
<1>3. ASSUME NEW k \in 0..n PROVE k \in N
  <2> HIDE DEF N
  <2> QED BY <1>0, <1>1, <1>2, SetInduction
<1> QED BY <1>0, <1>3

\* Once within the budget a loop takes nothing more: one that ends over it took
\* all it might.
LEMMA LeftStops ==
  ASSUME messages \in Seq(Message), tokens \in Int, available \in Int, NEW S \in SUBSET DOMAIN messages,
         NEW gain \in [DOMAIN messages -> Int], Left(S, gain)[Len(messages)] > available
  PROVE  Reached(S, gain) = S
<1> DEFINE n == Len(messages)
<1>0. n \in Nat /\ DOMAIN messages = 1..n /\ \A k \in 0..n : Left(S, gain)[k] \in Int
  BY LenProperties, LeftExact
<1>1. ASSUME NEW k \in 0..n, ~(Left(S, gain)[k] > available) PROVE FALSE
  <2> DEFINE N == {d \in Nat : k + d <= n => Left(S, gain)[k + d] = Left(S, gain)[k]}
  <2>1. 0 \in N
    BY <1>0
  <2>2. ASSUME NEW d \in Nat, d \in N PROVE d + 1 \in N
    <3> SUFFICES ASSUME k + (d + 1) <= n PROVE Left(S, gain)[k + (d + 1)] = Left(S, gain)[k]
      OBVIOUS
    <3>1. k + d \in Nat /\ (k + d) + 1 = k + (d + 1) /\ (k + d) + 1 <= n
      BY <1>0
    <3>2. Left(S, gain)[k + d] = Left(S, gain)[k]
      BY <1>0, <2>2
    <3>3. Left(S, gain)[(k + d) + 1] = Takes(S, gain, (k + d) + 1, Left(S, gain)[k + d])
      BY <3>1, LeftStep
    <3> QED BY <1>1, <3>1, <3>2, <3>3 DEF Takes
  <2>3. n - k \in Nat
    BY <1>0
  <2>4. n - k \in N
    <3> HIDE DEF N
    <3> QED BY <2>1, <2>2, <2>3, SetInduction
  <2>5. k + (n - k) = n
    BY <1>0
  <2>6. Left(S, gain)[n] = Left(S, gain)[k]
    BY <1>0, <2>4, <2>5
  <2> QED BY <1>1, <2>6
<1>2. \A k \in S : k - 1 \in 0..n
  BY <1>0
<1> QED BY <1>1, <1>2 DEF Reached

-----------------------------------------------------------------------------
(* The filter.                                                             *)

\* The filter at position k: what it keeps so far.
Picks(S, k, kept) == IF k \in S THEN kept ELSE Append(kept, messages[k])

LEMMA RestStep ==
  ASSUME messages \in Seq(Message), NEW S
  PROVE  /\ Rest(S)[0] = << >>
         /\ \A k \in Nat : k + 1 <= Len(messages) => Rest(S)[k + 1] = Picks(S, k + 1, Rest(S)[k])
<1> DEFINE n == Len(messages)
           Rests(f, m) == f = [k \in 0..m |-> IF k = 0 THEN << >> ELSE Picks(S, k, f[k - 1])]
           N == {m \in Nat : \E f : Rests(f, m)}
<1>0. n \in Nat
  BY LenProperties
<1>1. 0 \in N
  <2>1. Rests([k \in 0..0 |-> << >>], 0)
    OBVIOUS
  <2> QED BY <2>1
<1>2. ASSUME NEW m \in Nat, m \in N PROVE m + 1 \in N
  <2>1. PICK f : Rests(f, m)
    BY <1>2
  <2> DEFINE g == [k \in 0..(m + 1) |-> IF k = m + 1 THEN Picks(S, m + 1, f[m]) ELSE f[k]]
  <2>2. ASSUME NEW k \in 0..(m + 1) PROVE g[k] = IF k = 0 THEN << >> ELSE Picks(S, k, g[k - 1])
    <3> HIDE DEF Picks
    <3>1. CASE k = 0
      BY <2>1, <3>1
    <3>2. CASE k = m + 1
      BY <2>1, <3>2
    <3>3. CASE k \in 1..m
      BY <2>1, <3>3
    <3> QED BY <3>1, <3>2, <3>3
  <2>3. Rests(g, m + 1)
    BY <2>2 DEF g
  <2> HIDE DEF g, Rests
  <2> QED BY <2>3
<1>3. n \in N
  <2> HIDE DEF N
  <2> QED BY <1>0, <1>1, <1>2, SetInduction
<1>4. \E f : Rests(f, n)
  BY <1>3
<1>5. Rest(S) = [k \in 0..n |-> IF k = 0 THEN << >> ELSE Picks(S, k, Rest(S)[k - 1])]
  BY <1>4 DEF Rest, Picks
<1> DEFINE s == Rest(S)
<1> HIDE DEF s
<1>6. s = [k \in 0..n |-> IF k = 0 THEN << >> ELSE Picks(S, k, s[k - 1])]
  BY <1>5 DEF s
<1>7. s[0] = << >>
  BY <1>0, <1>6
<1>8. ASSUME NEW k \in Nat, k + 1 <= n PROVE s[k + 1] = Picks(S, k + 1, s[k])
  <2>1. k + 1 \in 0..n /\ k + 1 # 0 /\ (k + 1) - 1 = k
    BY <1>0, <1>8
  <2> QED BY <1>6, <2>1
<1> QED BY <1>7, <1>8 DEF s

LEMMA CostIsNat ==
  ASSUME NEW m \in Message PROVE MessageCost(m) \in Nat /\ Cost[m.size] \in Nat
BY BudgetAssumption DEF MessageCost, Message

\* The estimate of a conversation is natural, and one message more costs its text
\* and the overhead.
LEMMA EstimateType ==
  ASSUME NEW s \in Seq(Message) PROVE EstimateMessages(s) \in Nat
<1>1. Len(s) \in Nat /\ DOMAIN s = 1..Len(s) /\ \A i \in DOMAIN s : s[i] \in Message
  BY LenProperties, ElementOfSeq
<1>2. \A i \in 1..Len(s) : Costs(s)[i] \in Nat
  BY <1>1, CostIsNat DEF Costs
<1> QED BY <1>1, <1>2, TotalType DEF EstimateMessages

LEMMA EstimateAppend ==
  ASSUME NEW s \in Seq(Message), NEW m \in Message
  PROVE  EstimateMessages(Append(s, m)) = EstimateMessages(s) + MessageCost(m)
<1> DEFINE t == Append(s, m)
           n == Len(s)
<1>1. n \in Nat /\ DOMAIN s = 1..n /\ Len(t) = n + 1 /\ DOMAIN t = 1..(n + 1)
  BY LenProperties, AppendProperties
<1>2. t[n + 1] = m /\ \A i \in 1..n : t[i] = s[i]
  BY <1>1, AppendProperties
<1>3. Costs(t)[n + 1] = MessageCost(m) /\ \A i \in 1..n : Costs(t)[i] = Costs(s)[i]
  BY <1>1, <1>2 DEF Costs
<1>4. Total(Costs(t), n + 1) = Total(Costs(t), n) + Costs(t)[n + 1]
  BY <1>1, TotalOf
<1>5. Total(Costs(t), n) = Total(Costs(s), n)
  BY <1>1, <1>3, TotalAgrees
<1> QED BY <1>1, <1>3, <1>4, <1>5 DEF EstimateMessages

\* What the filter leaves: as many messages as positions it does not drop, at their
\* cost, each of them, and all in place when it drops none.
LEMMA RestEffect ==
  ASSUME messages \in Seq(Message), NEW S
  PROVE  \A k \in 0..Len(messages) :
           /\ Rest(S)[k] \in Seq(Message)
           /\ IsFiniteSet((1..k) \ S) /\ Len(Rest(S)[k]) = Cardinality((1..k) \ S)
           /\ EstimateMessages(Rest(S)[k]) = Total(Costs(messages), k) - Total(Of(S, Costs(messages)), k)
           /\ \A j \in (1..k) \ S : \E q \in DOMAIN Rest(S)[k] : Rest(S)[k][q] = messages[j]
           /\ S = {} => Len(Rest(S)[k]) = k /\ \A j \in 1..k : Rest(S)[k][j] = messages[j]
<1> DEFINE n == Len(messages)
           r == Rest(S)
           c == Costs(messages)
           o == Of(S, c)
           Holds(k) ==
             /\ r[k] \in Seq(Message)
             /\ IsFiniteSet((1..k) \ S) /\ Len(r[k]) = Cardinality((1..k) \ S)
             /\ EstimateMessages(r[k]) = Total(c, k) - Total(o, k)
             /\ \A j \in (1..k) \ S : \E q \in DOMAIN r[k] : r[k][q] = messages[j]
             /\ S = {} => Len(r[k]) = k /\ \A j \in 1..k : r[k][j] = messages[j]
           N == {k \in Nat : k <= n => Holds(k)}
<1>0. n \in Nat /\ DOMAIN messages = 1..n /\ \A i \in 1..n : messages[i] \in Message
  BY LenProperties, ElementOfSeq
<1>a. \A i \in 1..n : c[i] = MessageCost(messages[i]) /\ o[i] = (IF i \in S THEN c[i] ELSE 0)
  BY <1>0 DEF Costs, Of
<1>b. ASSUME NEW i \in 1..n PROVE c[i] \in Nat /\ o[i] \in Nat
  <2>1. MessageCost(messages[i]) \in Nat
    BY <1>0, CostIsNat
  <2> HIDE DEF c, o
  <2> QED BY <1>a, <2>1
<1> HIDE DEF r, c, o
<1>1. Holds(0)
  <2>1. r[0] = << >>
    BY RestStep DEF r
  <2>2. r[0] \in Seq(Message) /\ Len(r[0]) = 0
    BY <2>1, EmptySeq
  <2>3. (1..0) \ S = {}
    OBVIOUS
  <2>4. IsFiniteSet((1..0) \ S) /\ Cardinality((1..0) \ S) = 0
    BY <2>3, FS_EmptySet
  <2>5. EstimateMessages(r[0]) = 0 /\ Total(c, 0) = 0 /\ Total(o, 0) = 0
    BY <2>2, TotalOf DEF EstimateMessages
  <2> QED BY <2>2, <2>3, <2>4, <2>5
<1>2. ASSUME NEW k \in Nat, k + 1 <= n, Holds(k) PROVE Holds(k + 1)
  <2>1. messages[k + 1] \in Message /\ c[k + 1] = MessageCost(messages[k + 1])
        /\ o[k + 1] = (IF k + 1 \in S THEN c[k + 1] ELSE 0) /\ c[k + 1] \in Nat
    BY <1>0, <1>2, <1>a, <1>b
  <2>2. Total(c, k + 1) = Total(c, k) + c[k + 1] /\ Total(o, k + 1) = Total(o, k) + o[k + 1]
    BY TotalOf
  <2>3. Total(c, k) \in Nat /\ Total(o, k) \in Nat
    <3>1. \A i \in 1..k : c[i] \in Nat /\ o[i] \in Nat
      BY <1>0, <1>2, <1>b
    <3> QED BY <3>1, TotalType
  <2>4. r[k + 1] = Picks(S, k + 1, r[k])
    BY <1>2, RestStep DEF r
  <2>5. CASE k + 1 \in S
    <3>1. r[k + 1] = r[k] /\ (1..(k + 1)) \ S = (1..k) \ S /\ o[k + 1] = c[k + 1] /\ S # {}
      BY <2>1, <2>4, <2>5 DEF Picks
    <3>2. EstimateMessages(r[k + 1]) = Total(c, k + 1) - Total(o, k + 1)
      BY <1>2, <2>1, <2>2, <2>3, <3>1
    <3> HIDE DEF n
    <3> QED BY <1>2, <3>1, <3>2
  <2>6. CASE k + 1 \notin S
    <3>1. r[k + 1] = Append(r[k], messages[k + 1]) /\ o[k + 1] = 0
      BY <2>1, <2>4, <2>6 DEF Picks
    <3>2. (1..(k + 1)) \ S = ((1..k) \ S) \cup {k + 1} /\ k + 1 \notin (1..k) \ S
      BY <2>6
    <3>3. r[k] \in Seq(Message) /\ Len(r[k]) \in Nat /\ DOMAIN r[k] = 1..Len(r[k])
      BY <1>2, LenProperties
    <3>4. /\ r[k + 1] \in Seq(Message) /\ Len(r[k + 1]) = Len(r[k]) + 1
          /\ DOMAIN r[k + 1] = 1..(Len(r[k]) + 1)
          /\ r[k + 1][Len(r[k]) + 1] = messages[k + 1] /\ \A i \in 1..Len(r[k]) : r[k + 1][i] = r[k][i]
      BY <2>1, <3>1, <3>3, AppendProperties
    <3>5. IsFiniteSet((1..(k + 1)) \ S) /\ Cardinality((1..(k + 1)) \ S) = Cardinality((1..k) \ S) + 1
      <4>1. IsFiniteSet((1..k) \ S)
        BY <1>2
      <4>2. /\ IsFiniteSet(((1..k) \ S) \cup {k + 1})
            /\ Cardinality(((1..k) \ S) \cup {k + 1}) = Cardinality((1..k) \ S) + 1
        BY ONLY <4>1, <3>2, FS_AddElement, FS_CardinalityType
      <4> QED BY <3>2, <4>2
    <3>6. EstimateMessages(r[k + 1]) = EstimateMessages(r[k]) + c[k + 1]
      BY <2>1, <3>1, <3>3, EstimateAppend
    <3>7. EstimateMessages(r[k + 1]) = Total(c, k + 1) - Total(o, k + 1)
      BY <1>2, <2>1, <2>2, <2>3, <3>1, <3>6
    <3>8. ASSUME NEW j \in (1..(k + 1)) \ S PROVE \E q \in DOMAIN r[k + 1] : r[k + 1][q] = messages[j]
      <4>1. CASE j = k + 1
        BY <3>3, <3>4, <4>1
      <4>2. CASE j # k + 1
        <5>1. j \in (1..k) \ S
          BY <3>2, <4>2
        <5>2. PICK q \in DOMAIN r[k] : r[k][q] = messages[j]
          BY <1>2, <5>1
        <5>3. q \in DOMAIN r[k + 1] /\ r[k + 1][q] = messages[j]
          BY <3>3, <3>4, <5>2
        <5> QED BY <5>3
      <4> QED BY <4>1, <4>2
    <3>9. ASSUME S = {} PROVE Len(r[k + 1]) = k + 1 /\ \A j \in 1..(k + 1) : r[k + 1][j] = messages[j]
      BY <1>2, <3>3, <3>4, <3>9
    <3>10. Len(r[k + 1]) = Cardinality((1..(k + 1)) \ S)
      BY <1>2, <3>4, <3>5
    <3> HIDE DEF n
    <3> QED BY <3>4, <3>5, <3>7, <3>8, <3>9, <3>10
  <2> QED BY <2>5, <2>6
<1>3. ASSUME NEW k \in 0..n PROVE Holds(k)
  <2> HIDE DEF Holds
  <2>1. 0 \in N
    BY <1>1
  <2>2. \A j \in Nat : j \in N => j + 1 \in N
    BY <1>0, <1>2
  <2>3. k \in N
    <3> HIDE DEF N
    <3> QED BY <1>0, <2>1, <2>2, SetInduction
  <2> QED BY <1>0, <2>3
<1> QED BY <1>3 DEF r, c, o

-----------------------------------------------------------------------------
(* The invariant of the context budget.                                    *)

LEMMA ProtectedIsFinite ==
  ASSUME given \in Seq(Message)
  PROVE  Protected \subseteq DOMAIN given /\ IsFiniteSet(Protected) /\ Cardinality(Protected) \in Nat
<1>1. Protected \subseteq DOMAIN given
  BY DEF Protected, ProtectedOf, FirstUser, LastN, Positions
<1>2. IsFiniteSet(DOMAIN given)
  BY LenProperties, FS_Interval
<1> QED BY <1>1, <1>2, FS_Subset, FS_CardinalityType

LEMMA NumberedIsMessages ==
  ASSUME NEW s \in Input PROVE Numbered(s) \in Seq(Message)
<1>1. s \in Seq([role : Role, seen : Seen, size : Size])
  BY BudgetAssumption
<1>2. Len(s) \in Nat /\ DOMAIN s = 1..Len(s) /\ \A i \in DOMAIN s : s[i] \in [role : Role, seen : Seen, size : Size]
  BY <1>1, LenProperties, ElementOfSeq
<1>3. Numbered(s) \in [1..Len(s) -> Message]
  BY <1>2 DEF Numbered, Message
<1> QED BY <1>2, <1>3, SeqDef

LEMMA GainsAreWhole ==
  ASSUME messages \in Seq(Message)
  PROVE  /\ DOMAIN messages = 1..Len(messages) /\ Len(messages) \in Nat
         /\ CutGain \in [DOMAIN messages -> Int] /\ Costs(messages) \in [DOMAIN messages -> Int]
<1>1. DOMAIN messages = 1..Len(messages) /\ Len(messages) \in Nat
  BY LenProperties
<1>2. \A i \in DOMAIN messages : messages[i] \in Message
  BY ElementOfSeq
<1>3. \A i \in DOMAIN messages : Cost[messages[i].size] \in Nat /\ MessageCost(messages[i]) \in Nat
  BY <1>2, CostIsNat
<1>4. Cost["cut"] \in Nat
  BY BudgetAssumption DEF Size
<1> QED BY <1>1, <1>3, <1>4 DEF CutGain, Costs

THEOREM BudgetInitInv == BudgetInit => BudgetInv
<1> SUFFICES ASSUME BudgetInit PROVE BudgetInv
  OBVIOUS
<1>1. given \in Seq(Message) /\ messages = given /\ available \in Int /\ tokens = EstimateMessages(messages)
  BY NumberedIsMessages, BudgetAssumption DEF BudgetInit
<1>2. tokens \in Nat
  BY <1>1, EstimateType
<1>3. pass \in {"summarize", "done"} /\ (pass = "done" => tokens <= available)
  BY DEF BudgetInit
<1>4. BudgetTypeOK
  BY <1>1, <1>2, <1>3 DEF BudgetTypeOK
<1>5. ProtectedKeptWithoutErrors /\ InPlace
  BY <1>1, ProtectedIsFinite DEF ProtectedKeptWithoutErrors, ProtectedKept, InPlace, Unmoved
<1> QED BY <1>1, <1>3, <1>4, <1>5 DEF BudgetInv, TokensExact, FitsOrNothingLeft

LEMMA InPlaceIsUnmoved ==
  ASSUME BudgetInv, pass # "done", Positions(given, "error") = {} PROVE Unmoved
BY DEF BudgetInv, InPlace

\* A pass that shortens texts adjusts the counter by what it gains, and moves no
\* message.
LEMMA CutEffect ==
  ASSUME BudgetInv, NEW S \in SUBSET (DOMAIN messages \ Protected), Cut(S), given' = given
  PROVE  messages' \in Seq(Message) /\ TokensExact' /\ (Unmoved => Unmoved')
<1> DEFINE n == Len(messages)
           R == Reached(S, CutGain)
<1>1. messages \in Seq(Message) /\ given \in Seq(Message) /\ tokens \in Int /\ available \in Int
  BY DEF BudgetInv, BudgetTypeOK
<1>2. n \in Nat /\ DOMAIN messages = 1..n /\ \A i \in 1..n : messages[i] \in Message
  BY <1>1, GainsAreWhole, ElementOfSeq
<1>3. R \subseteq S
  BY DEF Reached
<1>4. messages' = [i \in 1..n |-> IF i \in R THEN [messages[i] EXCEPT !.size = "cut"] ELSE messages[i]]
  BY <1>2 DEF Cut
<1> HIDE DEF R
<1>5. \A i \in 1..n : messages'[i] \in Message
  BY <1>2, <1>4 DEF Message, Size
<1>6. messages' \in Seq(Message) /\ Len(messages') = n /\ DOMAIN messages' = 1..n
  <2>1. messages' \in [1..n -> Message]
    BY <1>4, <1>5
  <2> QED BY <1>2, <2>1, SeqDef, LenProperties
<1>7. tokens' = tokens - Total(Of(R, CutGain), n)
  <2>1. Left(S, CutGain)[n] = tokens - Total(Of(R, CutGain), n)
    BY <1>1, <1>2, GainsAreWhole, LeftExact DEF R
  <2> QED BY <2>1 DEF Cut
<1>8. ASSUME NEW i \in 1..n
      PROVE  /\ Costs(messages)[i] \in Int /\ Of(R, CutGain)[i] \in Int
             /\ Costs(messages')[i] = Costs(messages)[i] - Of(R, CutGain)[i]
  <2>1. /\ Costs(messages)[i] = Cost[messages[i].size] + Overhead
        /\ Costs(messages')[i] = Cost[messages'[i].size] + Overhead
    BY <1>2, <1>6 DEF Costs, MessageCost
  <2>2. /\ CutGain[i] = Cost[messages[i].size] - Cost["cut"]
        /\ Of(R, CutGain)[i] = (IF i \in R THEN CutGain[i] ELSE 0)
    BY <1>2 DEF CutGain, Of
  <2>3. Cost[messages[i].size] \in Nat /\ Cost["cut"] \in Nat /\ Overhead \in Nat
    BY <1>2, CostIsNat, BudgetAssumption DEF Size
  <2>4. messages'[i].size = IF i \in R THEN "cut" ELSE messages[i].size
    BY <1>2, <1>4 DEF Message
  <2> QED BY <2>1, <2>2, <2>3, <2>4
<1>9. Total(Costs(messages'), n) = Total(Costs(messages), n) - Total(Of(R, CutGain), n)
  BY <1>2, <1>8, TotalLess
<1>10. EstimateMessages(messages') = EstimateMessages(messages) - Total(Of(R, CutGain), n)
  BY <1>6, <1>9 DEF EstimateMessages
<1>11. TokensExact'
  BY <1>7, <1>10 DEF TokensExact, BudgetInv
<1>12. ASSUME Unmoved PROVE Unmoved'
  <2>1. Protected' = Protected
    BY DEF Protected
  <2>2. DOMAIN given = 1..n
    BY <1>1, <1>12, LenProperties DEF Unmoved
  <2>3. ASSUME NEW i \in DOMAIN given
        PROVE  messages'[i].role = given[i].role /\ (i \in Protected => messages'[i] = given[i])
    <3>1. messages'[i].role = messages[i].role
      BY <1>2, <1>4, <2>2 DEF Message
    <3>2. i \in Protected => i \notin R
      BY <1>3
    <3> QED BY <1>4, <1>12, <2>2, <3>1, <3>2 DEF Unmoved
  <2> QED BY <1>6, <1>12, <2>1, <2>3 DEF Unmoved
<1> QED BY <1>6, <1>11, <1>12

\* With the early return that follows it, such a pass preserves the invariant.
LEMMA CutPreserves ==
  ASSUME BudgetInv, pass # "done", NEW S \in SUBSET (DOMAIN messages \ Protected), Cut(S),
         NEW next \in {"errors", "user", "oldest"}, Continue(next), UNCHANGED <<given, available>>
  PROVE  BudgetInv'
<1>1. messages' \in Seq(Message) /\ TokensExact' /\ (Unmoved => Unmoved')
  BY CutEffect
<1>2. given' \in Seq(Message) /\ available' \in Int /\ given' = given /\ Protected' = Protected
  BY DEF BudgetInv, BudgetTypeOK, Protected
<1>3. tokens' \in Nat
  BY <1>1, EstimateType DEF TokensExact
<1>4. pass' \in {"errors", "user", "oldest", "done"} /\ (pass' = "done" => tokens' <= available')
  BY DEF Continue
<1>5. BudgetTypeOK'
  BY <1>1, <1>2, <1>3, <1>4 DEF BudgetTypeOK
<1>6. FitsOrNothingLeft'
  BY <1>4 DEF FitsOrNothingLeft
<1>7. Positions(given', "error") = {} => Unmoved'
  <2>1. Positions(given, "error") = {} => Unmoved
    BY InPlaceIsUnmoved
  <2>2. Positions(given', "error") = Positions(given, "error")
    BY <1>2
  <2> QED BY <1>1, <2>1, <2>2
<1>8. InPlace'
  BY <1>7 DEF InPlace, Unmoved
<1>9. ProtectedKeptWithoutErrors'
  <2>1. ASSUME Unmoved' PROVE ProtectedKept'
    <3>1. Len(messages') = Len(given) /\ given \in Seq(Message)
      BY <1>2, <2>1 DEF Unmoved
    <3>2. DOMAIN messages' = DOMAIN given
      BY <1>1, <3>1, LenProperties
    <3>3. \A i \in Protected : i \in DOMAIN given /\ messages'[i] = given[i]
      BY <1>2, <2>1, ProtectedIsFinite DEF Unmoved
    <3> QED BY <1>2, <3>2, <3>3 DEF ProtectedKept
  <2> QED BY <1>7, <2>1 DEF ProtectedKeptWithoutErrors
<1> QED BY <1>1, <1>5, <1>6, <1>8, <1>9 DEF BudgetInv

\* Removing messages: the counter loses their cost, and the rest stays.
LEMMA WithoutEffect ==
  ASSUME BudgetInv, NEW S \in SUBSET DOMAIN messages
  PROVE  /\ Without(S) \in Seq(Message)
         /\ EstimateMessages(Without(S)) = tokens - Total(Of(S, Costs(messages)), Len(messages))
         /\ Len(Without(S)) = Cardinality(DOMAIN messages \ S) /\ IsFiniteSet(DOMAIN messages \ S)
         /\ \A j \in DOMAIN messages \ S : \E q \in DOMAIN Without(S) : Without(S)[q] = messages[j]
         /\ S = {} => Without(S) = messages
<1> DEFINE n == Len(messages)
           w == Rest(S)[n]
<1>1. messages \in Seq(Message) /\ tokens = Total(Costs(messages), n)
  BY DEF BudgetInv, BudgetTypeOK, TokensExact, EstimateMessages
<1>2. n \in Nat /\ DOMAIN messages = 1..n /\ n \in 0..n
  BY <1>1, GainsAreWhole
<1>3. /\ w \in Seq(Message)
      /\ IsFiniteSet((1..n) \ S) /\ Len(w) = Cardinality((1..n) \ S)
      /\ EstimateMessages(w) = Total(Costs(messages), n) - Total(Of(S, Costs(messages)), n)
      /\ \A j \in (1..n) \ S : \E q \in DOMAIN w : w[q] = messages[j]
      /\ S = {} => Len(w) = n /\ \A j \in 1..n : w[j] = messages[j]
  <2> HIDE DEF n, w
  <2> QED BY <1>1, <1>2, RestEffect DEF n, w
<1> HIDE DEF n, w
<1>4. ASSUME S = {} PROVE w = messages
  <2>1. Len(w) = n /\ DOMAIN w = 1..n /\ \A j \in 1..n : w[j] = messages[j]
    BY <1>3, <1>4, LenProperties
  <2>2. w \in [1..n -> Message] /\ messages \in [1..n -> Message]
    BY <1>1, <1>2, <1>3, <2>1, LenProperties, ElementOfSeq DEF n
  <2> QED BY <2>1, <2>2
<1>5. Without(S) = w
  BY DEF Without, w, n
<1> QED BY <1>1, <1>2, <1>3, <1>4, <1>5 DEF n

LEMMA RemoveOldErrorsPreserves == ASSUME BudgetInv, RemoveOldErrors PROVE BudgetInv'
<1> DEFINE w == Without(OldErrors)
<1>0. OldErrors \in SUBSET DOMAIN messages
  BY DEF OldErrors, Positions
<1>1. /\ w \in Seq(Message)
      /\ EstimateMessages(w) = tokens - Total(Of(OldErrors, Costs(messages)), Len(messages))
      /\ OldErrors = {} => w = messages
  BY <1>0, WithoutEffect
<1> HIDE DEF w
<1>2. /\ messages' = w /\ given' = given /\ available' = available /\ pass = "errors"
      /\ tokens' = tokens - Total(Of(OldErrors, Costs(messages)), Len(messages))
      /\ pass' \in {"brain", "done"} /\ (pass' = "done" => tokens' <= available')
  BY DEF RemoveOldErrors, Continue, w
<1>3. Protected' = Protected /\ Positions(given', "error") = Positions(given, "error")
  BY <1>2 DEF Protected
<1>4. TokensExact' /\ tokens' \in Nat
  BY <1>1, <1>2, EstimateType DEF TokensExact
<1>5. BudgetTypeOK'
  BY <1>1, <1>2, <1>4 DEF BudgetTypeOK, BudgetInv
<1>6. FitsOrNothingLeft'
  BY <1>2 DEF FitsOrNothingLeft
<1>7. ASSUME Positions(given, "error") = {} PROVE messages' = messages /\ Unmoved
  <2>1. Unmoved
    BY <1>2, <1>7, InPlaceIsUnmoved
  <2>2. messages \in Seq(Message) /\ given \in Seq(Message)
    BY DEF BudgetInv, BudgetTypeOK
  <2>3. DOMAIN messages = DOMAIN given
    BY <2>1, <2>2, LenProperties DEF Unmoved
  <2>4. Positions(messages, "error") = {}
    BY <1>7, <2>1, <2>3 DEF Positions, Unmoved
  <2>5. OldErrors = {}
    BY <2>4 DEF OldErrors
  <2> QED BY <1>1, <1>2, <2>1, <2>5
<1>8. InPlace'
  BY <1>2, <1>3, <1>7 DEF InPlace, Unmoved
<1>9. ProtectedKeptWithoutErrors'
  <2>1. ASSUME Positions(given, "error") = {} PROVE ProtectedKept'
    <3>1. ProtectedKept
      BY <2>1 DEF BudgetInv, ProtectedKeptWithoutErrors
    <3> QED BY <1>2, <1>3, <1>7, <2>1, <3>1 DEF ProtectedKept
  <2> QED BY <1>3, <2>1 DEF ProtectedKeptWithoutErrors
<1> QED BY <1>4, <1>5, <1>6, <1>8, <1>9 DEF BudgetInv

\* The last pass ends within the budget, or has removed all it may.
LEMMA RemoveOldestPreserves == ASSUME BudgetInv, RemoveOldest PROVE BudgetInv'
<1> DEFINE c == Costs(messages)
           S == DOMAIN messages \ Protected
           R == Reached(S, c)
           w == Without(R)
<1>1. /\ messages \in Seq(Message) /\ given \in Seq(Message) /\ tokens \in Int /\ available \in Int
      /\ Len(messages) \in 0..Len(messages)
  BY GainsAreWhole DEF BudgetInv, BudgetTypeOK
<1>2. R \in SUBSET S /\ S \in SUBSET DOMAIN messages /\ R \in SUBSET DOMAIN messages
  BY DEF Reached
<1>3. c \in [DOMAIN messages -> Int]
  BY <1>1, GainsAreWhole
<1>4. Left(S, c)[Len(messages)] = tokens - Total(Of(R, c), Len(messages))
  <2> HIDE DEF c, S
  <2> QED BY <1>1, <1>3, LeftExact
<1>5. Left(S, c)[Len(messages)] > available => R = S
  <2> HIDE DEF c, S
  <2> QED BY <1>1, <1>2, <1>3, LeftStops
<1>6. /\ w \in Seq(Message)
      /\ EstimateMessages(w) = tokens - Total(Of(R, c), Len(messages))
      /\ Len(w) = Cardinality(DOMAIN messages \ R)
      /\ \A j \in DOMAIN messages \ R : \E q \in DOMAIN w : w[q] = messages[j]
  <2> HIDE DEF R
  <2> QED BY <1>2, WithoutEffect
<1>7. /\ messages' = w /\ tokens' = Left(S, c)[Len(messages)]
      /\ given' = given /\ available' = available /\ pass = "oldest" /\ pass' = "done"
  BY DEF RemoveOldest, Discard
<1>8. Protected' = Protected /\ Positions(given', "error") = Positions(given, "error")
  BY <1>7 DEF Protected
<1> HIDE DEF c, S, R, w
<1>9. TokensExact' /\ tokens' \in Nat
  BY <1>4, <1>6, <1>7, EstimateType DEF TokensExact
<1>10. BudgetTypeOK'
  BY <1>6, <1>7, <1>9 DEF BudgetTypeOK, BudgetInv
<1>11. FitsOrNothingLeft'
  <2> SUFFICES ASSUME ~(tokens' <= available') PROVE Len(messages') <= Cardinality(Protected')
    BY DEF FitsOrNothingLeft
  <2>1. R = S
    BY <1>1, <1>5, <1>7, <1>9
  <2>2. DOMAIN messages \ R \subseteq Protected
    BY <2>1 DEF S
  <2>3. Cardinality(DOMAIN messages \ R) <= Cardinality(Protected)
    BY <1>1, <2>2, ProtectedIsFinite, FS_Subset
  <2> QED BY <1>6, <1>7, <1>8, <2>3
<1>12. InPlace'
  BY <1>7 DEF InPlace
<1>13. ProtectedKeptWithoutErrors'
  <2>1. ASSUME Positions(given, "error") = {} PROVE ProtectedKept'
    <3>1. Unmoved
      BY <1>7, <2>1, InPlaceIsUnmoved
    <3>2. DOMAIN messages = DOMAIN given
      BY <1>1, <3>1, LenProperties DEF Unmoved
    <3>3. ASSUME NEW i \in Protected PROVE \E q \in DOMAIN w : w[q] = given[i]
      <4>1. i \in DOMAIN messages \ R /\ messages[i] = given[i]
        BY <1>1, <1>2, <3>1, <3>2, ProtectedIsFinite DEF Unmoved, S
      <4> QED BY <1>6, <4>1
    <3> QED BY <1>7, <1>8, <3>3 DEF ProtectedKept
  <2> QED BY <1>8, <2>1 DEF ProtectedKeptWithoutErrors
<1> QED BY <1>9, <1>10, <1>11, <1>12, <1>13 DEF BudgetInv

THEOREM BudgetNextInv == BudgetInv /\ [BudgetNext]_budgetVars => BudgetInv'
<1> SUFFICES ASSUME BudgetInv, [BudgetNext]_budgetVars PROVE BudgetInv'
  OBVIOUS
<1>1. CASE SummarizeToolResults
  <2>1. OldToolResults \in SUBSET (DOMAIN messages \ Protected)
    BY DEF OldToolResults, Positions
  <2>2. /\ pass # "done" /\ Cut(OldToolResults) /\ Continue("errors") /\ UNCHANGED <<given, available>>
    BY <1>1 DEF SummarizeToolResults
  <2> QED BY <2>1, <2>2, CutPreserves
<1>2. CASE RemoveOldErrors
  BY <1>2, RemoveOldErrorsPreserves
<1>3. CASE TruncateBrain
  <2>1. LongTexts("brain") \in SUBSET (DOMAIN messages \ Protected)
    BY DEF LongTexts, Positions
  <2>2. /\ pass # "done" /\ Cut(LongTexts("brain")) /\ Continue("user") /\ UNCHANGED <<given, available>>
    BY <1>3 DEF TruncateBrain
  <2> QED BY <2>1, <2>2, CutPreserves
<1>4. CASE TruncateUser
  <2>1. LongTexts("user") \in SUBSET (DOMAIN messages \ Protected)
    BY DEF LongTexts, Positions
  <2>2. /\ pass # "done" /\ Cut(LongTexts("user")) /\ Continue("oldest") /\ UNCHANGED <<given, available>>
    BY <1>4 DEF TruncateUser
  <2> QED BY <2>1, <2>2, CutPreserves
<1>5. CASE RemoveOldest
  BY <1>5, RemoveOldestPreserves
<1>6. CASE UNCHANGED budgetVars
  <2>1. /\ given' = given /\ messages' = messages /\ tokens' = tokens
        /\ available' = available /\ pass' = pass
    BY <1>6 DEF budgetVars
  <2>2. Protected' = Protected
    BY <2>1 DEF Protected
  <2> QED BY <2>1, <2>2 DEF BudgetInv, BudgetTypeOK, TokensExact, FitsOrNothingLeft,
            ProtectedKeptWithoutErrors, ProtectedKept, InPlace, Unmoved
<1> QED BY <1>1, <1>2, <1>3, <1>4, <1>5, <1>6 DEF BudgetNext

\* However a conversation is trimmed, the invariant holds.
THEOREM BudgetCorrect == BudgetSpec => []BudgetInv
BY BudgetInitInv, BudgetNextInv, PTL DEF BudgetSpec

\* The counter trimMessages adjusts by hand in five places is the estimate of
\* the array.
THEOREM CounterIsExact == BudgetSpec => []TokensExact
<1>1. BudgetInv => TokensExact
  BY DEF BudgetInv
<1> QED BY <1>1, BudgetCorrect, PTL

\* Trimming ends within the budget or with nothing left that it may remove.
THEOREM TrimmingFits == BudgetSpec => []FitsOrNothingLeft
<1>1. BudgetInv => FitsOrNothingLeft
  BY DEF BudgetInv
<1> QED BY <1>1, BudgetCorrect, PTL

\* As long as no error is filtered out, what is protected survives every pass.
THEOREM ProtectedSurvives == BudgetSpec => []ProtectedKeptWithoutErrors
<1>1. BudgetInv => ProtectedKeptWithoutErrors
  BY DEF BudgetInv
<1> QED BY <1>1, BudgetCorrect, PTL
=============================================================================
