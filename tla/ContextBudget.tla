---------------------------- MODULE ContextBudget ----------------------------
(***************************************************************************)
(* How the context budget manager trims a conversation that is over its    *)
(* budget (src/src/core/src/core/context-budget.ts, trimMessages): five    *)
(* passes over an array, each entered only when the array is still too     *)
(* large, with the protected positions computed once before the first.     *)
(* A message is its role, whether the Brain has seen it, and how long its  *)
(* text is: short, long, or cut by an earlier pass.                        *)
(***************************************************************************)
EXTENDS Integers, Sequences, FiniteSets

CONSTANTS
  Input,     \* the conversations to trim: sequences of [role, seen, size]
  Budgets,   \* the values of availableTokens, below zero when the prompt alone is too long
  Cost,      \* estimated tokens of a text of each size
  Overhead,  \* tokens of a message besides its text (4)
  ErrorAge,  \* an error further than this from the end is old (5)
  TextAge    \* a text further than this from the end is old (8)

VARIABLES
  given,      \* the conversation as it came, each message with its number
  messages,   \* the array being trimmed
  tokens,     \* currentTokens
  available,  \* availableTokens
  pass        \* the pass to run next, or "done"

budgetVars == <<given, messages, tokens, available, pass>>

Role == {"user", "brain", "tool_result", "error"}
Seen == {"unseen", "recent", "old"}
Size == {"short", "long", "cut"}
Message == [id : Nat, role : Role, seen : Seen, size : Size]

ASSUME BudgetAssumption ==
  /\ Input \subseteq Seq([role : Role, seen : Seen, size : Size]) /\ Budgets \subseteq Int
  /\ Cost \in [Size -> Nat] /\ {Overhead, ErrorAge, TextAge} \subseteq Nat

\* The sum of the weights w of the positions up to n.
SumTo(w, n) == LET sum[k \in 0..n] == IF k = 0 THEN 0 ELSE sum[k - 1] + w[k] IN sum

Total(w, n) == SumTo(w, n)[n]

\* The weights of the positions in S.
Of(S, w) == [i \in DOMAIN w |-> IF i \in S THEN w[i] ELSE 0]

MessageCost(m) == Cost[m.size] + Overhead
Costs(s) == [i \in DOMAIN s |-> MessageCost(s[i])]

EstimateMessages(s) == Total(Costs(s), Len(s))

Positions(s, role) == {i \in DOMAIN s : s[i].role = role}

\* The n largest members of a set of positions.
LastN(S, n) == {i \in S : Cardinality({j \in S : j > i}) < n}

FirstUser(s) == {i \in Positions(s, "user") : \A j \in Positions(s, "user") : i <= j}

\* First and last user message, the last two of the Brain, and tool results
\* it has not seen.
ProtectedOf(s) ==
  FirstUser(s)
    \cup LastN(Positions(s, "user"), 1)
    \cup LastN(Positions(s, "brain"), 2)
    \cup {i \in Positions(s, "tool_result") : s[i].seen = "unseen"}

\* protectedIndices: positions of the array as it came.
Protected == ProtectedOf(given)

Numbered(s) == [i \in DOMAIN s |-> [id |-> i, role |-> s[i].role, seen |-> s[i].seen, size |-> s[i].size]]

BudgetInit ==
  /\ given \in {Numbered(s) : s \in Input}
  /\ available \in Budgets
  /\ messages = given
  /\ tokens = EstimateMessages(given)
  /\ pass = IF tokens <= available THEN "done" ELSE "summarize"

\* Each pass is followed by the same early return.
Continue(next) == pass' = IF tokens' <= available THEN "done" ELSE next

\* A loop over the positions that runs while tokens > available and saves
\* gain[k] at those in S: the counter after position k, and the positions saved at.
Left(S, gain) ==
  LET left[k \in 0..Len(messages)] ==
        IF k = 0 THEN tokens
        ELSE LET before == left[k - 1] IN IF k \in S /\ before > available THEN before - gain[k] ELSE before
  IN  left

Reached(S, gain) == {k \in S : Left(S, gain)[k - 1] > available}

\* How far position i is from the end; the code counts positions from 0.
FromEnd(i) == Len(messages) - (i - 1)

CutGain == [i \in DOMAIN messages |-> Cost[messages[i].size] - Cost["cut"]]

Cut(S) ==
  /\ messages' = [i \in DOMAIN messages |->
                    IF i \in Reached(S, CutGain) THEN [messages[i] EXCEPT !.size = "cut"] ELSE messages[i]]
  /\ tokens' = Left(S, CutGain)[Len(messages)]

\* What a filter leaves of the positions up to k: all but those in S.
Rest(S) ==
  LET rest[k \in 0..Len(messages)] ==
        IF k = 0 THEN << >> ELSE IF k \in S THEN rest[k - 1] ELSE Append(rest[k - 1], messages[k])
  IN  rest

Without(S) == Rest(S)[Len(messages)]

-----------------------------------------------------------------------------
(* The five passes. *)

\* A summary is the first 100 characters with the tool's name, so a short
\* result grows.
OldToolResults == {i \in Positions(messages, "tool_result") \ Protected : messages[i].seen = "old"}

SummarizeToolResults ==
  /\ pass = "summarize"
  /\ Cut(OldToolResults)
  /\ Continue("errors")
  /\ UNCHANGED <<given, available>>

\* Not a loop but a filter: it does not stop when enough is gone.
OldErrors == {i \in Positions(messages, "error") \ Protected : FromEnd(i) > ErrorAge}

\* Mutant: the overhead forgotten.
RemoveOldErrorsTextOnly ==
  /\ pass = "errors"
  /\ messages' = Without(OldErrors)
  /\ tokens' = tokens - Total(Of(OldErrors, [i \in DOMAIN messages |-> Cost[messages[i].size]]), Len(messages))
  /\ Continue("brain")
  /\ UNCHANGED <<given, available>>

RemoveOldErrors ==
  /\ pass = "errors"
  /\ messages' = Without(OldErrors)
  /\ tokens' = tokens - Total(Of(OldErrors, Costs(messages)), Len(messages))
  /\ Continue("brain")
  /\ UNCHANGED <<given, available>>

LongTexts(role) ==
  {i \in Positions(messages, role) \ Protected : FromEnd(i) > TextAge /\ messages[i].size = "long"}

TruncateBrain ==
  /\ pass = "brain"
  /\ Cut(LongTexts("brain"))
  /\ Continue("user")
  /\ UNCHANGED <<given, available>>

\* Mutant: the last pass is not reached.
TruncateUserAndStop ==
  /\ pass = "user"
  /\ Cut(LongTexts("user"))
  /\ pass' = "done"
  /\ UNCHANGED <<given, available>>

TruncateUser ==
  /\ pass = "user"
  /\ Cut(LongTexts("user"))
  /\ Continue("oldest")
  /\ UNCHANGED <<given, available>>

Discard(S) ==
  /\ messages' = Without(Reached(S, Costs(messages)))
  /\ tokens' = Left(S, Costs(messages))[Len(messages)]

\* Mutant: the last pass forgets what is protected.
RemoveAnyOldest ==
  /\ pass = "oldest"
  /\ Discard(DOMAIN messages)
  /\ pass' = "done"
  /\ UNCHANGED <<given, available>>

RemoveOldest ==
  /\ pass = "oldest"
  /\ Discard(DOMAIN messages \ Protected)
  /\ pass' = "done"
  /\ UNCHANGED <<given, available>>

BudgetNext ==
  \/ SummarizeToolResults
  \/ RemoveOldErrors
  \/ TruncateBrain
  \/ TruncateUser
  \/ RemoveOldest

BudgetSpec == BudgetInit /\ [][BudgetNext]_budgetVars

-----------------------------------------------------------------------------
(* What must hold. *)

\* Every variable keeps its type.
BudgetTypeOK ==
  /\ given \in Seq(Message) /\ messages \in Seq(Message)
  /\ tokens \in Nat /\ available \in Int
  /\ pass \in {"summarize", "errors", "brain", "user", "oldest", "done"}

\* currentTokens is adjusted by hand in five places and never recomputed: it
\* stays the estimate of the array.
TokensExact == tokens = EstimateMessages(messages)

\* Trimming ends within the budget unless nothing it may remove is left.
FitsOrNothingLeft ==
  pass = "done" => tokens <= available \/ Len(messages) <= Cardinality(Protected)

\* What a comment and the changelog promise: the first and the last user
\* message, the last two of the Brain and unseen tool results stay as they are.
ProtectedKept == \A i \in Protected : \E k \in DOMAIN messages : messages[k] = given[i]

\* When there are no errors to filter out, every protected message is kept as
\* it is through all the passes.
ProtectedKeptWithoutErrors == Positions(given, "error") = {} => ProtectedKept

-----------------------------------------------------------------------------
(* Why they hold: what the proof needs besides.                            *)

\* Every message is where it was, and what is protected is as it was.
Unmoved ==
  /\ Len(messages) = Len(given)
  /\ \A i \in DOMAIN given :
       /\ messages[i].role = given[i].role
       /\ i \in Protected => messages[i] = given[i]

\* Without errors nothing moves before the last pass.
InPlace == Positions(given, "error") = {} /\ pass # "done" => Unmoved

\* The inductive invariant.
BudgetInv == BudgetTypeOK /\ TokensExact /\ FitsOrNothingLeft /\ ProtectedKeptWithoutErrors /\ InPlace
=============================================================================
