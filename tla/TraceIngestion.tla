---------------------------- MODULE TraceIngestion ----------------------------
(* One run of the extraction pipeline over one trace: windows that fit the   *)
(* model's context, a budget of model calls, steps that must have a call and *)
(* steps that are left out when none is left, retries that cost calls too.   *)
EXTENDS Naturals, Sequences, FiniteSets, SequencesExt

CONSTANTS
  LineSizes, MaxLines,   \* bound: the traces, in characters per line
  LineCap,               \* TRACE_MAX_LINE_BYTES
  LinePrefix,            \* what numbering adds to a line
  LineSuffix,            \* what says that a line was cut
  MinWindow, MaxWindow,  \* the limits of a window's size
  Overhead, Floor,       \* of the budget: calls beside the windows, and at least
  MaxModelAttempts       \* MAX_MODEL_ATTEMPTS

ASSUME IngestionAssumption ==
  /\ LineSizes \subseteq Nat
  /\ {MaxLines, LineCap, LinePrefix, LineSuffix, MinWindow, MaxWindow, Overhead, Floor} \subseteq Nat
  /\ MinWindow \in 1..MaxWindow
  /\ MaxModelAttempts \in Nat \ {0}

VARIABLES
  lengths,       \* of the trace, line by line
  signalPack,  \* the source profile, "coding" or "generic", and whether the
               \* trace has lines of a user
  doing,       \* the step that is next
  llmCalls,    \* calls made, failed attempts included
  windows,     \* the windows scanned, in order
  durables,    \* does the synthesized payload have durable records
  atSynthesis, \* calls made when the records were synthesized
  retried,     \* a step since then took more than one attempt
  spent        \* a step found the budget used up

ingestionVars ==
  <<lengths, signalPack, doing, llmCalls, windows, durables, atSynthesis, retried, spent>>

Lesser(m, n) == IF m < n THEN m ELSE n
Greater(m, n) == IF m < n THEN n ELSE m
Total(sizes) == FoldSeq(LAMBDA x, y : x + y, 0, sizes)
Visible(n) == Lesser(n, LineCap)
Lines == Len(lengths)

\* A line as it is shown: cut, numbered, and ended.
Rendered(n) == LinePrefix + Visible(n) + (IF n > LineCap THEN LineSuffix ELSE 0)

ComputeRequestBudget ==
  LET size == Total([i \in 1..Lines |-> Visible(lengths[i])])
      limited == Greater(1, (size + MaxWindow - 1) \div MaxWindow)
  IN IF Lines = 0 THEN Floor ELSE Greater(Floor, limited + Overhead)

BudgetLeft == llmCalls < ComputeRequestBudget

\* Mutant of NextLine: the next window begins where the last one ended.
NextLineAgain == IF windows = <<>> THEN 1 ELSE Last(windows)[2]

NextLine == IF windows = <<>> THEN 1 ELSE Last(windows)[2] + 1

\* As many whole lines as fit, and always the first.
WindowEnd(first, budget) ==
  CHOOSE e \in first..Lines :
    LET fits(k) == k = first \/
                   Total([i \in 1..(k - first + 1) |-> Rendered(lengths[first + i - 1])]) <= budget
    IN fits(e) /\ \A k \in first..Lines : fits(k) => k <= e

Coding == signalPack[1] = "coding"
AfterGuard == IF ~Coding THEN "polish" ELSE IF signalPack[2] THEN "strategy" ELSE "codingPolish"

-----------------------------------------------------------------------------
\* require_budget, at the head of every step that must be made.
RequireBudget(step) ==
  /\ doing = step
  /\ ~BudgetLeft
  /\ doing' = "failed"
  /\ spent' = TRUE
  /\ UNCHANGED <<lengths, signalPack, llmCalls, windows, durables, atSynthesis, retried>>

\* call_model_step: the answer comes at some attempt ...
CallModelStep(step, after) ==
  /\ doing = step
  /\ BudgetLeft
  /\ \E attempts \in 1..MaxModelAttempts :
       /\ llmCalls' = llmCalls + attempts
       /\ retried' = (retried \/ attempts > 1)
  /\ doing' = after
  /\ UNCHANGED <<lengths, signalPack, windows, atSynthesis, spent>>

\* ... or the last attempt failed, or an error that no retry helps.
StepFails(step) ==
  /\ doing = step
  /\ BudgetLeft
  /\ doing' = "failed"
  /\ UNCHANGED <<lengths, signalPack, llmCalls, windows, durables, atSynthesis, retried, spent>>

\* The window's size depends on the summaries so far.  It is read before the
\* budget is looked at.
ScanWindow ==
  /\ doing = "scan"
  /\ BudgetLeft
  /\ \E budget \in {MinWindow, MaxWindow} :
       windows' = Append(windows, <<NextLine, WindowEnd(NextLine, budget)>>)
  /\ \E attempts \in 1..MaxModelAttempts : llmCalls' = llmCalls + attempts
  /\ doing' = IF Last(windows')[2] + 1 <= Lines THEN "scan" ELSE "filter"
  /\ UNCHANGED <<lengths, signalPack, durables, atSynthesis, retried, spent>>

FilterSignals == CallModelStep("filter", "synthesize") /\ UNCHANGED durables

SynthesizeRecords ==
  /\ doing = "synthesize"
  /\ BudgetLeft
  /\ \E attempts \in 1..MaxModelAttempts : llmCalls' = llmCalls + attempts
  /\ atSynthesis' = llmCalls'
  /\ durables' \in BOOLEAN
  /\ retried' = FALSE
  /\ doing' = "guard"
  /\ UNCHANGED <<lengths, signalPack, windows, spent>>

\* Mutant of GuardSpared: one call is kept.
GuardSparedLate == Coding /\ llmCalls + 1 >= ComputeRequestBudget

\* The guard is for good measure: a coding trace keeps the calls of the two
\* steps that follow.
GuardSpared == Coding /\ llmCalls + 2 >= ComputeRequestBudget

GuardRecords ==
  \/ /\ ~GuardSpared
     /\ CallModelStep("guard", AfterGuard) /\ durables' \in BOOLEAN
  \/ /\ doing = "guard" /\ GuardSpared
     /\ doing' = AfterGuard
     /\ UNCHANGED <<lengths, signalPack, llmCalls, windows, durables, atSynthesis, retried, spent>>

ExtractStrategy == CallModelStep("strategy", "codingPolish") /\ UNCHANGED durables

PolishRecords ==
  \/ CallModelStep("polish", "roles") /\ durables' \in BOOLEAN
  \/ CallModelStep("codingPolish", "identity") /\ durables' \in BOOLEAN

\* A step that is left out when it has nothing to do or no call to make.
Optional(step, after) ==
  /\ doing = step
  /\ doing' = after
  /\ UNCHANGED <<lengths, signalPack, llmCalls, windows, durables, atSynthesis, retried, spent>>

ExtractProjectIdentity ==
  \/ Optional("identity", "retention")
  \/ CallModelStep("identity", "retention") /\ durables' \in {TRUE, durables}

ApplyCodingRetention ==
  \/ ~(durables /\ BudgetLeft) /\ Optional("retention", "roles")
  \/ durables /\ CallModelStep("retention", "roles") /\ durables' \in BOOLEAN

AnnotateRecordRoles ==
  \/ ~(durables /\ BudgetLeft) /\ Optional("roles", "persist")
  \/ durables /\ CallModelStep("roles", "persist") /\ UNCHANGED durables

\* What is written, and the reconciliation that may fail without harm, are
\* the subject of ContextLearning.
PersistRecords == Optional("persist", "done") \/ Optional("persist", "failed")

IngestionInit ==
  /\ \E n \in 0..MaxLines : lengths \in [1..n -> LineSizes]
  /\ signalPack \in {"coding", "generic"} \X BOOLEAN
  /\ doing = IF lengths = <<>> THEN "filter" ELSE "scan"
  /\ llmCalls = 0 /\ windows = <<>> /\ durables = FALSE
  /\ atSynthesis = 0 /\ retried = FALSE /\ spent = FALSE

MustBeMade == {"scan", "filter", "synthesize", "strategy", "polish", "codingPolish"}

IngestionNext ==
  \/ ScanWindow \/ FilterSignals \/ SynthesizeRecords \/ GuardRecords
  \/ ExtractStrategy \/ PolishRecords \/ ExtractProjectIdentity
  \/ ApplyCodingRetention \/ AnnotateRecordRoles \/ PersistRecords
  \/ \E step \in MustBeMade : RequireBudget(step)
  \/ doing = "guard" /\ ~GuardSpared /\ RequireBudget("guard")
  \/ \E step \in MustBeMade : StepFails(step)
  \/ doing = "guard" /\ ~GuardSpared /\ StepFails("guard")
  \/ durables /\ \E step \in {"retention", "roles"} : StepFails(step)
  \/ StepFails("identity")

IngestionSpec == IngestionInit /\ [][IngestionNext]_ingestionVars

-----------------------------------------------------------------------------
\* Every variable of the pipeline stays in its type.
IngestionTypeOK ==
  /\ doing \in MustBeMade \union
       {"guard", "identity", "retention", "roles", "persist", "done", "failed"}
  /\ llmCalls \in Nat /\ atSynthesis \in 0..llmCalls
  /\ windows \in Seq((1..Lines) \X (1..Lines))
  /\ durables \in BOOLEAN /\ retried \in BOOLEAN /\ spent \in BOOLEAN

\* Once the scan is over every line of the trace has been in exactly one
\* window, whatever the sizes of its lines and of the windows.
EveryLineScanned ==
  doing \notin {"scan", "failed"} =>
    \A line \in 1..Lines :
      Cardinality({i \in DOMAIN windows : line \in windows[i][1]..windows[i][2]}) = 1

\* When two calls are left after the synthesis, the pipeline gets through the
\* steps it must make: it runs out of calls later only because of a retry.
GuardLeavesRoom ==
  (spent /\ Coding /\ atSynthesis > 0) =>
    retried \/ atSynthesis + 2 > ComputeRequestBudget
=============================================================================
