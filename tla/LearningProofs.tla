--------------------------- MODULE LearningProofs ----------------------------
(* Theorems about the way from a trace to records and their confidence: the *)
(* submission of traces, their windows, the extraction and curation of       *)
(* records, and the feedback on them.                                        *)
EXTENDS ContextLearning, TraceSubmission, TraceIngestion, RecordFeedback,
        NaturalSets, FiniteSetTheorems, SequenceTheorems

-----------------------------------------------------------------------------
(* TraceSubmission *)

(* What the manifests say, and what the clients are about to write there. *)
EndsLearned ==
  \A c \in Clients : stage[c] = "mark" /\ outcome[c] = "imported" => Learned(trace[c])

SubmissionInv == TraceTypeOK /\ ImportedIsLearned /\ EndsLearned

-----------------------------------------------------------------------------

LEMMA TraceTypeInit == TraceInit => TraceTypeOK
  <1> SUFFICES ASSUME TraceInit PROVE TraceTypeOK
    OBVIOUS
  <1>1. (CHOOSE t \in Traces : TRUE) \in Traces
    BY TraceAssumption
  <1>2. manifest \in [Traces -> [status : {"none", "submitted"} \union Outcomes, force : BOOLEAN]]
    BY DEF TraceInit
  <1>3. /\ trace \in [Clients -> Traces]
        /\ stage \in [Clients -> {"idle", "check", "register", "extract", "mark"}]
        /\ outcome \in [Clients -> Outcomes]
        /\ forced \in [Clients -> BOOLEAN]
    BY <1>1 DEF TraceInit, Outcomes
  <1>4. /\ retries \in 0..MaxRetries
        /\ ref \in [TraceSessions -> Contents \union {NoContent}]
        /\ learnedFrom \in [TraceSessions -> SUBSET Contents]
    BY TraceAssumption DEF TraceInit
  <1> QED
    BY <1>2, <1>3, <1>4 DEF TraceTypeOK

LEMMA TraceTypeNext == TraceTypeOK /\ [TraceNext]_traceVars => TraceTypeOK'
  <1> SUFFICES ASSUME TraceTypeOK, [TraceNext]_traceVars PROVE TraceTypeOK'
    OBVIOUS
  <1> USE TraceAssumption DEF TraceTypeOK
  <1>1. ASSUME NEW c \in Clients, NEW t \in Traces, Submit(c, t) PROVE TraceTypeOK'
    BY <1>1 DEF Submit, StartImport
  <1>2. ASSUME NEW c \in Clients, NEW t \in Traces, Retry(c, t) PROVE TraceTypeOK'
    BY <1>2 DEF Retry, StartImport
  <1>3. ASSUME NEW c \in Clients, Check(c) PROVE TraceTypeOK'
    BY <1>3 DEF Check, Ends, Outcomes
  <1>4. ASSUME NEW c \in Clients, Register(c) PROVE TraceTypeOK'
    BY <1>4 DEF Register, SessionOfClient, ContentOfClient
  <1>5. ASSUME NEW c \in Clients, Extract(c) PROVE TraceTypeOK'
    BY <1>5 DEF Extract, SessionOfClient, ContentOfClient, Ends, Outcomes
  <1>6. ASSUME NEW c \in Clients, ExtractRejected(c) PROVE TraceTypeOK'
    BY <1>6 DEF ExtractRejected, Ends, Outcomes
  <1>7. ASSUME NEW c \in Clients, ImportFails(c) PROVE TraceTypeOK'
    BY <1>7 DEF ImportFails, Ends, Outcomes
  <1>8. ASSUME NEW c \in Clients, Mark(c) PROVE TraceTypeOK'
    BY <1>8 DEF Mark
  <1>9. ASSUME NEW c \in Clients, ClientDies(c) PROVE TraceTypeOK'
    BY <1>9 DEF ClientDies
  <1>10. CASE UNCHANGED traceVars
    BY <1>10 DEF traceVars
  <1> QED
    BY <1>1, <1>2, <1>3, <1>4, <1>5, <1>6, <1>7, <1>8, <1>9, <1>10 DEF TraceNext

(* What a session has taught the store is not forgotten. *)
LEMMA LearnedStays ==
  ASSUME TraceTypeOK, [TraceNext]_traceVars, NEW t \in Traces, Learned(t)
  PROVE  Learned(t)'
  <1>1. ASSUME NEW c \in Clients, Extract(c) PROVE Learned(t)'
    BY <1>1, TraceAssumption DEF Extract, Learned, TraceTypeOK, SessionOfClient
  <1>2. UNCHANGED learnedFrom => Learned(t)'
    BY DEF Learned
  <1> QED
    BY <1>1, <1>2 DEF TraceNext, traceVars, Submit, Retry, Check, Register, ExtractRejected,
       ImportFails, Mark, ClientDies

(* Types hold whatever the clients do. *)
THEOREM TraceTypeCorrect == TraceSpec => []TraceTypeOK
  <1>1. TraceInit => TraceTypeOK
    BY TraceTypeInit
  <1>2. TraceTypeOK /\ [TraceNext]_traceVars => TraceTypeOK'
    BY TraceTypeNext
  <1> QED
    BY <1>1, <1>2, PTL DEF TraceSpec

LEMMA TraceInvNext ==
  ASSUME ~Rejections, SubmissionInv, [TraceNext]_traceVars
  PROVE  SubmissionInv'
  <1> USE DEF SubmissionInv
  <1>0. TraceTypeOK'
    BY TraceTypeNext
  <1>1. \A t \in Traces : Learned(t) => Learned(t)'
    BY LearnedStays
  <1> USE DEF ImportedIsLearned, EndsLearned, TraceTypeOK, Outcomes
  <1>2. ASSUME NEW c \in Clients, NEW t \in Traces, Submit(c, t) PROVE SubmissionInv'
    BY <1>0, <1>1, <1>2 DEF Submit, StartImport
  <1>3. ASSUME NEW c \in Clients, NEW t \in Traces, Retry(c, t) PROVE SubmissionInv'
    BY <1>0, <1>1, <1>3 DEF Retry, StartImport
  <1>4. ASSUME NEW c \in Clients, Check(c) PROVE SubmissionInv'
    BY <1>0, <1>1, <1>4 DEF Check, Ends
  <1>5. ASSUME NEW c \in Clients, Register(c) PROVE SubmissionInv'
    BY <1>0, <1>1, <1>5 DEF Register
  <1>6. ASSUME NEW c \in Clients, Extract(c) PROVE SubmissionInv'
    <2>1. Learned(trace[c])'
      BY <1>6, TraceAssumption DEF Extract, Learned, SessionOfClient, ContentOfClient
    <2> QED
      BY <1>0, <1>1, <1>6, <2>1 DEF Extract, Ends
  <1>7. ASSUME NEW c \in Clients, ExtractRejected(c) PROVE SubmissionInv'
    <2>1. Learned(trace[c])
      BY <1>7 DEF ExtractRejected, Learned, SessionOfClient
    <2> QED
      BY <1>0, <1>1, <1>7, <2>1 DEF ExtractRejected, Ends
  <1>8. ASSUME NEW c \in Clients, ImportFails(c) PROVE SubmissionInv'
    BY <1>0, <1>1, <1>8 DEF ImportFails, Ends
  <1>9. ASSUME NEW c \in Clients, Mark(c) PROVE SubmissionInv'
    BY <1>0, <1>1, <1>9 DEF Mark
  <1>10. ASSUME NEW c \in Clients, ClientDies(c) PROVE SubmissionInv'
    BY <1>0, <1>1, <1>10 DEF ClientDies
  <1>11. CASE UNCHANGED traceVars
    BY <1>0, <1>1, <1>11 DEF traceVars
  <1> QED
    BY <1>2, <1>3, <1>4, <1>5, <1>6, <1>7, <1>8, <1>9, <1>10, <1>11 DEF TraceNext

(* As long as an extraction that returns has written its episode, a manifest *)
(* that says "imported" speaks of a session the store has learned.           *)
THEOREM ImportedLearned ==
  ASSUME ~Rejections
  PROVE  TraceSpec => []ImportedIsLearned
  <1>1. TraceInit => SubmissionInv
    <2> SUFFICES ASSUME TraceInit PROVE SubmissionInv
      OBVIOUS
    <2>1. ImportedIsLearned
      BY DEF TraceInit, ImportedIsLearned
    <2>2. EndsLearned
      BY DEF TraceInit, EndsLearned
    <2> QED
      BY <2>1, <2>2, TraceTypeInit DEF SubmissionInv
  <1>2. SubmissionInv /\ [TraceNext]_traceVars => SubmissionInv'
    BY TraceInvNext
  <1>3. SubmissionInv => ImportedIsLearned
    BY DEF SubmissionInv
  <1> QED
    BY <1>1, <1>2, <1>3, PTL DEF TraceSpec

-----------------------------------------------------------------------------
(* TraceIngestion: the sum of a sequence of sizes is a number. *)

LEMMA SubsetIs ==
  ASSUME NEW D, IsFiniteSet(D), NEW S \in SUBSET D
  PROVE  /\ IsFiniteSet(S) /\ Cardinality(S) \in Nat /\ Cardinality(S) <= Cardinality(D)
         /\ Cardinality(S) <= 0 => S = {}
  <1>1. IsFiniteSet(S) /\ Cardinality(S) <= Cardinality(D)
    BY FS_Subset
  <1>2. Cardinality(S) \in Nat
    BY <1>1, FS_CardinalityType
  <1>3. Cardinality(S) = 0 => S = {}
    BY <1>1, FS_EmptySet
  <1> QED BY <1>1, <1>2, <1>3

\* The sum of the sizes folds over sets of positions, whichever the fold takes
\* next.
NextPosition(positions) == CHOOSE i \in positions : TRUE
TotalStep(f, sizes, S) == IF S = {} THEN 0 ELSE sizes[NextPosition(S)] + f[S \ {NextPosition(S)}]
IsTotal(f, sizes) == f = [S \in SUBSET DOMAIN sizes |-> TotalStep(f, sizes, S)]

LEMMA TotalIs ==
  ASSUME NEW sizes
  PROVE  Total(sizes) = (CHOOSE f : IsTotal(f, sizes))[DOMAIN sizes]
  BY DEF Total, FoldSeq, FoldFunction, FoldFunctionOnSet, MapThenFoldSet, IsTotal, TotalStep,
     NextPosition

LEMMA NextPositionIs ==
  ASSUME NEW D, IsFiniteSet(D), NEW S \in SUBSET D, S # {}, NEW n \in Nat, Cardinality(S) <= n + 1
  PROVE  /\ NextPosition(S) \in S /\ S \ {NextPosition(S)} \in SUBSET D
         /\ Cardinality(S \ {NextPosition(S)}) <= n /\ Cardinality(S \ {NextPosition(S)}) <= n + 1
  <1>1. NextPosition(S) \in S /\ IsFiniteSet(S) /\ Cardinality(S) \in Nat
    BY SubsetIs DEF NextPosition
  <1>2. Cardinality(S \ {NextPosition(S)}) = Cardinality(S) - 1
    BY <1>1, FS_RemoveElement
  <1> QED BY <1>1, <1>2

\* A function as the recursion asks for exists: built up by the number of
\* positions.
LEMMA TotalExists ==
  ASSUME NEW sizes, IsFiniteSet(DOMAIN sizes)
  PROVE  \E f : IsTotal(f, sizes)
  <1> DEFINE D == DOMAIN sizes
             N == Cardinality(D)
             Small(n) == {S \in SUBSET D : Cardinality(S) <= n}
             Built(n) == \E f : \A S \in Small(n) : f[S] = TotalStep(f, sizes, S)
             T == {n \in 0..N : Built(n)}
  <1>0. N \in Nat /\ IsFiniteSet(D)
    BY FS_CardinalityType
  <1> HIDE DEF D, N
  <1>1. 0 \in T
    <2> DEFINE f == [S \in SUBSET D |-> 0]
    <2>1. ASSUME NEW S \in Small(0) PROVE f[S] = TotalStep(f, sizes, S)
      <3>1. S = {}
        BY <1>0, SubsetIs
      <3> QED BY <3>1 DEF TotalStep
    <2>2. Built(0)
      <3> HIDE DEF f
      <3> QED BY <2>1
    <2> HIDE DEF Built
    <2> QED BY <1>0, <2>2
  <1>2. \A n \in 0..N : n \in T /\ n < N => n + 1 \in T
    <2> TAKE n \in 0..N
    <2> HAVE n \in T /\ n < N
    <2>0. n \in Nat /\ n + 1 \in 0..N
      BY <1>0
    <2>1. PICK f : \A S \in Small(n) : f[S] = TotalStep(f, sizes, S)
      OBVIOUS
    <2> DEFINE g == [S \in Small(n + 1) |-> TotalStep(f, sizes, S)]
    <2>2. ASSUME NEW S \in Small(n + 1) PROVE g[S] = TotalStep(g, sizes, S)
      <3>1. CASE S = {}
        BY <3>1 DEF TotalStep
      <3>2. CASE S # {}
        <4> DEFINE R == S \ {NextPosition(S)}
        <4>1. R \in Small(n) /\ R \in Small(n + 1)
          BY <1>0, <2>0, <2>2, <3>2, NextPositionIs
        <4>2. g[R] = f[R]
          BY <2>1, <4>1
        <4> QED BY <2>2, <3>2, <4>2 DEF TotalStep
      <3> QED BY <3>1, <3>2
    <2>3. Built(n + 1)
      <3> HIDE DEF g
      <3> QED BY <2>2
    <2> HIDE DEF Built
    <2> QED BY <2>0, <2>3
  <1>3. N \in T
    <2> HIDE DEF T
    <2>1. 0..N \subseteq T
      BY <1>0, <1>1, <1>2, UpTo
    <2> QED BY <1>0, <2>1
  <1>4. PICK f : \A S \in Small(N) : f[S] = TotalStep(f, sizes, S)
    BY <1>3
  <1>5. SUBSET D \subseteq Small(N)
    BY <1>0, SubsetIs DEF N
  <1> DEFINE g == [S \in SUBSET D |-> TotalStep(f, sizes, S)]
  <1>6. ASSUME NEW S \in SUBSET D PROVE TotalStep(g, sizes, S) = TotalStep(f, sizes, S)
    <2>1. CASE S = {}
      BY <2>1 DEF TotalStep
    <2>2. CASE S # {}
      <3>1. S \ {NextPosition(S)} \in SUBSET D
        OBVIOUS
      <3>2. g[S \ {NextPosition(S)}] = f[S \ {NextPosition(S)}]
        BY <1>4, <1>5, <3>1
      <3> QED BY <2>2, <3>2 DEF TotalStep
    <2> QED BY <2>1, <2>2
  <1>7. g = [S \in SUBSET D |-> TotalStep(g, sizes, S)]
    BY <1>6
  <1> HIDE DEF g
  <1> QED BY <1>7 DEF IsTotal, D

LEMMA TotalNumber ==
  ASSUME NEW D, IsFiniteSet(D), NEW sizes \in [D -> Nat]
  PROVE  Total(sizes) \in Nat
  <1> DEFINE N == Cardinality(D)
             f == CHOOSE h : IsTotal(h, sizes)
             T == {n \in 0..N : \A S \in SUBSET D : Cardinality(S) <= n => f[S] \in Nat}
  <1>0. N \in Nat
    BY FS_CardinalityType
  <1>1. \A S \in SUBSET D : f[S] = TotalStep(f, sizes, S)
    <2>1. IsTotal(f, sizes)
      BY TotalExists
    <2> HIDE DEF f
    <2> QED BY <2>1 DEF IsTotal
  <1> HIDE DEF f, N
  <1>2. 0 \in T
    <2>1. ASSUME NEW S \in SUBSET D, Cardinality(S) <= 0 PROVE f[S] \in Nat
      <3>1. S = {}
        BY <2>1, SubsetIs
      <3>2. f[S] = 0
        BY <1>1, <3>1 DEF TotalStep
      <3> QED BY <3>2
    <2> QED BY <1>0, <2>1
  <1>3. \A n \in 0..N : n \in T /\ n < N => n + 1 \in T
    <2> TAKE n \in 0..N
    <2> HAVE n \in T /\ n < N
    <2>0. n \in Nat /\ n + 1 \in 0..N
      BY <1>0
    <2>1. ASSUME NEW S \in SUBSET D, Cardinality(S) <= n + 1 PROVE f[S] \in Nat
      <3>1. CASE S = {}
        <4>1. f[S] = 0
          BY <1>1, <3>1 DEF TotalStep
        <4> QED BY <4>1
      <3>2. CASE S # {}
        <4>1. /\ NextPosition(S) \in S /\ S \ {NextPosition(S)} \in SUBSET D
              /\ Cardinality(S \ {NextPosition(S)}) <= n
          BY <2>0, <2>1, <3>2, NextPositionIs
        <4>2. f[S \ {NextPosition(S)}] \in Nat /\ sizes[NextPosition(S)] \in Nat
          BY <4>1
        <4>3. f[S] = sizes[NextPosition(S)] + f[S \ {NextPosition(S)}]
          BY <1>1, <3>2 DEF TotalStep
        <4> QED BY <4>2, <4>3
      <3> QED BY <3>1, <3>2
    <2> QED BY <2>0, <2>1
  <1>4. N \in T
    <2> HIDE DEF T
    <2>1. 0..N \subseteq T
      BY <1>0, <1>2, <1>3, UpTo
    <2> QED BY <1>0, <2>1
  <1>5. D \in SUBSET D /\ N <= N
    BY <1>0
  <1>6. f[D] \in Nat
    BY <1>4, <1>5 DEF N
  <1> QED BY <1>6, TotalIs DEF f

-----------------------------------------------------------------------------
(* Types *)

Steps == MustBeMade \union {"guard", "identity", "retention", "roles", "persist", "done", "failed"}

TraceInv == lengths \in Seq(LineSizes)

LEMMA BudgetType ==
  ASSUME TraceInv
  PROVE  ComputeRequestBudget \in Nat
  <1> DEFINE D == 1..Lines
             shown == [i \in D |-> Visible(lengths[i])]
  <1>0. /\ Lines \in Nat /\ IsFiniteSet(D) /\ \A i \in D : lengths[i] \in Nat
        /\ LineCap \in Nat /\ Floor \in Nat /\ Overhead \in Nat
        /\ MaxWindow \in Nat /\ MaxWindow > 0
    <2>1. Lines \in Nat /\ \A i \in D : lengths[i] \in LineSizes
      BY DEF TraceInv, Lines
    <2>2. Lines \in Nat /\ \A i \in D : lengths[i] \in Nat
      BY <2>1, IngestionAssumption
    <2>3. IsFiniteSet(D)
      BY <2>2, FS_Interval
    <2> QED BY <2>2, <2>3, IngestionAssumption
  <1>1. shown \in [D -> Nat]
    BY <1>0 DEF Visible, Lesser
  <1>2. Total(shown) \in Nat
    <2> HIDE DEF D, shown
    <2> QED BY <1>0, <1>1, TotalNumber
  <1>3. (Total(shown) + MaxWindow - 1) \div MaxWindow \in Int
    BY <1>0, <1>2
  <1>4. Greater(1, (Total(shown) + MaxWindow - 1) \div MaxWindow) \in Nat
    <2> DEFINE q == (Total(shown) + MaxWindow - 1) \div MaxWindow
    <2> HIDE DEF q
    <2> QED BY <1>3 DEF Greater, q
  <1>5. Greater(Floor, Greater(1, (Total(shown) + MaxWindow - 1) \div MaxWindow) + Overhead) \in Nat
    <2> DEFINE m == Greater(1, (Total(shown) + MaxWindow - 1) \div MaxWindow)
    <2>1. m \in Nat
      BY <1>4
    <2> HIDE DEF m
    <2>2. Greater(Floor, m + Overhead) \in Nat
      BY <1>0, <2>1 DEF Greater
    <2> QED BY <2>2 DEF m
  <1> QED BY <1>0, <1>5 DEF ComputeRequestBudget

\* A window ends at a line of the trace, and holds its first one.
LEMMA WindowIs ==
  ASSUME TraceInv, NEW first \in 1..Lines, NEW budget
  PROVE  WindowEnd(first, budget) \in first..Lines
  <1> DEFINE Fits(k) ==
               k = first \/
               Total([i \in 1..(k - first + 1) |-> Rendered(lengths[first + i - 1])]) <= budget
             K == {k \in first..Lines : Fits(k)}
  <1>0. Lines \in Nat
    BY DEF TraceInv, Lines
  <1>1. K \in SUBSET (0..Lines) /\ first \in K
    BY <1>0
  <1>2. Max(K) \in K /\ \A k \in K : k <= Max(K)
    <2> HIDE DEF K
    <2> QED BY <1>0, <1>1, MaxIs
  <1>3. \E e \in first..Lines : Fits(e) /\ \A k \in first..Lines : Fits(k) => k <= e
    <2> HIDE DEF Fits
    <2> QED BY <1>2
  <1>4. WindowEnd(first, budget) =
          CHOOSE e \in first..Lines : Fits(e) /\ \A k \in first..Lines : Fits(k) => k <= e
    BY DEF WindowEnd
  <1> HIDE DEF Fits
  <1> QED BY <1>3, <1>4

\* The trace is the one the run began with; every window is one of its lines.
IngestionTypeInv == TraceInv /\ IngestionTypeOK

\* The windows so far hold each line before the next one once, and no other.
Holding(line) == {i \in DOMAIN windows : line \in windows[i][1]..windows[i][2]}

WindowsInv ==
  /\ NextLine \in Nat \ {0}
  /\ \A line \in 1..Lines :
       /\ line < NextLine => \E i \in DOMAIN windows : Holding(line) = {i}
       /\ line >= NextLine => Holding(line) = {}
  /\ doing = "scan" => NextLine <= Lines
  /\ doing \notin {"scan", "failed"} => NextLine > Lines

\* With no retry since the synthesis, the calls since then are those of the
\* steps since then, and the guard left room for them.
RoomInv ==
  /\ doing \in {"scan", "filter", "synthesize"} => atSynthesis = 0
  /\ doing = "polish" => ~Coding
  /\ spent => doing = "failed"
  /\ Coding /\ ~retried =>
       /\ doing = "guard" => llmCalls = atSynthesis
       /\ doing = "strategy" =>
            llmCalls = atSynthesis
              \/ (llmCalls = atSynthesis + 1 /\ atSynthesis + 2 < ComputeRequestBudget)
       /\ doing = "codingPolish" =>
            llmCalls <= atSynthesis + 1
              \/ (llmCalls <= atSynthesis + 2 /\ atSynthesis + 2 < ComputeRequestBudget)
  /\ GuardLeavesRoom

IngestionInv == IngestionTypeInv /\ WindowsInv /\ RoomInv

LEMMA IngestionStart == IngestionInit => IngestionInv
  <1> SUFFICES ASSUME IngestionInit PROVE IngestionInv
    OBVIOUS
  <1>1. PICK n \in 0..MaxLines : lengths \in [1..n -> LineSizes]
    BY DEF IngestionInit
  <1>2. n \in Nat
    BY IngestionAssumption
  <1>3. lengths \in Seq(LineSizes) /\ Lines = n
    BY <1>1, <1>2 DEF Lines
  <1>4. windows = <<>> /\ windows \in Seq((1..Lines) \X (1..Lines)) /\ DOMAIN windows = {}
    BY DEF IngestionInit
  <1>5. doing = IF n = 0 THEN "filter" ELSE "scan"
    BY <1>1, <1>2 DEF IngestionInit
  <1>6. NextLine = 1
    BY <1>4 DEF NextLine
  <1>7. IngestionTypeInv
    <2>1. llmCalls \in Nat /\ atSynthesis \in 0..llmCalls
      BY DEF IngestionInit
    <2> QED BY <2>1, <1>3, <1>4, <1>5 DEF IngestionInit, IngestionTypeInv, TraceInv, IngestionTypeOK, MustBeMade
  <1>8. WindowsInv
    BY <1>2, <1>3, <1>4, <1>5, <1>6 DEF WindowsInv, Holding
  <1>9. RoomInv
    BY <1>5 DEF IngestionInit, RoomInv, GuardLeavesRoom
  <1> QED BY <1>7, <1>8, <1>9 DEF IngestionInv

LEMMA SameBudget ==
  ASSUME lengths' = lengths
  PROVE  ComputeRequestBudget' = ComputeRequestBudget
  BY DEF ComputeRequestBudget, Lines

\* A step that neither reads nor scans the trace.
LEMMA WindowsStay ==
  ASSUME WindowsInv, UNCHANGED <<lengths, windows>>,
         doing' # "scan", doing' = "failed" \/ doing \notin {"scan", "failed"}
  PROVE  WindowsInv'
  <1>1. NextLine' = NextLine /\ Lines' = Lines
    BY DEF NextLine, Lines
  <1>2. \A line \in 1..Lines : Holding(line)' = Holding(line)
    BY DEF Holding
  <1> QED BY <1>1, <1>2 DEF WindowsInv

\* A model call is made where the budget has one, and costs one call or more
\* where it is retried.
LEMMA CallIs ==
  ASSUME IngestionTypeInv, NEW step, NEW after, CallModelStep(step, after)
  PROVE  /\ doing = step /\ doing' = after
         /\ UNCHANGED <<lengths, signalPack, windows, atSynthesis, spent>>
         /\ llmCalls' \in Nat /\ atSynthesis' \in 0..llmCalls' /\ retried' \in BOOLEAN
         /\ ~retried' => ~retried /\ llmCalls' = llmCalls + 1
         /\ llmCalls < ComputeRequestBudget
  <1>1. PICK attempts \in 1..MaxModelAttempts :
           llmCalls' = llmCalls + attempts /\ retried' = (retried \/ attempts > 1)
    BY DEF CallModelStep
  <1>2. llmCalls \in Nat /\ atSynthesis \in 0..llmCalls /\ retried \in BOOLEAN
    BY DEF IngestionTypeInv, IngestionTypeOK
  <1>3. attempts \in Nat /\ (~(attempts > 1) => attempts = 1)
    BY IngestionAssumption
  <1>4. llmCalls' \in Nat /\ atSynthesis \in 0..llmCalls'
    BY <1>1, <1>2, <1>3
  <1>5. ~retried' => ~retried /\ llmCalls' = llmCalls + 1
    BY <1>1, <1>3
  <1> QED BY <1>1, <1>2, <1>4, <1>5 DEF CallModelStep, BudgetLeft

LEMMA ScanKeeps ==
  ASSUME IngestionInv, ScanWindow
  PROVE  IngestionInv'
  <1>0. /\ lengths \in Seq(LineSizes) /\ Lines \in Nat /\ windows \in Seq((1..Lines) \X (1..Lines))
        /\ llmCalls \in Nat /\ atSynthesis \in 0..llmCalls
        /\ doing = "scan" /\ NextLine \in 1..Lines
    BY DEF IngestionInv, IngestionTypeInv, TraceInv, IngestionTypeOK, Lines, WindowsInv, ScanWindow
  <1>1. PICK budget \in {MinWindow, MaxWindow} :
           windows' = Append(windows, <<NextLine, WindowEnd(NextLine, budget)>>)
    BY DEF ScanWindow
  <1> DEFINE first == NextLine
             end == WindowEnd(NextLine, budget)
             N == Len(windows)
  <1>2. end \in first..Lines /\ first \in 1..Lines
    BY <1>0, WindowIs DEF TraceInv
  <1>3. UNCHANGED <<lengths, signalPack, durables, atSynthesis, retried, spent>> /\ Lines' = Lines
    BY DEF ScanWindow, Lines
  <1>4. /\ windows' \in Seq((1..Lines) \X (1..Lines)) /\ N \in Nat /\ DOMAIN windows = 1..N
        /\ Len(windows') = N + 1 /\ DOMAIN windows' = 1..(N + 1)
        /\ windows'[N + 1] = <<first, end>>
        /\ \A i \in 1..N : windows'[i] = windows[i]
    <2>1. <<first, end>> \in (1..Lines) \X (1..Lines)
      BY <1>0, <1>2
    <2> HIDE DEF first, end
    <2> QED BY <1>0, <1>1, <2>1 DEF first, end
  <1>5. NextLine' = end + 1 /\ Last(windows')[2] = end
    BY <1>4 DEF NextLine, Last
  <1>6. doing' = IF end + 1 <= Lines THEN "scan" ELSE "filter"
    BY <1>5 DEF ScanWindow
  <1>7. PICK attempts \in 1..MaxModelAttempts : llmCalls' = llmCalls + attempts
    BY DEF ScanWindow
  <1>8. llmCalls' \in Nat /\ atSynthesis \in 0..llmCalls'
    BY <1>0, <1>7, IngestionAssumption
  <1>9. IngestionTypeInv'
    BY <1>0, <1>3, <1>4, <1>6, <1>8
       DEF IngestionInv, IngestionTypeInv, TraceInv, IngestionTypeOK, MustBeMade
  <1>10. ASSUME NEW line \in 1..Lines
         PROVE  Holding(line)' =
                  Holding(line) \union (IF line \in first..end THEN {N + 1} ELSE {})
    <2> HIDE DEF first, end
    <2>1. \A i \in 1..(N + 1) : i \in Holding(line)' <=>
             \/ i \in 1..N /\ i \in Holding(line)
             \/ i = N + 1 /\ line \in first..end
      BY SMTT(30), <1>4 DEF Holding
    <2>2. Holding(line)' \subseteq 1..(N + 1) /\ Holding(line) \subseteq 1..N
      BY <1>4 DEF Holding
    <2> QED BY <1>4, <2>1, <2>2
  <1>11. ASSUME NEW line \in 1..Lines
         PROVE  /\ line < end + 1 => \E i \in 1..(N + 1) : Holding(line)' = {i}
                /\ line >= end + 1 => Holding(line)' = {}
    <2>1. CASE line < first
      <3>1. line \notin first..end /\ ~(line >= end + 1)
        BY <1>0, <1>2, <2>1
      <3>2. PICK i \in 1..N : Holding(line) = {i}
        BY <1>4, <2>1 DEF IngestionInv, WindowsInv
      <3>3. i \in 1..(N + 1)
        BY <1>4, <3>2
      <3> HIDE DEF first, end, N
      <3>4. Holding(line)' = {i}
        BY <1>10, <3>1, <3>2
      <3> QED BY <3>1, <3>3, <3>4
    <2>2. CASE line \in first..end
      <3>1. Holding(line) = {} /\ ~(line >= end + 1)
        BY <1>0, <1>2, <2>2 DEF IngestionInv, WindowsInv
      <3>2. Holding(line)' = {N + 1} /\ N + 1 \in 1..(N + 1)
        BY <1>4, <1>10, <2>2, <3>1
      <3> HIDE DEF first, end, N
      <3> QED BY <3>1, <3>2
    <2>3. CASE line >= end + 1
      <3>1. Holding(line) = {} /\ line \notin first..end /\ ~(line < end + 1)
        BY <1>0, <1>2, <2>3 DEF IngestionInv, WindowsInv
      <3> QED BY <1>10, <3>1
    <2> QED BY <1>0, <1>2, <2>1, <2>2, <2>3
  <1>12. WindowsInv'
    <2>1. NextLine' \in Nat \ {0}
      BY <1>0, <1>2, <1>5
    <2> HIDE DEF first, end
    <2>2. \A line \in 1..Lines' :
            /\ line < NextLine' => \E i \in DOMAIN windows' : Holding(line)' = {i}
            /\ line >= NextLine' => Holding(line)' = {}
      BY <1>3, <1>4, <1>5, <1>11
    <2>3. /\ doing' = "scan" => NextLine' <= Lines'
          /\ doing' \notin {"scan", "failed"} => NextLine' > Lines'
      BY <1>0, <1>2, <1>3, <1>5, <1>6
    <2> QED BY <2>1, <2>2, <2>3 DEF WindowsInv
  <1>13. RoomInv'
    BY <1>0, <1>3, <1>6 DEF IngestionInv, RoomInv, GuardLeavesRoom
  <1> QED BY <1>9, <1>12, <1>13 DEF IngestionInv

\* What a step other than a scan does to the calls and the state of a run.
LEMMA CallKeeps ==
  ASSUME IngestionInv, NEW step, NEW after, CallModelStep(step, after), durables' \in BOOLEAN,
         step \notin {"scan", "failed"}, after \in Steps \ {"scan"},
         step = "filter" => after = "synthesize",
         step = "guard" => after = AfterGuard /\ ~GuardSpared,
         step = "strategy" => after = "codingPolish",
         step \notin {"filter", "guard", "strategy"} =>
           after \in {"roles", "identity", "retention", "persist"}
  PROVE  IngestionInv'
  <1>1. /\ doing = step /\ doing' = after
        /\ UNCHANGED <<lengths, signalPack, windows, atSynthesis, spent>>
        /\ llmCalls' \in Nat /\ atSynthesis' \in 0..llmCalls' /\ retried' \in BOOLEAN
        /\ ~retried' => ~retried /\ llmCalls' = llmCalls + 1
    BY CallIs DEF IngestionInv
  <1>2. IngestionTypeInv'
    BY <1>1 DEF IngestionInv, IngestionTypeInv, TraceInv, IngestionTypeOK, Lines, Steps
  <1>3. WindowsInv'
    BY <1>1, WindowsStay DEF IngestionInv
  <1>4. /\ ComputeRequestBudget' = ComputeRequestBudget /\ ComputeRequestBudget \in Nat
        /\ Coding' = Coding
    BY <1>1, SameBudget, BudgetType DEF IngestionInv, IngestionTypeInv, Coding
  <1>5. llmCalls \in Nat /\ atSynthesis \in Nat
    BY DEF IngestionInv, IngestionTypeInv, IngestionTypeOK
  <1>6. ~spent'
    BY <1>1 DEF IngestionInv, RoomInv
  <1>7. ASSUME after \in {"scan", "filter", "synthesize"} PROVE atSynthesis' = 0
    BY <1>1, <1>7 DEF IngestionInv, RoomInv, AfterGuard
  <1>8. ASSUME after = "polish" PROVE ~Coding'
    BY <1>1, <1>4, <1>8 DEF IngestionInv, RoomInv, AfterGuard
  <1>9. ASSUME Coding, ~retried', after \in {"strategy", "codingPolish"}
        PROVE  /\ after = "strategy" =>
                    llmCalls' = atSynthesis + 1 /\ atSynthesis + 2 < ComputeRequestBudget
               /\ after = "codingPolish" =>
                    llmCalls' <= atSynthesis + 1
                      \/ (llmCalls' <= atSynthesis + 2 /\ atSynthesis + 2 < ComputeRequestBudget)
    <2>1. ~retried /\ llmCalls' = llmCalls + 1
      BY <1>1, <1>9
    <2>2. CASE step = "guard"
      <3>1. llmCalls = atSynthesis /\ llmCalls + 2 < ComputeRequestBudget
        BY <1>1, <1>4, <1>5, <1>9, <2>1, <2>2 DEF IngestionInv, RoomInv, GuardSpared
      <3> QED BY <1>5, <2>1, <3>1
    <2>3. CASE step = "strategy"
      <3>1. llmCalls = atSynthesis
              \/ (llmCalls = atSynthesis + 1 /\ atSynthesis + 2 < ComputeRequestBudget)
        BY <1>1, <1>9, <2>1, <2>3 DEF IngestionInv, RoomInv
      <3> QED BY <1>4, <1>5, <2>1, <2>3, <3>1
    <2> QED BY <1>9, <2>2, <2>3
  <1>10. after # "guard"
    BY DEF AfterGuard
  <1>11. RoomInv'
    BY <1>1, <1>4, <1>6, <1>7, <1>8, <1>9, <1>10 DEF RoomInv, GuardLeavesRoom
  <1> QED BY <1>2, <1>3, <1>11 DEF IngestionInv

\* A step that is left out makes no call.
LEMMA SkipKeeps ==
  ASSUME IngestionInv, NEW step, NEW after, Optional(step, after),
         step \in {"guard", "identity", "retention", "roles", "persist"},
         step = "guard" => after = AfterGuard /\ GuardSpared,
         step # "guard" => after \in {"roles", "retention", "persist", "done", "failed"}
  PROVE  IngestionInv'
  <1>1. /\ doing = step /\ doing' = after
        /\ UNCHANGED <<lengths, signalPack, llmCalls, windows, durables, atSynthesis, retried, spent>>
    BY DEF Optional
  <1>2. after \in Steps \ {"scan", "filter", "synthesize", "guard"}
    BY DEF AfterGuard, Steps, MustBeMade
  <1>3. IngestionTypeInv'
    BY <1>1, <1>2 DEF IngestionInv, IngestionTypeInv, TraceInv, IngestionTypeOK, Lines, Steps
  <1>4. WindowsInv'
    BY <1>1, <1>2, WindowsStay DEF IngestionInv
  <1>5. ComputeRequestBudget' = ComputeRequestBudget /\ Coding' = Coding
    BY <1>1, SameBudget DEF Coding
  <1>6. llmCalls \in Nat /\ atSynthesis \in Nat
    BY DEF IngestionInv, IngestionTypeInv, IngestionTypeOK
  <1>7. after = "polish" => ~Coding
    BY <1>1 DEF AfterGuard
  <1>8. after \in {"strategy", "codingPolish"} /\ Coding /\ ~retried => llmCalls = atSynthesis
    BY <1>1 DEF IngestionInv, RoomInv
  <1>9. ~spent
    BY <1>1 DEF IngestionInv, RoomInv
  <1>10. RoomInv'
    BY <1>1, <1>2, <1>5, <1>6, <1>7, <1>8, <1>9 DEF RoomInv, GuardLeavesRoom
  <1> QED BY <1>3, <1>4, <1>10 DEF IngestionInv

\* A step that ends the run; where it ends for want of a call, a retry or the
\* budget itself is to blame.
LEMMA EndKeeps ==
  ASSUME IngestionInv, NEW step \in MustBeMade \union {"guard", "retention", "roles", "identity"},
         StepFails(step) \/ RequireBudget(step),
         step = "guard" => ~GuardSpared,
         RequireBudget(step) => step \in MustBeMade \union {"guard"}
  PROVE  IngestionInv'
  <1>1. /\ doing = step /\ doing' = "failed"
        /\ UNCHANGED <<lengths, signalPack, llmCalls, windows, durables, atSynthesis, retried>>
        /\ spent' \in BOOLEAN /\ (spent' => spent \/ (RequireBudget(step) /\ ~BudgetLeft))
    <2>1. CASE StepFails(step)
      BY <2>1 DEF StepFails, IngestionInv, IngestionTypeInv, IngestionTypeOK
    <2>2. CASE RequireBudget(step)
      <3>1. ~BudgetLeft
        BY <2>2 DEF RequireBudget
      <3>2. spent' \in BOOLEAN
        BY <2>2 DEF RequireBudget
      <3>3. /\ doing = step /\ doing' = "failed"
            /\ UNCHANGED <<lengths, signalPack, llmCalls, windows, durables, atSynthesis, retried>>
        BY <2>2 DEF RequireBudget
      <3> QED BY <2>2, <3>1, <3>2, <3>3
    <2> QED BY <2>1, <2>2
  <1>2. IngestionTypeInv'
    BY <1>1 DEF IngestionInv, IngestionTypeInv, TraceInv, IngestionTypeOK, Lines
  <1>3. WindowsInv'
    <2>1. NextLine' = NextLine /\ Lines' = Lines
      BY <1>1 DEF NextLine, Lines
    <2>2. \A line \in 1..Lines : Holding(line)' = Holding(line)
      BY <1>1 DEF Holding
    <2> QED BY <1>1, <2>1, <2>2 DEF IngestionInv, WindowsInv
  <1>4. /\ ComputeRequestBudget' = ComputeRequestBudget /\ ComputeRequestBudget \in Nat
        /\ Coding' = Coding
    BY <1>1, SameBudget, BudgetType DEF IngestionInv, IngestionTypeInv, Coding
  <1>5. llmCalls \in Nat /\ atSynthesis \in Nat
    BY DEF IngestionInv, IngestionTypeInv, IngestionTypeOK
  <1>6. ASSUME spent', Coding, atSynthesis > 0, ~retried
        PROVE  atSynthesis + 2 > ComputeRequestBudget
    <2>1. ~spent
      BY <1>1 DEF IngestionInv, RoomInv, MustBeMade
    <2>2. llmCalls >= ComputeRequestBudget /\ step \in MustBeMade \union {"guard"}
      BY <1>1, <1>4, <1>5, <1>6, <2>1 DEF BudgetLeft
    <2>3. step \in {"guard", "strategy", "codingPolish"}
      BY <1>1, <1>5, <1>6, <2>2 DEF IngestionInv, RoomInv, MustBeMade
    <2>4. step # "guard"
      BY <1>4, <1>5, <1>6, <2>2 DEF GuardSpared
    <2>5. CASE step = "strategy"
      <3>1. llmCalls = atSynthesis
              \/ (llmCalls = atSynthesis + 1 /\ atSynthesis + 2 < ComputeRequestBudget)
        BY <1>1, <1>6, <2>5 DEF IngestionInv, RoomInv
      <3> QED BY <1>4, <1>5, <2>2, <3>1
    <2>6. CASE step = "codingPolish"
      <3>1. llmCalls <= atSynthesis + 1
              \/ (llmCalls <= atSynthesis + 2 /\ atSynthesis + 2 < ComputeRequestBudget)
        BY <1>1, <1>6, <2>6 DEF IngestionInv, RoomInv
      <3> QED BY <1>4, <1>5, <2>2, <3>1
    <2> QED BY <2>3, <2>4, <2>5, <2>6
  <1>7. RoomInv'
    BY <1>1, <1>4, <1>6 DEF RoomInv, GuardLeavesRoom
  <1> QED BY <1>2, <1>3, <1>7 DEF IngestionInv

LEMMA SynthesizeKeeps ==
  ASSUME IngestionInv, SynthesizeRecords
  PROVE  IngestionInv'
  <1>1. /\ doing = "synthesize" /\ doing' = "guard" /\ atSynthesis' = llmCalls' /\ ~retried'
        /\ retried' \in BOOLEAN /\ durables' \in BOOLEAN
        /\ UNCHANGED <<lengths, signalPack, windows, spent>>
    BY DEF SynthesizeRecords
  <1>2. PICK attempts \in 1..MaxModelAttempts : llmCalls' = llmCalls + attempts
    BY DEF SynthesizeRecords
  <1>3. llmCalls' \in Nat /\ atSynthesis' \in 0..llmCalls'
    BY <1>1, <1>2, IngestionAssumption DEF IngestionInv, IngestionTypeInv, IngestionTypeOK
  <1>4. IngestionTypeInv'
    BY <1>1, <1>3 DEF IngestionInv, IngestionTypeInv, TraceInv, IngestionTypeOK, Lines
  <1>5. WindowsInv'
    BY <1>1, WindowsStay DEF IngestionInv
  <1>6. RoomInv'
    BY <1>1 DEF IngestionInv, RoomInv, GuardLeavesRoom
  <1> QED BY <1>4, <1>5, <1>6 DEF IngestionInv

LEMMA IngestionStep ==
  ASSUME IngestionInv, [IngestionNext]_ingestionVars
  PROVE  IngestionInv'
  <1>d. durables \in BOOLEAN
    BY DEF IngestionInv, IngestionTypeInv, IngestionTypeOK
  <1>a. AfterGuard \in Steps \ {"scan"}
    BY DEF AfterGuard, Steps, MustBeMade
  <1>s. {"synthesize", "codingPolish", "roles", "identity", "retention", "persist"} \subseteq Steps \ {"scan"}
    BY DEF Steps, MustBeMade
  <1>1. CASE ScanWindow
    BY <1>1, ScanKeeps
  <1>2. CASE FilterSignals
    BY <1>2, <1>d, <1>s, CallKeeps DEF FilterSignals
  <1>3. CASE SynthesizeRecords
    BY <1>3, SynthesizeKeeps
  <1>4. CASE GuardRecords
    <2>1. CASE ~GuardSpared /\ CallModelStep("guard", AfterGuard) /\ durables' \in BOOLEAN
      BY <2>1, <1>a, CallKeeps
    <2>2. CASE doing = "guard" /\ GuardSpared /\ Optional("guard", AfterGuard)
      BY <2>2, SkipKeeps
    <2> QED BY <1>4, <2>1, <2>2 DEF GuardRecords, Optional
  <1>5. CASE ExtractStrategy
    BY <1>5, <1>d, <1>s, CallKeeps DEF ExtractStrategy
  <1>6. CASE PolishRecords
    BY <1>6, <1>s, CallKeeps DEF PolishRecords
  <1>7. CASE ExtractProjectIdentity
    <2>1. CASE Optional("identity", "retention")
      BY <2>1, SkipKeeps
    <2>2. CASE CallModelStep("identity", "retention") /\ durables' \in {TRUE, durables}
      BY <2>2, <1>d, <1>s, CallKeeps
    <2> QED BY <1>7, <2>1, <2>2 DEF ExtractProjectIdentity
  <1>8. CASE ApplyCodingRetention
    <2>1. CASE Optional("retention", "roles")
      BY <2>1, SkipKeeps
    <2>2. CASE CallModelStep("retention", "roles") /\ durables' \in BOOLEAN
      BY <2>2, <1>s, CallKeeps
    <2> QED BY <1>8, <2>1, <2>2 DEF ApplyCodingRetention
  <1>9. CASE AnnotateRecordRoles
    <2>1. CASE Optional("roles", "persist")
      BY <2>1, SkipKeeps
    <2>2. CASE CallModelStep("roles", "persist") /\ UNCHANGED durables
      BY <2>2, <1>d, <1>s, CallKeeps
    <2> QED BY <1>9, <2>1, <2>2 DEF AnnotateRecordRoles
  <1>10. CASE PersistRecords
    BY <1>10, SkipKeeps DEF PersistRecords
  <1>11. ASSUME NEW step \in MustBeMade, RequireBudget(step) \/ StepFails(step) PROVE IngestionInv'
    <2>1. step # "guard"
      BY DEF MustBeMade
    <2> QED BY <1>11, <2>1, EndKeeps
  <1>12. CASE ~GuardSpared /\ (RequireBudget("guard") \/ StepFails("guard"))
    BY <1>12, EndKeeps
  <1>13. ASSUME NEW step \in {"retention", "roles", "identity"}, StepFails(step) PROVE IngestionInv'
    <2>1. ~RequireBudget(step)
      BY <1>13 DEF StepFails, RequireBudget
    <2> QED BY <1>13, <2>1, EndKeeps
  <1>14. CASE UNCHANGED ingestionVars
    <2>0. UNCHANGED <<lengths, signalPack, doing, llmCalls, windows, durables, atSynthesis, retried, spent>>
      BY <1>14 DEF ingestionVars
    <2>1. IngestionTypeInv'
      BY <2>0 DEF IngestionInv, IngestionTypeInv, TraceInv, IngestionTypeOK, Lines
    <2>2. NextLine' = NextLine /\ Lines' = Lines
      BY <2>0 DEF NextLine, Lines
    <2>3. \A line \in 1..Lines : Holding(line)' = Holding(line)
      BY <2>0 DEF Holding
    <2>4. WindowsInv'
      BY <2>0, <2>2, <2>3 DEF IngestionInv, WindowsInv
    <2>5. ComputeRequestBudget' = ComputeRequestBudget /\ Coding' = Coding
      BY <2>0, SameBudget DEF Coding
    <2>6. RoomInv'
      BY <2>0, <2>5 DEF IngestionInv, RoomInv, GuardLeavesRoom
    <2> QED BY <2>1, <2>4, <2>6 DEF IngestionInv
  <1> QED BY <1>1, <1>2, <1>3, <1>4, <1>5, <1>6, <1>7, <1>8, <1>9, <1>10, <1>11, <1>12, <1>13, <1>14
          DEF IngestionNext

LEMMA IngestionHolds == IngestionSpec => []IngestionInv
  BY IngestionStart, IngestionStep, PTL DEF IngestionSpec

\* The steps of a run, its calls and its windows keep their types, for every
\* trace and every size of window.
THEOREM IngestionType == IngestionSpec => []IngestionTypeOK
  <1>1. IngestionInv => IngestionTypeOK
    BY DEF IngestionInv, IngestionTypeInv
  <1> QED BY <1>1, IngestionHolds, PTL

\* Once the scan is over every line of the trace has been in exactly one window,
\* for every trace, every window size and every choice between them.
THEOREM LinesScannedOnce == IngestionSpec => []EveryLineScanned
  <1>1. IngestionInv => EveryLineScanned
    <2> SUFFICES ASSUME IngestionInv, doing \notin {"scan", "failed"}, NEW line \in 1..Lines
                 PROVE  Cardinality(Holding(line)) = 1
      BY DEF EveryLineScanned, Holding
    <2>1. line < NextLine
      BY DEF IngestionInv, IngestionTypeInv, TraceInv, WindowsInv, Lines
    <2>2. PICK i \in DOMAIN windows : Holding(line) = {i}
      BY <2>1 DEF IngestionInv, WindowsInv
    <2> QED BY <2>2, FS_Singleton
  <1> QED BY <1>1, IngestionHolds, PTL

\* A coding trace that had two calls left after the synthesis gets through the
\* steps it must make, unless one of them was retried: for every budget.
THEOREM RoomIsLeft == IngestionSpec => []GuardLeavesRoom
  <1>1. IngestionInv => GuardLeavesRoom
    BY DEF IngestionInv, RoomInv
  <1> QED BY <1>1, IngestionHolds, PTL

-----------------------------------------------------------------------------
(* ContextLearning *)

(* What a learner is doing, in terms of the session it works on. *)
TasksFit ==
  \A w \in Learners :
    /\ phase[w] \in {"model", "persist", "check", "seeds"} => task[w] \in Traced
    /\ phase[w] = "persist" => run[w] \in 1..MaxRuns

(* A learner that has written its episode finds it in the store. *)
OwnEpisodeStored ==
  \A w \in Learners :
    phase[w] = "persist" /\ part[w] > 0 => Stored(<<task[w], run[w], 0>>)

(* The inventory of a pass holds records that were stored. *)
EvidenceStored == \A w \in Learners : \A id \in evidence[w] : Stored(id)

LearnFrame == LearnStateOK /\ TasksFit
LearnInv   == LearnFrame /\ OwnEpisodeStored /\ EvidenceStored /\ LearnedOnce

-----------------------------------------------------------------------------
(* Identifiers *)

LEMMA IdParts ==
  ASSUME NEW s \in Traced, NEW n \in 1..MaxRuns, NEW k \in 0..Durables
  PROVE  /\ <<s, n, k>> \in Ids
         /\ SessionOfId(<<s, n, k>>) = s
         /\ IsEpisode(<<s, n, k>>) <=> k = 0
  BY DEF Ids, SessionOfId, IsEpisode

LEMMA EpisodeIn ==
  ASSUME NEW s \in Traced, NEW n \in 1..MaxRuns, Stored(<<s, n, 0>>)
  PROVE  Episodes(s) # {}
  <1>1. 0 \in 0..Durables
    BY LearnAssumption
  <1> QED
    BY <1>1, IdParts DEF Episodes

-----------------------------------------------------------------------------
(* Types *)

LEMMA LearnInitial == LearnInit => LearnInv
  <1> SUFFICES ASSUME LearnInit PROVE LearnInv
    OBVIOUS
  <1> USE LearnAssumption DEF LearnInit
  <1>1. LearnStateOK
    BY DEF LearnStateOK
  <1>2. TasksFit /\ OwnEpisodeStored /\ EvidenceStored
    BY DEF TasksFit, OwnEpisodeStored, EvidenceStored
  <1>3. LearnedOnce
    BY DEF LearnedOnce, Stored
  <1> QED
    BY <1>1, <1>2, <1>3 DEF LearnInv, LearnFrame

LEMMA LeavesFits ==
  ASSUME LearnFrame, NEW w \in Learners, Leaves(w), UNCHANGED <<rec, runs, aged>>
  PROVE  LearnFrame'
  BY LearnAssumption DEF LearnFrame, LearnStateOK, TasksFit, Leaves

LEMMA LearnFrameNext == LearnFrame /\ [LearnNext]_learnVars => LearnFrame'
  <1> SUFFICES ASSUME LearnFrame, [LearnNext]_learnVars PROVE LearnFrame'
    OBVIOUS
  <1> USE LearnAssumption DEF LearnFrame, LearnStateOK, TasksFit, GoesTo
  <1>1. ASSUME NEW w \in Learners, NEW s \in Traced, Ingest(w, s) PROVE LearnFrame'
    BY <1>1 DEF Ingest
  <1>2. ASSUME NEW w \in Learners, Curate(w) PROVE LearnFrame'
    BY <1>2 DEF Curate
  <1>3. ASSUME NEW w \in Learners, ModelAnswers(w) PROVE LearnFrame'
    BY <1>3 DEF ModelAnswers
  <1>4. ASSUME NEW w \in Learners, ModelFails(w) PROVE LearnFrame'
    BY <1>4, LeavesFits DEF ModelFails
  <1>5. ASSUME NEW w \in Learners, SaveEpisode(w) PROVE LearnFrame'
    <2>1. task[w] \in Traced /\ <<task[w], run[w], 0>> \in Ids
      BY <1>5, IdParts DEF SaveEpisode
    <2>2. CASE Episodes(task[w]) # {}
      BY <1>5, <2>2 DEF SaveEpisode
    <2>3. CASE Episodes(task[w]) = {}
      <3>1. PICK st \in {"active", "archived"} :
              rec' = [rec EXCEPT ![<<task[w], run[w], 0>>] = [status |-> st, by |-> NoRecord]]
        BY <1>5, <2>3 DEF SaveEpisode
      <3>2. part' = [part EXCEPT ![w] = 1] /\ 1 \in 0..(Durables + 1)
        BY <1>5, <2>3 DEF SaveEpisode
      <3> QED
        BY <1>5, <2>1, <2>3, <3>1, <3>2 DEF SaveEpisode
    <2> QED
      BY <2>2, <2>3
  <1>6. ASSUME NEW w \in Learners, EpisodeFails(w) PROVE LearnFrame'
    BY <1>6 DEF EpisodeFails
  <1>7. ASSUME NEW w \in Learners, SaveDurable(w) PROVE LearnFrame'
    BY <1>7, IdParts DEF SaveDurable
  <1>8. ASSUME NEW w \in Learners, SaveEnds(w) PROVE LearnFrame'
    BY <1>8 DEF SaveEnds
  <1>9. ASSUME NEW w \in Learners, CountEpisodes(w) PROVE LearnFrame'
    BY <1>9, LeavesFits DEF CountEpisodes
  <1>10. ASSUME NEW w \in Learners, LoadSeeds(w) PROVE LearnFrame'
    BY SMTT(30), <1>10, LeavesFits DEF LoadSeeds, Active
  <1>11. ASSUME NEW w \in Learners, LoadInventory(w) PROVE LearnFrame'
    BY <1>11 DEF LoadInventory, Active
  <1>12. ASSUME NEW w \in Learners, NEW id \in evidence[w], ArchiveRecord(w, id) PROVE LearnFrame'
    BY <1>12 DEF ArchiveRecord, Applies
  <1>13. ASSUME NEW w \in Learners, NEW id \in evidence[w], ReviseRecord(w, id) PROVE LearnFrame'
    BY <1>13 DEF ReviseRecord, Applies
  <1>14. ASSUME NEW w \in Learners, NEW id \in evidence[w], NEW other \in evidence[w],
                SupersedeRecord(w, id, other)
         PROVE  LearnFrame'
    BY <1>14 DEF SupersedeRecord, Applies
  <1>15. ASSUME NEW w \in Learners, PassEnds(w) \/ LearnerDies(w) PROVE LearnFrame'
    BY <1>15, LeavesFits DEF PassEnds, LearnerDies
  <1>16. ASSUME NEW s \in Traced, DayPasses(s) PROVE LearnFrame'
    BY <1>16 DEF DayPasses, learners
  <1>17. CASE UNCHANGED learnVars
    BY <1>17 DEF learnVars, learners
  <1> QED
    BY <1>1, <1>2, <1>3, <1>4, <1>5, <1>6, <1>7, <1>8, <1>9, <1>10, <1>11, <1>12, <1>13,
       <1>14, <1>15, <1>16, <1>17 DEF LearnNext, LearnStep, Extraction, CuratorPass

-----------------------------------------------------------------------------
(* One extraction per session *)

(* A step that stores nothing new leaves the records of a session as they were *)
(* for LearnedOnce, which only asks what is stored.                            *)
LEMMA LearnedOnceKept ==
  ASSUME LearnedOnce, \A id \in Ids : Stored(id)' <=> Stored(id)
  PROVE  LearnedOnce'
  <1>1. \A s \in Traced : Episodes(s)' = Episodes(s)
    BY DEF Episodes
  <1>2. \A id \in Ids : SessionOfId(id) \in Traced
    BY DEF Ids, SessionOfId
  <1> QED
    BY <1>1, <1>2 DEF LearnedOnce

LEMMA SaveEpisodeInv ==
  ASSUME LearnInv, LearnFrame', NEW w \in Learners, SaveEpisode(w)
  PROVE  LearnInv'
  <1> USE DEF LearnInv
  <1> DEFINE s == task[w]
             new == <<s, run[w], 0>>
  <1>0. s \in Traced /\ run[w] \in 1..MaxRuns /\ new \in Ids /\ SessionOfId(new) = s
    BY LearnAssumption, IdParts DEF SaveEpisode, LearnFrame, TasksFit
  <1>1. CASE Episodes(s) # {}
    <2>1. UNCHANGED <<rec, run, task, part, evidence>> /\ phase' = [phase EXCEPT ![w] = "check"]
      BY <1>1 DEF SaveEpisode, GoesTo
    <2>2. LearnedOnce' /\ EvidenceStored'
      BY <2>1, LearnedOnceKept DEF Stored, EvidenceStored
    <2>3. OwnEpisodeStored'
      BY <2>1 DEF OwnEpisodeStored, Stored, LearnFrame, LearnStateOK
    <2> QED
      BY <2>2, <2>3
  <1>2. CASE Episodes(s) = {}
    <2>1. PICK st \in {"active", "archived"} :
            rec' = [rec EXCEPT ![new] = [status |-> st, by |-> NoRecord]]
      BY <1>2 DEF SaveEpisode
    <2>2. UNCHANGED <<phase, run, task, evidence>> /\ part' = [part EXCEPT ![w] = 1]
      BY <1>2 DEF SaveEpisode
    <2>3. \A id \in Ids : Stored(id)' <=> (id = new \/ Stored(id))
      BY <1>0, <2>1 DEF Stored, LearnFrame, LearnStateOK
    <2>4. \A id \in Ids : Stored(id) => SessionOfId(id) # s
      BY <1>2 DEF LearnedOnce
    <2>5. \A t \in Traced : Episodes(t) # {} => Episodes(t)' # {}
      BY <2>3 DEF Episodes
    <2>6. Episodes(s)' # {}
      BY <1>0, <2>2, <2>3 DEF Episodes, IsEpisode
    <2>7. LearnedOnce'
      <3> SUFFICES ASSUME NEW a \in Ids, NEW b \in Ids, Stored(a)', Stored(b)',
                          SessionOfId(a) = SessionOfId(b)
                   PROVE  a[2] = b[2] /\ Episodes(SessionOfId(a))' # {}
        BY DEF LearnedOnce
      <3>1. CASE a = new /\ b = new
        BY <1>0, <2>2, <2>6, <3>1
      <3>2. CASE a # new /\ b # new
        <4>1. SessionOfId(a) \in Traced
          BY DEF Ids, SessionOfId
        <4> QED
          BY <2>3, <2>5, <3>2, <4>1 DEF LearnedOnce
      <3> QED
        BY <1>0, <2>3, <2>4, <3>1, <3>2
    <2>8. OwnEpisodeStored'
      <3> SUFFICES ASSUME NEW v \in Learners, phase[v] = "persist", part'[v] > 0
                   PROVE  Stored(<<task[v], run[v], 0>>)'
        BY <2>2 DEF OwnEpisodeStored
      <3>1. CASE v = w
        BY <1>0, <2>2, <2>3, <3>1
      <3>2. CASE v # w
        <4>1. part'[v] = part[v]
          BY <2>2, <3>2 DEF LearnFrame, LearnStateOK
        <4>2. <<task[v], run[v], 0>> \in Ids
          BY LearnAssumption, IdParts DEF LearnFrame, TasksFit
        <4> QED
          BY <2>2, <2>3, <4>1, <4>2 DEF OwnEpisodeStored
      <3> QED
        BY <3>1, <3>2
    <2>9. EvidenceStored'
      BY <2>2, <2>3 DEF EvidenceStored, LearnFrame, LearnStateOK
    <2> QED
      BY <2>7, <2>8, <2>9
  <1> QED
    BY <1>1, <1>2

LEMMA SaveDurableInv ==
  ASSUME LearnInv, LearnFrame', NEW w \in Learners, SaveDurable(w)
  PROVE  LearnInv'
  <1> USE DEF LearnInv
  <1> DEFINE new == <<task[w], run[w], part[w]>>
             own == <<task[w], run[w], 0>>
  <1>0. /\ new \in Ids /\ own \in Ids /\ Stored(own)
        /\ SessionOfId(new) = task[w] /\ SessionOfId(own) = task[w]
    BY LearnAssumption, IdParts DEF SaveDurable, LearnFrame, TasksFit, OwnEpisodeStored
  <1>1. UNCHANGED <<phase, run, task, evidence>> /\ part' = [part EXCEPT ![w] = @ + 1]
    BY DEF SaveDurable
  <1>2. \A id \in Ids : Stored(id) => Stored(id)'
    BY <1>0 DEF SaveDurable, Stored, LearnFrame, LearnStateOK
  <1>3. \A id \in Ids : Stored(id)' => (id = new \/ Stored(id))
    BY <1>0 DEF SaveDurable, Stored, LearnFrame, LearnStateOK
  <1>4. LearnedOnce'
    <2> SUFFICES ASSUME NEW a \in Ids, NEW b \in Ids, Stored(a)', Stored(b)',
                        SessionOfId(a) = SessionOfId(b)
                 PROVE  a[2] = b[2] /\ Episodes(SessionOfId(a))' # {}
      BY DEF LearnedOnce
    <2> DEFINE like(id) == IF id = new THEN own ELSE id
    <2>1. /\ like(a) \in Ids /\ Stored(like(a)) /\ SessionOfId(like(a)) = SessionOfId(a)
          /\ like(a)[2] = a[2]
      BY <1>0, <1>3
    <2>2. /\ like(b) \in Ids /\ Stored(like(b)) /\ SessionOfId(like(b)) = SessionOfId(b)
          /\ like(b)[2] = b[2]
      BY <1>0, <1>3
    <2> HIDE DEF like
    <2>3. a[2] = b[2] /\ Episodes(SessionOfId(a)) # {}
      BY <2>1, <2>2 DEF LearnedOnce
    <2> QED
      BY <1>2, <2>3 DEF Episodes
  <1>5. OwnEpisodeStored'
    <2> SUFFICES ASSUME NEW v \in Learners, phase[v] = "persist", part'[v] > 0
                 PROVE  Stored(<<task[v], run[v], 0>>)'
      BY <1>1 DEF OwnEpisodeStored
    <2>1. <<task[v], run[v], 0>> \in Ids
      BY LearnAssumption, IdParts DEF LearnFrame, TasksFit
    <2>2. part[v] > 0
      BY <1>1 DEF SaveDurable, LearnFrame, LearnStateOK
    <2> QED
      BY <1>1, <1>2, <2>1, <2>2 DEF OwnEpisodeStored
  <1>6. EvidenceStored'
    BY <1>1, <1>2 DEF EvidenceStored, LearnFrame, LearnStateOK
  <1> QED
    BY <1>4, <1>5, <1>6

(* A step that stores nothing new and keeps or clears what learners know. *)
LEMMA QuietStep ==
  ASSUME LearnInv, LearnFrame',
         \A id \in Ids : Stored(id)' <=> Stored(id),
         NEW w \in Learners,
         \A v \in Learners \ {w} :
           /\ phase'[v] = phase[v] /\ task'[v] = task[v] /\ run'[v] = run[v]
           /\ part'[v] = part[v] /\ evidence'[v] = evidence[v],
         phase'[w] = "persist" => part'[w] = 0 \/ UNCHANGED <<phase, task, run, part>>,
         \A id \in evidence'[w] : Stored(id)
  PROVE  LearnInv'
  <1>1. LearnedOnce'
    BY LearnedOnceKept DEF LearnInv
  <1>2. OwnEpisodeStored'
    <2> SUFFICES ASSUME NEW v \in Learners, phase'[v] = "persist", part'[v] > 0
                 PROVE  Stored(<<task[v], run[v], 0>>)'
      BY DEF OwnEpisodeStored
    <2>1. task'[v] = task[v] /\ run'[v] = run[v] /\ part'[v] = part[v] /\ phase'[v] = phase[v]
      OBVIOUS
    <2>2. <<task[v], run[v], 0>> \in Ids
      BY <2>1, LearnAssumption, IdParts DEF LearnInv, LearnFrame, TasksFit
    <2> QED
      BY <2>1, <2>2 DEF LearnInv, OwnEpisodeStored
  <1>3. EvidenceStored'
    BY DEF LearnInv, EvidenceStored, LearnFrame, LearnStateOK
  <1> QED
    BY <1>1, <1>2, <1>3 DEF LearnInv

LEMMA CurationInv ==
  ASSUME LearnInv, LearnFrame', NEW w \in Learners, NEW id \in evidence[w],
         \/ ArchiveRecord(w, id)
         \/ ReviseRecord(w, id)
         \/ \E other \in evidence[w] : SupersedeRecord(w, id, other)
  PROVE  LearnInv'
  <1>1. id \in Ids /\ Stored(id)
    BY DEF LearnInv, LearnFrame, LearnStateOK, EvidenceStored
  <1>2. \A i \in Ids : Stored(i)' <=> Stored(i)
    BY SMTT(30), <1>1 DEF LearnInv, LearnFrame, LearnStateOK, Stored, ArchiveRecord, ReviseRecord, SupersedeRecord
  <1>3. UNCHANGED <<phase, task, run, part, evidence>>
    BY DEF ArchiveRecord, ReviseRecord, SupersedeRecord, Applies
  <1> QED
    BY <1>2, <1>3, QuietStep DEF LearnInv, EvidenceStored

LEMMA LearnInvNext == LearnInv /\ [LearnNext]_learnVars => LearnInv'
  <1> SUFFICES ASSUME LearnInv, [LearnNext]_learnVars PROVE LearnInv'
    OBVIOUS
  <1>0. LearnFrame'
    BY LearnFrameNext DEF LearnInv
  <1>a. rec' = rec => \A id \in Ids : Stored(id)' <=> Stored(id)
    BY DEF Stored
  <1>b. ASSUME NEW w \in Learners PROVE \A id \in evidence[w] : Stored(id)
    BY DEF LearnInv, EvidenceStored
  <1>c. ASSUME NEW w \in Learners, Leaves(w), UNCHANGED rec PROVE LearnInv'
    BY <1>0, <1>a, <1>c, QuietStep DEF Leaves, LearnInv, LearnFrame, LearnStateOK
  <1>1. ASSUME NEW w \in Learners, NEW s \in Traced, Ingest(w, s) PROVE LearnInv'
    BY <1>0, <1>a, <1>b, <1>1, QuietStep DEF Ingest, GoesTo, LearnInv, LearnFrame, LearnStateOK
  <1>2. ASSUME NEW w \in Learners, Curate(w) PROVE LearnInv'
    BY <1>0, <1>a, <1>b, <1>2, QuietStep DEF Curate, GoesTo, LearnInv, LearnFrame, LearnStateOK
  <1>3. ASSUME NEW w \in Learners, ModelAnswers(w) PROVE LearnInv'
    BY <1>0, <1>a, <1>b, <1>3, QuietStep DEF ModelAnswers, GoesTo, LearnInv, LearnFrame, LearnStateOK
  <1>4. ASSUME NEW w \in Learners, ModelFails(w) PROVE LearnInv'
    BY <1>0, <1>a, <1>b, <1>c, <1>4, QuietStep DEF ModelFails, LearnInv, LearnFrame, LearnStateOK
  <1>5. ASSUME NEW w \in Learners, SaveEpisode(w) PROVE LearnInv'
    BY <1>0, <1>5, SaveEpisodeInv
  <1>6. ASSUME NEW w \in Learners, EpisodeFails(w) \/ SaveEnds(w) PROVE LearnInv'
    BY <1>0, <1>a, <1>b, <1>6, QuietStep
       DEF EpisodeFails, SaveEnds, GoesTo, LearnInv, LearnFrame, LearnStateOK
  <1>7. ASSUME NEW w \in Learners, SaveDurable(w) PROVE LearnInv'
    BY <1>0, <1>7, SaveDurableInv
  <1>8. ASSUME NEW w \in Learners, CountEpisodes(w) PROVE LearnInv'
    BY <1>0, <1>a, <1>b, <1>c, <1>8, QuietStep
       DEF CountEpisodes, GoesTo, LearnInv, LearnFrame, LearnStateOK
  <1>9. ASSUME NEW w \in Learners, LoadSeeds(w) PROVE LearnInv'
    BY <1>0, <1>a, <1>b, <1>c, <1>9, QuietStep
       DEF LoadSeeds, GoesTo, LearnInv, LearnFrame, LearnStateOK
  <1>10. ASSUME NEW w \in Learners, LoadInventory(w) PROVE LearnInv'
    <2>1. PICK near \in SUBSET Active : evidence' = [evidence EXCEPT ![w] = near]
      BY <1>10 DEF LoadInventory
    <2>2. \A id \in near : Stored(id)
      BY DEF Active, Stored
    <2> QED
      BY <1>0, <1>a, <1>10, <2>1, <2>2, QuietStep
         DEF LoadInventory, GoesTo, LearnInv, LearnFrame, LearnStateOK
  <1>11. ASSUME NEW w \in Learners, NEW id \in evidence[w],
                \/ ArchiveRecord(w, id)
                \/ ReviseRecord(w, id)
                \/ \E other \in evidence[w] : SupersedeRecord(w, id, other)
         PROVE  LearnInv'
    BY <1>0, <1>11, CurationInv
  <1>12. ASSUME NEW w \in Learners, PassEnds(w) \/ LearnerDies(w) PROVE LearnInv'
    BY <1>c, <1>12 DEF PassEnds, LearnerDies
  <1>13. ASSUME UNCHANGED <<rec, phase, task, run, part, evidence>> PROVE LearnInv'
    BY <1>0, <1>a, <1>13, LearnedOnceKept DEF LearnInv, OwnEpisodeStored, EvidenceStored, Stored
  <1>14. ASSUME NEW s \in Traced, DayPasses(s) PROVE LearnInv'
    BY <1>13, <1>14 DEF DayPasses, learners
  <1>15. CASE UNCHANGED learnVars
    BY <1>13, <1>15 DEF learnVars, learners
  <1> QED
    BY <1>1, <1>2, <1>3, <1>4, <1>5, <1>6, <1>7, <1>8, <1>9, <1>10, <1>11, <1>12, <1>14, <1>15
       DEF LearnNext, LearnStep, Extraction, CuratorPass

(* Types hold with any number of learners, also several on one session. *)
THEOREM LearnTypeCorrect == LearnSpec => []LearnTypeOK
  <1>1. LearnInit => LearnFrame /\ undecided \in [Ids -> SUBSET Learners]
    BY LearnInitial DEF LearnInv, LearnInit
  <1>2. LearnFrame /\ [LearnNext]_learnVars => LearnFrame'
    BY LearnFrameNext
  <1>3. undecided \in [Ids -> SUBSET Learners] /\ [LearnNext]_learnVars =>
          (undecided \in [Ids -> SUBSET Learners])'
    BY DEF LearnNext, NoteArchived, MayDecide, learnVars
  <1>4. LearnFrame /\ undecided \in [Ids -> SUBSET Learners] => LearnTypeOK
    BY DEF LearnFrame, LearnTypeOK
  <1> QED
    BY <1>1, <1>2, <1>3, <1>4, PTL DEF LearnSpec

(* The records of a session come from one extraction, with its episode: for any *)
(* number of learners on a session, crashes, retries and curator passes.        *)
THEOREM SessionLearnedOnce == LearnSpec => []LearnedOnce
  <1>1. LearnInit => LearnInv
    BY LearnInitial
  <1>2. LearnInv /\ [LearnNext]_learnVars => LearnInv'
    BY LearnInvNext
  <1>3. LearnInv => LearnedOnce
    BY DEF LearnInv
  <1> QED
    BY <1>1, <1>2, <1>3, PTL DEF LearnSpec

-----------------------------------------------------------------------------
(* Every record is written once *)

(* The numbers of the extractions that write: each session counts its own,   *)
(* and no two learners have the same.                                        *)
RunsCounted ==
  /\ \A id \in Ids : Stored(id) => id[2] <= runs[SessionOfId(id)]
  /\ \A w \in Learners : phase[w] = "persist" => run[w] <= runs[task[w]]
  /\ \A v, w \in Learners :
       phase[v] = "persist" /\ phase[w] = "persist" /\ task[v] = task[w] /\ run[v] = run[w]
         => v = w

(* What an extraction writes next is not there yet. *)
NextUnwritten ==
  \A w \in Learners : phase[w] = "persist" =>
    \A k \in 0..Durables : k >= part[w] => ~Stored(<<task[w], run[w], k>>)

WriteInv == LearnInv /\ RunsCounted /\ NextUnwritten

LEMMA WriteInitial == LearnInit => WriteInv
  BY LearnInitial DEF LearnInit, WriteInv, RunsCounted, NextUnwritten, Stored

(* A step that writes no record and begins no extraction. *)
LEMMA NothingWritten ==
  ASSUME WriteInv, LearnInv', runs' = runs, \A id \in Ids : Stored(id)' <=> Stored(id),
         \A w \in Learners : phase'[w] = "persist" =>
           phase[w] = "persist" /\ task'[w] = task[w] /\ run'[w] = run[w] /\ part'[w] = part[w]
  PROVE  WriteInv'
  <1>1. RunsCounted'
    BY DEF WriteInv, RunsCounted
  <1>2. NextUnwritten'
    <2> SUFFICES ASSUME NEW w \in Learners, phase'[w] = "persist",
                        NEW k \in 0..Durables, k >= part'[w]
                 PROVE  ~Stored(<<task[w], run[w], k>>)'
      BY DEF NextUnwritten
    <2>1. /\ phase[w] = "persist" /\ task'[w] = task[w] /\ run'[w] = run[w] /\ part'[w] = part[w]
      OBVIOUS
    <2>2. <<task[w], run[w], k>> \in Ids
      BY <2>1, IdParts DEF WriteInv, LearnInv, LearnFrame, TasksFit
    <2> QED
      BY <2>1, <2>2 DEF WriteInv, NextUnwritten
  <1> QED
    BY <1>1, <1>2 DEF WriteInv

(* A record that an extraction writes as the next of its own. *)
LEMMA OneWritten ==
  ASSUME WriteInv, LearnInv', NEW w \in Learners, phase[w] = "persist", part[w] \in 0..Durables,
         UNCHANGED <<runs, phase, task, run>>, part' = [part EXCEPT ![w] = @ + 1],
         \A id \in Ids : Stored(id)' => Stored(id) \/ id = <<task[w], run[w], part[w]>>
  PROVE  WriteInv'
  <1> DEFINE new == <<task[w], run[w], part[w]>>
  <1>1. task[w] \in Traced /\ run[w] \in 1..MaxRuns /\ run[w] <= runs[task[w]]
    BY DEF WriteInv, LearnInv, LearnFrame, TasksFit, RunsCounted
  <1>2. new \in Ids /\ SessionOfId(new) = task[w] /\ new[2] = run[w]
    BY <1>1, IdParts
  <1>3. RunsCounted'
    BY <1>1, <1>2 DEF WriteInv, RunsCounted
  <1>4. NextUnwritten'
    <2> SUFFICES ASSUME NEW v \in Learners, phase[v] = "persist",
                        NEW k \in 0..Durables, k >= part'[v]
                 PROVE  ~Stored(<<task[v], run[v], k>>)'
      BY DEF NextUnwritten
    <2> DEFINE next == <<task[v], run[v], k>>
    <2>1. next \in Ids
      BY IdParts DEF WriteInv, LearnInv, LearnFrame, TasksFit
    <2>2. part[w] \in Nat /\ part[v] \in Nat /\ k >= part[v] /\ (v = w => k > part[w])
      BY DEF WriteInv, LearnInv, LearnFrame, LearnStateOK
    <2>3. ~Stored(next)
      BY <2>2 DEF WriteInv, NextUnwritten
    <2>4. next # new
      BY <2>2 DEF WriteInv, RunsCounted
    <2> QED
      BY <2>1, <2>3, <2>4
  <1> QED
    BY <1>3, <1>4 DEF WriteInv

LEMMA NextIsNew ==
  ASSUME WriteInv, NEW w \in Learners, phase[w] = "persist", part[w] \in 0..Durables
  PROVE  LET new == <<task[w], run[w], part[w]>> IN new \in Ids /\ ~Stored(new)
  <1>1. task[w] \in Traced /\ run[w] \in 1..MaxRuns
    BY DEF WriteInv, LearnInv, LearnFrame, TasksFit
  <1>2. \A k \in 0..Durables : k >= part[w] => ~Stored(<<task[w], run[w], k>>)
    BY DEF WriteInv, NextUnwritten
  <1>3. part[w] >= part[w]
    OBVIOUS
  <1> QED
    BY <1>1, <1>2, <1>3, IdParts

LEMMA AnswersInv ==
  ASSUME WriteInv, LearnInv', NEW w \in Learners, ModelAnswers(w)
  PROVE  WriteInv'
  <1> DEFINE s == task[w]
  <1>1. s \in Traced /\ runs[s] \in 0..MaxRuns
    BY DEF ModelAnswers, WriteInv, LearnInv, LearnFrame, LearnStateOK, TasksFit
  <1>2. /\ runs' = [runs EXCEPT ![s] = @ + 1] /\ run' = [run EXCEPT ![w] = runs[s] + 1]
        /\ part' = [part EXCEPT ![w] = 0] /\ phase' = [phase EXCEPT ![w] = "persist"]
        /\ UNCHANGED <<rec, task>> /\ phase[w] = "model" /\ runs[s] < MaxRuns
    BY DEF ModelAnswers, GoesTo
  <1>3. /\ runs'[s] = runs[s] + 1 /\ \A t \in Traced \ {s} : runs'[t] = runs[t]
        /\ run'[w] = runs[s] + 1 /\ phase'[w] = "persist"
        /\ \A v \in Learners \ {w} :
             run'[v] = run[v] /\ part'[v] = part[v] /\ phase'[v] = phase[v]
    BY <1>1, <1>2 DEF WriteInv, LearnInv, LearnFrame, LearnStateOK
  <1>4. \A t \in Traced : runs[t] \in Nat /\ runs[t] <= runs'[t]
    BY <1>1, <1>3 DEF WriteInv, LearnInv, LearnFrame, LearnStateOK
  <1>5. \A id \in Ids : SessionOfId(id) \in Traced /\ id[2] \in Nat
    BY DEF Ids, SessionOfId
  <1>6. \A id \in Ids : Stored(id)' <=> Stored(id)
    BY <1>2 DEF Stored
  <1>7. RunsCounted'
    <2>1. ASSUME NEW id \in Ids, Stored(id)' PROVE id[2] <= runs'[SessionOfId(id)]
      <3>1. id[2] <= runs[SessionOfId(id)]
        BY <1>6, <2>1 DEF WriteInv, RunsCounted
      <3>2. runs'[SessionOfId(id)] \in Nat
        BY <1>1, <1>3, <1>4, <1>5
      <3> QED
        BY <1>4, <1>5, <3>1, <3>2
    <2>2. ASSUME NEW v \in Learners, phase'[v] = "persist"
          PROVE run'[v] <= runs'[task[v]] /\ (v # w /\ task[v] = s => run'[v] <= runs[s])
      <3>1. CASE v = w
        BY <1>1, <1>3, <3>1
      <3>2. CASE v # w
        <4>1. run[v] <= runs[task[v]] /\ task[v] \in Traced /\ run[v] \in Nat
          BY <1>3, <2>2, <3>2 DEF WriteInv, RunsCounted, LearnInv, LearnFrame, TasksFit
        <4>2. runs'[task[v]] \in Nat
          BY <1>1, <1>3, <1>4, <4>1
        <4> QED
          BY <1>3, <1>4, <3>2, <4>1, <4>2
      <3> QED
        BY <3>1, <3>2
    <2>3. ASSUME NEW u \in Learners, NEW v \in Learners, phase'[u] = "persist",
                 phase'[v] = "persist", task[u] = task[v], run'[u] = run'[v]
          PROVE  u = v
      <3>1. CASE u # w /\ v # w
        BY <1>3, <2>3, <3>1 DEF WriteInv, RunsCounted
      <3>2. CASE u = w /\ v # w
        BY <1>1, <1>3, <2>2, <2>3, <3>2
      <3>3. CASE u # w /\ v = w
        BY <1>1, <1>3, <2>2, <2>3, <3>3
      <3> QED
        BY <3>1, <3>2, <3>3
    <2> QED
      BY <1>2, <2>1, <2>2, <2>3 DEF RunsCounted
  <1>8. NextUnwritten'
    <2> SUFFICES ASSUME NEW v \in Learners, phase'[v] = "persist",
                        NEW k \in 0..Durables, k >= part'[v]
                 PROVE  ~Stored(<<task[v], run'[v], k>>)
      BY <1>2 DEF NextUnwritten, Stored
    <2>1. CASE v = w
      <3>1. runs[s] + 1 \in 1..MaxRuns
        BY <1>1, <1>2, LearnAssumption
      <3>2. <<s, runs[s] + 1, k>> \in Ids /\ SessionOfId(<<s, runs[s] + 1, k>>) = s
        BY <1>1, <3>1, IdParts
      <3>3. Stored(<<s, runs[s] + 1, k>>) => runs[s] + 1 <= runs[s]
        BY <3>2 DEF WriteInv, RunsCounted
      <3> QED
        BY <1>1, <1>3, <2>1, <3>3
    <2>2. CASE v # w
      BY <1>3, <2>2 DEF WriteInv, NextUnwritten
    <2> QED
      BY <2>1, <2>2
  <1> QED
    BY <1>7, <1>8 DEF WriteInv

LEMMA CurationStores ==
  ASSUME LearnInv, NEW w \in Learners, NEW id \in evidence[w],
         \/ ArchiveRecord(w, id)
         \/ ReviseRecord(w, id)
         \/ \E other \in evidence[w] : SupersedeRecord(w, id, other)
  PROVE  /\ \A i \in Ids : Stored(i)' <=> Stored(i)
         /\ UNCHANGED <<runs, phase, task, run, part, seeds, aged>>
  <1>1. id \in Ids /\ Stored(id)
    BY DEF LearnInv, LearnFrame, LearnStateOK, EvidenceStored
  <1>2. \A i \in Ids : Stored(i)' <=> Stored(i)
    BY <1>1 DEF LearnInv, LearnFrame, LearnStateOK, Stored, ArchiveRecord, ReviseRecord, SupersedeRecord
  <1> QED
    BY <1>2 DEF ArchiveRecord, ReviseRecord, SupersedeRecord, Applies

LEMMA WriteInvNext == WriteInv /\ [LearnNext]_learnVars => WriteInv'
  <1> SUFFICES ASSUME WriteInv, [LearnNext]_learnVars PROVE WriteInv'
    OBVIOUS
  <1>0. LearnInv'
    BY LearnInvNext DEF WriteInv
  <1>a. rec' = rec => \A id \in Ids : Stored(id)' <=> Stored(id)
    BY DEF Stored
  <1> USE DEF LearnInv, LearnFrame, LearnStateOK, GoesTo
  <1>b. ASSUME NEW w \in Learners, Leaves(w), UNCHANGED <<rec, runs>> PROVE WriteInv'
    BY <1>0, <1>a, <1>b, NothingWritten DEF Leaves, WriteInv
  <1>1. ASSUME NEW w \in Learners, NEW s \in Traced, Ingest(w, s) PROVE WriteInv'
    BY <1>0, <1>a, <1>1, NothingWritten DEF Ingest, WriteInv
  <1>2. ASSUME NEW w \in Learners, Curate(w) PROVE WriteInv'
    BY <1>0, <1>a, <1>2, NothingWritten DEF Curate, WriteInv
  <1>3. ASSUME NEW w \in Learners, ModelAnswers(w) PROVE WriteInv'
    BY <1>0, <1>3, AnswersInv
  <1>4. ASSUME NEW w \in Learners, ModelFails(w) PROVE WriteInv'
    BY <1>0, <1>a, <1>b, <1>4, NothingWritten DEF ModelFails, WriteInv
  <1>5. ASSUME NEW w \in Learners, SaveEpisode(w) PROVE WriteInv'
    <2>1. CASE Episodes(task[w]) # {}
      BY <1>0, <1>a, <1>5, <2>1, NothingWritten DEF SaveEpisode, WriteInv
    <2>2. CASE Episodes(task[w]) = {}
      <3>1. PICK st \in {"active", "archived"} :
              rec' = [rec EXCEPT ![<<task[w], run[w], 0>>] = [status |-> st, by |-> NoRecord]]
        BY <1>5, <2>2 DEF SaveEpisode
      <3>2. /\ phase[w] = "persist" /\ part[w] = 0 /\ UNCHANGED <<runs, phase, task, run>>
            /\ part' = [part EXCEPT ![w] = @ + 1] /\ part[w] \in 0..Durables
        BY <1>5, <2>2, LearnAssumption DEF SaveEpisode, WriteInv
      <3>3. \A id \in Ids : Stored(id)' => Stored(id) \/ id = <<task[w], run[w], part[w]>>
        BY <3>1, <3>2 DEF WriteInv, Stored
      <3> QED
        BY <1>0, <3>2, <3>3, OneWritten
    <2> QED
      BY <2>1, <2>2
  <1>6. ASSUME NEW w \in Learners, EpisodeFails(w) \/ SaveEnds(w) PROVE WriteInv'
    BY <1>0, <1>a, <1>6, NothingWritten DEF EpisodeFails, SaveEnds, WriteInv
  <1>7. ASSUME NEW w \in Learners, SaveDurable(w) PROVE WriteInv'
    <2>1. /\ phase[w] = "persist" /\ UNCHANGED <<runs, phase, task, run>>
          /\ part' = [part EXCEPT ![w] = @ + 1] /\ part[w] \in 0..Durables
      BY <1>7, LearnAssumption DEF SaveDurable
    <2>2. \A id \in Ids : Stored(id)' => Stored(id) \/ id = <<task[w], run[w], part[w]>>
      BY <1>7 DEF SaveDurable, WriteInv, Stored
    <2> QED
      BY <1>0, <2>1, <2>2, OneWritten
  <1>8. ASSUME NEW w \in Learners, CountEpisodes(w) PROVE WriteInv'
    BY <1>0, <1>a, <1>b, <1>8, NothingWritten DEF CountEpisodes, WriteInv
  <1>9. ASSUME NEW w \in Learners, LoadSeeds(w) PROVE WriteInv'
    BY <1>0, <1>a, <1>b, <1>9, NothingWritten DEF LoadSeeds, WriteInv
  <1>10. ASSUME NEW w \in Learners, LoadInventory(w) PROVE WriteInv'
    BY <1>0, <1>a, <1>10, NothingWritten DEF LoadInventory, WriteInv
  <1>11. ASSUME NEW w \in Learners, NEW id \in evidence[w],
                \/ ArchiveRecord(w, id)
                \/ ReviseRecord(w, id)
                \/ \E other \in evidence[w] : SupersedeRecord(w, id, other)
         PROVE  WriteInv'
    <2>1. /\ \A i \in Ids : Stored(i)' <=> Stored(i)
          /\ UNCHANGED <<runs, phase, task, run, part>>
      BY <1>11, CurationStores DEF WriteInv
    <2> QED
      BY <1>0, <2>1, NothingWritten
  <1>12. ASSUME NEW w \in Learners, PassEnds(w) \/ LearnerDies(w) PROVE WriteInv'
    BY <1>b, <1>12 DEF PassEnds, LearnerDies
  <1>13. ASSUME UNCHANGED <<rec, runs, phase, task, run, part>> PROVE WriteInv'
    BY <1>0, <1>a, <1>13, NothingWritten
  <1>14. ASSUME NEW s \in Traced, DayPasses(s) PROVE WriteInv'
    BY <1>13, <1>14 DEF DayPasses, learners
  <1>15. CASE UNCHANGED learnVars
    BY <1>13, <1>15 DEF learnVars, learners
  <1> QED
    BY <1>1, <1>2, <1>3, <1>4, <1>5, <1>6, <1>7, <1>8, <1>9, <1>10, <1>11, <1>12, <1>14, <1>15
       DEF LearnNext, LearnStep, Extraction, CuratorPass

-----------------------------------------------------------------------------
(* How an archived record comes back *)

(* The passes that may still act on an archived record were there when it was *)
(* archived.                                                                  *)
HistoryKept == \A id \in Ids : rec[id].status = "archived" => MayDecide(id) \subseteq undecided[id]

(* An archived record is no longer active, so no inventory takes it in.       *)
LEMMA NoneJoins ==
  ASSUME WriteInv, LearnStep, NEW i \in Ids, rec[i].status = "archived"
  PROVE  MayDecide(i)' \subseteq MayDecide(i)
  <1> USE DEF LearnInv, LearnFrame, LearnStateOK, WriteInv
  <1>a. ASSUME NEW w \in Learners, Leaves(w) PROVE MayDecide(i)' \subseteq MayDecide(i)
    BY <1>a DEF Leaves, MayDecide
  <1>b. ASSUME UNCHANGED <<evidence, touched>> PROVE MayDecide(i)' \subseteq MayDecide(i)
    BY <1>b DEF MayDecide
  <1>1. ASSUME NEW w \in Learners, LoadInventory(w) PROVE MayDecide(i)' \subseteq MayDecide(i)
    <2>1. PICK near \in SUBSET Active : evidence' = [evidence EXCEPT ![w] = near]
      BY <1>1 DEF LoadInventory
    <2>2. i \notin near
      BY <2>1 DEF Active
    <2> QED
      BY <1>1, <2>1, <2>2 DEF LoadInventory, MayDecide
  <1>2. ASSUME NEW w \in Learners, NEW id \in evidence[w],
               \/ ArchiveRecord(w, id)
               \/ ReviseRecord(w, id)
               \/ \E other \in evidence[w] : SupersedeRecord(w, id, other)
        PROVE  MayDecide(i)' \subseteq MayDecide(i)
    BY <1>2 DEF ArchiveRecord, ReviseRecord, SupersedeRecord, Applies, MayDecide
  <1>3. ASSUME NEW w \in Learners,
               ModelFails(w) \/ CountEpisodes(w) \/ LoadSeeds(w) \/ PassEnds(w) \/ LearnerDies(w)
        PROVE  MayDecide(i)' \subseteq MayDecide(i)
    BY <1>a, <1>b, <1>3 DEF ModelFails, CountEpisodes, LoadSeeds, PassEnds, LearnerDies
  <1> QED
    BY <1>b, <1>1, <1>2, <1>3
       DEF LearnStep, Extraction, CuratorPass, Ingest, Curate, ModelAnswers, SaveEpisode,
           SaveDurable, EpisodeFails, SaveEnds, DayPasses, learners

LEMMA HistoryNext ==
  ASSUME WriteInv, HistoryKept, [LearnNext]_learnVars
  PROVE  HistoryKept'
  <1>1. ASSUME LearnNext, NEW i \in Ids, rec'[i].status = "archived"
        PROVE  MayDecide(i)' \subseteq undecided'[i]
    <2>1. CASE rec[i].status = "archived"
      <3>1. MayDecide(i)' \subseteq MayDecide(i) /\ MayDecide(i) \subseteq undecided[i]
        BY <1>1, <2>1, NoneJoins DEF LearnNext, HistoryKept
      <3>2. undecided'[i] = MayDecide(i)' \intersect undecided[i]
        BY <1>1, <2>1 DEF LearnNext, NoteArchived
      <3> QED
        BY <3>1, <3>2
    <2>2. CASE rec[i].status # "archived"
      <3>1. undecided'[i] = MayDecide(i)' \intersect Learners
        BY <1>1, <2>2 DEF LearnNext, NoteArchived
      <3> QED
        BY <3>1 DEF MayDecide
    <2> QED
      BY <2>1, <2>2
  <1>2. CASE UNCHANGED learnVars
    BY <1>2 DEF learnVars, learners, HistoryKept, MayDecide
  <1> QED
    BY <1>1, <1>2 DEF HistoryKept

LEMMA ArchivedStep ==
  ASSUME WriteInv, HistoryKept, [LearnNext]_learnVars,
         NEW i \in Ids, rec[i].status = "archived", rec'[i].status # "archived"
  PROVE  \E w \in undecided[i] : i \in touched'[w]
  <1>0. Stored(i)
    BY DEF Stored
  <1> USE DEF LearnInv, LearnFrame, LearnStateOK
  <1>1. ASSUME NEW w \in Learners, SaveEpisode(w) PROVE FALSE
    <2>1. phase[w] = "persist" /\ part[w] = 0 /\ part[w] \in 0..Durables
      BY <1>1, LearnAssumption DEF SaveEpisode
    <2>2. i # <<task[w], run[w], 0>>
      BY <1>0, <2>1, NextIsNew
    <2> QED
      BY <1>1, <2>2 DEF SaveEpisode, WriteInv
  <1>2. ASSUME NEW w \in Learners, SaveDurable(w) PROVE FALSE
    <2>1. phase[w] = "persist" /\ part[w] \in 0..Durables
      BY <1>2, LearnAssumption DEF SaveDurable
    <2>2. i # <<task[w], run[w], part[w]>>
      BY <1>0, <2>1, NextIsNew
    <2> QED
      BY <1>2, <2>2 DEF SaveDurable, WriteInv
  <1>3. ASSUME NEW w \in Learners, NEW id \in evidence[w],
               \/ ArchiveRecord(w, id)
               \/ ReviseRecord(w, id)
               \/ \E other \in evidence[w] : SupersedeRecord(w, id, other)
        PROVE  \E v \in undecided[i] : i \in touched'[v]
    <2>1. id \in Ids /\ w \in MayDecide(id) /\ id \in touched'[w]
      BY <1>3 DEF ArchiveRecord, ReviseRecord, SupersedeRecord, Applies, MayDecide, WriteInv
    <2>2. i = id
      BY <1>3, <2>1 DEF ArchiveRecord, ReviseRecord, SupersedeRecord, WriteInv
    <2> QED
      BY <2>1, <2>2 DEF HistoryKept
  <1>4. ASSUME UNCHANGED rec PROVE FALSE
    BY <1>4
  <1> QED
    BY <1>1, <1>2, <1>3, <1>4
       DEF LearnNext, LearnStep, Extraction, CuratorPass, Ingest, Curate, ModelAnswers, ModelFails,
           EpisodeFails, SaveEnds, CountEpisodes, LoadSeeds, LoadInventory, PassEnds,
           LearnerDies, DayPasses, learnVars

(* ArchivedStays for every instance, whatever happens between the inventory  *)
(* of a pass and its actions: only a pass that was under way when a record   *)
(* was archived, and had not acted on it, revives it by a revision; no later *)
(* pass and no extraction does (_validate_action and                         *)
(* ContextStore.create_record, update_record).                               *)
THEOREM ArchivedIsKept == LearnSpec => ArchivedStays
  <1>1. LearnInit => WriteInv /\ HistoryKept
    BY WriteInitial DEF LearnInit, HistoryKept
  <1>2. WriteInv /\ HistoryKept /\ [LearnNext]_learnVars => (WriteInv /\ HistoryKept)'
    BY WriteInvNext, HistoryNext
  <1>3. WriteInv /\ HistoryKept /\ [LearnNext]_learnVars =>
          [\A id \in Ids : rec[id].status = "archived" /\ rec'[id].status # "archived" =>
             \E w \in undecided[id] : id \in touched'[w]]_learnVars
    BY ArchivedStep
  <1> QED
    BY <1>1, <1>2, <1>3, PTL DEF LearnSpec, ArchivedStays

-----------------------------------------------------------------------------
(* The pass of an extraction spares its records *)

(* The records of a reconciling pass are durable ones of its session, which   *)
(* is not a day old.                                                          *)
SeedsOfTask ==
  \A w \in Learners : \A id \in seeds[w] : SessionOfId(id) = task[w] /\ ~IsEpisode(id)
SeedsInPass == \A w \in Learners : seeds[w] = {} \/ phase[w] \in {"inventory", "apply"}
TaskIsNew == \A w \in Learners : task[w] \notin aged

SeedInv == LearnStateOK /\ SeedsOfTask /\ SeedsInPass /\ TaskIsNew

LEMMA SeedInitial == LearnInit => SeedInv
  BY LearnInitial DEF LearnInit, SeedInv, SeedsOfTask, SeedsInPass, TaskIsNew, LearnInv, LearnFrame

LEMMA SeedInvNext ==
  ASSUME "backdated" \notin LearnRaces, SeedInv, LearnFrame, [LearnNext]_learnVars
  PROVE  SeedInv'
  <1>0. LearnStateOK'
    BY LearnFrameNext DEF LearnFrame
  <1> USE <1>0 DEF SeedInv, LearnStateOK, SeedsOfTask, SeedsInPass, TaskIsNew, GoesTo
  <1>a. ASSUME NEW w \in Learners, Leaves(w), UNCHANGED aged PROVE SeedInv'
    BY <1>a, LearnAssumption DEF Leaves
  <1>b. ASSUME UNCHANGED <<seeds, task, aged>>,
               \A w \in Learners : phase[w] \in {"inventory", "apply"} => phase'[w] \in {"inventory", "apply"}
        PROVE  SeedInv'
    BY <1>b
  <1>1. ASSUME NEW w \in Learners, NEW s \in Traced, Ingest(w, s) PROVE SeedInv'
    BY <1>1 DEF Ingest
  <1>2. ASSUME NEW w \in Learners, ModelFails(w) PROVE SeedInv'
    BY <1>a, <1>b, <1>2 DEF ModelFails
  <1>3. ASSUME NEW w \in Learners, CountEpisodes(w) PROVE SeedInv'
    BY <1>a, <1>b, <1>3 DEF CountEpisodes
  <1>4. ASSUME NEW w \in Learners, LoadSeeds(w) PROVE SeedInv'
    BY <1>a, <1>4 DEF LoadSeeds
  <1>5. ASSUME NEW w \in Learners, PassEnds(w) \/ LearnerDies(w) PROVE SeedInv'
    BY <1>a, <1>5 DEF PassEnds, LearnerDies
  <1>6. ASSUME NEW s \in Traced, DayPasses(s) PROVE SeedInv'
    BY <1>6 DEF DayPasses, learners
  <1>7. ASSUME NEW w \in Learners,
               \/ ModelAnswers(w) \/ SaveEpisode(w) \/ EpisodeFails(w) \/ SaveDurable(w)
               \/ SaveEnds(w) \/ Curate(w) \/ LoadInventory(w)
        PROVE  SeedInv'
    BY <1>b, <1>7 DEF ModelAnswers, SaveEpisode, EpisodeFails, SaveDurable, SaveEnds, Curate,
         LoadInventory
  <1>8. ASSUME NEW w \in Learners, NEW id \in evidence[w],
               \/ ArchiveRecord(w, id)
               \/ ReviseRecord(w, id)
               \/ \E other \in evidence[w] : SupersedeRecord(w, id, other)
        PROVE  SeedInv'
    BY <1>b, <1>8 DEF ArchiveRecord, ReviseRecord, SupersedeRecord, Applies
  <1>9. CASE UNCHANGED learnVars
    BY <1>b, <1>9 DEF learnVars, learners
  <1> QED
    BY <1>b, <1>1, <1>2, <1>3, <1>4, <1>5, <1>6, <1>7, <1>8, <1>9
       DEF LearnNext, LearnStep, Extraction, CuratorPass

LEMMA SeedStep ==
  ASSUME LearnRaces \intersect {"backdated", "slip"} = {}, SeedInv, [LearnNext]_learnVars,
         NEW w \in Learners, touched'[w] # touched[w], NEW i \in seeds[w], Retired(rec'[i])
  PROVE  Retired(rec[i])
  <1> USE DEF SeedInv, LearnStateOK
  <1>1. ASSUME NEW v \in Learners, NEW id \in evidence[v],
               \/ ArchiveRecord(v, id)
               \/ ReviseRecord(v, id)
               \/ \E other \in evidence[v] : SupersedeRecord(v, id, other)
        PROVE  Retired(rec[i])
    <2>1. v = w
      BY <1>1 DEF ArchiveRecord, ReviseRecord, SupersedeRecord, Applies
    <2>2. id \in Ids /\ i \in Ids
      OBVIOUS
    <2>3. CASE i # id
      BY <1>1, <2>2, <2>3 DEF ArchiveRecord, ReviseRecord, SupersedeRecord, Retired
    <2>4. CASE i = id /\ ArchiveRecord(v, id)
      <3>1. ~IsEpisode(id) /\ SessionOfId(id) \notin aged
        BY <2>1, <2>4 DEF SeedsOfTask, TaskIsNew
      <3>2. rec[id] # [status |-> "active", by |-> NoRecord] /\ rec[id].status = "active"
        BY <2>4, <3>1 DEF ArchiveRecord, RefusesRecent
      <3>3. rec[id] \in [status : {"none", "active", "archived"}, by : Ids \union {NoRecord}]
        BY <2>2
      <3>4. rec[id].by # NoRecord
        BY <3>2, <3>3
      <3> QED
        BY <2>4, <3>4 DEF Retired
    <2>5. CASE i = id /\ ReviseRecord(v, id)
      <3>1. rec' = [rec EXCEPT ![id].status = "active"]
        BY <2>5 DEF ReviseRecord
      <3>2. rec'[id].status = "active" /\ rec'[id].by = rec[id].by
        BY <2>2, <3>1
      <3> QED
        BY <2>5, <3>2 DEF Retired
    <2>6. ASSUME i = id, NEW other \in evidence[v], SupersedeRecord(v, id, other) PROVE FALSE
      BY <2>1, <2>6 DEF SupersedeRecord
    <2> QED
      BY <1>1, <2>3, <2>4, <2>5, <2>6
  <1>2. ASSUME UNCHANGED rec PROVE Retired(rec[i])
    BY <1>2
  <1>3. ASSUME NEW v \in Learners, SaveEpisode(v) \/ SaveDurable(v) PROVE FALSE
    BY <1>3 DEF SaveEpisode, SaveDurable
  <1> QED
    BY <1>1, <1>2, <1>3
       DEF LearnNext, LearnStep, Extraction, CuratorPass, Ingest, Curate, ModelAnswers, ModelFails,
           EpisodeFails, SaveEnds, CountEpisodes, LoadSeeds, LoadInventory, PassEnds,
           LearnerDies, DayPasses, learnVars

(* SeedsKept for every instance: while a session is younger than a day when   *)
(* it is reconciled and a revision sets no status of its own, the pass that   *)
(* reconciles an extraction retires none of its records (the one-day guard    *)
(* of archive_record and the protected ids of _validate_action).              *)
THEOREM SeedsAreKept ==
  ASSUME LearnRaces \intersect {"backdated", "slip"} = {}
  PROVE  LearnSpec => SeedsKept
  <1>1. SeedInv /\ [LearnNext]_learnVars =>
          [\A w \in Learners : touched'[w] # touched[w] =>
             \A id \in seeds[w] : Retired(rec'[id]) => Retired(rec[id])]_learnVars
    BY SeedStep
  <1>2. LearnInit => SeedInv /\ LearnFrame
    BY SeedInitial, LearnInitial DEF LearnInv
  <1>3. SeedInv /\ LearnFrame /\ [LearnNext]_learnVars => (SeedInv /\ LearnFrame)'
    BY SeedInvNext, LearnFrameNext
  <1> QED
    BY <1>1, <1>2, <1>3, PTL DEF LearnSpec, SeedsKept

-----------------------------------------------------------------------------
(* RecordFeedback *)

Signals == DOMAIN Deltas
Levels == 0..MaxConfidence

LEMMA NextLevel ==
  ASSUME NEW c \in Levels, NEW signal \in Signals
  PROVE  NextRecordConfidence(c, signal) \in Levels
  BY FeedbackAssumption DEF NextRecordConfidence, Clamped, Levels, Signals, Deltas

LEMMA DefaultLevel == DefaultConfidence \in Levels
  BY FeedbackAssumption DEF DefaultConfidence, Levels

-----------------------------------------------------------------------------
(* The fold over the feedback rows, step by step *)

Earned(rows) == FoldLeft(NextRecordConfidence, DefaultConfidence, rows)

\* The fold recurses over sets of positions, the last of them first.
FoldStep(f, rows, S) ==
  IF S = {} THEN DefaultConfidence
  ELSE NextRecordConfidence(f[S \ {Max(S)}], rows[Max(S)])

IsFold(f, rows) == f = [S \in SUBSET DOMAIN rows |-> FoldStep(f, rows, S)]

LEMMA EarnedIs ==
  ASSUME NEW rows
  PROVE  Earned(rows) = (CHOOSE f : IsFold(f, rows))[DOMAIN rows]
  BY DEF Earned, FoldLeft, MapThenFoldSet, IsFold, FoldStep

\* A function as the recursion asks for exists: built up from the first row.
LEMMA FoldExists ==
  ASSUME NEW rows \in Seq(Signals)
  PROVE  \E f : IsFold(f, rows)
  <1> DEFINE N == Len(rows)
             F(n) == [SUBSET (1..n) -> Levels]
             Built(n) == \E f \in F(n) : \A S \in SUBSET (1..n) : f[S] = FoldStep(f, rows, S)
             T == {n \in 0..N : Built(n)}
  <1>0. N \in Nat /\ DOMAIN rows = 1..N /\ \A i \in 1..N : rows[i] \in Signals
    OBVIOUS
  <1>1. 0 \in T
    <2> DEFINE f == [S \in SUBSET (1..0) |-> DefaultConfidence]
    <2>1. f \in F(0) /\ \A S \in SUBSET (1..0) : f[S] = FoldStep(f, rows, S)
      BY DefaultLevel DEF FoldStep
    <2>2. Built(0)
      BY <2>1
    <2> HIDE DEF Built
    <2> QED BY <1>0, <2>2
  <1>2. ASSUME NEW n \in 0..N, n \in T, n < N PROVE n + 1 \in T
    <2>1. PICK f \in F(n) : \A S \in SUBSET (1..n) : f[S] = FoldStep(f, rows, S)
      BY <1>2
    <2>2. n + 1 \in 1..N /\ rows[n + 1] \in Signals
      BY <1>0, <1>2
    <2> DEFINE g == [S \in SUBSET (1..(n + 1)) |->
                       IF n + 1 \in S THEN NextRecordConfidence(f[S \ {n + 1}], rows[n + 1])
                       ELSE f[S]]
    <2>3. ASSUME NEW S \in SUBSET (1..(n + 1)) PROVE S \ {n + 1} \in SUBSET (1..n)
      BY <1>0
    <2>4. g \in F(n + 1)
      <3>1. ASSUME NEW S \in SUBSET (1..(n + 1)) PROVE g[S] \in Levels
        <4>1. S \ {n + 1} \in SUBSET (1..n)
          BY <2>3
        <4>2. CASE n + 1 \in S
          BY <2>1, <2>2, <4>1, <4>2, NextLevel
        <4>3. CASE n + 1 \notin S
          <5>1. S \in SUBSET (1..n)
            BY <4>1, <4>3
          <5> QED BY <2>1, <4>3, <5>1
        <4> QED BY <4>2, <4>3
      <3> QED BY <3>1
    <2>5. ASSUME NEW S \in SUBSET (1..(n + 1)) PROVE g[S] = FoldStep(g, rows, S)
      <3>1. S \ {n + 1} \in SUBSET (1..n) /\ S \ {n + 1} \in SUBSET (1..(n + 1))
        BY <2>3
      <3>2. CASE n + 1 \in S
        <4>1. Max(S) = n + 1
          <5>1. n \in Nat
            BY <1>0
          <5> QED BY <3>2, <5>1, MaxIsLast
        <4>2. g[S \ {n + 1}] = f[S \ {n + 1}]
          BY <3>1
        <4> QED BY <3>2, <4>1, <4>2 DEF FoldStep
      <3>3. CASE n + 1 \notin S
        <4>1. S \in SUBSET (1..n) /\ g[S] = f[S]
          BY <3>1, <3>3
        <4>2. CASE S = {}
          BY <2>1, <4>1, <4>2 DEF FoldStep
        <4>3. CASE S # {}
          <5>1. S \ {Max(S)} \in SUBSET (1..n) /\ S \ {Max(S)} \in SUBSET (1..(n + 1))
                /\ n + 1 \notin S \ {Max(S)}
            BY <3>3, <4>1
          <5>2. g[S \ {Max(S)}] = f[S \ {Max(S)}]
            BY <5>1
          <5>3. f[S] = NextRecordConfidence(f[S \ {Max(S)}], rows[Max(S)])
            BY <2>1, <4>1, <4>3 DEF FoldStep
          <5> QED BY <4>1, <4>3, <5>2, <5>3 DEF FoldStep
        <4> QED BY <4>2, <4>3
      <3> QED BY <3>2, <3>3
    <2>6. Built(n + 1)
      <3> HIDE DEF g
      <3> QED BY <2>4, <2>5
    <2>7. n + 1 \in 0..N
      BY <1>2, <1>0
    <2> QED BY <2>6, <2>7
  <1>3. N \in T
    <2> HIDE DEF T
    <2>1. \A k \in 0..N : k \in T /\ k < N => k + 1 \in T
      BY <1>2
    <2>2. 0..N \subseteq T
      BY <1>0, <1>1, <2>1, UpTo
    <2> QED BY <1>0, <2>2
  <1>4. PICK f \in F(N) : \A S \in SUBSET (1..N) : f[S] = FoldStep(f, rows, S)
    BY <1>3
  <1>5. f = [S \in SUBSET (1..N) |-> FoldStep(f, rows, S)]
    BY <1>4
  <1> QED BY <1>0, <1>5 DEF IsFold

\* One more row takes the confidence one signal on.
LEMMA EarnedOneMore ==
  ASSUME NEW rows \in Seq(Signals), NEW signal \in Signals
  PROVE  Earned(Append(rows, signal)) = NextRecordConfidence(Earned(rows), signal)
  <1> DEFINE more == Append(rows, signal)
             N == Len(rows)
             f == CHOOSE h : IsFold(h, rows)
             g == CHOOSE h : IsFold(h, more)
             T == {k \in 0..N : g[1..k] = f[1..k]}
  <1>0. /\ N \in Nat /\ DOMAIN rows = 1..N /\ more \in Seq(Signals)
        /\ DOMAIN more = 1..(N + 1) /\ more[N + 1] = signal
        /\ \A i \in 1..N : more[i] = rows[i]
    OBVIOUS
  <1>1. IsFold(f, rows) /\ IsFold(g, more)
    <2>1. (\E h : IsFold(h, rows)) /\ (\E h : IsFold(h, more))
      BY <1>0, FoldExists
    <2> QED BY <2>1
  <1> HIDE DEF f, g, more
  <1>2. /\ \A S \in SUBSET (1..N) : f[S] = FoldStep(f, rows, S)
        /\ \A S \in SUBSET (1..(N + 1)) : g[S] = FoldStep(g, more, S)
    BY <1>0, <1>1 DEF IsFold
  <1>3. ASSUME NEW k \in Nat, k < N PROVE f[1..(k + 1)] = NextRecordConfidence(f[1..k], rows[k + 1])
    <2>1. 1..(k + 1) \in SUBSET (1..N)
      BY <1>0, <1>3
    <2>2. f[1..(k + 1)] = FoldStep(f, rows, 1..(k + 1))
      BY <1>2, <2>1
    <2>3. 1..(k + 1) # {} /\ Max(1..(k + 1)) = k + 1 /\ (1..(k + 1)) \ {k + 1} = 1..k
      BY IntervalMax
    <2> QED BY <2>2, <2>3 DEF FoldStep
  <1>4. ASSUME NEW k \in Nat, k <= N PROVE g[1..(k + 1)] = NextRecordConfidence(g[1..k], more[k + 1])
    <2>1. 1..(k + 1) \in SUBSET (1..(N + 1))
      BY <1>0, <1>4
    <2>2. g[1..(k + 1)] = FoldStep(g, more, 1..(k + 1))
      BY <1>2, <2>1
    <2>3. 1..(k + 1) # {} /\ Max(1..(k + 1)) = k + 1 /\ (1..(k + 1)) \ {k + 1} = 1..k
      BY IntervalMax
    <2> QED BY <2>2, <2>3 DEF FoldStep
  <1>5. 0 \in T
    <2>1. 1..0 = {} /\ {} \in SUBSET (1..N) /\ {} \in SUBSET (1..(N + 1))
      OBVIOUS
    <2>2. g[{}] = f[{}]
      BY <1>2, <2>1 DEF FoldStep
    <2> QED BY <1>0, <2>1, <2>2
  <1>6. \A k \in 0..N : k \in T /\ k < N => k + 1 \in T
    <2> TAKE k \in 0..N
    <2> HAVE k \in T /\ k < N
    <2>1. k \in Nat /\ k + 1 \in 0..N /\ more[k + 1] = rows[k + 1] /\ k <= N
      BY <1>0
    <2>2. g[1..(k + 1)] = f[1..(k + 1)]
      BY <1>3, <1>4, <2>1
    <2> QED BY <2>1, <2>2
  <1>7. g[1..N] = f[1..N]
    <2> HIDE DEF T
    <2>1. N \in T
      BY <1>0, <1>5, <1>6, UpTo
    <2> QED BY <2>1 DEF T
  <1>8. g[1..(N + 1)] = NextRecordConfidence(f[1..N], signal)
    BY <1>0, <1>4, <1>7
  <1> QED BY <1>0, <1>8, EarnedIs DEF f, g, more

LEMMA EarnedOfNothing == Earned(<<>>) = DefaultConfidence
  <1> DEFINE f == CHOOSE h : IsFold(h, <<>>)
  <1>1. IsFold(f, <<>>)
    <2>1. <<>> \in Seq(Signals)
      OBVIOUS
    <2> QED BY <2>1, FoldExists
  <1>2. DOMAIN <<>> = {}
    OBVIOUS
  <1> HIDE DEF f
  <1>3. f[{}] = DefaultConfidence
    BY <1>1, <1>2 DEF IsFold, FoldStep
  <1> QED BY <1>2, <1>3, EarnedIs DEF f

-----------------------------------------------------------------------------
(* The invariant *)

Requests ==
  [stage : {"idle"}, record : {NoVoter}, signal : {NoVoter}, seen : {0}]
    \union [stage : {"read", "write"}, record : Rated, signal : Signals, seen : Levels]

VoteTypeInv ==
  /\ stored \subseteq Rated
  /\ confidence \in [Rated -> Levels]
  /\ votes \in [Rated -> Seq(Signals)]
  /\ voting \in [Voters -> Requests]
  /\ immediate \in Voters \union {NoVoter}
  /\ earlier \in [Rated -> Nat] /\ \A r \in Rated : earlier[r] <= Len(votes[r])

\* A request holds the write lock from its begin to its end, and what it has read
\* is still the confidence of its record, which is still there.
VoteInv ==
  \A v \in Voters :
    /\ voting[v].stage # "idle" => immediate = v
    /\ voting[v].stage = "write" =>
         voting[v].record \in stored /\ voting[v].seen = confidence[voting[v].record]

FeedbackInv == VoteTypeInv /\ VoteInv /\ ConfidenceIsEarned

\* Of no rows, the rows from any place are none; one row more is one more of them.
LEMMA SinceLast ==
  ASSUME NEW rows \in Seq(Signals)
  PROVE  SubSeq(rows, Len(rows) + 1, Len(rows)) = <<>>
  BY SubSeqEmpty

LEMMA SinceOneMore ==
  ASSUME NEW rows \in Seq(Signals), NEW signal \in Signals, NEW k \in 0..Len(rows)
  PROVE  /\ SubSeq(rows, k + 1, Len(rows)) \in Seq(Signals)
         /\ SubSeq(Append(rows, signal), k + 1, Len(rows) + 1)
              = Append(SubSeq(rows, k + 1, Len(rows)), signal)
  <1> DEFINE N == Len(rows)
             more == Append(rows, signal)
             before == SubSeq(rows, k + 1, N)
             after == SubSeq(more, k + 1, N + 1)
  <1>1. /\ N \in Nat /\ k \in Nat /\ k <= N
        /\ \A i \in 1..N : rows[i] \in Signals /\ more[i] = rows[i]
        /\ more[N + 1] = signal
    OBVIOUS
  <1>2. /\ \A i \in (k + 1)..N : rows[i] \in Signals
        /\ \A i \in (k + 1)..(N + 1) : more[i] \in Signals
        /\ k + 1 \in Int /\ N \in Int /\ N + 1 \in Int
    <2> HIDE DEF N, more
    <2> QED BY <1>1
  <1> HIDE DEF N, more
  <1>3. /\ before \in Seq(Signals)
        /\ Len(before) = N - k
        /\ \A i \in 1..(N - k) : before[i] = rows[k + i]
    <2>1. /\ before \in Seq(Signals)
          /\ Len(before) = IF k + 1 <= N THEN N - (k + 1) + 1 ELSE 0
          /\ \A i \in 1..(N - (k + 1) + 1) : before[i] = rows[(k + 1) + i - 1]
      BY <1>2, SubSeqProperties
    <2> QED BY <1>1, <2>1
  <1>4. /\ after \in Seq(Signals)
        /\ Len(after) = N + 1 - k
        /\ \A i \in 1..(N + 1 - k) : after[i] = more[k + i]
    <2>1. /\ after \in Seq(Signals)
          /\ Len(after) = IF k + 1 <= N + 1 THEN (N + 1) - (k + 1) + 1 ELSE 0
          /\ \A i \in 1..((N + 1) - (k + 1) + 1) : after[i] = more[(k + 1) + i - 1]
      BY <1>2, SubSeqProperties
    <2>2. (N + 1) - (k + 1) + 1 = N + 1 - k /\ k + 1 <= N + 1
      BY <1>1
    <2>3. \A i \in 1..(N + 1 - k) : after[i] = more[k + i]
      <3> SUFFICES ASSUME NEW i \in 1..(N + 1 - k) PROVE after[i] = more[k + i]
        OBVIOUS
      <3>1. (k + 1) + i - 1 = k + i
        BY <1>1
      <3> QED BY <2>1, <2>2, <3>1
    <2> QED BY <2>1, <2>2, <2>3
  <1> HIDE DEF before, after
  <1> DEFINE longer == Append(before, signal)
  <1>5. /\ longer \in Seq(Signals) /\ Len(longer) = N - k + 1 /\ longer[N - k + 1] = signal
        /\ \A i \in 1..(N - k) : longer[i] = before[i]
    BY <1>1, <1>3
  <1> HIDE DEF longer
  <1>6. \A i \in 1..Len(after) : after[i] = longer[i]
    <2> SUFFICES ASSUME NEW i \in 1..(N + 1 - k) PROVE after[i] = longer[i]
      BY <1>4
    <2>1. CASE i = N + 1 - k
      BY <1>1, <1>4, <1>5, <2>1
    <2>2. CASE i # N + 1 - k
      <3>1. i \in 1..(N - k) /\ k + i \in 1..N
        BY <1>1, <2>2
      <3> QED BY <1>1, <1>3, <1>4, <1>5, <3>1
    <2> QED BY <2>1, <2>2
  <1>7. Len(after) = Len(longer)
    BY <1>1, <1>4, <1>5
  <1>8. after = longer
    BY <1>4, <1>5, <1>6, <1>7, SeqEqual
  <1> QED BY <1>3, <1>8 DEF N, more, before, after, longer

LEMMA FeedbackStart == FeedbackInit => FeedbackInv
  <1>1. \A r \in Rated : <<>> \in Seq(Signals)
    OBVIOUS
  <1> QED BY <1>1, DefaultLevel
          DEF FeedbackInit, FeedbackInv, VoteTypeInv, VoteInv, ConfidenceIsEarned, Requests, Waiting

LEMMA FeedbackStep ==
  ASSUME FeedbackInv, [FeedbackNext]_feedbackVars
  PROVE  FeedbackInv'
  <1> USE DEF FeedbackInv, VoteTypeInv
  <1>0. NoVoter \notin Voters
    BY FeedbackAssumption
  <1>1. ASSUME NEW r \in Rated, CreateRated(r) PROVE FeedbackInv'
    <2>1. \A v \in Voters : voting[v].stage = "idle"
      BY <1>0, <1>1 DEF CreateRated, LockFree, VoteInv
    <2>2. VoteTypeInv'
      BY <1>1, DefaultLevel DEF CreateRated
    <2>3. VoteInv'
      BY <1>1, <2>1 DEF CreateRated, VoteInv
    <2>4. ConfidenceIsEarned'
      <3> SUFFICES ASSUME NEW q \in stored' PROVE confidence'[q] = Earned(FeedbackSince(q)')
        BY DEF ConfidenceIsEarned, Earned
      <3>1. CASE q = r
        <4>1. FeedbackSince(q)' = <<>>
          BY <1>1, <3>1, SinceLast DEF CreateRated, FeedbackSince
        <4> QED BY <1>1, <3>1, <4>1, EarnedOfNothing DEF CreateRated
      <3>2. CASE q # r
        BY <1>1, <3>2 DEF CreateRated, ConfidenceIsEarned, Earned, FeedbackSince
      <3> QED BY <3>1, <3>2
    <2> QED BY <2>2, <2>3, <2>4
  <1>2. ASSUME NEW r \in Rated, ForgetRated(r) PROVE FeedbackInv'
    <2>1. \A v \in Voters : voting[v].stage = "idle"
      BY <1>0, <1>2 DEF ForgetRated, LockFree, VoteInv
    <2> QED BY <1>2, <2>1 DEF ForgetRated, VoteInv, ConfidenceIsEarned, FeedbackSince
  <1>3. ASSUME NEW v \in Voters, BeginFeedback(v) PROVE FeedbackInv'
    <2>1. PICK r \in Rated, signal \in Signals :
             voting' = [voting EXCEPT ![v] =
                          [stage |-> "read", record |-> r, signal |-> signal, seen |-> 0]]
      BY <1>3 DEF BeginFeedback, Signals
    <2>2. /\ immediate' = v /\ immediate = NoVoter
          /\ UNCHANGED <<stored, confidence, votes, earlier>>
      BY <1>3 DEF BeginFeedback, BeginImmediate, LockFree
    <2>3. 0 \in Levels
      BY FeedbackAssumption DEF Levels
    <2>4. VoteTypeInv'
      BY <2>1, <2>2, <2>3 DEF Requests
    <2>5. \A u \in Voters : voting[u].stage = "idle"
      BY <1>0, <2>2 DEF VoteInv
    <2>6. VoteInv'
      BY <2>1, <2>2, <2>5 DEF VoteInv
    <2> QED BY <2>2, <2>4, <2>6 DEF ConfidenceIsEarned, FeedbackSince
  <1>4. ASSUME NEW v \in Voters, ReadConfidence(v) PROVE FeedbackInv'
    <2>1. /\ voting[v] \in Requests /\ voting[v].stage = "read" /\ voting[v].record \in stored
          /\ voting' = [voting EXCEPT ![v].stage = "write",
                                      ![v].seen = confidence[voting[v].record]]
          /\ UNCHANGED <<stored, confidence, votes, immediate, earlier>>
      BY <1>4 DEF ReadConfidence
    <2>2. voting[v] \in [stage : {"read", "write"}, record : Rated, signal : Signals, seen : Levels]
      BY <2>1 DEF Requests
    <2>3. confidence[voting[v].record] \in Levels
      BY <2>2
    <2>4. VoteTypeInv'
      BY <2>1, <2>2, <2>3 DEF Requests
    <2>5. VoteInv'
      BY <2>1, <2>2 DEF VoteInv
    <2> QED BY <2>1, <2>4, <2>5 DEF ConfidenceIsEarned, FeedbackSince
  <1>5. ASSUME NEW v \in Voters, AbortFeedback(v) PROVE FeedbackInv'
    <2>1. /\ voting' = [voting EXCEPT ![v] = Waiting] /\ immediate = v /\ immediate' = NoVoter
          /\ UNCHANGED <<stored, confidence, votes, earlier>>
      BY <1>5 DEF AbortFeedback, Done, VoteInv
    <2>2. VoteTypeInv' /\ VoteInv'
      BY <2>1 DEF VoteInv, Requests, Waiting
    <2> QED BY <2>1, <2>2 DEF ConfidenceIsEarned, FeedbackSince
  <1>6. ASSUME NEW v \in Voters, WriteFeedback(v) PROVE FeedbackInv'
    <2> DEFINE r == voting[v].record
               signal == voting[v].signal
    <2>1. /\ voting' = [voting EXCEPT ![v] = Waiting] /\ immediate = v /\ immediate' = NoVoter
          /\ votes' = [votes EXCEPT ![r] = Append(votes[r], signal)]
          /\ confidence' = [confidence EXCEPT ![r] = NextRecordConfidence(voting[v].seen, signal)]
          /\ stored' = stored /\ earlier' = earlier
      BY <1>6 DEF WriteFeedback, Done, VoteInv
    <2>2. r \in Rated /\ signal \in Signals /\ voting[v].seen \in Levels
      BY <1>6 DEF WriteFeedback, Requests
    <2>3. r \in stored /\ voting[v].seen = confidence[r]
      BY <1>6 DEF WriteFeedback, VoteInv
    <2>4. NextRecordConfidence(voting[v].seen, signal) \in Levels
      BY <2>2, NextLevel
    <2>5. /\ Append(votes[r], signal) \in Seq(Signals)
          /\ Len(Append(votes[r], signal)) = Len(votes[r]) + 1 /\ Len(votes[r]) \in Nat
      BY <2>2
    <2>6. VoteTypeInv'
      <3>1. \A q \in Rated : earlier'[q] <= Len(votes'[q])
        <4> SUFFICES ASSUME NEW q \in Rated PROVE earlier[q] <= Len(votes'[q])
          BY <2>1
        <4>1. CASE q = r
          BY <2>1, <2>2, <2>5, <4>1
        <4>2. CASE q # r
          BY <2>1, <2>2, <4>2
        <4> QED BY <4>1, <4>2
      <3> QED BY <2>1, <2>4, <2>5, <3>1 DEF Requests, Waiting
    <2>7. \A u \in Voters \ {v} : voting[u].stage = "idle"
      BY <2>1 DEF VoteInv
    <2>8. VoteInv'
      BY <2>1, <2>7 DEF VoteInv, Waiting
    <2>9. ConfidenceIsEarned'
      <3> SUFFICES ASSUME NEW q \in stored PROVE confidence'[q] = Earned(FeedbackSince(q)')
        BY <2>1 DEF ConfidenceIsEarned, Earned
      <3>1. CASE q = r
        <4>1. confidence[q] = Earned(FeedbackSince(q))
          BY <2>3 DEF ConfidenceIsEarned, Earned
        <4>2. /\ earlier[q] \in 0..Len(votes[q]) /\ votes[q] \in Seq(Signals)
              /\ votes'[q] = Append(votes[q], signal) /\ earlier'[q] = earlier[q]
              /\ Len(votes'[q]) = Len(votes[q]) + 1
          BY <2>1, <2>2, <2>5, <3>1
        <4>3. /\ FeedbackSince(q) \in Seq(Signals)
              /\ FeedbackSince(q)' = Append(FeedbackSince(q), signal)
          BY <2>2, <4>2, SinceOneMore DEF FeedbackSince
        <4>4. Earned(Append(FeedbackSince(q), signal))
                = NextRecordConfidence(Earned(FeedbackSince(q)), signal)
          BY <2>2, <4>3, EarnedOneMore
        <4> QED BY <2>1, <2>2, <2>3, <3>1, <4>1, <4>3, <4>4
      <3>2. CASE q # r
        BY <2>1, <3>2 DEF ConfidenceIsEarned, Earned, FeedbackSince
      <3> QED BY <3>1, <3>2
    <2> QED BY <2>6, <2>8, <2>9
  <1>7. CASE UNCHANGED feedbackVars
    BY <1>7 DEF feedbackVars, VoteInv, ConfidenceIsEarned, FeedbackSince
  <1> QED BY <1>1, <1>2, <1>3, <1>4, <1>5, <1>6, <1>7 DEF FeedbackNext

\* A record has the confidence that its feedback since it was created earned,
\* signal by signal in the order of the rows, clamped at every one: no two
\* requests are decided on one reading, whatever is created, forgotten, created
\* again with its old feedback rows, or rolled back between them.
THEOREM FeedbackCounts == FeedbackSpec => [](FeedbackTypeOK /\ ConfidenceIsEarned)
  <1>1. FeedbackInv => FeedbackTypeOK
    <2> SUFFICES ASSUME FeedbackInv PROVE FeedbackTypeOK
      OBVIOUS
    <2>1. \A r \in Rated : votes[r] \in Seq(DOMAIN Deltas)
      BY DEF FeedbackInv, VoteTypeInv, Signals
    <2>2. \A v \in Voters : voting[v].stage \in {"idle", "read", "write"}
      BY DEF FeedbackInv, VoteTypeInv, Requests
    <2>3. \A r \in Rated : earlier[r] \in 0..Len(votes[r])
      BY DEF FeedbackInv, VoteTypeInv
    <2> QED BY <2>1, <2>2, <2>3 DEF FeedbackInv, VoteTypeInv, FeedbackTypeOK, Levels
  <1>2. FeedbackInv => ConfidenceIsEarned
    BY DEF FeedbackInv
  <1> QED BY <1>1, <1>2, FeedbackStart, FeedbackStep, PTL DEF FeedbackSpec
=============================================================================
