------------------------- MODULE SessionQueueProofs -------------------------
(* Proofs about SessionQueue, for every set of sessions, passes, starters  *)
(* and processes, every MaxAttempts and every Quota.                       *)
EXTENDS SessionQueue, TLAPS

(* Part 1: what holds in every environment. *)

\* Types, and the two row invariants that need no other fact.
RowInv == TypeOK /\ RunningIsReapable /\ PendingIsFresh

\* The initial state has the types and no running or pending row.
LEMMA RowInit == Init => RowInv
  BY SetsAssumption, BoundsAssumption
  DEF Init, RowInv, TypeOK, RunningIsReapable, PendingIsFresh, Statuses,
      ControlStates, Extracting

\* Returning from a call keeps the control variables in their types.
LEMMA RowReturn ==
  ASSUME RowInv, NEW A \in SUBSET Actors, Return(A), UNCHANGED rowVars,
         local' \in [Procs -> SUBSET Sessions],
         holder' \in Passes \cup {NoPass},
         quota' \in 0..Quota
  PROVE  RowInv'
  BY DEF RowInv, TypeOK, RunningIsReapable, PendingIsFresh, Statuses,
         ControlStates, Extracting, Return, rowVars

\* Resetting rows makes them fresh pending jobs and touches no other row.
LEMMA RowReset ==
  ASSUME RowInv, NEW S \in SUBSET Sessions, ResetRows(S)
  PROVE  /\ status' \in [Sessions -> Statuses]
         /\ attempts' \in [Sessions -> 0..AttemptCap]
         /\ backoff' \in SUBSET Sessions
         /\ lease' \in [Sessions -> {"none", "fresh", "expired"}]
         /\ RunningIsReapable'
         /\ PendingIsFresh'
  BY BoundsAssumption
  DEF RowInv, TypeOK, RunningIsReapable, PendingIsFresh, Statuses, ResetRows

\* So does failing one row.
LEMMA RowFail ==
  ASSUME RowInv, NEW s \in Sessions, NEW b \in BOOLEAN, FailRow(s, b)
  PROVE  /\ status' \in [Sessions -> Statuses]
         /\ attempts' \in [Sessions -> 0..AttemptCap]
         /\ backoff' \in SUBSET Sessions
         /\ lease' \in [Sessions -> {"none", "fresh", "expired"}]
         /\ RunningIsReapable'
         /\ PendingIsFresh'
  BY DEF RowInv, TypeOK, RunningIsReapable, PendingIsFresh, Statuses, FailRow

\* Taking the lock and queueing sessions.
LEMMA RowEnqueue ==
  ASSUME RowInv, NEW p \in Passes,
         \/ \E t \in Sessions \cup {NoSession}, S \in SUBSET Sessions : Begin(p, t, S)
         \/ \E s \in Sessions, force \in BOOLEAN : EnqueueRead(p, s, force)
         \/ EnqueueWrite(p)
         \/ InsertConflict(p)
         \/ EnqueueDone(p)
  PROVE  RowInv'
<1> USE DEF RowInv, TypeOK, RunningIsReapable, PendingIsFresh, Statuses, Actors,
            ControlStates, Extracting, Goto, rowVars
<1>1. ASSUME NEW t \in Sessions \cup {NoSession}, NEW S \in SUBSET Sessions,
             Begin(p, t, S)
      PROVE  RowInv'
  BY <1>1, BoundsAssumption DEF Begin, Disturb
<1>2. ASSUME NEW s \in Sessions, NEW force \in BOOLEAN, EnqueueRead(p, s, force)
      PROVE  RowInv'
  BY <1>2 DEF EnqueueRead
<1>3. CASE EnqueueWrite(p)
  <2>1. PICK S \in SUBSET Sessions : ResetRows(S)
    BY <1>3 DEF EnqueueWrite
  <2>2. /\ status' \in [Sessions -> Statuses]
        /\ attempts' \in [Sessions -> 0..AttemptCap]
        /\ backoff' \in SUBSET Sessions
        /\ lease' \in [Sessions -> {"none", "fresh", "expired"}]
        /\ RunningIsReapable'
        /\ PendingIsFresh'
    BY <2>1, RowReset DEF RowInv
  <2> QED BY <1>3, <2>2 DEF EnqueueWrite
<1>4. CASE InsertConflict(p)
  BY <1>4, RowReturn DEF InsertConflict, Release
<1>5. CASE EnqueueDone(p)
  BY <1>5 DEF EnqueueDone
<1> QED BY <1>1, <1>2, <1>3, <1>4, <1>5

\* Reaping, by a pass or by a starting server.
LEMMA RowReap ==
  ASSUME RowInv, NEW a \in Actors, ReapStep(a)
  PROVE  RowInv'
<1> USE DEF RowInv, TypeOK, RunningIsReapable, PendingIsFresh, Statuses, Actors,
            ControlStates, Extracting, Goto, rowVars
<1>1. CASE ReapList(a)
  BY <1>1 DEF ReapList, StaleFor
<1>2. ASSUME NEW s \in Sessions, ReapRead(a, s)
      PROVE  RowInv'
  <2>1. (attempts[s] >= MaxAttempts) \in BOOLEAN
    OBVIOUS
  <2>2. CASE status[s] = "running"
    BY <1>2, <2>1, <2>2 DEF ReapRead
  <2>3. CASE status[s] # "running"
    BY <1>2, <2>3 DEF ReapRead
  <2> QED BY <2>2, <2>3
<1>3. CASE ReapWrite(a)
  <2>1. cur[a] \in Sessions /\ exhausted[a] \in BOOLEAN
    BY <1>3 DEF ReapWrite
  <2>2. /\ status' \in [Sessions -> Statuses]
        /\ attempts' \in [Sessions -> 0..AttemptCap]
        /\ backoff' \in SUBSET Sessions
        /\ lease' \in [Sessions -> {"none", "fresh", "expired"}]
        /\ RunningIsReapable'
        /\ PendingIsFresh'
    BY <1>3, <2>1, RowFail DEF ReapWrite
  <2> QED BY <1>3, <2>2 DEF ReapWrite
<1>4. CASE ReapDone(a)
  BY <1>4, RowReturn DEF ReapDone
<1> QED BY <1>1, <1>2, <1>3, <1>4 DEF ReapStep

\* Claiming, extracting and reporting the outcome.
LEMMA RowWork ==
  ASSUME RowInv, NEW p \in Passes,
         \/ \E s \in Sessions : ClaimSessionJob(p, s)
         \/ NothingToClaim(p)
         \/ StartExtraction(p)
         \/ StartFails(p)
         \/ ExtractionEnds(p, "complete")
         \/ ExtractionEnds(p, "failread")
         \/ CompleteSessionJob(p)
         \/ FailRead(p)
         \/ FailNothing(p)
         \/ FailWrite(p)
         \/ EndPass(p)
         \/ Beat(p)
         \/ BeatError(p)
  PROVE  RowInv'
<1> USE DEF RowInv, TypeOK, RunningIsReapable, PendingIsFresh, Statuses, Actors,
            ControlStates, Extracting, Goto, rowVars, passVars
<1>p. ProcOf[p] \in Procs
  BY SetsAssumption
<1>1. ASSUME NEW s \in Sessions, ClaimSessionJob(p, s)
      PROVE  RowInv'
  BY <1>1, <1>p, BoundsAssumption DEF ClaimSessionJob
<1>2. CASE NothingToClaim(p)
  BY <1>2, RowReturn DEF NothingToClaim, Release
<1>3. CASE StartExtraction(p)
  BY <1>3, <1>p DEF StartExtraction, RefreshLease
<1>4. CASE StartFails(p)
  BY <1>4 DEF StartFails
<1>5. CASE ExtractionEnds(p, "complete") \/ ExtractionEnds(p, "failread")
  BY <1>5 DEF ExtractionEnds
<1>6. CASE CompleteSessionJob(p)
  BY <1>6, <1>p DEF CompleteSessionJob, JobOver, ClearLocal
<1>7. CASE FailRead(p)
  BY <1>7, BoundsAssumption DEF FailRead
<1>8. CASE FailWrite(p)
  <2>1. cur[p] \in Sessions /\ exhausted[p] \in BOOLEAN
    BY <1>8 DEF FailWrite
  <2>2. /\ status' \in [Sessions -> Statuses]
        /\ attempts' \in [Sessions -> 0..AttemptCap]
        /\ backoff' \in SUBSET Sessions
        /\ lease' \in [Sessions -> {"none", "fresh", "expired"}]
        /\ RunningIsReapable'
        /\ PendingIsFresh'
    BY <1>8, <2>1, RowFail DEF FailWrite
  <2> QED BY <1>8, <1>p, <2>2 DEF FailWrite, JobOver, ClearLocal
<1>12. CASE FailNothing(p)
  BY <1>12, <1>p DEF FailNothing, JobOver, ClearLocal
<1>9. CASE EndPass(p)
  BY <1>9, RowReturn, BoundsAssumption DEF EndPass, Release, Disturb
<1>10. CASE Beat(p)
  <2>1. CASE status[cur[p]] = "running"
    BY <1>10, <1>p, <2>1 DEF Beat, RefreshLease
  <2>2. CASE status[cur[p]] # "running"
    BY <1>10, <2>2 DEF Beat
  <2> QED BY <2>1, <2>2
<1>11. CASE BeatError(p)
  BY <1>11, <1>p DEF BeatError
<1> QED BY <1>1, <1>2, <1>3, <1>4, <1>5, <1>6, <1>7, <1>8, <1>9, <1>10, <1>11, <1>12

\* Exceptions, crashes, operators and time.
LEMMA RowDisturb ==
  ASSUME RowInv,
         \/ \E a \in Starters : StartupReap(a)
         \/ \E a \in Actors : Abort(a)
         \/ \E q \in Procs : Crash(q)
         \/ Operator
         \/ Clock
  PROVE  RowInv'
<1> USE DEF RowInv, TypeOK, RunningIsReapable, PendingIsFresh, Statuses, Actors,
            ControlStates, Extracting, Goto, rowVars, passVars, Disturb
<1>1. ASSUME NEW a \in Starters, StartupReap(a)
      PROVE  RowInv'
  BY <1>1, BoundsAssumption DEF StartupReap
<1>2. ASSUME NEW a \in Actors, Abort(a)
      PROVE  RowInv'
  <2>1. ProcOf[a] \in Procs
    BY SetsAssumption
  <2> QED BY <1>2, <2>1, RowReturn, BoundsAssumption DEF Abort, ClearLocal, Release
<1>3. ASSUME NEW q \in Procs, Crash(q)
      PROVE  RowInv'
  BY <1>3, RowReturn, BoundsAssumption DEF Crash
<1>4. ASSUME NEW S \in Scopes, RetryJobs(S)
      PROVE  RowInv'
  <2> DEFINE hit == {s \in S : status[s] \in {"failed", "dead_letter"}}
  <2>1. hit \in SUBSET Sessions /\ ResetRows(hit)
    BY <1>4, SetsAssumption DEF RetryJobs, Scopes, ResetScopes
  <2>2. /\ status' \in [Sessions -> Statuses]
        /\ attempts' \in [Sessions -> 0..AttemptCap]
        /\ backoff' \in SUBSET Sessions
        /\ lease' \in [Sessions -> {"none", "fresh", "expired"}]
        /\ RunningIsReapable'
        /\ PendingIsFresh'
    BY <2>1, RowReset
  <2> QED BY <1>4, <2>2, BoundsAssumption DEF RetryJobs
<1>5. ASSUME NEW S \in Scopes, SkipJobs(S)
      PROVE  RowInv'
  BY <1>5, BoundsAssumption DEF SkipJobs
<1>6. ASSUME NEW s \in Sessions, BackoffElapses(s) \/ LeaseExpires(s)
      PROVE  RowInv'
  BY <1>6 DEF BackoffElapses, LeaseExpires
<1>7. ASSUME NEW q \in Procs, NEW s \in Sessions, LocalLapses(q, s)
      PROVE  RowInv'
  BY <1>7 DEF LocalLapses
<1>8. ASSUME NEW S \in ResetScopes, MemoryReset(S)
      PROVE  RowInv'
  BY <1>8, BoundsAssumption DEF MemoryReset
<1> QED BY <1>1, <1>2, <1>3, <1>4, <1>5, <1>6, <1>7, <1>8 DEF Operator, Clock

\* Every step keeps RowInv.
LEMMA RowStep == RowInv /\ [Next]_vars => RowInv'
<1> SUFFICES ASSUME RowInv, [Next]_vars PROVE RowInv'
  OBVIOUS
<1>1. CASE UNCHANGED vars
  BY <1>1 DEF RowInv, TypeOK, RunningIsReapable, PendingIsFresh, vars, rowVars, passVars
<1>2. CASE Next
  BY <1>2, RowEnqueue, RowReap, RowWork, RowDisturb DEF Next, PassStep, Actors
<1> QED BY <1>1, <1>2

\* Types hold in every reachable state, suspended, crashed or not.
THEOREM TypeCorrect == Spec => []TypeOK
<1>1. RowInv => TypeOK
  BY DEF RowInv
<1> QED BY RowInit, RowStep, <1>1, PTL DEF Spec

\* No interleaving leaves a running row that a reap cannot see
\* (list_stale_running_jobs skips rows without heartbeat_at and claimed_at).
THEOREM RunningReapable == Spec => []RunningIsReapable
<1>1. RowInv => RunningIsReapable
  BY DEF RowInv
<1> QED BY RowInit, RowStep, <1>1, PTL DEF Spec

\* A pending row is due, untried and unleased, whatever it overlapped with.
THEOREM PendingFresh == Spec => []PendingIsFresh
<1>1. RowInv => PendingIsFresh
  BY DEF RowInv
<1> QED BY RowInit, RowStep, <1>1, PTL DEF Spec

-----------------------------------------------------------------------------
(* Part 2: with timely heartbeats and no unlocked startup reap, one pass   *)
(* works at a time and its job is its own.                                 *)

\* The inductive strengthening: the lock makes the acting pass the only one
\* that is not idle, so the row it owns, and the verdict it read, are stable.
LeaseInv == /\ RowInv
            /\ OnePassAtATime
            /\ ExtractionOwnsRow
            /\ RetryBudget
            /\ VerdictIsCurrent

LEMMA LeaseInit == Init => LeaseInv
  BY RowInit DEF Init, LeaseInv, OnePassAtATime, ExtractionOwnsRow, Owns, Extracting,
                 RetryBudget, VerdictIsCurrent, Actors

\* Passes that return, or die, leave a free lock or the holder's lock, and
\* the rows as they were.
LEMMA LeaseReturn ==
  ASSUME LeaseInv, RowInv', NEW A \in SUBSET Actors, Return(A), UNCHANGED rowVars,
         \A p \in Passes \ A : pc[p] # "idle" => holder' = p
  PROVE  LeaseInv'
<1>1. \A p \in Passes : IF p \in A THEN pc'[p] = "idle"
                                   ELSE /\ pc'[p] = pc[p]
                                        /\ cur'[p] = cur[p]
                                        /\ exhausted'[p] = exhausted[p]
  BY DEF Return, Actors
<1>2. status' = status /\ attempts' = attempts /\ lease' = lease
  BY DEF rowVars
<1>3. OnePassAtATime'
  BY <1>1 DEF OnePassAtATime
<1>4. ExtractionOwnsRow'
  BY <1>1, <1>2 DEF LeaseInv, ExtractionOwnsRow, Owns, Extracting
<1>5. RetryBudget'
  BY <1>2 DEF LeaseInv, RetryBudget
<1>6. VerdictIsCurrent'
  BY <1>1, <1>2 DEF LeaseInv, VerdictIsCurrent
<1> QED BY <1>3, <1>4, <1>5, <1>6 DEF LeaseInv

\* A pass that is not idle holds the lock, so when it returns nobody else is
\* in the middle of anything.
LEMMA LeaseEndOfPass ==
  ASSUME LeaseInv, RowInv', NEW p \in Passes, pc[p] # "idle", Return({p}),
         UNCHANGED rowVars
  PROVE  LeaseInv'
<1>1. \A q \in Passes \ {p} : pc[q] = "idle"
  BY DEF LeaseInv, OnePassAtATime
<1>2. {p} \in SUBSET Actors
  BY DEF Actors
<1> QED BY <1>1, <1>2, LeaseReturn

\* Taking the lock and queueing sessions.
LEMMA LeaseEnqueue ==
  ASSUME LeaseInv, RowInv', Starters = {}, ~Stalls, NEW p \in Passes,
         \/ \E t \in Sessions \cup {NoSession}, S \in SUBSET Sessions : Begin(p, t, S)
         \/ \E s \in Sessions, force \in BOOLEAN : EnqueueRead(p, s, force)
         \/ EnqueueWrite(p)
         \/ InsertConflict(p)
         \/ EnqueueDone(p)
  PROVE  LeaseInv'
<1> USE DEF LeaseInv, RowInv, TypeOK, OnePassAtATime, ExtractionOwnsRow, Owns,
            Extracting, RetryBudget, VerdictIsCurrent, Actors, ControlStates, Goto,
            rowVars
<1>1. ASSUME NEW t \in Sessions \cup {NoSession}, NEW S \in SUBSET Sessions,
             Begin(p, t, S)
      PROVE  LeaseInv'
  BY <1>1, SetsAssumption DEF Begin, LockObtainable
<1>2. ASSUME NEW s \in Sessions, NEW force \in BOOLEAN, EnqueueRead(p, s, force)
      PROVE  LeaseInv'
  BY <1>2 DEF EnqueueRead
<1>3. CASE EnqueueWrite(p)
  BY <1>3 DEF EnqueueWrite, ResetRows
<1>4. CASE InsertConflict(p)
  BY <1>4, LeaseEndOfPass DEF InsertConflict
<1>5. CASE EnqueueDone(p)
  BY <1>5 DEF EnqueueDone
<1> HIDE DEF LeaseInv
<1> QED BY <1>1, <1>2, <1>3, <1>4, <1>5

\* Reaping: the reaping pass is alone, so nothing it fails has an owner.
LEMMA LeaseReap ==
  ASSUME LeaseInv, RowInv', Starters = {}, NEW p \in Passes, ReapStep(p)
  PROVE  LeaseInv'
<1> USE DEF LeaseInv, RowInv, TypeOK, OnePassAtATime, ExtractionOwnsRow, Owns,
            Extracting, RetryBudget, VerdictIsCurrent, Actors, ControlStates, Goto,
            rowVars
<1>1. CASE ReapList(p)
  BY <1>1 DEF ReapList
<1>2. ASSUME NEW s \in Sessions, ReapRead(p, s)
      PROVE  LeaseInv'
  <2>1. CASE status[s] = "running"
    BY <1>2, <2>1 DEF ReapRead
  <2>2. CASE status[s] # "running"
    BY <1>2, <2>2 DEF ReapRead
  <2> QED BY <2>1, <2>2
<1>3. CASE ReapWrite(p)
  BY <1>3, BoundsAssumption DEF ReapWrite, FailRow
<1>4. CASE ReapDone(p)
  BY <1>4 DEF ReapDone
<1> QED BY <1>1, <1>2, <1>3, <1>4 DEF ReapStep

\* Claiming, extracting and reporting the outcome.
LEMMA LeaseWork ==
  ASSUME LeaseInv, RowInv', Starters = {}, NEW p \in Passes,
         \/ \E s \in Sessions : ClaimSessionJob(p, s)
         \/ NothingToClaim(p)
         \/ StartExtraction(p)
         \/ StartFails(p)
         \/ ExtractionEnds(p, "complete")
         \/ ExtractionEnds(p, "failread")
         \/ CompleteSessionJob(p)
         \/ FailRead(p)
         \/ FailNothing(p)
         \/ FailWrite(p)
         \/ EndPass(p)
         \/ Beat(p)
         \/ BeatError(p)
  PROVE  LeaseInv'
<1> USE DEF LeaseInv, RowInv, TypeOK, OnePassAtATime, ExtractionOwnsRow, Owns,
            Extracting, RetryBudget, VerdictIsCurrent, Actors, ControlStates, Goto,
            rowVars, passVars
<1>1. ASSUME NEW s \in Sessions, ClaimSessionJob(p, s)
      PROVE  LeaseInv'
  <2>1. status[s] \in {"pending", "failed"}
    BY <1>1 DEF ClaimSessionJob, Claimable, Eligible, Newest, NewestPerProject
  <2>2. attempts[s] \in Nat /\ attempts[s] < MaxAttempts
    BY <2>1, BoundsAssumption DEF PendingIsFresh
  <2> QED BY <1>1, <2>1, <2>2, BoundsAssumption DEF ClaimSessionJob
<1>2. CASE NothingToClaim(p)
  BY <1>2, LeaseEndOfPass DEF NothingToClaim
<1>3. CASE StartExtraction(p)
  BY <1>3 DEF StartExtraction, RefreshLease
<1>4. CASE StartFails(p)
  BY <1>4 DEF StartFails
<1>5. CASE ExtractionEnds(p, "complete") \/ ExtractionEnds(p, "failread")
  BY <1>5 DEF ExtractionEnds
<1>6. CASE CompleteSessionJob(p)
  BY <1>6 DEF CompleteSessionJob, JobOver
<1>7. CASE FailRead(p)
  <2>1. (attempts[cur[p]] >= MaxAttempts) \in BOOLEAN
    OBVIOUS
  <2>2. Owns(p, cur[p])
    BY <1>7 DEF FailRead
  <2>3. VerdictIsCurrent'
    BY <1>7, <2>1, <2>2 DEF FailRead
  <2> QED BY <1>7, <2>3 DEF FailRead
<1>8. CASE FailWrite(p)
  BY <1>8, BoundsAssumption DEF FailWrite, JobOver, FailRow
<1>12. CASE FailNothing(p)
  BY <1>12 DEF FailNothing, JobOver
<1>9. CASE EndPass(p)
  BY <1>9, LeaseEndOfPass DEF EndPass
<1>10. CASE Beat(p)
  BY <1>10 DEF Beat, RefreshLease
<1>11. CASE BeatError(p)
  BY <1>11 DEF BeatError
<1> QED BY <1>1, <1>2, <1>3, <1>4, <1>5, <1>6, <1>7, <1>8, <1>9, <1>10, <1>11, <1>12

\* Exceptions, crashes, operators and time: they end owners or leave the
\* running rows alone, and a lease runs out only on a row nobody owns.
LEMMA LeaseDisturb ==
  ASSUME LeaseInv, RowInv', Starters = {}, ~Stalls,
         \/ \E a \in Actors : Abort(a)
         \/ \E q \in Procs : Crash(q)
         \/ Operator
         \/ Clock
  PROVE  LeaseInv'
<1> USE DEF LeaseInv, RowInv, TypeOK, OnePassAtATime, ExtractionOwnsRow, Owns,
            Extracting, RetryBudget, VerdictIsCurrent, Actors, ControlStates,
            rowVars, passVars
<1>1. ASSUME NEW a \in Actors, Abort(a)
      PROVE  LeaseInv'
  BY <1>1, LeaseEndOfPass DEF Abort
<1>2. ASSUME NEW q \in Procs, Crash(q)
      PROVE  LeaseInv'
  <2>1. \A p \in Passes : pc[p] # "idle" /\ ProcOf[p] # q => holder' = p
    BY <1>2, SetsAssumption DEF Crash
  <2> QED BY <1>2, <2>1, LeaseReturn DEF Crash
<1>3. ASSUME NEW S \in Scopes, RetryJobs(S)
      PROVE  LeaseInv'
  BY <1>3, BoundsAssumption DEF RetryJobs, ResetRows
<1>4. ASSUME NEW S \in Scopes, SkipJobs(S)
      PROVE  LeaseInv'
  BY <1>4 DEF SkipJobs
<1>5. ASSUME NEW s \in Sessions, BackoffElapses(s) \/ LeaseExpires(s)
      PROVE  LeaseInv'
  BY <1>5 DEF BackoffElapses, LeaseExpires
<1>6. ASSUME NEW q \in Procs, NEW s \in Sessions, LocalLapses(q, s)
      PROVE  LeaseInv'
  BY <1>6 DEF LocalLapses
<1>7. ASSUME NEW S \in ResetScopes, MemoryReset(S)
      PROVE  LeaseInv'
  <2>1. \A p \in Passes : pc[p] = "idle"
    BY <1>7, SetsAssumption DEF MemoryReset
  <2> QED BY <1>7, <2>1 DEF MemoryReset
<1> QED BY <1>1, <1>2, <1>3, <1>4, <1>5, <1>6, <1>7 DEF Operator, Clock

LEMMA LeaseStep ==
  ASSUME Starters = {}, ~Stalls
  PROVE  LeaseInv /\ [Next]_vars => LeaseInv'
<1> SUFFICES ASSUME LeaseInv, [Next]_vars PROVE LeaseInv'
  OBVIOUS
<1>1. RowInv'
  BY RowStep DEF LeaseInv
<1>2. CASE UNCHANGED vars
  BY <1>1, <1>2 DEF LeaseInv, OnePassAtATime, ExtractionOwnsRow, Owns, RetryBudget,
                    VerdictIsCurrent, vars, rowVars, passVars
<1>3. CASE Next
  BY <1>1, <1>3, LeaseEnqueue, LeaseReap, LeaseWork, LeaseDisturb
  DEF Next, PassStep
<1> QED BY <1>2, <1>3

\* A live extraction keeps its row and is alone with it: no reap, retry,
\* forced enqueue or second claim takes a job from the pass that runs it.
THEOREM ExtractionExclusive ==
  ASSUME Starters = {}, ~Stalls
  PROVE  Spec => []ExtractionOwnsRow
<1>1. LeaseInv => ExtractionOwnsRow
  BY DEF LeaseInv
<1>2. LeaseInv /\ [Next]_vars => LeaseInv'
  BY LeaseStep
<1> QED BY LeaseInit, <1>1, <1>2, PTL DEF Spec

\* The retry budget is never exceeded and never cut short.
THEOREM RetryBudgetKept ==
  ASSUME Starters = {}, ~Stalls
  PROVE  Spec => []RetryBudget
<1>1. LeaseInv => RetryBudget
  BY DEF LeaseInv
<1>2. LeaseInv /\ [Next]_vars => LeaseInv'
  BY LeaseStep
<1> QED BY LeaseInit, <1>1, <1>2, PTL DEF Spec

\* A failure report never acts on a stale reading of the row, although its
\* SELECT and its UPDATE are separate transactions.
THEOREM VerdictsCurrent ==
  ASSUME Starters = {}, ~Stalls
  PROVE  Spec => []VerdictIsCurrent
<1>1. LeaseInv => VerdictIsCurrent
  BY DEF LeaseInv
<1>2. LeaseInv /\ [Next]_vars => LeaseInv'
  BY LeaseStep
<1> QED BY LeaseInit, <1>1, <1>2, PTL DEF Spec

-----------------------------------------------------------------------------
(* Part 3: the queue implements JobLifecycle.                              *)

\* A step that leaves both row variables alone is a stutter of the abstract
\* specification; the others map to the abstract action they are named for.
LEMMA LifecycleStep ==
  ASSUME LeaseInv, Starters = {}, [Next]_vars
  PROVE  [Lifecycle!Next]_(Lifecycle!lifecycleVars)
<1> DEFINE Same == status' = status /\ attempts' = attempts
           Abs == [Lifecycle!Next]_(Lifecycle!lifecycleVars)
<1> SUFFICES Abs
  OBVIOUS
<1>0. Same => Abs
  BY DEF Lifecycle!lifecycleVars
<1> HIDE DEF Same, Abs
<1>a. ASSUME NEW s \in Sessions,
             \/ Lifecycle!Submit(s) \/ Lifecycle!Attempt(s)
             \/ Lifecycle!Succeed(s) \/ Lifecycle!Fail(s)
      PROVE  Abs
  BY <1>a DEF Abs, Lifecycle!Next
<1>b. ASSUME NEW S \in SUBSET Sessions,
             Lifecycle!Restart(S) \/ Lifecycle!Abandon(S) \/ Lifecycle!Forget(S)
      PROVE  Abs
  BY <1>b DEF Abs, Lifecycle!Next
<1>t. /\ status \in [Sessions -> Statuses]
      /\ attempts \in [Sessions -> 0..AttemptCap]
      /\ \A a \in Actors : pc[a] \in Extracting \cup {"insert", "update", "reapwrite"}
                             => cur[a] \in Sessions
  BY DEF LeaseInv, RowInv, TypeOK
<1>1. CASE UNCHANGED vars
  BY <1>0, <1>1 DEF Same, vars, rowVars
<1>2. ASSUME NEW p \in Passes,
             \/ \E t \in Sessions \cup {NoSession}, S \in SUBSET Sessions : Begin(p, t, S)
             \/ \E s \in Sessions, force \in BOOLEAN : EnqueueRead(p, s, force)
             \/ InsertConflict(p) \/ EnqueueDone(p) \/ NothingToClaim(p)
             \/ StartExtraction(p) \/ StartFails(p)
             \/ ExtractionEnds(p, "complete") \/ ExtractionEnds(p, "failread")
             \/ FailRead(p) \/ FailNothing(p) \/ EndPass(p) \/ Beat(p) \/ BeatError(p)
      PROVE  Abs
  <2>1. Same
    BY <1>2 DEF Same, Begin, EnqueueRead, InsertConflict, EnqueueDone, NothingToClaim,
                StartExtraction, StartFails, ExtractionEnds, FailRead, FailNothing,
                EndPass, Beat, BeatError, rowVars
  <2> QED BY <1>0, <2>1
<1>3. ASSUME NEW p \in Passes, EnqueueWrite(p)
      PROVE  Abs
  <2>1. cur[p] \in Sessions
    BY <1>3, <1>t DEF EnqueueWrite, Actors
  <2>2. CASE ResetRows({cur[p]})
    <3>1. Lifecycle!Submit(cur[p])
      BY <1>t, <2>1, <2>2 DEF ResetRows, Lifecycle!Submit
    <3> QED BY <1>a, <2>1, <3>1
  <2>3. CASE ResetRows({})
    <3>1. Same
      BY <1>t, <2>3 DEF ResetRows, Same
    <3> QED BY <1>0, <3>1
  <2> QED BY <1>3, <2>1, <2>2, <2>3 DEF EnqueueWrite
<1>4. ASSUME NEW p \in Passes, NEW s \in Sessions, ClaimSessionJob(p, s)
      PROVE  Abs
  <2>1. status[s] \in {"pending", "failed"}
    BY <1>4 DEF ClaimSessionJob, Claimable, Eligible, Newest, NewestPerProject
  <2>2. attempts[s] < MaxAttempts
    BY <2>1, BoundsAssumption DEF LeaseInv, RowInv, RetryBudget, PendingIsFresh
  <2>3. Lifecycle!Attempt(s)
    BY <1>4, <2>1, <2>2 DEF ClaimSessionJob, Lifecycle!Attempt
  <2> QED BY <1>a, <2>3
<1>5. ASSUME NEW p \in Passes, CompleteSessionJob(p)
      PROVE  Abs
  <2>1. cur[p] \in Sessions /\ Owns(p, cur[p])
    BY <1>5, <1>t DEF CompleteSessionJob, Owns, Extracting, Actors
  <2>2. status[cur[p]] = "running"
    BY <2>1 DEF LeaseInv, ExtractionOwnsRow
  <2>3. Lifecycle!Succeed(cur[p])
    BY <1>5, <1>t, <2>1, <2>2 DEF CompleteSessionJob, Stored, Lifecycle!Succeed
  <2> QED BY <1>a, <2>1, <2>3
<1>6. ASSUME NEW p \in Passes, ReapWrite(p) \/ FailWrite(p)
      PROVE  Abs
  <2>1. cur[p] \in Sessions /\ pc[p] \in {"reapwrite", "failwrite"}
    BY <1>6, <1>t DEF ReapWrite, FailWrite, Extracting, Actors
  <2>2. /\ status[cur[p]] = "running"
        /\ exhausted[p] <=> attempts[cur[p]] >= MaxAttempts
    BY <2>1 DEF LeaseInv, VerdictIsCurrent
  <2>3. FailRow(cur[p], exhausted[p])
    BY <1>6, <2>1, <2>2 DEF ReapWrite, FailWrite, Stored
  <2>4. attempts[cur[p]] \in Nat /\ MaxAttempts \in Nat
    BY <1>t, <2>1, BoundsAssumption
  <2>5. (attempts[cur[p]] < MaxAttempts) <=> ~exhausted[p]
    BY <2>2, <2>4
  <2>6. Lifecycle!Fail(cur[p])
    BY <2>2, <2>3, <2>5 DEF FailRow, Lifecycle!Fail
  <2> QED BY <1>a, <2>1, <2>6
<1>7. ASSUME NEW p \in Passes,
             \/ ReapList(p) \/ (\E s \in Sessions : ReapRead(p, s)) \/ ReapDone(p)
      PROVE  Abs
  <2>1. Same
    BY <1>7 DEF Same, ReapList, ReapRead, ReapDone, rowVars
  <2> QED BY <1>0, <2>1
<1>8. CASE Clock \/ (\E a \in Actors : Abort(a)) \/ (\E q \in Procs : Crash(q))
  <2>1. Same
    BY <1>8 DEF Same, Clock, BackoffElapses, LeaseExpires, LocalLapses, Abort, Crash,
                rowVars
  <2> QED BY <1>0, <2>1
<1>9. ASSUME NEW S \in Scopes, RetryJobs(S)
      PROVE  Abs
  <2> DEFINE hit == {s \in S : status[s] \in {"failed", "dead_letter"}}
  <2>1. hit \in SUBSET Sessions
    BY SetsAssumption DEF Scopes, ResetScopes
  <2>2. Lifecycle!Restart(hit)
    BY <1>9, <2>1 DEF RetryJobs, ResetRows, Lifecycle!Restart
  <2> QED BY <1>b, <2>1, <2>2
<1>10. ASSUME NEW S \in Scopes, SkipJobs(S)
       PROVE  Abs
  <2> DEFINE hit == {s \in S : status[s] = "dead_letter"}
  <2>1. hit \in SUBSET Sessions
    BY SetsAssumption DEF Scopes, ResetScopes
  <2>2. Lifecycle!Abandon(hit)
    BY <1>10, <2>1 DEF SkipJobs, Lifecycle!Abandon
  <2> QED BY <1>b, <2>1, <2>2
<1>11. ASSUME NEW S \in ResetScopes, MemoryReset(S)
       PROVE  Abs
  <2>1. S \in SUBSET Sessions
    BY DEF ResetScopes
  <2>2. Lifecycle!Forget(S)
    BY <1>11 DEF MemoryReset, Lifecycle!Forget
  <2> QED BY <1>b, <2>1, <2>2
<1>12. CASE Next
  BY <1>2, <1>3, <1>4, <1>5, <1>6, <1>7, <1>8, <1>9, <1>10, <1>11, <1>12
  DEF Next, PassStep, ReapStep, Operator
<1> QED BY <1>1, <1>12

\* With timely heartbeats the queue is exactly the abstract life cycle: each
\* attempt has one outcome, at most MaxAttempts are made, and a finished job
\* moves only when it is submitted again or an operator restarts it.
THEOREM QueueImplementsLifecycle ==
  ASSUME Starters = {}, ~Stalls
  PROVE  Spec => ImplementsLifecycle
<1>1. Init => Lifecycle!Init
  BY DEF Init, Lifecycle!Init
<1>2. LeaseInv /\ [Next]_vars => LeaseInv'
  BY LeaseStep
<1>3. LeaseInv /\ [Next]_vars => [Lifecycle!Next]_(Lifecycle!lifecycleVars)
  BY LifecycleStep
<1> QED BY LeaseInit, <1>1, <1>2, <1>3, PTL DEF Spec, ImplementsLifecycle, Lifecycle!Spec
=============================================================================
