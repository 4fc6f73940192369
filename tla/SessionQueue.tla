---------------------------- MODULE SessionQueue ----------------------------
(***************************************************************************)
(* The durable session job queue (sessions/catalog.py) and the ingest      *)
(* passes that work it (server/daemon.py, run_ingest_once).                *)
(*                                                                         *)
(* One action is one SQLite transaction or one in-memory step of a pass.   *)
(* Python's sqlite3 opens a transaction at the first INSERT or UPDATE, so  *)
(* a SELECT that precedes it is a step of its own: enqueue_session_job and *)
(* fail_session_job read in one step and write in the next, while          *)
(* claim_session_jobs (BEGIN IMMEDIATE) and retry / skip are one step.     *)
(*                                                                         *)
(* Wall-clock times are kept as what the code compares them for: backoff   *)
(* holds the jobs whose available_at is still ahead, lease says whether    *)
(* COALESCE(heartbeat_at, claimed_at) is inside the running lease, and     *)
(* local holds the process-local leases that are still fresh.              *)
(***************************************************************************)
EXTENDS Naturals, FiniteSets

CONSTANTS
  Sessions,      \* run ids
  Projects,      \* registered project paths
  ProjectOf,     \* repo_path of each session
  StartTime,     \* start_time of each session, as a rank
  Passes,        \* callers of run_ingest_once (daemon loop, API threads)
  Starters,      \* serve processes running their startup reap
  Procs,         \* operating system processes
  ProcOf,        \* process of each pass and starter
  MaxAttempts,   \* max_attempts of enqueue_session_job
  AttemptCap,    \* bound: no claim raises attempts above it
  Quota,         \* bound: number of disturbances in a behaviour
  Stalls,        \* TRUE: a live pass may be suspended past its lock and lease
  NoSession,     \* no run_id
  NoPass         \* the writer lock is free

Actors == Passes \cup Starters

ASSUME SetsAssumption ==
  /\ ProjectOf \in [Sessions -> Projects]
  /\ StartTime \in [Sessions -> Nat]
  /\ ProcOf \in [Actors -> Procs]
  /\ NoSession \notin Sessions
  /\ NoPass \notin Passes
  /\ Passes \cap Starters = {}

ASSUME BoundsAssumption ==
  /\ MaxAttempts \in Nat \ {0}
  /\ AttemptCap \in Nat
  /\ AttemptCap >= MaxAttempts
  /\ Quota \in Nat
  /\ Stalls \in BOOLEAN

VARIABLES
  status,    \* session_jobs.status; "absent" when there is no row
  attempts,  \* session_jobs.attempts
  backoff,   \* jobs whose available_at is in the future
  lease,     \* heartbeat_at / claimed_at: "none", "fresh" or "expired"
  local,     \* _LOCAL_RUNNING_LEASES of each process, fresh entries
  holder,    \* the pass the writer lock names
  pc,        \* control state of each pass and starter
  target,    \* run_id a pass was asked for
  cur,       \* the session a pass is working on
  todo,      \* sessions still to enqueue, then stale sessions still to fail
  exhausted, \* what fail_session_job read: attempts >= max_attempts
  served,    \* the pass has processed a job
  beating,   \* the job heartbeat thread of the pass is alive
  quota      \* disturbances left

rowVars  == <<status, attempts, backoff, lease>>
passVars == <<pc, target, cur, todo, exhausted, served, beating>>
vars     == <<rowVars, local, holder, passVars, quota>>

Statuses == {"absent", "pending", "running", "done", "failed", "dead_letter"}

\* Control states in which a pass owns a claimed job.
Extracting == {"start", "extract", "complete", "failread", "failwrite"}

ControlStates == Extracting \cup
  {"idle", "enqueue", "insert", "update", "reap", "reaping", "reapwrite", "claim"}

TypeOK ==
  /\ status \in [Sessions -> Statuses]
  /\ attempts \in [Sessions -> 0..AttemptCap]
  /\ backoff \in SUBSET Sessions
  /\ lease \in [Sessions -> {"none", "fresh", "expired"}]
  /\ local \in [Procs -> SUBSET Sessions]
  /\ holder \in Passes \cup {NoPass}
  /\ pc \in [Actors -> ControlStates]
  /\ target \in [Actors -> Sessions \cup {NoSession}]
  /\ cur \in [Actors -> Sessions \cup {NoSession}]
  /\ todo \in [Actors -> SUBSET Sessions]
  /\ exhausted \in [Actors -> BOOLEAN]
  /\ served \in [Actors -> BOOLEAN]
  /\ beating \in [Actors -> BOOLEAN]
  /\ quota \in 0..Quota
  /\ \A a \in Actors :
       pc[a] \in Extracting \cup {"insert", "update", "reapwrite"}
         => cur[a] \in Sessions

Init ==
  /\ status = [s \in Sessions |-> "absent"]
  /\ attempts = [s \in Sessions |-> 0]
  /\ backoff = {}
  /\ lease = [s \in Sessions |-> "none"]
  /\ local = [q \in Procs |-> {}]
  /\ holder = NoPass
  /\ pc = [a \in Actors |-> "idle"]
  /\ target = [a \in Actors |-> NoSession]
  /\ cur = [a \in Actors |-> NoSession]
  /\ todo = [a \in Actors |-> {}]
  /\ exhausted = [a \in Actors |-> FALSE]
  /\ served = [a \in Actors |-> FALSE]
  /\ beating = [a \in Actors |-> FALSE]
  /\ quota = Quota

-----------------------------------------------------------------------------
(* Helpers *)

\* Every disturbance from outside the pass is counted against Quota.
Disturb == /\ quota > 0
           /\ quota' = quota - 1

Goto(a, label) == pc' = [pc EXCEPT ![a] = label]

\* The sessions that have a row: an UPDATE of another one changes nothing.
Stored == {s \in Sessions : status[s] # "absent"}

\* Mutant of ResetRows: a running job keeps its status but loses its lease.
ResetSparingRunning(S) ==
  /\ status' = [s \in Sessions |-> IF s \in S /\ status[s] # "running"
                                      THEN "pending" ELSE status[s]]
  /\ attempts' = [s \in Sessions |-> IF s \in S THEN 0 ELSE attempts[s]]
  /\ backoff' = backoff \ S
  /\ lease' = [s \in Sessions |-> IF s \in S THEN "none" ELSE lease[s]]

\* The rows of S become fresh pending jobs.
ResetRows(S) ==
  /\ status' = [s \in Sessions |-> IF s \in S THEN "pending" ELSE status[s]]
  /\ attempts' = [s \in Sessions |-> IF s \in S THEN 0 ELSE attempts[s]]
  /\ backoff' = backoff \ S
  /\ lease' = [s \in Sessions |-> IF s \in S THEN "none" ELSE lease[s]]

\* The UPDATE of fail_session_job; lastTry is what its SELECT found.
FailRow(s, lastTry) ==
  /\ status' = [status EXCEPT ![s] = IF lastTry THEN "dead_letter" ELSE "failed"]
  /\ backoff' = IF lastTry THEN backoff \ {s} ELSE backoff \cup {s}
  /\ UNCHANGED <<attempts, lease>>

\* The claimed job of pass p is forgotten by its process (finally clause).
ClearLocal(p) == local' = [local EXCEPT ![ProcOf[p]] = @ \ {cur[p]}]

\* ServiceLock.release: the lock file is deleted unless it names another
\* process; a pass of the same process is not told apart.
Release(p) ==
  holder' = IF holder # NoPass /\ ProcOf[holder] # ProcOf[p]
              THEN holder ELSE NoPass

\* The call returns: its locals are gone.
Return(A) ==
  /\ pc' = [a \in Actors |-> IF a \in A THEN "idle" ELSE pc[a]]
  /\ target' = [a \in Actors |-> IF a \in A THEN NoSession ELSE target[a]]
  /\ cur' = [a \in Actors |-> IF a \in A THEN NoSession ELSE cur[a]]
  /\ todo' = [a \in Actors |-> IF a \in A THEN {} ELSE todo[a]]
  /\ exhausted' = [a \in Actors |-> IF a \in A THEN FALSE ELSE exhausted[a]]
  /\ served' = [a \in Actors |-> IF a \in A THEN FALSE ELSE served[a]]
  /\ beating' = [a \in Actors |-> IF a \in A THEN FALSE ELSE beating[a]]

\* A live pass that owns session s.
Owns(p, s) == pc[p] \in Extracting /\ cur[p] = s

DeadLettered(project) ==
  \E s \in Sessions : ProjectOf[s] = project /\ status[s] = "dead_letter"

\* Mutant of Eligible: failed jobs are forgotten.
EligibleOnce == {s \in Sessions : status[s] = "pending" /\ s \notin backoff}

Eligible == {s \in Sessions : status[s] \in {"pending", "failed"} /\ s \notin backoff}

Newest(S) == {s \in S : \A t \in S : StartTime[t] <= StartTime[s]}

\* Rank 1 of every project (ROW_NUMBER OVER PARTITION BY repo_path).
NewestPerProject ==
  {s \in Eligible : s \in Newest({t \in Eligible : ProjectOf[t] = ProjectOf[s]})}

\* claim_session_jobs(limit=1): a run_id pass takes its target whatever the
\* dead letters; a backlog pass takes the newest rank-1 row of the projects
\* that have no dead letter.
Claimable(p) ==
  IF target[p] # NoSession
    THEN Eligible \cap {target[p]}
    ELSE Newest({s \in NewestPerProject : ~DeadLettered(ProjectOf[s])})

\* Mutant of StaleFor: the test of the process-local lease is inverted.
StaleOwn(a) == {s \in Sessions : /\ status[s] = "running"
                                /\ lease[s] = "expired"
                                /\ s \in local[ProcOf[a]]}

\* Jobs list_stale_running_jobs reports to actor a.
StaleFor(a) == {s \in Sessions : /\ status[s] = "running"
                                 /\ lease[s] = "expired"
                                 /\ s \notin local[ProcOf[a]]}

-----------------------------------------------------------------------------
(* One ingest pass: run_ingest_once under the writer lock *)

\* Mutant of LockObtainable: the caller ignores the lock.
LockIgnored(p) == p \in Passes

\* A stalled holder's lock heartbeat is older than stale_seconds, so another
\* pass may reclaim the file of a process that is still alive.
LockObtainable(p) == holder = NoPass \/ (Stalls /\ holder # p)

\* Take the lock.  t is the requested run_id; S the sessions discovery found
\* (for a run_id: the session itself, unless no registered project matches).
Begin(p, t, S) ==
  /\ pc[p] = "idle"
  /\ LockObtainable(p)
  /\ t # NoSession => S \subseteq {t}
  /\ IF t = NoSession /\ S = {} THEN UNCHANGED quota ELSE Disturb
  /\ holder' = p
  /\ Goto(p, "enqueue")
  /\ target' = [target EXCEPT ![p] = t]
  /\ todo' = [todo EXCEPT ![p] = S]
  /\ served' = [served EXCEPT ![p] = FALSE]
  /\ UNCHANGED <<rowVars, local, cur, exhausted, beating>>

\* enqueue_session_job, the SELECT: a pending, running or done job is left
\* alone unless the call is forced (run_id, --force, or a changed session).
EnqueueRead(p, s, force) ==
  /\ pc[p] = "enqueue"
  /\ s \in todo[p]
  /\ target[p] # NoSession => force
  /\ todo' = [todo EXCEPT ![p] = @ \ {s}]
  /\ IF ~force /\ status[s] \in {"pending", "running", "done"}
       THEN UNCHANGED <<pc, cur>>
       ELSE /\ cur' = [cur EXCEPT ![p] = s]
            /\ Goto(p, IF status[s] = "absent" THEN "insert" ELSE "update")
  /\ UNCHANGED <<rowVars, local, holder, target, exhausted, served, beating, quota>>

\* enqueue_session_job, the INSERT or UPDATE.  UNIQUE(run_id, job_type)
\* refuses a second INSERT: the exception ends the pass (Abort).
EnqueueWrite(p) ==
  /\ \/ pc[p] = "insert" /\ status[cur[p]] = "absent" /\ ResetRows({cur[p]})
     \/ pc[p] = "update" /\ ResetRows({cur[p]} \cap Stored)
  /\ Goto(p, "enqueue")
  /\ UNCHANGED <<local, holder, target, cur, todo, exhausted, served, beating, quota>>

EnqueueDone(p) ==
  /\ pc[p] = "enqueue"
  /\ todo[p] = {}
  /\ Goto(p, "reap")
  /\ UNCHANGED <<rowVars, local, holder, target, cur, todo, exhausted, served,
                 beating, quota>>

\* reap_stale_running_jobs, the listing.
ReapList(a) ==
  /\ pc[a] = "reap"
  /\ todo' = [todo EXCEPT ![a] = StaleFor(a)]
  /\ Goto(a, "reaping")
  /\ UNCHANGED <<rowVars, local, holder, target, cur, exhausted, served, beating, quota>>

\* fail_session_job(require_status="running") for one listed job, the SELECT.
ReapRead(a, s) ==
  /\ pc[a] = "reaping"
  /\ s \in todo[a]
  /\ todo' = [todo EXCEPT ![a] = @ \ {s}]
  /\ IF status[s] = "running"
       THEN /\ cur' = [cur EXCEPT ![a] = s]
            /\ exhausted' = [exhausted EXCEPT ![a] = attempts[s] >= MaxAttempts]
            /\ Goto(a, "reapwrite")
       ELSE UNCHANGED <<cur, exhausted, pc>>
  /\ UNCHANGED <<rowVars, local, holder, target, served, beating, quota>>

\* fail_session_job(require_status="running"), the UPDATE.
ReapWrite(a) ==
  /\ pc[a] = "reapwrite"
  /\ IF status[cur[a]] = "running"
       THEN FailRow(cur[a], exhausted[a])
       ELSE UNCHANGED rowVars
  /\ Goto(a, "reaping")
  /\ UNCHANGED <<local, holder, target, cur, todo, exhausted, served, beating, quota>>

\* A pass goes on to claim; a starting server is done.
ReapDone(a) ==
  /\ pc[a] = "reaping"
  /\ todo[a] = {}
  /\ IF a \in Starters
       THEN Return({a})
       ELSE /\ Goto(a, "claim")
            /\ UNCHANGED <<target, cur, todo, exhausted, served, beating>>
  /\ UNCHANGED <<rowVars, local, holder, quota>>

\* claim_session_jobs(limit=1) and note_local_running_job.
ClaimSessionJob(p, s) ==
  /\ pc[p] = "claim"
  /\ s \in Claimable(p)
  /\ attempts[s] < AttemptCap
  /\ status' = [status EXCEPT ![s] = "running"]
  /\ attempts' = [attempts EXCEPT ![s] = @ + 1]
  /\ lease' = [lease EXCEPT ![s] = "fresh"]
  /\ local' = [local EXCEPT ![ProcOf[p]] = @ \cup {s}]
  /\ cur' = [cur EXCEPT ![p] = s]
  /\ Goto(p, "start")
  /\ UNCHANGED <<backoff, holder, target, todo, exhausted, served, beating, quota>>

\* Nothing left to claim: the pass releases the lock and returns.
NothingToClaim(p) ==
  /\ pc[p] = "claim"
  /\ \A s \in Claimable(p) : attempts[s] >= AttemptCap
  /\ Release(p)
  /\ Return({p})
  /\ UNCHANGED <<rowVars, local, quota>>

\* The loop ends: max_sessions jobs (at least one) were processed, or the
\* call was made with no_extract.
EndPass(p) ==
  /\ pc[p] = "reap"
  /\ IF served[p] THEN UNCHANGED quota ELSE Disturb
  /\ Release(p)
  /\ Return({p})
  /\ UNCHANGED <<rowVars, local>>

\* The second INSERT of a row raises IntegrityError out of the pass.
InsertConflict(p) ==
  /\ pc[p] = "insert"
  /\ status[cur[p]] # "absent"
  /\ Release(p)
  /\ Return({p})
  /\ UNCHANGED <<rowVars, local, quota>>

-----------------------------------------------------------------------------
(* One claimed job: _process_one_job and its heartbeat thread *)

\* heartbeat_session_job on the session of pass p: any running row is
\* refreshed, whoever claimed it.
RefreshLease(p) ==
  /\ lease' = [lease EXCEPT ![cur[p]] = "fresh"]
  /\ local' = [local EXCEPT ![ProcOf[p]] = @ \cup {cur[p]}]

\* The agent starts; _start_job_heartbeat beats once, starts its thread and
\* does not look at the answer.
StartExtraction(p) ==
  /\ pc[p] = "start"
  /\ IF status[cur[p]] = "running" THEN RefreshLease(p) ELSE UNCHANGED <<lease, local>>
  /\ beating' = [beating EXCEPT ![p] = TRUE]
  /\ Goto(p, "extract")
  /\ UNCHANGED <<status, attempts, backoff, holder, target, cur, todo, exhausted,
                 served, quota>>

\* No session_path, an unknown source profile, or the runtime cannot be built.
StartFails(p) ==
  /\ pc[p] = "start"
  /\ Goto(p, "failread")
  /\ UNCHANGED <<rowVars, local, holder, target, cur, todo, exhausted, served,
                 beating, quota>>

\* One turn of the heartbeat thread: it ends once the row is not running.
Beat(p) ==
  /\ pc[p] = "extract"
  /\ beating[p]
  /\ IF status[cur[p]] = "running"
       THEN RefreshLease(p) /\ UNCHANGED beating
       ELSE beating' = [beating EXCEPT ![p] = FALSE] /\ UNCHANGED <<lease, local>>
  /\ UNCHANGED <<status, attempts, backoff, holder, pc, target, cur, todo,
                 exhausted, served, quota>>

\* The heartbeat UPDATE raises sqlite3.Error: only the local lease is renewed.
BeatError(p) ==
  /\ pc[p] = "extract"
  /\ beating[p]
  /\ local' = [local EXCEPT ![ProcOf[p]] = @ \cup {cur[p]}]
  /\ UNCHANGED <<rowVars, holder, passVars, quota>>

\* agent.ingest returns or raises; the heartbeat is stopped either way.
ExtractionEnds(p, label) ==
  /\ pc[p] = "extract"
  /\ beating' = [beating EXCEPT ![p] = FALSE]
  /\ Goto(p, label)
  /\ UNCHANGED <<rowVars, local, holder, target, cur, todo, exhausted, served, quota>>

\* The job is over for this pass, which goes round its loop.
JobOver(p) ==
  /\ ClearLocal(p)
  /\ served' = [served EXCEPT ![p] = TRUE]
  /\ Goto(p, "reap")
  /\ UNCHANGED <<holder, target, cur, todo, exhausted, beating, quota>>

\* complete_session_job: by run_id alone, whatever the row's status.
CompleteSessionJob(p) ==
  /\ pc[p] = "complete"
  /\ status' = [s \in Sessions |-> IF s \in {cur[p]} \cap Stored
                                     THEN "done" ELSE status[s]]
  /\ UNCHANGED <<attempts, backoff, lease>>
  /\ JobOver(p)

\* fail_session_job without require_status, the SELECT.
FailRead(p) ==
  /\ pc[p] = "failread"
  /\ cur[p] \in Stored
  /\ exhausted' = [exhausted EXCEPT ![p] = attempts[cur[p]] >= MaxAttempts]
  /\ Goto(p, "failwrite")
  /\ UNCHANGED <<rowVars, local, holder, target, cur, todo, served, beating, quota>>

\* The SELECT found no row: fail_session_job returns False.
FailNothing(p) ==
  /\ pc[p] = "failread"
  /\ cur[p] \notin Stored
  /\ UNCHANGED rowVars
  /\ JobOver(p)

\* fail_session_job without require_status, the UPDATE.
FailWrite(p) ==
  /\ pc[p] = "failwrite"
  /\ IF cur[p] \in Stored THEN FailRow(cur[p], exhausted[p]) ELSE UNCHANGED rowVars
  /\ JobOver(p)

-----------------------------------------------------------------------------
(* Failures, operators and time *)

\* An exception (a locked database, an unreadable source) leaves the pass:
\* the finally clauses clear the local lease and release the lock.
Abort(a) ==
  /\ pc[a] # "idle"
  /\ Disturb
  /\ IF pc[a] \in Extracting THEN ClearLocal(a) ELSE UNCHANGED local
  /\ IF a \in Passes THEN Release(a) ELSE UNCHANGED holder
  /\ Return({a})
  /\ UNCHANGED rowVars

\* A process dies: every pass and lease in it is gone, rows stay, and its
\* lock file names a dead pid.
Crash(q) ==
  /\ \E a \in Actors : ProcOf[a] = q /\ pc[a] # "idle"
  /\ Disturb
  /\ Return({a \in Actors : ProcOf[a] = q})
  /\ local' = [local EXCEPT ![q] = {}]
  /\ holder' = IF holder # NoPass /\ ProcOf[holder] = q THEN NoPass ELSE holder
  /\ UNCHANGED rowVars

\* A serve process reaps once before its daemon loop, without the lock.
StartupReap(a) ==
  /\ pc[a] = "idle"
  /\ Disturb
  /\ Goto(a, "reap")
  /\ UNCHANGED <<rowVars, local, holder, target, cur, todo, exhausted, served, beating>>

\* What one call names: a project or everything; retry and skip also a job.
ResetScopes == {Sessions} \cup {{s \in Sessions : ProjectOf[s] = r} : r \in Projects}
Scopes == {{s} : s \in Sessions} \cup ResetScopes

\* Mutant of RetryJobs: a running job is retried as well.
RetryRunningJobs(S) ==
  LET hit == {s \in S : status[s] \in {"running", "failed", "dead_letter"}}
  IN  /\ hit # {}
      /\ Disturb
      /\ ResetRows(hit)
      /\ UNCHANGED <<local, holder, passVars>>

\* retry_session_job, retry_project_jobs, retry_all_dead_letter_jobs.
RetryJobs(S) ==
  LET hit == {s \in S : status[s] \in {"failed", "dead_letter"}}
  IN  /\ hit # {}
      /\ Disturb
      /\ ResetRows(hit)
      /\ UNCHANGED <<local, holder, passVars>>

\* Mutant of SkipJobs: a failed job is skipped as well.
SkipFailedJobs(S) ==
  LET hit == {s \in S : status[s] \in {"failed", "dead_letter"}}
  IN  /\ hit # {}
      /\ Disturb
      /\ status' = [s \in Sessions |-> IF s \in hit THEN "done" ELSE status[s]]
      /\ UNCHANGED <<attempts, backoff, lease, local, holder, passVars>>

\* skip_session_job, skip_project_jobs, skip_all_dead_letter_jobs.
SkipJobs(S) ==
  LET hit == {s \in S : status[s] = "dead_letter"}
  IN  /\ hit # {}
      /\ Disturb
      /\ status' = [s \in Sessions |-> IF s \in hit THEN "done" ELSE status[s]]
      /\ UNCHANGED <<attempts, backoff, lease, local, holder, passVars>>

\* api_memory_reset: under the writer lock, the rows of a project or all rows
\* are deleted in one transaction.  A lock it had to reclaim is gone as well.
MemoryReset(S) ==
  /\ holder = NoPass \/ Stalls
  /\ Disturb
  /\ status' = [s \in Sessions |-> IF s \in S THEN "absent" ELSE status[s]]
  /\ attempts' = [s \in Sessions |-> IF s \in S THEN 0 ELSE attempts[s]]
  /\ backoff' = backoff \ S
  /\ lease' = [s \in Sessions |-> IF s \in S THEN "none" ELSE lease[s]]
  /\ holder' = NoPass
  /\ UNCHANGED <<local, passVars>>

\* available_at passes.
BackoffElapses(s) ==
  /\ s \in backoff
  /\ backoff' = backoff \ {s}
  /\ UNCHANGED <<status, attempts, lease, local, holder, passVars, quota>>

\* RUNNING_JOB_LEASE_SECONDS pass without a heartbeat.  A live pass beats
\* four times as often as that, so only a stalled one lets its lease run out.
LeaseExpires(s) ==
  /\ status[s] = "running"
  /\ lease[s] = "fresh"
  /\ Stalls \/ \A p \in Passes : ~Owns(p, s)
  /\ lease' = [lease EXCEPT ![s] = "expired"]
  /\ UNCHANGED <<status, attempts, backoff, local, holder, passVars, quota>>

\* The same for the process-local lease.
LocalLapses(q, s) ==
  /\ Stalls
  /\ s \in local[q]
  /\ local' = [local EXCEPT ![q] = @ \ {s}]
  /\ UNCHANGED <<rowVars, holder, passVars, quota>>

-----------------------------------------------------------------------------
(* The specification *)

\* What a pass or a starter does by itself once called.
ReapStep(a) ==
  \/ ReapList(a)
  \/ \E s \in Sessions : ReapRead(a, s)
  \/ ReapWrite(a)
  \/ ReapDone(a)

PassStep(p) ==
  \/ \E s \in Sessions, force \in BOOLEAN : EnqueueRead(p, s, force)
  \/ EnqueueWrite(p)
  \/ InsertConflict(p)
  \/ EnqueueDone(p)
  \/ ReapStep(p)
  \/ \E s \in Sessions : ClaimSessionJob(p, s)
  \/ NothingToClaim(p)
  \/ StartExtraction(p)
  \/ StartFails(p)
  \/ ExtractionEnds(p, "complete")
  \/ ExtractionEnds(p, "failread")
  \/ CompleteSessionJob(p)
  \/ FailRead(p)
  \/ FailNothing(p)
  \/ FailWrite(p)

Operator == \/ \E S \in Scopes : RetryJobs(S) \/ SkipJobs(S)
            \/ \E S \in ResetScopes : MemoryReset(S)

Clock == \/ \E s \in Sessions : BackoffElapses(s) \/ LeaseExpires(s)
         \/ \E q \in Procs, s \in Sessions : LocalLapses(q, s)

Next ==
  \/ \E p \in Passes :
       \/ \E t \in Sessions \cup {NoSession}, S \in SUBSET Sessions : Begin(p, t, S)
       \/ PassStep(p)
       \/ EndPass(p)
       \/ Beat(p)
       \/ BeatError(p)
  \/ \E a \in Starters : StartupReap(a) \/ ReapStep(a)
  \/ \E a \in Actors : Abort(a)
  \/ \E q \in Procs : Crash(q)
  \/ Operator
  \/ Clock

Spec == Init /\ [][Next]_vars

\* The daemon keeps starting backlog passes, a running pass goes on, and
\* time passes.  Nothing forces new work, operators, crashes or stalls.
Fairness ==
  /\ WF_vars(\E p \in Passes : Begin(p, NoSession, {}))
  /\ \A p \in Passes : WF_vars(PassStep(p))
  /\ \A a \in Starters : WF_vars(ReapStep(a))
  /\ \A s \in Sessions : WF_vars(BackoffElapses(s)) /\ WF_vars(LeaseExpires(s))

FairSpec == Spec /\ Fairness
-----------------------------------------------------------------------------
(* Properties that hold whatever is suspended, killed or retried *)

\* Every running row has a lease time, so a reap can always find it: no
\* interleaving leaves a job running that list_stale_running_jobs skips for
\* its NULL heartbeat_at and claimed_at.
RunningIsReapable == \A s \in Sessions : status[s] = "running" => lease[s] # "none"

\* A pending row is really fresh: whatever half-finished fail or reap it
\* overlaps with, it is due at once, has no attempt counted and no lease.
PendingIsFresh ==
  \A s \in Sessions :
    status[s] = "pending" => s \notin backoff /\ attempts[s] = 0 /\ lease[s] = "none"

(* Properties of the undisturbed lease: ~Stalls and no startup reap *)

\* The writer lock serialises passes.
OnePassAtATime == \A p \in Passes : pc[p] # "idle" => holder = p

\* fail_session_job writes what it read: between its SELECT and its UPDATE
\* the row stays running and its attempts stay what the verdict was made of.
VerdictIsCurrent ==
  \A p \in Passes :
    pc[p] \in {"reapwrite", "failwrite"} =>
      /\ status[cur[p]] = "running"
      /\ exhausted[p] <=> attempts[cur[p]] >= MaxAttempts

\* A pass that works on a job is alone with it and still owns its row: no
\* reap, retry, forced enqueue or other claim takes the row away under it.
ExtractionOwnsRow ==
  \A p \in Passes, s \in Sessions :
    Owns(p, s) => /\ status[s] = "running"
                  /\ lease[s] = "fresh"
                  /\ \A q \in Passes : Owns(q, s) => q = p

\* The retry budget: a running attempt is one of MaxAttempts, a failed job
\* has a try left, and a job is dead-lettered only when it has none, also
\* when crashes and reaps interleave with a worker's own failure report.
RetryBudget ==
  \A s \in Sessions :
    /\ status[s] = "running" => attempts[s] \in 1..MaxAttempts
    /\ status[s] = "failed" => attempts[s] < MaxAttempts
    /\ status[s] = "dead_letter" => attempts[s] = MaxAttempts

\* The rows follow the abstract life cycle.
Lifecycle == INSTANCE JobLifecycle
ImplementsLifecycle == Lifecycle!Spec

(* Liveness under Fairness *)

Settled(s) == status[s] \in {"done", "dead_letter"}

\* Every queued job ends as done or dead-lettered, unless it is reset away or
\* a dead letter blocks its project: crashed attempts are reaped, failed ones
\* retried, and newer sessions do not starve it once they stop arriving.
EveryJobSettles ==
  \A s \in Sessions :
    status[s] = "pending"
      ~> Settled(s) \/ status[s] = "absent" \/ DeadLettered(ProjectOf[s])

\* A row left running by a dead pass is taken back.
OrphansRecovered ==
  \A s \in Sessions :
    (status[s] = "running" /\ \A p \in Passes : ~Owns(p, s)) ~> status[s] # "running"
=============================================================================
