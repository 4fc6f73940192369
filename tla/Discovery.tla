------------------------------ MODULE Discovery ------------------------------
(***************************************************************************)
(* How a transcript on disk becomes learned context: discovery and         *)
(* indexing (sessions/catalog.py, adapters/trajectory_source.py), queueing *)
(* (server/daemon.py) and extraction, with memory reset (server/api.py).   *)
(*                                                                         *)
(* The three durable stores a pass moves through are the source ledger     *)
(* (session_sources), the session documents (session_docs) and the job     *)
(* queue (session_jobs); each is committed on its own, so a failure can    *)
(* fall between any two.  Jobs move by the actions of JobLifecycle, which  *)
(* SessionQueue is shown to implement; passes and resets hold the writer   *)
(* lock, so one operation is active at a time.                             *)
(*                                                                         *)
(* A transcript's content is a version number.  It stands for what size,   *)
(* modification time and normalizer fingerprint tell apart in the ledger,  *)
(* and for what the content hash tells apart in a document: version 0 is   *)
(* "not there".                                                            *)
(***************************************************************************)
EXTENDS Naturals, FiniteSets

CONSTANTS
  Sessions,
  Projects,
  ProjectOf,     \* the project that contains a session's working directory
  NoSession,
  MaxAttempts,   \* max_attempts of a job
  MaxVersion,    \* bound: how often a transcript grows
  Faults,        \* kinds of disturbance that may happen, see Kinds
  Budget         \* bound: how many disturbances happen

Kinds == {"crash", "normalize", "index", "cache", "write", "reset", "retry",
          "unregister"}

ASSUME DiscoveryAssumption ==
  /\ ProjectOf \in [Sessions -> Projects]
  /\ NoSession \notin Sessions
  /\ MaxAttempts \in Nat \ {0}
  /\ MaxVersion \in Nat \ {0}
  /\ Faults \subseteq Kinds
  /\ Budget \in Nat

VARIABLES
  disk,        \* the transcript as the agent platform wrote it
  registered,  \* config.projects
  cache,       \* the normalized trace in the cache directory
  ledger,      \* session_sources: the listing that last produced a session
  doc,         \* session_docs.content_hash
  status,      \* session_jobs, as in JobLifecycle
  attempts,
  episode,     \* the version the session's episode record was written from
  learned,     \* the version whose durable records the context store holds
  pc,          \* the operation that holds the writer lock
  scope,       \* config.projects as the pass read it
  listed,      \* listings to normalize: the version each was listed at
  found,       \* normalized sessions: the version that was read
  details,     \* indexed sessions, still to queue
  changed,     \* those that were indexed before (IndexedSession.changed)
  job,         \* the claimed session
  dropped,     \* history: indexed by a pass that died before it queued them
  budget       \* disturbances left

context  == <<episode, learned>>
stores   == <<cache, ledger, doc, context>>
jobs     == <<status, attempts>>
passVars == <<pc, scope, listed, found, details, changed, job>>
vars     == <<disk, registered, dropped, stores, jobs, passVars, budget>>

Queue == INSTANCE JobLifecycle

Versions == 0..MaxVersion

None == [s \in Sessions |-> 0]

TypeOK ==
  /\ disk \in [Sessions -> Versions]
  /\ registered \in SUBSET Projects
  /\ cache \in [Sessions -> Versions]
  /\ ledger \in [Sessions -> Versions]
  /\ doc \in [Sessions -> Versions]
  /\ status \in [Sessions -> {"absent", "pending", "running", "done", "failed", "dead_letter"}]
  /\ attempts \in [Sessions -> 0..MaxAttempts]
  /\ episode \in [Sessions -> Versions]
  /\ learned \in [Sessions -> Versions]
  /\ pc \in {"idle", "list", "normalize", "index", "enqueue", "work", "extract",
             "records", "complete", "reset"}
  /\ scope \in SUBSET Projects
  /\ listed \in [Sessions -> Versions]
  /\ found \in [Sessions -> Versions]
  /\ details \in SUBSET Sessions
  /\ changed \in SUBSET details
  /\ job \in Sessions \cup {NoSession}
  /\ pc \in {"extract", "records", "complete"} => job # NoSession
  /\ dropped \in SUBSET Sessions
  /\ budget \in 0..Budget

Init ==
  /\ disk = None
  /\ registered = {}
  /\ cache = None /\ ledger = None /\ doc = None
  /\ episode = None /\ learned = None
  /\ Queue!Init
  /\ pc = "idle"
  /\ scope = {}
  /\ listed = None /\ found = None
  /\ details = {} /\ changed = {}
  /\ job = NoSession
  /\ dropped = {}
  /\ budget = Budget

-----------------------------------------------------------------------------
(* Helpers *)

Scoped(s) == ProjectOf[s] \in scope

\* A dead letter keeps the other jobs of its project from being claimed.
Blocked(s) ==
  \E t \in Sessions : ProjectOf[t] = ProjectOf[s] /\ status[t] = "dead_letter"

Disturb(kind) == /\ kind \in Faults
                 /\ budget > 0
                 /\ budget' = budget - 1

\* The operation ends, well or not: its memory is gone, the lock is free.
Finish == /\ pc' = "idle"
          /\ scope' = {}
          /\ listed' = None /\ found' = None
          /\ details' = {} /\ changed' = {}
          /\ job' = NoSession

\* Mutant of Unaccounted: only the ledger and the cache decide.
UnaccountedByLedger(s) == disk[s] # 0 /\ (ledger[s] # disk[s] \/ cache[s] = 0)

\* _listings_to_normalize: the ledger does not account for the listing, the
\* cached trace is gone, or a registered project's session is not indexed.
Unaccounted(s) ==
  /\ disk[s] # 0
  /\ \/ ledger[s] # disk[s]
     \/ cache[s] = 0
     \/ Scoped(s) /\ doc[s] = 0

-----------------------------------------------------------------------------
(* Discovery and indexing: index_new_sessions *)

\* A pass takes the lock and reads the configuration.
Begin ==
  /\ pc = "idle"
  /\ pc' = "list"
  /\ scope' = registered
  /\ UNCHANGED <<disk, registered, dropped, stores, jobs, listed, found,
                 details, changed, job, budget>>

\* Listing the platform's transcripts, without reading them.
List ==
  /\ pc = "list"
  /\ listed' = [s \in Sessions |-> IF Unaccounted(s) THEN disk[s] ELSE 0]
  /\ pc' = "normalize"
  /\ UNCHANGED <<disk, registered, dropped, stores, jobs, scope, found, details,
                 changed, job, budget>>

\* A listed transcript is read, as it is by now, and cached.
Normalize(s) ==
  /\ pc = "normalize"
  /\ listed[s] # 0 /\ found[s] = 0
  /\ cache' = [cache EXCEPT ![s] = disk[s]]
  /\ found' = [found EXCEPT ![s] = disk[s]]
  /\ UNCHANGED <<disk, registered, dropped, ledger, doc, context, jobs, pc,
                 scope, listed, details, changed, job, budget>>

\* A transcript that cannot be read, or that the normalizer rejects, produces
\* nothing and is left out of the ledger.
NormalizeFails(s) ==
  /\ pc = "normalize"
  /\ listed[s] # 0 /\ found[s] = 0
  /\ Disturb("normalize")
  /\ listed' = [listed EXCEPT ![s] = 0]
  /\ UNCHANGED <<disk, registered, dropped, stores, jobs, pc, scope, found,
                 details, changed, job>>

\* Mutant of SaveLedger: the file is looked at again after it was read.
SaveLedgerLate ==
  /\ pc = "normalize"
  /\ \A s \in Sessions : listed[s] # 0 => found[s] # 0
  /\ ledger' = [s \in Sessions |-> IF found[s] # 0 THEN disk[s] ELSE ledger[s]]
  /\ pc' = "index"
  /\ UNCHANGED <<disk, registered, dropped, cache, doc, context, jobs, scope,
                 listed, found, details, changed, job, budget>>

\* _save_source_ledger: what was found is recorded as it was listed.
SaveLedger ==
  /\ pc = "normalize"
  /\ \A s \in Sessions : listed[s] # 0 => found[s] # 0
  /\ ledger' = [s \in Sessions |-> IF found[s] # 0 THEN listed[s] ELSE ledger[s]]
  /\ pc' = "index"
  /\ UNCHANGED <<disk, registered, dropped, cache, doc, context, jobs, scope,
                 listed, found, details, changed, job, budget>>

\* _index_discovered_session: an unscoped session is skipped, one whose hash
\* is known is dropped, any other is stored and kept for queueing.
IndexSession(s) ==
  /\ pc = "index"
  /\ found[s] # 0
  /\ found' = [found EXCEPT ![s] = 0]
  /\ IF ~Scoped(s) \/ doc[s] = found[s]
       THEN UNCHANGED <<doc, details, changed>>
       ELSE /\ doc' = [doc EXCEPT ![s] = found[s]]
            /\ details' = details \cup {s}
            /\ changed' = IF doc[s] # 0 THEN changed \cup {s} ELSE changed
  /\ UNCHANGED <<disk, registered, dropped, cache, ledger, context, jobs, pc,
                 scope, listed, job, budget>>

\* index_session_for_fts catches sqlite3.Error, logs it and returns False:
\* the session is left out and the pass goes on.
IndexError(s) ==
  /\ pc = "index"
  /\ found[s] # 0 /\ Scoped(s) /\ doc[s] # found[s]
  /\ Disturb("index")
  /\ found' = [found EXCEPT ![s] = 0]
  /\ UNCHANGED <<disk, registered, dropped, stores, jobs, pc, scope, listed,
                 details, changed, job>>

IndexDone ==
  /\ pc = "index"
  /\ found = None
  /\ pc' = "enqueue"
  /\ UNCHANGED <<disk, registered, dropped, stores, jobs, scope, listed, found,
                 details, changed, job, budget>>

\* Mutant of Wanted: a new session is not queued.
WantedChanged(s) == s \in changed

\* enqueue_session_job(force=item.changed) leaves a pending, running or done
\* job of an unchanged session alone.
Wanted(s) == s \in changed \/ status[s] \notin {"pending", "running", "done"}

\* enqueue_session_job for one indexed session.
Enqueue(s) ==
  /\ pc = "enqueue"
  /\ s \in details
  /\ details' = details \ {s}
  /\ changed' = changed \ {s}
  /\ IF Wanted(s) THEN Queue!Submit(s) ELSE UNCHANGED jobs
  /\ dropped' = dropped \ {s}
  /\ UNCHANGED <<disk, registered, stores, pc, scope, listed, found, job,
                 budget>>

EnqueueDone ==
  /\ pc = "enqueue"
  /\ details = {}
  /\ pc' = "work"
  /\ UNCHANGED <<disk, registered, dropped, stores, jobs, scope, listed, found,
                 details, changed, job, budget>>

-----------------------------------------------------------------------------
(* Extraction: the claim loop of run_ingest_once *)

\* A job that a dead pass left running is reaped.
Reap(s) ==
  /\ pc = "work"
  /\ Queue!Fail(s)
  /\ UNCHANGED <<disk, registered, dropped, stores, passVars, budget>>

\* claim_session_jobs: a waiting job of a project without a dead letter.
Claim(s) ==
  /\ pc = "work"
  /\ ~Blocked(s)
  /\ Queue!Attempt(s)
  /\ job' = s
  /\ pc' = "extract"
  /\ UNCHANGED <<disk, registered, dropped, stores, scope, listed, found,
                 details, changed, budget>>

\* persist_synthesized_extraction commits the records of the cached trace one
\* by one, the episode first.  A session has one episode: if it is there, it
\* counts as an earlier ingestion of the trace and the rest is left out.
Extract ==
  /\ pc = "extract"
  /\ cache[job] # 0
  /\ \/ episode[job] # 0 /\ pc' = "complete" /\ UNCHANGED episode
     \/ /\ episode[job] = 0
        /\ episode' = [episode EXCEPT ![job] = cache[job]]
        /\ pc' = "records"
  /\ UNCHANGED <<disk, registered, dropped, cache, ledger, doc, learned, jobs,
                 scope, listed, found, details, changed, job, budget>>

\* The durable records follow.
WriteRecords ==
  /\ pc = "records"
  /\ learned' = [learned EXCEPT ![job] = episode[job]]
  /\ pc' = "complete"
  /\ UNCHANGED <<disk, registered, dropped, cache, ledger, doc, episode, jobs,
                 scope, listed, found, details, changed, job, budget>>

\* The context store rejects a record.  The write is noted as an observation;
\* without its episode the run ends "not done", which nothing looks at.
WriteFails ==
  /\ \/ pc = "extract" /\ cache[job] # 0 /\ episode[job] = 0
     \/ pc = "records"
  /\ Disturb("write")
  /\ pc' = "complete"
  /\ UNCHANGED <<disk, registered, dropped, stores, jobs, scope, listed, found,
                 details, changed, job>>

\* complete_session_job, in the other database.
Complete ==
  /\ pc = "complete"
  /\ Queue!Succeed(job)
  /\ job' = NoSession
  /\ pc' = "work"
  /\ UNCHANGED <<disk, registered, dropped, stores, scope, listed, found,
                 details, changed, budget>>

\* The agent fails, the trace file is gone, or the run cannot be wrapped up
\* after its records were written.
ExtractFails ==
  /\ pc \in {"extract", "complete"}
  /\ Queue!Fail(job)
  /\ job' = NoSession
  /\ pc' = "work"
  /\ UNCHANGED <<disk, registered, dropped, stores, scope, listed, found,
                 details, changed, budget>>

\* max_sessions jobs were processed, or what is left is blocked, backing off
\* or still leased.
EndPass ==
  /\ pc = "work"
  /\ Finish
  /\ UNCHANGED <<disk, registered, dropped, stores, jobs, budget>>

-----------------------------------------------------------------------------
(* Memory reset: api_memory_reset, two databases one after the other *)

\* Everything, or a registered project.
ResetScopes == {Sessions} \cup {{s \in Sessions : ProjectOf[s] = r} : r \in registered}

\* Mutant of ResetContext: the archived episodes stay.
ResetRecords(S) ==
  /\ pc = "idle"
  /\ S # {}
  /\ Disturb("reset")
  /\ learned' = [s \in Sessions |-> IF s \in S THEN 0 ELSE learned[s]]
  /\ details' = S
  /\ pc' = "reset"
  /\ UNCHANGED <<disk, registered, dropped, cache, ledger, doc, episode, jobs,
                 scope, listed, found, changed, job>>

\* reset_all_memory or reset_project_memory on the context store; details
\* keeps what the reset selected.
ResetContext(S) ==
  /\ pc = "idle"
  /\ S # {}
  /\ Disturb("reset")
  /\ episode' = [s \in Sessions |-> IF s \in S THEN 0 ELSE episode[s]]
  /\ learned' = [s \in Sessions |-> IF s \in S THEN 0 ELSE learned[s]]
  /\ details' = S
  /\ pc' = "reset"
  /\ UNCHANGED <<disk, registered, dropped, cache, ledger, doc, jobs, scope,
                 listed, found, changed, job>>

\* Mutant of ResetSessions: only the jobs are deleted.
ResetJobsOnly ==
  /\ pc = "reset"
  /\ Queue!Forget(details)
  /\ Finish
  /\ UNCHANGED <<disk, registered, dropped, stores, budget>>

\* reset_all_session_state or reset_indexed_sessions_for_project: jobs,
\* documents and ledger entries go in one transaction; the cache stays.
ResetSessions ==
  /\ pc = "reset"
  /\ doc' = [s \in Sessions |-> IF s \in details THEN 0 ELSE doc[s]]
  /\ ledger' = [s \in Sessions |-> IF s \in details THEN 0 ELSE ledger[s]]
  /\ Queue!Forget(details)
  /\ dropped' = dropped \ details
  /\ Finish
  /\ UNCHANGED <<disk, registered, cache, context, budget>>

-----------------------------------------------------------------------------
(* The environment *)

\* The agent platform writes a new session or goes on with an old one.
AppendTurns(s) ==
  /\ disk[s] < MaxVersion
  /\ disk' = [disk EXCEPT ![s] = @ + 1]
  /\ UNCHANGED <<registered, dropped, stores, jobs, passVars, budget>>

\* api_project_add: lerim project add.
Register(r) ==
  /\ r \notin registered
  /\ registered' = registered \cup {r}
  /\ UNCHANGED <<disk, dropped, stores, jobs, passVars, budget>>

\* api_project_remove edits the configuration only: the project's documents,
\* ledger entries and jobs stay.
Unregister(r) ==
  /\ r \in registered
  /\ Disturb("unregister")
  /\ registered' = registered \ {r}
  /\ UNCHANGED <<disk, dropped, stores, jobs, passVars>>

\* A cleanup deletes a cached trace.
LoseCache(s) ==
  /\ cache[s] # 0
  /\ Disturb("cache")
  /\ cache' = [cache EXCEPT ![s] = 0]
  /\ UNCHANGED <<disk, registered, dropped, ledger, doc, context, jobs,
                 passVars>>

\* lerim retry.
Retry(s) ==
  /\ Queue!Restart({s})
  /\ Disturb("retry")
  /\ UNCHANGED <<disk, registered, dropped, stores, passVars>>

\* The process dies, or an exception leaves the operation.  The list of what
\* was indexed and waits to be queued goes with it.
Crash ==
  /\ pc # "idle"
  /\ Disturb("crash")
  /\ dropped' = IF pc \in {"index", "enqueue"} THEN dropped \cup details ELSE dropped
  /\ Finish
  /\ UNCHANGED <<disk, registered, stores, jobs>>

-----------------------------------------------------------------------------
(* The specification *)

PassStep ==
  \/ List \/ SaveLedger \/ IndexDone \/ EnqueueDone
  \/ Extract \/ WriteRecords \/ Complete \/ ExtractFails \/ EndPass \/ ResetSessions
  \/ \E s \in Sessions : \/ Normalize(s) \/ IndexSession(s) \/ Enqueue(s)
                         \/ Reap(s) \/ Claim(s)

Next ==
  \/ Begin
  \/ PassStep
  \/ Crash \/ WriteFails
  \/ \E s \in Sessions : \/ NormalizeFails(s) \/ IndexError(s) \/ AppendTurns(s)
                         \/ LoseCache(s) \/ Retry(s)
  \/ \E r \in Projects : Register(r) \/ Unregister(r)
  \/ \E S \in ResetScopes : ResetContext(S)

Spec == Init /\ [][Next]_vars

\* The daemon starts pass after pass and a started operation goes on.  A job
\* that is claimable in pass after pass is claimed, and an orphan reaped:
\* SessionQueue's EveryJobSettles and OrphansRecovered.
FairSpec ==
  /\ Spec
  /\ WF_vars(Begin)
  /\ WF_vars(PassStep)
  /\ \A s \in Sessions : SF_vars(Claim(s)) /\ SF_vars(Reap(s))

-----------------------------------------------------------------------------
(* Properties *)

\* Between operations, every indexed session has a job.  Indexing and queueing
\* are two commits and nothing looks at an unchanged indexed session again, so
\* the code keeps this only as long as no pass dies between them.
IndexedIsQueued ==
  pc = "idle" => \A s \in Sessions : doc[s] # 0 => status[s] # "absent"

\* Whatever fails - normalization, indexing, extraction, a reset, the process
\* itself - a session that is indexed and has no job is one whose pass died
\* after it indexed the session and before it queued it.  A pass that skips a
\* broken session still queues the others; a reset takes documents and jobs
\* together; a session dropped once is queued when it changes.
OnlyDroppedHaveNoJob ==
  pc = "idle" =>
    \A s \in Sessions : doc[s] # 0 => status[s] # "absent" \/ s \in dropped

\* Between operations, a finished job has taught the context store something:
\* an episode, by which a second extraction is skipped, stands for the
\* session's durable records too.
DoneIsLearned ==
  pc = "idle" => \A s \in Sessions : status[s] = "done" => learned[s] # 0

\* Between operations, a finished job has taught the context store the version
\* that is indexed, or a newer one that the next pass will index: known
\* sessions with a different hash are returned as changed "so extraction can
\* backfill or refresh their DB context".
DoneIsCurrent ==
  pc = "idle" => \A s \in Sessions : status[s] = "done" => learned[s] >= doc[s]

\* The rule that lets a pass skip a transcript: for an indexed session of a
\* registered project "the content hash cannot have changed while the
\* transcript, the normalizer, and the cache all stayed as recorded".
SkippedIsUnchanged ==
  pc = "idle" =>
    \A s \in Sessions :
      ledger[s] = disk[s] /\ cache[s] # 0 /\ doc[s] # 0
        => doc[s] = disk[s] \/ ProjectOf[s] \notin registered

\* A session the platform wrote is eventually learned, and again after every
\* reset, unless a dead letter holds its project up or its project is not
\* registered.
EverySessionLearned ==
  \A s \in Sessions :
    disk[s] # 0 ~> \/ learned[s] # 0
                   \/ Blocked(s)
                   \/ ProjectOf[s] \notin registered

\* Whatever fails on the way, a session of a registered project is
\* eventually indexed: the ledger alone never hides a new session.
EverySessionIndexed ==
  \A s \in Sessions :
    disk[s] # 0 ~> doc[s] # 0 \/ ProjectOf[s] \notin registered
=============================================================================
