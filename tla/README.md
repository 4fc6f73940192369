# Lerim: a verification development

Lerim watches the transcripts that coding agents leave on a machine, extracts
durable context records from them with language models, and serves those
records to later sessions.  This directory holds TLA+ models of the parts whose
correctness depends on the order of steps taken by several threads, processes
and databases, the TLC configurations that check them on small instances, and
TLAPS proofs for every instance.

Paths below are relative to `src/lerim/` of the repository.

## 1. The system

| Component | Code | State it keeps | Operations |
|---|---|---|---|
| Session job queue | `sessions/catalog.py` | `session_jobs` in `sessions.sqlite3`; process-local leases | enqueue, claim, heartbeat, complete, fail, reap, retry, skip, delete |
| Ingest pass | `server/daemon.py` | a call's locals, the writer lock, a heartbeat thread | discover, enqueue, loop of reap, claim, extract, finish |
| Writer lock | `server/daemon.py` (`ServiceLock`) | one JSON file | acquire, heartbeat, reclaim, release |
| Discovery and indexing | `sessions/catalog.py`, `adapters/trajectory_source.py` | `session_docs`, `session_sources`, cached traces | list, normalize, save the ledger, index |
| Trace extraction | `agents/trace_ingestion/` | records of a session in `context.sqlite3` | read the trace, write the episode, then the durable records |
| Memory reset | `server/api.py` | both databases | reset everything or one project |
| Project registration | `server/api.py`, `config/` | `config.toml` | add, remove |
| Context store | `context/store.py` | records, versions, scopes, feedback | open and upgrade, create, update, archive, supersede, give feedback, query, reset |
| Derived indexes | `context/store.py`, `context/embedding.py`, `context/retrieval.py` | FTS and embedding rows, generation counters | ensure, refresh after a write, repair before a search |
| Cloud shipper | `cloud/shipper.py` | watermarks in a state file | pull, ship, save |
| Context curator | `agents/context_curator/` | none of its own | inventory, propose, apply |
| Context graph | `agents/context_graph/` | nodes and edges | load, pair, link, replace |
| Daemon scheduler | `server/cli.py` (`_daemon_loop`) | last-run times, the result variables of a turn | ingest, curate, daily pages, ship, sleep |
| Skill stewardship | `skill_stewardship/` | targets, proposals, file snapshots | propose, edit, review, apply |
| Trace submission | `traces/` | manifests | submit, import, retry |
| Working memory, context brief, run clinic | `working_memory.py`, `context_brief.py`, `run_clinic.py` | generated files | generate, copy, test for freshness |
| Settings and container | `config/`, `adapters/registry.py`, `server/docker_runtime.py` | `config.toml`, `platforms.json`, the Compose file | add, remove, connect, patch, up, down |
| Context answerer | `agents/context_answerer/` | none | plan, read, answer; query |
| HTTP, MCP, CLI, dashboard, auth | `server/`, `mcp_server.py`, `cloud/auth.py` | none that matters here | read, render, call the operations above |

How they interact.  The daemon thread, HTTP handler threads and commands in
processes of their own all call `run_ingest_once`; the writer lock is what keeps
them apart, and the SQLite databases are what they share.  A pass lists the
transcripts, normalizes those the ledger does not account for, saves the ledger,
indexes the sessions, queues them, and then claims jobs one at a time and has
each extracted.  Each of these steps commits by itself; the session catalog and
the context store are different databases.  `lerim retry` and `lerim skip`, and
the reap at the start of `lerim serve`, change the queue without the lock.
The shipper reads both databases without the lock.

Where it is hard:

- the lock is a file made by two system calls and judged by reading it;
- leases: a worker that was suspended comes back after its job was given away;
- SQLite transactions start at the first write, so a `SELECT` before it may be
  stale by the time of the `UPDATE`;
- a crash or an error can fall between any two commits, and what a later pass
  redoes is decided by what the earlier one left in the ledger, the documents,
  the queue and the episodes;
- operators act at any moment.

What makes each component correct:

- queue: every job settles; attempts are bounded and counted exactly; a running
  row has one owner; a row nobody owns is taken back; operators never disturb
  running rows;
- lock: one holder at a time; the holder's file stays its own; the file of a
  dead process does not stay;
- discovery: nothing new is missed, nothing changed is taken for unchanged, what
  is indexed is queued;
- extraction: a job that is done has taught the store the session;
- reset: a session is learned again after it;
- context store: an upgrade loses no row and what is opened is whole; the records
  of a session come from one extraction; archived records stay archived, and the
  pass that reconciles an extraction spares what it was started for; confidence
  is what feedback earned;
- indexes: an index marked fresh is complete, and a search misses no record;
- shipper: no row is stepped over, edits only move forward, both sides converge;
- pages: what is offered as current is current, and stale pages catch up;
- graph: a retired record leaves it;
- skill stewardship: a proposal is in all its files or in none, nothing in a file
  is lost, a verdict is final;
- submission: what is reported as imported is learned;
- settings: what was registered stays registered and is mounted;
- pipeline: every line is scanned once and the last steps keep their calls;
- answers: what is cited was current since the question was put;
- scheduler: a busy lock is tried again soon.

## 2. The modules

| Module | Models | Uses |
|---|---|---|
| `JobLifecycle` | what the queue promises of one job | |
| `SessionQueue` | the queue and the passes, in SQLite transactions and in-memory steps | `JobLifecycle` (refinement) |
| `SessionQueueProofs` | theorems about `SessionQueue` | |
| `WriterMutex` | what the lock promises | |
| `WriterLock` | `ServiceLock` in system calls | `WriterMutex` (refinement) |
| `WriterLockProofs` | theorems about `WriterLock` | |
| `Discovery` | from a transcript on disk to learned records, through four stores | `JobLifecycle` (its actions move the jobs) |
| `ContextLearning` | extraction, reconciliation and curation of one project's records | |
| `RecordIndex` | the two indexes and their generation marks | |
| `NewestWins` | what two copies of the records promise | |
| `CloudShipper` | `ship_once`, its state file and the cloud's copy | `NewestWins` (refinement) |
| `DerivedArtifacts` | the three generated pages | |
| `ContextGraph` | passes over the graph of records | |
| `AtomicReview` | what the review of a proposal promises | |
| `SkillProposals` | proposals and the files they change | `AtomicReview` (refinement) |
| `TraceSubmission` | manifests, duplicate check, registration, extraction | |
| `AtomicUpgrade` | what opening a store promises | |
| `SchemaUpgrade` | `ContextStore.initialize` by several processes | `AtomicUpgrade` (refinement) |
| `ProjectSettings` | edits of the settings files, the container's mounts | |
| `TraceIngestion` | windows, budget and steps of one extraction | |
| `ContextAnswer` | questions, reads and citations | |
| `RecordFeedback` | feedback and earned confidence | |
| `DaemonLoop` | the timers of `serve` | |
| `SkillProposalsProofs` | theorems about `SkillProposals` | |
| `StoreProofs` | theorems about what opens, indexes and reads the store | `RecordIndex`, `ContextAnswer`, `SchemaUpgrade` |
| `LearningProofs` | theorems about the way from a trace to records | `TraceSubmission`, `TraceIngestion`, `ContextLearning`, `RecordFeedback` |
| `DerivedProofs` | theorems about what is made from the records | `CloudShipper`, `DerivedArtifacts`, `ContextGraph` |
| `DaemonProofs` | theorems about sessions, timers and settings | `Discovery`, `DaemonLoop`, `ProjectSettings` |
| `NaturalSets` | lemmas on sets of numbers: least and largest member, induction up to a bound | |
| `MCSessionQueue`, `MCWriterLock`, `MCDiscovery`, `MCTraceSubmission` | constants for TLC | |
| `MCDerived` | the instance of shipper, pages, graph and the opening of the store | `CloudShipper`, `DerivedArtifacts`, `ContextGraph`, `SchemaUpgrade` |
| `MCServices` | the instance of the nine other components | `RecordIndex`, `TraceSubmission`, `ContextLearning`, `ProjectSettings`, `TraceIngestion`, `ContextAnswer`, `RecordFeedback`, `DaemonLoop`, `SkillProposals` |

Queue, lock and discovery form a stack.  `WriterLock` implements the one-holder lock that
`SessionQueue` has as its variable `holder`; `SessionQueue` implements the job
life cycle whose actions `Discovery` uses, and its liveness properties are the
fairness `Discovery` assumes of the queue.  `AtomicReview`, `AtomicUpgrade` and
`NewestWins` say in a few actions what their components promise to somebody who sees
only the files, the database or the two copies; each detailed module ends with the
mapping.

### SessionQueue

`status`, `attempts`, `backoff`, `lease` are the columns of `session_jobs` that
guards read.  Times are kept as what they are compared for: `backoff` is
`available_at > now`, `lease` is `COALESCE(heartbeat_at, claimed_at)` missing,
within or beyond the lease, `local` is `_LOCAL_RUNNING_LEASES`.  The lease columns are
left as they are by `fail_session_job` and `complete_session_job`, as in the code.
`pc`, `target`, `cur`, `todo`, `exhausted`, `served`, `beating` are the locals of
a pass.

One action is one transaction.  `claim_session_jobs` says `BEGIN IMMEDIATE` and is
one action; `enqueue_session_job` and `fail_session_job` read and then write and
are two; `reap_stale_running_jobs` lists, then fails each job in two more.
`Abort` is an exception that leaves a pass through its `finally` clauses;
`Crash` is the death of a process.  `Stalls` allows a live pass to be suspended
past its lock and its lease; `Starters` are `serve` processes that reap at start.
`Quota` bounds how many disturbances (new work, crashes, aborts, operators,
resets) a behaviour has; `AttemptCap` bounds `attempts` where stalls let it
exceed `MaxAttempts`.

### WriterLock

`file` tells a missing, an opened-but-empty and a filled file apart, `handles`
says which writers have the current file open, so that writing through the handle
of a file that was unlinked is lost as it is on a POSIX file system.  The thread
of an operation goes through `create`, `write` (or `check`, `unlink`), `held`,
`join`, `readback`, `remove`; its heartbeat thread through `wait`, `open`,
`fill`.  `TornReads` and `ReclaimRaces` open or close the windows between two
system calls: closed, the other threads do not step inside a window.  `Stalls`
lets a live process lose its heartbeat.

### Discovery

A transcript's content is a version number, which stands for what size,
modification time and fingerprint tell apart in the ledger and for what the
content hash tells apart in a document.  `disk`, `cache`, `ledger`, `doc`,
`status` and `attempts`, `episode` and `learned` are the stores a session passes
through; `scope`, `listed`, `found`, `details`, `changed`, `job` are the locals of
the operation that holds the lock.  Operations do not overlap, by `WriterLock`.
`Faults` selects which kinds of disturbance a run has and `Budget` how many.
`dropped` is a history: the sessions that a dying pass had indexed and not queued
yet, until a pass queues them or a reset takes them.
Not in it: the time window of a listing, custom trace folders, targeted
`run_id` passes (in `SessionQueue` they are), `skip` (it marks a job done
without learning anything, on purpose).

### ContextLearning

A record is named by its session, its extraction and its place in it.  A worker
checks for an episode, writes the episode and the durable records one by one, as
`persist_synthesized_extraction` does, then reconciles; a curator loads an
inventory, a model chooses, and each operation is a transaction that validates
again.  What a model chooses is any operation the validation lets through.
Records change between an inventory and the operations computed from it, in every
run.  A pass may therefore revive, by a revision, a record that was archived
meanwhile; `undecided` remembers for each archived record the passes that were under
way when it was archived and still had it to decide on, and `ArchivedStays` says that
nobody else revives one.  `LearnRaces` admits a session ingested a day after its start
(`backdated`) and a revision that changes the status (`slip`); both break `SeedsKept`.

### RecordIndex

Times are generations: `row` has the one that wrote each record, `entry` the one
each index holds, `mark` the one the index is marked with.  A write, the read of
what it has to index, and the write of the index are separate transactions; a
search first compares mark and generation, repairs and then reads.  `Races`
admits a write between the count that finds an unmarked index complete and its
marking (`check`), a second write of a record during its refresh (`overlap`), and a write
between a change of the embedding model and the repair (`switch`).  Each breaks
`FreshIsComplete` with `MaxGen = 3`; `check` and `switch` break `SearchMissesNothing`
too, while `overlap` does not: it leaves an old version in the index, but leaves out no
record, and `SearchFindsAll` is proved with it.

### CloudShipper

`Rows` stands for the tables that are sent once from a watermark on, `Notes` for
the records, which are sent whole and pulled back when edited in the dashboard.
The cloud is external.  `disk` and `memory` are the state file and the running
cycle's copy of it; a call may be lost before or after the cloud has taken it, a
crash may fall anywhere, the file may be torn.  A pull returns the oldest
`PullLimit` edits behind the cursor (200 in the code), and an edit of a record in
`Dropped` (an episode, an unknown kind, a project that is not configured here) moves
the cursor and is forgotten; the properties of the pull are about the others.  `ShipRaces` admits a row that is
committed late (`late`), two rows of one stamp (`tie`; both break
`NothingSteppedOver`) and a record written during a pull of it (`pull`; breaks
`EditsMoveForward`).  With `Window = 1`, or a record the store always refuses
(`Poisoned`), `SyncConverges` fails.  The refinement mapping is the identity: `NewestWins` sees `clock`, `local` and
`cloudAt`.  Every step of a cycle that does not write a copy is a stutter, a batch is one
`Push`, and a pulled record one `Pull`.

### DerivedArtifacts

A page shows the record versions it was made from.  Its manifest has
`generated_at`; a later refresh skips if no record version is newer.  Load,
generation and each copy are steps, and a refresh may fail between any two.
`ArtifactRaces` admits a record that changes while the model writes (`during`), a
change stamped before and committed after the load (`late`), a reset (`reset`)
and a refresh that stops inside the copies (`torn`).  Each of them breaks `PagesCatchUp`,
and each, and a second refresher beside the first, may leave a page that is offered
as current and is not.  Two histories say which pages these are: `clean` has the
refreshers that none of this has happened to since they started, `sound` says whether
page and report were written, and their manifest was not overwritten, by other than
clean ones.  `AvailableIsCurrent` is about the sound ones, and holds with all
races and any number of refreshers (`OfferedIsCurrent`).  Said of every page, it is
broken by each race alone and by two refreshers.  It leaves out the moment between the
copies of page and report of a running refresh.

### ContextGraph, SkillProposals, TraceSubmission

A graph pass loads a window, pairs, asks the model and replaces in one
transaction; records appear, retire and are reset meanwhile.  A proposal keeps
for each file the text before and after; applying it writes the files one by
one inside the database's write transaction.  If one fails the transaction is rolled
back and the lock released, and only then are the files put back, which may
overlap with another application and may itself fail before its last file.  Crashes half
way, failed restores and edits by hand happen in every run (`MaxAccidents` of them).
`told` remembers what the last committed application left in each file, `torn` the files
an application was cut off in or two had at once.  `SkillRaces` admits a status that
changes between check and update (`status`; breaks `TerminalIsFinal`), and a file
that changes between the text the model saw and the baseline of its patch (`rebase`; then
the change is shown to the reviewer as removed by the patch, and a person's edit is taken
out without anybody having asked for it); both break `ReviewIsAtomic`.  For `AtomicReview`,
`SettledText` is what a file contains without
the changes that are being applied or undone at the moment, and
`Fate` the verdict in the database: the files change at the commit.  A submission has
a manifest, a check for a duplicate, the session row, the extraction and the
verdict, each a step at which a client may die; `Rejections` admits an
extraction that returns without having written.

### SchemaUpgrade

`db` is the committed file, `draft` what the open transaction has made of it,
`locker` who has it open.  `initialize` creates what is missing in a script of which
every statement commits by itself (`CreateTable`, `CreateSearch`), looks whether a
table is of an older shape, and then either rebuilds three tables (rename,
create and copy, drop) or refreshes the scopes, fills the search table, adds
late columns, makes the indexes and validates.  Where the code has no
transaction open, a step commits by itself.  `Eras` are the databases to begin
with.  The foreign key of `context_edges` is renamed with its table and goes on
naming the one that was dropped; the model shows it, and `ReadyIsWhole` speaks of
the rebuilt tables only.  `AtomicUpgrade` sees of the committed file the shape and the rows of each table that
depends on the era, and whether the search table is the present one with every record
(`SearchState`).  In an empty file each `CREATE` is a step of it, of a table whose keys
name tables that are there; a reader, or the next process after a crash, may find some of
them.  In an older file all statements of a rebuild are stutters but the commit.

### ProjectSettings

Each edit reads a file, changes what it read, and truncates and writes the file.
`promised` are the directories whose registration succeeded.  Registering or
connecting is followed by the question whether the container runs and by
`docker compose up` with a Compose file generated anew.  `SettingsRaces` admits
edits that overlap, a server that goes by the settings it has cached, an edit
that dies half way, a restart that does not see the container, and
`connect --mode auto`, which restarts nothing.  Every one of them breaks a property:
`overlap` and `crash` both, `stale` `RegistrationsKept`, `unseen` and `auto`
`RegisteredIsMounted`.  `OddDirs` are names that `_toml_write_dict` writes
unquoted and no later command can parse (`next.js`, `my app`).  `platforms.json`
is loaded and saved in one step.

### TraceIngestion, ContextAnswer, RecordFeedback, DaemonLoop

`TraceIngestion` counts calls: each step takes one to `MaxModelAttempts` of the
budget, must be made or may be left out.  The sizes are scaled down, with the
relations of the code between line, window and budget kept: the budget counts a line up
to its cap, a window counts its number and the mark on a line that was cut as well.  In `ContextAnswer` a
question has what its reads returned, and `lived` remembers which records were
current since it was put.  `RecordFeedback` keeps the feedback rows of a record
in order, which a reset leaves in place as the code does.  A pull creates the record
again under its old identifier, with the default confidence and its old feedback rows:
`earlier` remembers how many these were, and confidence is what was earned since.  It
counts in steps of the weakest signal.  `DaemonLoop` has the four stations of a turn;
`ended` remembers how the last attempt of each operation ended and when.  With
`auto_unload` off, the context manager around an operation swallows exceptions
(`RaisesUnseen`) and the loop reads what an earlier attempt left in `code`, and in
`details`, which curation and the daily pages share.

### MCServices and MCDerived

The components they put side by side share no variable.  In a behaviour one of them
moves (`service`), and the others stay in their initial state, so that the
state space is the sum of theirs and not the product.  In `MCDerived` the
fairness of a component is required of the behaviours in which it moves.

## 3. The runs

Passing runs:

| Run | Instance | What it shows |
|---|---|---|
| `queue_core` | 2 passes in 2 processes, 2 sessions of a project, 2 attempts, 5 disturbances, no stalls | ownership, verdicts, refinement of `JobLifecycle`, every job settles, orphans are recovered |
| `queue_stalls` | 2 passes of one process, a starting server, 1 session, stalls | whatever is suspended, a running row can be reaped |
| `lock_base` | 4 callers in 3 processes, 2 crashes, windows closed | protection of the holder, refinement of `WriterMutex`, dead locks go away |
| `discovery_base` | 2 sessions of a project, 2 versions, 1 disturbance that is not a crash or a database error | done is learned, skipped is unchanged, every session is learned |
| `discovery_faults` | 1 session, 3 disturbances of any kind | what is indexed and not queued was dropped by a pass that died in between; every session is indexed in the end |
| `services_base` | 2 writers, 2 records and a searcher; 2 submitters of one content, 2 retries; 2 learners of one session, 2 extractions; 2 directories of one name, a command and the server; traces of up to 3 lines; a question on 2 projects; 2 voters, 3 votes; nine ticks of the loop; 2 proposals, files and agents, 1 crash, failed restore or edit by hand | the safety of nine components, each with its failures and crashes; refinement of `AtomicReview` |
| `derived_base` | 2 rows, 3 records of which pulls drop one, pulls of 1, 2 lost calls, crashes or torn files; 3 kinds of page over 2 records, 1 mishap; 3 records in a graph with room for 2; 2 starters, 4 eras, 1 crash | what keeps several places in step: the shipper's watermarks and convergence, freshness of pages, retired records leave the graph, refinement of `NewestWins` and `AtomicUpgrade`, the opened store is whole |

The two sums take about three minutes each.  Neither looks for deadlocks: the components of `services_base`
stop at their bounds, and the agents when every proposal
has its verdict; that the shipper, the pages and the graph do not stop is what
their liveness properties say, and a starter can always start again.

Runs that end in a counterexample, each a disagreement between the code and
what its documentation or its own comments say of it:

| Run | What happens |
|---|---|
| `lock_torn` | a caller reads the lock file between creation and filling, takes it for dead and removes it: two writers |
| `discovery_lost_job` | a crash between indexing and queueing leaves a session without a job |
| `discovery_refresh` | a changed session is extracted again, finds its own episode and writes nothing |
| `discovery_write` | a rejected episode ends the extraction as not done; the job is completed all the same |
| `submission_retry` | an extraction fails after the session row was written; the retry takes the trace for a duplicate and skips it |

The same models show more of these when a constant of a run is changed:

- `lock_torn` with `TornReads = FALSE`, `ReclaimRaces = TRUE`, `MaxCrashes = 1` and
  `Threads = {d, m, n}`: two callers find the same dead lock, and the slower one
  unlinks the faster one's new file;
- `queue_core` with `Stalls = TRUE`: `ExtractionOwnsRow` and `VerdictIsCurrent`
  fail, since a reap fails a job whose suspended worker has come back between
  the listing and the `UPDATE`, and a lock may be taken over from a live process;
- `discovery_base` with `Faults = {"index"}` or `Faults = {"unregister"}`:
  `SkippedIsUnchanged` fails, since the ledger entry is saved before the document
  and a database error, or a project that was not registered for a while, leaves
  an entry that hides the change;
- `discovery_base` with `Faults = {"crash"}`: `DoneIsLearned` fails, since the
  retry of an extraction that died after its episode skips the durable records.
- `services_base` (with `MaxGen = 3` for the indexes) and `derived_base` with one of
  the race constants of section 2.

Seen while reading and modelled, but not given a run of its own: a pass over
several supersessions follows one of them (`working_memory.py`), a circle of
supersessions is not refused although `docs/concepts/how-it-works.md:171` speaks
of the record that replaces another, `context_brief` and `working_memory` say
that a reset makes a page out of date and an unforced refresh skips it, and the
records of an extraction that died half way are lost although
`docs/concepts/capacity-and-slos.md:37` promises idempotent retries
(`discovery_base` with `Faults = {"crash"}` shows this one).

Bounds.  Two passes are enough for every race between a worker and somebody
else, because each property relates at most two; two sessions of a project give
a newer and an older job, and a dead letter with a job behind it.  Two attempts
have a first, a last and none left.  Two versions of a transcript have a change,
and a change while it is being read.  Five disturbances of the queue allow two
submissions, two crashes and a retry in one behaviour; the mutants listed in
`PROJECT.json` all break their property within the bounds of its run.  In the
two sums, two of everything that competes (writers, agents, clients, learners,
starters, voters) and one crash give every order of two actors' steps; one accident
of the proposals is a crash, a restore that fails, or an edit by hand, in each step of
two agents (with two accidents, which make the sum too large, the component by itself
keeps its properties over six million states; the theorems allow any number); a third
record of the graph falls out of its window of two; a pull of one edit with three
records leaves edits behind the limit, before and after the dropped one; three lines of three sizes
give an empty line, one that fits with others and one that is longer than any
window; a second directory of the same name needs the second form of key; nine
ticks with intervals of three, five and eight and a retry after two make every
operation come due twice, and beside every other.  The proofs have no bounds.

Fairness.  `_daemon_loop` starts a pass at every interval and again after
`lock_busy`, so starting a backlog pass is weakly fair; a running pass, a
heartbeat that has opened the file and the clock go on.  New work,
operators, crashes, stalls and the end of an extraction by quota are never forced.
In `Discovery`, claiming and reaping a job are strongly fair: between passes
nothing is claimed, and `EveryJobSettles` and `OrphansRecovered` are what the
queue guarantees about jobs that come up in pass after pass.

The shipper's cycles, a pass over the graph and a refresh of the pages are weakly
fair, since the daemon starts each again after its interval (`_daemon_loop`) and
they end; the steps of a cycle that fail, get lost or crash are not, and are
counted by `MaxFaults` and `MaxMishaps`.  No other module has fairness, and none
of them states liveness.

The type invariants of the nine components of `MCServices` are one invariant of its
run.  Those of the lock, `Discovery`, `CloudShipper`, `DerivedArtifacts`,
`ContextGraph` and `SchemaUpgrade` are
used in no run.  All of them but the lock's are theorems; the lock's is a part of the
inductive invariant `LockInv`.

## 4. The proofs

`SessionQueueProofs`, for any number of sessions, passes, processes, attempts:

- `TypeCorrect`, `RunningReapable`, `PendingFresh`: in every environment, with
  stalls and startup reaps.  `RowInv` (types and both properties) is inductive: a
  row gets its lease with its status in the claim, and whatever makes it pending
  clears backoff, attempts and lease with it.
- `ExtractionExclusive`, `RetryBudgetKept`, `VerdictsCurrent`,
  `QueueImplementsLifecycle`: assuming `~Stalls` and `Starters = {}`.  The
  inductive invariant `LeaseInv` adds that a pass that is not idle holds the lock,
  that a job being extracted has a fresh lease, and that what a reap or a failure has
  read still holds.  The last part is what another pass could break between a
  `SELECT` and its `UPDATE` if it did not need the lock; that is why it has to
  be carried along.  The refinement takes each action to
  one action of `JobLifecycle` or a stutter.

`WriterLockProofs`, for any number of threads and processes:

- `WriterExclusion`, `HolderKeepsFile`, `LockImplementsMutex`: assuming `Calm`,
  that is closed windows and no stalls, with any crashes.  `LockInv` says that at
  most one live thread is between creating and removing the file, and which state
  of file, pid and heartbeat belongs to each of its control states.  `lock_torn` and
  its variant in section 3 show that neither window may be dropped from the
  assumption.

`SkillProposalsProofs`: `TerminalFinal` assumes no `status` race; `AllOrNothingHolds`
and `ChangesNotLost` assume nothing, so they hold with crashes half way, restores that
fail or overlap, edits of patch and files at any moment and rebased patches.  `SkillInv`
says that whoever writes files has the database, and that an agent about to set a status
has seen the one there is and is alone with its proposal.  `FilesInv` says that no two
agents are at a file which is not torn, that the backup of such a file is what the last
commit left in it, and that the file has this text before it is written and the text of
the patch afterwards, next to what people write.  That a review looks atomic (`ReviewIsAtomic`) needs both races
excluded and stays with TLC.

Each theorem of the other four modules holds for any number of actors and objects, and
for every value of the bounds.  Their assumptions are on the constants that admit
faults and races: sections 2 and 3 name for each excluded value the property that it
breaks.  In the table, "none" means that every fault and race the model has is allowed.

| Theorem | States | Assumes |
|---|---|---|
| `StoreProofs` | | |
| `IndexType` | `TypeOK` of `RecordIndex` | none |
| `FreshIndexIsComplete` | `FreshIsComplete` | `Races = {}` |
| `SearchFindsAll` | `SearchMissesNothing` | no `check`, no `switch` |
| `CitationsCurrent` | `AnswerTypeOK`, `CitedWasCurrent` | none |
| `RowsSurviveUpgrade` | `UpgradeKeepsRows` | none |
| `StoreReadyIsWhole` | `ReadyIsWhole` | none |
| `UpgradeType` | `UpgradeTypeOK` | none |
| `UpgradesAtomic` | `UpgradeIsAtomic` | none |
| `LearningProofs` | | |
| `TraceTypeCorrect` | `TraceTypeOK` | none |
| `ImportedLearned` | `ImportedIsLearned` | `~Rejections` |
| `IngestionType` | `IngestionTypeOK` | none |
| `LinesScannedOnce` | `EveryLineScanned` | none |
| `RoomIsLeft` | `GuardLeavesRoom` | none |
| `LearnTypeCorrect` | `LearnTypeOK` | none |
| `SessionLearnedOnce` | `LearnedOnce` | none |
| `ArchivedIsKept` | `ArchivedStays` | none |
| `SeedsAreKept` | `SeedsKept` | no `backdated`, no `slip` |
| `FeedbackCounts` | `FeedbackTypeOK`, `ConfidenceIsEarned` | none |
| `DerivedProofs` | | |
| `ShippingType` | `ShipTypeOK` | none |
| `NoRowSteppedOver` | `NothingSteppedOver` | no `late`, no `tie` |
| `NoPulledEditLost` | `NoEditSkipped` | no `pull` |
| `RecordsMoveForward` | `EditsMoveForward` | no `pull` |
| `CopiesImplementNewestWins` | `NewestSurvives` | no `pull` |
| `ArtifactType` | `ArtifactTypeOK` | none |
| `OfferedIsCurrent` | `AvailableIsCurrent` | none |
| `GraphTypeCorrect` | `GraphTypeOK` | none |
| `EdgesJoined` | `EdgesJoinNodes` | none |
| `DaemonProofs` | | |
| `DiscoveryType` | `TypeOK` of `Discovery` | none |
| `IndexedHasJob` | `OnlyDroppedHaveNoJob` | none |
| `DoneHasLearned` | `DoneIsLearned` | no `crash`, no `write` |
| `SkippedStaysUnchanged` | `SkippedIsUnchanged` | no `crash`, `index`, `unregister` |
| `BusyRetriedSoon` | `DaemonTypeOK`, `BusyIsRetriedSoon` | none |
| `RegisteredStays` | `RegistrationsKept` | only `unseen` and `auto` |
| `MountedIsRegistered` | `RegisteredIsMounted` | only `stale`; `OddDirs = {}` |
| `SettingsType` | `SettingsTypeOK` | none |

The arguments, in a few words; the comments of the modules say more.

- Indexes (`IndexInv`).  A fresh mark is never looked behind, so what has to be carried
  is who may still set one: a refresh whose target is the newest generation has at
  most its own record stale, what it has read is still so, and an index about
  to be marked has nothing stale.  Where refreshes may overtake each other, `StaleIn`
  asks less of an entry: that it is there.  The size of the vectors is a second reason for a table to
  be thrown away, and `ShapeInv` says who may rely on it.
- Answers (`AnswerInv`).  What the property says of citations holds of everything
  that was read, and what is current now counts as having lived.
- Schema (`UpgradeInv`, `WholeInv`).  A stage of the transaction is only entered with the
  lock; without it draft and file are the same; the draft has each row in the
  table or, between rename and copy, aside.  For wholeness: the three rebuilt tables
  are of one era except in the middle of a rebuild, the tables before the one at
  hand are done with their keys right, and what is committed never loses a table or
  column that it had, so a second starter cannot undo what the first found ready.
- Schema as one change (`ChangeInv`).  A table differs between draft and file only while
  it is of the last era in the file, and nobody but a rebuild makes such a
  difference; tables are missing in a file that was empty only, where the script
  makes them in the order of their keys; a process on the way to make the search table
  by itself has seen all tables scoped, which no commit takes back.  So each commit
  changes nothing that a reader sees (`Changed`), or makes one table of an empty file
  (`OneMade`), or the search table alone, or everything together.
- Submission (`SubmissionInv`).  A client about to write `imported` has learned the
  trace, and learning is never undone.  `discovery_write` shows what rejections do.
- Windows (`WindowsInv`, `RoomInv`).  Each line before the next one is in one window;
  the calls since the synthesis are those of the steps since, and what the
  guard left is still there.  The budget is a sum over lines: that it is a number is
  proved by unfolding the recursive function of the fold along `NaturalSets!UpTo`.
- Learning (`LearnInv`, `WriteInv`, `SeedInv`).  A worker in the middle of its records
  finds its own episode in the store, which is what stops the second worker.  The numbers of
  extractions are counted, so no two workers write the same record and what is written
  next is not there: `create_record` never overwrites an archived one.  An inventory takes in
  active records only, so the passes that may still act on an archived one were there
  when it was archived (`HistoryKept`).  A seed
  is a durable record of a session that is not a day old.
- Feedback (`FeedbackInv`).  Whoever has read a confidence holds the write lock until it
  is written, so nothing is reset or created in between; that one more row moves the fold
  by one step, wherever the fold begins, is a lemma (`SinceOneMore`).
- Shipper (`RowInv`, `NoteInv`).  Stamps in use are above every watermark on
  disk or in memory until they are committed, a batch has all rows up to its last,
  and a torn state file only moves a watermark back to nothing.  For the records:
  every time of one that is anywhere (store, cloud, batch) lies behind the clock, no
  two records share one, and the edits in hand lie behind the cursor and include
  every later time that the cloud has (`OwnTimeInv`, `PulledInv`).  For the refinement, an edit in
  hand is also not newer than what the cloud has (`CopyInv`): a pull never invents a version.
- Pages (`LabelInv`, `HoldsInv`).  `Labelled` is the relation between a page and a
  time: either the page is what it would be now, or some record is newer.  It holds
  of what a clean refresher has in hand, and of the sound page beside a manifest, be they
  of one refresh or of two.
- Graph (`GraphInv`).  A pass asks only about pairs it has loaded.
- Sessions (`QueuedInv`, `LearnedInv`, `FreshInv`).  Each says where in an operation its
  property may be broken and by whom it will be mended: between indexing and queueing
  (by the pass that has the session in hand, or by nobody once it has died: `dropped`),
  between episode and records, between listing and ledger.
- Timers (`DaemonInv`).  The anchor of each timer lies early enough at every point
  of a turn, also while the loop reads the exit code of an earlier attempt.
- Settings (`KeptInv`, `MountInv`).  An edit in hand fits the file, which nobody else changes; a
  key with a hash belongs to one directory.  What the container lacks, the command at
  hand will bring.

Induction.  The library's induction theorems take an operator and cannot be used.
`NaturalSets` states induction with a set in place of the predicate (from the
well-foundedness of the natural numbers, which the library states without an operator),
and a fold is unfolded from the definition of its recursive function.

Only model-checked: the liveness properties (`EveryJobSettles`, `OrphansRecovered`,
`DeadLockReclaimed`, `EverySessionLearned`, `EverySessionIndexed`,
`SyncConverges`, `PagesCatchUp`, `RetiredLeavesGraph`), since fairness and ENABLED
are outside the prover, and that the components keep their types side by side
(`ServicesTypeOK`; each conjunct is a theorem of its own specification, and the module
has no behaviour that is not one of its components').
`MutualExclusion`, `PendingFresh`, `RetryBudgetKept` and `EdgesJoined` are theorems
that no passing run repeats; nor are `TerminalIsFinal`, `UpgradeKeepsRows` and
`EditsMoveForward`, which the runs check as parts of `ReviewIsAtomic` (a verdict is
given once), `UpgradeIsAtomic` (the rows never change) and `NewestSurvives` (a copy
moves to later times only).

## 5. Not modelled

- Model calls, prompts, ranking, vectors, rendering, formats: data.
- Reads for display (`queue_health_snapshot`, job lists, status, dashboard).
- `ignore_lock` and `dry_run` passes: nothing but tests and previews use them.
- Discovery: the time window of a listing (`in_window`), targeted `run_id` passes in
  `Discovery`, custom trace folders, which session belongs to which project.
- The writes of an extraction one by one in `TraceSubmission`, where they are one
  step: a submission waits for all of them, and `ContextLearning` has them one by one.
- The context store's fields of records, its registering of scopes and
  sessions, `index_health`; which record replaces which.
- Shipping of log files, the remote reset, deleting the shipper's state file.
- The run clinic reads finished runs besides records; freshness does not look at them.
- Registering skill targets, run rows and signals of skill stewardship.
- Repairs of records in `coding_records.py` and `source_text.py`: pure functions on
  text that a model wrote.
- The browser flow of `cloud/auth.py`, images and health checks of the container,
  `mcp_connect.py`, which writes the configuration of other programs.
- Dashboard, benchmarks, tests: rendering and measurement.

## 6. Plan

1. Chains of supersession: which record replaces which, and that a reader who
   follows them ends at an active record.
2. Proofs: lemmas about the recursive functions of the graph and of the windows for
   every input.
3. Custom trace folders and targeted passes in `Discovery`; log shipping.
