--------------------------- MODULE ContextLearning ---------------------------
(***************************************************************************)
(* From a session to records and on to a tidy context: the extraction of a *)
(* session (server/runtime.py, agents/trace_ingestion/), the pass that     *)
(* reconciles what it wrote with its neighbours, and the periodic pass     *)
(* over the whole project (agents/context_curator/), all through           *)
(* context/store.py.  One action is one transaction or one read.  What the *)
(* models answer is a free choice among what the code lets through.        *)
(***************************************************************************)
EXTENDS Naturals, FiniteSets

CONSTANTS
  Traced,       \* sessions of one project
  Learners,     \* threads that run extractions and curator passes
  Durables,     \* bound: durable records of one extraction
  MaxRuns,      \* bound: extractions of one session
  LearnRaces,   \* the hazards that may happen, among LearnRaceKinds
  NoSession, NoRecord

\* "backdated": a session is ingested, or still being reconciled, a day after
\* its start.
\* "slip": a revision names another status than active, or a replacement.
LearnRaceKinds == {"backdated", "slip"}

ASSUME LearnAssumption ==
  /\ Durables \in Nat /\ MaxRuns \in Nat
  /\ LearnRaces \subseteq LearnRaceKinds
  /\ NoSession \notin Traced

\* A record is known by its session, by the extraction that wrote it and by its
\* place in it; the episode comes first.
Ids == Traced \X (1..MaxRuns) \X (0..Durables)

ASSUME NoRecordAssumption == NoRecord \notin Ids

SessionOfId(id) == id[1]
IsEpisode(id)   == id[3] = 0

VARIABLES
  rec,       \* status and superseded_by_record_id of each record
  runs,      \* extractions of each session that have come to an answer
  aged,      \* sessions that started more than 24 hours ago
  phase,     \* control state of each learner
  task,      \* its session, NoSession when it curates the project
  run,       \* the number of its extraction
  part,      \* the record it writes next
  tries,     \* attempts left of _run_trace_ingestion
  seeds,     \* protected_record_ids of its pass
  evidence,  \* the inventory of its pass
  touched,   \* touched_record_ids
  undecided  \* history: the passes that still had an action to decide on a record,
             \* by an inventory that has it active, when it was archived

learners  == <<phase, task, run, part, tries, seeds, evidence, touched>>
learnVars == <<rec, runs, aged, learners, undecided>>

LearnStateOK ==
  /\ rec \in [Ids -> [status : {"none", "active", "archived"}, by : Ids \union {NoRecord}]]
  /\ runs \in [Traced -> 0..MaxRuns]
  /\ aged \in SUBSET Traced
  /\ phase \in [Learners -> {"idle", "model", "persist", "check", "seeds", "inventory", "apply"}]
  /\ task \in [Learners -> Traced \union {NoSession}]
  /\ run \in [Learners -> 0..MaxRuns]
  /\ part \in [Learners -> 0..(Durables + 1)]
  /\ tries \in [Learners -> 0..3]
  /\ seeds \in [Learners -> SUBSET Ids]
  /\ evidence \in [Learners -> SUBSET Ids]
  /\ touched \in [Learners -> SUBSET Ids]

LearnTypeOK == LearnStateOK /\ undecided \in [Ids -> SUBSET Learners]

LearnInit ==
  /\ rec = [id \in Ids |-> [status |-> "none", by |-> NoRecord]]
  /\ runs = [s \in Traced |-> 0]
  /\ aged = {}
  /\ phase = [w \in Learners |-> "idle"]
  /\ task = [w \in Learners |-> NoSession]
  /\ run = [w \in Learners |-> 0]
  /\ part = [w \in Learners |-> 0]
  /\ tries = [w \in Learners |-> 0]
  /\ seeds = [w \in Learners |-> {}]
  /\ evidence = [w \in Learners |-> {}]
  /\ touched = [w \in Learners |-> {}]
  /\ undecided = [id \in Ids |-> {}]

-----------------------------------------------------------------------------

Stored(id) == rec[id].status # "none"
Active     == {id \in Ids : rec[id].status = "active"}
Retired(r) == r.status = "archived" \/ r.by # NoRecord

Episodes(s) == {id \in Ids : SessionOfId(id) = s /\ IsEpisode(id) /\ Stored(id)}

\* _record_change_counts: a version row was written in the name of the session.
HasVersions(s) == \E id \in Ids : SessionOfId(id) = s /\ Stored(id)

\* A call returns or its process dies; in both cases what it knew is gone.
Leaves(w) ==
  /\ phase' = [phase EXCEPT ![w] = "idle"]
  /\ task' = [task EXCEPT ![w] = NoSession]
  /\ run' = [run EXCEPT ![w] = 0]
  /\ part' = [part EXCEPT ![w] = 0]
  /\ tries' = [tries EXCEPT ![w] = 0]
  /\ seeds' = [seeds EXCEPT ![w] = {}]
  /\ evidence' = [evidence EXCEPT ![w] = {}]
  /\ touched' = [touched EXCEPT ![w] = {}]

GoesTo(w, p) == phase' = [phase EXCEPT ![w] = p]

-----------------------------------------------------------------------------
(* Extraction *)

\* _ingest_inner up to the first model call: two learners may have the same
\* session, when the claim of one went stale while it was suspended.
Ingest(w, s) ==
  /\ phase[w] = "idle"
  /\ "backdated" \in LearnRaces \/ s \notin aged
  /\ GoesTo(w, "model")
  /\ task' = [task EXCEPT ![w] = s]
  /\ tries' = [tries EXCEPT ![w] = 3]
  /\ UNCHANGED <<rec, runs, aged, run, part, seeds, evidence, touched>>

ModelAnswers(w) ==
  /\ phase[w] = "model" /\ runs[task[w]] < MaxRuns
  /\ runs' = [runs EXCEPT ![task[w]] = @ + 1]
  /\ run' = [run EXCEPT ![w] = runs[task[w]] + 1]
  /\ part' = [part EXCEPT ![w] = 0]
  /\ GoesTo(w, "persist")
  /\ UNCHANGED <<rec, aged, task, tries, seeds, evidence, touched>>

\* Mutant of ModelFails: the loop has no bound.
ModelFailsForever(w) ==
  /\ phase[w] = "model"
  /\ tries' = [tries EXCEPT ![w] = @ - 1]
  /\ UNCHANGED <<rec, runs, aged, phase, task, run, part, seeds, evidence, touched>>

\* _run_trace_ingestion tries again only while the session has written nothing.
ModelFails(w) ==
  /\ phase[w] = "model"
  /\ IF tries[w] > 1 /\ ~HasVersions(task[w])
     THEN /\ tries' = [tries EXCEPT ![w] = @ - 1]
          /\ UNCHANGED <<phase, task, run, part, seeds, evidence, touched>>
     ELSE Leaves(w)
  /\ UNCHANGED <<rec, runs, aged>>

\* Mutant of SaveEpisode: the session is not looked up first.
SaveEpisodeAnyway(w) ==
  /\ phase[w] = "persist" /\ part[w] = 0
  /\ rec' = [rec EXCEPT ![<<task[w], run[w], 0>>] = [status |-> "active", by |-> NoRecord]]
  /\ part' = [part EXCEPT ![w] = 1]
  /\ UNCHANGED <<runs, aged, phase, task, run, tries, seeds, evidence, touched>>

\* create_record of the episode, which checks in the transaction of its INSERT
\* that the session has none yet; a duplicate ends the extraction.
SaveEpisode(w) ==
  LET s == task[w]
  IN /\ phase[w] = "persist" /\ part[w] = 0
     /\ IF Episodes(s) # {}
        THEN GoesTo(w, "check") /\ UNCHANGED <<rec, part>>
        ELSE /\ \E st \in {"active", "archived"} :
                  rec' = [rec EXCEPT ![<<s, run[w], 0>>] = [status |-> st, by |-> NoRecord]]
             /\ part' = [part EXCEPT ![w] = 1]
             /\ UNCHANGED phase
     /\ UNCHANGED <<runs, aged, task, run, tries, seeds, evidence, touched>>

\* The episode is refused or cannot be written: its records are not written.
EpisodeFails(w) ==
  /\ phase[w] = "persist" /\ part[w] = 0
  /\ GoesTo(w, "check")
  /\ UNCHANGED <<rec, runs, aged, task, run, part, tries, seeds, evidence, touched>>

\* A durable record is written, or fails and is skipped.
SaveDurable(w) ==
  /\ phase[w] = "persist" /\ part[w] \in 1..Durables
  /\ \E ok \in BOOLEAN :
       rec' = IF ok THEN [rec EXCEPT ![<<task[w], run[w], part[w]>>] =
                            [status |-> "active", by |-> NoRecord]]
              ELSE rec
  /\ part' = [part EXCEPT ![w] = @ + 1]
  /\ UNCHANGED <<runs, aged, phase, task, run, tries, seeds, evidence, touched>>

SaveEnds(w) ==
  /\ phase[w] = "persist" /\ part[w] > 0
  /\ GoesTo(w, "check")
  /\ UNCHANGED <<rec, runs, aged, task, run, part, tries, seeds, evidence, touched>>

\* count_current_session_episodes: the extraction is done when there is one.  If
\* not, the call returns all the same.
CountEpisodes(w) ==
  /\ phase[w] = "check"
  /\ IF Cardinality(Episodes(task[w])) = 1
     THEN GoesTo(w, "seeds") /\ UNCHANGED <<task, run, part, tries, seeds, evidence, touched>>
     ELSE Leaves(w)
  /\ UNCHANGED <<rec, runs, aged>>

-----------------------------------------------------------------------------
(* Curator passes *)

\* _reconcile_new_records: load_session_durable_record_ids.
LoadSeeds(w) ==
  LET new == {id \in Active : SessionOfId(id) = task[w] /\ ~IsEpisode(id)}
  IN /\ phase[w] = "seeds"
     /\ IF new = {}
        THEN Leaves(w)
        ELSE /\ seeds' = [seeds EXCEPT ![w] = new]
             /\ GoesTo(w, "inventory")
             /\ UNCHANGED <<task, run, part, tries, evidence, touched>>
     /\ UNCHANGED <<rec, runs, aged>>

\* curate, for the whole project.
Curate(w) ==
  /\ phase[w] = "idle"
  /\ GoesTo(w, "inventory")
  /\ UNCHANGED <<rec, runs, aged, task, run, part, tries, seeds, evidence, touched>>

\* load_seed_and_neighbors: the seeds and some neighbours, as far as they are
\* active; load_active_records: everything active.
LoadInventory(w) ==
  /\ phase[w] = "inventory"
  /\ \E near \in SUBSET Active :
       /\ seeds[w] \intersect Active \subseteq near
       /\ seeds[w] = {} => near = Active
       /\ evidence' = [evidence EXCEPT ![w] = near]
  /\ GoesTo(w, "apply")
  /\ UNCHANGED <<rec, runs, aged, task, run, part, tries, seeds, touched>>

\* Mutant of Applies: a record may have several actions.
AppliesAgain(w, id) ==
  /\ phase[w] = "apply"
  /\ id \in evidence[w]
  /\ touched' = [touched EXCEPT ![w] = @ \union {id}]
  /\ UNCHANGED <<runs, aged, phase, task, run, part, tries, seeds, evidence>>

\* _validate_action: the record is in the inventory and had no action yet.
Applies(w, id) ==
  /\ phase[w] = "apply"
  /\ id \in evidence[w] \ touched[w]
  /\ touched' = [touched EXCEPT ![w] = @ \union {id}]
  /\ UNCHANGED <<runs, aged, phase, task, run, part, tries, seeds, evidence>>

\* Mutant of RefusesRecent: the age is not looked at.
RefusesNothing(id) == FALSE

\* archive_record refuses an active durable record of less than a day.
RefusesRecent(id) ==
  /\ rec[id] = [status |-> "active", by |-> NoRecord]
  /\ ~IsEpisode(id)
  /\ SessionOfId(id) \notin aged

ArchiveRecord(w, id) ==
  /\ Applies(w, id)
  /\ rec[id].status = "active" /\ ~RefusesRecent(id)
  /\ rec' = [rec EXCEPT ![id].status = "archived"]

SupersedeRecord(w, id, replacement) ==
  /\ Applies(w, id)
  /\ id \notin seeds[w]
  /\ replacement \in evidence[w] \ {id}
  /\ rec' = [rec EXCEPT ![id].by = replacement]

\* _changes_from_patch: a revision sets the status, to active unless it says
\* otherwise.
ReviseRecord(w, id) ==
  /\ Applies(w, id)
  /\ \/ rec' = [rec EXCEPT ![id].status = "active"]
     \/ "slip" \in LearnRaces /\ rec' = [rec EXCEPT ![id].status = "archived"]
     \/ /\ "slip" \in LearnRaces
        /\ \E other \in evidence[w] \ {id} : rec' = [rec EXCEPT ![id].by = other]

\* The plan is through, or the pass raises: reconciliation swallows what it raises.
PassEnds(w) ==
  /\ phase[w] = "apply"
  /\ Leaves(w)
  /\ UNCHANGED <<rec, runs, aged>>

\* An exception outside the model calls, or the end of the process.
LearnerDies(w) ==
  /\ phase[w] # "idle"
  /\ Leaves(w)
  /\ UNCHANGED <<rec, runs, aged>>

\* created_at is the start of the session, so its records age with it.
DayPasses(s) ==
  /\ "backdated" \in LearnRaces \/ \A w \in Learners : task[w] # s
  /\ aged' = aged \union {s}
  /\ UNCHANGED <<rec, runs, learners>>

Extraction(w) ==
  \/ ModelAnswers(w) \/ ModelFails(w)
  \/ SaveEpisode(w) \/ EpisodeFails(w) \/ SaveDurable(w) \/ SaveEnds(w) \/ CountEpisodes(w)

CuratorPass(w) ==
  \/ LoadSeeds(w) \/ LoadInventory(w) \/ PassEnds(w)
  \/ \E id \in evidence[w] :
       \/ ArchiveRecord(w, id) \/ ReviseRecord(w, id)
       \/ \E other \in evidence[w] : SupersedeRecord(w, id, other)

LearnStep ==
  \/ \E w \in Learners :
       \/ \E s \in Traced : Ingest(w, s)
       \/ Curate(w) \/ Extraction(w) \/ CuratorPass(w) \/ LearnerDies(w)
  \/ \E s \in Traced : DayPasses(s)

MayDecide(id) == {w \in Learners : id \in evidence[w] \ touched[w]}

\* The history of a record ends when it is active, and begins when it is
\* archived; a pass leaves it by its action or by its end.
NoteArchived ==
  undecided' = [id \in Ids |->
    IF rec'[id].status # "archived" THEN {}
    ELSE MayDecide(id)' \intersect
           (IF rec[id].status = "archived" THEN undecided[id] ELSE Learners)]

LearnNext == LearnStep /\ NoteArchived

LearnSpec == LearnInit /\ [][LearnNext]_learnVars

-----------------------------------------------------------------------------
(* Properties *)

\* The records of a session come from one extraction, and its episode is among
\* them: two workers on one session, a crash between two records and the retry
\* after it never mix the answers of two model runs.
LearnedOnce ==
  \A a, b \in Ids : Stored(a) /\ Stored(b) /\ SessionOfId(a) = SessionOfId(b) =>
    a[2] = b[2] /\ Episodes(SessionOfId(a)) # {}

\* The pass that reconciles an extraction retires none of the records it was
\* started for.
SeedsKept ==
  [][\A w \in Learners : touched'[w] # touched[w] =>
       \A id \in seeds[w] : Retired(rec'[id]) => Retired(rec[id])]_learnVars

\* An archived record comes back by the revision of a pass that was under way
\* when it was archived, and by nothing else: a pass that reads its inventory
\* later, or that has acted on the record, never revives it, nor does the
\* extraction of any session.
ArchivedStays ==
  [][\A id \in Ids : rec[id].status = "archived" /\ rec'[id].status # "archived" =>
       \E w \in undecided[id] : id \in touched'[w]]_learnVars
=============================================================================
