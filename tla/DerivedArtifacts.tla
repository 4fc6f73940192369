-------------------------- MODULE DerivedArtifacts --------------------------
(***************************************************************************)
(* The pages generated from the records of a project: context brief,       *)
(* working memory and run clinic (server/runtime.py, context_brief.py,     *)
(* working_memory.py, run_clinic.py).  A refresh generates a page in a run *)
(* folder and copies it, its manifest and, for the clinic, its report to   *)
(* the place where agents read them.  Whether the page is out of date is   *)
(* decided by comparing the manifest's generated_at with the changed_at of *)
(* the record versions; the page itself is never compared.  A time is the  *)
(* number of changes stamped before it.                                    *)
(***************************************************************************)
EXTENDS Naturals

CONSTANTS
  ArtifactKinds,   \* which of "brief", "memory" and "clinic" are looked at
  Things,          \* records of one project
  Refreshers,      \* the daemon, commands and API threads that refresh
  ArtifactRaces,   \* the hazards that may happen, among ArtifactRaceKinds
  MaxTicks,        \* bound: changes of records
  MaxMishaps       \* bound: refreshes that fail or die

\* "during": a record changes while the model writes a context brief.  "late": a
\* refresh takes its time while a change is stamped and not yet committed.
\* "reset": the project's memory is reset when there is a page.  "torn": a refresh stops inside the
\* copy of the page, before the copy of the clinic's report, or before the copy of
\* the first manifest.
ArtifactRaceKinds == {"during", "late", "reset", "torn"}

ASSUME ArtifactAssumption ==
  /\ ArtifactKinds \subseteq {"brief", "memory", "clinic"}
  /\ ArtifactRaces \subseteq ArtifactRaceKinds
  /\ MaxTicks \in Nat /\ MaxMishaps \in Nat

VARIABLES
  artifact,  \* the kind of page, fixed in a behaviour: the kinds share nothing
  ticks,     \* changes stamped so far
  asked,     \* the stamp of each change not yet committed, 0 when there is none
  ver,       \* changed_at of the newest version of each record, 0 for none
  life,      \* status of each record
  page,      \* the current file: the version it shows of each active record
  manifestOf,\* the current manifest: generated_at, included_record_ids
  sheet,     \* the current report, which only the clinic has
  old,       \* generated_at is longer ago than the window
  doing,     \* control state of each refresher
  seen,      \* what it has loaded
  cites,     \* the records its page cites
  at,        \* its generated_at
  mishaps,   \* mishaps left
  clean,     \* history: refreshers that nothing has spoilt since they started
  sound      \* history: which of "page" and "sheet" a clean refresh wrote

history      == <<clean, sound>>
refreshers   == <<doing, seen, cites, at>>
artifactVars == <<artifact, ticks, asked, ver, life, page, manifestOf, sheet, old,
                  refreshers, mishaps, history>>

Views    == [Things -> 0..MaxTicks]
Blank    == [i \in Things |-> 0]
NoPage   == [there |-> FALSE, shows |-> Blank]
NoLabel  == [there |-> FALSE, at |-> 0, ids |-> {}]
Pages    == [there : BOOLEAN, shows : Views]

ArtifactTypeOK ==
  /\ artifact \in ArtifactKinds
  /\ ticks \in 0..MaxTicks
  /\ asked \in Views /\ ver \in Views
  /\ life \in [Things -> {"none", "active", "archived", "gone"}]
  /\ page \in Pages /\ sheet \in Pages
  /\ manifestOf \in [there : BOOLEAN, at : 0..MaxTicks, ids : SUBSET Things]
  /\ old \in BOOLEAN
  /\ doing \in [Refreshers -> {"idle", "stamp", "load", "page", "manifest", "report"}]
  /\ seen \in [Refreshers -> Views]
  /\ cites \in [Refreshers -> SUBSET Things]
  /\ at \in [Refreshers -> 0..MaxTicks]
  /\ mishaps \in 0..MaxMishaps
  /\ clean \in SUBSET Refreshers /\ sound \in SUBSET {"page", "sheet"}

ArtifactInit ==
  /\ artifact \in ArtifactKinds
  /\ ticks = 0
  /\ asked = Blank /\ ver = Blank
  /\ life = [i \in Things |-> "none"]
  /\ page = NoPage /\ sheet = NoPage /\ manifestOf = NoLabel
  /\ old = FALSE
  /\ doing = [d \in Refreshers |-> "idle"]
  /\ seen = [d \in Refreshers |-> Blank]
  /\ cites = [d \in Refreshers |-> {}]
  /\ at = [d \in Refreshers |-> 0]
  /\ mishaps = MaxMishaps
  /\ clean = {} /\ sound = {}

-----------------------------------------------------------------------------
(* Records *)

ActiveThings == {i \in Things : life[i] = "active"}
AllCommitted == asked = Blank
ViewNow == [i \in Things |-> IF i \in ActiveThings THEN ver[i] ELSE 0]
BriefWritten == artifact = "brief" /\ \E d \in Refreshers : doing[d] = "stamp"

\* A change takes its changed_at before its transaction has the database.
StampChange(i) ==
  /\ ticks < MaxTicks /\ asked[i] = 0 /\ life[i] # "gone"
  /\ "during" \in ArtifactRaces \/ ~BriefWritten
  /\ ticks' = ticks + 1
  /\ asked' = [asked EXCEPT ![i] = ticks + 1]
  /\ clean' = {d \in clean : ~(artifact = "brief" /\ doing[d] = "stamp")}
  /\ UNCHANGED <<artifact, ver, life, page, manifestOf, sheet, old, refreshers, mishaps, sound>>

CommitChange(i) ==
  /\ asked[i] # 0
  /\ ver' = [ver EXCEPT ![i] = asked[i]]
  /\ asked' = [asked EXCEPT ![i] = 0]
  /\ \E s \in {"active", "archived"} : life' = [life EXCEPT ![i] = s]
  /\ UNCHANGED <<artifact, ticks, page, manifestOf, sheet, old, refreshers, mishaps, history>>

\* _reset_memory deletes records and versions; a change of a deleted one fails.
\* The pages stay.
ResetProject ==
  /\ ActiveThings # {}
  /\ "reset" \in ArtifactRaces \/ (~page.there /\ \A d \in Refreshers : doing[d] = "idle")
  /\ ver' = Blank
  /\ asked' = [i \in Things |-> IF life[i] = "none" THEN asked[i] ELSE 0]
  /\ life' = [i \in Things |-> IF life[i] = "none" THEN "none" ELSE "gone"]
  /\ clean' = {} /\ sound' = {}
  /\ UNCHANGED <<artifact, ticks, page, manifestOf, sheet, old, refreshers, mishaps>>

\* Two hours, or a day for the clinic.
WindowMoves ==
  /\ manifestOf.there /\ ~old
  /\ old' = TRUE
  /\ UNCHANGED <<artifact, ticks, asked, ver, life, page, manifestOf, sheet, refreshers, mishaps,
                 history>>

-----------------------------------------------------------------------------
(* What the manifest says *)

\* count_changed_records_since: without a generated_at it counts active records.
Changed == IF manifestOf.there
           THEN \E i \in Things : ver[i] > manifestOf.at
           ELSE ActiveThings # {}

\* count_missing_included_records
Missing == \E i \in manifestOf.ids : ver[i] = 0

InWindow    == artifact = "brief" \/ (manifestOf.there /\ ~old)
HasReport   == artifact = "clinic" => sheet.there /\ manifestOf.there

\* Mutant of Skips: a page that is there is left alone.
SkipsExisting == page.there /\ HasReport

\* The refresh that is not forced has nothing to do.
Skips == page.there /\ ~Changed /\ InWindow /\ HasReport

\* The status commands, the dashboard and the MCP tools offer the page.
Available == page.there /\ manifestOf.there /\ ~Missing /\ ~Changed /\ InWindow /\ HasReport

-----------------------------------------------------------------------------
(* A refresh *)

Goes(d, s) == doing' = [doing EXCEPT ![d] = s]

Starts(d) ==
  /\ doing[d] = "idle"
  /\ Goes(d, IF artifact = "brief" THEN "load" ELSE "stamp")
  /\ clean' = IF \A e \in Refreshers : doing[e] = "idle" THEN {d} ELSE {}
  /\ UNCHANGED <<artifact, ticks, asked, ver, life, page, manifestOf, sheet, old,
                 seen, cites, at, mishaps, sound>>

\* The daily pass, the pass after a curation that changed something, a command.
Refresh(d) == ~Skips /\ Starts(d)
ForceRefresh(d) == Skips /\ Starts(d)

\* generated_at: working memory and clinic take it before they load, the brief
\* takes it when its model has answered.
StampPage(d) ==
  /\ doing[d] = "stamp"
  /\ "late" \in ArtifactRaces \/ AllCommitted
  /\ at' = [at EXCEPT ![d] = ticks]
  /\ Goes(d, IF artifact = "brief" THEN "page" ELSE "load")
  /\ clean' = IF AllCommitted THEN clean ELSE clean \ {d}
  /\ UNCHANGED <<artifact, ticks, asked, ver, life, page, manifestOf, sheet, old,
                 seen, cites, mishaps, sound>>

\* What a page may cite: the lines that cite records it was not shown, or
\* records of another kind, are refused or dropped, and long sections are cut.
Citable == SUBSET ActiveThings

\* The records of the page; some of them, or all, will be cited.
LoadPage(d) ==
  /\ doing[d] = "load"
  /\ "during" \in ArtifactRaces \/ artifact # "brief" \/ AllCommitted
  /\ seen' = [seen EXCEPT ![d] = ViewNow]
  /\ \E ids \in Citable : cites' = [cites EXCEPT ![d] = ids]
  /\ Goes(d, IF artifact = "brief" THEN "stamp" ELSE "page")
  /\ clean' = IF artifact = "brief" /\ ~AllCommitted THEN clean \ {d} ELSE clean
  /\ UNCHANGED <<artifact, ticks, asked, ver, life, page, manifestOf, sheet, old, at, mishaps,
                 sound>>

\* A refresher is done: what it held is gone.
Done(d) ==
  /\ Goes(d, "idle")
  /\ seen' = [seen EXCEPT ![d] = Blank]
  /\ cites' = [cites EXCEPT ![d] = {}]
  /\ at' = [at EXCEPT ![d] = 0]
  /\ clean' = clean \ {d}

\* What d has just written is as good as what d went by.
Writes(d, place) == sound' = IF d \in clean THEN sound \union {place} ELSE sound \ {place}

\* Mutant of CopyPage: generated_at is taken when the page is written.
CopyPageStamped(d) ==
  /\ doing[d] = "page"
  /\ page' = [there |-> TRUE, shows |-> seen[d]]
  /\ at' = [at EXCEPT ![d] = ticks]
  /\ Goes(d, "manifest") /\ Writes(d, "page")
  /\ UNCHANGED <<artifact, ticks, asked, ver, life, manifestOf, sheet, old,
                 seen, cites, mishaps, clean>>

\* write_current_*: the page, the manifest, the report, in this order.
CopyPage(d) ==
  /\ doing[d] = "page"
  /\ page' = [there |-> TRUE, shows |-> seen[d]]
  /\ Goes(d, "manifest") /\ Writes(d, "page")
  /\ UNCHANGED <<artifact, ticks, asked, ver, life, manifestOf, sheet, old,
                 seen, cites, at, mishaps, clean>>

CopyManifest(d) ==
  /\ doing[d] = "manifest"
  /\ manifestOf' = [there |-> TRUE, at |-> at[d], ids |-> cites[d]]
  /\ old' = FALSE
  /\ IF artifact = "clinic" THEN Goes(d, "report") /\ UNCHANGED <<seen, cites, at, clean>>
                            ELSE Done(d)
  /\ sound' = IF d \in clean THEN sound ELSE {}
  /\ UNCHANGED <<artifact, ticks, asked, ver, life, page, sheet, mishaps>>

CopyReport(d) ==
  /\ doing[d] = "report"
  /\ sheet' = [there |-> TRUE, shows |-> seen[d]]
  /\ Done(d) /\ Writes(d, "sheet")
  /\ UNCHANGED <<artifact, ticks, asked, ver, life, page, manifestOf, old, mishaps>>

\* The model fails, the page is refused, a file cannot be written, or the
\* process dies.
RefreshFails(d) ==
  /\ doing[d] # "idle" /\ mishaps > 0
  /\ \/ "torn" \in ArtifactRaces
     \/ doing[d] # "report" /\ (doing[d] = "manifest" => manifestOf.there)
  /\ page' \in {page} \union (IF "torn" \in ArtifactRaces /\ doing[d] = "page"
                              THEN {[there |-> TRUE, shows |-> Blank]} ELSE {})
  /\ sound' = sound \ ((IF page' # page THEN {"page"} ELSE {})
                         \union (IF doing[d] = "report" THEN {"sheet"} ELSE {}))
  /\ mishaps' = mishaps - 1
  /\ Done(d)
  /\ UNCHANGED <<artifact, ticks, asked, ver, life, manifestOf, sheet, old>>

RefreshStep(d) ==
  \/ Refresh(d) \/ StampPage(d) \/ LoadPage(d)
  \/ CopyPage(d) \/ CopyManifest(d) \/ CopyReport(d)

ArtifactNext ==
  \/ \E i \in Things : StampChange(i) \/ CommitChange(i)
  \/ \E d \in Refreshers : RefreshStep(d) \/ ForceRefresh(d) \/ RefreshFails(d)
  \/ ResetProject \/ WindowMoves

\* The daemon refreshes every project once a day, and no change waits for ever.
ArtifactFairness ==
  /\ \A d \in Refreshers : WF_artifactVars(RefreshStep(d))
  /\ \A i \in Things : WF_artifactVars(CommitChange(i))

ArtifactSpec == ArtifactInit /\ [][ArtifactNext]_artifactVars /\ ArtifactFairness

-----------------------------------------------------------------------------
(* Properties *)

Current ==
  /\ page.there /\ page.shows = ViewNow
  /\ artifact = "clinic" => sheet.there /\ sheet.shows = ViewNow

\* A page that is offered as up to date shows the active records as they are now:
\* a refresh that failed between two copies, or a change made after the records
\* were loaded, is noticed by the generated_at beside it.  It takes a refresh that
\* was spoilt: another one under way at the same time, a reset of the project, a
\* change stamped before generated_at and not loaded, a copy cut off half way.
AvailableIsCurrent ==
  Available /\ (\A d \in Refreshers : doing[d] # "report") =>
    /\ "page" \in sound => page.shows = ViewNow
    /\ "sheet" \in sound => sheet.shows = ViewNow

\* Once records stop changing and refreshes stop failing, the refresh that skips
\* what looks unchanged brings the page up to date and leaves it so.
PageCatchesUp == <>[]Current
=============================================================================
