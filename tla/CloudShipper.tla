---------------------------- MODULE CloudShipper ----------------------------
(***************************************************************************)
(* ship_once (cloud/shipper.py): one cycle pulls the records edited in the *)
(* dashboard, sends the rows of a table from a watermark on, sends the     *)
(* records of the context store, and saves its watermarks at the end.      *)
(* Sessions, service runs and job statuses go the way of Rows, records,    *)
(* graph nodes and graph edges that of Notes.  The cloud itself is         *)
(* external: it keeps the newest edit of a record and answers a pull with  *)
(* the first PullLimit records edited after the cursor.  Faults are        *)
(* counted, so that liveness speaks of what happens after the last one.    *)
(***************************************************************************)
EXTENDS Naturals, FiniteSets, FiniteSetsExt

CONSTANTS
  Rows,        \* rows of a table that is sent from a watermark on
  Notes,       \* records of the context store
  RowBatch,    \* _BATCH_SESSIONS and its kind
  NoteBatch,   \* _BATCH_RECORDS
  Window,      \* LIMIT of the query for records
  PullLimit,   \* the limit that a pull asks for
  Poisoned,    \* records that the store refuses when they are pulled
  Dropped,     \* records a pull leaves alone for good: episodes, unknown kinds,
               \* those of a project that is not configured here
  ShipRaces,   \* the races that may happen, among ShipRaceKinds
  MaxClock,    \* bound: writes
  MaxFaults    \* bound: lost calls, crashes and torn files

\* "late": a row is committed after one with a later stamp.  "tie": several rows
\* have one stamp.  "pull": a record is written between the look of a pull at
\* its updated_at and the update.
ShipRaceKinds == {"late", "tie", "pull"}

ASSUME ShipAssumption ==
  /\ RowBatch \in Nat \ {0} /\ NoteBatch \in Nat \ {0} /\ Window \in Nat
  /\ PullLimit \in Nat \ {0}
  /\ ShipRaces \subseteq ShipRaceKinds
  /\ MaxClock \in Nat /\ MaxFaults \in Nat
  /\ IsFiniteSet(Rows) /\ IsFiniteSet(Notes)
  /\ Poisoned \subseteq Notes /\ Dropped \subseteq Notes

VARIABLES
  clock,     \* stamps given so far
  drawn,     \* the stamp of each row in a transaction not yet committed
  stamp,     \* the stamp of each committed row, 0 when there is none
  received,  \* the newest stamp of each row the cloud has
  local,     \* updated_at of each record, 0 when there is none
  cloudAt,   \* cloud_edited_at of each record in the cloud
  disk,      \* cloud_shipper_state.json: sessions_shipped_at, records_pulled_at
  memory,    \* the same in the running cycle
  cycle,     \* where ship_once is
  batch,     \* what it has read and not yet sent or applied
  looked,    \* updated_at of the pulled record at hand
  faults     \* faults left

shipVars == <<clock, drawn, stamp, received, local, cloudAt, disk, memory,
              cycle, batch, looked, faults>>

Times  == 0..MaxClock
Marks  == [rows : Times, pull : Times]
NoMark == [rows |-> 0, pull |-> 0]
Phases == {"off", "pull", "apply", "update", "rows", "post", "notes", "send", "save"}

ShipTypeOK ==
  /\ clock \in Times
  /\ drawn \in [Rows -> Times] /\ stamp \in [Rows -> Times] /\ received \in [Rows -> Times]
  /\ local \in [Notes -> Times] /\ cloudAt \in [Notes -> Times]
  /\ disk \in Marks /\ memory \in Marks
  /\ cycle \in Phases
  /\ batch \in SUBSET ((Rows \union Notes) \X Times)
  /\ looked \in Times
  /\ faults \in 0..MaxFaults

ShipInit ==
  /\ clock = 0
  /\ drawn = [r \in Rows |-> 0] /\ stamp = [r \in Rows |-> 0] /\ received = [r \in Rows |-> 0]
  /\ local = [n \in Notes |-> 0] /\ cloudAt = [n \in Notes |-> 0]
  /\ disk = NoMark /\ memory = NoMark
  /\ cycle = "off" /\ batch = {} /\ looked = 0
  /\ faults = MaxFaults

-----------------------------------------------------------------------------
(* Other writers *)

\* The next stamp of the clock, which may be the last one again.
NextStamp(again) ==
  IF again /\ "tie" \in ShipRaces THEN clock ELSE clock + 1

\* A writer takes its stamp before its transaction commits.
DrawStamp(r) ==
  /\ drawn[r] = 0 /\ clock < MaxClock
  /\ \E again \in BOOLEAN :
       /\ NextStamp(again) > stamp[r]
       /\ clock' = NextStamp(again)
  /\ drawn' = [drawn EXCEPT ![r] = clock']
  /\ UNCHANGED <<stamp, received, local, cloudAt, disk, memory, cycle, batch, looked, faults>>

CommitRow(r) ==
  /\ drawn[r] > 0
  /\ "late" \in ShipRaces \/ \A q \in Rows : drawn[q] = 0 \/ drawn[q] >= drawn[r]
  /\ stamp' = [stamp EXCEPT ![r] = drawn[r]]
  /\ drawn' = [drawn EXCEPT ![r] = 0]
  /\ UNCHANGED <<clock, received, local, cloudAt, disk, memory, cycle, batch, looked, faults>>

\* A record is written by an extraction or the curator.
LocalEdit(n) ==
  /\ clock < MaxClock
  /\ "pull" \in ShipRaces \/ cycle # "update"
  /\ clock' = clock + 1
  /\ local' = [local EXCEPT ![n] = clock + 1]
  /\ UNCHANGED <<drawn, stamp, received, cloudAt, disk, memory, cycle, batch, looked, faults>>

\* A record is edited in the dashboard.
CloudEdit(n) ==
  /\ clock < MaxClock
  /\ clock' = clock + 1
  /\ cloudAt' = [cloudAt EXCEPT ![n] = clock + 1]
  /\ UNCHANGED <<drawn, stamp, received, local, disk, memory, cycle, batch, looked, faults>>

-----------------------------------------------------------------------------
(* One cycle *)

env == <<clock, drawn, stamp>>

\* The members of a set of <<item, stamp>> with the n smallest stamps; which of
\* two equal ones comes first is not determined.
IsOldest(old, all, n) ==
  /\ old \subseteq all
  /\ Cardinality(old) = IF Cardinality(all) < n THEN Cardinality(all) ELSE n
  /\ \A a \in old, b \in all \ old : a[2] <= b[2]

Latest(items) == Max({a[2] : a \in items})

Faulty == faults > 0 /\ faults' = faults - 1

GoOn(c) == cycle' = c /\ batch' = {} /\ looked' = 0

Begin ==
  /\ cycle = "off"
  /\ cycle' = "pull"
  /\ memory' = disk
  /\ UNCHANGED <<env, received, local, cloudAt, disk, batch, looked, faults>>

EditsBehind(cursor) == {<<n, cloudAt[n]>> : n \in {m \in Notes : cloudAt[m] > cursor}}

\* _pull_records: GET of what was edited after the cursor, up to the limit.
Pull ==
  /\ cycle = "pull"
  /\ cycle' = "apply"
  /\ \E old \in SUBSET EditsBehind(memory.pull) :
       IsOldest(old, EditsBehind(memory.pull), PullLimit) /\ batch' = old
  /\ UNCHANGED <<env, received, local, cloudAt, disk, memory, looked, faults>>

PullFails ==
  /\ cycle = "pull" /\ Faulty
  /\ GoOn("rows")
  /\ UNCHANGED <<env, received, local, cloudAt, disk, memory>>

\* The loop takes the edits in the order of their time.
Edit == CHOOSE e \in batch : \A f \in batch : e[2] <= f[2]

\* An edit of no use here moves the cursor and is forgotten: nobody fetches it
\* again, not even when its project is configured later.
ApplyDrops ==
  /\ cycle = "apply" /\ batch # {} /\ Edit[1] \in Dropped
  /\ memory' = [memory EXCEPT !.pull = Edit[2]]
  /\ batch' = batch \ {Edit}
  /\ UNCHANGED <<env, received, local, cloudAt, disk, cycle, looked, faults>>

\* _upsert_pulled_record looks at the local record in one transaction.
ApplyLook ==
  /\ cycle = "apply" /\ batch # {} /\ Edit[1] \notin Dropped
  /\ looked' = local[Edit[1]]
  /\ cycle' = "update"
  /\ UNCHANGED <<env, received, local, cloudAt, disk, memory, batch, faults>>

\* Mutant of ApplyUpdate: an update is stamped with the time it is made.
ApplyUpdateStamped ==
  /\ cycle = "update"
  /\ local' = IF Edit[2] <= looked THEN local ELSE [local EXCEPT ![Edit[1]] = clock]
  /\ memory' = [memory EXCEPT !.pull = Edit[2]]
  /\ batch' = batch \ {Edit}
  /\ looked' = 0
  /\ cycle' = "apply"
  /\ UNCHANGED <<env, received, cloudAt, disk, faults>>

\* It drops an edit that is not newer, and writes the others in another
\* transaction; both move the cursor.
ApplyUpdate ==
  /\ cycle = "update"
  /\ Edit[1] \notin Poisoned \/ Edit[2] <= looked
  /\ local' = IF Edit[2] <= looked THEN local ELSE [local EXCEPT ![Edit[1]] = Edit[2]]
  /\ memory' = [memory EXCEPT !.pull = Edit[2]]
  /\ batch' = batch \ {Edit}
  /\ looked' = 0
  /\ cycle' = "apply"
  /\ UNCHANGED <<env, received, cloudAt, disk, faults>>

\* Mutant of ApplyStops: the loop goes on behind the record.
ApplySkips ==
  /\ cycle = "update" /\ Faulty
  /\ memory' = [memory EXCEPT !.pull = Edit[2]]
  /\ batch' = batch \ {Edit}
  /\ looked' = 0
  /\ cycle' = "apply"
  /\ UNCHANGED <<env, received, local, cloudAt, disk>>

\* "retry", or a database error: the loop stops before the record.
ApplyStops ==
  /\ cycle = "update"
  /\ \/ Edit[1] \in Poisoned /\ Edit[2] > looked /\ UNCHANGED faults
     \/ Faulty
  /\ GoOn("rows")
  /\ UNCHANGED <<env, received, local, cloudAt, disk, memory>>

ApplyEnds ==
  /\ cycle = "apply" /\ batch = {}
  /\ GoOn("rows")
  /\ UNCHANGED <<env, received, local, cloudAt, disk, memory, faults>>

\* SELECT ... WHERE stamp > mark ORDER BY stamp LIMIT the size of a batch.
QueryRows ==
  /\ cycle = "rows"
  /\ LET new == {<<r, stamp[r]>> : r \in {q \in Rows : stamp[q] > memory.rows}}
     IN IF new = {}
        THEN GoOn("notes")
        ELSE /\ \E old \in SUBSET new : IsOldest(old, new, RowBatch) /\ batch' = old
             /\ cycle' = "post" /\ UNCHANGED looked
  /\ UNCHANGED <<env, received, local, cloudAt, disk, memory, faults>>

Received == [r \in Rows |-> Max({received[r]} \union {b[2] : b \in {a \in batch : a[1] = r}})]

\* The mark moves to the last row of a batch that was taken; a batch that is not
\* full is the last one.
PostRows ==
  /\ cycle = "post"
  /\ received' = Received
  /\ memory' = [memory EXCEPT !.rows = Latest(batch)]
  /\ GoOn(IF Cardinality(batch) < RowBatch THEN "notes" ELSE "rows")
  /\ UNCHANGED <<env, local, cloudAt, disk, faults>>

\* Mutant of PostFails: the mark moves all the same.
PostFailsAhead ==
  /\ cycle = "post" /\ Faulty
  /\ received' \in {received, Received}
  /\ memory' = [memory EXCEPT !.rows = Latest(batch)]
  /\ GoOn("notes")
  /\ UNCHANGED <<env, local, cloudAt, disk>>

\* The call fails; the cloud may have taken it.
PostFails ==
  /\ cycle = "post" /\ Faulty
  /\ received' \in {received, Received}
  /\ GoOn("notes")
  /\ UNCHANGED <<env, local, cloudAt, disk, memory>>

\* Mutant of QueryNotes: only records behind the pull cursor are read.
QueryNewNotes ==
  /\ cycle = "notes"
  /\ LET all == {<<n, local[n]>> : n \in {m \in Notes : local[m] > memory.pull}}
     IN \E old \in SUBSET all : IsOldest(old, all, Window) /\ batch' = old
  /\ cycle' = "send"
  /\ UNCHANGED <<env, received, local, cloudAt, disk, memory, looked, faults>>

\* _ship_records reads from the beginning whatever records_shipped_at says: a
\* pulled record has the time of its edit, which may lie before the mark.
QueryNotes ==
  /\ cycle = "notes"
  /\ LET all == {<<n, local[n]>> : n \in {m \in Notes : local[m] > 0}}
     IN \E old \in SUBSET all : IsOldest(old, all, Window) /\ batch' = old
  /\ cycle' = "send"
  /\ UNCHANGED <<env, received, local, cloudAt, disk, memory, looked, faults>>

Taken(sent) == [n \in Notes |-> Max({cloudAt[n]} \union {b[2] : b \in {a \in sent : a[1] = n}})]

SendNotes ==
  /\ cycle = "send" /\ batch # {}
  /\ \E sent \in SUBSET batch :
       /\ IsOldest(sent, batch, NoteBatch)
       /\ cloudAt' = Taken(sent)
       /\ batch' = batch \ sent
  /\ UNCHANGED <<env, received, local, disk, memory, cycle, looked, faults>>

SendFails ==
  /\ cycle = "send" /\ batch # {} /\ Faulty
  /\ \E sent \in SUBSET batch :
       /\ IsOldest(sent, batch, NoteBatch)
       /\ cloudAt' \in {cloudAt, Taken(sent)}
  /\ GoOn("save")
  /\ UNCHANGED <<env, received, local, disk, memory>>

SendEnds ==
  /\ cycle = "send" /\ batch = {}
  /\ GoOn("save")
  /\ UNCHANGED <<env, received, local, cloudAt, disk, memory, faults>>

Save ==
  /\ cycle = "save"
  /\ disk' = memory
  /\ GoOn("off")
  /\ UNCHANGED <<env, received, local, cloudAt, memory, faults>>

\* The process dies; while it writes the file, what is left of it loads as the
\* defaults.
CycleDies ==
  /\ cycle # "off" /\ Faulty
  /\ disk' \in {disk} \union (IF cycle = "save" THEN {NoMark} ELSE {})
  /\ GoOn("off")
  /\ UNCHANGED <<env, received, local, cloudAt, memory>>

Progress ==
  \/ Begin \/ Pull \/ ApplyDrops \/ ApplyLook \/ ApplyUpdate \/ ApplyEnds
  \/ QueryRows \/ PostRows \/ QueryNotes \/ SendNotes \/ SendEnds \/ Save

Trouble == PullFails \/ ApplyStops \/ PostFails \/ SendFails \/ CycleDies

ShipNext ==
  \/ \E r \in Rows : DrawStamp(r) \/ CommitRow(r)
  \/ \E n \in Notes : LocalEdit(n) \/ CloudEdit(n)
  \/ Progress
  \/ Trouble

\* The daemon calls ship_once at every interval, and SQLite's writer gets its turn.
ShipFairness ==
  /\ WF_shipVars(Progress \/ Trouble)
  /\ \A r \in Rows : WF_shipVars(CommitRow(r))

ShipSpec == ShipInit /\ [][ShipNext]_shipVars /\ ShipFairness

-----------------------------------------------------------------------------
(* Properties *)

\* The cloud has every row at or below the watermark as it is now: a call that
\* failed, a crash, a torn state file or a row written again while its batch was
\* under way never makes a cycle step over a row.
NothingSteppedOver ==
  \A r \in Rows, m \in {disk, memory} :
    stamp[r] <= m.rows => received[r] = stamp[r]

\* An edit made in the dashboard that lies at or before the pull cursor is in the
\* store or has been overtaken there, unless the record is one that pulls leave
\* alone: neither a full page, nor a dropped edit before it, nor a refused one
\* behind which the loop stops lets the cursor pass it.
NoEditSkipped ==
  \A n \in Notes \ Dropped, m \in {disk, memory} :
    cloudAt[n] <= m.pull => local[n] >= cloudAt[n]

\* An older edit never replaces a newer one, from whichever side it comes.
EditsMoveForward ==
  [][\A n \in Notes : local'[n] >= local[n] /\ cloudAt'[n] >= cloudAt[n]]_shipVars

\* After the last fault and the last write, the cloud has every row and both
\* sides have the same records, but for newer edits of those that pulls drop.
Synchronised ==
  /\ \A r \in Rows : received[r] = stamp[r]
  /\ \A n \in Notes : IF n \in Dropped THEN cloudAt[n] >= local[n]
                                         ELSE cloudAt[n] = local[n]

SyncConverges == <>[]Synchronised

\* With edits on both sides and faults in every call, the newest version of a
\* record is never lost, and no copy has a version from nowhere.
Copies == INSTANCE NewestWins WITH now <- clock
NewestSurvives == Copies!Spec
=============================================================================
