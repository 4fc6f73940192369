---------------------------- MODULE RecordIndex ----------------------------
(***************************************************************************)
(* The two indexes derived from the records table (context/store.py and    *)
(* context/retrieval.py): "fts", the full-text table, and "vec", the       *)
(* embedding table.  A write of a record bumps the generation in its own   *)
(* transaction and refreshes the indexes in later ones; each index carries *)
(* the generation it was last brought up to, its mark.  A search repairs   *)
(* an index whose mark is behind before it reads it.  One action is one    *)
(* transaction, or one read outside a transaction.                         *)
(***************************************************************************)
EXTENDS Integers, FiniteSets

CONSTANTS
  Records,        \* record ids
  Writers,        \* callers of create_record, update_record, ...
  Searchers,      \* callers of search
  Races,          \* the races that may happen, among RaceKinds
  SameDims,       \* TRUE: a newly configured embedding model has as many
                  \* dimensions as the one before it
  MaxGen,         \* bound: committed record writes
  MaxSwitches     \* bound: changes of the configured embedding model

\* "check": a record is written between the count that finds an unmarked index
\* exact and the statement that marks it.  "overlap": a record is written again
\* while an earlier refresh of it stands between its read and its write.
\* "switch": a record is written after the embedding model changed and before a
\* refresh or a search has repaired the table.
RaceKinds == {"check", "overlap", "switch"}

ASSUME IndexAssumption ==
  /\ Writers \cap Searchers = {}
  /\ Races \subseteq RaceKinds
  /\ SameDims \in BOOLEAN
  /\ MaxGen \in Nat
  /\ MaxSwitches \in Nat

VARIABLES
  row,       \* the generation that wrote each record, 0 when there is none
  gen,       \* RECORDS_INDEX_GENERATION_KEY
  entry,     \* for each index, the version of each record it holds
  mark,      \* the generation each index is marked with
  model,     \* the configured embedding model
  shape,     \* the model whose vector size the embedding table has
  made,      \* the model each embedding was computed with
  markModel, \* the model named beside the mark of the embedding table
  pc,        \* control state of each caller
  index,     \* the index it works on
  job,       \* what each writer has to refresh
  due        \* for each searcher and index, the records it must be able to find

tables    == <<row, gen, entry, mark, model, shape, made, markModel>>
callers   == <<pc, index, job, due>>
indexVars == <<tables, callers>>

Indexes == {"fts", "vec"}
Callers == Writers \union Searchers

\* The arguments of _refresh_derived_indexes_after_write: record_ids (a record
\* or nothing), target_generation and the indexes refresh_context found fresh;
\* and the versions a refresh has read, 0 for a record it did not find.
NoVersions == [r \in Records |-> 0]
Jobs  == [rec : SUBSET Records, target : Nat, fresh : SUBSET Indexes,
          seen : [Records -> Nat]]
NoJob == [rec |-> {}, target |-> 0, fresh |-> {}, seen |-> NoVersions]

CallStates == {"idle", "check", "read", "write", "rebuild", "mark", "query"}

TypeOK ==
  /\ gen \in Nat
  /\ row \in [Records -> Nat]
  /\ entry \in [Indexes -> [Records -> Nat]]
  /\ mark \in [Indexes -> Int]
  /\ model \in Nat
  /\ shape \in Nat
  /\ made \in [Records -> Nat]
  /\ markModel \in Nat
  /\ pc \in [Callers -> CallStates]
  /\ index \in [Callers -> Indexes]
  /\ job \in [Writers -> Jobs]
  /\ due \in [Searchers -> [Indexes -> SUBSET Records]]

IndexInit ==
  /\ row = [r \in Records |-> 0]
  /\ gen = 0
  /\ entry = [i \in Indexes |-> [r \in Records |-> 0]]
  /\ mark = [i \in Indexes |-> -1]
  /\ model = 0
  /\ shape = 0
  /\ made = [r \in Records |-> 0]
  /\ markModel = 0
  /\ pc = [a \in Callers |-> "idle"]
  /\ index = [a \in Callers |-> "fts"]
  /\ job = [w \in Writers |-> NoJob]
  /\ due = [s \in Searchers |-> [i \in Indexes |-> {}]]

-----------------------------------------------------------------------------
(* What the checks of an index answer *)

Live == {r \in Records : row[r] # 0}

\* _record_embeddings_schema_matches: the table has the active vector size.
ShapeMatches == SameDims \/ shape = model

\* Mutant of FtsMetadataFresh: an index that was built once is fresh.
FtsMetadataThere == mark["fts"] >= 0

\* _records_fts_metadata_fresh
FtsMetadataFresh == mark["fts"] = gen

\* _record_embeddings_metadata_fresh
VecMetadataFresh ==
  /\ mark["vec"] = gen
  /\ ShapeMatches
  /\ markModel = model

MetadataFresh(i) == IF i = "fts" THEN FtsMetadataFresh ELSE VecMetadataFresh

\* The counts of _ensure_records_fts_index find nothing stale or missing.
FtsExact == entry["fts"] = row

\* The counts of _ensure_record_embeddings_index find nothing stale, missing or
\* embedded with another model.
VecExact == entry["vec"] = row /\ \A r \in Live : made[r] = model

Exact(i) == IF i = "fts" THEN FtsExact ELSE VecExact

\* No race that the environment rules out.
MayWrite(r) ==
  /\ "check" \in Races \/ \A a \in Callers : pc[a] # "mark"
  /\ "overlap" \in Races \/ \A w \in Writers : pc[w] = "write" => r \notin job[w].rec
  /\ "switch" \in Races \/ mark["vec"] # gen \/ VecMetadataFresh

-----------------------------------------------------------------------------
(* Transactions on one index *)

\* _rebuild_fts, _rebuild_embeddings: delete, insert every record, mark.
Rebuilt(i) ==
  /\ entry' = [entry EXCEPT ![i] = row]
  /\ mark' = [mark EXCEPT ![i] = gen]
  /\ IF i = "vec"
     THEN /\ made' = [r \in Records |-> model]
          /\ markModel' = model
     ELSE UNCHANGED <<made, markModel>>

\* _upsert_fts or _upsert_embedding_rows of the rows that were read, then the
\* mark: a record that is gone is not inserted.
Upserted(i, versions, generation) ==
  /\ entry' = [entry EXCEPT ![i] =
                 [r \in Records |-> IF versions[r] # 0 THEN versions[r] ELSE @[r]]]
  /\ mark' = [mark EXCEPT ![i] = generation]
  /\ IF i = "vec"
     THEN /\ made' = [r \in Records |-> IF versions[r] # 0 THEN model ELSE made[r]]
          /\ markModel' = model
     ELSE UNCHANGED <<made, markModel>>

\* SELECT * FROM records WHERE record_id IN (the ids)
Versions(ids) == [r \in Records |-> IF r \in ids THEN row[r] ELSE 0]

\* The writer turns to the embedding table, or returns to its caller.
NextIndex(w) ==
  IF index[w] = "fts"
  THEN /\ index' = [index EXCEPT ![w] = "vec"]
       /\ pc' = [pc EXCEPT ![w] = "check"]
       /\ job' = [job EXCEPT ![w].seen = NoVersions]
  ELSE /\ index' = [index EXCEPT ![w] = "fts"]
       /\ pc' = [pc EXCEPT ![w] = "idle"]
       /\ job' = [job EXCEPT ![w] = NoJob]

-----------------------------------------------------------------------------
(* Writing a record *)

\* The record's own transaction and _bump_records_index_generation in it.
Commit(w, r) ==
  /\ pc[w] = "idle" /\ gen < MaxGen /\ MayWrite(r)
  /\ row' = [row EXCEPT ![r] = gen + 1]
  /\ gen' = gen + 1
  /\ job' = [job EXCEPT ![w] =
               [rec |-> {r}, target |-> gen + 1, fresh |-> {i \in Indexes : mark[i] = gen},
                seen |-> NoVersions]]
  /\ pc' = [pc EXCEPT ![w] = "check"]
  /\ UNCHANGED <<entry, mark, model, shape, made, markModel, index, due>>

\* Mutant of CanTarget: every refresh of a record is targeted.
CanTargetAlways(w) == index[w] = "vec" => ShapeMatches

\* can_target_refresh: the index was fresh before the write.
CanTarget(w) == index[w] \in job[w].fresh /\ (index[w] = "vec" => ShapeMatches)

RefreshTargeted(w) ==
  /\ pc[w] = "check" /\ CanTarget(w)
  /\ pc' = [pc EXCEPT ![w] = "read"]
  /\ UNCHANGED <<tables, index, job, due>>

\* Otherwise the refresh asks whether the index must be rebuilt.
Verdict(a) ==
  IF MetadataFresh(index[a]) THEN "read" ELSE IF Exact(index[a]) THEN "mark" ELSE "rebuild"

\* A table with the wrong vector size is dropped and created, each statement
\* in a transaction of its own.
TableReplaced ==
  /\ entry' = [entry EXCEPT !["vec"] = NoVersions]
  /\ shape' = model

RefreshChecked(w) ==
  /\ pc[w] = "check" /\ ~CanTarget(w)
  /\ IF index[w] = "vec" /\ ~ShapeMatches
     THEN TableReplaced /\ pc' = [pc EXCEPT ![w] = "rebuild"]
     ELSE pc' = [pc EXCEPT ![w] = Verdict(w)] /\ UNCHANGED <<entry, shape>>
  /\ UNCHANGED <<row, gen, mark, model, made, markModel, index, job, due>>

RefreshRebuild(w) ==
  /\ pc[w] = "rebuild"
  /\ Rebuilt(index[w])
  /\ NextIndex(w)
  /\ UNCHANGED <<row, gen, model, shape, due>>

\* The mark opens the transaction that also reads and writes the record, and
\* is overwritten by the target in it.
RefreshMark(w) ==
  /\ pc[w] = "mark"
  /\ Upserted(index[w], Versions(job[w].rec), job[w].target)
  /\ NextIndex(w)
  /\ UNCHANGED <<row, gen, model, shape, due>>

\* SELECT of the record, outside a transaction.
RefreshRead(w) ==
  /\ pc[w] = "read"
  /\ job' = [job EXCEPT ![w].seen = Versions(job[w].rec)]
  /\ pc' = [pc EXCEPT ![w] = "write"]
  /\ UNCHANGED <<tables, index, due>>

RefreshWrite(w) ==
  /\ pc[w] = "write"
  /\ Upserted(index[w], job[w].seen, job[w].target)
  /\ NextIndex(w)
  /\ UNCHANGED <<row, gen, model, shape, due>>

\* Any exception of a refresh is logged; the next index is still refreshed.
RefreshFails(w) ==
  /\ pc[w] # "idle"
  /\ NextIndex(w)
  /\ UNCHANGED <<tables, due>>

-----------------------------------------------------------------------------
(* Searching *)

\* search: what is in the table now must be found later.
SearchStart(s) ==
  /\ pc[s] = "idle"
  /\ due' = [due EXCEPT ![s] = [i \in Indexes |-> Live]]
  /\ pc' = [pc EXCEPT ![s] = "check"]
  /\ UNCHANGED <<tables, index, job>>

\* _prepare_search_fts and _prepare_search_embeddings up to their first write.
SearchCheck(s) ==
  /\ pc[s] = "check"
  /\ IF index[s] = "vec" /\ ~ShapeMatches
     THEN TableReplaced /\ pc' = [pc EXCEPT ![s] = "rebuild"] /\ UNCHANGED index
     ELSE /\ UNCHANGED <<entry, shape>>
          /\ IF MetadataFresh(index[s])
             THEN /\ index' = [index EXCEPT ![s] = "vec"]
                  /\ pc' = [pc EXCEPT ![s] = IF index[s] = "fts" THEN "check" ELSE "query"]
             ELSE /\ pc' = [pc EXCEPT ![s] = Verdict(s)]
                  /\ UNCHANGED index
  /\ UNCHANGED <<row, gen, mark, model, made, markModel, job, due>>

\* The first write opens a transaction that stays open until both indexes are
\* prepared.
SearchRepair(s) ==
  /\ pc[s] \in {"rebuild", "mark"}
  /\ LET both    == index[s] = "fts" /\ ~VecMetadataFresh
         vec     == index[s] = "vec" \/ both
         redone  == (IF pc[s] = "rebuild" THEN {index[s]} ELSE {})
                      \union (IF both /\ ~(ShapeMatches /\ VecExact) THEN {"vec"} ELSE {})
     IN /\ entry' = [i \in Indexes |-> IF i \in redone THEN row ELSE entry[i]]
        /\ mark' = [i \in Indexes |-> IF i = index[s] \/ (i = "vec" /\ vec)
                                      THEN gen ELSE mark[i]]
        /\ made' = IF "vec" \in redone THEN [r \in Records |-> model] ELSE made
        /\ markModel' = IF vec THEN model ELSE markModel
        /\ shape' = IF vec THEN model ELSE shape
  /\ pc' = [pc EXCEPT ![s] = "query"]
  /\ UNCHANGED <<row, gen, model, index, job, due>>

\* sqlite3.OperationalError while the full-text table is prepared: the search
\* goes on without it.
SearchWithoutFts(s) ==
  /\ pc[s] \in {"check", "rebuild", "mark"} /\ index[s] = "fts"
  /\ due' = [due EXCEPT ![s]["fts"] = {}]
  /\ index' = [index EXCEPT ![s] = "vec"]
  /\ pc' = [pc EXCEPT ![s] = "check"]
  /\ UNCHANGED <<tables, job>>

\* The query proper reads both indexes in one transaction.
SearchQuery(s) ==
  /\ pc[s] = "query"
  /\ pc' = [pc EXCEPT ![s] = "idle"]
  /\ index' = [index EXCEPT ![s] = "fts"]
  /\ due' = [due EXCEPT ![s] = [i \in Indexes |-> {}]]
  /\ UNCHANGED <<tables, job>>

-----------------------------------------------------------------------------
(* Resets and restarts *)

\* The records that have a row somewhere.
Kept == {r \in Records : row[r] # 0 \/ \E i \in Indexes : entry[i][r] # 0}

\* _reset_memory deletes records with their index rows and leaves the generation.
Reset(gone) ==
  /\ row' = [r \in Records |-> IF r \in gone THEN 0 ELSE row[r]]
  /\ entry' = [i \in Indexes |-> [r \in Records |-> IF r \in gone THEN 0 ELSE entry[i][r]]]
  /\ due' = [s \in Searchers |-> [i \in Indexes |-> due[s][i] \ gone]]
  /\ UNCHANGED <<gen, mark, model, shape, made, markModel>>
  /\ UNCHANGED <<pc, index, job>>

\* A caller of a process that stops between two transactions.
Stop(a) ==
  /\ pc[a] # "idle"
  /\ pc' = [pc EXCEPT ![a] = "idle"]
  /\ index' = [index EXCEPT ![a] = "fts"]
  /\ IF a \in Writers
     THEN job' = [job EXCEPT ![a] = NoJob] /\ UNCHANGED due
     ELSE due' = [due EXCEPT ![a] = [i \in Indexes |-> {}]] /\ UNCHANGED job
  /\ UNCHANGED tables

\* embedding_model_id is edited and the processes are restarted with it.
SwitchModel ==
  /\ model < MaxSwitches
  /\ \A a \in Callers : pc[a] = "idle"
  /\ model' = model + 1
  /\ UNCHANGED <<row, gen, entry, mark, shape, made, markModel, callers>>

Refresh(w) ==
  \/ RefreshTargeted(w) \/ RefreshChecked(w) \/ RefreshRebuild(w)
  \/ RefreshMark(w) \/ RefreshRead(w) \/ RefreshWrite(w)

Search(s) ==
  \/ SearchStart(s) \/ SearchCheck(s) \/ SearchRepair(s) \/ SearchQuery(s)

IndexNext ==
  \/ \E w \in Writers :
       (\E r \in Records : Commit(w, r)) \/ Refresh(w) \/ RefreshFails(w)
  \/ \E s \in Searchers : Search(s) \/ SearchWithoutFts(s)
  \/ \E gone \in SUBSET Kept : gone # {} /\ Reset(gone)
  \/ \E a \in Callers : Stop(a)
  \/ SwitchModel

IndexSpec == IndexInit /\ [][IndexNext]_indexVars

-----------------------------------------------------------------------------
(* Properties *)

\* An index whose metadata calls it fresh holds the current version of every
\* record, embedded with the configured model: no refresh that failed, came
\* late or was overtaken leaves a stale entry behind a fresh mark, since a
\* fresh mark is never checked again.
Complete(i) ==
  \A r \in Live : entry[i][r] = row[r] /\ (i = "vec" => made[r] = model)

FreshIsComplete == \A i \in Indexes : MetadataFresh(i) => Complete(i)

\* When search comes to its query, every record that was in the table when it
\* began and has not been deleted since is in the index it is looked up in.
SearchMissesNothing ==
  \A s \in Searchers, i \in Indexes :
    pc[s] = "query" => \A r \in due[s][i] : entry[i][r] # 0
=============================================================================
