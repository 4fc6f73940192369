----------------------------- MODULE StoreProofs -----------------------------
(* Theorems about what reads and makes the context store: the derived record *)
(* indexes, the answerer, and the upgrade of the schema.                     *)
EXTENDS RecordIndex, ContextAnswer, SchemaUpgrade, TLAPS

-----------------------------------------------------------------------------
(* RecordIndex *)

(* The version of a record that an index should hold: the newest one, or any *)
(* at all where a refresh may overtake another.                              *)
Current(r, version) ==
  IF "overlap" \in Races THEN version # 0 ELSE version = row[r]

(* The records whose entry in an index is not what it should be. *)
StaleIn(i) ==
  {r \in Live : \/ ~Current(r, entry[i][r])
                \/ i = "vec" /\ "overlap" \notin Races /\ made[r] # model}

(* The strengthening of FreshIsComplete and of what a search needs of it. *)
FreshInv == \A i \in Indexes : MetadataFresh(i) => StaleIn(i) = {}

(* Marks and targets are generations that have been.  A table is only marked *)
(* with the configured model when it has its vector size.                    *)
MarksInv ==
  /\ \A i \in Indexes : mark[i] <= gen
  /\ \A w \in Writers : job[w].target <= gen
  /\ markModel <= model
  /\ markModel = model => ShapeMatches

(* Who works on the embedding table, or will without looking again, has      *)
(* found it with the right vector size.                                      *)
ShapeInv ==
  /\ \A a \in Callers :
       pc[a] \in {"read", "write", "rebuild", "mark"} /\ index[a] = "vec" => ShapeMatches
  /\ \A w \in Writers : pc[w] # "idle" /\ "vec" \in job[w].fresh => ShapeMatches
  /\ \A s \in Searchers : pc[s] = "query" => ShapeMatches

(* No write has been committed since the one that a refresh is for, if that  *)
(* matters.                                                                  *)
Newest(w) == "overlap" \in Races => job[w].target = gen

(* A refresh whose target is still the newest generation will set a fresh    *)
(* mark: only its own record may be stale then.  What a refresh has read of  *)
(* its record can stand in the index, unless it has been overtaken and will  *)
(* not set one; an index about to be marked has nothing stale.               *)
RefreshInv ==
  /\ \A w \in Writers, i \in Indexes :
       /\ pc[w] # "idle" /\ job[w].target = gen
       /\ i \in job[w].fresh \/ (index[w] = i /\ pc[w] \in {"read", "write"})
       => StaleIn(i) \subseteq job[w].rec
  /\ \A w \in Writers : pc[w] = "write" =>
       \A r \in Records :
         IF r \in job[w].rec THEN r \in Live /\ Newest(w) => Current(r, job[w].seen[r])
                             ELSE job[w].seen[r] = 0
  /\ \A a \in Callers, i \in Indexes : pc[a] = "mark" /\ index[a] = i => StaleIn(i) = {}

(* A search that has done with an index will find in it what it must.        *)
SearchInv ==
  /\ \A s \in Searchers : pc[s] = "idle" => index[s] = "fts"
  /\ \A s \in Searchers, i \in Indexes : due[s][i] \subseteq Live
  /\ \A s \in Searchers :
       /\ index[s] = "vec" \/ pc[s] = "query" => \A r \in due[s]["fts"] : entry["fts"][r] # 0
       /\ pc[s] = "query" => \A r \in due[s]["vec"] : entry["vec"][r] # 0

IndexInv ==
  TypeOK /\ MarksInv /\ ShapeInv /\ RefreshInv /\ FreshInv /\ SearchInv

-----------------------------------------------------------------------------

LEMMA JobTypes ==
  /\ NoJob \in Jobs /\ NoVersions \in [Records -> Nat]
  /\ \A v \in Writers : \A f \in [Writers -> Jobs], x \in [Records -> Nat] :
       [f EXCEPT ![v].seen = x] \in [Writers -> Jobs]
  <1>1. NoVersions \in [Records -> Nat]
    BY DEF NoVersions
  <1>2. NoJob \in Jobs
    BY <1>1 DEF NoJob, Jobs
  <1>3. \A v \in Writers : \A f \in [Writers -> Jobs], x \in [Records -> Nat] :
          [f EXCEPT ![v].seen = x] \in [Writers -> Jobs]
    BY DEF Jobs
  <1> QED
    BY <1>1, <1>2, <1>3

LEMMA VersionsType ==
  ASSUME TypeOK, NEW ids PROVE Versions(ids) \in [Records -> Nat]
  BY DEF TypeOK, Versions

LEMMA NextIndexType ==
  ASSUME TypeOK, NEW w \in Writers, NextIndex(w)
  PROVE  /\ pc' \in [Callers -> CallStates] /\ index' \in [Callers -> Indexes]
         /\ job' \in [Writers -> Jobs]
  <1>1. job' = [job EXCEPT ![w] = NoJob] \/ job' = [job EXCEPT ![w].seen = NoVersions]
    BY DEF NextIndex
  <1>2. job' \in [Writers -> Jobs]
    <2>1. CASE job' = [job EXCEPT ![w] = NoJob]
      BY <2>1, JobTypes DEF TypeOK
    <2>2. CASE job' = [job EXCEPT ![w].seen = NoVersions]
      BY <2>2, JobTypes DEF TypeOK
    <2> QED
      BY <1>1, <2>1, <2>2
  <1> QED
    BY <1>2 DEF TypeOK, NextIndex, CallStates, Indexes, Callers

LEMMA RebuiltType ==
  ASSUME TypeOK, NEW i \in Indexes, Rebuilt(i)
  PROVE  /\ entry' \in [Indexes -> [Records -> Nat]] /\ mark' \in [Indexes -> Int]
         /\ made' \in [Records -> Nat] /\ markModel' \in Nat
  BY DEF TypeOK, Rebuilt

LEMMA UpsertedType ==
  ASSUME TypeOK, NEW i \in Indexes, NEW v \in [Records -> Nat], NEW g \in Nat,
         Upserted(i, v, g)
  PROVE  /\ entry' \in [Indexes -> [Records -> Nat]] /\ mark' \in [Indexes -> Int]
         /\ made' \in [Records -> Nat] /\ markModel' \in Nat
  <1>1. entry[i] \in [Records -> Nat]
    BY DEF TypeOK
  <1>2. entry' = [entry EXCEPT ![i] =
                    [r \in Records |-> IF v[r] # 0 THEN v[r] ELSE entry[i][r]]]
    BY <1>1 DEF Upserted, TypeOK
  <1>3. entry' \in [Indexes -> [Records -> Nat]]
    BY <1>1, <1>2 DEF TypeOK
  <1> QED
    BY <1>3 DEF TypeOK, Upserted

LEMMA IndexTypeNext == TypeOK /\ [IndexNext]_indexVars => TypeOK'
  <1> SUFFICES ASSUME TypeOK, [IndexNext]_indexVars PROVE TypeOK'
    OBVIOUS
  <1>1. ASSUME NEW w \in Writers, NEW r \in Records, Commit(w, r) PROVE TypeOK'
    <2>1. [rec |-> {r}, target |-> gen + 1, fresh |-> {i \in Indexes : mark[i] = gen},
           seen |-> NoVersions] \in Jobs
      BY JobTypes DEF TypeOK, Jobs
    <2> QED
      BY <1>1, <2>1 DEF Commit, TypeOK, CallStates, Callers
  <1>2. ASSUME NEW w \in Writers, RefreshTargeted(w) PROVE TypeOK'
    BY <1>2 DEF RefreshTargeted, TypeOK, CallStates, Callers, tables
  <1>3. ASSUME NEW w \in Writers, RefreshChecked(w) PROVE TypeOK'
    BY <1>3 DEF RefreshChecked, TypeOK, CallStates, Callers, TableReplaced, Verdict, NoVersions, Indexes
  <1>4. ASSUME NEW w \in Writers, RefreshRebuild(w) PROVE TypeOK'
    <2>1. index[w] \in Indexes
      BY DEF TypeOK, Callers
    <2> QED
      BY <1>4, <2>1, RebuiltType, NextIndexType DEF RefreshRebuild, TypeOK
  <1>5. ASSUME NEW w \in Writers, RefreshMark(w) PROVE TypeOK'
    <2>1. index[w] \in Indexes /\ job[w].target \in Nat
      BY DEF TypeOK, Callers, Jobs
    <2> QED
      BY <1>5, <2>1, VersionsType, UpsertedType, NextIndexType DEF RefreshMark, TypeOK
  <1>6. ASSUME NEW w \in Writers, RefreshRead(w) PROVE TypeOK'
    <2>1. job' \in [Writers -> Jobs]
      BY <1>6, JobTypes, VersionsType DEF RefreshRead, TypeOK
    <2> QED
      BY <1>6, <2>1 DEF RefreshRead, TypeOK, CallStates, Callers, tables
  <1>7. ASSUME NEW w \in Writers, RefreshWrite(w) PROVE TypeOK'
    <2>1. index[w] \in Indexes /\ job[w].target \in Nat /\ job[w].seen \in [Records -> Nat]
      BY DEF TypeOK, Callers, Jobs
    <2> QED
      BY <1>7, <2>1, UpsertedType, NextIndexType DEF RefreshWrite, TypeOK
  <1>8. ASSUME NEW w \in Writers, RefreshFails(w) PROVE TypeOK'
    BY <1>8, NextIndexType DEF RefreshFails, TypeOK, tables
  <1>9. ASSUME NEW s \in Searchers, SearchStart(s) PROVE TypeOK'
    BY <1>9 DEF SearchStart, TypeOK, CallStates, Callers, tables, Live
  <1>10. ASSUME NEW s \in Searchers, SearchCheck(s) PROVE TypeOK'
    BY <1>10 DEF SearchCheck, TypeOK, CallStates, Callers, TableReplaced, Verdict, NoVersions, Indexes
  <1>11. ASSUME NEW s \in Searchers, SearchRepair(s) PROVE TypeOK'
    BY <1>11 DEF SearchRepair, TypeOK, CallStates, Callers
  <1>12. ASSUME NEW s \in Searchers, SearchQuery(s) PROVE TypeOK'
    BY <1>12 DEF SearchQuery, TypeOK, CallStates, Callers, tables, Indexes
  <1>13. ASSUME NEW s \in Searchers, SearchWithoutFts(s) PROVE TypeOK'
    BY <1>13 DEF SearchWithoutFts, TypeOK, CallStates, Callers, tables, Indexes
  <1>14. ASSUME NEW gone \in SUBSET Kept, Reset(gone) PROVE TypeOK'
    BY <1>14 DEF Reset, TypeOK
  <1>15. ASSUME NEW a \in Callers, Stop(a) PROVE TypeOK'
    BY SMTT(30), <1>15, JobTypes DEF Stop, TypeOK, CallStates, Callers, tables, Indexes
  <1>16. CASE SwitchModel
    BY <1>16 DEF SwitchModel, TypeOK, callers
  <1>17. CASE UNCHANGED indexVars
    BY <1>17 DEF indexVars, tables, callers, TypeOK
  <1> QED
    BY <1>1, <1>2, <1>3, <1>4, <1>5, <1>6, <1>7, <1>8, <1>9, <1>10, <1>11, <1>12, <1>13,
       <1>14, <1>15, <1>16, <1>17 DEF IndexNext, Refresh, Search

(* What an action may do to the tables, for the parts of the invariant. *)
LEMMA StaleDefined ==
  ASSUME TypeOK
  PROVE  /\ \A i \in Indexes : Races = {} /\ StaleIn(i) = {} => Complete(i)
         /\ \A r \in Live : Current(r, row[r])
         /\ \A i \in Indexes : StaleIn(i) \subseteq Records
         /\ FtsExact => StaleIn("fts") = {}
         /\ VecExact => StaleIn("vec") = {}
  BY DEF TypeOK, Complete, StaleIn, Current, Live, FtsExact, VecExact, Indexes

(* A transaction repairs some indexes when it makes no entry of them worse.  *)
Repairs(repaired) ==
  /\ UNCHANGED <<row, gen, model>> /\ shape' \in {shape, model}
  /\ \A i \in Indexes \ repaired : entry'[i] = entry[i] /\ mark'[i] = mark[i]
  /\ \A i \in repaired, r \in Live :
       entry'[i][r] # entry[i][r] => Current(r, entry'[i][r])
  /\ IF "vec" \in repaired
     THEN /\ \A r \in Records : /\ made'[r] \in {made[r], model}
                                /\ entry'["vec"][r] # entry["vec"][r] => made'[r] = model
          /\ markModel' = model
     ELSE UNCHANGED <<made, markModel>>

LEMMA RebuiltRepairs ==
  ASSUME TypeOK, NEW i \in Indexes, Rebuilt(i), UNCHANGED <<row, gen, model, shape>>
  PROVE  Repairs({i}) /\ StaleIn(i)' = {} /\ mark'[i] = gen
  <1>1. Repairs({i})
    BY StaleDefined DEF TypeOK, Rebuilt, Repairs, Live
  <1>2. entry'[i] = row /\ mark'[i] = gen
    BY DEF TypeOK, Rebuilt
  <1>3. i = "vec" => \A r \in Records : made'[r] = model
    BY DEF Rebuilt
  <1>4. Live' = Live
    BY DEF Live
  <1>5. StaleIn(i)' = {}
    BY <1>2, <1>3, <1>4 DEF StaleIn, Current, Live
  <1> QED
    BY <1>1, <1>2, <1>5

LEMMA UpsertedRepairs ==
  ASSUME TypeOK, NEW i \in Indexes, NEW v \in [Records -> Nat], NEW g \in Nat,
         Upserted(i, v, g), UNCHANGED <<row, gen, model, shape>>,
         \A r \in Live : v[r] # 0 => Current(r, v[r])
  PROVE  /\ Repairs({i}) /\ mark'[i] = g
         /\ \A r \in Live : v[r] # 0 => r \notin StaleIn(i)'
  <1>1. entry'[i] = [r \in Records |-> IF v[r] # 0 THEN v[r] ELSE entry[i][r]]
    BY DEF TypeOK, Upserted
  <1>2. \A o \in Indexes \ {i} : entry'[o] = entry[o] /\ mark'[o] = mark[o]
    BY DEF TypeOK, Upserted
  <1>3. i = "vec" => made' = [r \in Records |-> IF v[r] # 0 THEN model ELSE made[r]]
    BY DEF Upserted
  <1>4. Live' = Live /\ \A r \in Live : r \in Records /\ row[r] # 0
    BY DEF Live
  <1>5. \A r \in Live : entry'[i][r] # entry[i][r] => Current(r, entry'[i][r])
    BY <1>1, <1>4
  <1>6. i = "vec" => \A r \in Records :
          /\ made'[r] \in {made[r], model}
          /\ entry'[i][r] # entry[i][r] => made'[r] = model
    BY <1>1, <1>3
  <1>7. IF i = "vec" THEN markModel' = model ELSE UNCHANGED <<made, markModel>>
    BY DEF Upserted
  <1>8. mark'[i] = g
    BY DEF TypeOK, Upserted
  <1>9. \A r \in Live : v[r] # 0 => r \notin StaleIn(i)'
    BY <1>1, <1>3, <1>4 DEF StaleIn, Current
  <1> QED
    BY <1>2, <1>5, <1>6, <1>7, <1>8, <1>9 DEF Repairs

LEMMA RepairsHelp ==
  ASSUME TypeOK, NEW repaired \in SUBSET Indexes, Repairs(repaired)
  PROVE  /\ Live' = Live
         /\ \A i \in Indexes : StaleIn(i)' \subseteq StaleIn(i)
         /\ ShapeMatches => ShapeMatches'
         /\ \A i \in Indexes, r \in Live : entry[i][r] # 0 => entry'[i][r] # 0
  <1>1. Live' = Live /\ \A r \in Live : r \in Records /\ row[r] # 0
    BY DEF Repairs, Live
  <1>2. ShapeMatches => ShapeMatches'
    BY DEF Repairs, ShapeMatches
  <1>3. ASSUME NEW i \in Indexes PROVE StaleIn(i)' \subseteq StaleIn(i)
    <2>1. CASE i \notin repaired
      BY <1>1, <2>1 DEF Repairs, StaleIn, Current
    <2>2. CASE i \in repaired
      BY <1>1, <2>2 DEF Repairs, StaleIn, Current
    <2> QED
      BY <2>1, <2>2
  <1>4. \A i \in Indexes, r \in Live : entry[i][r] # 0 => entry'[i][r] # 0
    BY <1>1 DEF Repairs, Current
  <1> QED
    BY <1>1, <1>2, <1>3, <1>4

LEMMA TablesSame ==
  ASSUME UNCHANGED tables
  PROVE  /\ Live' = Live /\ ShapeMatches' = ShapeMatches
         /\ \A i \in Indexes : StaleIn(i)' = StaleIn(i)
         /\ MarksInv /\ UNCHANGED job => MarksInv'
         /\ FreshInv => FreshInv'
  <1>1. Live' = Live /\ ShapeMatches' = ShapeMatches
    BY DEF tables, Live, ShapeMatches
  <1>2. \A i \in Indexes : StaleIn(i)' = StaleIn(i)
    BY <1>1 DEF tables, StaleIn, Current
  <1>3. MarksInv /\ UNCHANGED job => MarksInv'
    BY <1>1 DEF tables, MarksInv
  <1>4. FreshInv => FreshInv'
    BY <1>1, <1>2 DEF tables, FreshInv, MetadataFresh, FtsMetadataFresh, VecMetadataFresh
  <1> QED
    BY <1>1, <1>2, <1>3, <1>4

(* A writer that is done with an index goes on with what it had to do. *)
LEMMA NextIndexFacts ==
  ASSUME TypeOK, NEW w \in Writers, NextIndex(w)
  PROVE  /\ \A a \in Callers \ {w} : pc'[a] = pc[a] /\ index'[a] = index[a]
         /\ \A v \in Writers \ {w} : job'[v] = job[v]
         /\ pc'[w] \in {"check", "idle"}
         /\ job'[w].target \in {0, job[w].target}
         /\ pc'[w] # "idle" =>
              /\ job'[w].rec = job[w].rec /\ job'[w].target = job[w].target
              /\ job'[w].fresh = job[w].fresh
  <1>1. w \in Callers
    BY DEF Callers
  <1>2. \A a \in Callers \ {w} : pc'[a] = pc[a] /\ index'[a] = index[a]
    BY DEF TypeOK, NextIndex
  <1>3. \A v \in Writers \ {w} : job'[v] = job[v]
    BY DEF TypeOK, NextIndex
  <1>4. CASE index[w] = "fts"
    <2>1. job' = [job EXCEPT ![w].seen = NoVersions] /\ pc'[w] = "check"
      BY <1>1, <1>4 DEF NextIndex, TypeOK
    <2>2. /\ job'[w].rec = job[w].rec /\ job'[w].target = job[w].target
          /\ job'[w].fresh = job[w].fresh
      BY <2>1 DEF TypeOK, Jobs
    <2> QED
      BY <1>2, <1>3, <1>4, <2>1, <2>2
  <1>5. CASE index[w] # "fts"
    <2>1. pc'[w] = "idle" /\ job'[w] = NoJob
      BY <1>1, <1>5 DEF NextIndex, TypeOK
    <2>2. NoJob.target = 0
      BY DEF NoJob
    <2> QED
      BY <1>2, <1>3, <2>1, <2>2
  <1> QED
    BY <1>4, <1>5

(* The transaction in which a writer brings an index up to its target. *)
LEMMA WriterRepairs ==
  ASSUME IndexInv, TypeOK', NEW w \in Writers, pc[w] \in {"rebuild", "mark", "write"},
         NEW k \in Indexes, index[w] = k, Repairs({k}), NextIndex(w), UNCHANGED due,
         mark'[k] <= gen, mark'[k] = gen => StaleIn(k)' = {}
  PROVE  IndexInv'
  <1> USE DEF IndexInv
  <1>1. w \in Callers /\ \A v \in Writers \ {w} : v \in Callers \ {w}
    BY DEF Callers
  <1>2. /\ Live' = Live
        /\ \A i \in Indexes : StaleIn(i)' \subseteq StaleIn(i)
        /\ ShapeMatches => ShapeMatches'
        /\ \A i \in Indexes, r \in Live : entry[i][r] # 0 => entry'[i][r] # 0
    BY RepairsHelp
  <1>3. UNCHANGED <<row, gen, model>>
    BY DEF Repairs
  <1>4. MarksInv'
    <2>1. \A i \in Indexes : mark'[i] <= gen'
      BY <1>3 DEF Repairs, MarksInv
    <2>2. \A v \in Writers : job'[v].target <= gen'
      <3>1. 0 <= gen /\ job[w].target <= gen
        BY DEF MarksInv, TypeOK
      <3>2. job'[w].target <= gen
        <4>1. job'[w].target \in {0, job[w].target}
          BY NextIndexFacts
        <4> QED
          BY <3>1, <4>1
      <3>3. ASSUME NEW v \in Writers, v # w PROVE job'[v].target <= gen
        <4>1. job'[v] = job[v]
          BY <3>3, NextIndexFacts
        <4> QED
          BY <4>1 DEF MarksInv
      <3> QED
        BY <1>3, <3>2, <3>3
    <2>3. markModel' \in {markModel, model} /\ (markModel' # markModel => k = "vec")
      BY DEF Repairs
    <2>4. markModel' <= model'
      BY <1>3, <2>3 DEF MarksInv, TypeOK
    <2>5. markModel' = model' => ShapeMatches'
      BY <1>1, <1>2, <1>3, <2>3 DEF MarksInv, ShapeInv
    <2> QED
      BY <2>1, <2>2, <2>4, <2>5 DEF MarksInv
  <1>5. ShapeInv'
    <2>1. ASSUME NEW a \in Callers, pc'[a] \in {"read", "write", "rebuild", "mark"},
                 index'[a] = "vec"
          PROVE ShapeMatches'
      <3>1. a # w
        BY <2>1, NextIndexFacts
      <3>2. pc'[a] = pc[a] /\ index'[a] = index[a]
        BY <3>1, NextIndexFacts
      <3> QED
        BY <1>2, <2>1, <3>2 DEF ShapeInv
    <2>2. ASSUME NEW v \in Writers, pc'[v] # "idle", "vec" \in job'[v].fresh
          PROVE ShapeMatches'
      <3>1. pc[v] # "idle" /\ job'[v].fresh = job[v].fresh
        BY <1>1, <2>2, NextIndexFacts
      <3> QED
        BY <1>2, <2>2, <3>1 DEF ShapeInv
    <2>3. ASSUME NEW s \in Searchers, pc'[s] = "query" PROVE ShapeMatches'
      <3>1. s \in Callers \ {w}
        BY IndexAssumption DEF Callers
      <3> QED
        BY <1>2, <2>3, <3>1, NextIndexFacts DEF ShapeInv
    <2> QED
      BY <2>1, <2>2, <2>3 DEF ShapeInv
  <1>6. RefreshInv'
    <2>1. ASSUME NEW v \in Writers, NEW i \in Indexes,
                 pc'[v] # "idle", job'[v].target = gen',
                 i \in job'[v].fresh \/ (index'[v] = i /\ pc'[v] \in {"read", "write"})
          PROVE  StaleIn(i)' \subseteq job'[v].rec
      <3>1. CASE v = w
        <4>1. i \in job[v].fresh /\ job'[v].rec = job[v].rec /\ job[v].target = gen
          BY <1>3, <2>1, <3>1, NextIndexFacts
        <4>2. StaleIn(i) \subseteq job[v].rec
          BY <4>1, <3>1 DEF RefreshInv
        <4> QED
          BY <1>2, <4>1, <4>2
      <3>2. CASE v # w
        <4>1. job'[v] = job[v] /\ pc'[v] = pc[v] /\ index'[v] = index[v]
          BY <1>1, <3>2, NextIndexFacts
        <4>2. StaleIn(i) \subseteq job[v].rec
          BY <1>3, <2>1, <4>1 DEF RefreshInv
        <4> QED
          BY <1>2, <4>1, <4>2
      <3> QED
        BY <3>1, <3>2
    <2>2. ASSUME NEW v \in Writers, pc'[v] = "write", NEW r \in Records
          PROVE  IF r \in job'[v].rec
                 THEN r \in Live' /\ Newest(v)' => Current(r, job[v].seen[r])'
                 ELSE job'[v].seen[r] = 0
      <3>1. v # w
        BY <2>2, NextIndexFacts
      <3>2. job'[v] = job[v] /\ pc'[v] = pc[v]
        BY <1>1, <3>1, NextIndexFacts
      <3> QED
        BY <1>2, <1>3, <2>2, <3>2 DEF RefreshInv, Newest, Current
    <2>3. ASSUME NEW a \in Callers, NEW i \in Indexes, pc'[a] = "mark", index'[a] = i
          PROVE  StaleIn(i)' = {}
      <3>1. a # w
        BY <2>3, NextIndexFacts
      <3>2. pc'[a] = pc[a] /\ index'[a] = index[a]
        BY <3>1, NextIndexFacts
      <3> QED
        BY <1>2, <2>3, <3>2 DEF RefreshInv
    <2> QED
      BY <2>1, <2>2, <2>3 DEF RefreshInv
  <1>7. FreshInv'
    <2>1. ASSUME NEW i \in Indexes, MetadataFresh(i)' PROVE StaleIn(i)' = {}
      <3>1. mark'[i] = gen' /\ (i = "vec" => markModel' = model')
        BY <2>1 DEF MetadataFresh, FtsMetadataFresh, VecMetadataFresh, Indexes
      <3>2. CASE i = k
        BY <1>3, <3>1, <3>2
      <3>3. CASE i # k
        <4>1. mark'[i] = mark[i] /\ (i = "vec" => markModel' = markModel)
          BY <3>3 DEF Repairs, Indexes
        <4>2. MetadataFresh(i)
          BY <1>3, <3>1, <4>1
             DEF MarksInv, MetadataFresh, FtsMetadataFresh, VecMetadataFresh, Indexes
        <4> QED
          BY <1>2, <4>2 DEF FreshInv
      <3> QED
        BY <3>2, <3>3
    <2> QED
      BY <2>1 DEF FreshInv
  <1>8. SearchInv'
    <2>1. \A s \in Searchers : s \in Callers \ {w}
      BY IndexAssumption DEF Callers
    <2>2. "fts" \in Indexes /\ "vec" \in Indexes
      BY DEF Indexes
    <2> QED
      BY <1>2, <2>1, <2>2, NextIndexFacts DEF SearchInv
  <1> QED
    BY <1>4, <1>5, <1>6, <1>7, <1>8

-----------------------------------------------------------------------------
(* The steps of a writer *)

LEMMA CommitKeeps ==
  ASSUME IndexInv, TypeOK', Races \subseteq {"overlap"}, NEW w \in Writers, NEW r \in Records, Commit(w, r)
  PROVE  IndexInv'
  <1> USE DEF IndexInv
  <1>1. /\ \A a \in Callers : pc[a] # "mark"
        /\ "overlap" \in Races \/ \A v \in Writers : pc[v] = "write" => r \notin job[v].rec
        /\ mark["vec"] # gen \/ VecMetadataFresh
    BY DEF Commit, MayWrite
  <1>2. /\ \A o \in Records \ {r} : row'[o] = row[o]
        /\ row'[r] = gen + 1 /\ gen' = gen + 1 /\ gen \in Nat
        /\ UNCHANGED <<entry, mark, model, shape, made, markModel, index, due>>
    BY DEF Commit, TypeOK
  <1>3. /\ w \in Callers /\ \A v \in Writers : v \in Callers
        /\ \A s \in Searchers : s \in Callers \ {w}
    BY IndexAssumption DEF Callers
  <1>4. /\ \A a \in Callers \ {w} : pc'[a] = pc[a]
        /\ \A v \in Writers \ {w} : job'[v] = job[v]
        /\ pc'[w] = "check"
        /\ job'[w].rec = {r} /\ job'[w].target = gen + 1
        /\ job'[w].fresh = {i \in Indexes : mark[i] = gen}
    BY <1>3 DEF Commit, TypeOK
  <1>5. Live \subseteq Live' /\ ShapeMatches' = ShapeMatches
    BY <1>2 DEF Live, ShapeMatches
  <1>6. \A i \in Indexes : StaleIn(i)' \subseteq StaleIn(i) \union {r}
    BY <1>2 DEF StaleIn, Current, Live
  <1>7. ASSUME NEW i \in Indexes, mark[i] = gen PROVE StaleIn(i) = {}
    <2>1. MetadataFresh(i)
      BY <1>1, <1>7 DEF MetadataFresh, FtsMetadataFresh, Indexes
    <2> QED
      BY <2>1 DEF FreshInv
  <1>8. \A n \in Int : n <= gen => n <= gen + 1 /\ n # gen + 1
    BY <1>2
  <1>9. MarksInv'
    <2>1. \A i \in Indexes : mark'[i] <= gen'
      BY <1>2, <1>8 DEF MarksInv, TypeOK
    <2>2. \A v \in Writers : job'[v].target <= gen'
      <3>1. ASSUME NEW v \in Writers, v # w PROVE job'[v].target <= gen'
        <4>1. job[v].target \in Int /\ job[v].target <= gen
          BY DEF MarksInv, TypeOK, Jobs
        <4> QED
          BY <1>2, <1>4, <1>8, <3>1, <4>1
      <3>2. job'[w].target <= gen'
        <4>1. gen + 1 <= gen + 1
          BY <1>2
        <4> QED
          BY <1>2, <1>4, <4>1
      <3> QED
        BY <3>1, <3>2
    <2> QED
      BY <1>2, <1>5, <2>1, <2>2 DEF MarksInv
  <1>10. ShapeInv'
    <2>1. "vec" \in job'[w].fresh => ShapeMatches
      BY <1>1, <1>4 DEF VecMetadataFresh
    <2> QED
      BY <1>2, <1>3, <1>4, <1>5, <2>1 DEF ShapeInv
  <1>11. RefreshInv'
    <2>1. ASSUME NEW v \in Writers, NEW i \in Indexes,
                 pc'[v] # "idle", job'[v].target = gen',
                 i \in job'[v].fresh \/ (index'[v] = i /\ pc'[v] \in {"read", "write"})
          PROVE  StaleIn(i)' \subseteq job'[v].rec
      <3>1. v = w
        <4>1. v # w => job'[v].target = job[v].target /\ job[v].target \in Int
                       /\ job[v].target <= gen
          BY <1>4 DEF MarksInv, TypeOK, Jobs
        <4> QED
          BY <1>2, <1>8, <2>1, <4>1
      <3>2. StaleIn(i) = {}
        BY <1>4, <1>7, <2>1, <3>1
      <3> QED
        BY <1>4, <1>6, <3>1, <3>2
    <2>2. ASSUME NEW v \in Writers, pc'[v] = "write", NEW o \in Records
          PROVE  IF o \in job'[v].rec
                 THEN o \in Live' /\ Newest(v)' => Current(o, job[v].seen[o])'
                 ELSE job'[v].seen[o] = 0
      <3>1. v # w /\ pc[v] = "write" /\ job'[v] = job[v]
        BY <1>3, <1>4, <2>2
      <3>2. o # r => (o \in Live' <=> o \in Live)
        BY <1>2 DEF Live
      <3>3. CASE "overlap" \in Races
        <4>1. job[v].target # gen'
          BY <1>2, <1>8 DEF MarksInv, TypeOK, Jobs
        <4> QED
          BY <3>1, <3>3, <4>1 DEF RefreshInv, Newest
      <3>4. CASE "overlap" \notin Races
        BY <1>1, <1>2, <3>1, <3>2, <3>4 DEF RefreshInv, Newest, Current
      <3> QED
        BY <3>3, <3>4
    <2>3. \A a \in Callers : pc'[a] # "mark"
      BY <1>1, <1>4
    <2> QED
      BY <2>1, <2>2, <2>3 DEF RefreshInv
  <1>12. FreshInv'
    <2>1. ASSUME NEW i \in Indexes PROVE mark'[i] # gen'
      BY <1>2, <1>8 DEF MarksInv, TypeOK
    <2> QED
      BY <2>1 DEF FreshInv, MetadataFresh, FtsMetadataFresh, VecMetadataFresh, Indexes
  <1>13. SearchInv'
    BY <1>2, <1>3, <1>4, <1>5 DEF SearchInv
  <1> QED
    BY <1>9, <1>10, <1>11, <1>12, <1>13

LEMMA RefreshTargetedKeeps ==
  ASSUME IndexInv, TypeOK', NEW w \in Writers, RefreshTargeted(w) PROVE IndexInv'
  <1> USE DEF IndexInv
  <1>1. UNCHANGED tables /\ UNCHANGED <<index, job, due>>
    BY DEF RefreshTargeted
  <1>2. /\ w \in Callers /\ \A v \in Writers : v \in Callers
        /\ \A s \in Searchers : s \in Callers \ {w}
    BY IndexAssumption DEF Callers
  <1>3. \A a \in Callers \ {w} : pc'[a] = pc[a]
    BY DEF RefreshTargeted, TypeOK
  <1>4. pc[w] = "check" /\ pc'[w] = "read" /\ CanTarget(w)
    BY <1>2 DEF RefreshTargeted, TypeOK
  <1>5. ShapeInv'
    BY <1>1, <1>2, <1>3, <1>4, TablesSame DEF ShapeInv, CanTarget
  <1>6. RefreshInv'
    BY <1>1, <1>2, <1>3, <1>4, TablesSame DEF RefreshInv, CanTarget, Newest, Current, tables
  <1>7. SearchInv'
    BY <1>1, <1>2, <1>3, TablesSame DEF SearchInv, tables
  <1> QED
    BY <1>1, <1>5, <1>6, <1>7, TablesSame

LEMMA RefreshReadKeeps ==
  ASSUME IndexInv, TypeOK', NEW w \in Writers, RefreshRead(w) PROVE IndexInv'
  <1> USE DEF IndexInv
  <1>1. UNCHANGED tables /\ UNCHANGED <<index, due>>
    BY DEF RefreshRead
  <1>2. /\ w \in Callers /\ \A v \in Writers : v \in Callers
        /\ \A s \in Searchers : s \in Callers \ {w}
    BY IndexAssumption DEF Callers
  <1>3. \A a \in Callers \ {w} : pc'[a] = pc[a]
    BY DEF RefreshRead, TypeOK
  <1>4. pc[w] = "read" /\ pc'[w] = "write"
    BY <1>2 DEF RefreshRead, TypeOK
  <1>5. \A v \in Writers \ {w} : job'[v] = job[v]
    BY DEF RefreshRead, TypeOK
  <1>6. /\ job'[w].rec = job[w].rec /\ job'[w].target = job[w].target
        /\ job'[w].fresh = job[w].fresh
        /\ job'[w].seen = Versions(job[w].rec)
    BY DEF RefreshRead, TypeOK, Jobs
  <1>7. MarksInv'
    <2>1. ASSUME NEW v \in Writers PROVE job'[v].target <= gen'
      <3>1. job'[v].target = job[v].target
        BY <1>5, <1>6
      <3> QED
        BY <1>1, <3>1 DEF MarksInv, tables
    <2> QED
      BY <1>1, <2>1, TablesSame DEF MarksInv, tables
  <1>8. ShapeInv'
    <2>1. ASSUME NEW v \in Writers PROVE job'[v].fresh = job[v].fresh
      BY <1>5, <1>6
    <2> QED
      BY <1>1, <1>2, <1>3, <1>4, <2>1, TablesSame DEF ShapeInv
  <1>9. RefreshInv'
    <2>1. ASSUME NEW v \in Writers, NEW i \in Indexes,
                 pc'[v] # "idle", job'[v].target = gen',
                 i \in job'[v].fresh \/ (index'[v] = i /\ pc'[v] \in {"read", "write"})
          PROVE  StaleIn(i)' \subseteq job'[v].rec
      <3>1. job'[v].rec = job[v].rec /\ job[v].target = gen /\ job'[v].fresh = job[v].fresh
        BY <1>1, <1>5, <1>6, <2>1 DEF tables
      <3>2. pc[v] # "idle" /\ (pc'[v] \in {"read", "write"} => pc[v] \in {"read", "write"})
        BY <1>2, <1>3, <1>4, <2>1
      <3>3. StaleIn(i) \subseteq job[v].rec
        BY <1>1, <2>1, <3>1, <3>2 DEF RefreshInv
      <3> QED
        BY <1>1, <3>1, <3>3, TablesSame
    <2>2. ASSUME NEW v \in Writers, pc'[v] = "write", NEW r \in Records
          PROVE  IF r \in job'[v].rec
                 THEN r \in Live' /\ Newest(v)' => Current(r, job[v].seen[r])'
                 ELSE job'[v].seen[r] = 0
      <3>1. CASE v = w
        BY <1>1, <1>6, <3>1 DEF Versions, Current, Live, tables
      <3>2. CASE v # w
        BY <1>1, <1>2, <1>3, <1>5, <2>2, <3>2, TablesSame DEF RefreshInv, Newest, Current, tables
      <3> QED
        BY <3>1, <3>2
    <2>3. ASSUME NEW a \in Callers, NEW i \in Indexes, pc'[a] = "mark", index'[a] = i
          PROVE  StaleIn(i)' = {}
      BY <1>1, <1>3, <1>4, <2>3, TablesSame DEF RefreshInv
    <2> QED
      BY <2>1, <2>2, <2>3 DEF RefreshInv
  <1>10. SearchInv'
    BY <1>1, <1>2, <1>3, TablesSame DEF SearchInv, tables
  <1> QED
    BY <1>1, <1>7, <1>8, <1>9, <1>10, TablesSame

(* A table with the wrong vector size carries no mark that calls it fresh,   *)
(* and nobody counts on what it holds: replacing it loses nothing.           *)
LEMMA TableReplacedKeeps ==
  ASSUME IndexInv, TypeOK', NEW a \in Callers, pc[a] = "check", ~ShapeMatches, TableReplaced,
         pc' = [pc EXCEPT ![a] = "rebuild"],
         UNCHANGED <<row, gen, mark, model, made, markModel, index, job, due>>
  PROVE  IndexInv'
  <1> USE DEF IndexInv
  <1>1. ShapeMatches' /\ Live' = Live
    BY DEF TableReplaced, ShapeMatches, Live
  <1>2. pc'[a] = "rebuild" /\ \A b \in Callers \ {a} : pc'[b] = pc[b]
    BY DEF TypeOK
  <1>3. entry'["fts"] = entry["fts"] /\ StaleIn("fts")' = StaleIn("fts")
    BY <1>1 DEF TableReplaced, TypeOK, Indexes, StaleIn, Current
  <1>4. \A v \in Writers : v \in Callers /\ (pc[v] # "idle" => "vec" \notin job[v].fresh)
    BY DEF ShapeInv, Callers
  <1>5. \A b \in Callers : pc[b] \in {"read", "write", "rebuild", "mark"} => index[b] = "fts"
    BY DEF ShapeInv, TypeOK, Indexes
  <1>6. \A s \in Searchers : s \in Callers /\ pc[s] # "query"
    BY DEF ShapeInv, Callers
  <1>7. MarksInv'
    BY <1>1 DEF MarksInv
  <1>8. ShapeInv'
    BY <1>1 DEF ShapeInv
  <1>9. RefreshInv'
    <2>1. ASSUME NEW v \in Writers, NEW i \in Indexes,
                 pc'[v] # "idle", job'[v].target = gen',
                 i \in job'[v].fresh \/ (index'[v] = i /\ pc'[v] \in {"read", "write"})
          PROVE  StaleIn(i)' \subseteq job'[v].rec
      <3>1. pc[v] # "idle"
        BY <1>2, <1>4, <2>1
      <3>2. i = "fts"
        BY <1>2, <1>4, <1>5, <2>1, <3>1 DEF Indexes
      <3> QED
        BY <1>2, <1>3, <1>4, <2>1, <3>1, <3>2 DEF RefreshInv
    <2>2. ASSUME NEW v \in Writers, pc'[v] = "write", NEW r \in Records
          PROVE  IF r \in job'[v].rec
                 THEN r \in Live' /\ Newest(v)' => Current(r, job[v].seen[r])'
                 ELSE job'[v].seen[r] = 0
      BY <1>1, <1>2, <1>4, <2>2 DEF RefreshInv, Newest, Current
    <2>3. ASSUME NEW b \in Callers, NEW i \in Indexes, pc'[b] = "mark", index'[b] = i
          PROVE  StaleIn(i)' = {}
      <3>1. pc[b] = "mark" /\ i = "fts"
        BY <1>2, <1>5, <2>3
      <3> QED
        BY <1>3, <2>3, <3>1 DEF RefreshInv
    <2> QED
      BY <2>1, <2>2, <2>3 DEF RefreshInv
  <1>10. FreshInv'
    <2>1. ~VecMetadataFresh'
      BY DEF MarksInv, VecMetadataFresh
    <2>2. FtsMetadataFresh' => StaleIn("fts")' = {}
      BY <1>1, <1>3 DEF FreshInv, MetadataFresh, FtsMetadataFresh, Indexes
    <2> QED
      BY <2>1, <2>2 DEF FreshInv, MetadataFresh, Indexes
  <1>11. SearchInv'
    BY <1>1, <1>2, <1>3, <1>6 DEF SearchInv
  <1> QED
    BY <1>7, <1>8, <1>9, <1>10, <1>11

LEMMA VerdictHolds ==
  ASSUME IndexInv, NEW a \in Callers, NEW k \in Indexes, index[a] = k
  PROVE  /\ Verdict(a) \in {"read", "mark", "rebuild"}
         /\ Verdict(a) # "rebuild" => StaleIn(k) = {}
  <1> USE DEF IndexInv
  <1>1. MetadataFresh(k) => StaleIn(k) = {}
    BY DEF FreshInv
  <1>2. Exact(k) => StaleIn(k) = {}
    BY StaleDefined DEF Exact, Indexes
  <1> QED
    BY <1>1, <1>2 DEF Verdict

LEMMA RefreshCheckedKeeps ==
  ASSUME IndexInv, TypeOK', NEW w \in Writers, RefreshChecked(w) PROVE IndexInv'
  <1> USE DEF IndexInv
  <1>1. /\ w \in Callers /\ \A v \in Writers : v \in Callers
        /\ \A s \in Searchers : s \in Callers \ {w}
    BY IndexAssumption DEF Callers
  <1>2. CASE index[w] = "vec" /\ ~ShapeMatches
    BY <1>1, <1>2, TableReplacedKeeps DEF RefreshChecked
  <1>3. CASE ~(index[w] = "vec" /\ ~ShapeMatches)
    <2>1. UNCHANGED tables /\ UNCHANGED <<index, job, due>>
      BY <1>3 DEF RefreshChecked, tables
    <2>2. pc[w] = "check" /\ pc'[w] = Verdict(w) /\ \A a \in Callers \ {w} : pc'[a] = pc[a]
      BY <1>1, <1>3 DEF RefreshChecked, TypeOK
    <2>3. PICK k \in Indexes : index[w] = k
      BY <1>1 DEF TypeOK
    <2>4. Verdict(w) \in {"read", "mark", "rebuild"} /\ (Verdict(w) # "rebuild" => StaleIn(k) = {})
      BY <1>1, <2>3, VerdictHolds
    <2>5. ShapeInv'
      BY <1>1, <1>3, <2>1, <2>2, TablesSame DEF ShapeInv
    <2>6. RefreshInv'
      <3>1. ASSUME NEW v \in Writers, NEW i \in Indexes,
                   pc'[v] # "idle", job'[v].target = gen',
                   i \in job'[v].fresh \/ (index'[v] = i /\ pc'[v] \in {"read", "write"})
            PROVE  StaleIn(i)' \subseteq job'[v].rec
        <4>1. CASE v = w /\ i \notin job[v].fresh
          BY <2>1, <2>2, <2>3, <2>4, <3>1, <4>1, TablesSame
        <4>2. CASE v # w \/ i \in job[v].fresh
          <5>1. StaleIn(i) \subseteq job[v].rec
            BY <1>1, <2>1, <2>2, <3>1, <4>2 DEF RefreshInv, Newest, Current, tables
          <5> QED
            BY <2>1, <5>1, TablesSame
        <4> QED
          BY <4>1, <4>2
      <3>2. ASSUME NEW v \in Writers, pc'[v] = "write", NEW r \in Records
            PROVE  IF r \in job'[v].rec
                   THEN r \in Live' /\ Newest(v)' => Current(r, job[v].seen[r])'
                   ELSE job'[v].seen[r] = 0
        BY <1>1, <2>1, <2>2, <2>4, <3>2, TablesSame DEF RefreshInv, Newest, Current, tables
      <3>3. ASSUME NEW a \in Callers, NEW i \in Indexes, pc'[a] = "mark", index'[a] = i
            PROVE  StaleIn(i)' = {}
        BY <2>1, <2>2, <2>3, <2>4, <3>3, TablesSame DEF RefreshInv
      <3> QED
        BY <3>1, <3>2, <3>3 DEF RefreshInv
    <2>7. SearchInv'
      BY <1>1, <2>1, <2>2, TablesSame DEF SearchInv, tables
    <2> QED
      BY <2>1, <2>5, <2>6, <2>7, TablesSame
  <1> QED
    BY <1>2, <1>3

LEMMA RefreshWritesKeep ==
  ASSUME IndexInv, TypeOK', NEW w \in Writers,
         RefreshRebuild(w) \/ RefreshMark(w) \/ RefreshWrite(w)
  PROVE  IndexInv'
  <1> USE DEF IndexInv
  <1>1. w \in Callers
    BY DEF Callers
  <1>2. PICK k \in Indexes : index[w] = k
    BY <1>1 DEF TypeOK
  <1>3. /\ job[w].target \in Nat /\ job[w].target <= gen /\ gen <= gen
        /\ job[w].seen \in [Records -> Nat]
    BY DEF TypeOK, Jobs, MarksInv
  <1>4. Live' = Live
    BY DEF RefreshRebuild, RefreshMark, RefreshWrite, Live
  <1>5. CASE RefreshRebuild(w)
    <2>1. Repairs({k}) /\ StaleIn(k)' = {} /\ mark'[k] = gen
      BY <1>2, <1>5, RebuiltRepairs DEF RefreshRebuild
    <2> QED
      BY <1>2, <1>3, <1>5, <2>1, WriterRepairs DEF RefreshRebuild
  <1>6. CASE RefreshMark(w)
    <2>1. StaleIn(k) = {}
      BY <1>1, <1>2, <1>6 DEF RefreshMark, RefreshInv
    <2>2. PICK v \in [Records -> Nat] : v = Versions(job[w].rec)
      BY VersionsType
    <2>3. \A r \in Live : v[r] # 0 => Current(r, v[r])
      BY <2>2 DEF Versions, Current, Live
    <2>4. Repairs({k}) /\ mark'[k] = job[w].target
      <3>1. Upserted(k, v, job[w].target) /\ UNCHANGED <<row, gen, model, shape>>
        BY <1>2, <1>6, <2>2 DEF RefreshMark
      <3> QED
        BY <1>3, <2>3, <3>1, UpsertedRepairs
    <2>5. StaleIn(k)' = {}
      BY <2>1, <2>4, RepairsHelp
    <2> QED
      BY <1>2, <1>3, <1>6, <2>4, <2>5, WriterRepairs DEF RefreshMark
  <1>7. CASE RefreshWrite(w)
    <2>1. pc[w] = "write"
      BY <1>7 DEF RefreshWrite
    <2>2. \A r \in Live : job[w].seen[r] # 0 => Current(r, job[w].seen[r])
      BY <2>1 DEF RefreshInv, Newest, Current, Live
    <2>3. /\ Repairs({k}) /\ mark'[k] = job[w].target
          /\ \A r \in Live : job[w].seen[r] # 0 => r \notin StaleIn(k)'
      BY SMTT(30), <1>2, <1>3, <1>7, <2>2, UpsertedRepairs DEF RefreshWrite
    <2>4. mark'[k] = gen => StaleIn(k)' = {}
      <3>1. SUFFICES ASSUME job[w].target = gen, NEW r \in StaleIn(k)' PROVE FALSE
        BY <2>3
      <3>2. r \in Live /\ r \in StaleIn(k)
        BY <1>4, <2>3, <3>1, RepairsHelp DEF StaleIn
      <3>3. r \in job[w].rec
        BY <1>2, <2>1, <3>1, <3>2 DEF RefreshInv
      <3>4. job[w].seen[r] # 0
        BY <2>1, <3>1, <3>2, <3>3 DEF RefreshInv, Newest, Current, Live
      <3> QED
        BY <2>3, <3>1, <3>2, <3>4
    <2> QED
      BY <1>2, <1>3, <1>7, <2>1, <2>3, <2>4, WriterRepairs DEF RefreshWrite
  <1> QED
    BY <1>5, <1>6, <1>7

LEMMA RefreshFailsKeeps ==
  ASSUME IndexInv, TypeOK', NEW w \in Writers, RefreshFails(w) PROVE IndexInv'
  <1> USE DEF IndexInv
  <1>1. UNCHANGED tables /\ UNCHANGED due /\ NextIndex(w) /\ pc[w] # "idle"
    BY DEF RefreshFails
  <1>2. /\ w \in Callers /\ \A v \in Writers : v \in Callers
        /\ \A s \in Searchers : s \in Callers \ {w}
    BY IndexAssumption DEF Callers
  <1>3. /\ \A a \in Callers \ {w} : pc'[a] = pc[a] /\ index'[a] = index[a]
        /\ \A v \in Writers \ {w} : job'[v] = job[v]
        /\ pc'[w] \in {"check", "idle"}
    BY <1>1, NextIndexFacts
  <1>4. MarksInv'
    <2>1. ASSUME NEW v \in Writers PROVE job'[v].target <= gen'
      <3>1. job'[v].target \in {0, job[v].target}
        BY <1>1, <1>3, NextIndexFacts
      <3>2. 0 <= gen /\ job[v].target <= gen
        BY DEF TypeOK, MarksInv
      <3> QED
        BY <1>1, <3>1, <3>2 DEF tables
    <2> QED
      BY <1>1, <2>1, TablesSame DEF MarksInv, tables
  <1>5. ShapeInv'
    <2>1. ASSUME NEW v \in Writers, pc'[v] # "idle"
          PROVE pc[v] # "idle" /\ job'[v].fresh = job[v].fresh
      BY <1>1, <1>2, <1>3, <2>1, NextIndexFacts
    <2> QED
      BY <1>1, <1>2, <1>3, <2>1, TablesSame DEF ShapeInv
  <1>6. RefreshInv'
    <2>1. ASSUME NEW v \in Writers, NEW i \in Indexes,
                 pc'[v] # "idle", job'[v].target = gen',
                 i \in job'[v].fresh \/ (index'[v] = i /\ pc'[v] \in {"read", "write"})
          PROVE  StaleIn(i)' \subseteq job'[v].rec
      <3>1. /\ job'[v].rec = job[v].rec /\ job[v].target = gen
            /\ job'[v].fresh = job[v].fresh /\ pc[v] # "idle"
        BY <1>1, <1>2, <1>3, <2>1, NextIndexFacts DEF tables
      <3>2. i \in job[v].fresh \/ (index[v] = i /\ pc[v] \in {"read", "write"})
        BY <1>2, <1>3, <2>1, <3>1
      <3>3. StaleIn(i) \subseteq job[v].rec
        BY <3>1, <3>2 DEF RefreshInv
      <3> QED
        BY <1>1, <3>1, <3>3, TablesSame
    <2>2. ASSUME NEW v \in Writers, pc'[v] = "write", NEW r \in Records
          PROVE  IF r \in job'[v].rec
                 THEN r \in Live' /\ Newest(v)' => Current(r, job[v].seen[r])'
                 ELSE job'[v].seen[r] = 0
      BY <1>1, <1>2, <1>3, <2>2, TablesSame DEF RefreshInv, Newest, Current, tables
    <2>3. ASSUME NEW a \in Callers, NEW i \in Indexes, pc'[a] = "mark", index'[a] = i
          PROVE  StaleIn(i)' = {}
      BY <1>1, <1>3, <2>3, TablesSame DEF RefreshInv
    <2> QED
      BY <2>1, <2>2, <2>3 DEF RefreshInv
  <1>7. SearchInv'
    BY <1>1, <1>2, <1>3, TablesSame DEF SearchInv, tables
  <1> QED
    BY <1>1, <1>4, <1>5, <1>6, <1>7, TablesSame

-----------------------------------------------------------------------------
(* The steps of a search *)

(* A step of a search leaves the writers alone. *)
LEMMA SearcherMoves ==
  ASSUME IndexInv, TypeOK', UNCHANGED tables, UNCHANGED job, NEW s \in Searchers,
         \A a \in Callers \ {s} : pc'[a] = pc[a] /\ index'[a] = index[a],
         pc'[s] \notin {"read", "write"},
         pc'[s] \in {"rebuild", "mark"} /\ index'[s] = "vec" => ShapeMatches,
         pc'[s] = "query" => ShapeMatches,
         \A i \in Indexes : pc'[s] = "mark" /\ index'[s] = i => StaleIn(i) = {}
  PROVE  MarksInv' /\ ShapeInv' /\ RefreshInv' /\ FreshInv'
  <1> USE DEF IndexInv
  <1>1. \A v \in Writers : v \in Callers \ {s}
    BY IndexAssumption DEF Callers
  <1>2. \A t \in Searchers : t # s => t \in Callers \ {s}
    BY DEF Callers
  <1>3. ShapeInv'
    BY <1>1, <1>2, TablesSame DEF ShapeInv
  <1>4. RefreshInv'
    BY <1>1, TablesSame DEF RefreshInv, Newest, Current, tables
  <1> QED
    BY <1>3, <1>4, TablesSame

LEMMA SearchStartKeeps ==
  ASSUME IndexInv, TypeOK', NEW s \in Searchers, SearchStart(s) PROVE IndexInv'
  <1> USE DEF IndexInv
  <1>1. s \in Callers /\ \A t \in Searchers : t # s => t \in Callers \ {s}
    BY DEF Callers
  <1>2. UNCHANGED tables /\ UNCHANGED <<index, job>>
    BY DEF SearchStart
  <1>3. pc[s] = "idle" /\ pc'[s] = "check" /\ \A a \in Callers \ {s} : pc'[a] = pc[a]
    BY <1>1 DEF SearchStart, TypeOK
  <1>4. due'[s] = [i \in Indexes |-> Live] /\ \A t \in Searchers \ {s} : due'[t] = due[t]
    BY DEF SearchStart, TypeOK
  <1>5. MarksInv' /\ ShapeInv' /\ RefreshInv' /\ FreshInv'
    BY <1>2, <1>3, SearcherMoves
  <1>6. SearchInv'
    BY <1>1, <1>2, <1>3, <1>4, TablesSame DEF SearchInv, tables
  <1> QED
    BY <1>5, <1>6

LEMMA SearchQueryKeeps ==
  ASSUME IndexInv, TypeOK', NEW s \in Searchers, SearchQuery(s) PROVE IndexInv'
  <1> USE DEF IndexInv
  <1>1. s \in Callers /\ \A t \in Searchers : t # s => t \in Callers \ {s}
    BY DEF Callers
  <1>2. UNCHANGED tables /\ UNCHANGED job
    BY DEF SearchQuery
  <1>3. /\ pc'[s] = "idle" /\ index'[s] = "fts"
        /\ \A a \in Callers \ {s} : pc'[a] = pc[a] /\ index'[a] = index[a]
    BY <1>1 DEF SearchQuery, TypeOK
  <1>4. due'[s] = [i \in Indexes |-> {}] /\ \A t \in Searchers \ {s} : due'[t] = due[t]
    BY DEF SearchQuery, TypeOK
  <1>5. MarksInv' /\ ShapeInv' /\ RefreshInv' /\ FreshInv'
    BY <1>2, <1>3, SearcherMoves
  <1>6. SearchInv'
    BY <1>1, <1>2, <1>3, <1>4, TablesSame DEF SearchInv, tables, Indexes
  <1> QED
    BY <1>5, <1>6

LEMMA SearchWithoutFtsKeeps ==
  ASSUME IndexInv, TypeOK', NEW s \in Searchers, SearchWithoutFts(s) PROVE IndexInv'
  <1> USE DEF IndexInv
  <1>1. s \in Callers /\ \A t \in Searchers : t # s => t \in Callers \ {s}
    BY DEF Callers
  <1>2. UNCHANGED tables /\ UNCHANGED job
    BY DEF SearchWithoutFts
  <1>3. /\ pc'[s] = "check" /\ index'[s] = "vec"
        /\ \A a \in Callers \ {s} : pc'[a] = pc[a] /\ index'[a] = index[a]
    BY <1>1 DEF SearchWithoutFts, TypeOK, Indexes
  <1>4. /\ due'[s]["fts"] = {} /\ due'[s]["vec"] = due[s]["vec"]
        /\ \A t \in Searchers \ {s} : due'[t] = due[t]
    BY DEF SearchWithoutFts, TypeOK, Indexes
  <1>5. MarksInv' /\ ShapeInv' /\ RefreshInv' /\ FreshInv'
    BY <1>2, <1>3, SearcherMoves
  <1>6. SearchInv'
    BY <1>1, <1>2, <1>3, <1>4, TablesSame DEF SearchInv, tables, Indexes
  <1> QED
    BY <1>5, <1>6

LEMMA SearchCheckKeeps ==
  ASSUME IndexInv, TypeOK', NEW s \in Searchers, SearchCheck(s) PROVE IndexInv'
  <1> USE DEF IndexInv
  <1>1. s \in Callers /\ \A t \in Searchers : t # s => t \in Callers \ {s}
    BY DEF Callers
  <1>2. CASE index[s] = "vec" /\ ~ShapeMatches
    BY <1>1, <1>2, TableReplacedKeeps DEF SearchCheck
  <1>3. CASE ~(index[s] = "vec" /\ ~ShapeMatches)
    <2>1. UNCHANGED tables /\ UNCHANGED <<job, due>> /\ pc[s] = "check"
      BY <1>3 DEF SearchCheck, tables
    <2>2. PICK k \in Indexes : index[s] = k
      BY <1>1 DEF TypeOK
    <2>3. CASE MetadataFresh(k)
      <3>1. /\ index'[s] = "vec" /\ pc'[s] = IF k = "fts" THEN "check" ELSE "query"
            /\ \A a \in Callers \ {s} : pc'[a] = pc[a] /\ index'[a] = index[a]
        BY <1>1, <1>3, <2>2, <2>3 DEF SearchCheck, TypeOK
      <3>2. StaleIn(k) = {}
        BY <2>3 DEF FreshInv
      <3>3. \A r \in Live : entry[k][r] # 0
        BY <3>2 DEF StaleIn, Current, Live
      <3>4. MarksInv' /\ ShapeInv' /\ RefreshInv' /\ FreshInv'
        BY <1>3, <2>1, <2>2, <3>1, SearcherMoves DEF Indexes
      <3>5. SearchInv'
        BY <1>1, <2>1, <2>2, <3>1, <3>3, TablesSame DEF SearchInv, tables, Indexes
      <3> QED
        BY <3>4, <3>5
    <2>4. CASE ~MetadataFresh(k)
      <3>1. /\ UNCHANGED index /\ pc'[s] = Verdict(s)
            /\ \A a \in Callers \ {s} : pc'[a] = pc[a] /\ index'[a] = index[a]
        BY <1>1, <1>3, <2>2, <2>4 DEF SearchCheck, TypeOK
      <3>2. Verdict(s) \in {"mark", "rebuild"} /\ (Verdict(s) # "rebuild" => StaleIn(k) = {})
        BY <1>1, <2>2, <2>4, VerdictHolds DEF Verdict
      <3>3. MarksInv' /\ ShapeInv' /\ RefreshInv' /\ FreshInv'
        BY <1>3, <2>1, <2>2, <3>1, <3>2, SearcherMoves
      <3>4. SearchInv'
        BY <1>1, <2>1, <2>2, <3>1, <3>2, TablesSame DEF SearchInv, tables
      <3> QED
        BY <3>3, <3>4
    <2> QED
      BY <2>3, <2>4
  <1> QED
    BY <1>2, <1>3

LEMMA SearchRepairKeeps ==
  ASSUME IndexInv, TypeOK', NEW s \in Searchers, SearchRepair(s) PROVE IndexInv'
  <1> USE DEF IndexInv
  <1>1. s \in Callers /\ \A t \in Searchers : t # s => t \in Callers \ {s}
    BY DEF Callers
  <1>2. PICK k \in Indexes : index[s] = k
    BY <1>1 DEF TypeOK
  <1>3. pc[s] \in {"rebuild", "mark"} /\ UNCHANGED <<row, gen, model, index, job, due>>
    BY DEF SearchRepair
  <1>4. pc'[s] = "query" /\ \A a \in Callers \ {s} : pc'[a] = pc[a]
    BY <1>1 DEF SearchRepair, TypeOK
  <1> DEFINE both   == k = "fts" /\ ~VecMetadataFresh
             vec    == k = "vec" \/ both
             redone == (IF pc[s] = "rebuild" THEN {k} ELSE {})
                         \union (IF both /\ ~(ShapeMatches /\ VecExact) THEN {"vec"} ELSE {})
             repaired == {k} \union (IF vec THEN {"vec"} ELSE {})
  <1>5. /\ entry' = [i \in Indexes |-> IF i \in redone THEN row ELSE entry[i]]
        /\ mark' = [i \in Indexes |-> IF i = k \/ (i = "vec" /\ vec) THEN gen ELSE mark[i]]
        /\ made' = IF "vec" \in redone THEN [r \in Records |-> model] ELSE made
        /\ markModel' = IF vec THEN model ELSE markModel
        /\ shape' = IF vec THEN model ELSE shape
    BY <1>2 DEF SearchRepair
  <1>6. /\ repaired \in SUBSET Indexes /\ redone \subseteq repaired /\ k \in repaired
        /\ "vec" \in repaired <=> vec
    BY DEF Indexes
  <1>7. Repairs(repaired)
    <2>1. \A i \in Indexes \ repaired : entry'[i] = entry[i] /\ mark'[i] = mark[i]
      BY <1>5, <1>6
    <2>2. \A i \in repaired, r \in Live :
            entry'[i][r] # entry[i][r] => Current(r, entry'[i][r])
      BY <1>5, <1>6, StaleDefined
    <2>3. ASSUME "vec" \in repaired
          PROVE  /\ \A r \in Records : /\ made'[r] \in {made[r], model}
                                        /\ entry'["vec"][r] # entry["vec"][r] => made'[r] = model
                 /\ markModel' = model
      BY <1>5, <1>6, <2>3
    <2>4. ASSUME "vec" \notin repaired PROVE UNCHANGED <<made, markModel>>
      BY <1>5, <1>6, <2>4
    <2> QED
      BY <1>3, <1>5, <2>1, <2>2, <2>3, <2>4 DEF Repairs
  <1>8. /\ Live' = Live
        /\ \A i \in Indexes : StaleIn(i)' \subseteq StaleIn(i)
        /\ ShapeMatches => ShapeMatches'
        /\ \A i \in Indexes, r \in Live : entry[i][r] # 0 => entry'[i][r] # 0
    BY <1>6, <1>7, RepairsHelp
  <1>9. ASSUME NEW i \in repaired PROVE StaleIn(i)' = {}
    <2>1. CASE i \in redone
      <3>1. entry'[i] = row /\ (i = "vec" => \A r \in Records : made'[r] = model')
        BY <1>3, <1>5, <1>6, <2>1
      <3> QED
        BY <1>3, <3>1 DEF StaleIn, Current, Live
    <2>2. CASE i \notin redone
      <3>1. StaleIn(i) = {}
        <4>1. CASE i = k
          BY <1>1, <1>2, <1>3, <2>2, <4>1 DEF RefreshInv
        <4>2. CASE i # k
          BY <1>9, <2>2, <4>2, StaleDefined
        <4> QED
          BY <4>1, <4>2
      <3> QED
        BY <1>6, <1>8, <3>1
    <2> QED
      BY <2>1, <2>2
  <1>10. ShapeMatches'
    <2>1. CASE vec
      BY <1>3, <1>5, <2>1 DEF ShapeMatches
    <2>2. CASE ~vec
      <3>1. VecMetadataFresh
        BY <2>2 DEF Indexes
      <3> QED
        BY <1>8, <3>1 DEF VecMetadataFresh
    <2> QED
      BY <2>1, <2>2
  <1>11. FreshInv'
    <2>1. ASSUME NEW i \in Indexes, MetadataFresh(i)' PROVE StaleIn(i)' = {}
      <3>1. CASE i \in repaired
        BY <1>9, <3>1
      <3>2. CASE i \notin repaired
        <4>1. mark'[i] = mark[i] /\ (i = "vec" => markModel' = markModel)
          BY <1>7, <3>2 DEF Repairs
        <4>2. mark'[i] = gen' /\ (i = "vec" => markModel' = model')
          BY <2>1 DEF MetadataFresh, FtsMetadataFresh, VecMetadataFresh, Indexes
        <4>3. MetadataFresh(i)
          BY <1>3, <4>1, <4>2
             DEF MarksInv, MetadataFresh, FtsMetadataFresh, VecMetadataFresh, Indexes
        <4> QED
          BY <1>8, <4>3 DEF FreshInv
      <3> QED
        BY <3>1, <3>2
    <2> QED
      BY <2>1 DEF FreshInv
  <1>12. MarksInv'
    <2>1. \A i \in Indexes : mark'[i] <= gen'
      <3>1. gen <= gen
        BY DEF TypeOK
      <3> QED
        BY <1>3, <1>5, <3>1 DEF MarksInv
    <2>2. markModel' <= model'
      <3>1. model <= model
        BY DEF TypeOK
      <3> QED
        BY <1>3, <1>5, <3>1 DEF MarksInv
    <2> QED
      BY <1>3, <1>10, <2>1, <2>2 DEF MarksInv
  <1>13. ShapeInv'
    BY <1>10 DEF ShapeInv
  <1>14. RefreshInv'
    <2>1. \A v \in Writers : v \in Callers \ {s}
      BY IndexAssumption DEF Callers
    <2>2. ASSUME NEW v \in Writers, NEW i \in Indexes,
                 pc'[v] # "idle", job'[v].target = gen',
                 i \in job'[v].fresh \/ (index'[v] = i /\ pc'[v] \in {"read", "write"})
          PROVE  StaleIn(i)' \subseteq job'[v].rec
      <3>1. StaleIn(i) \subseteq job[v].rec
        BY <1>3, <1>4, <2>1, <2>2 DEF RefreshInv
      <3> QED
        BY <1>3, <1>8, <3>1
    <2>3. ASSUME NEW v \in Writers, pc'[v] = "write", NEW r \in Records
          PROVE  IF r \in job'[v].rec
                 THEN r \in Live' /\ Newest(v)' => Current(r, job[v].seen[r])'
                 ELSE job'[v].seen[r] = 0
      BY <1>3, <1>4, <1>8, <2>1, <2>3 DEF RefreshInv, Newest, Current
    <2>4. ASSUME NEW a \in Callers, NEW i \in Indexes, pc'[a] = "mark", index'[a] = i
          PROVE  StaleIn(i)' = {}
      <3>1. StaleIn(i) = {}
        BY <1>3, <1>4, <2>4 DEF RefreshInv
      <3> QED
        BY <1>8, <3>1
    <2> QED
      BY <2>2, <2>3, <2>4 DEF RefreshInv
  <1>15. SearchInv'
    <2>1. \A r \in due[s]["fts"] : entry'["fts"][r] # 0
      <3>1. CASE k = "fts"
        <4>1. StaleIn("fts")' = {}
          BY <1>6, <1>9, <3>1
        <4> QED
          BY <1>3, <1>8, <4>1 DEF StaleIn, Current, Live, SearchInv, Indexes
      <3>2. CASE k = "vec"
        BY <1>2, <1>8, <3>2 DEF SearchInv, Indexes
      <3> QED
        BY <3>1, <3>2 DEF Indexes
    <2>2. \A r \in due[s]["vec"] : entry'["vec"][r] # 0
      <3>1. StaleIn("vec")' = {}
        <4>1. CASE vec
          BY <1>6, <1>9, <4>1
        <4>2. CASE ~vec
          <5>1. VecMetadataFresh
            BY <4>2 DEF Indexes
          <5>2. StaleIn("vec") = {}
            BY <5>1 DEF FreshInv, MetadataFresh, Indexes
          <5> QED
            BY <1>8, <5>2 DEF Indexes
        <4> QED
          BY <4>1, <4>2
      <3> QED
        BY <1>3, <1>8, <3>1 DEF StaleIn, Current, Live, SearchInv, Indexes
    <2>3. "fts" \in Indexes /\ "vec" \in Indexes
      BY DEF Indexes
    <2> QED
      BY <1>1, <1>3, <1>4, <1>8, <2>1, <2>2, <2>3 DEF SearchInv
  <1> QED
    BY <1>11, <1>12, <1>13, <1>14, <1>15

-----------------------------------------------------------------------------
(* Resets and restarts *)

LEMMA ResetKeeps ==
  ASSUME IndexInv, TypeOK', NEW gone, Reset(gone) PROVE IndexInv'
  <1> USE DEF IndexInv
  <1>1. UNCHANGED <<gen, mark, model, shape, made, markModel, pc, index, job>>
    BY DEF Reset
  <1>2. Live' = Live \ gone /\ \A r \in Live' : row'[r] = row[r]
    BY DEF Reset, Live
  <1>3. \A i \in Indexes : \A r \in Live' : entry'[i][r] = entry[i][r]
    BY <1>2 DEF Reset, Live
  <1>4. \A i \in Indexes : StaleIn(i)' \subseteq StaleIn(i)
    BY <1>1, <1>2, <1>3 DEF StaleIn, Current
  <1>5. ShapeMatches' = ShapeMatches
    BY <1>1 DEF ShapeMatches
  <1>6. MarksInv'
    BY <1>1, <1>5 DEF MarksInv
  <1>7. ShapeInv'
    BY <1>1, <1>5 DEF ShapeInv
  <1>8. RefreshInv'
    <2>1. \A w \in Writers, i \in Indexes :
            /\ pc[w] # "idle" /\ job[w].target = gen
            /\ i \in job[w].fresh \/ (index[w] = i /\ pc[w] \in {"read", "write"})
            => StaleIn(i)' \subseteq job[w].rec
      BY <1>4 DEF RefreshInv
    <2>2. \A w \in Writers : pc[w] = "write" =>
            \A r \in Records :
              IF r \in job[w].rec THEN r \in Live' /\ Newest(w)' => Current(r, job[w].seen[r])'
                                  ELSE job[w].seen[r] = 0
      BY <1>1, <1>2 DEF RefreshInv, Newest, Current
    <2>3. \A a \in Callers, i \in Indexes : pc[a] = "mark" /\ index[a] = i => StaleIn(i)' = {}
      BY <1>4 DEF RefreshInv
    <2> QED
      BY <1>1, <2>1, <2>2, <2>3 DEF RefreshInv
  <1>9. FreshInv'
    <2>1. \A i \in Indexes : MetadataFresh(i)' = MetadataFresh(i)
      BY <1>1, <1>5 DEF MetadataFresh, FtsMetadataFresh, VecMetadataFresh
    <2> QED
      BY <1>4, <2>1 DEF FreshInv
  <1>10. SearchInv'
    <2>1. \A s \in Searchers, i \in Indexes : due'[s][i] = due[s][i] \ gone
      BY DEF Reset
    <2>2. \A s \in Searchers, i \in Indexes : due'[s][i] \subseteq Live'
      BY <1>2, <2>1 DEF SearchInv
    <2>3. "fts" \in Indexes /\ "vec" \in Indexes
      BY DEF Indexes
    <2>4. \A s \in Searchers :
            /\ index[s] = "vec" \/ pc[s] = "query" =>
                 \A r \in due'[s]["fts"] : entry'["fts"][r] # 0
            /\ pc[s] = "query" => \A r \in due'[s]["vec"] : entry'["vec"][r] # 0
      BY <1>3, <2>1, <2>2, <2>3 DEF SearchInv
    <2> QED
      BY <1>1, <2>2, <2>4 DEF SearchInv
  <1> QED
    BY <1>6, <1>7, <1>8, <1>9, <1>10

LEMMA StopKeeps ==
  ASSUME IndexInv, TypeOK', NEW a \in Callers, Stop(a) PROVE IndexInv'
  <1> USE DEF IndexInv
  <1>1. UNCHANGED tables
    BY DEF Stop
  <1>2. /\ pc'[a] = "idle" /\ index'[a] = "fts"
        /\ \A b \in Callers \ {a} : pc'[b] = pc[b] /\ index'[b] = index[b]
    BY DEF Stop, TypeOK
  <1>3. /\ \A v \in Writers : v \in Callers /\ (v # a => job'[v] = job[v])
        /\ \A v \in Writers : v = a => job'[v] = NoJob
    BY IndexAssumption DEF Stop, TypeOK, Callers
  <1>4. /\ \A s \in Searchers : s \in Callers /\ (s # a => due'[s] = due[s])
        /\ \A s \in Searchers : s = a => \A i \in Indexes : due'[s][i] = {}
    BY IndexAssumption DEF Stop, TypeOK, Callers
  <1>5. MarksInv'
    <2>1. ASSUME NEW v \in Writers PROVE job'[v].target <= gen'
      <3>1. CASE v = a
        BY <1>1, <1>3, <3>1 DEF TypeOK, tables, NoJob
      <3>2. CASE v # a
        BY <1>1, <1>3, <3>2 DEF MarksInv, tables
      <3> QED
        BY <3>1, <3>2
    <2> QED
      BY <1>1, <2>1, TablesSame DEF MarksInv, tables
  <1>6. ShapeInv'
    BY <1>1, <1>2, <1>3, <1>4, TablesSame DEF ShapeInv
  <1>7. RefreshInv'
    BY <1>1, <1>2, <1>3, TablesSame DEF RefreshInv, Newest, Current, tables
  <1>8. SearchInv'
    BY <1>1, <1>2, <1>4, TablesSame DEF SearchInv, tables, Indexes
  <1> QED
    BY <1>1, <1>5, <1>6, <1>7, <1>8, TablesSame

LEMMA SwitchModelKeeps ==
  ASSUME IndexInv, TypeOK', SwitchModel PROVE IndexInv'
  <1> USE DEF IndexInv
  <1>1. /\ \A a \in Callers : pc'[a] = "idle" /\ index'[a] = index[a]
        /\ \A a \in Callers : pc[a] = "idle"
        /\ UNCHANGED <<row, gen, entry, mark, shape, made, markModel, job, due>>
        /\ model' = model + 1
    BY DEF SwitchModel, callers
  <1>2. \A v \in Writers : v \in Callers
    BY DEF Callers
  <1>3. \A s \in Searchers : s \in Callers
    BY DEF Callers
  <1>4. markModel' # model' /\ markModel' <= model'
    BY <1>1 DEF MarksInv, TypeOK
  <1>5. MarksInv'
    BY <1>1, <1>4 DEF MarksInv
  <1>6. ShapeInv' /\ RefreshInv'
    BY <1>1, <1>2, <1>3 DEF ShapeInv, RefreshInv
  <1>7. FreshInv'
    <2>1. ~VecMetadataFresh'
      BY <1>4 DEF VecMetadataFresh
    <2>2. FtsMetadataFresh' => StaleIn("fts")' = {}
      BY <1>1 DEF FreshInv, MetadataFresh, FtsMetadataFresh, StaleIn, Current, Live, Indexes
    <2> QED
      BY <2>1, <2>2 DEF FreshInv, MetadataFresh, Indexes
  <1>8. SearchInv'
    BY <1>1, <1>3 DEF SearchInv, Live
  <1> QED
    BY <1>5, <1>6, <1>7, <1>8

-----------------------------------------------------------------------------
(* The theorems *)

LEMMA IndexInvInit == IndexInit => IndexInv
  <1> SUFFICES ASSUME IndexInit PROVE IndexInv
    OBVIOUS
  <1>1. TypeOK
    BY JobTypes DEF IndexInit, TypeOK, CallStates, Indexes, Callers
  <1>2. Live = {}
    BY DEF IndexInit, Live
  <1>3. MarksInv
    BY DEF IndexInit, MarksInv, ShapeMatches, NoJob
  <1>4. ShapeInv /\ RefreshInv
    BY DEF IndexInit, ShapeInv, RefreshInv, Callers
  <1>5. FreshInv
    BY <1>2 DEF FreshInv, StaleIn
  <1>6. SearchInv
    BY DEF IndexInit, SearchInv, Callers, Indexes
  <1> QED
    BY <1>1, <1>3, <1>4, <1>5, <1>6 DEF IndexInv

LEMMA IndexInvNext ==
  ASSUME Races \subseteq {"overlap"} PROVE IndexInv /\ [IndexNext]_indexVars => IndexInv'
  <1> SUFFICES ASSUME IndexInv, [IndexNext]_indexVars PROVE IndexInv'
    OBVIOUS
  <1>1. TypeOK'
    BY IndexTypeNext DEF IndexInv
  <1>2. CASE UNCHANGED indexVars
    <2>1. UNCHANGED tables /\ UNCHANGED callers
      BY <1>2 DEF indexVars
    <2> QED
      BY <1>1, <2>1, TablesSame
         DEF IndexInv, ShapeInv, RefreshInv, SearchInv, Newest, Current, tables, callers
  <1>3. CASE SwitchModel
    BY <1>1, <1>3, SwitchModelKeeps
  <1>4. ASSUME NEW w \in Writers, NEW r \in Records, Commit(w, r) PROVE IndexInv'
    BY <1>1, <1>4, CommitKeeps
  <1>5. ASSUME NEW w \in Writers, Refresh(w) \/ RefreshFails(w) PROVE IndexInv'
    BY <1>1, <1>5, RefreshTargetedKeeps, RefreshCheckedKeeps, RefreshWritesKeep,
       RefreshReadKeeps, RefreshFailsKeeps DEF Refresh
  <1>6. ASSUME NEW s \in Searchers, Search(s) \/ SearchWithoutFts(s) PROVE IndexInv'
    BY <1>1, <1>6, SearchStartKeeps, SearchCheckKeeps, SearchRepairKeeps, SearchQueryKeeps,
       SearchWithoutFtsKeeps DEF Search
  <1>7. ASSUME NEW gone \in SUBSET Kept, Reset(gone) PROVE IndexInv'
    BY <1>1, <1>7, ResetKeeps
  <1>8. ASSUME NEW a \in Callers, Stop(a) PROVE IndexInv'
    BY <1>1, <1>8, StopKeeps
  <1> QED
    BY <1>2, <1>3, <1>4, <1>5, <1>6, <1>7, <1>8 DEF IndexNext

(* The tables, the marks and what each caller has in hand keep their types,  *)
(* whatever the calls interleave to.                                         *)
THEOREM IndexType == IndexSpec => []TypeOK
  <1>1. IndexInit => TypeOK
    BY IndexInvInit DEF IndexInv
  <1> QED
    BY <1>1, IndexTypeNext, PTL DEF IndexSpec

(* An index that its mark, its vector size and its embedding model call      *)
(* fresh holds the current version of every record, as long as no write runs *)
(* into one of the three races: neither a refresh that fails or stops, nor   *)
(* one that comes late, nor a reset or a change of model hides a stale entry *)
(* behind a fresh mark (_refresh_derived_indexes_after_write).               *)
THEOREM FreshIndexIsComplete ==
  ASSUME Races = {} PROVE IndexSpec => []FreshIsComplete
  <1>1. IndexInv => FreshIsComplete
    BY StaleDefined DEF IndexInv, FreshInv, FreshIsComplete
  <1>2. Races \subseteq {"overlap"}
    OBVIOUS
  <1> QED
    BY <1>1, <1>2, IndexInvInit, IndexInvNext, PTL DEF IndexSpec

(* Even if a refresh is overtaken by another of the same record, but without *)
(* the other two races, a search finds in both indexes every record that was *)
(* there when it began and has not been deleted since: what it checked or    *)
(* repaired first still stands when it has done with the second index        *)
(* (ContextStore.search and its _prepare_search steps).                      *)
THEOREM SearchFindsAll ==
  ASSUME Races \subseteq {"overlap"} PROVE IndexSpec => []SearchMissesNothing
  <1>1. IndexInv => SearchMissesNothing
    BY DEF IndexInv, SearchInv, SearchMissesNothing, Indexes
  <1> QED
    BY <1>1, IndexInvInit, IndexInvNext, PTL DEF IndexSpec

-----------------------------------------------------------------------------
(* ContextAnswer *)

(* A question with its locals: what was read and what is cited are records. *)
Asking ==
  [stage : {"idle", "plan", "retrieve", "answered", "failed"},
   projects : SUBSET ProjectIds, actions : 0..MaxActions, archived : BOOLEAN,
   found : SUBSET Answerable, cited : SUBSET Answerable]

AnswerTypes ==
  /\ shelf \in [Answerable -> Shelved \union {"absent"}]
  /\ asking \in [Questions -> Asking]
  /\ lived \in [Questions -> SUBSET Answerable]

(* What a question may rely on: records of its projects that were current    *)
(* since it was put, or any state of them if it asked for archived ones.     *)
Supported(a, seen, ids) ==
  \A r \in ids : ProjectOf[r] \in a.projects /\ (a.archived \/ r \in seen)

(* The strengthening of CitedWasCurrent: the same holds of all that was      *)
(* read, and what is current now counts as having lived for every question.  *)
AnswerInv ==
  /\ AnswerTypes
  /\ \A q \in Questions :
       /\ CurrentNow(shelf) \subseteq lived[q]
       /\ Supported(asking[q], lived[q], asking[q].found)
       /\ Supported(asking[q], lived[q], asking[q].cited)

-----------------------------------------------------------------------------

LEMMA QuiescentAsks == Quiescent \in Asking
  BY AnswerAssumption DEF Quiescent, Asking

(* Whoever changes the records lets nothing that lived be forgotten. *)
LEMMA WritersKeepInv ==
  ASSUME AnswerInv, NEW now \in [Answerable -> Shelved \union {"absent"}],
         ShelfBecomes(now), UNCHANGED asking
  PROVE  AnswerInv'
  <1>1. AnswerTypes'
    BY DEF AnswerInv, AnswerTypes, ShelfBecomes, CurrentNow
  <1>2. \A q \in Questions : lived'[q] = lived[q] \union CurrentNow(shelf')
    BY DEF AnswerInv, AnswerTypes, ShelfBecomes
  <1> QED
    BY <1>1, <1>2 DEF AnswerInv, Supported, CurrentNow

(* One question moves, and keeps what it may rely on. *)
LEMMA QuestionsKeepInv ==
  ASSUME AnswerInv, NEW q \in Questions, NEW a \in Asking, NEW seen \in SUBSET Answerable,
         asking' = [asking EXCEPT ![q] = a], lived' = [lived EXCEPT ![q] = seen],
         UNCHANGED shelf,
         CurrentNow(shelf) \subseteq seen,
         Supported(a, seen, a.found), Supported(a, seen, a.cited)
  PROVE  AnswerInv'
  <1>1. AnswerTypes'
    BY DEF AnswerInv, AnswerTypes
  <1>2. asking'[q] = a /\ lived'[q] = seen
    BY DEF AnswerInv, AnswerTypes
  <1>3. \A o \in Questions \ {q} : asking'[o] = asking[o] /\ lived'[o] = lived[o]
    BY DEF AnswerInv, AnswerTypes
  <1> QED
    BY <1>1, <1>2, <1>3 DEF AnswerInv, Supported, CurrentNow

LEMMA AnswerInitial == AnswerInit => AnswerInv
  BY QuiescentAsks DEF AnswerInit, AnswerInv, AnswerTypes, Supported, Quiescent, Shelved, CurrentNow

(* What a question has read and cited stays supported while it is the same. *)
LEMMA SameSupport ==
  ASSUME AnswerInv, NEW q \in Questions, NEW a \in Asking,
         asking' = [asking EXCEPT ![q] = a], UNCHANGED <<shelf, lived>>,
         a.found = asking[q].found, a.cited = asking[q].cited,
         a.projects = asking[q].projects, a.archived = asking[q].archived
  PROVE  AnswerInv'
  <1>1. lived[q] \in SUBSET Answerable /\ lived' = [lived EXCEPT ![q] = lived[q]]
    BY DEF AnswerInv, AnswerTypes
  <1>2. /\ CurrentNow(shelf) \subseteq lived[q]
        /\ Supported(a, lived[q], a.found) /\ Supported(a, lived[q], a.cited)
    BY DEF AnswerInv, Supported
  <1> QED
    BY <1>1, <1>2, QuestionsKeepInv

(* A read returns records of the projects, current ones unless archived ones *)
(* are asked for; and what is current has lived.                             *)
LEMMA ReadSupports ==
  ASSUME AnswerInv, NEW q \in Questions, ExecuteAction(q)
  PROVE  AnswerInv'
  <1>0. PICK archived \in BOOLEAN :
          \E hits \in SUBSET Returned(asking[q].projects, archived) :
            asking' = [asking EXCEPT ![q] =
              [asking[q] EXCEPT !.actions = @ - 1, !.archived = @ \/ archived,
                                !.found = @ \union hits]]
    BY DEF ExecuteAction, Ask
  <1>1. PICK hits \in SUBSET Returned(asking[q].projects, archived) :
          asking' = [asking EXCEPT ![q] =
            [asking[q] EXCEPT !.actions = @ - 1, !.archived = @ \/ archived,
                              !.found = @ \union hits]]
    BY <1>0
  <1> DEFINE a == [asking[q] EXCEPT !.actions = @ - 1, !.archived = @ \/ archived,
                                    !.found = @ \union hits]
  <1>2. asking[q] \in Asking /\ lived[q] \in SUBSET Answerable
    BY DEF AnswerInv, AnswerTypes
  <1>3. asking[q].actions - 1 \in 0..MaxActions
    BY <1>2, AnswerAssumption DEF ExecuteAction, Asking
  <1>4. hits \subseteq Answerable
    BY DEF Returned
  <1>5. (asking[q].archived \/ archived) \in BOOLEAN
    BY <1>2 DEF Asking
  <1>6. a \in Asking
    BY <1>2, <1>3, <1>4, <1>5 DEF Asking
  <1>7. /\ a.projects = asking[q].projects /\ a.cited = asking[q].cited
        /\ a.archived = (asking[q].archived \/ archived)
        /\ a.found = asking[q].found \union hits
    BY <1>2 DEF Asking
  <1>8. \A r \in hits : ProjectOf[r] \in asking[q].projects /\ (archived \/ r \in lived[q])
    BY DEF Returned, AnswerInv, CurrentNow
  <1>9. Supported(a, lived[q], a.found) /\ Supported(a, lived[q], a.cited)
    BY <1>7, <1>8 DEF AnswerInv, Supported
  <1>10. lived' = [lived EXCEPT ![q] = lived[q]] /\ UNCHANGED shelf /\ CurrentNow(shelf) \subseteq lived[q]
    BY DEF ExecuteAction, AnswerInv, AnswerTypes
  <1> QED
    BY <1>1, <1>2, <1>6, <1>9, <1>10, QuestionsKeepInv

(* Whatever the model names, only what was read is cited. *)
LEMMA CitationsSupported ==
  ASSUME AnswerInv, NEW q \in Questions, AnswerFromContext(q)
  PROVE  AnswerInv'
  <1>1. asking[q] \in Asking
    BY DEF AnswerInv, AnswerTypes
  <1>2. lived[q] \in SUBSET Answerable /\ lived' = [lived EXCEPT ![q] = lived[q]]
    BY DEF AnswerFromContext, AnswerInv, AnswerTypes
  <1>3. ASSUME NEW ids \in SUBSET Answerable,
               Ask(q, [asking[q] EXCEPT !.stage = "answered",
                                        !.cited = ValidSupportingRecordIds(q, ids)])
        PROVE  AnswerInv'
    <2> DEFINE a == [asking[q] EXCEPT !.stage = "answered",
                                      !.cited = ValidSupportingRecordIds(q, ids)]
    <2>1. a \in Asking
      BY <1>1 DEF Asking, ValidSupportingRecordIds
    <2>2. /\ a.projects = asking[q].projects /\ a.archived = asking[q].archived
          /\ a.found = asking[q].found /\ a.cited \subseteq asking[q].found
      BY <1>1 DEF Asking, ValidSupportingRecordIds
    <2>3. Supported(a, lived[q], a.found) /\ Supported(a, lived[q], a.cited)
      BY <2>2 DEF AnswerInv, Supported
    <2> QED
      BY <1>2, <1>3, <2>1, <2>3, QuestionsKeepInv DEF Ask, AnswerFromContext, AnswerInv
  <1>4. CASE Ask(q, [asking[q] EXCEPT !.stage = "failed"])
    <2> DEFINE a == [asking[q] EXCEPT !.stage = "failed"]
    <2>1. /\ a \in Asking
          /\ a.found = asking[q].found /\ a.cited = asking[q].cited
          /\ a.projects = asking[q].projects /\ a.archived = asking[q].archived
      BY <1>1 DEF Asking
    <2> QED
      BY <1>4, <2>1, SameSupport DEF Ask, AnswerFromContext
  <1> QED
    BY <1>3, <1>4 DEF AnswerFromContext

(* A query is one read, of the moment it is put. *)
LEMMA QuerySupports ==
  ASSUME AnswerInv, NEW q \in Questions, QueryContext(q)
  PROVE  AnswerInv'
  <1>1. PICK projects \in Selections, archived \in BOOLEAN :
          \E hits \in SUBSET Returned(projects, archived) :
            asking' = [asking EXCEPT ![q] =
              [Quiescent EXCEPT !.stage = "answered", !.projects = projects,
                                !.archived = archived, !.cited = hits]]
    BY DEF QueryContext, Ask, ReturnedVersions
  <1>2. PICK hits \in SUBSET Returned(projects, archived) :
          asking' = [asking EXCEPT ![q] =
            [Quiescent EXCEPT !.stage = "answered", !.projects = projects,
                              !.archived = archived, !.cited = hits]]
    BY <1>1
  <1> DEFINE a == [Quiescent EXCEPT !.stage = "answered", !.projects = projects,
                                    !.archived = archived, !.cited = hits]
  <1>3. projects \in SUBSET ProjectIds /\ hits \subseteq Answerable
    BY DEF Selections, Returned
  <1>4. /\ a \in Asking /\ a.found = {} /\ a.cited = hits
        /\ a.projects = projects /\ a.archived = archived
    BY <1>3, QuiescentAsks DEF Asking, Quiescent
  <1>5. Supported(a, CurrentNow(shelf), a.found) /\ Supported(a, CurrentNow(shelf), a.cited)
    BY <1>3, <1>4 DEF Supported, Returned, CurrentNow
  <1> QED
    BY ZenonT(30), <1>2, <1>4, <1>5, QuestionsKeepInv DEF QueryContext, CurrentNow

LEMMA AnswerInvNext == AnswerInv /\ [AnswerNext]_answerVars => AnswerInv'
  <1> SUFFICES ASSUME AnswerInv, [AnswerNext]_answerVars PROVE AnswerInv'
    OBVIOUS
  <1>t. AnswerTypes /\ \A q \in Questions : asking[q] \in Asking
    BY DEF AnswerInv, AnswerTypes
  <1>1. ASSUME NEW r \in Answerable, Learn(r) PROVE AnswerInv'
    BY <1>1, <1>t, WritersKeepInv, "current" \in Shelved DEF Learn, AnswerTypes, Shelved
  <1>2. ASSUME NEW r \in Answerable, Retire(r) PROVE AnswerInv'
    <2>1. PICK state \in {"retired", "expired"} : ShelfBecomes([shelf EXCEPT ![r] = state])
      BY <1>2 DEF Retire
    <2>2. [shelf EXCEPT ![r] = state] \in [Answerable -> Shelved \union {"absent"}]
      BY <1>t DEF AnswerTypes, Shelved
    <2> QED
      BY <1>2, <2>1, <2>2, WritersKeepInv DEF Retire
  <1>3. ASSUME NEW p \in ProjectIds, ResetShelf(p) PROVE AnswerInv'
    <2> DEFINE now == [r \in Answerable |-> IF ProjectOf[r] = p THEN "absent" ELSE shelf[r]]
    <2>1. now \in [Answerable -> Shelved \union {"absent"}]
      BY <1>t DEF AnswerTypes
    <2>2. ShelfBecomes(now) /\ UNCHANGED asking
      BY <1>3 DEF ResetShelf
    <2> QED
      BY <2>1, <2>2, WritersKeepInv
  <1>4. ASSUME NEW q \in Questions, BeginAnswer(q) PROVE AnswerInv'
    <2>1. PICK projects \in Selections :
            asking' = [asking EXCEPT ![q] = [Quiescent EXCEPT !.stage = "plan", !.projects = projects]]
      BY <1>4 DEF BeginAnswer, Ask
    <2> DEFINE a == [Quiescent EXCEPT !.stage = "plan", !.projects = projects]
    <2>2. projects \in SUBSET ProjectIds
      BY DEF Selections
    <2>3. a \in Asking /\ a.found = {} /\ a.cited = {}
      BY <2>2, QuiescentAsks DEF Asking, Quiescent
    <2> QED
      BY ZenonT(30), <1>4, <2>1, <2>3, QuestionsKeepInv DEF BeginAnswer, Supported, CurrentNow
  <1>5. ASSUME NEW q \in Questions, PlanRetrieval(q) PROVE AnswerInv'
    <2>1. ASSUME NEW n \in 1..MaxActions,
                 Ask(q, [asking[q] EXCEPT !.stage = "retrieve", !.actions = n])
          PROVE  AnswerInv'
      <3> DEFINE a == [asking[q] EXCEPT !.stage = "retrieve", !.actions = n]
      <3>1. n \in 0..MaxActions
        BY AnswerAssumption
      <3>2. /\ a \in Asking
            /\ a.found = asking[q].found /\ a.cited = asking[q].cited
            /\ a.projects = asking[q].projects /\ a.archived = asking[q].archived
        BY <3>1, <1>t DEF Asking
      <3> QED
        BY <1>5, <2>1, <3>2, SameSupport DEF PlanRetrieval, Ask
    <2>2. CASE Ask(q, [asking[q] EXCEPT !.stage = "failed"])
      <3> DEFINE a == [asking[q] EXCEPT !.stage = "failed"]
      <3>1. /\ a \in Asking
            /\ a.found = asking[q].found /\ a.cited = asking[q].cited
            /\ a.projects = asking[q].projects /\ a.archived = asking[q].archived
        BY <1>t DEF Asking
      <3> QED
        BY <1>5, <2>2, <3>1, SameSupport DEF PlanRetrieval, Ask
    <2> QED
      BY <1>5, <2>1, <2>2 DEF PlanRetrieval
  <1>6. ASSUME NEW q \in Questions, ExecuteAction(q) PROVE AnswerInv'
    BY <1>6, ReadSupports
  <1>7. ASSUME NEW q \in Questions, ActionFails(q) PROVE AnswerInv'
    <2> DEFINE a == [asking[q] EXCEPT !.stage = "failed"]
    <2>1. /\ a \in Asking /\ asking' = [asking EXCEPT ![q] = a]
          /\ a.found = asking[q].found /\ a.cited = asking[q].cited
          /\ a.projects = asking[q].projects
          /\ a.archived = asking[q].archived
      BY <1>7, <1>t DEF ActionFails, Ask, Asking
    <2> QED
      BY <1>7, <2>1, SameSupport DEF ActionFails
  <1>8. ASSUME NEW q \in Questions, AnswerFromContext(q) PROVE AnswerInv'
    BY <1>8, CitationsSupported
  <1>9. ASSUME NEW q \in Questions, QueryContext(q) PROVE AnswerInv'
    BY <1>9, QuerySupports
  <1>10. ASSUME NEW q \in Questions, QueryRefused(q) PROVE AnswerInv'
    <2> DEFINE a == [Quiescent EXCEPT !.stage = "failed"]
    <2>1. a \in Asking /\ a.found = {} /\ a.cited = {}
      BY QuiescentAsks DEF Asking, Quiescent
    <2>2. lived[q] \in SUBSET Answerable /\ lived' = [lived EXCEPT ![q] = lived[q]]
      BY <1>10, <1>t DEF QueryRefused, AnswerTypes
    <2> QED
      BY <1>10, <2>1, <2>2, QuestionsKeepInv DEF QueryRefused, Ask, AnswerInv, Supported
  <1>11. CASE UNCHANGED answerVars
    BY <1>11 DEF answerVars, AnswerInv, AnswerTypes, Supported, CurrentNow
  <1> QED
    BY <1>1, <1>2, <1>3, <1>4, <1>5, <1>6, <1>7, <1>8, <1>9, <1>10, <1>11 DEF AnswerNext

-----------------------------------------------------------------------------

(* CitedWasCurrent for every instance: a citation of an answer, or a row of  *)
(* a query, was current since the question was put, unless archived records  *)
(* were asked for (ContextAnswer, context_answerer/pipeline.py).             *)
THEOREM CitationsCurrent == AnswerSpec => [](AnswerTypeOK /\ CitedWasCurrent)
  <1>1. AnswerInv => CitedWasCurrent
    BY DEF AnswerInv, CitedWasCurrent, Supported
  <1>2. AnswerInv => AnswerTypeOK
    BY DEF AnswerInv, AnswerTypes, Asking, AnswerTypeOK
  <1> QED
    BY <1>1, <1>2, AnswerInitial, AnswerInvNext, PTL DEF AnswerSpec

-----------------------------------------------------------------------------
(* SchemaUpgrade *)

(* A database has these parts, and rows for each table that is rebuilt. *)
Parts == {"shape", "rows", "aside", "keys", "extra", "search"}
IsDatabase(d) ==
  /\ DOMAIN d = Parts
  /\ d = [part \in Parts |-> d[part]]
  /\ d.rows = [t \in RebuiltTables |-> d.rows[t]]
  /\ d.aside = [t \in RebuiltTables |-> d.aside[t]]

KeepsRows(d, e) == IsDatabase(e) /\ e.rows = d.rows /\ e.aside = d.aside

(* The stages with the write transaction open. *)
HeldStages == {"rename", "fill", "drop", "searchAndCommit", "search"}
HoldersLock == \A p \in Starters : starting[p][1] \in HeldStages => locker = p

(* The table whose rows are aside at the moment. *)
Moved(t) == \E p \in Starters, i \in 1..3 : Doing(p, "fill", i) /\ Rebuilds[i].table = t

(* The draft has every row, in the table or aside; the file in the table.    *)
DraftKeepsRows ==
  \A t \in RebuiltTables :
    IF Moved(t) THEN draft.aside[t] = StoredRows ELSE draft.rows[t] = StoredRows

UpgradeInv ==
  /\ starting = [p \in Starters |-> starting[p]]
  /\ IsDatabase(db) /\ IsDatabase(draft)
  /\ locker = Nobody => draft = db
  /\ HoldersLock
  /\ UpgradeKeepsRows
  /\ era # "fresh" => DraftKeepsRows

-----------------------------------------------------------------------------

LEMMA RebuildNames ==
  /\ \A i \in 1..3 : Rebuilds[i].table \in RebuiltTables
  /\ \A i, j \in 1..3 : Rebuilds[i].table = Rebuilds[j].table => i = j
  <1>1. /\ Rebuilds[1].table = "sessions" /\ Rebuilds[2].table = "records"
        /\ Rebuilds[3].table = "versions"
    BY DEF Rebuilds, SessionsRebuild, RecordsRebuild, VersionsRebuild
  <1>2. \A i \in 1..3 : i = 1 \/ i = 2 \/ i = 3
    OBVIOUS
  <1> QED
    BY <1>1, <1>2 DEF RebuiltTables

LEMMA CreateKeeps ==
  \A d, t : IsDatabase(d) => KeepsRows(d, CreateMissing(d, t)) /\ KeepsRows(d, CreateMissingSearch(d))
  <1> SUFFICES ASSUME NEW d, NEW t, IsDatabase(d)
               PROVE  KeepsRows(d, CreateMissing(d, t)) /\ KeepsRows(d, CreateMissingSearch(d))
    OBVIOUS
  <1>1. KeepsRows(d, d)
    BY DEF KeepsRows
  <1>2. ASSUME NEW columns
        PROVE  KeepsRows(d, [d EXCEPT !.shape[t] = "scoped", !.extra[t] = columns])
    BY DEF IsDatabase, KeepsRows, Parts
  <1>3. ASSUME NEW search PROVE KeepsRows(d, [d EXCEPT !.search = search])
    BY DEF IsDatabase, KeepsRows, Parts
  <1> QED
    BY <1>1, <1>2, <1>3, Zenon DEF CreateMissing, CreateMissingSearch

LEMMA SearchKeeps == \A d : IsDatabase(d) => KeepsRows(d, EnsureRecordsFts(d))
  BY DEF IsDatabase, KeepsRows, EnsureRecordsFts, Parts

LEMMA ColumnKeeps ==
  \A d, t, c : IsDatabase(d) => KeepsRows(d, [d EXCEPT !.extra[t] = @ \union {c}])
  BY DEF IsDatabase, KeepsRows, Parts

(* Only the holder of the lock is in a stage of the transaction. *)
LEMMA OneUpgrades ==
  ASSUME HoldersLock, NEW p \in Starters, starting[p][1] \in HeldStages
  PROVE  locker = p /\ \A q \in Starters \ {p} : starting[q][1] \notin HeldStages
  BY DEF HoldersLock

LEMMA NothingMoved ==
  ASSUME HoldersLock, NEW p \in Starters, locker \in {p, Nobody}, starting[p][1] # "fill"
  PROVE  \A t : ~Moved(t)
  BY UpgradeAssumption DEF HoldersLock, Moved, Doing, At, HeldStages

LEMMA UpgradeInitial == UpgradeInit => UpgradeInv
  <1> SUFFICES ASSUME UpgradeInit PROVE UpgradeInv
    OBVIOUS
  <1>1. IsDatabase(db)
    BY DEF UpgradeInit, IsDatabase, Database, Parts
  <1>2. \A t \in RebuiltTables : era # "fresh" => db.rows[t] = StoredRows
    BY DEF UpgradeInit, Database
  <1>3. \A p \in Starters : starting[p][1] = "off"
    BY DEF UpgradeInit
  <1> QED
    BY <1>1, <1>2, <1>3 DEF UpgradeInit, UpgradeInv, UpgradeKeepsRows, HoldersLock,
         HeldStages, DraftKeepsRows, Moved, Doing, At

-----------------------------------------------------------------------------

(* A process goes on without moving rows: to a stage of the transaction only *)
(* while it holds the lock.                                                  *)
LEMMA Walk ==
  ASSUME UpgradeInv, NEW p \in Starters, NEW s,
         starting' = [starting EXCEPT ![p] = s], UNCHANGED <<locker, era>>,
         starting[p][1] # "fill", s[1] # "fill", s[1] \in HeldStages => locker = p,
         KeepsRows(db, db'), IsDatabase(draft'), draft'.rows = draft.rows,
         draft'.aside = draft.aside \/ locker = p, locker = Nobody => draft' = db'
  PROVE  UpgradeInv'
  <1>1. starting'[p] = s /\ \A q \in Starters \ {p} : starting'[q] = starting[q]
    BY DEF UpgradeInv
  <1>2. \A t : Moved(t)' = Moved(t)
    BY <1>1 DEF Moved, Doing, At
  <1>3. HoldersLock'
    BY <1>1 DEF UpgradeInv, HoldersLock
  <1>4. locker = p => \A t : ~Moved(t)
    BY NothingMoved DEF UpgradeInv
  <1>5. (era # "fresh" => DraftKeepsRows)'
    BY <1>2, <1>4 DEF UpgradeInv, DraftKeepsRows
  <1> QED
    BY <1>3, <1>5 DEF UpgradeInv, KeepsRows, UpgradeKeepsRows

(* A process commits what it has made: no rows are aside at that moment. *)
LEMMA Commits ==
  ASSUME UpgradeInv, NEW p \in Starters, NEW s,
         starting' = [starting EXCEPT ![p] = s], UNCHANGED era,
         starting[p][1] # "fill", s[1] \notin HeldStages,
         locker \in {p, Nobody}, locker' = Nobody,
         KeepsRows(draft, draft'), db' = draft'
  PROVE  UpgradeInv'
  <1>1. starting'[p] = s /\ \A q \in Starters \ {p} : starting'[q] = starting[q]
    BY DEF UpgradeInv
  <1>2. \A q \in Starters : starting'[q][1] \notin HeldStages
    BY <1>1, UpgradeAssumption DEF UpgradeInv, HoldersLock
  <1>3. \A t : ~Moved(t) /\ ~Moved(t)'
    BY <1>2, NothingMoved DEF UpgradeInv, Moved, Doing, At, HeldStages
  <1>4. era # "fresh" => \A t \in RebuiltTables : draft'.rows[t] = StoredRows
    BY <1>3 DEF UpgradeInv, DraftKeepsRows, KeepsRows
  <1>5. HoldersLock' /\ (era # "fresh" => DraftKeepsRows)' /\ UpgradeKeepsRows'
    BY <1>2, <1>3, <1>4 DEF HoldersLock, DraftKeepsRows, UpgradeKeepsRows
  <1> QED
    BY <1>5 DEF UpgradeInv, KeepsRows

(* A process that fails or dies leaves the file as it was committed. *)
LEMMA Leaves ==
  ASSUME UpgradeInv, NEW p \in Starters, NEW s,
         starting' = [starting EXCEPT ![p] = s], s[1] \notin HeldStages,
         locker' = IF locker = p THEN Nobody ELSE locker,
         draft' = IF locker = p THEN db ELSE draft, UNCHANGED <<db, era>>
  PROVE  UpgradeInv'
  <1>1. starting'[p] = s /\ \A q \in Starters \ {p} : starting'[q] = starting[q]
    BY DEF UpgradeInv
  <1>2. CASE locker = p
    <2>1. \A q \in Starters : starting'[q][1] \notin HeldStages
      BY <1>1, <1>2 DEF UpgradeInv, HoldersLock
    <2>2. \A t : ~Moved(t)'
      BY <2>1 DEF Moved, Doing, At, HeldStages
    <2> QED
      BY <1>2, <2>1, <2>2 DEF UpgradeInv, HoldersLock, DraftKeepsRows, UpgradeKeepsRows
  <1>3. CASE locker # p
    <2>1. starting[p][1] # "fill" /\ s[1] # "fill"
      BY <1>3 DEF UpgradeInv, HoldersLock, HeldStages
    <2> QED
      BY <1>3, <2>1, Walk DEF UpgradeInv, KeepsRows
  <1> QED
    BY <1>2, <1>3

LEMMA BeginKeeps ==
  ASSUME UpgradeInv, NEW p \in Starters, BeginUpgrade(p)
  PROVE  UpgradeInv'
  <1>1. PICK s : starting' = [starting EXCEPT ![p] = s] /\ s[1] # "fill"
    BY DEF BeginUpgrade, Go, GoWith
  <1>2. starting'[p] = s /\ \A q \in Starters \ {p} : starting'[q] = starting[q]
    BY <1>1 DEF UpgradeInv
  <1>3. \A q \in Starters : starting[q][1] \notin HeldStages
    BY UpgradeAssumption DEF BeginUpgrade, Unlocked, UpgradeInv, HoldersLock
  <1>4. HoldersLock'
    BY <1>2, <1>3 DEF HoldersLock, BeginUpgrade
  <1>5. \A t : ~Moved(t)'
    BY <1>1, <1>2, <1>3 DEF Moved, Doing, At, HeldStages
  <1>6. (era # "fresh" => DraftKeepsRows)'
    BY <1>5 DEF BeginUpgrade, UpgradeInv, UpgradeKeepsRows, DraftKeepsRows
  <1> QED
    BY <1>1, <1>4, <1>6, UpgradeAssumption DEF BeginUpgrade, UpgradeInv, UpgradeKeepsRows

(* The table's rows go aside. *)
LEMMA RenameKeeps ==
  ASSUME UpgradeInv, NEW p \in Starters, NEW i \in 1..3, RenameTable(p, i)
  PROVE  UpgradeInv'
  <1> DEFINE t == Rebuilds[i].table
  <1>1. t \in RebuiltTables /\ \A j \in 1..3 : Rebuilds[j].table = t => j = i
    BY RebuildNames
  <1>2. /\ starting' = [starting EXCEPT ![p] = <<"fill", i>>]
        /\ starting[p][1] = "rename" /\ UNCHANGED <<db, locker, era>>
    BY DEF RenameTable, GoWith, Doing, At, Execute
  <1>3. starting'[p] = <<"fill", i>> /\ \A q \in Starters \ {p} : starting'[q] = starting[q]
    BY <1>2 DEF UpgradeInv
  <1>4. locker = p /\ \A q \in Starters \ {p} : starting[q][1] \notin HeldStages
    BY <1>2, OneUpgrades DEF UpgradeInv, HeldStages
  <1>5. \A u : ~Moved(u)
    BY <1>2, <1>4, NothingMoved DEF UpgradeInv
  <1>6. \A u \in RebuiltTables : Moved(u)' <=> u = t
    BY <1>1, <1>3, <1>4 DEF Moved, Doing, At, HeldStages
  <1>7. /\ IsDatabase(draft') /\ draft'.rows = [draft.rows EXCEPT ![t] = {}]
        /\ draft'.aside = [draft.aside EXCEPT ![t] = draft.rows[t]]
    <2> DEFINE keys == [u \in Tables |-> IF t \in draft.keys[u]
                                         THEN (draft.keys[u] \ {t}) \union {Aside(t)}
                                         ELSE draft.keys[u]]
               e == [draft EXCEPT !.shape[t] = "absent", !.aside[t] = draft.rows[t],
                                  !.rows[t] = {}, !.keys = keys]
    <2>1. draft' = e
      BY DEF RenameTable, Execute
    <2> HIDE DEF keys, t
    <2>2. DOMAIN draft = Parts /\ draft = [part \in Parts |-> draft[part]]
      BY DEF UpgradeInv, IsDatabase
    <2>3. DOMAIN e = Parts /\ e = [part \in Parts |-> e[part]]
      BY <2>2 DEF Parts
    <2>4. /\ e.rows = [draft.rows EXCEPT ![t] = {}]
          /\ e.aside = [draft.aside EXCEPT ![t] = draft.rows[t]]
      BY <2>2 DEF Parts
    <2> HIDE DEF e
    <2>5. /\ draft.rows = [u \in RebuiltTables |-> draft.rows[u]]
          /\ draft.aside = [u \in RebuiltTables |-> draft.aside[u]]
      BY DEF UpgradeInv, IsDatabase
    <2>6. /\ e.rows = [u \in RebuiltTables |-> e.rows[u]]
          /\ e.aside = [u \in RebuiltTables |-> e.aside[u]]
      BY <2>4, <2>5
    <2> QED
      BY <2>1, <2>3, <2>4, <2>6 DEF IsDatabase
  <1>8. (era # "fresh" => DraftKeepsRows)'
    BY <1>1, <1>2, <1>5, <1>6, <1>7 DEF UpgradeInv, DraftKeepsRows, IsDatabase
  <1>9. HoldersLock'
    BY <1>2, <1>3, <1>4 DEF HoldersLock
  <1> QED
    BY <1>2, <1>4, <1>7, <1>8, <1>9, UpgradeAssumption DEF UpgradeInv, UpgradeKeepsRows

(* The rows come back from aside. *)
LEMMA CopyKeeps ==
  ASSUME UpgradeInv, NEW p \in Starters, NEW i \in 1..3, CreateAndCopy(p, i)
  PROVE  UpgradeInv'
  <1> DEFINE t == Rebuilds[i].table
  <1>1. /\ starting' = [starting EXCEPT ![p] = <<"drop", i>>]
        /\ starting[p] [1] = "fill" /\ starting[p][2] = i /\ UNCHANGED <<db, locker, era>>
    BY DEF CreateAndCopy, GoWith, Doing, At, Execute
  <1>2. starting'[p] = <<"drop", i>> /\ \A q \in Starters \ {p} : starting'[q] = starting[q]
    BY <1>1 DEF UpgradeInv
  <1>3. locker = p /\ \A q \in Starters \ {p} : starting[q][1] \notin HeldStages
    BY <1>1, OneUpgrades DEF UpgradeInv, HeldStages
  <1>4. t \in RebuiltTables /\ Moved(t) /\ \A u \in RebuiltTables \ {t} : ~Moved(u)
    BY <1>1, <1>3, RebuildNames DEF Moved, Doing, At, HeldStages
  <1>5. \A u : ~Moved(u)'
    BY <1>2, <1>3 DEF Moved, Doing, At, HeldStages
  <1>6. /\ IsDatabase(draft') /\ draft'.rows = [draft.rows EXCEPT ![t] = draft.aside[t]]
    <2> DEFINE keys == Rebuilds[i].keys
               columns == Rebuilds[i].columns
               e == [draft EXCEPT !.shape[t] = "scoped", !.rows[t] = draft.aside[t],
                                  !.keys[t] = keys, !.extra[t] = columns]
    <2>1. draft' = e
      BY DEF CreateAndCopy, Execute
    <2> HIDE DEF keys, columns, t
    <2>2. DOMAIN draft = Parts /\ draft = [part \in Parts |-> draft[part]]
      BY DEF UpgradeInv, IsDatabase
    <2>3. DOMAIN e = Parts /\ e = [part \in Parts |-> e[part]]
      BY <2>2 DEF Parts
    <2>4. e.rows = [draft.rows EXCEPT ![t] = draft.aside[t]] /\ e.aside = draft.aside
      BY <2>2 DEF Parts
    <2> HIDE DEF e
    <2>5. /\ draft.rows = [u \in RebuiltTables |-> draft.rows[u]]
          /\ draft.aside = [u \in RebuiltTables |-> draft.aside[u]]
      BY DEF UpgradeInv, IsDatabase
    <2>6. /\ e.rows = [u \in RebuiltTables |-> e.rows[u]]
          /\ e.aside = [u \in RebuiltTables |-> e.aside[u]]
      BY <2>4, <2>5
    <2> QED
      BY <2>1, <2>3, <2>4, <2>6 DEF IsDatabase
  <1>7. draft.rows = [u \in RebuiltTables |-> draft.rows[u]]
    BY DEF UpgradeInv, IsDatabase
  <1>8. (era # "fresh" => DraftKeepsRows)'
    <2> HIDE DEF t
    <2>1. /\ draft'.rows[t] = draft.aside[t]
          /\ \A u \in RebuiltTables \ {t} : draft'.rows[u] = draft.rows[u]
      BY <1>4, <1>6, <1>7
    <2> QED
      BY <1>1, <1>4, <1>5, <2>1 DEF UpgradeInv, DraftKeepsRows
  <1>9. HoldersLock'
    BY <1>1, <1>2, <1>3 DEF HoldersLock
  <1> QED
    BY <1>1, <1>3, <1>6, <1>8, <1>9, UpgradeAssumption DEF UpgradeInv, UpgradeKeepsRows

LEMMA NextStage ==
  ASSUME NEW p, NEW i, NextTable(p, i)
  PROVE  \E s : starting' = [starting EXCEPT ![p] = s] /\ s[1] # "fill"
  <1>1. CASE i = 3
    BY <1>1, <<"searchAndCommit">>[1] # "fill" DEF NextTable, Go
  <1>2. CASE i # 3
    BY <1>2, <<"rename", i + 1>>[1] # "fill" DEF NextTable, GoWith
  <1> QED
    BY <1>1, <1>2

LEMMA DropKeeps ==
  ASSUME UpgradeInv, NEW p \in Starters, NEW i \in 1..3, DropAside(p, i)
  PROVE  UpgradeInv'
  <1>1. starting[p][1] = "drop" /\ UNCHANGED <<db, locker, era>>
    BY DEF DropAside, Doing, At, Execute
  <1>2. PICK s : starting' = [starting EXCEPT ![p] = s] /\ s[1] # "fill"
    BY NextStage DEF DropAside
  <1>3. locker = p
    BY <1>1 DEF UpgradeInv, HoldersLock, HeldStages
  <1>4. KeepsRows(db, db') /\ locker # Nobody
    BY <1>1, <1>3, UpgradeAssumption DEF UpgradeInv, KeepsRows
  <1>5. IsDatabase(draft') /\ draft'.rows = draft.rows
    BY DEF DropAside, Execute, UpgradeInv, IsDatabase, Parts
  <1> QED
    BY <1>1, <1>2, <1>3, <1>4, <1>5, Walk

LEMMA GoesTo ==
  ASSUME NEW p, NEW a, NEW b, NEW Condition \in BOOLEAN,
         Go(p, IF Condition THEN a ELSE b)
  PROVE  \E s : starting' = [starting EXCEPT ![p] = s] /\ s[1] \in {a, b}
  <1>1. <<a>>[1] \in {a, b} /\ <<b>>[1] \in {a, b}
    OBVIOUS
  <1> QED
    BY <1>1, Zenon DEF Go

LEMMA AbortKeeps ==
  ASSUME UpgradeInv, NEW p \in Starters, Abort(p)
  PROVE  UpgradeInv'
  BY Leaves, <<"failed">>[1] \notin HeldStages DEF Abort, Go, HeldStages

LEMMA ColumnAdded ==
  ASSUME UpgradeInv, NEW p \in Starters, NEW c, AddColumn(p, c)
  PROVE  UpgradeInv'
  <1>1. /\ starting[p][1] = "add" /\ locker \in {p, Nobody} /\ UNCHANGED <<locker, era>>
        /\ starting' = [starting EXCEPT ![p] = <<"columns">>]
    BY DEF AddColumn, Doing, At, Go
  <1>2. CASE locker = p
    <2>1. draft' = [draft EXCEPT !.extra[c[1]] = @ \union {c[2]}] /\ db' = db
      BY <1>2 DEF AddColumn, Execute
    <2>2. KeepsRows(draft, draft')
      BY <2>1, ColumnKeeps DEF UpgradeInv
    <2>3. KeepsRows(db, db') /\ locker # Nobody
      BY <1>2, <2>1, UpgradeAssumption DEF UpgradeInv, KeepsRows
    <2>4. <<"columns">>[1] # "fill" /\ starting[p][1] # "fill"
      BY <1>1
    <2> QED
      BY <1>1, <1>2, <2>2, <2>3, <2>4, Walk DEF KeepsRows
  <1>3. CASE locker # p
    <2>1. draft' = [draft EXCEPT !.extra[c[1]] = @ \union {c[2]}] /\ db' = draft'
      BY <1>1, <1>3 DEF AddColumn, UpgradeInv
    <2> QED
      BY <1>1, <1>3, <2>1, ColumnKeeps, Commits DEF UpgradeInv, HeldStages
  <1> QED
    BY <1>2, <1>3

(* A step of the script, in the order of its statements. *)
ScriptAt(p, n, s) ==
  /\ Doing(p, "create", n) /\ starting[p][1] = "create"
  /\ starting' = [starting EXCEPT ![p] = s]
  /\ n < 5 => Script(CreateMissing(db, Creates[n])) /\ s[1] = "create" /\ s[2] = n + 1
  /\ n = 5 => Script(CreateMissingSearch(db)) /\ s[1] = "decide"

LEMMA CreateStep ==
  ASSUME NEW p \in Starters, (\E n \in 1..4 : CreateTable(p, n)) \/ CreateSearch(p)
  PROVE  \E n \in 1..5 : \E s : ScriptAt(p, n, s)
  <1>1. ASSUME NEW n \in 1..4, CreateTable(p, n)
        PROVE  /\ Doing(p, "create", n) /\ starting[p][1] = "create"
               /\ starting' = [starting EXCEPT ![p] = <<"create", n + 1>>]
               /\ Script(CreateMissing(db, Creates[n]))
               /\ <<"create", n + 1>>[1] = "create" /\ <<"create", n + 1>>[2] = n + 1
    BY <1>1 DEF CreateTable, GoWith, Doing, At
  <1>2. ASSUME CreateSearch(p)
        PROVE  /\ Doing(p, "create", 5) /\ starting[p][1] = "create"
               /\ starting' = [starting EXCEPT ![p] = <<"decide">>]
               /\ Script(CreateMissingSearch(db)) /\ <<"decide">>[1] = "decide"
    BY <1>2 DEF CreateSearch, Go, Doing, At
  <1>3. (\A n \in 1..4 : n \in 1..5 /\ n < 5) /\ 5 \in 1..5
    OBVIOUS
  <1>4. CASE \E n \in 1..4 : CreateTable(p, n)
    <2>1. PICK n \in 1..4 : CreateTable(p, n)
      BY <1>4
    <2>2. n \in 1..5 /\ n < 5 /\ n # 5
      OBVIOUS
    <2>3. ScriptAt(p, n, <<"create", n + 1>>)
      BY <1>1, <2>1, <2>2 DEF ScriptAt
    <2> QED
      BY <2>2, <2>3
  <1>5. CASE CreateSearch(p)
    <2>1. 5 \in 1..5 /\ ~(5 < 5)
      OBVIOUS
    <2>2. ScriptAt(p, 5, <<"decide">>)
      BY <1>2, <1>5, <2>1 DEF ScriptAt
    <2> QED
      BY <2>1, <2>2
  <1> QED
    BY <1>4, <1>5

LEMMA UpgradeInvNext == UpgradeInv /\ [UpgradeNext]_upgradeVars => UpgradeInv'
  <1> SUFFICES ASSUME UpgradeInv, [UpgradeNext]_upgradeVars PROVE UpgradeInv'
    OBVIOUS
  <1>d. IsDatabase(db) /\ IsDatabase(draft) /\ (locker = Nobody => draft = db)
    BY DEF UpgradeInv
  <1>s. KeepsRows(db, db) /\ KeepsRows(draft, draft)
    BY <1>d DEF KeepsRows
  <1>1. ASSUME NEW p \in Starters, Start(p) PROVE UpgradeInv'
    <2>1. PICK s : starting' = [starting EXCEPT ![p] = s] /\ s[1] = "create"
      BY <1>1, <<"create", 1>>[1] = "create" DEF Start, GoWith
    <2> QED
      BY <1>1, <2>1, <1>d, <1>s, Walk DEF Start, HeldStages
  <1>2. ASSUME NEW p \in Starters, (\E n \in 1..4 : CreateTable(p, n)) \/ CreateSearch(p)
        PROVE  UpgradeInv'
    <2>0. PICK n \in 1..5 : \E s : ScriptAt(p, n, s)
      BY <1>2, CreateStep
    <2>4. PICK s : ScriptAt(p, n, s)
      BY <2>0
    <2>5. n < 5 \/ n = 5
      OBVIOUS
    <2>1. PICK e : /\ starting[p][1] = "create" /\ Script(e) /\ KeepsRows(db, e)
                   /\ starting' = [starting EXCEPT ![p] = s] /\ s[1] \in {"create", "decide"}
      BY <2>4, <2>5, CreateKeeps, <1>d DEF ScriptAt
    <2>2. KeepsRows(db, db') /\ UNCHANGED <<locker, era>>
      BY <2>1 DEF Script
    <2>3. IsDatabase(draft') /\ draft'.rows = draft.rows /\ draft'.aside = draft.aside
      BY <1>d, <2>1 DEF Script, KeepsRows, Unlocked
    <2> QED
      BY <2>1, <2>2, <2>3, Walk DEF Script, HeldStages, Unlocked
  <1>3. ASSUME NEW p \in Starters, MigrateScopeSchema(p) PROVE UpgradeInv'
    <2>1. PICK s : starting' = [starting EXCEPT ![p] = s] /\ s[1] \in {"rebuild", "refresh"}
      BY <1>3, GoesTo, Zenon DEF MigrateScopeSchema
    <2> QED
      BY <1>3, <1>d, <1>s, <2>1, Walk DEF MigrateScopeSchema, At, HeldStages
  <1>4. ASSUME NEW p \in Starters, BeginUpgrade(p) PROVE UpgradeInv'
    BY <1>4, BeginKeeps
  <1>5. ASSUME NEW p \in Starters, NEW i \in 1..3, SkipTable(p, i) PROVE UpgradeInv'
    <2>1. PICK s : starting' = [starting EXCEPT ![p] = s] /\ s[1] # "fill"
      BY <1>5, NextStage DEF SkipTable
    <2>2. locker = p /\ starting[p][1] # "fill"
      BY <1>5 DEF SkipTable, Doing, At, UpgradeInv, HoldersLock, HeldStages
    <2> QED
      BY <1>5, <1>d, <1>s, <2>1, <2>2, Walk DEF SkipTable
  <1>6. ASSUME NEW p \in Starters, NEW i \in 1..3, RefuseTable(p, i) PROVE UpgradeInv'
    BY <1>6, AbortKeeps DEF RefuseTable
  <1>7. ASSUME NEW p \in Starters, NEW i \in 1..3, RenameTable(p, i) PROVE UpgradeInv'
    BY <1>7, RenameKeeps
  <1>8. ASSUME NEW p \in Starters, NEW i \in 1..3, CreateAndCopy(p, i) PROVE UpgradeInv'
    BY <1>8, CopyKeeps
  <1>9. ASSUME NEW p \in Starters, NEW i \in 1..3, DropAside(p, i) PROVE UpgradeInv'
    BY <1>9, DropKeeps
  <1>10. ASSUME NEW p \in Starters, RebuildSearch(p) PROVE UpgradeInv'
    <2>1. locker = p
      BY <1>10 DEF RebuildSearch, At, UpgradeInv, HoldersLock, HeldStages
    <2>2. KeepsRows(draft, draft') /\ db' = draft'
      BY <1>10, <1>d, SearchKeeps DEF RebuildSearch
    <2> QED
      BY <1>10, <2>1, <2>2, Commits DEF RebuildSearch, At, Go, HeldStages
  <1>11. ASSUME NEW p \in Starters, RefreshSearch(p) PROVE UpgradeInv'
    <2>1. locker = p /\ locker # Nobody
      BY <1>11, UpgradeAssumption DEF RefreshSearch, At, UpgradeInv, HoldersLock, HeldStages
    <2>2. KeepsRows(draft, draft') /\ UNCHANGED <<db, locker, era>>
      BY <1>11, <1>d, SearchKeeps DEF RefreshSearch, Execute
    <2> QED
      BY <1>11, <1>s, <2>1, <2>2, Walk DEF RefreshSearch, At, Go, KeepsRows
  <1>12. ASSUME NEW p \in Starters, FindMissingColumn(p) PROVE UpgradeInv'
    <2>1. PICK s : starting' = [starting EXCEPT ![p] = s] /\ s[1] \in {"indexes", "add"}
      <3>1. CASE Go(p, "indexes")
        BY <3>1, <<"indexes">>[1] = "indexes" DEF Go
      <3>2. ASSUME NEW c, GoWith(p, "add", c)
            PROVE \E s : starting' = [starting EXCEPT ![p] = s] /\ s[1] \in {"indexes", "add"}
        BY <3>2, <<"add", c>>[1] = "add" DEF GoWith
      <3> QED
        BY <1>12, <3>1, <3>2 DEF FindMissingColumn
    <2> QED
      BY <1>12, <1>d, <1>s, <2>1, Walk DEF FindMissingColumn, At, HeldStages
  <1>13. ASSUME NEW p \in Starters, NEW c, AddColumn(p, c) PROVE UpgradeInv'
    BY <1>13, ColumnAdded
  <1>14. ASSUME NEW p \in Starters, NEW c, DuplicateColumn(p, c) PROVE UpgradeInv'
    BY <1>14, AbortKeeps DEF DuplicateColumn
  <1>15. ASSUME NEW p \in Starters, EnsureSecondaryIndexes(p) PROVE UpgradeInv'
    BY <1>15, <1>s, Commits DEF EnsureSecondaryIndexes, At, Go, HeldStages
  <1>16. ASSUME NEW p \in Starters, ValidateSchema(p) PROVE UpgradeInv'
    <2>1. PICK s : starting' = [starting EXCEPT ![p] = s] /\ s[1] \in {"ready", "failed"}
      BY <1>16, GoesTo, Zenon DEF ValidateSchema
    <2> QED
      BY <1>16, <1>d, <1>s, <2>1, Walk DEF ValidateSchema, At, HeldStages
  <1>17. ASSUME NEW p \in Starters, LockedOut(p) PROVE UpgradeInv'
    BY <1>17, AbortKeeps DEF LockedOut
  <1>18. ASSUME NEW p \in Starters, CrashUpgrade(p) PROVE UpgradeInv'
    BY <1>18, Leaves, <<"off">>[1] \notin HeldStages DEF CrashUpgrade, Go, HeldStages
  <1>19. CASE UNCHANGED upgradeVars
    BY ZenonT(30), <1>19 DEF upgradeVars, UpgradeInv, IsDatabase, HoldersLock, UpgradeKeepsRows,
         DraftKeepsRows, Moved, Doing, At
  <1> QED
    BY <1>1, <1>2, <1>3, <1>4, <1>5, <1>6, <1>7, <1>8, <1>9, <1>10, <1>11, <1>12, <1>13,
       <1>14, <1>15, <1>16, <1>17, <1>18, <1>19 DEF UpgradeNext

-----------------------------------------------------------------------------

(* UpgradeKeepsRows for every instance: wherever any number of processes     *)
(* fail or die while they open the store, its rows are where they were       *)
(* (ContextStore.initialize and _migrate_scope_schema, context/store.py).    *)
THEOREM RowsSurviveUpgrade == UpgradeSpec => []UpgradeKeepsRows
  <1>1. UpgradeInv => UpgradeKeepsRows
    BY DEF UpgradeInv
  <1> QED
    BY <1>1, UpgradeInitial, UpgradeInvNext, PTL DEF UpgradeSpec

-----------------------------------------------------------------------------
(* The schema that initialize() leaves *)

TableAt(i) == Rebuilds[i].table
Shapes == {"absent", "v1", "v2", "scoped"}
RowsOf(e) == IF e = "fresh" THEN {} ELSE StoredRows

WellFormed(d) ==
  /\ d.shape \in [Tables -> Shapes] /\ d.shape["edges"] \in {"absent", "scoped"}
  /\ d.keys = [t \in Tables |-> d.keys[t]]
  /\ d.extra = [t \in Tables |-> d.extra[t]]
  /\ d.search = [current |-> d.search.current, rows |-> d.search.rows]

KeysRight(d, i) == d.keys[TableAt(i)] = Rebuilds[i].keys
Whole(d, t) == d.shape[t] = "scoped" /\ LateColumns(t) \subseteq d.extra[t]
Present(d) == \A t \in Tables : d.shape[t] # "absent"
\* The rebuilt tables are of one era, or of an empty file that gets its tables;
\* and their keys name what they should.
OneEra(d) ==
  /\ \/ \A i, j \in 1..3 : d.shape[TableAt(i)] = d.shape[TableAt(j)]
     \/ \A i \in 1..3 : d.shape[TableAt(i)] \in {"absent", "scoped"}
  /\ \A i \in 1..3 : KeysRight(d, i)

\* A rebuild goes through the tables in their order: those before i are as they
\* should be, and those from i on are all to be rebuilt or all done.
Settled(i) == \A j \in 1..3 : j < i => KeysRight(draft, j) /\ draft.shape[TableAt(j)] = "scoped"
ToDo(i) == \A j \in 1..3 : j >= i => draft.shape[TableAt(j)] \in {"v1", "v2"}

RebuildStages == {"rename", "fill", "drop", "searchAndCommit"}
RebuildInv(p) ==
  /\ \A i \in 1..3 :
       /\ Doing(p, "rename", i) => Settled(i) /\ (ToDo(i) \/ Settled(4))
       /\ Doing(p, "fill", i) => /\ Settled(i) /\ ToDo(i + 1)
                                 /\ draft.shape[TableAt(i)] = "absent"
       /\ Doing(p, "drop", i) => Settled(i + 1) /\ ToDo(i + 1)
  /\ At(p, "searchAndCommit") => Settled(4)

PastCreate(p) == starting[p][1] \notin {"off", "failed", "create"}

\* The script has made what comes before its statement n.
CreatedBefore(d, n) == \A m \in 1..4 : m < n => d.shape[Creates[m]] # "absent"
CreateInv(p) == \A n \in 1..5 : Doing(p, "create", n) => CreatedBefore(db, n)

\* What is open is not behind what is committed.
NotBehind ==
  /\ \A t \in Tables : Whole(db, t) => Whole(draft, t)
  /\ db.search.current => draft.search.current

SearchRowsInv ==
  /\ \A d \in {db, draft} : d.search.rows = RowsOf(era)
  /\ era = "fresh" => \A t \in RebuiltTables : /\ db.rows[t] = {} /\ db.aside[t] = {}
                                             /\ draft.rows[t] = {} /\ draft.aside[t] = {}

WholeInv ==
  /\ WellFormed(db) /\ WellFormed(draft)
  /\ OneEra(db)
  /\ \A p \in Starters : (PastCreate(p) => Present(db)) /\ CreateInv(p)
  /\ (\A p \in Starters : starting[p][1] \notin RebuildStages) =>
       OneEra(draft) /\ (Present(db) => Present(draft))
  /\ \A p \in Starters : RebuildInv(p)
  /\ NotBehind
  /\ SearchRowsInv
  /\ (\E p \in Starters : At(p, "ready")) => SchemaValid(db)

LEMMA TablesInOrder ==
  /\ \A i \in 1..3 : TableAt(i) \in Tables /\ TableAt(i) \in RebuiltTables
  /\ \A i, j \in 1..3 : TableAt(i) = TableAt(j) => i = j
  /\ \A i, j \in 1..3 : j < i => TableAt(i) \notin Rebuilds[j].keys
  /\ \A i \in 1..3 : Rebuilds[i].keys \subseteq Tables
  /\ \A t \in RebuiltTables : \E i \in 1..3 : TableAt(i) = t
  <1>1. /\ TableAt(1) = "sessions" /\ TableAt(2) = "records" /\ TableAt(3) = "versions"
        /\ Rebuilds[1].keys = {} /\ Rebuilds[2].keys = {"sessions", "records"}
        /\ Rebuilds[3].keys = {"sessions", "records"}
    BY DEF TableAt, Rebuilds, SessionsRebuild, RecordsRebuild, VersionsRebuild
  <1>2. \A i \in 1..3 : i = 1 \/ i = 2 \/ i = 3
    OBVIOUS
  <1>3. \A t \in RebuiltTables : \E i \in 1..3 : TableAt(i) = t
    BY <1>1 DEF RebuiltTables
  <1>4. \A i, j \in 1..3 : j < i => TableAt(i) \notin Rebuilds[j].keys
    BY <1>1, <1>2
  <1> QED
    BY <1>1, <1>2, <1>3, <1>4 DEF RebuiltTables, Tables

LEMMA CreatesAll ==
  /\ \A n \in 1..4 : Creates[n] \in Tables
  /\ \A t \in Tables : \E n \in 1..4 : Creates[n] = t
  /\ \A n \in 1..3 : Creates[n] = TableAt(n)
  /\ Creates[4] = "edges"
  <1>1. /\ Creates[1] = "sessions" /\ Creates[2] = "records"
        /\ Creates[3] = "versions" /\ Creates[4] = "edges"
    BY DEF Creates
  <1>2. TableAt(1) = "sessions" /\ TableAt(2) = "records" /\ TableAt(3) = "versions"
    BY DEF TableAt, Rebuilds, SessionsRebuild, RecordsRebuild, VersionsRebuild
  <1>3. /\ \A n \in 1..4 : n = 1 \/ n = 2 \/ n = 3 \/ n = 4
        /\ \A n \in 1..3 : n = 1 \/ n = 2 \/ n = 3
        /\ 1 \in 1..4 /\ 2 \in 1..4 /\ 3 \in 1..4 /\ 4 \in 1..4
    OBVIOUS
  <1>4. \A t \in Tables : t = "sessions" \/ t = "records" \/ t = "versions" \/ t = "edges"
    BY DEF Tables, RebuiltTables
  <1>5. {"sessions", "records", "versions", "edges"} \subseteq Tables
    BY DEF Tables, RebuiltTables
  <1> QED
    BY <1>1, <1>2, <1>3, <1>4, <1>5

(* The script has come to its end when every table is there. *)
LEMMA ScriptDone == \A d : CreatedBefore(d, 5) <=> Present(d)
  <1>1. \A n \in 1..4 : n < 5
    OBVIOUS
  <1> QED
    BY <1>1, CreatesAll DEF CreatedBefore, Present

LEMMA TableKeys == \A i \in 1..3 : ForeignKeys(TableAt(i)) = Rebuilds[i].keys
  <1> SUFFICES ASSUME NEW i \in 1..3 PROVE ForeignKeys(TableAt(i)) = Rebuilds[i].keys
    OBVIOUS
  <1>1. TableAt(i) # "edges"
    BY TablesInOrder DEF RebuiltTables
  <1>2. \A j \in 1..3 : Rebuilds[j].table = TableAt(i) => j = i
    BY TablesInOrder DEF TableAt
  <1>3. (CHOOSE j \in 1..3 : Rebuilds[j].table = TableAt(i)) = i
    BY <1>2 DEF TableAt
  <1> QED
    BY <1>1, <1>3 DEF ForeignKeys

LEMMA WholeInitial == UpgradeInit => WholeInv
  <1> SUFFICES ASSUME UpgradeInit PROVE WholeInv
    OBVIOUS
  <1>1. /\ db = Database(era) /\ draft = db /\ era \in KnownEras
        /\ \A p \in Starters : starting[p] = <<"off">>
    BY UpgradeAssumption DEF UpgradeInit
  <1>2. \A p \in Starters : starting[p][1] = "off"
    BY <1>1
  <1>3. WellFormed(db)
    BY <1>1 DEF WellFormed, Database, KnownEras, Shapes, Tables
  <1>4. OneEra(db)
    <2>1. \A i \in 1..3 : KeysRight(db, i)
      BY <1>1, TablesInOrder, TableKeys DEF Database, KeysRight
    <2>2. \A t \in Tables : db.shape[t] =
            IF era = "fresh" \/ (era \in {"v1", "v2"} /\ t = "edges") THEN "absent" ELSE era
      BY <1>1 DEF Database
    <2>3. \A i \in 1..3 : db.shape[TableAt(i)] = IF era = "fresh" THEN "absent" ELSE era
      BY <2>2, TablesInOrder DEF RebuiltTables
    <2> QED
      BY <2>1, <2>3 DEF OneEra
  <1>5. SearchRowsInv
    BY <1>1 DEF SearchRowsInv, Database, RowsOf
  <1> QED
    BY <1>1, <1>2, <1>3, <1>4, <1>5
    DEF WholeInv, PastCreate, CreateInv, NotBehind, RebuildInv, Doing, At, RebuildStages

(* A step that only takes a process from one stage to another. *)
LEMMA StageReached ==
  ASSUME UpgradeInv, WholeInv, NEW p \in Starters, NEW s,
         starting' = [starting EXCEPT ![p] = s], UNCHANGED <<db, draft, era>>,
         s[1] \notin {"off", "failed", "create"} => Present(db),
         s[1] = "create" => CreateInv(p)',
         s[1] \notin RebuildStages => starting[p][1] \notin RebuildStages,
         RebuildInv(p)', s[1] = "ready" => SchemaValid(db)
  PROVE  WholeInv'
  <1>1. starting'[p] = s /\ \A q \in Starters \ {p} : starting'[q] = starting[q]
    BY DEF UpgradeInv
  <1>2. \A q \in Starters \ {p} : RebuildInv(q)'
    BY <1>1 DEF WholeInv, RebuildInv, Doing, At, Settled, ToDo, KeysRight
  <1>3. \A q \in Starters : PastCreate(q)' => Present(db)
    BY <1>1 DEF WholeInv, PastCreate
  <1>8. \A q \in Starters : CreateInv(q)'
    BY <1>1 DEF WholeInv, CreateInv, CreatedBefore, Doing, At
  <1>4. (\E q \in Starters : At(q, "ready"))' => SchemaValid(db)
    BY <1>1 DEF WholeInv, At
  <1>5. (\A q \in Starters : starting'[q][1] \notin RebuildStages) =>
           OneEra(draft) /\ (Present(db) => Present(draft))
    BY <1>1 DEF WholeInv
  <1>6. /\ WellFormed(db)' /\ WellFormed(draft)' /\ OneEra(db)' /\ NotBehind' /\ SearchRowsInv'
    BY DEF WholeInv, WellFormed, OneEra, KeysRight, NotBehind, Whole, SearchRowsInv
  <1>7. Present(db)' = Present(db) /\ Present(draft)' = Present(draft)
        /\ OneEra(draft)' = OneEra(draft) /\ SchemaValid(db)' = SchemaValid(db)
    BY DEF Present, OneEra, KeysRight, SchemaValid
  <1> QED
    BY <1>2, <1>3, <1>4, <1>5, <1>6, <1>7, <1>8 DEF WholeInv

(* A process that fails or dies leaves the file as it was committed. *)
LEMMA WholeAfterFailure ==
  ASSUME UpgradeInv, WholeInv, NEW p \in Starters, NEW s,
         starting' = [starting EXCEPT ![p] = s], s[1] \in {"failed", "off"},
         draft' = IF locker = p THEN db ELSE draft, UNCHANGED <<db, era>>
  PROVE  WholeInv'
  <1>1. starting'[p] = s /\ \A q \in Starters \ {p} : starting'[q] = starting[q]
    BY DEF UpgradeInv
  <1>2. RebuildInv(p)'
    BY <1>1 DEF RebuildInv, Doing, At
  <1>3. CASE locker # p
    <2>1. starting[p][1] \notin RebuildStages
      BY <1>3 DEF UpgradeInv, HoldersLock, HeldStages, RebuildStages
    <2> QED
      BY <1>2, <1>3, <2>1, StageReached
  <1>4. CASE locker = p
    <2>1. \A q \in Starters : starting'[q][1] \notin RebuildStages
      BY <1>1, <1>4 DEF UpgradeInv, HoldersLock, HeldStages, RebuildStages
    <2>2. \A q \in Starters : RebuildInv(q)'
      BY <2>1 DEF RebuildInv, Doing, At, RebuildStages
    <2>3. draft' = db
      BY <1>4
    <2>8. \A q \in Starters : PastCreate(q)' => Present(db)
      BY <1>1 DEF WholeInv, PastCreate
    <2>11. \A q \in Starters : CreateInv(q)'
      BY <1>1 DEF WholeInv, CreateInv, CreatedBefore, Doing, At
    <2>9. SearchRowsInv'
      BY <2>3 DEF WholeInv, SearchRowsInv, RowsOf
    <2>10. NotBehind'
      BY <2>3 DEF NotBehind, Whole
    <2>4. (\A q \in Starters : PastCreate(q)' => Present(db)) /\ NotBehind' /\ SearchRowsInv'
      BY <2>8, <2>9, <2>10
    <2>5. WellFormed(db)' /\ WellFormed(draft)' /\ OneEra(db)' /\ OneEra(draft)'
      BY <2>3 DEF WholeInv, WellFormed, OneEra, KeysRight
    <2>6. Present(db)' = Present(db) /\ Present(draft)' = Present(db)
      BY <2>3 DEF Present
    <2>7. (\E q \in Starters : At(q, "ready"))' => SchemaValid(db)'
      BY <1>1 DEF WholeInv, At, SchemaValid
    <2> QED
      BY <2>2, <2>4, <2>5, <2>6, <2>7, <2>11 DEF WholeInv
  <1> QED
    BY <1>3, <1>4

(* What a database may become without losing a table or the search rows. *)
NoWorse(d, e) ==
  /\ \A t \in Tables : Whole(d, t) => Whole(e, t)
  /\ d.search.current => e.search.current

(* A statement of the open transaction: only its holder's draft changes. *)
LEMMA StatementRun ==
  ASSUME UpgradeInv, WholeInv, NEW p \in Starters, NEW s, locker = p,
         starting' = [starting EXCEPT ![p] = s], UNCHANGED <<db, era>>,
         starting[p][1] \notin {"off", "failed", "create"},
         s[1] \notin {"off", "failed", "create", "ready"},
         s[1] \notin RebuildStages => OneEra(draft)' /\ Present(draft)',
         WellFormed(draft)', NoWorse(draft, draft'), RebuildInv(p)',
         draft'.search.rows = draft.search.rows,
         era = "fresh" => \A t \in RebuiltTables : draft'.rows[t] = {} /\ draft'.aside[t] = {}
  PROVE  WholeInv'
  <1>1. starting'[p] = s /\ \A q \in Starters \ {p} : starting'[q] = starting[q]
    BY DEF UpgradeInv
  <1>2. \A q \in Starters \ {p} : starting'[q][1] \notin RebuildStages
    BY <1>1 DEF UpgradeInv, HoldersLock, HeldStages, RebuildStages
  <1>3. \A q \in Starters : RebuildInv(q)'
    BY <1>2 DEF RebuildInv, Doing, At, RebuildStages
  <1>4. \A q \in Starters : (PastCreate(q)' => Present(db)) /\ CreateInv(q)'
    BY <1>1 DEF WholeInv, PastCreate, CreateInv, CreatedBefore, Doing, At
  <1>5. (\A q \in Starters : starting'[q][1] \notin RebuildStages) =>
           OneEra(draft)' /\ Present(draft)'
    BY <1>1
  <1>6. NotBehind' /\ SearchRowsInv'
    BY DEF WholeInv, NotBehind, NoWorse, Whole, SearchRowsInv
  <1>7. (\E q \in Starters : At(q, "ready"))' => SchemaValid(db)'
    BY <1>1 DEF WholeInv, At, SchemaValid
  <1>8. WellFormed(db)' /\ OneEra(db)' /\ Present(db)' = Present(db)
    BY DEF WholeInv, WellFormed, OneEra, KeysRight, Present
  <1> QED
    BY <1>3, <1>4, <1>5, <1>6, <1>7, <1>8 DEF WholeInv

NoneLost(d, e) == \A t \in Tables : d.shape[t] # "absent" => e.shape[t] # "absent"

(* A commit, while nobody rebuilds. *)
LEMMA Written ==
  ASSUME UpgradeInv, WholeInv, NEW p \in Starters, NEW s, NEW e, locker = p \/ locker = Nobody,
         starting' = [starting EXCEPT ![p] = s], s[1] \notin RebuildStages \union {"ready"},
         era' = era, db' = e, draft' = e, e.search.rows = db.search.rows,
         WellFormed(e), OneEra(e), NoneLost(db, e), NoWorse(db, e),
         \/ Present(e)
         \/ s[1] = "create" /\ \A n \in 1..5 : s[2] = n => CreatedBefore(e, n),
         era = "fresh" => \A t \in RebuiltTables : e.rows[t] = {} /\ e.aside[t] = {}
  PROVE  WholeInv'
  <1>1. starting'[p] = s /\ \A q \in Starters \ {p} : starting'[q] = starting[q]
    BY DEF UpgradeInv
  <1>2. \A q \in Starters : starting'[q][1] \notin RebuildStages
    BY <1>1, UpgradeAssumption DEF UpgradeInv, HoldersLock, HeldStages, RebuildStages
  <1>3. \A q \in Starters : RebuildInv(q)'
    BY <1>2 DEF RebuildInv, Doing, At, RebuildStages
  <1>4. NotBehind' /\ SearchRowsInv'
    BY DEF WholeInv, NotBehind, Whole, SearchRowsInv
  <1>5. (\E q \in Starters : At(q, "ready"))' => SchemaValid(db)
    BY <1>1 DEF WholeInv, At
  <1>6. SchemaValid(db) => SchemaValid(db)'
    BY DEF SchemaValid, NoWorse, Whole
  <1>7. WellFormed(db)' /\ OneEra(db)'
    BY DEF WellFormed, OneEra, KeysRight
  <1>8. /\ Present(db)' = Present(e) /\ Present(draft)' = Present(e)
        /\ Present(db) => Present(e)
        /\ \A n : CreatedBefore(db, n)' = CreatedBefore(e, n)
        /\ \A n : CreatedBefore(db, n) => CreatedBefore(e, n)
    BY CreatesAll DEF NoneLost, Present, CreatedBefore
  <1>9. \A q \in Starters : PastCreate(q)' => Present(db)'
    BY <1>1, <1>8 DEF WholeInv, PastCreate
  <1>10. \A q \in Starters : CreateInv(q)'
    <2>1. ASSUME NEW q \in Starters, q # p PROVE CreateInv(q)'
      BY <1>1, <1>8, <2>1 DEF WholeInv, CreateInv, Doing, At
    <2>2. CASE Present(e)
      <3>1. \A n : CreatedBefore(e, n)
        BY <2>2, CreatesAll DEF Present, CreatedBefore
      <3> QED
        BY <1>8, <3>1 DEF CreateInv
    <2>3. CASE ~Present(e)
      BY <1>1, <1>8, <2>1, <2>3 DEF CreateInv, Doing, At
    <2> QED
      BY <2>2, <2>3
  <1> QED
    BY <1>3, <1>4, <1>5, <1>6, <1>7, <1>8, <1>9, <1>10 DEF WholeInv

LEMMA Published ==
  ASSUME UpgradeInv, WholeInv, NEW p \in Starters, NEW s, NEW e, locker = p \/ locker = Nobody,
         starting' = [starting EXCEPT ![p] = s], s[1] \notin RebuildStages \union {"ready"},
         era' = era, db' = e, draft' = e, e.search.rows = db.search.rows,
         WellFormed(e), OneEra(e), Present(e), NoWorse(db, e),
         era = "fresh" => \A t \in RebuiltTables : e.rows[t] = {} /\ e.aside[t] = {}
  PROVE  WholeInv'
  <1>1. NoneLost(db, e)
    BY DEF NoneLost, Present
  <1> QED
    BY <1>1, Written

(* What a statement of the script makes. *)
LEMMA Created ==
  ASSUME UpgradeInv, WholeInv, NEW u \in Tables
  PROVE  LET e == CreateMissing(db, u) IN
         /\ WellFormed(e) /\ OneEra(e) /\ NoneLost(db, e) /\ NoWorse(db, e)
         /\ e.search = db.search /\ e.rows = db.rows /\ e.aside = db.aside
         /\ \A t \in Tables : e.shape[t] = IF t = u /\ db.shape[u] = "absent" THEN "scoped"
                                          ELSE db.shape[t]
  <1> DEFINE columns == NewColumns(u)
             e == [db EXCEPT !.shape[u] = "scoped", !.extra[u] = columns]
  <1>1. DOMAIN db = Parts /\ WellFormed(db) /\ OneEra(db)
    BY DEF UpgradeInv, IsDatabase, WholeInv
  <1>2. CASE db.shape[u] # "absent"
    <2>1. CreateMissing(db, u) = db
      BY <1>2 DEF CreateMissing
    <2> QED
      BY <1>1, <1>2, <2>1 DEF NoneLost, NoWorse
  <1>3. CASE db.shape[u] = "absent"
    <2>1. CreateMissing(db, u) = e
      BY <1>3 DEF CreateMissing
    <2> HIDE DEF columns
    <2>2. /\ e.shape = [db.shape EXCEPT ![u] = "scoped"]
          /\ e.extra = [db.extra EXCEPT ![u] = columns]
          /\ e.search = db.search /\ e.keys = db.keys /\ e.rows = db.rows /\ e.aside = db.aside
      BY <1>1 DEF Parts
    <2> HIDE DEF e
    <2>3. /\ e.shape \in [Tables -> Shapes] /\ e.shape[u] = "scoped"
          /\ \A t \in Tables \ {u} : e.shape[t] = db.shape[t]
      BY <1>1, <2>2 DEF WellFormed, Shapes
    <2>4. /\ \A t \in Tables \ {u} : e.extra[t] = db.extra[t]
          /\ e.extra = [t \in Tables |-> e.extra[t]]
      BY <1>1, <2>2 DEF WellFormed
    <2>5. WellFormed(e)
      BY <1>1, <2>2, <2>3, <2>4 DEF WellFormed, Tables
    <2>6. OneEra(e)
      <3>1. \A i \in 1..3 : KeysRight(e, i)
        BY <1>1, <2>2 DEF OneEra, KeysRight
      <3>2. CASE u = "edges"
        <4>1. \A i \in 1..3 : e.shape[TableAt(i)] = db.shape[TableAt(i)]
          BY <2>3, <3>2, TablesInOrder DEF RebuiltTables
        <4> QED
          BY <1>1, <3>1, <4>1 DEF OneEra
      <3>3. CASE u # "edges"
        <4>1. PICK k \in 1..3 : TableAt(k) = u
          BY <3>3, TablesInOrder DEF Tables
        <4>2. \A i \in 1..3 : db.shape[TableAt(i)] \in {"absent", "scoped"}
          BY <1>1, <1>3, <4>1 DEF OneEra
        <4>3. \A i \in 1..3 : e.shape[TableAt(i)] \in {"absent", "scoped"}
          BY <2>3, <4>2, TablesInOrder
        <4> QED
          BY <3>1, <4>3 DEF OneEra
      <3> QED
        BY <3>2, <3>3
    <2>7. NoneLost(db, e) /\ NoWorse(db, e)
      BY <1>3, <2>2, <2>3, <2>4 DEF NoneLost, NoWorse, Whole
    <2> QED
      BY <1>3, <2>1, <2>2, <2>3, <2>5, <2>6, <2>7
  <1> QED
    BY <1>2, <1>3

LEMMA SearchCreated ==
  ASSUME UpgradeInv, WholeInv
  PROVE  LET e == CreateMissingSearch(db) IN
         /\ WellFormed(e) /\ OneEra(e) /\ NoneLost(db, e) /\ NoWorse(db, e)
         /\ e.search.rows = db.search.rows /\ e.rows = db.rows /\ e.aside = db.aside
         /\ e.shape = db.shape /\ (e.search.current <=> db.search.current \/ era = "fresh")
  <1> DEFINE present == [current |-> TRUE, rows |-> db.search.rows]
             e == [db EXCEPT !.search = present]
  <1>1. DOMAIN db = Parts /\ WellFormed(db) /\ OneEra(db)
    BY DEF UpgradeInv, IsDatabase, WholeInv
  <1>2. CASE era # "fresh"
    <2>1. CreateMissingSearch(db) = db
      BY <1>2 DEF CreateMissingSearch
    <2> QED
      BY <1>1, <1>2, <2>1 DEF NoneLost, NoWorse
  <1>3. CASE era = "fresh"
    <2>1. CreateMissingSearch(db) = e
      BY <1>3 DEF CreateMissingSearch
    <2>2. present.current /\ present.rows = db.search.rows
          /\ present = [current |-> present.current, rows |-> present.rows]
      OBVIOUS
    <2> HIDE DEF present
    <2>3. /\ e.shape = db.shape /\ e.extra = db.extra /\ e.search = present
          /\ e.keys = db.keys /\ e.rows = db.rows /\ e.aside = db.aside
      BY <1>1 DEF Parts
    <2> HIDE DEF e
    <2>4. WellFormed(e) /\ OneEra(e)
      BY <1>1, <2>2, <2>3 DEF WellFormed, OneEra, KeysRight
    <2>5. NoneLost(db, e) /\ NoWorse(db, e)
      BY <2>2, <2>3 DEF NoneLost, NoWorse, Whole
    <2> QED
      BY <1>3, <2>1, <2>2, <2>3, <2>4, <2>5
  <1> QED
    BY <1>2, <1>3

(* A step of the script leaves a database in which all is as it should be up *)
(* to its next statement.                                                    *)
LEMMA ScriptStep ==
  ASSUME UpgradeInv, WholeInv, NEW p \in Starters,
         (\E n \in 1..4 : CreateTable(p, n)) \/ CreateSearch(p)
  PROVE  \E s, e :
           /\ starting[p][1] = "create" /\ starting' = [starting EXCEPT ![p] = s]
           /\ Script(e) /\ WellFormed(e) /\ OneEra(e) /\ NoneLost(db, e) /\ NoWorse(db, e)
           /\ e.search.rows = db.search.rows /\ e.rows = db.rows /\ e.aside = db.aside
           /\ s[1] \in {"create", "decide"}
           /\ s[1] = "decide" => Present(e)
           /\ s[1] = "create" => \A n \in 1..5 : s[2] = n => CreatedBefore(e, n)
  <1>0. PICK n \in 1..5 : \E s : ScriptAt(p, n, s)
    BY CreateStep
  <1>1. PICK s : ScriptAt(p, n, s)
    BY <1>0
  <1>2. CreatedBefore(db, n)
    BY <1>1 DEF ScriptAt, WholeInv, CreateInv
  <1>3. CASE n = 5
    <2> DEFINE e == CreateMissingSearch(db)
    <2>1. /\ WellFormed(e) /\ OneEra(e) /\ NoneLost(db, e) /\ NoWorse(db, e)
          /\ e.search.rows = db.search.rows /\ e.rows = db.rows /\ e.aside = db.aside
      BY SearchCreated
    <2> HIDE DEF e
    <2>2. Present(e)
      BY <1>2, <1>3, <2>1, ScriptDone DEF NoneLost, Present
    <2>3. Script(e) /\ s[1] = "decide"
      BY <1>1, <1>3 DEF ScriptAt, e
    <2> QED
      BY <1>1, <2>1, <2>2, <2>3 DEF ScriptAt
  <1>4. CASE n # 5
    <2> DEFINE u == Creates[n]
               e == CreateMissing(db, u)
    <2>1. n \in 1..4 /\ n < 5 /\ u \in Tables
      BY <1>4, CreatesAll
    <2> HIDE DEF u
    <2>2. /\ WellFormed(e) /\ OneEra(e) /\ NoneLost(db, e) /\ NoWorse(db, e)
          /\ e.search = db.search /\ e.rows = db.rows /\ e.aside = db.aside
          /\ e.shape[u] # "absent"
      BY <2>1, Created
    <2> HIDE DEF e
    <2>3. CreatedBefore(e, n + 1)
      <3>1. \A m \in 1..4 : m < n + 1 => m < n \/ m = n
        BY <2>1
      <3>2. \A m \in 1..4 : m < n => e.shape[Creates[m]] # "absent"
        BY <1>2, <2>2, CreatesAll DEF CreatedBefore, NoneLost
      <3> QED
        BY <2>2, <3>1, <3>2 DEF CreatedBefore, u
    <2>4. Script(e) /\ s[1] = "create" /\ s[2] = n + 1
      BY <1>1, <2>1 DEF ScriptAt, e, u
    <2> QED
      BY <1>1, <2>2, <2>3, <2>4 DEF ScriptAt
  <1> QED
    BY <1>3, <1>4

LEMMA WholeCreate ==
  ASSUME UpgradeInv, WholeInv, NEW p \in Starters,
         (\E n \in 1..4 : CreateTable(p, n)) \/ CreateSearch(p)
  PROVE  WholeInv'
  <1>1. PICK s, e :
           /\ starting[p][1] = "create" /\ starting' = [starting EXCEPT ![p] = s]
           /\ Script(e) /\ WellFormed(e) /\ OneEra(e) /\ NoneLost(db, e) /\ NoWorse(db, e)
           /\ e.search.rows = db.search.rows /\ e.rows = db.rows /\ e.aside = db.aside
           /\ s[1] \in {"create", "decide"}
           /\ s[1] = "decide" => Present(e)
           /\ s[1] = "create" => \A n \in 1..5 : s[2] = n => CreatedBefore(e, n)
    BY ScriptStep
  <1>2. db' = e /\ UNCHANGED <<locker, era>> /\ s[1] \notin RebuildStages \union {"ready"}
    BY <1>1 DEF Script, RebuildStages
  <1>3. CASE Unlocked
    <2>1. draft' = e /\ locker = Nobody
      BY <1>1, <1>3 DEF Script, Unlocked
    <2>2. era = "fresh" => \A t \in RebuiltTables : e.rows[t] = {} /\ e.aside[t] = {}
      BY <1>1 DEF WholeInv, SearchRowsInv
    <2> QED
      BY <1>1, <1>2, <2>1, <2>2, Written
  <1>4. CASE ~Unlocked
    <2>1. draft' = draft /\ e = db
      BY <1>1, <1>4 DEF Script
    <2>2. starting'[p] = s
      BY <1>1 DEF UpgradeInv
    <2>3. RebuildInv(p)'
      BY <1>2, <2>2 DEF RebuildInv, Doing, At, RebuildStages
    <2>4. s[1] = "create" => CreateInv(p)'
      BY <1>1, <1>2, <2>1, <2>2 DEF CreateInv, CreatedBefore, Doing, At
    <2>5. starting[p][1] \notin RebuildStages
      BY <1>1 DEF RebuildStages
    <2> QED
      BY <1>1, <1>2, <2>1, <2>3, <2>4, <2>5, StageReached
  <1> QED
    BY <1>3, <1>4

LEMMA WholeBegin ==
  ASSUME UpgradeInv, WholeInv, NEW p \in Starters, BeginUpgrade(p)
  PROVE  WholeInv'
  <1>1. draft = db /\ draft' = draft /\ UNCHANGED <<db, era>> /\ Present(db) /\ OneEra(db)
        /\ starting[p][1] \in {"rebuild", "refresh"}
    BY DEF BeginUpgrade, Unlocked, UpgradeInv, WholeInv, PastCreate
  <1>2. CASE At(p, "rebuild")
    <2>1. starting' = [starting EXCEPT ![p] = <<"rename", 1>>]
          /\ starting'[p] = <<"rename", 1>>
      BY <1>2 DEF BeginUpgrade, GoWith, UpgradeInv
    <2>2. \A i \in 1..3 : draft.shape[TableAt(i)] \in {"v1", "v2", "scoped"}
      BY <1>1, TablesInOrder DEF WholeInv, WellFormed, Shapes, Present
    <2>3. ToDo(1) \/ Settled(4)
      BY <1>1, <2>2, TablesInOrder DEF OneEra, ToDo, Settled, Present
    <2>4. Settled(1)
      BY DEF Settled
    <2>5. RebuildInv(p)'
      <3>1. \A i \in 1..3 : Doing(p, "rename", i)' => i = 1
        BY <2>1 DEF Doing, At
      <3>2. Settled(1)' /\ (ToDo(1)' \/ Settled(4)')
        BY <1>1, <2>3, <2>4 DEF Settled, ToDo, KeysRight
      <3>3. starting'[p][1] = "rename"
        BY <2>1
      <3> QED
        BY <3>1, <3>2, <3>3 DEF RebuildInv, Doing, At
    <2> QED
      BY <1>1, <2>1, <2>5, <<"rename", 1>>[1] = "rename", StageReached DEF RebuildStages
  <1>3. CASE ~At(p, "rebuild")
    <2>1. starting' = [starting EXCEPT ![p] = <<"search">>] /\ <<"search">>[1] = "search"
      BY <1>3 DEF BeginUpgrade, Go
    <2>2. RebuildInv(p)'
      BY <2>1 DEF RebuildInv, Doing, At, UpgradeInv
    <2> QED
      BY <1>1, <2>1, <2>2, StageReached DEF RebuildStages
  <1> QED
    BY <1>2, <1>3

(* The parts of the draft that a statement of the rebuild changes. *)
LEMMA WholeSkip ==
  ASSUME UpgradeInv, WholeInv, NEW p \in Starters, NEW i \in 1..3, SkipTable(p, i)
  PROVE  WholeInv'
  <1>1. /\ starting[p][1] = "rename" /\ Settled(i) /\ (ToDo(i) \/ Settled(4)) /\ Present(db)
        /\ draft.shape[TableAt(i)] \notin {"v1", "v2"} /\ UNCHANGED <<db, draft, era>>
    BY DEF SkipTable, Doing, At, NeedsScopeRebuild, TableAt, WholeInv, RebuildInv, PastCreate
  <1>2. Settled(4)
    BY <1>1 DEF ToDo
  <1>3. \A j \in 1..4 : Settled(j)'
    BY <1>1, <1>2 DEF Settled, KeysRight
  <1>4. CASE i = 3
    <2>1. starting' = [starting EXCEPT ![p] = <<"searchAndCommit">>]
          /\ starting'[p] = <<"searchAndCommit">>
      BY <1>4 DEF SkipTable, NextTable, Go, UpgradeInv
    <2>2. RebuildInv(p)'
      BY <1>3, <2>1 DEF RebuildInv, Doing, At
    <2> QED
      BY <1>1, <2>1, <2>2, <<"searchAndCommit">>[1] = "searchAndCommit", StageReached
      DEF RebuildStages
  <1>5. CASE i # 3
    <2>1. starting' = [starting EXCEPT ![p] = <<"rename", i + 1>>]
          /\ starting'[p] = <<"rename", i + 1>>
      BY <1>5 DEF SkipTable, NextTable, GoWith, UpgradeInv
    <2>2. RebuildInv(p)'
      BY <1>3, <2>1 DEF RebuildInv, Doing, At
    <2> QED
      BY <1>1, <2>1, <2>2, <<"rename", i + 1>>[1] = "rename", StageReached
      DEF RebuildStages
  <1> QED
    BY <1>4, <1>5

LEMMA WholeRename ==
  ASSUME UpgradeInv, WholeInv, NEW p \in Starters, NEW i \in 1..3, RenameTable(p, i)
  PROVE  WholeInv'
  <1> DEFINE t == TableAt(i)
             moved == [u \in Tables |-> IF t \in draft.keys[u]
                                        THEN (draft.keys[u] \ {t}) \union {Aside(t)}
                                        ELSE draft.keys[u]]
             e == [draft EXCEPT !.shape[t] = "absent", !.aside[t] = draft.rows[t],
                                !.rows[t] = {}, !.keys = moved]
  <1>1. /\ starting' = [starting EXCEPT ![p] = <<"fill", i>>]
        /\ starting'[p] = <<"fill", i>> /\ starting[p][1] = "rename"
        /\ draft.shape[t] = "v2" /\ draft' = e /\ UNCHANGED <<db, locker, era>>
    BY DEF RenameTable, GoWith, Doing, At, Execute, TableAt, UpgradeInv
  <1>2. Settled(i) /\ (ToDo(i) \/ Settled(4))
    BY DEF RenameTable, WholeInv, RebuildInv
  <1>3. ToDo(i)
    BY <1>1, <1>2 DEF Settled
  <1>4. t \in Tables /\ t \in RebuiltTables /\ t # "edges"
    BY TablesInOrder DEF RebuiltTables
  <1>5. \A j \in 1..3 : j < i => moved[TableAt(j)] = draft.keys[TableAt(j)]
    BY <1>2, TablesInOrder DEF Settled, KeysRight
  <1>6. moved = [u \in Tables |-> moved[u]]
    OBVIOUS
  <1>7. \A j \in 1..3 : j # i => TableAt(j) # t /\ TableAt(j) \in Tables
    BY TablesInOrder
  <1>8. /\ DOMAIN draft = Parts /\ WellFormed(draft)
        /\ draft.rows = [u \in RebuiltTables |-> draft.rows[u]]
        /\ draft.aside = [u \in RebuiltTables |-> draft.aside[u]]
    BY DEF UpgradeInv, IsDatabase, WholeInv
  <1> HIDE DEF moved, t
  <1>9. /\ e.shape = [draft.shape EXCEPT ![t] = "absent"] /\ e.keys = moved
        /\ e.extra = draft.extra /\ e.search = draft.search
        /\ e.rows = [draft.rows EXCEPT ![t] = {}]
        /\ e.aside = [draft.aside EXCEPT ![t] = draft.rows[t]]
    BY <1>8 DEF Parts
  <1> HIDE DEF e
  <1>10. /\ e.shape[t] = "absent" /\ e.shape \in [Tables -> Shapes]
         /\ \A u \in Tables \ {t} : e.shape[u] = draft.shape[u]
    BY <1>4, <1>8, <1>9 DEF WellFormed, Shapes
  <1>11. WellFormed(e)
    BY <1>4, <1>6, <1>8, <1>9, <1>10 DEF WellFormed, Tables
  <1>12. NoWorse(draft, e)
    BY <1>1, <1>9, <1>10 DEF NoWorse, Whole
  <1>13. RebuildInv(p)'
    <2>1. draft'.shape[TableAt(i)] = "absent"
      BY <1>1, <1>10 DEF t
    <2>2. ToDo(i + 1)'
      <3>1. \A j \in 1..3 : j >= i + 1 => j >= i /\ j # i
        OBVIOUS
      <3> QED
        BY <1>1, <1>3, <1>7, <1>10, <3>1 DEF ToDo
    <2>3. Settled(i)'
      <3>1. \A j \in 1..3 : j < i => j # i
        OBVIOUS
      <3>2. \A j \in 1..3 : j < i => draft'.keys[TableAt(j)] = draft.keys[TableAt(j)]
                                     /\ draft'.shape[TableAt(j)] = draft.shape[TableAt(j)]
        BY <1>1, <1>5, <1>7, <1>9, <1>10, <3>1
      <3> QED
        BY <1>2, <3>2 DEF Settled, KeysRight
    <2> QED
      BY <1>1, <2>1, <2>2, <2>3 DEF RebuildInv, Doing, At
  <1>14. era = "fresh" => \A u \in RebuiltTables : e.rows[u] = {} /\ e.aside[u] = {}
    BY <1>4, <1>8, <1>9 DEF WholeInv, SearchRowsInv
  <1>15. locker = p
    BY <1>1 DEF UpgradeInv, HoldersLock, HeldStages
  <1>16. <<"fill", i>>[1] = "fill" /\ WellFormed(draft)' /\ NoWorse(draft, draft')
         /\ draft'.search.rows = draft.search.rows
    BY <1>1, <1>9, <1>11, <1>12 DEF WellFormed
  <1> QED
    BY <1>1, <1>13, <1>14, <1>15, <1>16, StatementRun DEF RebuildStages

LEMMA WholeCopy ==
  ASSUME UpgradeInv, WholeInv, NEW p \in Starters, NEW i \in 1..3, CreateAndCopy(p, i)
  PROVE  WholeInv'
  <1> DEFINE t == TableAt(i)
             keys == Rebuilds[i].keys
             columns == Rebuilds[i].columns
             e == [draft EXCEPT !.shape[t] = "scoped", !.rows[t] = draft.aside[t],
                                !.keys[t] = keys, !.extra[t] = columns]
  <1>1. /\ starting' = [starting EXCEPT ![p] = <<"drop", i>>]
        /\ starting'[p] = <<"drop", i>> /\ starting[p][1] = "fill"
        /\ draft' = e /\ UNCHANGED <<db, locker, era>>
    BY DEF CreateAndCopy, GoWith, Doing, At, Execute, TableAt, UpgradeInv
  <1>2. Settled(i) /\ ToDo(i + 1) /\ draft.shape[t] = "absent"
    BY DEF CreateAndCopy, WholeInv, RebuildInv
  <1>4. t \in Tables /\ t \in RebuiltTables /\ t # "edges"
    BY TablesInOrder DEF RebuiltTables
  <1>7. \A j \in 1..3 : j # i => TableAt(j) # t /\ TableAt(j) \in Tables
    BY TablesInOrder
  <1>8. /\ DOMAIN draft = Parts /\ WellFormed(draft)
        /\ draft.rows = [u \in RebuiltTables |-> draft.rows[u]]
        /\ draft.aside = [u \in RebuiltTables |-> draft.aside[u]]
    BY DEF UpgradeInv, IsDatabase, WholeInv
  <1> HIDE DEF keys, columns, t
  <1>9. /\ e.shape = [draft.shape EXCEPT ![t] = "scoped"]
        /\ e.keys = [draft.keys EXCEPT ![t] = keys]
        /\ e.extra = [draft.extra EXCEPT ![t] = columns] /\ e.search = draft.search
        /\ e.rows = [draft.rows EXCEPT ![t] = draft.aside[t]] /\ e.aside = draft.aside
    BY <1>8 DEF Parts
  <1> HIDE DEF e
  <1>10. /\ e.shape[t] = "scoped" /\ e.shape \in [Tables -> Shapes]
         /\ \A u \in Tables \ {t} : e.shape[u] = draft.shape[u]
    BY <1>4, <1>8, <1>9 DEF WellFormed, Shapes
  <1>5. /\ e.keys[t] = keys /\ \A u \in Tables \ {t} : e.keys[u] = draft.keys[u]
        /\ e.keys = [u \in Tables |-> e.keys[u]]
    BY <1>4, <1>8, <1>9 DEF WellFormed
  <1>6. /\ \A u \in Tables \ {t} : e.extra[u] = draft.extra[u]
        /\ e.extra = [u \in Tables |-> e.extra[u]]
    BY <1>4, <1>8, <1>9 DEF WellFormed
  <1>11. WellFormed(e)
    BY <1>4, <1>5, <1>6, <1>8, <1>9, <1>10 DEF WellFormed, Tables
  <1>12. NoWorse(draft, e)
    BY <1>2, <1>6, <1>9, <1>10 DEF NoWorse, Whole
  <1>13. RebuildInv(p)'
    <2>2. ToDo(i + 1)'
      <3>1. \A j \in 1..3 : j >= i + 1 => j # i
        OBVIOUS
      <3> QED
        BY <1>1, <1>2, <1>7, <1>10, <3>1 DEF ToDo
    <2>3. Settled(i + 1)'
      <3>1. \A j \in 1..3 : j < i + 1 => (j = i \/ (j < i /\ j # i))
        OBVIOUS
      <3>2. \A j \in 1..3 : j < i => draft'.keys[TableAt(j)] = draft.keys[TableAt(j)]
                                     /\ draft'.shape[TableAt(j)] = draft.shape[TableAt(j)]
        BY <1>1, <1>5, <1>7, <1>10, <3>1
      <3>3. draft'.keys[TableAt(i)] = Rebuilds[i].keys /\ draft'.shape[TableAt(i)] = "scoped"
        BY <1>1, <1>5, <1>10 DEF t, keys
      <3> QED
        BY <1>2, <3>1, <3>2, <3>3 DEF Settled, KeysRight
    <2> QED
      BY <1>1, <2>2, <2>3 DEF RebuildInv, Doing, At
  <1>14. era = "fresh" => \A u \in RebuiltTables : e.rows[u] = {} /\ e.aside[u] = {}
    BY <1>4, <1>8, <1>9 DEF WholeInv, SearchRowsInv
  <1>15. locker = p
    BY <1>1 DEF UpgradeInv, HoldersLock, HeldStages
  <1>16. <<"drop", i>>[1] = "drop" /\ WellFormed(draft)' /\ NoWorse(draft, draft')
         /\ draft'.search.rows = draft.search.rows
    BY <1>1, <1>9, <1>11, <1>12 DEF WellFormed
  <1> QED
    BY <1>1, <1>13, <1>14, <1>15, <1>16, StatementRun DEF RebuildStages

LEMMA WholeDrop ==
  ASSUME UpgradeInv, WholeInv, NEW p \in Starters, NEW i \in 1..3, DropAside(p, i)
  PROVE  WholeInv'
  <1> DEFINE t == TableAt(i)
  <1>1. /\ starting[p][1] = "drop" /\ draft' = [draft EXCEPT !.aside[t] = {}]
        /\ UNCHANGED <<db, locker, era>> /\ NextTable(p, i)
    BY DEF DropAside, Doing, At, Execute, TableAt
  <1>2. Settled(i + 1) /\ ToDo(i + 1)
    BY DEF DropAside, WholeInv, RebuildInv
  <1>3. /\ DOMAIN draft = Parts /\ WellFormed(draft)
        /\ draft.aside = [u \in RebuiltTables |-> draft.aside[u]]
    BY DEF UpgradeInv, IsDatabase, WholeInv
  <1>4. t \in RebuiltTables
    BY TablesInOrder
  <1> HIDE DEF t
  <1>5. /\ draft'.shape = draft.shape /\ draft'.keys = draft.keys /\ draft'.extra = draft.extra
        /\ draft'.search = draft.search /\ draft'.rows = draft.rows
        /\ draft'.aside = [draft.aside EXCEPT ![t] = {}]
    BY <1>1, <1>3 DEF Parts
  <1>6. WellFormed(draft)' /\ NoWorse(draft, draft')
    BY <1>3, <1>5 DEF WellFormed, NoWorse, Whole
  <1>7. Settled(i + 1)' /\ ToDo(i + 1)'
    BY <1>2, <1>5 DEF Settled, ToDo, KeysRight
  <1>8. era = "fresh" => \A u \in RebuiltTables : draft'.rows[u] = {} /\ draft'.aside[u] = {}
    BY <1>3, <1>4, <1>5 DEF WholeInv, SearchRowsInv
  <1>9. locker = p
    BY <1>1 DEF UpgradeInv, HoldersLock, HeldStages
  <1>10. CASE i = 3
    <2>1. starting' = [starting EXCEPT ![p] = <<"searchAndCommit">>]
          /\ starting'[p] = <<"searchAndCommit">>
      BY <1>1, <1>10 DEF NextTable, Go, UpgradeInv
    <2>2. RebuildInv(p)'
      BY <1>7, <1>10, <2>1 DEF RebuildInv, Doing, At
    <2>3. <<"searchAndCommit">>[1] = "searchAndCommit"
          /\ draft'.search.rows = draft.search.rows
      BY <1>5
    <2> QED
      BY <1>1, <1>6, <1>8, <1>9, <2>1, <2>2, <2>3, StatementRun DEF RebuildStages
  <1>11. CASE i # 3
    <2>1. starting' = [starting EXCEPT ![p] = <<"rename", i + 1>>]
          /\ starting'[p] = <<"rename", i + 1>>
      BY <1>1, <1>11 DEF NextTable, GoWith, UpgradeInv
    <2>2. RebuildInv(p)'
      BY <1>7, <2>1 DEF RebuildInv, Doing, At
    <2>3. <<"rename", i + 1>>[1] = "rename" /\ draft'.search.rows = draft.search.rows
      BY <1>5
    <2> QED
      BY <1>1, <1>6, <1>8, <1>9, <2>1, <2>2, <2>3, StatementRun DEF RebuildStages
  <1> QED
    BY <1>10, <1>11

LEMMA SearchMade ==
  ASSUME UpgradeInv, WholeInv
  PROVE  LET e == EnsureRecordsFts(draft) IN
         /\ WellFormed(e) /\ NoWorse(draft, e) /\ e.search.current
         /\ e.shape = draft.shape /\ e.keys = draft.keys /\ e.extra = draft.extra
         /\ e.rows = draft.rows /\ e.aside = draft.aside
         /\ ~draft.search.current => e.search.rows = draft.rows["records"]
         /\ draft.search.current => e = draft
  <1> DEFINE remade == [current |-> TRUE, rows |-> draft.rows["records"]]
             e == [draft EXCEPT !.search = remade]
  <1>1. DOMAIN draft = Parts /\ WellFormed(draft)
    BY DEF UpgradeInv, IsDatabase, WholeInv
  <1>2. CASE draft.search.current
    <2>1. EnsureRecordsFts(draft) = draft
      BY <1>2 DEF EnsureRecordsFts
    <2> QED
      BY <1>1, <1>2, <2>1 DEF NoWorse
  <1>3. CASE ~draft.search.current
    <2>1. EnsureRecordsFts(draft) = e
      BY <1>3 DEF EnsureRecordsFts
    <2>2. remade.current /\ remade.rows = draft.rows["records"]
          /\ remade = [current |-> remade.current, rows |-> remade.rows]
      OBVIOUS
    <2> HIDE DEF remade
    <2>3. /\ e.shape = draft.shape /\ e.keys = draft.keys /\ e.extra = draft.extra
          /\ e.rows = draft.rows /\ e.aside = draft.aside /\ e.search = remade
      BY <1>1 DEF Parts
    <2> HIDE DEF e
    <2>4. WellFormed(e) /\ NoWorse(draft, e)
      BY <1>1, <2>2, <2>3 DEF WellFormed, NoWorse, Whole
    <2> QED
      BY <1>3, <2>1, <2>2, <2>3, <2>4
  <1> QED
    BY <1>2, <1>3

(* The search table is made again from the rows the records table has. *)
LEMMA SearchHasRecords ==
  ASSUME UpgradeInv, WholeInv, NEW p \in Starters, starting[p][1] \in {"searchAndCommit", "search"}
  PROVE  EnsureRecordsFts(draft).search.rows = draft.search.rows
  <1>1. draft.search.rows = RowsOf(era)
    BY DEF WholeInv, SearchRowsInv
  <1>2. locker = p /\ "records" \in RebuiltTables
    BY DEF UpgradeInv, HoldersLock, HeldStages, RebuiltTables
  <1>3. era # "fresh" => draft.rows["records"] = StoredRows
    BY <1>2, NothingMoved DEF UpgradeInv, DraftKeepsRows
  <1>4. era = "fresh" => draft.rows["records"] = {}
    BY <1>2 DEF WholeInv, SearchRowsInv
  <1>5. draft.rows["records"] = RowsOf(era)
    BY <1>3, <1>4 DEF RowsOf
  <1> QED
    BY <1>1, <1>5, SearchMade

LEMMA WholeRebuilt ==
  ASSUME UpgradeInv, WholeInv, NEW p \in Starters, RebuildSearch(p)
  PROVE  WholeInv'
  <1> DEFINE e == EnsureRecordsFts(draft)
  <1>1. /\ starting[p][1] = "searchAndCommit" /\ db' = e /\ draft' = e /\ UNCHANGED era
        /\ Settled(4) /\ Present(db)
    BY DEF RebuildSearch, At, WholeInv, RebuildInv, PastCreate
  <1>2. PICK s : starting' = [starting EXCEPT ![p] = s] /\ s[1] = "columns"
    BY <<"columns">>[1] = "columns" DEF RebuildSearch, Go
  <1>3. /\ WellFormed(e) /\ NoWorse(draft, e) /\ e.search.rows = draft.search.rows
        /\ e.shape = draft.shape /\ e.keys = draft.keys /\ e.rows = draft.rows
        /\ e.aside = draft.aside
    BY <1>1, SearchMade, SearchHasRecords
  <1> HIDE DEF e
  <1>4. OneEra(e)
    BY <1>1, <1>3 DEF Settled, OneEra, KeysRight
  <1>5. Present(e)
    <2>1. Whole(db, "edges") /\ "edges" \in Tables
      BY <1>1 DEF Present, Whole, WholeInv, WellFormed, LateColumns, Tables
    <2>2. draft.shape["edges"] = "scoped"
      BY <2>1 DEF WholeInv, NotBehind, Whole
    <2>3. \A i \in 1..3 : draft.shape[TableAt(i)] = "scoped"
      BY <1>1 DEF Settled
    <2>4. \A t \in Tables : t = "edges" \/ t \in RebuiltTables
      BY DEF Tables
    <2>5. \A t \in Tables : draft.shape[t] = "scoped"
      BY <2>2, <2>3, <2>4, TablesInOrder
    <2> QED
      BY <1>1, <1>3, <2>5 DEF Present
  <1>6. NoWorse(db, e)
    BY <1>3 DEF NoWorse, WholeInv, NotBehind
  <1>7. e.search.rows = db.search.rows
    BY <1>3 DEF WholeInv, SearchRowsInv
  <1>8. era = "fresh" => \A t \in RebuiltTables : e.rows[t] = {} /\ e.aside[t] = {}
    BY <1>3 DEF WholeInv, SearchRowsInv
  <1>9. locker \in {p, Nobody} /\ s[1] \notin RebuildStages \union {"ready"}
    BY <1>1, <1>2 DEF UpgradeInv, HoldersLock, HeldStages, RebuildStages
  <1> QED
    BY <1>1, <1>2, <1>3, <1>4, <1>5, <1>6, <1>7, <1>8, <1>9, Published

(* Nobody rebuilds while a process in another stage has the lock. *)
LEMMA NobodyRebuilds ==
  ASSUME UpgradeInv, WholeInv, NEW p \in Starters, locker \in {p, Nobody},
         starting[p][1] \notin RebuildStages, PastCreate(p)
  PROVE  OneEra(draft) /\ Present(draft) /\ Present(db)
  <1>1. \A q \in Starters : starting[q][1] \notin RebuildStages
    BY UpgradeAssumption DEF UpgradeInv, HoldersLock, HeldStages, RebuildStages
  <1> QED
    BY <1>1 DEF WholeInv

LEMMA WholeRefreshed ==
  ASSUME UpgradeInv, WholeInv, NEW p \in Starters, RefreshSearch(p)
  PROVE  WholeInv'
  <1> DEFINE e == EnsureRecordsFts(draft)
  <1>1. /\ starting[p][1] = "search" /\ draft' = e /\ UNCHANGED <<db, era>>
        /\ starting' = [starting EXCEPT ![p] = <<"columns">>]
    BY DEF RefreshSearch, At, Execute, Go
  <1>2. PICK s : starting' = [starting EXCEPT ![p] = s] /\ s[1] = "columns"
    BY <1>1, <<"columns">>[1] = "columns"
  <1>3. locker = p
    BY <1>1 DEF UpgradeInv, HoldersLock, HeldStages
  <1>4. OneEra(draft) /\ Present(draft)
    BY <1>1, <1>3, NobodyRebuilds DEF PastCreate, RebuildStages
  <1>5. /\ WellFormed(e) /\ NoWorse(draft, e) /\ e.search.rows = draft.search.rows
        /\ e.shape = draft.shape /\ e.keys = draft.keys /\ e.rows = draft.rows
        /\ e.aside = draft.aside
    BY <1>1, SearchMade, SearchHasRecords
  <1> HIDE DEF e
  <1>6. OneEra(draft)' /\ Present(draft)' /\ WellFormed(draft)'
    BY <1>1, <1>4, <1>5 DEF OneEra, KeysRight, Present, WellFormed
  <1>7. RebuildInv(p)'
    BY <1>1 DEF RebuildInv, Doing, At, UpgradeInv
  <1>8. era = "fresh" => \A t \in RebuiltTables : draft'.rows[t] = {} /\ draft'.aside[t] = {}
    BY <1>1, <1>5 DEF WholeInv, SearchRowsInv
  <1>9. NoWorse(draft, draft') /\ draft'.search.rows = draft.search.rows
    BY <1>1, <1>5
  <1> QED
    BY <1>1, <1>2, <1>3, <1>6, <1>7, <1>8, <1>9, StatementRun

(* A column more does no harm. *)
LEMMA ColumnAlters ==
  ASSUME NEW d, DOMAIN d = Parts, WellFormed(d), NEW t, NEW x, NEW e,
         e = [d EXCEPT !.extra[t] = @ \union {x}]
  PROVE  /\ WellFormed(e) /\ NoWorse(d, e) /\ e.search = d.search
         /\ e.shape = d.shape /\ e.keys = d.keys /\ e.rows = d.rows /\ e.aside = d.aside
  <1>1. /\ e.extra = [d.extra EXCEPT ![t] = @ \union {x}] /\ e.search = d.search
        /\ e.shape = d.shape /\ e.keys = d.keys /\ e.rows = d.rows /\ e.aside = d.aside
    BY DEF Parts
  <1>2. d.extra = [u \in Tables |-> d.extra[u]]
    BY DEF WellFormed
  <1>3. \A u \in Tables : d.extra[u] \subseteq e.extra[u]
    BY <1>1, <1>2
  <1>4. e.extra = [u \in Tables |-> e.extra[u]]
    BY <1>1, <1>2
  <1>5. WellFormed(e) /\ NoWorse(d, e)
    BY <1>1, <1>3, <1>4 DEF WellFormed, NoWorse, Whole
  <1> QED
    BY <1>1, <1>5

LEMMA WholeColumn ==
  ASSUME UpgradeInv, WholeInv, NEW p \in Starters, NEW c, AddColumn(p, c)
  PROVE  WholeInv'
  <1> DEFINE t == c[1]
             x == c[2]
             e == [draft EXCEPT !.extra[t] = @ \union {x}]
  <1>1. /\ starting[p][1] = "add" /\ locker \in {p, Nobody} /\ era' = era
        /\ starting' = [starting EXCEPT ![p] = <<"columns">>]
    BY DEF AddColumn, Doing, At, Go
  <1>2. PICK s : starting' = [starting EXCEPT ![p] = s] /\ s[1] = "columns"
    BY <1>1, <<"columns">>[1] = "columns"
  <1>3. OneEra(draft) /\ Present(draft) /\ Present(db)
    BY <1>1, NobodyRebuilds DEF PastCreate, RebuildStages
  <1>4. /\ DOMAIN draft = Parts /\ WellFormed(draft) /\ (locker = Nobody => draft = db)
    BY DEF UpgradeInv, IsDatabase, WholeInv
  <1>5. draft' = e /\ (locker = p => db' = db) /\ (locker # p => db' = e)
    BY <1>1, <1>4 DEF AddColumn, Execute
  <1>0. e = [draft EXCEPT !.extra[t] = @ \union {x}]
    OBVIOUS
  <1> HIDE DEF t, x, e
  <1>6. /\ WellFormed(e) /\ NoWorse(draft, e) /\ e.search = draft.search
        /\ e.shape = draft.shape /\ e.keys = draft.keys /\ e.rows = draft.rows
        /\ e.aside = draft.aside
    BY <1>0, <1>4, ColumnAlters
  <1>7. OneEra(e) /\ Present(e)
    BY <1>3, <1>6 DEF OneEra, KeysRight, Present
  <1>8. RebuildInv(p)'
    BY <1>1 DEF RebuildInv, Doing, At, UpgradeInv
  <1>9. era = "fresh" => \A u \in RebuiltTables : e.rows[u] = {} /\ e.aside[u] = {}
    BY <1>6 DEF WholeInv, SearchRowsInv
  <1>10. CASE locker = p
    <2>1. OneEra(draft)' /\ Present(draft)' /\ WellFormed(draft)'
      BY <1>5, <1>6, <1>7 DEF OneEra, KeysRight, Present, WellFormed
    <2>2. /\ db' = db /\ NoWorse(draft, draft') /\ draft'.search.rows = draft.search.rows
          /\ era = "fresh" => \A u \in RebuiltTables : draft'.rows[u] = {} /\ draft'.aside[u] = {}
      BY <1>5, <1>6, <1>9, <1>10
    <2> QED
      BY <1>1, <1>2, <1>8, <1>10, <2>1, <2>2, StatementRun
  <1>11. CASE locker # p
    <2>1. draft = db /\ s[1] \notin RebuildStages \union {"ready"}
      BY <1>1, <1>2, <1>4, <1>11 DEF RebuildStages
    <2>2. db' = e /\ NoWorse(db, e) /\ e.search.rows = db.search.rows
      BY <1>5, <1>6, <1>11, <2>1
    <2> QED
      BY ZenonT(30), <1>1, <1>2, <1>5, <1>6, <1>7, <1>9, <2>1, <2>2, Published
  <1> QED
    BY <1>10, <1>11

LEMMA WholeIndexes ==
  ASSUME UpgradeInv, WholeInv, NEW p \in Starters, EnsureSecondaryIndexes(p)
  PROVE  WholeInv'
  <1>1. /\ starting[p][1] = "indexes" /\ locker \in {p, Nobody} /\ era' = era
        /\ draft' = draft /\ db' = draft
    BY DEF EnsureSecondaryIndexes, At
  <1>2. PICK s : starting' = [starting EXCEPT ![p] = s] /\ s[1] = "validate"
    BY <<"validate">>[1] = "validate" DEF EnsureSecondaryIndexes, Go
  <1>3. OneEra(draft) /\ Present(draft) /\ WellFormed(draft)
    BY <1>1, NobodyRebuilds DEF PastCreate, RebuildStages, WholeInv
  <1>5. NoWorse(db, draft) /\ draft.search.rows = db.search.rows
    BY DEF WholeInv, NotBehind, NoWorse, SearchRowsInv
  <1>6. era = "fresh" => \A t \in RebuiltTables : draft.rows[t] = {} /\ draft.aside[t] = {}
    BY DEF WholeInv, SearchRowsInv
  <1>7. s[1] \notin RebuildStages \union {"ready"}
    BY <1>2 DEF RebuildStages
  <1> QED
    BY <1>1, <1>2, <1>3, <1>5, <1>6, <1>7, Published

(* A step that only reads: the stage it leaves is past the creation. *)
LEMMA WholeLooks ==
  ASSUME UpgradeInv, WholeInv, NEW p \in Starters, NEW s,
         starting' = [starting EXCEPT ![p] = s], UNCHANGED <<db, draft, era>>,
         s[1] \in {"create", "rebuild", "refresh", "indexes", "add", "ready", "failed"},
         starting[p][1] \notin RebuildStages, s[1] = "create" => s[2] = 1,
         s[1] # "create" => PastCreate(p),
         s[1] = "ready" => SchemaValid(db)
  PROVE  WholeInv'
  <1>1. RebuildInv(p)'
    BY DEF RebuildInv, Doing, At, UpgradeInv
  <1>3. s[1] = "create" => CreateInv(p)'
    <2>1. starting'[p] = s
      BY DEF UpgradeInv
    <2>2. CreatedBefore(db, 1)'
      BY DEF CreatedBefore
    <2> QED
      BY <2>1, <2>2 DEF CreateInv, Doing, At
  <1>2. s[1] # "create" => Present(db)
    BY DEF WholeInv
  <1> QED
    BY <1>1, <1>2, <1>3, StageReached

LEMMA WholeAborted ==
  ASSUME UpgradeInv, WholeInv, NEW p \in Starters, Abort(p)
  PROVE  WholeInv'
  <1>1. PICK s : starting' = [starting EXCEPT ![p] = s] /\ s[1] = "failed"
    BY <<"failed">>[1] = "failed" DEF Abort, Go
  <1> QED
    BY <1>1, WholeAfterFailure DEF Abort

LEMMA WholeNext == UpgradeInv /\ WholeInv /\ [UpgradeNext]_upgradeVars => WholeInv'
  <1> SUFFICES ASSUME UpgradeInv, WholeInv, [UpgradeNext]_upgradeVars PROVE WholeInv'
    OBVIOUS
  <1>1. ASSUME NEW p \in Starters, Start(p) PROVE WholeInv'
    <2>1. PICK s : starting' = [starting EXCEPT ![p] = s] /\ s[1] = "create" /\ s[2] = 1
      BY <1>1, <<"create", 1>>[1] = "create", <<"create", 1>>[2] = 1 DEF Start, GoWith
    <2> QED
      BY <1>1, <2>1, WholeLooks DEF Start, RebuildStages
  <1>2. ASSUME NEW p \in Starters, (\E n \in 1..4 : CreateTable(p, n)) \/ CreateSearch(p)
        PROVE  WholeInv'
    BY <1>2, WholeCreate
  <1>3. ASSUME NEW p \in Starters, MigrateScopeSchema(p) PROVE WholeInv'
    <2>1. PICK s : starting' = [starting EXCEPT ![p] = s] /\ s[1] \in {"rebuild", "refresh"}
      BY <1>3, GoesTo, Zenon DEF MigrateScopeSchema
    <2> QED
      BY <1>3, <2>1, WholeLooks DEF MigrateScopeSchema, At, PastCreate, RebuildStages
  <1>4. ASSUME NEW p \in Starters, BeginUpgrade(p) PROVE WholeInv'
    BY <1>4, WholeBegin
  <1>5. ASSUME NEW p \in Starters, NEW i \in 1..3, SkipTable(p, i) PROVE WholeInv'
    BY <1>5, WholeSkip
  <1>6. ASSUME NEW p \in Starters, NEW i \in 1..3, RefuseTable(p, i) PROVE WholeInv'
    BY <1>6, WholeAborted DEF RefuseTable
  <1>7. ASSUME NEW p \in Starters, NEW i \in 1..3, RenameTable(p, i) PROVE WholeInv'
    BY <1>7, WholeRename
  <1>8. ASSUME NEW p \in Starters, NEW i \in 1..3, CreateAndCopy(p, i) PROVE WholeInv'
    BY <1>8, WholeCopy
  <1>9. ASSUME NEW p \in Starters, NEW i \in 1..3, DropAside(p, i) PROVE WholeInv'
    BY <1>9, WholeDrop
  <1>10. ASSUME NEW p \in Starters, RebuildSearch(p) PROVE WholeInv'
    BY <1>10, WholeRebuilt
  <1>11. ASSUME NEW p \in Starters, RefreshSearch(p) PROVE WholeInv'
    BY <1>11, WholeRefreshed
  <1>12. ASSUME NEW p \in Starters, FindMissingColumn(p) PROVE WholeInv'
    <2>1. PICK s : starting' = [starting EXCEPT ![p] = s] /\ s[1] \in {"indexes", "add"}
      <3>1. CASE Go(p, "indexes")
        BY <3>1, <<"indexes">>[1] = "indexes" DEF Go
      <3>2. ASSUME NEW c, GoWith(p, "add", c)
            PROVE \E s : starting' = [starting EXCEPT ![p] = s] /\ s[1] \in {"indexes", "add"}
        BY <3>2, <<"add", c>>[1] = "add" DEF GoWith
      <3> QED
        BY <1>12, <3>1, <3>2 DEF FindMissingColumn
    <2> QED
      BY <1>12, <2>1, WholeLooks DEF FindMissingColumn, At, PastCreate, RebuildStages
  <1>13. ASSUME NEW p \in Starters, NEW c, AddColumn(p, c) PROVE WholeInv'
    BY <1>13, WholeColumn
  <1>14. ASSUME NEW p \in Starters, NEW c, DuplicateColumn(p, c) PROVE WholeInv'
    BY <1>14, WholeAborted DEF DuplicateColumn
  <1>15. ASSUME NEW p \in Starters, EnsureSecondaryIndexes(p) PROVE WholeInv'
    BY <1>15, WholeIndexes
  <1>16. ASSUME NEW p \in Starters, ValidateSchema(p) PROVE WholeInv'
    <2>1. PICK s : /\ starting' = [starting EXCEPT ![p] = s] /\ s[1] \in {"ready", "failed"}
                   /\ s[1] = "ready" => SchemaValid(db)
      <3>1. CASE SchemaValid(db)
        BY <1>16, <3>1, <<"ready">>[1] = "ready" DEF ValidateSchema, Go
      <3>2. CASE ~SchemaValid(db)
        BY <1>16, <3>2, <<"failed">>[1] = "failed" DEF ValidateSchema, Go
      <3> QED
        BY <3>1, <3>2
    <2> QED
      BY <1>16, <2>1, WholeLooks DEF ValidateSchema, At, PastCreate, RebuildStages
  <1>17. ASSUME NEW p \in Starters, LockedOut(p) PROVE WholeInv'
    BY <1>17, WholeAborted DEF LockedOut
  <1>18. ASSUME NEW p \in Starters, CrashUpgrade(p) PROVE WholeInv'
    <2>1. PICK s : starting' = [starting EXCEPT ![p] = s] /\ s[1] = "off"
      BY <1>18, <<"off">>[1] = "off" DEF CrashUpgrade, Go
    <2> QED
      BY <1>18, <2>1, WholeAfterFailure DEF CrashUpgrade
  <1>19. CASE UNCHANGED upgradeVars
    <2>1. WellFormed(db)' /\ WellFormed(draft)' /\ OneEra(db)' /\ NotBehind' /\ SearchRowsInv'
      BY <1>19 DEF upgradeVars, WholeInv, WellFormed, OneEra, KeysRight, NotBehind, Whole,
           SearchRowsInv
    <2>2. /\ Present(db)' = Present(db) /\ Present(draft)' = Present(draft)
          /\ OneEra(draft)' = OneEra(draft) /\ SchemaValid(db)' = SchemaValid(db)
      BY <1>19 DEF upgradeVars, Present, OneEra, KeysRight, SchemaValid
    <2>3. \A p \in Starters : RebuildInv(p)'
      BY <1>19 DEF upgradeVars, WholeInv, RebuildInv, Doing, At, Settled, ToDo, KeysRight
    <2>4. starting' = starting
      BY <1>19 DEF upgradeVars
    <2>5. \A p \in Starters : CreateInv(p)'
      BY <1>19 DEF upgradeVars, WholeInv, CreateInv, CreatedBefore, Doing, At
    <2> QED
      BY <2>1, <2>2, <2>3, <2>4, <2>5 DEF WholeInv, PastCreate, At
  <1> QED
    BY <1>1, <1>2, <1>3, <1>4, <1>5, <1>6, <1>7, <1>8, <1>9, <1>10, <1>11, <1>12, <1>13,
       <1>14, <1>15, <1>16, <1>17, <1>18, <1>19 DEF UpgradeNext

(* ReadyIsWhole for every instance: once initialize() has returned in any     *)
(* process, every table and column is there, the search table has every       *)
(* record, and the rebuilt tables' keys name tables that exist; whatever the  *)
(* other processes are doing and wherever they died (ContextStore.initialize, *)
(* _migrate_scope_schema and _ensure_records_fts, context/store.py).          *)
THEOREM StoreReadyIsWhole == UpgradeSpec => []ReadyIsWhole
  <1>1. UpgradeInv /\ WholeInv => ReadyIsWhole
    <2> SUFFICES ASSUME UpgradeInv, WholeInv, \E p \in Starters : At(p, "ready")
                 PROVE  /\ SchemaValid(db) /\ db.search.rows = db.rows["records"]
                        /\ \A t \in RebuiltTables : KeysResolve(db, t)
      BY DEF ReadyIsWhole
    <2>1. SchemaValid(db)
      BY DEF WholeInv
    <2>2. db.search.rows = db.rows["records"]
      BY DEF WholeInv, SearchRowsInv, RowsOf, UpgradeInv, UpgradeKeepsRows, RebuiltTables
    <2>3. \A t \in RebuiltTables : KeysResolve(db, t)
      BY TablesInOrder DEF WholeInv, OneEra, KeysRight, KeysResolve
    <2> QED
      BY <2>1, <2>2, <2>3
  <1>2. UpgradeInit => UpgradeInv /\ WholeInv
    BY UpgradeInitial, WholeInitial
  <1>3. UpgradeInv /\ WholeInv /\ [UpgradeNext]_upgradeVars => (UpgradeInv /\ WholeInv)'
    BY UpgradeInvNext, WholeNext
  <1> QED
    BY <1>1, <1>2, <1>3, PTL DEF UpgradeSpec

-----------------------------------------------------------------------------
(* The upgrade is one change *)

AllScoped(d) == \A i \in 1..3 : d.shape[TableAt(i)] = "scoped"
SameShapes(d, e) == \A i \in 1..3 : d.shape[TableAt(i)] = e.shape[TableAt(i)]

\* What the open transaction may have made of the tables that are committed: only
\* those of the last era are being rebuilt, and the search table is made again
\* by itself only where no table has to be.
ChangeInv ==
  /\ \A i \in 1..3 : db.shape[TableAt(i)] = "absent" => era = "fresh"
  /\ era = "fresh" => \A i \in 1..3 : db.shape[TableAt(i)] \in {"absent", "scoped"}
  /\ \A i \in 1..3 : draft.shape[TableAt(i)] # db.shape[TableAt(i)] => db.shape[TableAt(i)] = "v2"
  /\ (\A p \in Starters : starting[p][1] \notin RebuildStages) => SameShapes(db, draft)
  /\ \A p \in Starters : starting[p][1] \in {"refresh", "search"} => AllScoped(db)
  /\ draft.search.current => db.search.current \/ AllScoped(db)

\* A missing table is there, after those that come before it.
OneMade(i) ==
  /\ db.shape[TableAt(i)] = "absent" /\ db'.shape[TableAt(i)] = "scoped"
  /\ \A j \in 1..3 : j # i => db'.shape[TableAt(j)] = db.shape[TableAt(j)]
  /\ \A j \in 1..3 : j < i => db.shape[TableAt(j)] # "absent"
  /\ db'.search.current <=> db.search.current

\* What a step makes of the file: nothing, one table of an empty file, the search
\* table for tables that are as they should be, or all tables and the search table.
Changed ==
  \/ SameShapes(db, db') /\ (db'.search.current <=> db.search.current)
  \/ \E i \in 1..3 : OneMade(i)
  \/ AllScoped(db) /\ AllScoped(db') /\ db'.search.current
  \/ /\ \A i \in 1..3 : db.shape[TableAt(i)] = "v2"
     /\ AllScoped(db') /\ db'.search.current

LEMMA ChangeInitial == UpgradeInit => ChangeInv
  <1> SUFFICES ASSUME UpgradeInit PROVE ChangeInv
    OBVIOUS
  <1>1. \A p \in Starters : starting[p][1] = "off"
    BY DEF UpgradeInit
  <1>2. db = Database(era) /\ draft = db /\ era \in KnownEras
    BY UpgradeAssumption DEF UpgradeInit
  <1>3. \A i \in 1..3 : db.shape[TableAt(i)] = IF era = "fresh" THEN "absent" ELSE era
    BY <1>2, TablesInOrder DEF Database, RebuiltTables
  <1>4. ~draft.search.current
    BY <1>2 DEF Database
  <1> QED
    BY <1>1, <1>2, <1>3, <1>4 DEF ChangeInv, SameShapes, KnownEras

(* A step that commits nothing. *)
LEMMA NothingCommitted ==
  ASSUME UpgradeInv, ChangeInv, NEW p \in Starters, NEW s,
         starting' = [starting EXCEPT ![p] = s], UNCHANGED <<db, era>>,
         \A i \in 1..3 : draft'.shape[TableAt(i)] # db.shape[TableAt(i)] =>
                           db.shape[TableAt(i)] = "v2",
         \/ s[1] \in RebuildStages
         \/ SameShapes(db, draft')
         \/ starting[p][1] \notin RebuildStages /\ SameShapes(draft, draft'),
         s[1] \in {"refresh", "search"} => AllScoped(db),
         draft'.search.current => db.search.current \/ AllScoped(db)
  PROVE  ChangeInv' /\ Changed
  <1>1. starting'[p] = s /\ \A q \in Starters \ {p} : starting'[q] = starting[q]
    BY DEF UpgradeInv
  <1>2. (\A q \in Starters : starting'[q][1] \notin RebuildStages) => SameShapes(db, draft')
    BY <1>1 DEF ChangeInv, SameShapes
  <1>3. \A q \in Starters : starting'[q][1] \in {"refresh", "search"} => AllScoped(db)
    BY <1>1 DEF ChangeInv
  <1> QED
    BY <1>2, <1>3 DEF ChangeInv, Changed, SameShapes, AllScoped

(* A commit, by a process that has done what it had to rebuild or to make. *)
LEMMA Filed ==
  ASSUME UpgradeInv, ChangeInv, NEW p \in Starters, NEW s, NEW e,
         starting' = [starting EXCEPT ![p] = s], s[1] \notin {"refresh", "search"},
         era' = era, db' = e, draft' = e,
         \A i \in 1..3 : e.shape[TableAt(i)] = "absent" => era = "fresh",
         era = "fresh" => \A i \in 1..3 : e.shape[TableAt(i)] \in {"absent", "scoped"},
         AllScoped(db) => AllScoped(e)
  PROVE  ChangeInv'
  <1>1. starting'[p] = s /\ \A q \in Starters \ {p} : starting'[q] = starting[q]
    BY DEF UpgradeInv
  <1>2. \A q \in Starters : starting'[q][1] \in {"refresh", "search"} => AllScoped(e)
    BY <1>1 DEF ChangeInv
  <1>3. (draft'.search.current => db'.search.current) /\ SameShapes(db', draft')
    BY DEF SameShapes
  <1> QED
    BY <1>2, <1>3 DEF ChangeInv, SameShapes, AllScoped

LEMMA Committed ==
  ASSUME UpgradeInv, ChangeInv, NEW p \in Starters, NEW s, NEW e,
         starting' = [starting EXCEPT ![p] = s], s[1] \notin {"refresh", "search"},
         era' = era, db' = e, draft' = e,
         \A i \in 1..3 : e.shape[TableAt(i)] # "absent",
         AllScoped(db) \/ era = "fresh" => AllScoped(e)
  PROVE  ChangeInv'
  <1>1. era = "fresh" => \A i \in 1..3 : e.shape[TableAt(i)] \in {"absent", "scoped"}
    BY DEF AllScoped
  <1> QED
    BY <1>1, Filed

(* A process goes on, or gives up without the lock. *)
LEMMA OnlyLooked ==
  ASSUME UpgradeInv, ChangeInv, NEW p \in Starters, NEW s,
         starting' = [starting EXCEPT ![p] = s], UNCHANGED <<db, draft, era>>,
         s[1] \in RebuildStages \/ starting[p][1] \notin RebuildStages,
         s[1] \in {"refresh", "search"} => AllScoped(db)
  PROVE  ChangeInv' /\ Changed
  <1>1. SameShapes(draft, draft')
    BY DEF SameShapes
  <1>2. \A i \in 1..3 : draft'.shape[TableAt(i)] # db.shape[TableAt(i)] =>
                          db.shape[TableAt(i)] = "v2"
    BY DEF ChangeInv
  <1>3. draft'.search.current => db.search.current \/ AllScoped(db)
    BY DEF ChangeInv
  <1> QED
    BY <1>1, <1>2, <1>3, NothingCommitted

(* A process that fails or dies takes back what it has not committed. *)
LEMMA TakenBack ==
  ASSUME UpgradeInv, ChangeInv, NEW p \in Starters, NEW s,
         starting' = [starting EXCEPT ![p] = s], s[1] \in {"failed", "off"},
         draft' = IF locker = p THEN db ELSE draft, UNCHANGED <<db, era>>
  PROVE  ChangeInv' /\ Changed
  <1>1. CASE locker = p
    <2>1. draft' = db /\ SameShapes(db, draft')
      BY <1>1 DEF SameShapes
    <2> QED
      BY <2>1, NothingCommitted
  <1>2. CASE locker # p
    <2>1. starting[p][1] \notin RebuildStages
      BY <1>2 DEF UpgradeInv, HoldersLock, HeldStages, RebuildStages
    <2> QED
      BY <1>2, <2>1, OnlyLooked
  <1> QED
    BY <1>1, <1>2

LEMMA AbortTakesBack ==
  ASSUME UpgradeInv, ChangeInv, NEW p \in Starters, Abort(p)
  PROVE  ChangeInv' /\ Changed
  <1>1. PICK s : starting' = [starting EXCEPT ![p] = s] /\ s[1] = "failed"
    BY <<"failed">>[1] = "failed" DEF Abort, Go
  <1> QED
    BY <1>1, TakenBack DEF Abort

(* A missing table is made in an empty file only. *)
LEMMA TableChanges ==
  ASSUME UpgradeInv, WholeInv, ChangeInv, NEW n \in 1..4, CreatedBefore(db, n),
         NEW e, e = CreateMissing(db, Creates[n]), db' = e
  PROVE  /\ Changed
         /\ \A i \in 1..3 : e.shape[TableAt(i)] = "absent" => era = "fresh"
         /\ era = "fresh" => \A i \in 1..3 : e.shape[TableAt(i)] \in {"absent", "scoped"}
         /\ AllScoped(db) => AllScoped(e)
  <1> DEFINE u == Creates[n]
  <1>1. u \in Tables
    BY CreatesAll
  <1>2. /\ \A t \in Tables : e.shape[t] = IF t = u /\ db.shape[u] = "absent" THEN "scoped"
                                         ELSE db.shape[t]
        /\ e.search = db.search
    BY <1>1, Created
  <1>3. n = 4 => u = "edges"
    BY CreatesAll
  <1>4. n # 4 => n \in 1..3 /\ u = TableAt(n)
    BY CreatesAll
  <1>5. \A j \in 1..3 : j < n => db.shape[TableAt(j)] # "absent"
    <2>1. \A j \in 1..3 : j \in 1..4 /\ Creates[j] = TableAt(j)
      BY CreatesAll
    <2> QED
      BY <2>1 DEF CreatedBefore
  <1> HIDE DEF u
  <1>6. \A i \in 1..3 : e.shape[TableAt(i)] \in {db.shape[TableAt(i)], "scoped"}
    BY <1>2, TablesInOrder
  <1>7. Changed
    <2>1. CASE n = 4 \/ db.shape[u] # "absent"
      <3>1. \A i \in 1..3 : e.shape[TableAt(i)] = db.shape[TableAt(i)]
        BY <1>2, <1>3, <2>1, TablesInOrder DEF RebuiltTables
      <3> QED
        BY <1>2, <3>1 DEF Changed, SameShapes
    <2>2. CASE n # 4 /\ db.shape[u] = "absent"
      <3>1. n \in 1..3 /\ u = TableAt(n)
        BY <1>4, <2>2
      <3>2. /\ e.shape[TableAt(n)] = "scoped"
            /\ \A j \in 1..3 : j # n => e.shape[TableAt(j)] = db.shape[TableAt(j)]
        BY <1>2, <2>2, <3>1, TablesInOrder
      <3>3. OneMade(n)
        BY <1>2, <1>5, <2>2, <3>1, <3>2 DEF OneMade
      <3> QED
        BY <3>1, <3>3 DEF Changed
    <2> QED
      BY <2>1, <2>2
  <1> QED
    BY <1>6, <1>7 DEF ChangeInv, AllScoped

LEMMA SearchTableChanges ==
  ASSUME UpgradeInv, WholeInv, ChangeInv, CreatedBefore(db, 5),
         NEW e, e = CreateMissingSearch(db), db' = e
  PROVE  /\ Changed
         /\ \A i \in 1..3 : e.shape[TableAt(i)] = "absent" => era = "fresh"
         /\ era = "fresh" => \A i \in 1..3 : e.shape[TableAt(i)] \in {"absent", "scoped"}
         /\ AllScoped(db) => AllScoped(e)
  <1>1. e.shape = db.shape /\ (e.search.current <=> db.search.current \/ era = "fresh")
    BY SearchCreated
  <1>2. Present(db)
    BY ScriptDone
  <1>3. CASE era = "fresh"
    <2>1. AllScoped(db) /\ AllScoped(e)
      BY <1>1, <1>2, <1>3, TablesInOrder DEF ChangeInv, AllScoped, Present
    <2> QED
      BY <1>1, <1>3, <2>1 DEF Changed, ChangeInv
  <1>4. CASE era # "fresh"
    BY <1>1, <1>4 DEF Changed, SameShapes, ChangeInv, AllScoped
  <1> QED
    BY <1>3, <1>4

LEMMA CreateChanges ==
  ASSUME UpgradeInv, WholeInv, ChangeInv, NEW p \in Starters,
         (\E n \in 1..4 : CreateTable(p, n)) \/ CreateSearch(p)
  PROVE  ChangeInv' /\ Changed
  <1>0. PICK n \in 1..5 : \E s : ScriptAt(p, n, s)
    BY CreateStep
  <1>1. PICK s : ScriptAt(p, n, s)
    BY <1>0
  <1>2. CreatedBefore(db, n)
    BY <1>1 DEF ScriptAt, WholeInv, CreateInv
  <1> DEFINE e == IF n = 5 THEN CreateMissingSearch(db) ELSE CreateMissing(db, Creates[n])
  <1>3. n # 5 => n \in 1..4 /\ n < 5
    OBVIOUS
  <1>4. n # 5 => Script(CreateMissing(db, Creates[n])) /\ s[1] = "create"
    BY <1>1, <1>3 DEF ScriptAt
  <1>5. n = 5 => Script(CreateMissingSearch(db)) /\ s[1] = "decide"
    BY <1>1 DEF ScriptAt
  <1>6. Script(e) /\ s[1] \in {"create", "decide"}
    BY <1>4, <1>5
  <1>7. db' = e /\ era' = era
    BY <1>6 DEF Script
  <1>8. /\ Changed
        /\ \A i \in 1..3 : e.shape[TableAt(i)] = "absent" => era = "fresh"
        /\ era = "fresh" => \A i \in 1..3 : e.shape[TableAt(i)] \in {"absent", "scoped"}
        /\ AllScoped(db) => AllScoped(e)
    <2>1. CASE n = 5
      <3>1. e = CreateMissingSearch(db)
        BY <2>1
      <3> HIDE DEF e
      <3> QED
        BY <1>2, <1>7, <2>1, <3>1, SearchTableChanges
    <2>2. CASE n # 5
      <3>1. e = CreateMissing(db, Creates[n])
        BY <2>2
      <3> HIDE DEF e
      <3> QED
        BY <1>2, <1>3, <1>7, <2>2, <3>1, TableChanges
    <2> QED
      BY <2>1, <2>2
  <1> HIDE DEF e
  <1>9. CASE Unlocked
    <2>1. draft' = e
      BY <1>6, <1>9 DEF Script
    <2> QED
      BY <1>1, <1>6, <1>7, <1>8, <2>1, Filed DEF ScriptAt
  <1>10. CASE ~Unlocked
    <2>1. UNCHANGED <<db, draft, era>>
      BY <1>6, <1>10 DEF Script
    <2> QED
      BY <1>1, <1>6, <2>1, OnlyLooked DEF ScriptAt, RebuildStages
  <1> QED
    BY <1>9, <1>10

LEMMA DecideChanges ==
  ASSUME UpgradeInv, WholeInv, ChangeInv, NEW p \in Starters, MigrateScopeSchema(p)
  PROVE  ChangeInv' /\ Changed
  <1>1. starting[p][1] = "decide" /\ UNCHANGED <<db, draft, era>> /\ Present(db)
    BY DEF MigrateScopeSchema, At, WholeInv, PastCreate
  <1>2. CASE \E t \in RebuiltTables : NeedsScopeRebuild(db, t)
    <2>1. PICK s : starting' = [starting EXCEPT ![p] = s] /\ s[1] = "rebuild"
      BY <1>2, <<"rebuild">>[1] = "rebuild" DEF MigrateScopeSchema, Go
    <2> QED
      BY <1>1, <2>1, OnlyLooked DEF RebuildStages
  <1>3. CASE ~ \E t \in RebuiltTables : NeedsScopeRebuild(db, t)
    <2>1. PICK s : starting' = [starting EXCEPT ![p] = s] /\ s[1] = "refresh"
      BY <1>3, <<"refresh">>[1] = "refresh" DEF MigrateScopeSchema, Go
    <2>2. AllScoped(db)
      BY <1>1, <1>3, TablesInOrder
      DEF AllScoped, NeedsScopeRebuild, Present, WholeInv, WellFormed, Shapes
    <2> QED
      BY <1>1, <2>1, <2>2, OnlyLooked DEF RebuildStages
  <1> QED
    BY <1>2, <1>3

LEMMA BeginChanges ==
  ASSUME UpgradeInv, ChangeInv, NEW p \in Starters, BeginUpgrade(p)
  PROVE  ChangeInv' /\ Changed
  <1>1. draft' = db /\ UNCHANGED <<db, era>> /\ starting[p][1] \in {"rebuild", "refresh"}
    BY DEF BeginUpgrade
  <1>2. PICK s : /\ starting' = [starting EXCEPT ![p] = s] /\ s[1] \in {"rename", "search"}
                 /\ s[1] = "search" => starting[p][1] = "refresh"
    <2>1. CASE At(p, "rebuild")
      BY <2>1, <<"rename", 1>>[1] = "rename" DEF BeginUpgrade, GoWith
    <2>2. CASE ~At(p, "rebuild")
      BY <1>1, <2>2, <<"search">>[1] = "search" DEF BeginUpgrade, Go, At
    <2> QED
      BY <2>1, <2>2
  <1>3. s[1] \in {"refresh", "search"} => AllScoped(db)
    BY <1>2 DEF ChangeInv
  <1>4. SameShapes(db, draft')
    BY <1>1 DEF SameShapes
  <1> QED
    BY <1>1, <1>2, <1>3, <1>4, NothingCommitted

LEMMA NextRebuilds ==
  ASSUME NEW p, NEW i, NextTable(p, i)
  PROVE  \E s : starting' = [starting EXCEPT ![p] = s] /\ s[1] \in {"rename", "searchAndCommit"}
  <1>1. CASE i = 3
    BY <1>1, <<"searchAndCommit">>[1] = "searchAndCommit" DEF NextTable, Go
  <1>2. CASE i # 3
    BY <1>2, <<"rename", i + 1>>[1] = "rename" DEF NextTable, GoWith
  <1> QED
    BY <1>1, <1>2

LEMMA RenameChanges ==
  ASSUME UpgradeInv, WholeInv, ChangeInv, NEW p \in Starters, NEW i \in 1..3, RenameTable(p, i)
  PROVE  ChangeInv' /\ Changed
  <1> DEFINE t == TableAt(i)
             keys == [u \in Tables |-> IF t \in draft.keys[u]
                                       THEN (draft.keys[u] \ {t}) \union {Aside(t)}
                                       ELSE draft.keys[u]]
             e == [draft EXCEPT !.shape[t] = "absent", !.aside[t] = draft.rows[t],
                                !.rows[t] = {}, !.keys = keys]
  <1>1. draft' = e /\ draft.shape[t] = "v2" /\ UNCHANGED <<db, era>>
    BY DEF RenameTable, Execute, TableAt
  <1>2. PICK s : starting' = [starting EXCEPT ![p] = s] /\ s[1] = "fill"
    BY <<"fill", i>>[1] = "fill" DEF RenameTable, GoWith
  <1>3. DOMAIN draft = Parts /\ draft.shape \in [Tables -> Shapes]
    BY DEF UpgradeInv, IsDatabase, WholeInv, WellFormed
  <1> HIDE DEF keys, t
  <1>4. e.shape = [draft.shape EXCEPT ![t] = "absent"] /\ e.search = draft.search
    BY <1>3 DEF Parts
  <1> HIDE DEF e
  <1>5. \A u \in Tables : u # t => draft'.shape[u] = draft.shape[u]
    BY <1>1, <1>3, <1>4
  <1>6. db.shape[t] = "v2"
    BY <1>1 DEF t, ChangeInv
  <1>7. \A j \in 1..3 : draft'.shape[TableAt(j)] # db.shape[TableAt(j)] => db.shape[TableAt(j)] = "v2"
    BY <1>5, <1>6, TablesInOrder DEF ChangeInv
  <1>8. draft'.search.current => db.search.current \/ AllScoped(db)
    BY <1>1, <1>4 DEF ChangeInv
  <1> QED
    BY <1>1, <1>2, <1>7, <1>8, NothingCommitted DEF RebuildStages

LEMMA CopyChanges ==
  ASSUME UpgradeInv, WholeInv, ChangeInv, NEW p \in Starters, NEW i \in 1..3, CreateAndCopy(p, i)
  PROVE  ChangeInv' /\ Changed
  <1> DEFINE t == TableAt(i)
             keys == Rebuilds[i].keys
             columns == Rebuilds[i].columns
             e == [draft EXCEPT !.shape[t] = "scoped", !.rows[t] = draft.aside[t],
                                !.keys[t] = keys, !.extra[t] = columns]
  <1>1. draft' = e /\ UNCHANGED <<db, era>> /\ Doing(p, "fill", i)
    BY DEF CreateAndCopy, Execute, TableAt
  <1>2. PICK s : starting' = [starting EXCEPT ![p] = s] /\ s[1] = "drop"
    BY <<"drop", i>>[1] = "drop" DEF CreateAndCopy, GoWith
  <1>3. DOMAIN draft = Parts /\ draft.shape \in [Tables -> Shapes]
    BY DEF UpgradeInv, IsDatabase, WholeInv, WellFormed
  <1>4. draft.shape[t] = "absent" /\ db.shape[t] # "absent"
    BY <1>1, TablesInOrder DEF WholeInv, RebuildInv, PastCreate, Present, Doing, At
  <1> HIDE DEF keys, columns, t
  <1>5. e.shape = [draft.shape EXCEPT ![t] = "scoped"] /\ e.search = draft.search
    BY <1>3 DEF Parts
  <1> HIDE DEF e
  <1>6. \A u \in Tables : u # t => draft'.shape[u] = draft.shape[u]
    BY <1>1, <1>3, <1>5
  <1>7. db.shape[t] = "v2"
    BY <1>4 DEF t, ChangeInv
  <1>8. \A j \in 1..3 : draft'.shape[TableAt(j)] # db.shape[TableAt(j)] => db.shape[TableAt(j)] = "v2"
    BY <1>6, <1>7, TablesInOrder DEF ChangeInv
  <1>9. draft'.search.current => db.search.current \/ AllScoped(db)
    BY <1>1, <1>5 DEF ChangeInv
  <1> QED
    BY <1>1, <1>2, <1>8, <1>9, NothingCommitted DEF RebuildStages

LEMMA DropChanges ==
  ASSUME UpgradeInv, ChangeInv, NEW p \in Starters, NEW i \in 1..3, DropAside(p, i)
  PROVE  ChangeInv' /\ Changed
  <1>1. draft' = [draft EXCEPT !.aside[TableAt(i)] = {}] /\ UNCHANGED <<db, era>>
    BY DEF DropAside, Execute, TableAt
  <1>2. PICK s : starting' = [starting EXCEPT ![p] = s] /\ s[1] \in {"rename", "searchAndCommit"}
    BY NextRebuilds DEF DropAside
  <1>3. draft'.shape = draft.shape /\ draft'.search = draft.search
    BY <1>1 DEF UpgradeInv, IsDatabase, Parts
  <1>4. \A j \in 1..3 : draft'.shape[TableAt(j)] # db.shape[TableAt(j)] => db.shape[TableAt(j)] = "v2"
    BY <1>3 DEF ChangeInv
  <1>5. draft'.search.current => db.search.current \/ AllScoped(db)
    BY <1>3 DEF ChangeInv
  <1> QED
    BY <1>1, <1>2, <1>4, <1>5, NothingCommitted DEF RebuildStages

(* The commit of a rebuild: tables and search table change together. *)
LEMMA RebuildChanges ==
  ASSUME UpgradeInv, WholeInv, ChangeInv, NEW p \in Starters, RebuildSearch(p)
  PROVE  ChangeInv' /\ Changed
  <1> DEFINE e == EnsureRecordsFts(draft)
  <1>1. db' = e /\ draft' = e /\ UNCHANGED era /\ Settled(4)
    BY DEF RebuildSearch, WholeInv, RebuildInv
  <1>2. PICK s : starting' = [starting EXCEPT ![p] = s] /\ s[1] = "columns"
    BY <<"columns">>[1] = "columns" DEF RebuildSearch, Go
  <1>3. e.shape = draft.shape /\ e.search.current
    BY SearchMade
  <1> HIDE DEF e
  <1>4. AllScoped(e) /\ \A i \in 1..3 : e.shape[TableAt(i)] # "absent"
    BY <1>1, <1>3 DEF Settled, AllScoped
  <1>5. \A i \in 1..3 : db.shape[TableAt(i)] \in {"v2", "scoped"}
    BY <1>1 DEF Settled, ChangeInv
  <1>6. AllScoped(db) \/ \A i \in 1..3 : db.shape[TableAt(i)] = "v2"
    BY <1>5, Zenon DEF WholeInv, OneEra, AllScoped
  <1>7. Changed
    BY <1>1, <1>3, <1>4, <1>6 DEF Changed
  <1> QED
    BY <1>1, <1>2, <1>4, <1>7, Committed

LEMMA RefreshChanges ==
  ASSUME UpgradeInv, WholeInv, ChangeInv, NEW p \in Starters, RefreshSearch(p)
  PROVE  ChangeInv' /\ Changed
  <1> DEFINE e == EnsureRecordsFts(draft)
  <1>1. starting[p][1] = "search" /\ draft' = e /\ UNCHANGED <<db, era>>
    BY DEF RefreshSearch, At, Execute
  <1>2. PICK s : starting' = [starting EXCEPT ![p] = s] /\ s[1] = "columns"
    BY <<"columns">>[1] = "columns" DEF RefreshSearch, Go
  <1>3. e.shape = draft.shape
    BY SearchMade
  <1> HIDE DEF e
  <1>4. SameShapes(draft, draft') /\ AllScoped(db)
    BY <1>1, <1>3 DEF SameShapes, ChangeInv
  <1>5. \A j \in 1..3 : draft'.shape[TableAt(j)] # db.shape[TableAt(j)] => db.shape[TableAt(j)] = "v2"
    BY <1>1, <1>3 DEF ChangeInv
  <1> QED
    BY <1>1, <1>2, <1>4, <1>5, NothingCommitted DEF RebuildStages

(* While a process that does not rebuild has the lock, or nobody, nobody rebuilds. *)
LEMMA NotRebuilding ==
  ASSUME UpgradeInv, ChangeInv, NEW p \in Starters, locker \in {p, Nobody},
         starting[p][1] \notin RebuildStages
  PROVE  SameShapes(db, draft)
  <1>1. \A q \in Starters : starting[q][1] \notin RebuildStages
    BY UpgradeAssumption DEF UpgradeInv, HoldersLock, HeldStages, RebuildStages
  <1> QED
    BY <1>1 DEF ChangeInv

LEMMA ColumnChanges ==
  ASSUME UpgradeInv, WholeInv, ChangeInv, NEW p \in Starters, NEW c, AddColumn(p, c)
  PROVE  ChangeInv' /\ Changed
  <1> DEFINE t == c[1]
             x == c[2]
             e == [draft EXCEPT !.extra[t] = @ \union {x}]
  <1>1. starting[p][1] = "add" /\ locker \in {p, Nobody} /\ era' = era
    BY DEF AddColumn, Doing, At
  <1>2. PICK s : starting' = [starting EXCEPT ![p] = s] /\ s[1] = "columns"
    BY <<"columns">>[1] = "columns" DEF AddColumn, Go
  <1>3. /\ DOMAIN draft = Parts /\ WellFormed(draft) /\ (locker = Nobody => draft = db)
    BY DEF UpgradeInv, IsDatabase, WholeInv
  <1>4. draft' = e /\ (locker = p => db' = db) /\ (locker # p => db' = e)
    BY <1>1, <1>3 DEF AddColumn, Execute
  <1>5. e = [draft EXCEPT !.extra[t] = @ \union {x}]
    OBVIOUS
  <1> HIDE DEF t, x, e
  <1>6. e.search = draft.search /\ e.shape = draft.shape
    BY <1>3, <1>5, ColumnAlters
  <1>7. SameShapes(db, draft)
    BY <1>1, NotRebuilding DEF RebuildStages
  <1>8. CASE locker = p
    <2>1. SameShapes(db, draft')
      BY <1>4, <1>6, <1>7 DEF SameShapes
    <2>2. \A j \in 1..3 : draft'.shape[TableAt(j)] # db.shape[TableAt(j)] => db.shape[TableAt(j)] = "v2"
      BY <2>1 DEF SameShapes
    <2>3. draft'.search.current => db.search.current \/ AllScoped(db)
      BY <1>4, <1>6 DEF ChangeInv
    <2> QED
      BY <1>1, <1>2, <1>4, <1>8, <2>1, <2>2, <2>3, NothingCommitted
  <1>9. CASE locker # p
    <2>1. draft = db /\ db' = e
      BY <1>1, <1>3, <1>4, <1>9
    <2>2. Present(db) /\ \A i \in 1..3 : e.shape[TableAt(i)] = db.shape[TableAt(i)]
      BY <1>1, <1>6, <2>1 DEF WholeInv, PastCreate
    <2>3. \A i \in 1..3 : e.shape[TableAt(i)] # "absent"
      BY <2>2, TablesInOrder DEF Present
    <2>4. AllScoped(db) \/ era = "fresh" => AllScoped(e)
      BY <2>2, <2>3 DEF AllScoped, ChangeInv
    <2>5. ChangeInv'
      BY <1>1, <1>2, <1>4, <2>1, <2>3, <2>4, Committed
    <2>6. Changed
      BY <1>6, <2>1, <2>2 DEF Changed, SameShapes
    <2> QED
      BY <2>5, <2>6
  <1> QED
    BY <1>8, <1>9

LEMMA IndexesChange ==
  ASSUME UpgradeInv, WholeInv, ChangeInv, NEW p \in Starters, EnsureSecondaryIndexes(p)
  PROVE  ChangeInv' /\ Changed
  <1>1. /\ starting[p][1] = "indexes" /\ locker \in {p, Nobody} /\ era' = era
        /\ draft' = draft /\ db' = draft
    BY DEF EnsureSecondaryIndexes, At
  <1>2. PICK s : starting' = [starting EXCEPT ![p] = s] /\ s[1] = "validate"
    BY <<"validate">>[1] = "validate" DEF EnsureSecondaryIndexes, Go
  <1>3. SameShapes(db, draft)
    BY <1>1, NotRebuilding DEF RebuildStages
  <1>4. \A i \in 1..3 : draft.shape[TableAt(i)] # "absent"
    BY <1>1, <1>3, TablesInOrder DEF SameShapes, WholeInv, PastCreate, Present
  <1>5. AllScoped(db) \/ era = "fresh" => AllScoped(draft)
    BY <1>3, <1>4 DEF AllScoped, SameShapes, ChangeInv
  <1>6. ChangeInv'
    BY <1>1, <1>2, <1>4, <1>5, Committed
  <1>7. Changed
    <2>1. (db.search.current => draft.search.current)
          /\ (draft.search.current => db.search.current \/ AllScoped(db))
      BY DEF WholeInv, NotBehind, ChangeInv
    <2> QED
      BY <1>1, <1>3, <1>5, <2>1 DEF Changed
  <1> QED
    BY <1>6, <1>7

LEMMA ChangeNext ==
  UpgradeInv /\ WholeInv /\ ChangeInv /\ [UpgradeNext]_upgradeVars => ChangeInv' /\ Changed
  <1> SUFFICES ASSUME UpgradeInv, WholeInv, ChangeInv, [UpgradeNext]_upgradeVars
               PROVE  ChangeInv' /\ Changed
    OBVIOUS
  <1>1. ASSUME NEW p \in Starters, Start(p) PROVE ChangeInv' /\ Changed
    <2>1. PICK s : starting' = [starting EXCEPT ![p] = s] /\ s[1] = "create"
      BY <1>1, <<"create", 1>>[1] = "create" DEF Start, GoWith
    <2> QED
      BY <1>1, <2>1, OnlyLooked DEF Start, RebuildStages
  <1>2. ASSUME NEW p \in Starters, (\E n \in 1..4 : CreateTable(p, n)) \/ CreateSearch(p)
        PROVE  ChangeInv' /\ Changed
    BY <1>2, CreateChanges
  <1>3. ASSUME NEW p \in Starters, MigrateScopeSchema(p) PROVE ChangeInv' /\ Changed
    BY <1>3, DecideChanges
  <1>4. ASSUME NEW p \in Starters, BeginUpgrade(p) PROVE ChangeInv' /\ Changed
    BY <1>4, BeginChanges
  <1>5. ASSUME NEW p \in Starters, NEW i \in 1..3, SkipTable(p, i) PROVE ChangeInv' /\ Changed
    <2>1. PICK s : starting' = [starting EXCEPT ![p] = s] /\ s[1] \in {"rename", "searchAndCommit"}
      BY <1>5, NextRebuilds DEF SkipTable
    <2> QED
      BY <1>5, <2>1, OnlyLooked DEF SkipTable, RebuildStages
  <1>6. ASSUME NEW p \in Starters, NEW i \in 1..3, RefuseTable(p, i) PROVE ChangeInv' /\ Changed
    BY <1>6, AbortTakesBack DEF RefuseTable
  <1>7. ASSUME NEW p \in Starters, NEW i \in 1..3, RenameTable(p, i) PROVE ChangeInv' /\ Changed
    BY <1>7, RenameChanges
  <1>8. ASSUME NEW p \in Starters, NEW i \in 1..3, CreateAndCopy(p, i) PROVE ChangeInv' /\ Changed
    BY <1>8, CopyChanges
  <1>9. ASSUME NEW p \in Starters, NEW i \in 1..3, DropAside(p, i) PROVE ChangeInv' /\ Changed
    BY <1>9, DropChanges
  <1>10. ASSUME NEW p \in Starters, RebuildSearch(p) PROVE ChangeInv' /\ Changed
    BY <1>10, RebuildChanges
  <1>11. ASSUME NEW p \in Starters, RefreshSearch(p) PROVE ChangeInv' /\ Changed
    BY <1>11, RefreshChanges
  <1>12. ASSUME NEW p \in Starters, FindMissingColumn(p) PROVE ChangeInv' /\ Changed
    <2>1. PICK s : starting' = [starting EXCEPT ![p] = s] /\ s[1] \in {"indexes", "add"}
      <3>1. CASE Go(p, "indexes")
        BY <3>1, <<"indexes">>[1] = "indexes" DEF Go
      <3>2. ASSUME NEW c, GoWith(p, "add", c)
            PROVE \E s : starting' = [starting EXCEPT ![p] = s] /\ s[1] \in {"indexes", "add"}
        BY <3>2, <<"add", c>>[1] = "add" DEF GoWith
      <3> QED
        BY <1>12, <3>1, <3>2 DEF FindMissingColumn
    <2> QED
      BY <1>12, <2>1, OnlyLooked DEF FindMissingColumn, At, RebuildStages
  <1>13. ASSUME NEW p \in Starters, NEW c, AddColumn(p, c) PROVE ChangeInv' /\ Changed
    BY <1>13, ColumnChanges
  <1>14. ASSUME NEW p \in Starters, NEW c, DuplicateColumn(p, c) PROVE ChangeInv' /\ Changed
    BY <1>14, AbortTakesBack DEF DuplicateColumn
  <1>15. ASSUME NEW p \in Starters, EnsureSecondaryIndexes(p) PROVE ChangeInv' /\ Changed
    BY <1>15, IndexesChange
  <1>16. ASSUME NEW p \in Starters, ValidateSchema(p) PROVE ChangeInv' /\ Changed
    <2>1. PICK s : starting' = [starting EXCEPT ![p] = s] /\ s[1] \in {"ready", "failed"}
      BY <1>16, GoesTo, Zenon DEF ValidateSchema, SchemaValid
    <2> QED
      BY <1>16, <2>1, OnlyLooked DEF ValidateSchema, At, RebuildStages
  <1>17. ASSUME NEW p \in Starters, LockedOut(p) PROVE ChangeInv' /\ Changed
    BY <1>17, AbortTakesBack DEF LockedOut
  <1>18. ASSUME NEW p \in Starters, CrashUpgrade(p) PROVE ChangeInv' /\ Changed
    <2>1. PICK s : starting' = [starting EXCEPT ![p] = s] /\ s[1] = "off"
      BY <1>18, <<"off">>[1] = "off" DEF CrashUpgrade, Go
    <2> QED
      BY <1>18, <2>1, TakenBack DEF CrashUpgrade
  <1>19. CASE UNCHANGED upgradeVars
    <2>1. UNCHANGED <<db, draft, starting, era>>
      BY <1>19 DEF upgradeVars
    <2>2. ChangeInv'
      BY <2>1 DEF ChangeInv, SameShapes, AllScoped
    <2>3. Changed
      BY <2>1 DEF Changed, SameShapes
    <2> QED
      BY <2>2, <2>3
  <1> QED
    BY <1>1, <1>2, <1>3, <1>4, <1>5, <1>6, <1>7, <1>8, <1>9, <1>10, <1>11, <1>12, <1>13,
       <1>14, <1>15, <1>16, <1>17, <1>18, <1>19 DEF UpgradeNext

LEMMA EraStays == [UpgradeNext]_upgradeVars => era' = era
  <1> SUFFICES ASSUME [UpgradeNext]_upgradeVars PROVE era' = era
    OBVIOUS
  <1>1. \A p \in Starters : Start(p) \/ CreateSearch(p) \/ MigrateScopeSchema(p) => era' = era
    BY DEF Start, CreateSearch, Script, MigrateScopeSchema
  <1>8. \A p \in Starters, n \in 1..4 : CreateTable(p, n) => era' = era
    BY DEF CreateTable, Script
  <1>2. \A p \in Starters : BeginUpgrade(p) \/ RebuildSearch(p) \/ RefreshSearch(p) => era' = era
    BY DEF BeginUpgrade, RebuildSearch, RefreshSearch
  <1>3. \A p \in Starters, i \in 1..3 : SkipTable(p, i) \/ RefuseTable(p, i) => era' = era
    BY DEF SkipTable, RefuseTable, Abort
  <1>4. \A p \in Starters, i \in 1..3 :
          RenameTable(p, i) \/ CreateAndCopy(p, i) \/ DropAside(p, i) => era' = era
    BY DEF RenameTable, CreateAndCopy, DropAside
  <1>5. \A p \in Starters : \A c : AddColumn(p, c) \/ DuplicateColumn(p, c) => era' = era
    BY DEF AddColumn, DuplicateColumn, Abort
  <1>6. \A p \in Starters : FindMissingColumn(p) \/ EnsureSecondaryIndexes(p) => era' = era
    BY DEF FindMissingColumn, EnsureSecondaryIndexes
  <1>7. \A p \in Starters : ValidateSchema(p) \/ LockedOut(p) \/ CrashUpgrade(p) => era' = era
    BY DEF ValidateSchema, LockedOut, CrashUpgrade, Abort
  <1> QED
    BY <1>1, <1>2, <1>3, <1>4, <1>5, <1>6, <1>7, <1>8 DEF UpgradeNext, upgradeVars

(* What a reader of the file d sees of its search table. *)
SearchOf(d) == IF d.search.current THEN "current" ELSE "late"

(* The rows are those of the era, and the search table has the records'. *)
LEMMA RowsRead ==
  ASSUME UpgradeInv, WholeInv
  PROVE  /\ db.rows = [t \in RebuiltTables |-> RowsOf(era)]
         /\ db.search.rows = db.rows["records"]
  <1>1. \A t \in RebuiltTables : db.rows[t] = RowsOf(era)
    BY DEF UpgradeInv, UpgradeKeepsRows, WholeInv, SearchRowsInv, RowsOf
  <1>2. db.rows = [t \in RebuiltTables |-> db.rows[t]]
    BY DEF UpgradeInv, IsDatabase
  <1>3. db.rows = [t \in RebuiltTables |-> RowsOf(era)]
    BY <1>1, <1>2
  <1>4. db.search.rows = RowsOf(era) /\ "records" \in RebuiltTables
    BY DEF WholeInv, SearchRowsInv, RebuiltTables
  <1> QED
    BY <1>1, <1>3, <1>4

LEMMA UpgradeRead ==
  UpgradeInv /\ WholeInv => /\ SearchState = SearchOf(db)
                            /\ db.rows = [t \in RebuiltTables |-> RowsOf(era)]
  BY RowsRead DEF SearchState, SearchOf

LEMMA UpgradeBegins == UpgradeInit => Upgrade!Init
  <1> SUFFICES ASSUME UpgradeInit PROVE Upgrade!Init
    OBVIOUS
  <1>1. db = Database(era) /\ era \in Eras
    BY DEF UpgradeInit
  <1>2. SearchState = SearchOf(db) /\ db.rows = [t \in RebuiltTables |-> RowsOf(era)]
    BY UpgradeInitial, WholeInitial, UpgradeRead
  <1>3. \A t \in RebuiltTables : db.shape[t] = IF era = "fresh" THEN "absent" ELSE era
    BY <1>1 DEF Database, Tables, RebuiltTables
  <1>4. ShapeState = [t \in RebuiltTables |-> IF era = "fresh" THEN "absent" ELSE era]
    BY <1>3 DEF ShapeState
  <1>5. SearchState = "late"
    BY <1>1, <1>2 DEF SearchOf, Database
  <1> QED
    BY <1>1, <1>2, <1>4, <1>5 DEF Upgrade!Init, RowsOf

(* The tables that the keys of one of them name are made before it. *)
LEMMA RefersBack ==
  \A i \in 1..3 : \A u \in ForeignKeys(TableAt(i)) \ {TableAt(i)} :
    \E j \in 1..3 : j < i /\ TableAt(j) = u
  <1> SUFFICES ASSUME NEW i \in 1..3, NEW u \in ForeignKeys(TableAt(i)) \ {TableAt(i)}
               PROVE  \E j \in 1..3 : j < i /\ TableAt(j) = u
    OBVIOUS
  <1>1. u \in Rebuilds[i].keys
    BY TableKeys
  <1>2. u \in RebuiltTables
    <2>1. \A k \in 1..3 : Rebuilds[k].keys \subseteq RebuiltTables
      <3>1. /\ Rebuilds[1].keys = {} /\ Rebuilds[2].keys = {"sessions", "records"}
            /\ Rebuilds[3].keys = {"sessions", "records"}
        BY DEF Rebuilds, SessionsRebuild, RecordsRebuild, VersionsRebuild
      <3>2. \A k \in 1..3 : k = 1 \/ k = 2 \/ k = 3
        OBVIOUS
      <3> QED
        BY <3>1, <3>2 DEF RebuiltTables
    <2> QED
      BY <1>1, <2>1
  <1>3. PICK j \in 1..3 : TableAt(j) = u
    BY <1>2, TablesInOrder
  <1>4. j # i /\ ~(i < j)
    BY <1>1, <1>3, TablesInOrder
  <1>5. j < i
    BY <1>4
  <1> QED
    BY <1>3, <1>5

(* What a step makes of the file is a step of the promise, or none. *)
LEMMA UpgradeStep ==
  ASSUME Changed, UNCHANGED era,
         SearchState = SearchOf(db), db.rows = [t \in RebuiltTables |-> RowsOf(era)],
         SearchState' = SearchOf(db'), db'.rows = [t \in RebuiltTables |-> RowsOf(era')]
  PROVE  [Upgrade!Next]_<<ShapeState, db.rows, SearchState>>
  <1>1. db'.rows = db.rows
    OBVIOUS
  <1>2. /\ ShapeState = [t \in RebuiltTables |-> db.shape[t]]
        /\ ShapeState' = [t \in RebuiltTables |-> db'.shape[t]]
    BY DEF ShapeState
  <1>3. CASE SameShapes(db, db') /\ (db'.search.current <=> db.search.current)
    <2>1. \A t \in RebuiltTables : db'.shape[t] = db.shape[t]
      BY <1>3, TablesInOrder DEF SameShapes
    <2>2. ShapeState' = ShapeState /\ SearchState' = SearchState
      BY <1>2, <1>3, <2>1 DEF SearchOf
    <2> QED
      BY <1>1, <2>2
  <1>4. ASSUME NEW i \in 1..3, OneMade(i) PROVE Upgrade!Next
    <2> DEFINE t == TableAt(i)
    <2>1. t \in RebuiltTables
      BY TablesInOrder
    <2>2. db.shape[t] = "absent" /\ db'.shape[t] = "scoped"
      BY <1>4 DEF OneMade
    <2>3. \A u \in RebuiltTables : u # t => db'.shape[u] = db.shape[u]
      BY <1>4, TablesInOrder DEF OneMade
    <2>4. \A u \in ForeignKeys(t) \ {t} : u \in RebuiltTables /\ db.shape[u] # "absent"
      BY <1>4, RefersBack, TablesInOrder DEF OneMade
    <2> HIDE DEF t
    <2>5. ShapeState[t] = "absent" /\ ShapeState' = [ShapeState EXCEPT ![t] = "scoped"]
      BY <1>2, <2>1, <2>2, <2>3
    <2>6. \A u \in [v \in RebuiltTables |-> ForeignKeys(v) \ {v}][t] : ShapeState[u] # "absent"
      BY <1>2, <2>1, <2>4
    <2>7. SearchState' = SearchState
      BY <1>4 DEF OneMade, SearchOf
    <2>8. Upgrade!Create(t)
      BY <1>1, <2>5, <2>6, <2>7 DEF Upgrade!Create
    <2> QED
      BY <2>1, <2>8 DEF Upgrade!Next
  <1>5. CASE AllScoped(db) /\ AllScoped(db') /\ db'.search.current
    <2>1. \A t \in RebuiltTables : db.shape[t] = "scoped" /\ db'.shape[t] = "scoped"
      BY <1>5, TablesInOrder DEF AllScoped
    <2>2. /\ \A t \in RebuiltTables : ShapeState[t] = "scoped"
          /\ ShapeState' = ShapeState /\ SearchState' = "current"
      BY <1>2, <1>5, <2>1 DEF SearchOf
    <2> QED
      BY <1>1, <2>2 DEF Upgrade!Next, Upgrade!Reindex, Upgrade!AllAre
  <1>6. CASE /\ \A j \in 1..3 : db.shape[TableAt(j)] = "v2"
             /\ AllScoped(db') /\ db'.search.current
    <2>1. \A t \in RebuiltTables : db.shape[t] = "v2" /\ db'.shape[t] = "scoped"
      BY <1>6, TablesInOrder DEF AllScoped
    <2>2. /\ \A t \in RebuiltTables : ShapeState[t] = "v2"
          /\ ShapeState' = [t \in RebuiltTables |-> "scoped"] /\ SearchState' = "current"
      BY <1>2, <1>6, <2>1 DEF SearchOf
    <2> QED
      BY <1>1, <2>2 DEF Upgrade!Next, Upgrade!Renew, Upgrade!AllAre
  <1> QED
    BY <1>3, <1>4, <1>5, <1>6 DEF Changed

(* UpgradeIsAtomic for every instance: however many processes open a store, and *)
(* wherever one of them fails or dies, the file that everybody else reads goes  *)
(* over from the old tables to the new ones in one step, with all rows and the  *)
(* search table that has them; in an empty file, where every statement of the   *)
(* script commits by itself, no table is there before those that its foreign    *)
(* keys name, nor the search table before the last of them                      *)
(* (ContextStore.initialize and _migrate_scope_schema, context/store.py).       *)
THEOREM UpgradesAtomic == UpgradeSpec => UpgradeIsAtomic
  <1> DEFINE Inv == UpgradeInv /\ WholeInv /\ ChangeInv
  <1>1. UpgradeInit => Inv
    BY UpgradeInitial, WholeInitial, ChangeInitial
  <1>2. Inv /\ [UpgradeNext]_upgradeVars => Inv'
    BY UpgradeInvNext, WholeNext, ChangeNext
  <1>3. Inv => /\ SearchState = SearchOf(db)
               /\ db.rows = [t \in RebuiltTables |-> RowsOf(era)]
    BY UpgradeRead
  <1>4. /\ Inv /\ Changed /\ era' = era
        /\ (/\ SearchState = SearchOf(db)
            /\ db.rows = [t \in RebuiltTables |-> RowsOf(era)])
        /\ (/\ SearchState = SearchOf(db)
            /\ db.rows = [t \in RebuiltTables |-> RowsOf(era)])'
        => [Upgrade!Next]_<<ShapeState, db.rows, SearchState>>
    BY UpgradeStep
  <1>5. Inv /\ [UpgradeNext]_upgradeVars => Changed /\ era' = era
    BY ChangeNext, EraStays
  <1> HIDE DEF Inv
  <1> QED
    BY <1>1, <1>2, <1>3, <1>4, <1>5, UpgradeBegins, PTL
    DEF UpgradeSpec, UpgradeIsAtomic, Upgrade!Spec

-----------------------------------------------------------------------------
(* Types *)

TypedDatabase(d) ==
  /\ DOMAIN d = Parts
  /\ d.shape \in [Tables -> Shapes]
  /\ d.rows \in [RebuiltTables -> SUBSET StoredRows]
  /\ d.aside \in [RebuiltTables -> SUBSET StoredRows]
  /\ d.extra \in [Tables -> SUBSET {"late", "confidence"}]

UpgradeTypeInv ==
  /\ era \in Eras
  /\ locker \in Starters \union {Nobody}
  /\ upgradeCrashes \in 0..MaxUpgradeCrashes
  /\ TypedDatabase(db) /\ TypedDatabase(draft)

LEMMA TypedColumns == \A t \in Tables : NewColumns(t) \subseteq {"late", "confidence"}
  <1> SUFFICES ASSUME NEW t \in Tables PROVE NewColumns(t) \subseteq {"late", "confidence"}
    OBVIOUS
  <1>1. \A i \in 1..3 : Rebuilds[i].columns \subseteq {"late", "confidence"}
    <2>1. /\ Rebuilds[1].columns = {} /\ Rebuilds[2].columns = {"late"}
          /\ Rebuilds[3].columns = {"late"}
      BY DEF Rebuilds, SessionsRebuild, RecordsRebuild, VersionsRebuild
    <2>2. \A i \in 1..3 : i = 1 \/ i = 2 \/ i = 3
      OBVIOUS
    <2> QED
      BY <2>1, <2>2
  <1>2. CASE t = "edges"
    BY <1>2 DEF NewColumns
  <1>3. CASE t # "edges"
    <2>1. \E i \in 1..3 : Rebuilds[i].table = t
      BY <1>3, TablesInOrder DEF TableAt, Tables
    <2> DEFINE i == CHOOSE i \in 1..3 : Rebuilds[i].table = t
    <2>2. i \in 1..3
      BY <2>1
    <2>3. NewColumns(t) = Rebuilds[i].columns
      BY <1>3 DEF NewColumns
    <2> HIDE DEF i
    <2> QED
      BY <1>1, <2>2, <2>3
  <1> QED
    BY <1>2, <1>3

LEMMA TypedCreate ==
  ASSUME NEW d, TypedDatabase(d), NEW t \in Tables PROVE TypedDatabase(CreateMissing(d, t))
  <1> DEFINE columns == NewColumns(t)
             e == [d EXCEPT !.shape[t] = "scoped", !.extra[t] = columns]
  <1>1. columns \in SUBSET {"late", "confidence"}
    BY TypedColumns
  <1> HIDE DEF columns
  <1>2. /\ DOMAIN e = Parts /\ e.shape = [d.shape EXCEPT ![t] = "scoped"]
        /\ e.extra = [d.extra EXCEPT ![t] = columns] /\ e.rows = d.rows /\ e.aside = d.aside
    BY DEF TypedDatabase, Parts
  <1>3. e.shape \in [Tables -> Shapes]
    BY <1>2 DEF TypedDatabase, Shapes
  <1>4. e.extra \in [Tables -> SUBSET {"late", "confidence"}]
    <2> DEFINE known == {"late", "confidence"}
    <2>1. d.extra \in [Tables -> SUBSET known] /\ columns \in SUBSET known
      BY <1>1 DEF TypedDatabase
    <2> HIDE DEF known
    <2>2. e.extra \in [Tables -> SUBSET known]
      BY <1>2, <2>1
    <2> QED
      BY <2>2 DEF known
  <1>5. TypedDatabase(e)
    BY <1>2, <1>3, <1>4 DEF TypedDatabase
  <1> QED
    BY <1>5 DEF CreateMissing, columns

LEMMA TypedSearchMade ==
  ASSUME NEW d, TypedDatabase(d) PROVE TypedDatabase(CreateMissingSearch(d))
  <1> DEFINE present == [current |-> TRUE, rows |-> d.search.rows]
             e == [d EXCEPT !.search = present]
  <1> HIDE DEF present
  <1>1. /\ DOMAIN e = Parts /\ e.shape = d.shape /\ e.extra = d.extra
        /\ e.rows = d.rows /\ e.aside = d.aside
    BY DEF TypedDatabase, Parts
  <1>2. TypedDatabase(e)
    BY <1>1 DEF TypedDatabase
  <1> QED
    BY <1>2 DEF CreateMissingSearch, present

LEMMA TypedSearch == ASSUME NEW d, TypedDatabase(d) PROVE TypedDatabase(EnsureRecordsFts(d))
  <1> DEFINE remade == [current |-> TRUE, rows |-> d.rows["records"]]
             e == [d EXCEPT !.search = remade]
  <1> HIDE DEF remade
  <1>1. /\ DOMAIN e = Parts /\ e.shape = d.shape /\ e.extra = d.extra
        /\ e.rows = d.rows /\ e.aside = d.aside
    BY DEF TypedDatabase, Parts
  <1>2. TypedDatabase(e)
    BY <1>1 DEF TypedDatabase
  <1> QED
    BY <1>2 DEF EnsureRecordsFts, remade

LEMMA TypedColumn ==
  ASSUME NEW d, TypedDatabase(d), NEW t, NEW x \in {"late", "confidence"}, NEW e,
         e = [d EXCEPT !.extra[t] = @ \union {x}]
  PROVE  TypedDatabase(e)
  <1>1. /\ DOMAIN e = Parts /\ e.shape = d.shape /\ e.extra = [d.extra EXCEPT ![t] = @ \union {x}]
        /\ e.rows = d.rows /\ e.aside = d.aside
    BY DEF TypedDatabase, Parts
  <1>2. e.extra \in [Tables -> SUBSET {"late", "confidence"}]
    <2> DEFINE columns == {"late", "confidence"}
    <2>1. d.extra \in [Tables -> SUBSET columns] /\ x \in columns
      BY DEF TypedDatabase
    <2> HIDE DEF columns
    <2>2. \A u \in Tables : e.extra[u] \in SUBSET columns
      BY <1>1, <2>1
    <2>3. e.extra = [u \in Tables |-> e.extra[u]]
      BY <1>1, <2>1
    <2>4. e.extra \in [Tables -> SUBSET columns]
      BY <2>2, <2>3
    <2> QED
      BY <2>4 DEF columns
  <1> QED
    BY <1>1, <1>2 DEF TypedDatabase

LEMMA TypedRebuild ==
  ASSUME TypedDatabase(draft), NEW p \in Starters, NEW i \in 1..3,
         RenameTable(p, i) \/ CreateAndCopy(p, i) \/ DropAside(p, i)
  PROVE  TypedDatabase(draft)' /\ UNCHANGED <<db, locker, era, upgradeCrashes>>
  <1> DEFINE t == TableAt(i)
  <1>1. t \in RebuiltTables
    BY TablesInOrder
  <1>2. CASE RenameTable(p, i)
    <2> DEFINE keys == [u \in Tables |-> IF t \in draft.keys[u]
                                         THEN (draft.keys[u] \ {t}) \union {Aside(t)}
                                         ELSE draft.keys[u]]
               e == [draft EXCEPT !.shape[t] = "absent", !.aside[t] = draft.rows[t],
                                  !.rows[t] = {}, !.keys = keys]
    <2>1. draft' = e
      BY <1>2 DEF RenameTable, Execute, TableAt
    <2> HIDE DEF keys, t
    <2>2. /\ DOMAIN e = Parts /\ e.shape = [draft.shape EXCEPT ![t] = "absent"]
          /\ e.rows = [draft.rows EXCEPT ![t] = {}]
          /\ e.aside = [draft.aside EXCEPT ![t] = draft.rows[t]] /\ e.extra = draft.extra
      BY DEF TypedDatabase, Parts
    <2> HIDE DEF e
    <2>3. TypedDatabase(e)
      BY ZenonT(30), <1>1, <2>2 DEF TypedDatabase, Shapes
    <2> QED
      BY <1>2, <2>1, <2>3 DEF RenameTable, Execute, TypedDatabase
  <1>3. CASE CreateAndCopy(p, i)
    <2> DEFINE keys == Rebuilds[i].keys
               columns == Rebuilds[i].columns
               e == [draft EXCEPT !.shape[t] = "scoped", !.rows[t] = draft.aside[t],
                                  !.keys[t] = keys, !.extra[t] = columns]
    <2>1. draft' = e
      BY <1>3 DEF CreateAndCopy, Execute, TableAt
    <2>4. columns \subseteq {"late", "confidence"}
      BY DEF Rebuilds, SessionsRebuild, RecordsRebuild, VersionsRebuild
    <2> HIDE DEF keys, columns, t
    <2>2. /\ DOMAIN e = Parts /\ e.shape = [draft.shape EXCEPT ![t] = "scoped"]
          /\ e.rows = [draft.rows EXCEPT ![t] = draft.aside[t]] /\ e.aside = draft.aside
          /\ e.extra = [draft.extra EXCEPT ![t] = columns]
      BY DEF TypedDatabase, Parts
    <2> HIDE DEF e
    <2>3. TypedDatabase(e)
      BY ZenonT(30), <1>1, <2>2, <2>4 DEF TypedDatabase, Shapes
    <2> QED
      BY <1>3, <2>1, <2>3 DEF CreateAndCopy, Execute, TypedDatabase
  <1>4. CASE DropAside(p, i)
    <2>1. draft' = [draft EXCEPT !.aside[t] = {}]
      BY <1>4 DEF DropAside, Execute, TableAt
    <2> HIDE DEF t
    <2>2. /\ DOMAIN draft' = Parts /\ draft'.shape = draft.shape /\ draft'.rows = draft.rows
          /\ draft'.aside = [draft.aside EXCEPT ![t] = {}] /\ draft'.extra = draft.extra
      BY <2>1 DEF TypedDatabase, Parts
    <2>3. t \in RebuiltTables
      BY <1>1 DEF t
    <2>4. draft'.aside \in [RebuiltTables -> SUBSET StoredRows]
      BY <2>2, <2>3 DEF TypedDatabase
    <2>5. TypedDatabase(draft)'
      BY <2>2, <2>4 DEF TypedDatabase
    <2> QED
      BY <1>4, <2>5 DEF DropAside, Execute
  <1> QED
    BY <1>2, <1>3, <1>4

LEMMA UpgradeTypeStart == UpgradeInit => UpgradeTypeInv
  <1> SUFFICES ASSUME UpgradeInit PROVE UpgradeTypeInv
    OBVIOUS
  <1>1. era \in KnownEras /\ db = Database(era)
    BY UpgradeAssumption DEF UpgradeInit
  <1>2. TypedDatabase(db)
    BY <1>1 DEF TypedDatabase, Database, Parts, Shapes, KnownEras
  <1> QED
    BY <1>2, UpgradeAssumption DEF UpgradeInit, UpgradeTypeInv

LEMMA UpgradeTypeStep == UpgradeTypeInv /\ [UpgradeNext]_upgradeVars => UpgradeTypeInv'
  <1> SUFFICES ASSUME UpgradeTypeInv, [UpgradeNext]_upgradeVars PROVE UpgradeTypeInv'
    OBVIOUS
  <1> USE DEF UpgradeTypeInv
  <1>t. ASSUME NEW d, NEW e, TypedDatabase(d), TypedDatabase(e), db' = d, draft' = e,
               era' = era, locker' \in Starters \union {Nobody},
               upgradeCrashes' \in 0..MaxUpgradeCrashes
        PROVE  UpgradeTypeInv'
    BY <1>t DEF TypedDatabase
  <1>a. ASSUME NEW p \in Starters, Abort(p) PROVE UpgradeTypeInv'
    <2>1. draft' = db \/ draft' = draft
      BY <1>a DEF Abort
    <2> QED
      BY <1>a, <1>t, <2>1 DEF Abort
  <1>1. ASSUME NEW p \in Starters,
               \/ Start(p) \/ MigrateScopeSchema(p) \/ FindMissingColumn(p) \/ ValidateSchema(p)
               \/ \E i \in 1..3 : SkipTable(p, i)
        PROVE  UpgradeTypeInv'
    BY <1>1, <1>t DEF Start, MigrateScopeSchema, FindMissingColumn, ValidateSchema, SkipTable
  <1>2. ASSUME NEW p \in Starters, (\E n \in 1..4 : CreateTable(p, n)) \/ CreateSearch(p)
        PROVE  UpgradeTypeInv'
    <2>1. PICK e : TypedDatabase(e) /\ Script(e)
      <3>1. CASE CreateSearch(p)
        BY <3>1, TypedSearchMade DEF CreateSearch
      <3>2. ASSUME NEW n \in 1..4, CreateTable(p, n) PROVE \E e : TypedDatabase(e) /\ Script(e)
        <4>1. Creates[n] \in Tables
          BY CreatesAll
        <4> QED
          BY <3>2, <4>1, TypedCreate DEF CreateTable
      <3> QED
        BY <1>2, <3>1, <3>2
    <2>2. db' = e /\ (draft' = e \/ draft' = draft) /\ UNCHANGED <<locker, era, upgradeCrashes>>
      BY <2>1 DEF Script
    <2> QED
      BY <1>t, <2>1, <2>2
  <1>3. ASSUME NEW p \in Starters, BeginUpgrade(p) PROVE UpgradeTypeInv'
    BY <1>3, <1>t DEF BeginUpgrade
  <1>4. ASSUME NEW p \in Starters, NEW i \in 1..3,
               RenameTable(p, i) \/ CreateAndCopy(p, i) \/ DropAside(p, i)
        PROVE  UpgradeTypeInv'
    BY <1>4, TypedRebuild DEF TypedDatabase
  <1>5. ASSUME NEW p \in Starters, RebuildSearch(p) \/ RefreshSearch(p) PROVE UpgradeTypeInv'
    <2>1. TypedDatabase(EnsureRecordsFts(draft))
      BY TypedSearch
    <2>2. draft' = EnsureRecordsFts(draft) /\ (db' = db \/ db' = EnsureRecordsFts(draft))
      BY <1>5 DEF RebuildSearch, RefreshSearch, Execute
    <2> QED
      BY <1>5, <1>t, <2>1, <2>2 DEF RebuildSearch, RefreshSearch
  <1>6. ASSUME NEW p \in Starters, NEW c \in Tables \X {"late", "confidence"}, AddColumn(p, c)
        PROVE  UpgradeTypeInv'
    <2> DEFINE t == c[1]
               x == c[2]
               d == [db EXCEPT !.extra[t] = @ \union {x}]
               e == [draft EXCEPT !.extra[t] = @ \union {x}]
    <2>1. \/ db' = db /\ draft' = e
          \/ db' = d /\ draft' = d
      BY <1>6 DEF AddColumn, Execute
    <2>2. x \in {"late", "confidence"}
      OBVIOUS
    <2>3. d = [db EXCEPT !.extra[t] = @ \union {x}] /\ e = [draft EXCEPT !.extra[t] = @ \union {x}]
      OBVIOUS
    <2> HIDE DEF t, x, d, e
    <2>4. TypedDatabase(d) /\ TypedDatabase(e)
      BY <2>2, <2>3, TypedColumn
    <2>5. UNCHANGED <<locker, era, upgradeCrashes>>
      BY <1>6 DEF AddColumn
    <2> QED
      BY <1>t, <2>1, <2>4, <2>5
  <1>7. ASSUME NEW p \in Starters, EnsureSecondaryIndexes(p) PROVE UpgradeTypeInv'
    BY <1>7, <1>t DEF EnsureSecondaryIndexes
  <1>8. ASSUME NEW p \in Starters, NEW c, DuplicateColumn(p, c) PROVE UpgradeTypeInv'
    BY <1>8, <1>a DEF DuplicateColumn
  <1>9. ASSUME NEW p \in Starters, NEW i \in 1..3, RefuseTable(p, i) PROVE UpgradeTypeInv'
    BY <1>9, <1>a DEF RefuseTable
  <1>10. ASSUME NEW p \in Starters, LockedOut(p) PROVE UpgradeTypeInv'
    BY <1>10, <1>a DEF LockedOut
  <1>11. ASSUME NEW p \in Starters, CrashUpgrade(p) PROVE UpgradeTypeInv'
    <2>1. draft' = db \/ draft' = draft
      BY <1>11 DEF CrashUpgrade
    <2>2. upgradeCrashes' \in 0..MaxUpgradeCrashes
      BY <1>11, UpgradeAssumption DEF CrashUpgrade
    <2> QED
      BY <1>11, <1>t, <2>1, <2>2 DEF CrashUpgrade
  <1>12. CASE UNCHANGED upgradeVars
    BY <1>12, <1>t DEF upgradeVars
  <1> QED
    BY <1>1, <1>2, <1>3, <1>4, <1>5, <1>6, <1>7, <1>8, <1>9, <1>10, <1>11, <1>12 DEF UpgradeNext

(* Types hold for any processes, rows and crashes. *)
THEOREM UpgradeType == UpgradeSpec => []UpgradeTypeOK
  <1>1. UpgradeTypeInv => UpgradeTypeOK
    BY DEF UpgradeTypeInv, UpgradeTypeOK, TypedDatabase, Shapes
  <1> QED
    BY <1>1, UpgradeTypeStart, UpgradeTypeStep, PTL DEF UpgradeSpec
=============================================================================
