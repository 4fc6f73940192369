---------------------------- MODULE SchemaUpgrade ----------------------------
(* Opening the context store: ContextStore.initialize creates what is        *)
(* missing, rebuilds the tables of a database older than scopes, adds late   *)
(* columns and validates.  Several processes (daemon, commands, MCP server)  *)
(* may open the same file, and any of them may die on the way.               *)
EXTENDS Naturals, FiniteSets

CONSTANTS
  Starters,         \* processes that open the store
  StoredRows,       \* what an existing database holds, in each rebuilt table
  Eras,             \* the databases to start from, a subset of KnownEras
  MaxUpgradeCrashes \* bound: how often a starter dies half way

KnownEras == {"fresh", "v1", "v2", "scoped"}

Nobody == "nobody"

ASSUME UpgradeAssumption ==
  Eras \subseteq KnownEras /\ MaxUpgradeCrashes \in Nat /\ Nobody \notin Starters

VARIABLES
  db,        \* the committed file
  draft,     \* what the open write transaction has made of it
  locker,    \* who has that transaction open
  starting,  \* how far each starter is in initialize()
  era,       \* the database at the beginning
  upgradeCrashes

upgradeVars == <<db, draft, locker, starting, era, upgradeCrashes>>

SessionsRebuild == [table |-> "sessions", keys |-> {}, columns |-> {}]
RecordsRebuild ==
  [table |-> "records", keys |-> {"sessions", "records"}, columns |-> {"late"}]
VersionsRebuild ==
  [table |-> "versions", keys |-> {"sessions", "records"}, columns |-> {"late"}]
Rebuilds == <<SessionsRebuild, RecordsRebuild, VersionsRebuild>>

RebuiltTables == {"sessions", "records", "versions"}
Tables == RebuiltTables \union {"edges"}
\* The name a table has while it is rebuilt.
Aside(t) == [sessions |-> "old_sessions", records |-> "old_records", versions |-> "old_versions"][t]

\* The columns that ALTER TABLE adds to a table which does not have them.
LateColumns(t) ==
  CASE t = "records" -> {"late", "confidence"}
    [] t = "versions" -> {"late"}
    [] OTHER -> {}

ForeignKeys(t) == IF t = "edges" THEN {"sessions"}
           ELSE Rebuilds[CHOOSE i \in 1..3 : Rebuilds[i].table = t].keys
NewColumns(t) == IF t = "edges" THEN {}
                 ELSE Rebuilds[CHOOSE i \in 1..3 : Rebuilds[i].table = t].columns

\* A database of an era.  "v1" lacks columns that the rebuild copies.
Database(e) ==
  LET old == e \in {"v1", "v2"} IN
  [shape  |-> [t \in Tables |-> IF e = "fresh" \/ (old /\ t = "edges") THEN "absent" ELSE e],
   rows   |-> [t \in RebuiltTables |-> IF e = "fresh" THEN {} ELSE StoredRows],
   aside  |-> [t \in RebuiltTables |-> {}],
   keys   |-> [t \in Tables |-> ForeignKeys(t)],
   extra  |-> [t \in Tables |-> {}],
   search |-> [current |-> FALSE, rows |-> IF e = "fresh" THEN {} ELSE StoredRows]]

\* The order in which the script makes the tables; the search table comes last.
Creates == <<"sessions", "records", "versions", "edges">>

\* CREATE TABLE IF NOT EXISTS: a missing table is made as it should be.
CreateMissing(d, t) ==
  IF d.shape[t] = "absent"
  THEN [d EXCEPT !.shape[t] = "scoped", !.extra[t] = NewColumns(t)]
  ELSE d

\* The search table is missing only in a file that was empty; the one of an
\* older database stays as it is.
CreateMissingSearch(d) ==
  IF era = "fresh" THEN [d EXCEPT !.search = [current |-> TRUE, rows |-> d.search.rows]] ELSE d

NeedsScopeRebuild(d, t) == d.shape[t] \in {"v1", "v2"}

MissingColumns(d) ==
  {c \in Tables \X {"late", "confidence"} : c[2] \in LateColumns(c[1]) \ d.extra[c[1]]}

At(p, stage) == starting[p][1] = stage
Go(p, stage) == starting' = [starting EXCEPT ![p] = <<stage>>]
GoWith(p, stage, x) == starting' = [starting EXCEPT ![p] = <<stage, x>>]
Doing(p, stage, x) == At(p, stage) /\ starting[p][2] = x
Unlocked == locker = Nobody

-----------------------------------------------------------------------------
Start(p) ==
  /\ starting[p][1] \in {"off", "failed", "ready"}
  /\ GoWith(p, "create", 1)
  /\ UNCHANGED <<db, draft, locker, era, upgradeCrashes>>

\* A statement of the script commits by itself, and it waits for nobody when
\* what it makes is there.
Script(d) ==
  /\ Unlocked \/ d = db
  /\ db' = d
  /\ draft' = IF Unlocked THEN d ELSE draft
  /\ UNCHANGED <<locker, era, upgradeCrashes>>

CreateTable(p, n) ==
  /\ Doing(p, "create", n)
  /\ Script(CreateMissing(db, Creates[n]))
  /\ GoWith(p, "create", n + 1)

CreateSearch(p) ==
  /\ Doing(p, "create", 5)
  /\ Script(CreateMissingSearch(db))
  /\ Go(p, "decide")

\* The first look is taken outside any transaction.
MigrateScopeSchema(p) ==
  /\ At(p, "decide")
  /\ Go(p, IF \E t \in RebuiltTables : NeedsScopeRebuild(db, t) THEN "rebuild" ELSE "refresh")
  /\ UNCHANGED <<db, draft, locker, era, upgradeCrashes>>

\* Refreshing the scopes writes, so the transaction takes the lock here.
BeginUpgrade(p) ==
  /\ starting[p][1] \in {"rebuild", "refresh"}
  /\ Unlocked
  /\ locker' = p
  /\ draft' = db
  /\ IF At(p, "rebuild") THEN GoWith(p, "rename", 1) ELSE Go(p, "search")
  /\ UNCHANGED <<db, era, upgradeCrashes>>

\* A statement of the open transaction.
Execute(p, d) == draft' = d /\ UNCHANGED db

Abort(p) ==
  /\ Go(p, "failed")
  /\ locker' = IF locker = p THEN Nobody ELSE locker
  /\ draft' = IF locker = p THEN db ELSE draft
  /\ UNCHANGED <<db, era, upgradeCrashes>>

NextTable(p, i) == IF i = 3 THEN Go(p, "searchAndCommit") ELSE GoWith(p, "rename", i + 1)

SkipTable(p, i) ==
  /\ Doing(p, "rename", i)
  /\ ~NeedsScopeRebuild(draft, Rebuilds[i].table)
  /\ NextTable(p, i)
  /\ UNCHANGED <<db, draft, locker, era, upgradeCrashes>>

RefuseTable(p, i) ==
  /\ Doing(p, "rename", i)
  /\ draft.shape[Rebuilds[i].table] = "v1"
  /\ Abort(p)

\* RENAME makes every foreign key that named the table name the moved one:
\* the key of "edges", which is not rebuilt, keeps naming the dropped table.
RenameTable(p, i) ==
  LET t == Rebuilds[i].table IN
  /\ Doing(p, "rename", i)
  /\ draft.shape[t] = "v2"
  /\ Execute(p, [draft EXCEPT
       !.shape[t] = "absent", !.aside[t] = draft.rows[t], !.rows[t] = {},
       !.keys = [u \in Tables |-> IF t \in draft.keys[u]
                                  THEN (draft.keys[u] \ {t}) \union {Aside(t)}
                                  ELSE draft.keys[u]]])
  /\ GoWith(p, "fill", i)
  /\ UNCHANGED <<locker, era, upgradeCrashes>>

CreateAndCopy(p, i) ==
  LET t == Rebuilds[i].table IN
  /\ Doing(p, "fill", i)
  /\ Execute(p, [draft EXCEPT
       !.shape[t] = "scoped", !.rows[t] = draft.aside[t],
       !.keys[t] = Rebuilds[i].keys, !.extra[t] = Rebuilds[i].columns])
  /\ GoWith(p, "drop", i)
  /\ UNCHANGED <<locker, era, upgradeCrashes>>

\* Mutant of DropAside: each table is rebuilt in a transaction of its own.
DropAsideCommits(p, i) ==
  /\ Doing(p, "drop", i)
  /\ draft' = [draft EXCEPT !.aside[Rebuilds[i].table] = {}]
  /\ db' = draft'
  /\ NextTable(p, i)
  /\ UNCHANGED <<locker, era, upgradeCrashes>>

DropAside(p, i) ==
  /\ Doing(p, "drop", i)
  /\ Execute(p, [draft EXCEPT !.aside[Rebuilds[i].table] = {}])
  /\ NextTable(p, i)
  /\ UNCHANGED <<locker, era, upgradeCrashes>>

\* Mutant of EnsureRecordsFts: the table is made again and left empty.
EnsureRecordsFtsEmpty(d) ==
  IF d.search.current THEN d ELSE [d EXCEPT !.search = [current |-> TRUE, rows |-> {}]]

EnsureRecordsFts(d) ==
  IF d.search.current THEN d
  ELSE [d EXCEPT !.search = [current |-> TRUE, rows |-> d.rows["records"]]]

\* A rebuild checks the keys of the rows that exist, and commits.
RebuildSearch(p) ==
  /\ At(p, "searchAndCommit")
  /\ db' = EnsureRecordsFts(draft)
  /\ draft' = db'
  /\ locker' = Nobody
  /\ Go(p, "columns")
  /\ UNCHANGED <<era, upgradeCrashes>>

RefreshSearch(p) ==
  /\ At(p, "search")
  /\ Execute(p, EnsureRecordsFts(draft))
  /\ Go(p, "columns")
  /\ UNCHANGED <<locker, era, upgradeCrashes>>

\* The columns that the connection finds missing.  One that rebuilt has no
\* transaction open here: it looks first and alters afterwards.
FindMissingColumn(p) ==
  LET seen == IF locker = p THEN draft ELSE db IN
  /\ At(p, "columns")
  /\ IF MissingColumns(seen) = {} THEN Go(p, "indexes")
     ELSE \E c \in MissingColumns(seen) : GoWith(p, "add", c)
  /\ UNCHANGED <<db, draft, locker, era, upgradeCrashes>>

AddColumn(p, c) ==
  /\ Doing(p, "add", c)
  /\ locker \in {p, Nobody}
  /\ IF locker = p
     THEN Execute(p, [draft EXCEPT !.extra[c[1]] = @ \union {c[2]}])
     ELSE db' = [db EXCEPT !.extra[c[1]] = @ \union {c[2]}] /\ draft' = db'
  /\ c \in MissingColumns(IF locker = p THEN draft ELSE db)
  /\ Go(p, "columns")
  /\ UNCHANGED <<locker, era, upgradeCrashes>>

\* Somebody else added it in between: "duplicate column name".
DuplicateColumn(p, c) ==
  /\ Doing(p, "add", c)
  /\ locker = Nobody
  /\ c \notin MissingColumns(db)
  /\ Abort(p)

\* The script of secondary indexes commits what is open.
EnsureSecondaryIndexes(p) ==
  /\ At(p, "indexes")
  /\ locker \in {p, Nobody}
  /\ db' = draft
  /\ UNCHANGED <<draft, era, upgradeCrashes>>
  /\ locker' = Nobody
  /\ Go(p, "validate")

SchemaValid(d) ==
  /\ \A t \in Tables : d.shape[t] = "scoped" /\ LateColumns(t) \subseteq d.extra[t]
  /\ d.search.current

\* Validation, then the timestamps and the version row in a last transaction.
ValidateSchema(p) ==
  /\ At(p, "validate")
  /\ Unlocked
  /\ Go(p, IF SchemaValid(db) THEN "ready" ELSE "failed")
  /\ UNCHANGED <<db, draft, locker, era, upgradeCrashes>>

\* The busy timeout ran out: "database is locked".
LockedOut(p) ==
  /\ starting[p][1] \in {"create", "rebuild", "refresh", "add", "indexes", "validate"}
  /\ locker \notin {p, Nobody}
  /\ Abort(p)

CrashUpgrade(p) ==
  /\ upgradeCrashes < MaxUpgradeCrashes
  /\ starting[p][1] \notin {"off", "failed"}
  /\ upgradeCrashes' = upgradeCrashes + 1
  /\ Go(p, "off")
  /\ locker' = IF locker = p THEN Nobody ELSE locker
  /\ draft' = IF locker = p THEN db ELSE draft
  /\ UNCHANGED <<db, era>>

UpgradeInit ==
  /\ era \in Eras
  /\ db = Database(era) /\ draft = db
  /\ locker = Nobody
  /\ starting = [p \in Starters |-> <<"off">>]
  /\ upgradeCrashes = 0

UpgradeNext ==
  \E p \in Starters :
    \/ Start(p) \/ (\E n \in 1..4 : CreateTable(p, n)) \/ CreateSearch(p)
    \/ MigrateScopeSchema(p) \/ BeginUpgrade(p)
    \/ \E i \in 1..3 : \/ SkipTable(p, i) \/ RefuseTable(p, i) \/ RenameTable(p, i)
                       \/ CreateAndCopy(p, i) \/ DropAside(p, i)
    \/ RebuildSearch(p) \/ RefreshSearch(p)
    \/ FindMissingColumn(p)
    \/ \E c \in Tables \X {"late", "confidence"} : AddColumn(p, c) \/ DuplicateColumn(p, c)
    \/ EnsureSecondaryIndexes(p) \/ ValidateSchema(p) \/ LockedOut(p) \/ CrashUpgrade(p)

UpgradeSpec == UpgradeInit /\ [][UpgradeNext]_upgradeVars

-----------------------------------------------------------------------------
\* Whoever reads the file finds every stored row where it was, however many
\* processes upgrade it and wherever one of them dies.
UpgradeKeepsRows ==
  \A t \in RebuiltTables : era # "fresh" => db.rows[t] = StoredRows

KeysResolve(d, t) == d.keys[t] \subseteq Tables

\* Once initialize() has returned anywhere, the tables are those the queries
\* expect: every column is there, the search table finds every record, and
\* the rebuilt tables' foreign keys name tables that exist.
ReadyIsWhole ==
  (\E p \in Starters : At(p, "ready")) =>
    /\ SchemaValid(db)
    /\ db.search.rows = db.rows["records"]
    /\ \A t \in RebuiltTables : KeysResolve(db, t)

\* Every variable of the upgrade stays in its type.
UpgradeTypeOK ==
  /\ era \in Eras
  /\ locker \in Starters \union {Nobody}
  /\ upgradeCrashes \in 0..MaxUpgradeCrashes
  /\ \A d \in {db, draft} :
       /\ d.shape \in [Tables -> {"absent", "v1", "v2", "scoped"}]
       /\ d.rows \in [RebuiltTables -> SUBSET StoredRows]
       /\ d.extra \in [Tables -> SUBSET {"late", "confidence"}]

\* The store as a reader of the file sees it.
ShapeState == [t \in RebuiltTables |-> db.shape[t]]
SearchState ==
  IF ~db.search.current THEN "late"
  ELSE IF db.search.rows = db.rows["records"] THEN "current" ELSE "torn"

\* However many processes open the file and wherever one of them dies, a reader
\* finds tables of one shape only: those of an older database change over
\* together, with the search table, once, and lose nothing; those of an empty
\* file appear one by one, none before the tables that its foreign keys name
\* and the search table after all of them.
Upgrade == INSTANCE AtomicUpgrade
  WITH Tables <- RebuiltTables, Refers <- [t \in RebuiltTables |-> ForeignKeys(t) \ {t}],
       shape <- ShapeState, content <- db.rows, search <- SearchState
UpgradeIsAtomic == Upgrade!Spec
=============================================================================
