SPECIFICATION DerivedSpec
CONSTANTS
  Rows = {r1, r2}
  Notes = {n1, n2, n3}
  RowBatch = 1
  NoteBatch = 1
  Window = 3
  PullLimit = 1
  Poisoned = {}
  Dropped = {n3}
  ShipRaces = {}
  MaxClock = 3
  MaxFaults = 2
  ArtifactKinds = {"brief", "memory", "clinic"}
  Things = {i1, i2}
  Refreshers = {d1}
  ArtifactRaces = {}
  MaxTicks = 2
  MaxMishaps = 1
  Facts = {f1, f2, f3}
  Relations = {k1}
  GraphPasses = {p1}
  GraphLimit = 2
  Starters = {o1, o2}
  StoredRows = {x1}
  Eras = {"fresh", "v1", "v2", "scoped"}
  MaxUpgradeCrashes = 1
INVARIANTS
  NothingSteppedOver
  NoEditSkipped
  AvailableIsCurrent
  ReadyIsWhole
PROPERTIES
  UpgradeIsAtomic
  NewestSurvives
  SyncConverges
  PagesCatchUp
  RetiredLeavesGraph
CHECK_DEADLOCK FALSE
