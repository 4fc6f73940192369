SPECIFICATION FairSpec
CONSTANTS
  s1 = s1
  s2 = s2
  s3 = s3
  A = A
  B = B
  w1 = w1
  w2 = w2
  boot = boot
  q1 = q1
  q2 = q2
  Sessions = {s1, s2}
  Projects = {A}
  ProjectOf <- MCProjectOf
  StartTime <- MCStartTime
  Passes = {w1, w2}
  Starters = {}
  Procs = {q1, q2}
  ProcOf <- MCProcOf
  MaxAttempts = 2
  AttemptCap = 3
  Quota = 5
  Stalls = FALSE
  NoSession = NoSession
  NoPass = NoPass
INVARIANTS
  ExtractionOwnsRow
  VerdictIsCurrent
PROPERTIES
  ImplementsLifecycle
  EveryJobSettles
  OrphansRecovered
