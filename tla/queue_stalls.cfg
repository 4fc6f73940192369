SPECIFICATION Spec
CONSTANTS
  s1 = s1
  s2 = s2
  s3 = s3
  A = A
  B = B
  w1 = w1
  w2 = w2
  boot = boot
  q1 = q1
  q2 = q2
  Sessions = {s1}
  Projects = {A}
  ProjectOf <- MCProjectOf
  StartTime <- MCStartTime
  Passes = {w1, w2}
  Starters = {boot}
  Procs = {q1, q2}
  ProcOf <- MCOneProc
  MaxAttempts = 2
  AttemptCap = 3
  Quota = 3
  Stalls = TRUE
  NoSession = NoSession
  NoPass = NoPass
INVARIANTS
  RunningIsReapable
