SPECIFICATION Spec
CONSTANTS
  d = d
  h = h
  m = m
  n = n
  P = P
  Q = Q
  R = R
  Threads = {d, m}
  Procs = {P, Q}
  ProcOf <- MCProcOf
  NoThread = NoThread
  TornReads = TRUE
  ReclaimRaces = FALSE
  Stalls = FALSE
  MaxCrashes = 0
INVARIANTS
  MutualExclusion
