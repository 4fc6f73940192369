SPECIFICATION FairSpec
CONSTANTS
  d = d
  h = h
  m = m
  n = n
  P = P
  Q = Q
  R = R
  Threads = {d, h, m, n}
  Procs = {P, Q, R}
  ProcOf <- MCProcOf
  NoThread = NoThread
  TornReads = FALSE
  ReclaimRaces = FALSE
  Stalls = FALSE
  MaxCrashes = 2
INVARIANTS
  HolderProtected
PROPERTIES
  ImplementsMutex
  DeadLockReclaimed
