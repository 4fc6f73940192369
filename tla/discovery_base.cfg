SPECIFICATION FairSpec
CONSTANTS
  s1 = s1
  s2 = s2
  A = A
  B = B
  Sessions = {s1, s2}
  Projects = {A}
  ProjectOf <- MCOneProject
  NoSession = NoSession
  MaxAttempts = 2
  MaxVersion = 2
  Faults = {"normalize", "cache", "reset", "retry"}
  Budget = 1
INVARIANTS
  DoneIsLearned
  SkippedIsUnchanged
PROPERTIES
  EverySessionLearned
