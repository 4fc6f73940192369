SPECIFICATION Spec
CONSTANTS
  s1 = s1
  s2 = s2
  A = A
  B = B
  Sessions = {s1}
  Projects = {A}
  ProjectOf <- MCProjectOf
  NoSession = NoSession
  MaxAttempts = 2
  MaxVersion = 2
  Faults = {"write"}
  Budget = 1
INVARIANTS
  DoneIsLearned
