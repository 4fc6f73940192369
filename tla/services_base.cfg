SPECIFICATION ServicesSpec
CONSTANTS
  Records = {r1, r2}
  Writers = {w1, w2}
  Searchers = {q1}
  Races = {}
  SameDims = FALSE
  MaxGen = 2
  MaxSwitches = 1
  content = content
  session = session
  dirName = dirName
  Traces = {t1, t2}
  Contents = {content}
  TraceSessions = {session}
  ContentOf <- MCContentOf
  TraceSessionOf <- MCSessionOf
  Clients = {w1, w2}
  Rejections = FALSE
  MaxRetries = 2
  NoContent = NoContent
  Traced = {s1}
  Learners = {w1, w2}
  Durables = 1
  MaxRuns = 2
  LearnRaces = {}
  NoSession = NoSession
  NoRecord = NoRecord
  Dirs = {r1, r2}
  BaseOf <- MCBaseOf
  OddDirs = {}
  Platforms = {m1}
  Commands = {k1}
  Dashboard = server
  SettingsRaces = {}
  LineSizes = {0, 3, 9}
  MaxLines = 3
  LineCap = 6
  LinePrefix = 1
  LineSuffix = 1
  MinWindow = 4
  MaxWindow = 8
  Overhead = 5
  Floor = 4
  MaxModelAttempts = 2
  Answerable = {r1, r2}
  ProjectOf <- MCProjectOf
  Questions = {u1}
  MaxActions = 2
  Rated = {g1}
  Voters = {w1, w2}
  MaxVotes = 3
  MaxConfidence = 8
  IngestInterval = 3
  CurateInterval = 5
  DailyInterval = 8
  BusyRetry = 2
  Longest = 1
  MaxClock = 9
  Files = {f1, f2}
  Proposals = {r1, r2}
  NoProposal = NoProposal
  Agents = {w1, w2}
  UserEdits = {e1}
  SkillRaces = {}
  MaxAccidents = 1
INVARIANTS
  ServicesTypeOK
  FreshIsComplete
  SearchMissesNothing
  ImportedIsLearned
  LearnedOnce
  RegistrationsKept
  RegisteredIsMounted
  EveryLineScanned
  GuardLeavesRoom
  CitedWasCurrent
  ConfidenceIsEarned
  BusyIsRetriedSoon
  AllOrNothing
PROPERTIES
  SeedsKept
  ArchivedStays
  NoChangeLost
  ReviewIsAtomic
CHECK_DEADLOCK FALSE
SYMMETRY Symmetry
