SPECIFICATION TraceSpec
CONSTANTS
  content = content
  session = session
  Traces = {t1}
  Contents = {content}
  TraceSessions = {session}
  ContentOf <- MCContentOf
  TraceSessionOf <- MCSessionOf
  Clients = {c1}
  Rejections = FALSE
  MaxRetries = 2
  NoContent = NoContent
INVARIANTS
  SkippedIsLearned
CHECK_DEADLOCK FALSE
