\* The files, scripts and processes, each over a small instance (see MCTools).  Files: three values.
CONSTANTS
  None = None Missing = Missing Torn = Torn
  r1 = r1 r2 = r2 r3 = r3 r4 = r4 p1 = p1 p2 = p2
  t1 = t1 t2 = t2 w1 = w1
  Values = {v1, v2, v3}
  UndoFails = FALSE
  \* Two runs for two versions; main, a tag and the feed branches may move once.
  FeedRuns = {r1, r2}
  FeedMaxVersion = 2
  FeedMaxMain = 1
  FeedMaxTags = 1
  FeedMaxOthers = 1
  \* Two preparations into one directory; a source is edited once.
  PrepRuns = {r1, r2}
  PrepMaxEdits = 1
  \* Two repositories whose files are edited three times; two checks.
  ApprovalRepositories = {r1, r2}
  ApprovalMaxEdits = 3
  ApprovalMaxChecks = 2
  \* A chat of two turns, whose agent asks twice in each process; a stop, an answer, a
  \* fault.
  AgentChats = {t1}
  AgentAnswers = {w1}
  AgentMaxClients = 2
  AgentMaxRequests = 2
  AgentMaxStops = 1
  AgentMaxTurns = 2
  AgentMaxFaults = 1
  AgentKillFails = FALSE
  \* Three runs in turn, two of which may recover a lock; two faults.
  OrderRuns = {r1, r2, r3}
  OrderPulls <- MCOrderPulls
  OrderComponents <- MCComponents
  OrderDesired = {"user-site-pages"}
  OrderConcurrent = FALSE
  OrderRecoverers = {r2, r3}
  OrderLateClose = FALSE
  OrderTornWrites = FALSE
  OrderMaxFaults = 2
  OrderMaxInterference = 0
  \* Four runs at any time, two of which may recover a lock; a fault.  Only the pushes.
  LockRuns = {r1, r2, r3, r4}
  LockPulls <- MCNoSteps
  LockComponents <- MCNoSteps
  LockDesired = {}
  LockConcurrent = TRUE
  LockRecoverers = {r2, r3}
  LockLateClose = FALSE
  LockTornWrites = TRUE
  LockMaxFaults = 1
  LockMaxInterference = 0
SPECIFICATION ToolsSpec
INVARIANTS NeverLost AppliedOnceInOrder ExclusiveWhileIntact OffersTheRelease PreparedIsComplete OnlyCheckedRuns OneAgent AskedIsShown
PROPERTIES NoRollback
\* The parts may stop: every run has ended and nothing is left to edit.
CHECK_DEADLOCK FALSE
