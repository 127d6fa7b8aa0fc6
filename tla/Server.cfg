\* The parts of the server, each over a small instance (see MCServer).  Leases: two Git
\* actions and a clone, three threads, two prompts, one fault.
CONSTANTS
  a1 = a1 a2 = a2 a3 = a3 t1 = t1 t2 = t2 t3 = t3
  top = top sub = sub tree = tree plain = plain repository = repository
  k1 = k1 k2 = k2 b1 = b1 b2 = b2
  None = None
  Actions = {a1, a2, a3}
  Clones = {a3}
  Threads = {t1, t2, t3}
  Paths = {top, sub, tree, plain}
  Overlap <- MCOverlap
  Root <- MCRoot
  Repo <- MCRepo
  Cwd <- MCCwd
  Workspace <- MCWorkspace
  MaxPrompts = 2
  MaxFaults = 1
  \* The event store: two threads, three appends, two steps that fail, a crash.
  StoreThreads = {t1, t2}
  StoreEvents = {e1, e2, e3}
  StoreMaxFaults = 2
  StoreMaxCrashes = 1
  \* A chat with a worktree and a side chat in a shared folder; two crashes, which may
  \* lose the last write, and one failed step.
  CreationIds = {i1, i2}
  CreationForeign = other
  CreationConfig <- MCConfig
  CreationIsolated = {i1}
  CreationSide = {i2}
  CreationPowerLoss = TRUE
  CreationMaxCrashes = 2
  CreationMaxFailures = 1
  \* Two runtimes, two windows, two requests.
  PolicyKeys = {k1, k2}
  PolicyWindows = {w1, w2}
  PolicyRequests = {i1, i2}
  PolicyMaxDeaths = 1
  \* One schedule over three days.
  ScheduleIds = {i1}
  ScheduleMaxDay = 2
  ScheduleMaxEdits = 1
  ScheduleMaxOps = 2
  ScheduleMaxCrashes = 1
  ScheduleMaxFailures = 1
  \* Two tasks of one thread, which may have one active task.
  TaskIds = {b1, b2}
  TaskThreads = {t1}
  TaskThreadOf <- MCThreadOf
  TaskActiveLimit = 1
  TaskMonitorLimit = 2
  TaskMaxCrashes = 1
  TaskMaxFailures = 1
  TaskMaxOps = 1
  \* Three chunks of two keys or direct, one turn, a restart and a failed write.
  IngestionTurns = {t1}
  IngestionKeys = {k1, k2}
  IngestionLimit = 2
  IngestionMaxChunks = 3
  IngestionMaxRestarts = 1
  IngestionMaxFailures = 1
SPECIFICATION ServerSpec
INVARIANTS Exclusion LeasesDisjoint StoredInOrder OneSessionEach TasksAreBounded NothingIsCutOff UpdateIsQuiet SlotsRunOnce
PROPERTIES IsDurableLog
\* The parts may stop: their requests, crashes and faults are used up.
CHECK_DEADLOCK FALSE
