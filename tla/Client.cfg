\* The parts of the renderer and the shell, each over a small instance (see MCClient).
\* The shell: two launches of the app, four server processes, a crash.
CONSTANTS
  None = None
  t1 = t1 t2 = t2 r1 = r1 k1 = k1 a1 = a1
  Apps = {a1, a2}
  Procs = {p1, p2, p3, p4}
  Other = other
  Attempts = 2
  DiesUnattached = FALSE
  MaxCrashes = 1
  \* One thread, three events, two lists, one lost connection, one other answer;
  \* and lists that events disturb until they are given up.
  SyncThreads = {t1}
  SyncMaxEvents = 3
  SyncMaxLists = 2
  SyncMaxDrops = 1
  SyncMaxAnswers = 1
  ListsMaxEvents = 2
  ListsMaxLists = 3
  ListsMaxDrops = 0
  ListsMaxAnswers = 1
  \* One draft whose creation is sent twice, two lost connections, a reload.
  ChatConfigs = {k1}
  ChatMaxKeys = 2
  ChatMaxRequests = 2
  ChatMaxDrops = 2
  ChatMaxFlips = 1
  ChatMaxReloads = 1
  ChatMaxLostSaves = 1
  \* Two windows that install twice between them, one lost connection.
  UpdateWindows = {w1, w2}
  UpdateMaxDrops = 1
  UpdateMaxAttempts = 2
SPECIFICATION ClientSpec
INVARIANTS ShownIsRebuilt SameThread UndoIsAccepted ShowsEachEventOnce FoundAgain LeaseIsGivenBack OneServer
PROPERTIES ShownIsOurs
\* The parts may stop: their events, requests and faults are used up.
CHECK_DEADLOCK FALSE
