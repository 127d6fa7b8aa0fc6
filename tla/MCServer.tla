------------------------------ MODULE MCServer ------------------------------
(***************************************************************************)
(* The parts of apps/server that keep a protocol of their own, for TLC.     *)
(* They share no state: `part` says which of them a behaviour is about, and *)
(* the others stay as they began.                                           *)
(***************************************************************************)
EXTENDS WorkspaceLease

\* Model values.
CONSTANTS
  a1, a2, a3, t1, t2, t3, top, sub, tree, plain, repository, k1, k2, b1, b2

\* The instances of the parts that ServerProofs is about.
CONSTANTS
  StoreThreads, StoreEvents, StoreMaxFaults, StoreMaxCrashes,
  CreationIds, CreationForeign, CreationConfig, CreationIsolated, CreationSide,
  CreationPowerLoss, CreationMaxCrashes, CreationMaxFailures,
  PolicyKeys, PolicyWindows, PolicyRequests, PolicyMaxDeaths,
  ScheduleIds, ScheduleMaxDay, ScheduleMaxEdits, ScheduleMaxOps, ScheduleMaxCrashes,
  ScheduleMaxFailures,
  TaskIds, TaskThreads, TaskThreadOf, TaskActiveLimit, TaskMonitorLimit, TaskMaxCrashes,
  TaskMaxFailures, TaskMaxOps,
  IngestionTurns, IngestionKeys, IngestionLimit, IngestionMaxChunks, IngestionMaxRestarts,
  IngestionMaxFailures

VARIABLES
  part,
  storePath, storeBak, storeServer, storeSeq, storeThreads, storeOp, storeUsed,
  storeFaults, storeTorn, storeCrashes,
  ingestionRuntime, ingestionReceived, ingestionIngress, ingestionTaking,
  ingestionPending, ingestionTimer, ingestionTail, ingestionEngine, ingestionLog,
  ingestionLost, ingestionTurn, ingestionSettling, ingestionFailures,
  creationPhase, creationJournal, creationDisk, creationWriter, creationOp,
  creationThreads, creationAsked, creationSessions, creationCrashes, creationFailures,
  taskKimi, taskOld, taskTools, taskStatus, taskAsActive, taskClosed, taskEnds,
  taskOrder, taskChain, taskPoll, taskSource, taskSupported, taskPhase, taskUnclosed,
  taskCrashes, taskFailures,
  policyLease, policyConfirmed, policyPolicy, policyChange, policyLogin, policyOps,
  policyRuntime, policyTurn, policyChecking, policyRecording, policyDeaths,
  scheduleSchedules, scheduleChain, scheduleChecker, scheduleClaims, scheduleRuns,
  scheduleTwice, scheduleGone, scheduleDay, scheduleCrashes, scheduleFailures

storeVars ==
  <<storePath, storeBak, storeServer, storeSeq, storeThreads, storeOp, storeUsed,
  storeFaults, storeTorn, storeCrashes>>
ingestionVars ==
  <<ingestionRuntime, ingestionReceived, ingestionIngress, ingestionTaking,
  ingestionPending, ingestionTimer, ingestionTail, ingestionEngine, ingestionLog,
  ingestionLost, ingestionTurn, ingestionSettling, ingestionFailures>>
creationVars ==
  <<creationPhase, creationJournal, creationDisk, creationWriter, creationOp,
  creationThreads, creationAsked, creationSessions, creationCrashes, creationFailures>>
taskVars ==
  <<taskKimi, taskOld, taskTools, taskStatus, taskAsActive, taskClosed, taskEnds,
  taskOrder, taskChain, taskPoll, taskSource, taskSupported, taskPhase, taskUnclosed,
  taskCrashes, taskFailures>>
policyVars ==
  <<policyLease, policyConfirmed, policyPolicy, policyChange, policyLogin, policyOps,
  policyRuntime, policyTurn, policyChecking, policyRecording, policyDeaths>>
scheduleVars ==
  <<scheduleSchedules, scheduleChain, scheduleChecker, scheduleClaims, scheduleRuns,
  scheduleTwice, scheduleGone, scheduleDay, scheduleCrashes, scheduleFailures>>

\* Leases: a repository with a subdirectory and a worktree of it elsewhere, and a
\* directory outside Git; a thread in the subdirectory, one in the worktree, one outside.
MCOverlap == [p \in Paths |-> IF p \in {top, sub} THEN {top, sub} ELSE {p}]
MCRoot == [p \in Paths |-> IF p = sub THEN top ELSE p]
MCRepo == [p \in Paths |-> IF p = plain THEN None ELSE repository]
MCCwd == [t \in Threads |-> IF t = t1 THEN sub ELSE IF t = t2 THEN tree ELSE plain]
MCWorkspace == [t \in Threads |-> {MCCwd[t]}]

\* Each chat has a configuration of its own.
MCConfig == [i \in CreationIds |-> i]

\* The background tasks are of one thread.
MCThreadOf == [b \in TaskIds |-> t1]

\* An append or the return of the backup does not fail halfway.
Store == INSTANCE EventStore WITH
  Threads <- StoreThreads, Events <- StoreEvents, MaxFaults <- StoreMaxFaults,
  RestoreFails <- FALSE, MaxTorn <- 0, MaxCrashes <- StoreMaxCrashes,
  path <- storePath, bak <- storeBak, server <- storeServer, seq <- storeSeq,
  threads <- storeThreads, op <- storeOp, used <- storeUsed, faults <- storeFaults,
  torn <- storeTorn, crashes <- storeCrashes

Ingestion == INSTANCE RuntimeIngestion WITH
  Turns <- IngestionTurns, Keys <- IngestionKeys, Limit <- IngestionLimit,
  MaxChunks <- IngestionMaxChunks, MaxRestarts <- IngestionMaxRestarts,
  MaxFailures <- IngestionMaxFailures,
  runtime <- ingestionRuntime, received <- ingestionReceived,
  ingress <- ingestionIngress, taking <- ingestionTaking, pending <- ingestionPending,
  timer <- ingestionTimer, tail <- ingestionTail, engine <- ingestionEngine,
  log <- ingestionLog, lost <- ingestionLost, turn <- ingestionTurn, settling <- ingestionSettling,
  failures <- ingestionFailures

\* No crash falls into the load of a journal.
Creation == INSTANCE ThreadCreation WITH
  Ids <- CreationIds, Foreign <- CreationForeign, Config <- CreationConfig,
  Isolated <- CreationIsolated, Side <- CreationSide, PowerLoss <- CreationPowerLoss,
  CrashesInLoad <- FALSE, MaxCrashes <- CreationMaxCrashes,
  MaxFailures <- CreationMaxFailures,
  phase <- creationPhase, journal <- creationJournal, disk <- creationDisk,
  writer <- creationWriter, op <- creationOp, threads <- creationThreads,
  asked <- creationAsked, sessions <- creationSessions, crashes <- creationCrashes,
  failures <- creationFailures

Background == INSTANCE BackgroundTasks WITH
  Tasks <- TaskIds, Threads <- TaskThreads, ThreadOf <- TaskThreadOf,
  ActiveLimit <- TaskActiveLimit, MonitorLimit <- TaskMonitorLimit,
  MaxCrashes <- TaskMaxCrashes, MaxFailures <- TaskMaxFailures, MaxOps <- TaskMaxOps,
  kimi <- taskKimi, old <- taskOld, tools <- taskTools, status <- taskStatus,
  asActive <- taskAsActive, closed <- taskClosed, ends <- taskEnds, order <- taskOrder,
  chain <- taskChain, poll <- taskPoll, source <- taskSource,
  supported <- taskSupported, phase <- taskPhase, unclosed <- taskUnclosed,
  crashes <- taskCrashes, failures <- taskFailures

Policy == INSTANCE RuntimePolicy WITH
  Keys <- PolicyKeys, Windows <- PolicyWindows, Requests <- PolicyRequests,
  MaxDeaths <- PolicyMaxDeaths,
  lease <- policyLease, confirmed <- policyConfirmed, policy <- policyPolicy,
  change <- policyChange, login <- policyLogin, ops <- policyOps,
  runtime <- policyRuntime, turn <- policyTurn, checking <- policyChecking,
  recording <- policyRecording, deaths <- policyDeaths

Schedule == INSTANCE Schedules WITH
  Ids <- ScheduleIds, MaxDay <- ScheduleMaxDay, MaxEdits <- ScheduleMaxEdits,
  MaxOps <- ScheduleMaxOps, MaxCrashes <- ScheduleMaxCrashes,
  MaxFailures <- ScheduleMaxFailures,
  schedules <- scheduleSchedules, chain <- scheduleChain, checker <- scheduleChecker,
  claims <- scheduleClaims, runs <- scheduleRuns, twice <- scheduleTwice,
  gone <- scheduleGone, day <- scheduleDay, crashes <- scheduleCrashes,
  failures <- scheduleFailures

-----------------------------------------------------------------------------

Parts == {"lease", "store", "ingestion", "creation", "task", "policy", "schedule"}

\* Only this part moves.
Only(p) ==
  /\ part = p /\ UNCHANGED part
  /\ IF p = "lease" THEN TRUE ELSE UNCHANGED vars
  /\ IF p = "store" THEN TRUE ELSE UNCHANGED storeVars
  /\ IF p = "ingestion" THEN TRUE ELSE UNCHANGED ingestionVars
  /\ IF p = "creation" THEN TRUE ELSE UNCHANGED creationVars
  /\ IF p = "task" THEN TRUE ELSE UNCHANGED taskVars
  /\ IF p = "policy" THEN TRUE ELSE UNCHANGED policyVars
  /\ IF p = "schedule" THEN TRUE ELSE UNCHANGED scheduleVars

ServerInit ==
  /\ part \in Parts /\ Init
  /\ Store!Init /\ Ingestion!Init /\ Creation!Init /\ Background!Init /\ Policy!Init /\ Schedule!Init

ServerNext ==
  \/ part = "lease" /\ Next /\ Only("lease")
  \/ part = "store" /\ Store!Next /\ Only("store")
  \/ part = "ingestion" /\ Ingestion!Next /\ Only("ingestion")
  \/ part = "creation" /\ Creation!Next /\ Only("creation")
  \/ part = "task" /\ Background!Next /\ Only("task")
  \/ part = "policy" /\ Policy!Next /\ Only("policy")
  \/ part = "schedule" /\ Schedule!Next /\ Only("schedule")

ServerVars ==
  <<part, vars, storeVars, ingestionVars, creationVars, taskVars, policyVars, scheduleVars>>
ServerSpec == ServerInit /\ [][ServerNext]_ServerVars

-----------------------------------------------------------------------------
(* Properties, besides those of WorkspaceLease *)

\* Appends, compactions, failures, crashes and restarts of the event store together
\* are a durable log: what was shown is kept, in order, and nothing else appears. Two
\* faults of the disk are left out here: an append that fails within its record
\* (MaxTorn = 0; EventStoreTornAppend has it) and a backup that cannot be moved back
\* (RestoreFails = FALSE).
IsDurableLog == Store!IsDurableLog

\* What is stored is stored in the order of arrival and once, across merging,
\* timers, flushes and runtimes: nothing of a replaced runtime follows output of
\* its successor.
StoredInOrder == Ingestion!StoredInOrder

\* However often a creation is tried again, over lost answers, failed writes,
\* crashes and a journal that reads an older value: the runtime makes at most one
\* session for its id. Crashes of the load itself, between the restoring of the
\* journal and its rewriting, are left out here (CrashesInLoad = FALSE).
OneSessionEach == Creation!OneSessionEach

\* Tasks registered while they ran stay within the limits, however the
\* registrations of several turns follow each other, and each task is registered
\* and ended at most once, whether its record, its day, a registration or the
\* next start ends it.
TasksAreBounded == Background!TasksAreBounded

\* A policy change, a sign-in or a sign-out never closes a runtime that a request
\* or a turn uses or that is still starting, although approving a project looks
\* at the work of the affected chats alone and every close is awaited.
NothingIsCutOff == Policy!NothingIsCutOff

\* Once a window was told that its update may be installed, and until it gives
\* the lease back, no request, turn, start, policy change, schedule or sign-in is
\* at work, whatever was admitted or timed before.
UpdateIsQuiet == Policy!UpdateIsQuiet

\* No slot of a schedule is queued twice, however scans, edits, failed writes and
\* crashes fall together, so that missed slots are not made up for; and neither a
\* scan nor a result brings a deleted schedule back.
SlotsRunOnce == Schedule!SlotsRunOnce

=============================================================================
