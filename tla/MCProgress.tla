----------------------------- MODULE MCProgress -----------------------------
(***************************************************************************)
(* What must go on in the end, for TLC: the parts of the server, renderer   *)
(* and scripts that wait for something, under the fairness that their code  *)
(* justifies (see the module of each).  They share no state: `part` says    *)
(* which of them a behaviour is about, and the others stay as they began.   *)
(***************************************************************************)

\* Model values.
CONSTANTS
  None, t1, t2, top, sub, tree, repository, k1, k2, b1, a1, a2, r1, r2, p1

VARIABLES
  part,
  leaseLease, leaseStage, leaseQueue, leaseWake, leaseLate, leaseTasks, leasePrompts,
  leaseFaults,
  migrationRemote, migrationJournal, migrationTorn, migrationLock, migrationWritten,
  migrationEvidence, migrationRun, migrationApplied, migrationFaults,
  migrationInterference,
  ingestionRuntime, ingestionReceived, ingestionIngress, ingestionTaking,
  ingestionPending, ingestionTimer, ingestionTail, ingestionEngine, ingestionLog,
  ingestionLost, ingestionTurn, ingestionSettling, ingestionFailures,
  taskKimi, taskOld, taskTools, taskStatus, taskAsActive, taskClosed, taskEnds,
  taskOrder, taskChain, taskPoll, taskSource, taskSupported, taskPhase, taskUnclosed,
  taskCrashes, taskFailures,
  deliveryOnline, deliveryNews, deliverySocket, deliveryConnection, deliveryTimer,
  deliveryReq, deliveryWire, deliveryOperation, deliveryCreated, deliveryReplies,
  deliveryReceipts, deliveryStored, deliveryRefusing, deliveryKnown, deliveryRefused, deliveryKeys,
  deliveryRequests, deliveryDrops, deliveryFlips, deliveryReloads, deliveryLostSaves

leaseVars ==
  <<leaseLease, leaseStage, leaseQueue, leaseWake, leaseLate, leaseTasks, leasePrompts,
  leaseFaults>>
migrationVars ==
  <<migrationRemote, migrationJournal, migrationTorn, migrationLock, migrationWritten,
  migrationEvidence, migrationRun, migrationApplied, migrationFaults,
  migrationInterference>>
ingestionVars ==
  <<ingestionRuntime, ingestionReceived, ingestionIngress, ingestionTaking,
  ingestionPending, ingestionTimer, ingestionTail, ingestionEngine, ingestionLog,
  ingestionLost, ingestionTurn, ingestionSettling, ingestionFailures>>
taskVars ==
  <<taskKimi, taskOld, taskTools, taskStatus, taskAsActive, taskClosed, taskEnds,
  taskOrder, taskChain, taskPoll, taskSource, taskSupported, taskPhase, taskUnclosed,
  taskCrashes, taskFailures>>
deliveryVars ==
  <<deliveryOnline, deliveryNews, deliverySocket, deliveryConnection, deliveryTimer,
  deliveryReq, deliveryWire, deliveryOperation, deliveryCreated, deliveryReplies,
  deliveryReceipts, deliveryStored, deliveryRefusing, deliveryKnown, deliveryRefused, deliveryKeys,
  deliveryRequests, deliveryDrops, deliveryFlips, deliveryReloads, deliveryLostSaves>>

\* Leases: a repository with a subdirectory and a worktree of it elsewhere.
MCPaths == {top, sub, tree}
MCOverlap == [p \in MCPaths |-> IF p = tree THEN {tree} ELSE {top, sub}]
MCRoot == [p \in MCPaths |-> IF p = sub THEN top ELSE p]
MCRepo == [p \in MCPaths |-> repository]
MCCwd == [t \in {t1, t2} |-> IF t = t1 THEN sub ELSE tree]

\* A Git action and a clone, two threads, two prompts; nothing fails.
Lease == INSTANCE WorkspaceLease WITH
  Actions <- {a1, a2}, Clones <- {a2}, Threads <- {t1, t2}, Paths <- MCPaths,
  Overlap <- MCOverlap, Root <- MCRoot, Repo <- MCRepo, Cwd <- MCCwd, Workspace <- [t
  \in {t1, t2} |-> {MCCwd[t]}], MaxPrompts <- 2, MaxFaults <- 0,
  lease <- leaseLease, stage <- leaseStage, queue <- leaseQueue, wake <- leaseWake,
  late <- leaseLate, tasks <- leaseTasks, prompts <- leasePrompts, faults <- leaseFaults

\* Two runs in turn, both of which may recover a lock; one fault.
Migrations == INSTANCE Migration WITH
  Runs <- {r1, r2}, NoRun <- None, Pulls <- <<p1>>, Components <- <<"source-pages",
  "user-site-pages">>, CapturedDesired <- {"user-site-pages"}, Concurrent <- FALSE,
  Recoverers <- {r1, r2}, LateClose <- FALSE, TornWrites <- FALSE, MaxFaults <- 1,
  MaxInterference <- 0,
  remote <- migrationRemote, journal <- migrationJournal, torn <- migrationTorn,
  lock <- migrationLock, written <- migrationWritten, evidence <- migrationEvidence,
  run <- migrationRun, applied <- migrationApplied, faults <- migrationFaults,
  interference <- migrationInterference

\* Two chunks, a restart and two failed writes.
Ingestion == INSTANCE RuntimeIngestion WITH
  Turns <- {t1}, Keys <- {k1, k2}, Limit <- 2, MaxChunks <- 2, MaxRestarts <- 1,
  MaxFailures <- 2,
  runtime <- ingestionRuntime, received <- ingestionReceived,
  ingress <- ingestionIngress, taking <- ingestionTaking, pending <- ingestionPending,
  timer <- ingestionTimer, tail <- ingestionTail, engine <- ingestionEngine,
  log <- ingestionLog, lost <- ingestionLost, turn <- ingestionTurn, settling <- ingestionSettling,
  failures <- ingestionFailures

\* One task, a crash and a failed write.
Background == INSTANCE BackgroundTasks WITH
  Tasks <- {b1}, Threads <- {t1}, ThreadOf <- [b \in {b1} |-> t1], ActiveLimit <- 1,
  MonitorLimit <- 2, MaxCrashes <- 1, MaxFailures <- 1, MaxOps <- 1,
  kimi <- taskKimi, old <- taskOld, tools <- taskTools, status <- taskStatus,
  asActive <- taskAsActive, closed <- taskClosed, ends <- taskEnds, order <- taskOrder,
  chain <- taskChain, poll <- taskPoll, source <- taskSource,
  supported <- taskSupported, phase <- taskPhase, unclosed <- taskUnclosed,
  crashes <- taskCrashes, failures <- taskFailures

\* One creation; the host goes off and on line, two lost connections, a reload.
Requests == INSTANCE Delivery WITH
  Configs <- {k1}, MaxKeys <- 1, MaxRequests <- 1, MaxDrops <- 2,
  MaxFlips <- 2, MaxReloads <- 1, MaxLostSaves <- 0,
  online <- deliveryOnline, news <- deliveryNews, socket <- deliverySocket,
  connection <- deliveryConnection, timer <- deliveryTimer, req <- deliveryReq,
  wire <- deliveryWire, operation <- deliveryOperation, created <- deliveryCreated,
  replies <- deliveryReplies, receipts <- deliveryReceipts, stored <- deliveryStored,
  refusing <- deliveryRefusing, known <- deliveryKnown, refused <- deliveryRefused, keys <- deliveryKeys,
  requests <- deliveryRequests, drops <- deliveryDrops, flips <- deliveryFlips,
  reloads <- deliveryReloads, lostSaves <- deliveryLostSaves

-----------------------------------------------------------------------------

Parts == {"lease", "migration", "ingestion", "task", "delivery"}

\* Only this part moves.
Only(p) ==
  /\ part = p /\ UNCHANGED part
  /\ IF p = "lease" THEN TRUE ELSE UNCHANGED leaseVars
  /\ IF p = "migration" THEN TRUE ELSE UNCHANGED migrationVars
  /\ IF p = "ingestion" THEN TRUE ELSE UNCHANGED ingestionVars
  /\ IF p = "task" THEN TRUE ELSE UNCHANGED taskVars
  /\ IF p = "delivery" THEN TRUE ELSE UNCHANGED deliveryVars

ProgressInit ==
  /\ part \in Parts
  /\ Lease!Init /\ Migrations!Init /\ Ingestion!Init /\ Background!Init /\ Requests!Init

ProgressNext ==
  \/ part = "lease" /\ Lease!Next /\ Only("lease")
  \/ part = "migration" /\ Migrations!Next /\ Only("migration")
  \/ part = "ingestion" /\ Ingestion!Next /\ Only("ingestion")
  \/ part = "task" /\ Background!Next /\ Only("task")
  \/ part = "delivery" /\ Requests!Next /\ Only("delivery")

ProgressVars ==
  <<part, leaseVars, migrationVars, ingestionVars, taskVars, deliveryVars>>
ProgressSpec == ProgressInit /\ [][ProgressNext]_ProgressVars

\* Each part goes on when a behaviour is about it.
ProgressFairness ==
  /\ \A t \in {t1, t2} : WF_leaseVars(part = "lease" /\ Lease!Turn(t))
  /\ \A a \in {a1, a2} : WF_leaseVars(part = "lease" /\ Lease!Git(a))
  /\ WF_migrationVars(part = "migration" /\ Migrations!Publish)
  /\ \A r \in {r1, r2} :
       /\ WF_migrationVars(part = "migration" /\ Migrations!Start(r))
       /\ WF_migrationVars(part = "migration" /\ Migrations!Acquire(r))
       /\ WF_migrationVars(part = "migration" /\ Migrations!Work(r))
  /\ WF_ingestionVars(part = "ingestion" /\ Ingestion!Take)
  /\ WF_ingestionVars(part = "ingestion" /\ Ingestion!WriteDirect)
  /\ WF_ingestionVars(part = "ingestion" /\ Ingestion!Taken)
  /\ WF_ingestionVars(part = "ingestion" /\ Ingestion!TimerFires)
  /\ WF_ingestionVars(part = "ingestion" /\ Ingestion!Submit)
  /\ WF_ingestionVars(part = "ingestion" /\ Ingestion!Stored)
  /\ WF_ingestionVars(part = "ingestion" /\ Ingestion!FlushDone)
  /\ WF_ingestionVars(part = "ingestion" /\ Ingestion!EndTurn)
  /\ WF_taskVars(part = "task" /\ Background!Work)
  /\ WF_taskVars(part = "task" /\ Background!Monitor)
  /\ WF_taskVars(part = "task" /\ Background!Reconcile)
  /\ \A b \in {b1} : WF_taskVars(part = "task" /\ Background!DayPasses(b))
  /\ WF_deliveryVars(part = "delivery" /\ Requests!OnlineEvent)
  /\ WF_deliveryVars(part = "delivery" /\ Requests!OfflineEvent)
  /\ WF_deliveryVars(part = "delivery" /\ Requests!TimerFires)
  /\ WF_deliveryVars(part = "delivery" /\ Requests!Opens)
  /\ WF_deliveryVars(part = "delivery" /\ Requests!CloseEvent)
  /\ WF_deliveryVars(part = "delivery" /\ Requests!RequestTimesOut)

ProgressLiveSpec == ProgressSpec /\ ProgressFairness

-----------------------------------------------------------------------------
(* Properties *)

\* A prompt that a Git action held up runs: whoever holds a lease starts all
\* queues when it is released, and so does who failed to get one.
QueueRuns == Lease!QueueRuns

\* The migration ends verified: whatever step a run fails or dies in, a later one
\* finishes.
Completes ==
  part = "migration" ~> \E i \in DOMAIN migrationJournal : migrationJournal[i].event = "run-verified"

\* Every chunk is stored or lost, and a turn that was answered ends, unless the
\* write of its output fails and what its error path writes does, too.
IsSettled == Ingestion!IsSettled

\* A registered task is ended and its report closed in the end, over crashes,
\* lost records and replaced runtimes, unless a failed write or a stale source
\* left the report of an ended task to the next start.
TasksSettle == Background!TasksSettle

\* Once it stays online, the renderer is connected for good.
Reconnects == <>[](part = "delivery" /\ deliveryOnline) => <>[](deliverySocket = "open")

=============================================================================
