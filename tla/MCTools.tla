------------------------------- MODULE MCTools -------------------------------
(***************************************************************************)
(* What outlives or is outside the server, for TLC: the files that it and   *)
(* the scripts replace (RecoverableJson), the release and migration scripts *)
(* and the agent's processes (AgentRuntime).  They share no state: `part`   *)
(* says which of them a behaviour is about, and the others stay as they     *)
(* began.                                                                   *)
(***************************************************************************)
EXTENDS RecoverableJson

\* Model values.
CONSTANTS None, r1, r2, r3, r4, p1, p2, t1, t2, w1

\* The instances of the parts that ToolsProofs is about.
CONSTANTS
  FeedRuns, FeedMaxVersion, FeedMaxMain, FeedMaxTags, FeedMaxOthers,
  PrepRuns, PrepMaxEdits,
  ApprovalRepositories, ApprovalMaxEdits, ApprovalMaxChecks,
  AgentChats, AgentAnswers, AgentMaxClients, AgentMaxRequests, AgentMaxStops,
  AgentMaxTurns, AgentMaxFaults, AgentKillFails,
  OrderRuns, OrderPulls, OrderComponents, OrderDesired, OrderConcurrent, OrderRecoverers,
  OrderLateClose, OrderTornWrites, OrderMaxFaults, OrderMaxInterference,
  LockRuns, LockPulls, LockComponents, LockDesired, LockConcurrent, LockRecoverers,
  LockLateClose, LockTornWrites, LockMaxFaults, LockMaxInterference

VARIABLES
  part,
  migrationRemote, migrationJournal, migrationTorn, migrationLock, migrationWritten,
  migrationEvidence, migrationRun, migrationApplied, migrationFaults,
  migrationInterference,
  feedMain, feedTags, feedRelease, feedFeed, feedPages, feedRun,
  prepSources, prepEdits, prepOut, prepAt,
  prepLoaded, prepMade,
  approvalFile, approvalDisk, approvalSnapshot, approvalEdits, approvalChecker,
  approvalPrinted, approvalSigned, approvalExecutor,
  agentClient, agentRequests, agentRuntimes, agentSource, agentStart, agentDue,
  agentIngress, agentAppends, agentApprovals, agentAdmission, agentTurn, agentWork,
  agentStop, agentCancel, agentAnswer, agentFaults, agentStops

migrationVars ==
  <<migrationRemote, migrationJournal, migrationTorn, migrationLock, migrationWritten,
  migrationEvidence, migrationRun, migrationApplied, migrationFaults,
  migrationInterference>>
feedVars ==
  <<feedMain, feedTags, feedRelease, feedFeed, feedPages, feedRun>>
prepVars ==
  <<prepSources, prepEdits, prepOut, prepAt,
  prepLoaded, prepMade>>
approvalVars ==
  <<approvalFile, approvalDisk, approvalSnapshot, approvalEdits, approvalChecker,
  approvalPrinted, approvalSigned, approvalExecutor>>
agentVars ==
  <<agentClient, agentRequests, agentRuntimes, agentSource, agentStart, agentDue,
  agentIngress, agentAppends, agentApprovals, agentAdmission, agentTurn, agentWork,
  agentStop, agentCancel, agentAnswer, agentFaults, agentStops>>

\* The manifests: two pulls and two settings; neither for the four runs at any time.
MCOrderPulls == <<p1, p2>>
MCNoSteps == <<>>
MCComponents == <<"source-pages", "user-site-pages">>

Migrations == INSTANCE Migration WITH
  Runs <- OrderRuns, Pulls <- OrderPulls, Components <- OrderComponents,
  CapturedDesired <- OrderDesired, Concurrent <- OrderConcurrent,
  Recoverers <- OrderRecoverers, LateClose <- OrderLateClose,
  TornWrites <- OrderTornWrites, MaxFaults <- OrderMaxFaults,
  MaxInterference <- OrderMaxInterference, NoRun <- None,
  remote <- migrationRemote, journal <- migrationJournal, torn <- migrationTorn,
  lock <- migrationLock, written <- migrationWritten, evidence <- migrationEvidence,
  run <- migrationRun, applied <- migrationApplied, faults <- migrationFaults,
  interference <- migrationInterference

Feeds == INSTANCE FeedPublication WITH
  Runs <- FeedRuns, MaxVersion <- FeedMaxVersion, MaxMain <- FeedMaxMain,
  MaxTags <- FeedMaxTags, MaxOthers <- FeedMaxOthers,
  main <- feedMain, tags <- feedTags, release <- feedRelease, feed <- feedFeed,
  pages <- feedPages, run <- feedRun

Prep == INSTANCE FeedPreparation WITH
  Preparers <- PrepRuns, MaxEdits <- PrepMaxEdits,
  sources <- prepSources, edits <- prepEdits, out <- prepOut,
  at <- prepAt, loaded <- prepLoaded, made <- prepMade

Approval == INSTANCE MigrationApproval WITH
  Repositories <- ApprovalRepositories, MaxEdits <- ApprovalMaxEdits,
  MaxChecks <- ApprovalMaxChecks,
  file <- approvalFile, disk <- approvalDisk, snapshot <- approvalSnapshot,
  edits <- approvalEdits, checker <- approvalChecker, printed <- approvalPrinted,
  signed <- approvalSigned, executor <- approvalExecutor

Agent == INSTANCE AgentRuntime WITH
  Chats <- AgentChats, Answers <- AgentAnswers, MaxClients <- AgentMaxClients,
  MaxRequests <- AgentMaxRequests, MaxStops <- AgentMaxStops, MaxTurns <- AgentMaxTurns,
  MaxFaults <- AgentMaxFaults, KillFails <- AgentKillFails,
  client <- agentClient, requests <- agentRequests, runtimes <- agentRuntimes,
  source <- agentSource, start <- agentStart, due <- agentDue, ingress <- agentIngress,
  appends <- agentAppends, approvals <- agentApprovals, admission <- agentAdmission,
  turn <- agentTurn, work <- agentWork, stop <- agentStop, cancel <- agentCancel,
  answer <- agentAnswer, faults <- agentFaults, stops <- agentStops

AtOnce == INSTANCE Migration WITH
  Runs <- LockRuns, Pulls <- LockPulls, Components <- LockComponents,
  CapturedDesired <- LockDesired, Concurrent <- LockConcurrent,
  Recoverers <- LockRecoverers, LateClose <- LockLateClose,
  TornWrites <- LockTornWrites, MaxFaults <- LockMaxFaults,
  MaxInterference <- LockMaxInterference, NoRun <- None,
  remote <- migrationRemote, journal <- migrationJournal, torn <- migrationTorn,
  lock <- migrationLock, written <- migrationWritten, evidence <- migrationEvidence,
  run <- migrationRun, applied <- migrationApplied, faults <- migrationFaults,
  interference <- migrationInterference

\* Two runs at any time, one of which may recover a lock; somebody interferes once.
Changed == INSTANCE Migration WITH
  Runs <- {r1, r2}, Pulls <- <<p1>>, Components <- <<"source-pages",
  "user-site-pages">>, CapturedDesired <- {"user-site-pages"}, Concurrent <- TRUE,
  Recoverers <- {r2}, LateClose <- TRUE, TornWrites <- TRUE, MaxFaults <- 2,
  MaxInterference <- 1, NoRun <- None,
  remote <- migrationRemote, journal <- migrationJournal, torn <- migrationTorn,
  lock <- migrationLock, written <- migrationWritten, evidence <- migrationEvidence,
  run <- migrationRun, applied <- migrationApplied, faults <- migrationFaults,
  interference <- migrationInterference

\* Two chats of one runtime, whose processes may outlive their termination.
Process == INSTANCE AgentRuntime WITH
  Chats <- {t1, t2}, Answers <- {}, MaxClients <- 3, MaxRequests <- 0, MaxStops <- 1,
  MaxTurns <- 1, MaxFaults <- 2, KillFails <- TRUE,
  client <- agentClient, requests <- agentRequests, runtimes <- agentRuntimes,
  source <- agentSource, start <- agentStart, due <- agentDue, ingress <- agentIngress,
  appends <- agentAppends, approvals <- agentApprovals, admission <- agentAdmission,
  turn <- agentTurn, work <- agentWork, stop <- agentStop, cancel <- agentCancel,
  answer <- agentAnswer, faults <- agentFaults, stops <- agentStops

\* A chat whose agent asks three times in each process; a stop, a fault, no answer.
Asks == INSTANCE AgentRuntime WITH
  Chats <- {t1}, Answers <- {}, MaxClients <- 2, MaxRequests <- 3, MaxStops <- 1,
  MaxTurns <- 2, MaxFaults <- 1, KillFails <- FALSE,
  client <- agentClient, requests <- agentRequests, runtimes <- agentRuntimes,
  source <- agentSource, start <- agentStart, due <- agentDue, ingress <- agentIngress,
  appends <- agentAppends, approvals <- agentApprovals, admission <- agentAdmission,
  turn <- agentTurn, work <- agentWork, stop <- agentStop, cancel <- agentCancel,
  answer <- agentAnswer, faults <- agentFaults, stops <- agentStops

-----------------------------------------------------------------------------

Parts == {"file", "migration", "feed", "preparation", "approval", "agent", "atonce", "changed", "process", "asks"}

\* Only this part moves.
Only(p) ==
  /\ part = p /\ UNCHANGED part
  /\ IF p = "file" THEN TRUE ELSE UNCHANGED vars
  /\ IF p \in {"migration", "atonce", "changed"} THEN TRUE ELSE UNCHANGED migrationVars
  /\ IF p = "feed" THEN TRUE ELSE UNCHANGED feedVars
  /\ IF p = "preparation" THEN TRUE ELSE UNCHANGED prepVars
  /\ IF p = "approval" THEN TRUE ELSE UNCHANGED approvalVars
  /\ IF p \in {"agent", "process", "asks"} THEN TRUE ELSE UNCHANGED agentVars

ToolsInit ==
  /\ part \in Parts /\ Init
  /\ IF part = "atonce" THEN AtOnce!Init
     ELSE IF part = "changed" THEN Changed!Init ELSE Migrations!Init
  /\ Feeds!Init /\ Prep!Init /\ Approval!Init 
  /\ IF part = "process" THEN Process!Init
     ELSE IF part = "asks" THEN Asks!Init ELSE Agent!Init

ToolsNext ==
  \/ part = "file" /\ Next /\ Only("file")
  \/ part = "migration" /\ Migrations!Next /\ Only("migration")
  \/ part = "feed" /\ Feeds!Next /\ Only("feed")
  \/ part = "preparation" /\ Prep!Next /\ Only("preparation")
  \/ part = "approval" /\ Approval!Next /\ Only("approval")
  \/ part = "agent" /\ Agent!Next /\ Only("agent")
  \/ part = "atonce" /\ AtOnce!Next /\ Only("atonce")
  \/ part = "changed" /\ Changed!Next /\ Only("changed")
  \/ part = "process" /\ Process!Next /\ Only("process")
  \/ part = "asks" /\ Asks!Next /\ Only("asks")

ToolsVars ==
  <<part, vars, migrationVars, feedVars, prepVars, approvalVars, agentVars>>
ToolsSpec == ToolsInit /\ [][ToolsNext]_ToolsVars

-----------------------------------------------------------------------------
(* Properties, besides those of RecoverableJson *)

\* No step takes effect twice, and none before one that precedes it in the
\* approved order, whatever crashed or whose answer was lost, unless two runs that
\* overlap recovered one stale lock.
AppliedOnceInOrder ==
  IF part = "atonce" THEN AtOnce!Intact => AtOnce!AppliedOnceInOrder ELSE Migrations!AppliedOnceInOrder

\* Two runs execute at once only after two have recovered one stale lock: both had
\* passed its checks, the second's rename took the lock that the first had created
\* since, and the file of the stale lock shows it (withExclusive).  Otherwise the lock
\* is one run's from its creation to its removal, whoever crashes or recovers.
ExclusiveWhileIntact == part = "atonce" => AtOnce!ExclusiveWhileIntact

\* A feed never goes back to an older version and never changes the files of the
\* version it offers (assertFeedAdvance, publishFeedBranch), however many runs
\* publish and whenever the tag, the branches or main move.
NoRollback == Feeds!NoRollback

\* What a feed offers, past its seed, is what the immutable Release of its
\* version holds: an installer of a run whose Release lost is never offered to an
\* app.
OffersTheRelease == Feeds!OffersTheRelease

\* What a preparation that succeeded leaves is complete: both feeds offer the
\* Release as it was when everything was read again, they hold every asset the
\* product's or the user site's feed had, and no page of the user site is lost;
\* and no other preparation has touched it, neither by writing to the same paths
\* nor by cleaning up after its own failure.
PreparedIsComplete == Prep!PreparedIsComplete

\* The executor starts only with a manifest that the checker would accept whole,
\* however the files are edited between its reads, the owner's signature and the
\* executor's reads. The executor itself looks neither at the prohibitions nor at
\* what the snapshot holds: for these it relies on the signed phrase being that
\* of the very manifest that was checked.
OnlyCheckedRuns == Approval!OnlyCheckedRuns

\* A chat's runtime is one process: another is started only when the last one is gone,
\* whatever fails or survives; but a process that a failed start could not end is left
\* behind, and does not count (server.ts:800-804).
OneAgent == Agent!OneAgent

\* No agent waits for an answer that nobody is asked for: what it asks in a chat
\* that is not being stopped is shown there, or on its way, unless it was asked while
\* a stop was still to resolve its number for a runtime that is gone
\* (resolveThreadApprovals).
AskedIsShown == Agent!AskedIsShown

=============================================================================
