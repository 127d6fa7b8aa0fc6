# Kimi Code Desktop: a verification project

TLA+ models of Kimi Code Desktop, the TLC runs that check them on small
instances, and TLAPS proofs of what holds for every value of the constants.
Paths are relative to the repository; `server.ts` is
`apps/server/src/server.ts` and `App.tsx` is `apps/web/src/App.tsx` unless said
otherwise.

## The system

The desktop app is a Tauri shell that starts a Node sidecar, the orchestration
server. The renderer (and a paired remote client) talks to it over a
WebSocket. The server drives the Kimi CLI over ACP (JSON-RPC on stdio) and owns
every durable fact: an append-only event log per thread and a handful of JSON
files. It is one JavaScript thread, so code runs uninterrupted between two
`await`s and every `await` is a point where any other handler may run. Releases
reach the app through two update feeds, branches that GitHub Pages publishes and
that scripts of the repository write.

| component | state | operations | what makes it hard | module |
|---|---|---|---|---|
| prompt queue and turns (`server.ts`, `queue-safety.ts`, `orchestration.ts`) | `turnQueues`, `pending-queues.json`, `queueAdmissions`, `turnCancellations`, receipts and `activeTurnId` in the log | send, steer, promote, edit, remove, clear, stop; start, settle; load | handlers interleave at every await over shared maps; two durable stores without a transaction; restarts of the queue are requested, not scheduled | `TurnQueue` |
| event log and projection (`event-store.ts`, `orchestration.ts`) | one file of records, `.bak`, `.tmp`, sequence numbers | append, compact, open | crash between renames, torn last record | `EventStore`, `DurableLog` |
| workspace leases (`server.ts`) | `gitWorkspaceLeases`, work of each thread | acquire, release | check-then-act over awaits, worktrees sharing a common directory | `WorkspaceLease` |
| recoverable JSON (`recoverable-json.ts`) | primary, backup, temporary | read, restore, write | crash and failure between renames | `RecoverableJson` |
| thread creation (`server.ts`) | creation journal, reservations, the runtime's sessions | reserve, baseline, request, adopt, bind, complete, load | a crash or lost answer after `session/new`, duplicate client requests | `ThreadCreation` |
| runtime ingestion (`runtime-ingestion.ts`) | chain of received events, buffer, timer, chain of writes | ingest, flush, flushWithin | order of output and end of turn | `RuntimeIngestion` |
| background tasks (`background-tasks.ts`, `server.ts`) | registered tasks, the chain of changes, the monitor | register, poll, expire, end, reconcile | a task is ended by its record, its day or a restart | `BackgroundTasks` |
| runtime policy, update lease, sign-in (`server.ts`, `auth-service.ts`) | counters of admitted work, policy keys, lease | admit, change, close, sign in, prepare, confirm | exclusion over many entry points, each with awaits | `RuntimePolicy` |
| schedules (`schedule-store.ts`, `server.ts`) | schedules file, chain of mutations | claim, queue, record, edit | claim before execution, lost in between | `Schedules` |
| renderer's threads (`App.tsx`) | `threadsRef`, frame batch, recovered threads | list, event, frame, answer | a list read while events are on their way | `RendererSync` |
| renderer's turns (`App.tsx`) | thread, turn projection with cached indexes | one step per event, rebuild | incremental and full projection must agree | `TurnView` |
| connection (`connection.ts`, `App.tsx`) | socket, timer, pending requests, creation receipts | dial, retry, replay, settle | a request handled although its answer was lost | `Delivery` |
| app update (`App.tsx`, `server.ts`, `lib.rs`) | attempt, lease, server | prepare, confirm, install, cancel, recover | cancel and restart while installing | `AppUpdate` |
| agent runtime and approvals (`acp-client.ts`, `approval-broker.ts`, `server.ts`) | process, connection, `runtimes`, `runtimeStarts`, `runtimeEventSources`, pending requests | start, share, close, time out, ask, answer, stop | one process ended by several owners, numbers that start again with each process | `AgentRuntime` |
| desktop shell (`lib.rs`) | mutex, child, connection, port | launch, start, probe, recover, stop, exit | ports of other programs, processes that outlive a wait | `Sidecar` |
| feed preparation (`prepare-feed-migration.mjs`) | sources, two repositories, evidence | prepare, verify, clean up | sources edited meanwhile, concurrent runs | `FeedPreparation` |
| migration approval (`check-migration-approval.mjs`) | manifest, snapshot, repositories, phrase | check, sign | files edited between reads | `MigrationApproval` |
| migration (`execute-approved-migration.mjs`) | GitHub, journal, lock | lock, recover, inspect, apply, record, verify | a run dies between a remote step and its record | `Migration` |
| feed publication (`release-feed.mjs`, `release.yml`) | tags, releases, feed branches, pages | authorize, build, release, publish, verify | jobs rerun and overtake each other | `FeedPublication` |
| terminals, checkpoints, remote access, ACP framing, MCP approvals, config defaults, Git commands, CLI | their maps and files | | see "Not modelled" | |

Interactions: the queue calls the engine (`append` is serialised for all
threads), the ACP client, the checkpoint reactor and ingestion; settlement of
`session/prompt` calls back into the queue; workspace leases, policies and the
update lease gate the start of turns; schedules feed the queue; a creation is a
request that `Delivery` replays and `ThreadCreation` answers once; the events
the engine publishes are what `RendererSync` keeps in order and `TurnView`
applies; `AppUpdate` is the window's side of the lease of `RuntimePolicy` and has
`Sidecar` stop the server; the queue of every chat shares the process that
`AgentRuntime` starts; what `FeedPreparation` makes is what
`MigrationApproval` pins and `Migration` pushes, after which `FeedPublication`
writes the feeds.

Each boundary is modelled once on each side. Where a module stands for another
component it says what it takes of it: `TurnQueue` has a workspace lease as a
step of its environment, `ThreadCreation` a journal write that happens or not
(`RecoverableJson` is why), `Delivery` a server that creates once for an id
(`ThreadCreation` is why), `TurnView` events in order (`RendererSync` is why).

What makes each correct, in a line: the queue runs every accepted submission at
most once and drops none silently; the log loses no acknowledged event; Git and
turns exclude each other per workspace; a JSON file always reads as the old or
the new value; one request creates one session; output is stored in order; a
task is ended once; no update or policy change cuts off work; a slot runs at most
once; the renderer shows every event once, and what it maintains is what it would
rebuild; one server runs, and it is the one shown; one agent process runs, and what it asks is shown; a migration step is applied
once and in order, after an approval that covers it; a feed never goes back.
`PROJECT.json` lists the hazards at their lines and which property covers which.

## Suites

| run | module | components | states |
|---|---|---|---|
| `queue_safety`, `queue_liveness` | `MCTurnQueue` | the prompt queue | 2 * 10^6, 10^5 |
| `server` | `MCServer` | leases, event store, ingestion, creation, background tasks, policy, schedules | 1.6 * 10^6 |
| `client` | `MCClient` | turn view, synchronisation, delivery, app update, shell | 1.4 * 10^6 |
| `tools` | `MCTools` | JSON files, preparation, approval, migration, publication, agent processes and approvals | 1.3 * 10^6 |
| `progress` | `MCProgress` | liveness of leases, migration, ingestion, tasks, connection | 8 * 10^4 |
| `queue_concurrent_prompts`, `queue_steer`, `store_torn_append`, `ingestion_late`, `delivery_replay`, `app_update` | | the findings: each checks what a document or comment says and TLC refutes it | |

The parts of a suite share no state, so a suite does not interleave them: its
variable `part` is chosen in the initial state and says which part a behaviour is
about, and `Only` keeps the others as they began. Every part is explored
completely, with its own constants, and one run answers all questions about it.
Deadlock is not checked: every model may rest when its budgets are used up, as
the program rests when nobody asks anything of it.

Bounds cap how often the environment acts (prompts, requests, edits, crashes,
faults, restarts), never how the code reacts; each is a constant named `Max...`
and stands in the guard of the environment's action. A second crash matters
where a recovery itself writes (the queue, creations); elsewhere one is enough,
since nothing but the durable state survives it. Two of each actor are enough
where the properties relate two: two Git actions and a clone, two turns and late
output between them, two launches of the app, two runs of a release.

## Modules

### TurnQueue

One thread's queue. A handler is split at its awaits, so an action is what runs
without interruption; `request[h]`, `starting` and `prompt[i]` say where each
handler, the one admission and the settlement of each turn wait. Two FIFO
queues stand for what they wait on: `writes`, the chain of
`persistQueueSnapshot`, and `appends`, the tail of `OrchestrationEngine.append`.

| code | model |
|---|---|
| `turnQueues`, `pending-queues.json` | `queue`, `disk` |
| `queueWrites.tail`, `failureEpoch` | `writes` with `fresh` |
| `submissionReceipts[].state`, `activeTurnId` | `receipt`, `active` |
| `queueAdmissions` and the place inside `runNextQueued` | `starting` |
| a captured `QueueAdmission` object | `request[h].ref`, which goes stale when the admission ends |
| a captured thread snapshot | `request[h].turn` |
| `QueueInsertionGate` | `Inserting`, and the guard of `Insert` |
| `turnCancellations`, the cancellation promise | `cancelling`, `delivery[h]` |
| `session/prompt` of a turn | `prompt[i]`; `signalled` once a `session/cancel` reached it |
| agent process and its close | `runtime` |
| `enqueueUserTurn`, `enqueueScheduledTurn` | `Send`, `Insert`, `InsertWritten`, `InsertFails`, `Accepted`, `AcceptFails`, `RolledBack`, `Placed` |
| `steerQueuedTurn`, `updateQueuedTurn` | `Promote`, `Moved`; `Edit`, `Edited` |
| `removeQueuedTurn`, `clearQueue`, `interruptTurn` | `RemoveQueued`, `ClearQueue`, `Stop`, `StopTurn`, `Drop*`, `Marked` |
| `cancelThreadTurn` | `Stopping`, `Delivered`, `DeliveryFails`, `Closed`, `Flushed`, `Ended`, `Settled` |
| `runNextQueued`, `startQueuedTurn` | `Next1`, `CheckLease`, `Preparing`, `Prepared`, `Refused`, `Started`, `Launch`, `LaunchFails`, `Aborted`, `Finish` |
| settlement of the prompt | `Answer`, `Settle`, `EndTurn` |
| a crash and `engine.open`, `loadQueues` | `Crash`, `Recover`, `Discard`, `Load`, `Bootstrap` |

Abstractions: a prompt is a name; its text, mentions and mode are data, except
that `starting.outdated` remembers an edit the admission does not have.
`Tracked` prompts carry a `submissionId`, others are scheduled or legacy ones.
Image prompts bypass the durable queue and are not modelled, nor are shutdown,
the update lease and runtime policies (they only refuse `runNextQueued`; see `RuntimePolicy`), nor archive and delete. `TakeLease` is a Git action of
the environment. An append or a write and the continuation of its owner are one
step.

| run | instance | question |
|---|---|---|
| `queue_safety` | 2 prompts (one tracked), 2 handlers, 1 failed write, 2 crashes, 2 other faults, 2 requests besides `sendTurn` (`Budget`: with a failed write or a crash 1 fault and 1 request) | do queue file, receipts and turns agree? `SubmittedOnce`, `AcceptedBeforeStart`, `AcceptedIsDurable`, `ActiveTurnIsDriven`; racing stop, steer, promote, edit and remove: `OldPromptsAreCancelled`, `DroppedStaysDropped`, `LaunchAfterCancel` |
| `queue_liveness` | 1 crash, 1 request, fairness | `QueueDrains`, `AcceptedIsSettled` |
| `queue_concurrent_prompts` | violation | `NoConcurrentPrompts`: the doc's claim; delivery of `session/cancel` is awaited, the cancelled call is not |
| `queue_steer` | violation | `SteerCancelsTurn`: a steer that races the start of a turn does not cancel it |

Two prompts are enough for what the properties relate: the one that runs and
the one that waits; one is tracked and one is not because the code treats them
differently everywhere. Two handlers race each other, the admission, the
settlements and the environment. The bounds `MaxWriteFaults`, `MaxFaults`,
`MaxCrashes`, `MaxAsks` cap how often the environment acts, never how the
server reacts. Deadlock is not checked: the program may rest with every budget
used.

Fairness: each step the event loop owes is weakly fair - completions of writes
and appends, the continuation of every handler, the admission, the settlement
of every prompt (the agent answers), the release of a lease, the restart of a
crashed server and the first `env.bootstrap` of a client after it. Requests,
faults and crashes are not. Liveness is checked without faults: after an
undeliverable cancellation whose runtime cannot be proved stopped the code
blocks the queue on purpose until a restart, and a failed write after
`TurnStarted` leaves a turn that only a stop ends (both are in `queue_safety`
and in the hazards).

What the runs show: in these instances a submission is handed to the agent at
most once whatever crashes or fails; it is on disk from its acceptance until it
starts; a removed prompt never runs; a prompt is sent only after every
outstanding one was cancelled; and nothing waits for ever.

### EventStore and DurableLog

The log file under compaction. The tails of the engine and of the store run one
operation at a time, so `op` is the one that runs and `op.stage` the step it has
reached; each file operation is a step, and a step may fail or the process may
crash before it.

| code | model |
|---|---|
| `events.jsonl`, `.bak` | `path`, `bak`: records, how the last one ends, whether every line can be parsed |
| `EventStore.#seq`, `OrchestrationEngine.#threads` | `seq`, `threads` |
| `engine.append`, `store.append` | `Begin`, `Torn`, `Whole`, `Newline`, `AppendFails`, `Applied` |
| `#compactNow`, `replace` | `Compact`, `Written`, `Unlinked`, `Parked`, `Swapped`, `SwapFails`, `Restored`, `Cleaned`, `CompactFails` |
| `store.open`, `engine.open` | `RecoverBackup`, `RecoverTail`, `Open`, `Begin` while `"opening"`, `Compact` |

A thread's projection is the set of the events it was built from, so "what the
server shows" and "what a restart would show" can be compared; what single
events do to a projection, and the limits compaction trims history to, are left
out. A file step takes effect at once: a crash is one of the process, not of
the operating system. The temporary file is not kept, since nothing reads one
that another process left. Thread ids are not used again after a deletion.

`DurableLog` is what the server relies on: per thread a log that only grows or
is deleted, whose events are numbered without gaps, of which a crash loses
nothing that was shown. `IsDurableLog` maps its `log` to what a restart would
read at that moment (the log, or the backup when there is none), `shown` to the
projections and `up` to a running server; every step of a compaction and of a
recovery must then be a stutter.

In `server`: 2 threads, 3 appends, 2 failed steps, 1 crash, `IsDurableLog`, with a
backup that can always be moved back (`RestoreFails = FALSE`). Three
appends are a creation, an event and one more of either thread, enough for a
compaction between two events of a thread and an event after it. In
`store_torn_append` one append fails within its record and `LogReadable` is
refuted: the append after it makes the log unreadable.

### WorkspaceLease

Git actions against turns, over several threads. `lease[a]` is a request's place
in `acquireGitWorkspaceLease` with the lease it has registered, `stage[t]` a
thread's admission and turn; `wake[t]` is a `startNextQueued` that a handler or
a settlement still owes; `late[t]` counts cancelled prompts that the agent still
runs. Paths, their overlap and what Git says of them are
constants, so the file system and Git stay as they are.

| code | model |
|---|---|
| `gitWorkspaceLeases`, `pending` | `lease`, `Pending` |
| `threadHasWorkspaceWork` | `HasWork`: admission, turn or cancellation that is not delivered (`stage`), queued prompts, background tasks and approvals (`tasks`) |
| `threadTouchesWorkspaceLease` | before its await `Blocked`, after it `Checked` |
| `acquireWorkspaceLease`, `acquireGitWorkspaceLease` | `Acquire`, `Identified`, `ThreadChecked`, `GitFails` |
| `releaseGitWorkspaceLease` | `Release`: it starts every queue in the same step, as the code does without an await |
| `runNextQueued`, `startQueuedTurn`, settlement | `StartNext`, `Checked`, `Started`, `StartFails`, `Settled` |
| the end of a cancellation, `session/prompt` returning after it | `Settled` with `late`, `LateReturn` |
| `registerBackgroundTasks`, approvals; their end | `NewTask`, `TasksEnd` |

A refused request changes nothing and is no step. An async function that
returns resumes its caller before the event loop turns, so a negative check and
the end of its admission are one step. The start of a turn and the queue's own
races are `TurnQueue`'s.

A turn is work until its cancellation was delivered (`cancelThreadTurn` drops
`turnCancellations` then). The cancelled prompt goes on in the agent until it
returns, and what it registers then (`startQueuedTurn`, `registerBackgroundTasks`)
may come while a Git action has a lease. The code has no guard there, so
`Exclusion` cannot hold of those tasks: `tasks[t]` keeps apart the ones that were
`"seen"` and the ones that came of a cancelled prompt while some lease was there
(`"unseen"`), and `Exclusion` is about turns and seen tasks. `ExclusionOfAll` is
the same of all tasks; TLC refutes it (see "Known limits").

In `server`: 2 Git actions and a clone; threads in a subdirectory, a worktree and
outside Git; 2 prompts, 1 failing call: `Exclusion`, `LeasesDisjoint`. In
`progress`: two threads, no failure, `QueueRuns`. Three requests are two Git
actions that race each other by different paths of one repository and one that
holds a path without a repository. A failed start leaves its prompt queued on
purpose until something starts the queue, so liveness is checked without
failures.

### RecoverableJson

`recoverable-json.ts` by its steps: `Open` with `RestoreTemporary`,
`RestoreRemove`, `RestoreRename` is `readRecoverableJson`; `Write`,
`WriteTemporary`, `RemoveBackup`, `Move`, `Install` is `writeRecoverableJson`;
`Fails` and `InstallFails` are its catch, `Crash` stops it anywhere and may leave
the temporary file torn. `NeverLost` (`tools`): what a restart would read is what
the program was last told is written. Three values, any sequence of writes,
crashes without bound. The model has the constant `UndoFails`: with it the rename
that moves the backup back may fail as well (see "Known limits").

### ThreadCreation

One creation per id, `op[i]` the place of the request that works on it,
`journal` the reservations and receipts in memory, `disk` the file with the value
before (what a backup restores after a power loss), `sessions` and `asked` the
runtime's side.

| code (`server.ts`) | model |
|---|---|
| `reserveThreadCreation`, `baselineThreadCreation`, `requestThreadCreation` | `Request`, `Baseline`, `Ask`, each a journal write `BeginWrite`, `EndWrite` or `WriteFails` |
| a retry that finds a reservation | `RequestAgain`, `AskAgain`, `Resume`, `Adopt` (the sessions that are new since the baseline) |
| `session/new` and its answer | `SendNew`, `MakeSession`, `Bind`, `Rejected`, `Unanswered` |
| `bindThreadCreation`, thread.created, `completeThreadCreation` | `Bind`, `Store`, `Created`, `Fail` |
| a deleted thread | `Delete` |
| load at a start | `Open`, `Restore`, `OpenRestored` |

`OneSessionEach` (`server`): at most one session is ever made for an id. One chat
with a worktree and one side chat in a shared folder, which is where candidates
of two creations may be mixed up; two crashes, one failure, power loss.

### RuntimeIngestion

`ingress` is the chain of received events, `taking` how far its first is,
`pending` and `timer` the buffer, `tail` the chain of writes. `engine` is the
engine's own queue (`OrchestrationEngine.append`), first in, first out: the events
of a write go into it one by one (`Submit`, `Written`), and so do the turn's start,
its phase and its end (`Appends`, `Started`, `Stopping`, `Ended`), behind whatever
is being written. The owner of the
turn (`startQueuedTurn`, `cancelThreadTurn`) waits by `FlushRound`, `FlushDone` or
`FlushTimesOut` before it ends the turn. `Restart` replaces the runtime: what the old
one sent is refused as stale. `WriteFails` is an append that fails: the rest of its
buffer is lost, the prompt's error path flushes once more, and when that fails too
the turn stays. `StoredInOrder` (`server`): three chunks of two keys and direct
ones, a buffer of two: a chunk is merged, one is written at once because the
buffer is full, and one is left to the timer. `IsSettled` (`progress`): two
chunks, a restart and two failed writes.

`StaysInTurn` is refuted (`ingestion_late`, four chunks): a stop waits 250 ms for
output. While a full buffer is written its events go to the engine one after the
other; when the first of them is slow, `TurnCancelled` is put behind it and ahead of
the second, and a chunk that waits for the buffer to be written is taken only when
the turn is over.

### BackgroundTasks

`kimi` is what Kimi's records say, `status` what the log says, `chain` is
`backgroundTaskMutation`. `Report`, `Begin`, `Consider` register the candidates of
a turn; `Poll` and `Watch` are the monitor, `EndTask` and `CloseReport` an end,
`Crash` and `Reconcile` the start after it. `TasksAreBounded` (`server`):
limits of active and monitored tasks and one end per task; `TasksSettle`
(`progress`). Two tasks of a thread that may have one make the second wait or be
refused; the monitor's limit is 2.

### RuntimePolicy

The gates between work and what must not overlap it. `ops` counts admitted
requests per runtime, `turn` and `runtime` a chat's prompt and process, `change`
the handler that holds policy keys and the step it waits at, `lease` and
`confirmed` an update.

| code (`server.ts`) | model |
|---|---|
| `canOperate`, `beginRuntimeOperation`, `ensureRuntime` | `CanOperate`, `Begin`, `Ensure`, `End`, `Started` |
| `runNextQueued`, `startQueuedTurn` | `RunNext`, `EnsureTurn`, `StartTurn`, `TurnEnds` |
| project approvals, sign-in, sign-out | `Acquire`, `Close`, `Closed`, `Release`, `GiveBack`, `StartLogin`, `LoginEnds` |
| schedules and their results | `CheckSchedules`, `RunSchedule`, `SchedulesChecked`, `Recorded` |
| `env.prepareUpdate`, `env.confirmUpdate`, `env.cancelUpdate` | `Prepare`, `Confirm`, `ReleaseLease` with `Blocked` |

`NothingIsCutOff` and `UpdateIsQuiet` (`server`): two runtimes (a change of one
project must not touch the other), two windows, two requests.

### AgentRuntime

The process behind the chats of one runtime key, and what they do with it. A
client is started once and has one process; `due` holds promises that settled in
this turn of the event loop, whose continuations go before anything else.

| code | model |
|---|---|
| `#child`, `#connection`, `#closing`, calls of `terminateChild` under way | `client[c]`: `process`, `open`, `closing`, `ending` (who awaits it) |
| `close`, `#invalidateConnection`, `#handleConnectionClosed` | `Close`, `CloseSettles`; `Invalidate`; `StreamEnds`, `StreamGone` |
| `terminateChild` | `Exits`, `Survives` |
| `runtimes`, `runtimeEventSources`, `runtimeStarts` | `runtimes`, `source`, `start` |
| `ensureRuntime`, `startRuntime` | `Await`, `StaleClosed`, `NewClient`, `Initialized`, `InitializeFails`, `InitializeTimesOut`, `StartInvalidated`, `StartFails` |
| `ApprovalBroker` | `requests[c]`, the position in it being the number: `Ask`, `Respond`, `Cancelled` |
| `ingest` of a permission request, `engine.append` | `ingress`, `Ingest`, `appends` with `Asked`, `Answered`, `StopResolved`, ... |
| `threads.respondToRequest` | `Answer`, `Answered` |
| `threads.interruptTurn`, `resolveThreadApprovals`, `cancelThreadTurn` | `Stop`, `StopResolved`, `Stopping`, `Delivered`, `DeliveryFails`, `DeliveryTimesOut`, `DeliveryInvalidated`, `RuntimeClosed`, `Flushed`, `CancelSettles` |

`appends` is the engine's tail, which takes the events of all chats in the order
they were appended: an answer reaches the broker only when its event is stored,
and by then the runtime it was meant for may be gone. The start of a prompt is
its wait for the runtime and its `TurnStarted`; sessions, checkpoints and the
queue are `TurnQueue`'s. Two stops of one chat at once, failed appends, a crash
and the closing of runtimes by a policy change (`RuntimePolicy`) are left out.

In `tools`, three instances. One chat of two turns, whose agent may ask twice in
each of two processes, an answer, a stop and a fault, and one whose agent may ask
three times in each, without the answer: `AskedIsShown`, an agent does not wait for
an answer that nobody is asked for. Two chats of one runtime whose three
processes may outlive their termination, two faults: `OneAgent`, no second
process is started beside one that lives.

Both properties have an exception that the code makes necessary, and their
comments name it. A stop resolves the approvals it read at its start one by one
(`resolveThreadApprovals`); `claimed` marks what a new runtime asks meanwhile under a
number that is still to be resolved, which `AskedIsShown` leaves out. Two approvals
in a process are too few for that, three are enough. A new process that neither
starts nor can be closed is `left`: nothing refers to it any more
(`server.ts:800-804`), and `OneAgent` does not count it.

### Schedules

`chain` is `#mutation`; an operation counts when it is written (`Mutate`,
`MutateFails`). `RunDue` asks for a claim, `Enqueue` queues a claimed slot and
asks to record the result. The next slot is the next day: what the calendar
computes is data. `SlotsRunOnce` (`server`): one schedule over three days, one
edit in between, which starts a new life in which a slot may come again.

### RendererSync

`socket` is the ordered WebSocket, `batch` the events of the current frame,
`list` the effect that reads the thread list after a connection and retries when
something changed meanwhile (`Stable`). A thread is the sequence of its
unrepeatable events, so applied twice or lost shows. `ShowsEachEventOnce`
(`client`), in two instances: with a lost connection, and with three list
attempts, after which the code gives up.

### TurnView

The same events through three functions: `Apply` (the server's `#apply`), `Mutate`
(`mutateThread`) and `Project`, the incremental `applyTurnProjectionEvent`, against
`Build`, the full `buildTurnProjection`. What the server emits is an environment
with its guards (`Prepare` to `EndTurn`, `Revert`). `ShownIsRebuilt`, `SameThread`,
`UndoIsAccepted` (`client`): six events with a tool and a turn made
up for late output, and seven events of turns, checkpoints, undo and an approval.

### Delivery

The supervisor of `connection.ts` (`Dial`, `Wake`, `Opens`, `Drop`, `CloseEvent`,
`Retry`), the one creation request with its replay (`Retain`, `Reject`, `Settle`)
and the receipts of `App.tsx` (`Create`, `Reply`, `Reload`). The server refuses a
request before it looks at its id while `refusing`, which is an update lease or a
policy change; `refused` is the history of the ids that met with that. `FoundAgain`
(`client`): a chat that exists and was not acknowledged is still known under its
id, unless that id was refused so. Without the exception the property is
`NeverTwice`, which TLC refutes (`delivery_replay`): a creation was carried out, its
answer was lost, and its replay is refused; the renderer takes the refusal for the
outcome and deletes the receipt. `Reconnects` (`progress`).

### AppUpdate and Sidecar

`AppUpdate` is `installUpdate` of each window (`Prepare`, `Downloaded`, `Confirm`,
`StopServer`, `Installs`, `Recover`, `Release`) with its cancellation (`Cancel`,
`CancelCleanup`); the server's side is the lease and whether it has work.
`LeaseIsGivenBack` (`client`); `CutsNothingOff` is refuted (`app_update`).

`Sidecar` is the shell: `Launch` with the instance mutex, `Spawn`, `Attach` (to
the job that ends the server with the shell), `WaitReady`, `Probe`, `Recover`,
`Stop`, `Reaped`. Other programs may take or leave the port at any time.
`OneServer`, `ShownIsOurs` (`client`): two launches, four processes, two attempts.

### Migration, MigrationApproval, FeedPreparation, FeedPublication

`Migration` is a run of the executor: the lock and its recovery (`Open` ...
`WriteLock`), the replay of the journal (`LoadJournal`, `Validate`, `Inspect`), one
remote step with its records (`Decide`, `AppendRecord`, `Execute`, `After`), and
the final check (`VerifyPages`, `Final`, `Unlink`). `applied` is the history of
steps that took effect. Three instances in `tools`: runs that follow each other
with crashes, lost answers and failed writes; four runs at once, two of which may
recover a stale lock; and two at once while somebody else changes the remote.
`AppliedOnceInOrder` and `ExclusiveWhileIntact`; `Completes` in `progress`.

The code lets every run that is given the lock's hash recover it, and its checks,
its rename and its new lock are separate steps, so that two that recover the same
lock may both execute (see "Known limits"). `evidence` is the file each recoverer
moves the lock to; `Intact` says that each such file holds the lock it is named
for. `ExclusiveWhileIntact`: two runs execute at once only after a rename took a
lock that another recoverer had created in place of the stale one. Every other
crash, recovery and late run is excluded. The instance has two recoverers and two
other runs, so that the overlap and what follows from it are reached.

`MigrationApproval`: manifest, snapshot and repositories are edited between any
two reads of the checker and of the executor. `OnlyCheckedRuns`: what is executed
is a manifest the checker accepted whole.

`FeedPreparation`: two preparations with the same output paths, the Release
directory edited meanwhile, failures at every step. `PreparedIsComplete`.

`FeedPublication`: two runs of `release.yml` through `release-feed.mjs`, tags
moved, other commits on the branches, Pages that publish late; the concurrency
group is not relied on. The steps of `release.yml` that run on Windows are
PowerShell scripts of several commands, and PowerShell goes on after a command that
fails and ends with the exit code of the last one. The model therefore lets only the
last command of such a step stop its job: the authorization before
`publish-release` (`Release`) and before the canonical feed (`Compare`), the check of
the canonical feed in `Preflight`, and the check of a reused Release's files in
`Build` stop nothing. `NoRollback`, `OffersTheRelease` hold all the same, also with
two tags that move (`FeedMaxTags = 2`, 8 * 10^5 states, checked once and not in the
run).

## Fairness

Liveness is checked in `queue_liveness` and `progress`. Weakly fair are the steps
a scheduler owes: continuations of the event loop and of promise chains, timers
that are set, events the browser delivers, writes that were begun, the answer of
the agent, the restart of a crashed server; in `progress` also that a day passes,
that GitHub publishes its pages and that the operator starts the migration again
after a run that stopped. Requests of users, edits, faults, crashes and lost
connections are never fair. No strong fairness is assumed. In `progress` fairness
is conjoined per part, each under `part = ...`, so that a part is not excused by
another one.

## Known limits of the code

The violation runs show six disagreements with the repository's documents or
comments (PROJECT.json, "findings"). TLC refutes the following as well, under the
constants named; the definitions are kept in the modules as a record and are in no
run.

| definition | instance | what happens |
|---|---|---|
| `TurnQueue!EditsTakeEffect` | as in `queue_safety` | an accepted edit of the prompt being admitted is lost when another was moved in front of it (`server.ts:1660`) |
| `EventStore!ShownIsStored` | `MaxFaults = 2`, `RestoreFails = TRUE` | `replace` and its restore fail: the history stays in the backup, and the server goes on with a new log (`event-store.ts:109`) |
| `RecoverableJson!NeverLost` | `UndoFails = TRUE` | as above for a JSON file; a failed write may then take effect at the next start |
| `ThreadCreation!OneSessionEach` | `CrashesInLoad = TRUE` | a crash between restoring the journal and rewriting it loses the mark that it may be old (`server.ts:2257`) |
| `RendererSync!AnswersAreCurrent` | as in `client` | the answer of setting or clearing a goal replaces the thread while its events wait in the frame: they are applied twice (`App.tsx:2579`) |
| `TurnView!ShownInOrder`, `ShowsProjection` | as in `client` | a rebuild puts late output behind started turns, the step keeps it before (`App.tsx:6350`); an activity of an ended turn may keep another status than the server's (`App.tsx:6221`) |
| `TurnView!ShownIsRebuilt` | two tools | a tool made outside of a turn and updated within one, after another was made there, is shown behind it and by a rebuild before it (`App.tsx:6401`) |
| `WorkspaceLease!ExclusionOfAll` | as in `server` | a cancelled prompt returns after its cancellation was delivered and registers a background task although a Git action has the workspace by now (`server.ts:2621-2629`, `2830`) |
| `Sidecar!OneServer` | `DiesUnattached = TRUE` | a shell that dies between starting the server and putting it in its job leaves it running |
| `AgentRuntime!AnswersAreTheirs` | 2 chats, 1 answer, 2 clients, 1 request | an approval of a runtime that is gone stays shown; answered, it is taken for the request of the same number that another chat made in the next runtime (`server.ts:1770`, `approval-broker.ts:12`) |
| `AgentRuntime!OneAgent`, counting also the process that is `left` | `KillFails` | a start that fails although its process cannot be ended leaves the process, and the next prompt starts another (`server.ts:800`) |
| `AgentRuntime!AskedIsShown`, also of what is `claimed` | `MaxRequests = 3` | a stop of a chat that shows three approvals of a runtime that is gone resolves them one by one, from a list it read at the start: a prompt that starts meanwhile may have the third approval of its own runtime taken away, which stays unanswered (`server.ts:2578`) |
| `Migration!Resumable` | `LateClose = TRUE` | GitHub closes a pull request after the step that expected it closed (`execute-approved-migration.mjs:572`) |
| `Migration!RecordsAreAtomic` | `TornWrites = TRUE` | part of a record stays and no later run accepts the journal (`:958`) |
| `Migration!StaleLockRecoverable` | a crash in `WriteLock` | an empty lock has no hash to recover it with (`:947`) |
| `Migration!ExclusiveExecutor` | two `Recoverers` at once | both pass the checks of the same stale lock, the second renames the first one's new lock (`:938`) |

Met while reading, and part of the models without a property of their own: after a
third disturbed list the view stays as it was (`App.tsx:2254`); an approval asked
between `resolveThreadApprovals` and the cancellation of its session stays shown
although nothing is pending (`server.ts:2577`); an
`online` event while a socket is closing skips the retention of a request; a
prompt refused during a policy change may wait although the keys are released
(`RuntimePolicy`, "blocked"); a claimed slot is lost by a crash before it is queued,
and a schedule deleted in between still runs once; a rerun of a half published tag
is refused once `main` has moved on, although `docs/UPDATER_FEEDS.md` advises it; the
evidence file of a preparation that failed while writing it is not removed; the
executor refuses a few manifests the checker accepts.

## Proofs

Eight modules hold theorems. Each theorem names what it assumes of the constants
and holds for every value that satisfies it, so also for numbers of prompts, faults
and crashes no run could reach. The argument is the same everywhere: an invariant
(`IInv`, `PolicyInv`, `TaskInv`, `UpdateInv`, `FeedInv`, ...) that holds initially and
that every action preserves, one lemma per action or group of actions, and the
property as a consequence. The invariants were checked with TLC before they were
proved.

| module | about | properties |
|---|---|---|
| `TurnQueueProofs` | `TurnQueue` | all its safety: `SubmittedOnce`, `AcceptedBeforeStart`, `AcceptedIsDurable`, `ActiveTurnIsDriven`, `OldPromptsAreCancelled`, `DroppedStaysDropped`, `LaunchAfterCancel` |
| `EventStoreProofs` | `EventStore` | `IsDurableLog`, `ShownIsStored`, `LogReadable` |
| `TurnViewProofs` | `TurnView` | `ShownIsRebuilt`, `SameThread`, `UndoIsAccepted` |
| `RendererSyncProofs` | `RendererSync` | `ShowsEachEventOnce` |
| `MigrationProofs` | `Migration` | `ExclusiveWhileIntact`, `AppliedOnceInOrder` |
| `ServerProofs` | `MCServer`: leases, `RuntimePolicy`, `BackgroundTasks`, `Schedules`, `RuntimeIngestion`, `ThreadCreation` | `Exclusion`, `LeasesDisjoint`, `NothingIsCutOff`, `UpdateIsQuiet`, `TasksAreBounded`, `SlotsRunOnce`, `StoredInOrder`, `OneSessionEach`, and `IsDurableLog` from the module above |
| `ClientProofs` | `MCClient`: `Sidecar`, `AppUpdate`, `Delivery` | `OneServer`, `ShownIsOurs`, `LeaseIsGivenBack`, `FoundAgain`, and those of `RendererSync` and `TurnView` from the modules above |
| `ToolsProofs` | `MCTools`: `RecoverableJson`, `FeedPreparation`, `FeedPublication`, `MigrationApproval`, `AgentRuntime` | `NeverLost`, `PreparedIsComplete`, `OffersTheRelease`, `NoRollback`, `OnlyCheckedRuns`, `OneAgent`, and those of `Migration` from the module above |

The last three extend the modules the runs check, so that their theorems are about
the very definitions TLC evaluates; the instances of the parts have their
constants in `Server.cfg`, `Client.cfg` and `Tools.cfg`, and the theorems leave them
open. A part with a long proof has it in a module of its own, which is
instantiated with the same substitution (`StoreFacts`, `SyncFacts`, `ListsFacts`,
`ViewFacts`, `UndoFacts`, `LockFacts`, `OrderFacts`); a lemma `...Behaviours` shows
that both instances have the same behaviours. `ServerIsSafe`, `ClientIsSafe` and `ToolsAreSafe` put the
parts together again: each behaviour of the run is one of every part
(`ServerBehaviours`, ...), since the parts a step is not about stay as they are.
Where two parts of `MCTools` share variables (the instances of `Migration` and of
`AgentRuntime`), the property is stated for the part it is about, as `part` says; the
two instances of `RendererSync` in `MCClient`, and the two of `TurnView`, share theirs
too, and both have the properties.

`TurnQueueProofs` rests on `QueueAssumption` alone (finite sets, an owner is a
prompt, a handler or the starter and no two of these, bounds are numbers). None of
the properties is inductive. `IInv` adds what a step relies on:

- `Quiet`: a server that is down has no handler, write, append or admission
  left, so a restart begins from the disk alone.
- `WritesOK`: no snapshot on its way to the disk holds a prompt twice; without
  it a late write could make the queue file repeat one.
- `Insertions`: two handlers never insert the same prompt, one that is being
  inserted has no receipt, and one at the gate or rolled back is not queued.
- `WaitingOK`: a submission in the queue is accepted or still held by the gate,
  and has not run. This is what `Next1` needs to admit only accepted ones.
- `AdmissionOK`: the receipt of the admitted prompt says on which side of
  `TurnStarted` the admission is, and nothing admitted was handed over before.
- `HandedOver`: what was handed over, or is active, has a receipt that says so.

`Safe` is `IInv` with seven layers on top, each kept by every step with the help of
those below it:

- `Durability`: an accepted prompt that nobody asked to drop is in the queue file,
  and in every snapshot of it that is still to be written.
- `SentOK`, `PassedOK`: nothing waits that was not submitted; what starts, runs or
  is to be dropped is past the gate.
- `BegunOK`: what is active, named by a request or with the agent has begun and
  will not begin again; an active turn has a handler, an admission or an agent
  that ends it (`ActiveTurnIsDriven`).
- `OwnersOK`: each pending snapshot has one owner that waits for it.
- `GoneOK`: a removal that was recorded is in memory and on disk; one that waits
  for its write is in memory and in the snapshots from its own on.
- `CancelOK`: a call of the agent that was not cancelled belongs to the active
  turn, or its cancellation is being sent and holds the queue.

The lemmas `...Steps` say how any step changes one variable (the queue, the
snapshots, a receipt, a request) and by whom, so that a layer is kept case by case
of what changed. Recovery closes the argument: `Recoverable` keeps only untracked
prompts and those whose receipt is still queued, so `HandedOver` survives a crash
at any point.

Leases (`ServerProofs`, from `LeaseAssumption`, whose one fact about paths is that
overlap is symmetric). The invariant says what each side's first check is worth
after its await:

- `HeldOK`: an admission that still asks Git has its path clear of every held
  lease, and what works is clear of it by path and repository. Tasks that a
  cancelled prompt registered under a lease are not part of it, as in `Exclusion`:
  a lease that is asked for later does find them (`HasWork`).
- `AskingOK`: a lease that asks about threads has every thread that could work
  before it, or without conflict behind it. It is preserved because a pending
  lease keeps every thread from being admitted.
- `ApartOK`: leases whose workspace is known are apart.

`RuntimePolicy` (`ServerProofs`, from `PolicyNamed`: there is a runtime key, and
`None` is no key or window). `KeysAreHeld`: a change holds every key and excludes a
lease; `ChangeIsQuiet`: while it does, no request is admitted, no runtime starts,
and a chat whose runtime is still to be closed is idle; `LeaseIsQuiet`: while a
window prepares an update nothing that blocks one begins. Both need that the check
and the claim are one step of the event loop.

`EventStoreProofs` assumes (`Assumed`) that threads are finite, bounds are numbers,
no append fails within its record (`MaxTorn = 0`) and a backup can be moved back
(`~RestoreFails`). The last two are exactly the limits TLC refutes without them.
`IInv` relates the lines of the file that counts now (`Cur`, the log or the backup)
to memory:

- `LinesFit`, `MemoryFits`: per thread the numbers run on without a gap from the
  snapshot or creation that comes first, in the file as in memory.
- `FileIsShown`: what the file holds is what is shown, and the record being
  appended once it is whole.
- `LineFits`: the record being appended has the next number of its thread.
- `Places`: which of log and backup there is at each step of a replacement.

The middle of the module computes what a replay yields (`AppendReplay`,
`CompactedIs`): what a thread is shown begins at its last creation, snapshot or
deletion and ends at the end of the file, so an appended line changes one thread.
The refinement then goes step by step (`StepsRefine`): a whole line is the append,
its application shows it, an end of the process restarts, and all else stutters.
For `LogReadable`, `Tails` says where a record may end without its newline.

`BackgroundTasks` (`ServerProofs`, `TaskLimits`: finitely many tasks, the limits are
numbers). `TaskLogOK`: a task is ended once and is in the order of registration
once; `WithinLimits`: what runs and what is watched keeps within its limits;
`TaskChainOK`: what an operation of the chain found room for is at most the room
that is left when it is written.

`Schedules` (`ServerProofs`) assumes that `None` is no schedule. `ClaimsPassed`: a schedule is
past every slot that was claimed, or was edited or deleted since; `GoneOrNew`: a
schedule that is not there was deleted or has no history; `AskedRight`: the chain
holds at most one creation of a schedule that was never there. They must hold
together, since an operation of the chain may be written long after it was asked
for.

`RuntimeIngestion` (`ServerProofs`, `IngestionNamed`: `None` is nothing that is being
taken in). `LineUp`: the log, the writes, the buffer and the chunks that wait follow
each other, each in order of arrival. Two things make it inductive. A chunk that is
being taken in is in its write already, though it is still the first of the chain,
so it counts once (`ChunksWaiting`); and while one is, nothing is buffered, so that
no buffer can overtake it. A write that fails, is dropped as stale or takes the
rest of its buffer along only removes chunks from the line.

`ThreadCreation` (`ServerProofs`, `CreationNamed`: `None` is nothing else, a session of
somebody else has no id of ours) is proved for the instance in which no crash falls
into the load of the journal (`CrashesInLoad = FALSE`; with it TLC finds a second session, see "Known
limits"). `Safe`: an id that has asked, or is about to, has its baseline on disk
and in the value before it, and whatever is read next says that it asked or was
given a receipt; `WishOK` and `WriterOK` say the same of the write under way;
`Once`: an id that is being asked for has no session yet.

`Delivery` (`ClientProofs`, `DeliveryNamed`: `None` is no request) is proved with the
server's early refusals, for the ids that met with none. `InTurn`: the message the
waiting request sent last is the last one of its
id, on the wire and in the server, so that only its answer may settle the receipt,
unless the id was refused; `Distinct`: an id belongs to one configuration;
`Recoverable`: what exists, or may come to exist, and was not refused, is in a
receipt, in memory and in storage. A lost connection may lose
any suffix of what was sent over it.

`RendererSyncProofs` (`SyncNamed`: `None` is no sequence of events). `ListOK`: a list
that may still be installed shows the server's threads once what is behind it on the
socket was applied, or something comes before it and will disturb it; that is why a
list the server read too early is never shown. `ShownOK`: the same of what is shown, or
the thread was deleted while the connection was down, is kept, and nothing on its way
is about its being there. Installing the list needs that an event which makes or
removes a thread forgets what the thread was (`Touched`). What a sequence of messages
does to the threads (`Applied`) is reasoned about by the least position at which a
claim fails, since the library's induction theorems take an operator.

`TurnViewProofs` (`NamesOK`: `None` is no turn or tool, the turns made up for late
output are not those that are started) is about one thread, its events without any
bound, and a renderer that may reload between any two. `IInv` is `Good`:

- `ThreadOK`, of the server's thread and of the renderer's: tools and approvals have
  their ids once, the numbers of activities and texts are of events that happened,
  and an activity that names a tool names one that is there.
- `SameStatus`: everything but the activity is the same on both sides.
- `Together`: the two activities are the same for the active turn and have the same
  entries elsewhere, of which those of ended turns may differ in their status. The
  active turn's must agree for the end of the turn to settle both alike.
- `Ordered`: the active turn was started, one that is being prepared was not.
- `ShownOK`: the cached marks are those of the thread, every turn of it has one view,
  and each view `Shows` its turn: what the rebuild selects for it.

`Shows` does not mention the other turns, so that a step is reasoned about for the
turn it is about and `Alike` says of every other that nothing it shows has changed.
What the rebuild selects is `Of(s, turn)`; the first part of the module proves, by
induction along the sequence, what it and the searches for an entry return, and what
one appended or replaced element does to them. (The induction is carried out on sets,
by `AllNumbers` and `AllSequences`, since the library's theorems take an operator.)
For `IncrementalIsRebuilt` there is one more hypothesis, at most one tool
(`\A a, b \in Tools : a = b`): with two the order of tools may differ, see "Known
limits", and `ShownIsRebuiltButForOrder` says that this is all. The instances TLC runs
have one tool and none.

`Sidecar` (`ClientProofs`) assumes that `None` is no process and no launch, and that
the shell does not die between the start of a server and its job
(`~DiesUnattached`, see "Known limits"). `HolderHasAll`: only the launch with the
mutex has a child or a command; `RunningIsHeld`: whatever runs is its child or the
process of its command; `OneAtATime`: a start finds nothing running; `StartedOnce`:
a process is never started twice.

`AppUpdate` (`ClientProofs`) assumes that `None` is no window. `HolderKnows`: who
holds the lease is connected and remembers that it prepared, which is what every
path of the cleanup reads.

`RecoverableJson` (`ToolsProofs`) assumes `~UndoFails`. `FilesAt` says for each step
which file has which value: when the primary is missing, the backup has the value
that was last written, and between two renames the temporary file is complete.

`FeedPublication` (`ToolsProofs`, `FeedNamed`: `None` is no payload, branch or tag,
bounds are numbers). `DirOK`: what a run is to publish has its version, and from
the first feed on is what the immutable Release of that version holds; `BaseOK`:
the checkout a run compares with is a past of the branch, and the branch itself
while their heads agree, so that a push that is accepted advances it.

`FeedPreparation` (`ToolsProofs`, `PrepNamed`: `None` is no preparation). `PrepInv`
has `OutputsOK`, a preparation remembers every output it made and its place says
which those are, so that its cleanup removes its own and nothing else; and
`EvidenceOK`, evidence is of the repositories there, after the sources that were
read last had been verified.

`MigrationApproval` (`ToolsProofs`, `Prepared`: there is a repository). `ApprovalInv`
follows a manifest from the checker's reads to the printed phrase, to the
signature, to the executor: what was printed was verified whole, and the executor
runs only what has the phrase that was signed.

`Migration` (`MigrationProofs`, instantiated for each of the three instances TLC
runs). For the lock nothing is assumed but that `NoRun` is no run (`Named`): any run
may recover any lock. `KeepInv`: what a run is about to rename was the lock of a
dead run, and, while the files that keep recovered locks are intact (`Intact`), it is
that lock or is gone already, and a run that executes has the lock. Nothing makes
an evidence file that was overwritten intact again, so the invariant covers what
follows an overlap, too (`OneExecutes`). The steps take effect once as long as the
files are intact; `LocksStayIntact` shows that they are if of the runs that may
overlap one at most recovers locks (`OneRecovers`), which is how
`StepsTakeEffectOnce` is stated for the runs that follow each other. For the order,
`Listed` says that no pull request has the name of a push. `OrderInv`: whatever took
effect is done in the journal, or is the step under way, and then the remote
shows it or somebody else has changed the remote; `JournalOK`: the records are
those of the steps in order; `RunOK`: what a run read of the journal and of the
remote is still so wherever it acts on it. Together they say that a run that
finds a step without its record finds its effect too, so it does not repeat it.

`AgentRuntime` (`ToolsProofs`, `AgentNamed`: no chat is named like the other owners
of a promise). `MadeOK`: clients are made one after the
other; `AgentHolds`: a process that runs is the runtime's or that of the start under
way, which begins only without a runtime, or was left behind by a start that failed;
`DueOK`, `EndingOK`, `Cancels`: who is told
that a process is gone is told the truth, and waits for the client it is told of.

Checked by TLC only: liveness (`QueueDrains`, `AcceptedIsSettled`, `QueueRuns`,
`Completes`, `IsSettled`, `TasksSettle`, `Reconnects`), which needs fairness and
ENABLED and is out of the prover's reach; and one safety property, `AskedIsShown`. It
needs the order of the log's queue between runtimes.

## Not modelled

- Git commands and the parsing of their output: one request at a time, no state;
  `WorkspaceLease` has every wait for Git as a step.
- JSON-RPC framing, resumption of sessions and file access of the ACP client;
  its process, connection and time limits are `AgentRuntime`.
- Configuration defaults and MCP approvals: each request reads and rewrites one
  file.
- Terminals pass bytes through; remote access is mostly a library's TLS and
  cookies over a table of tokens; checkpoints are Git snapshots.
- Kimi capabilities, usage, export and diagnostics are stateless; the CLI is one
  sequential client.
- Of the modelled parts: image prompts and shutdown (`TurnQueue`), crashes and
  failed appends (`AgentRuntime`), the limits compaction trims history to
  (`EventStore`), the text of every message, overlapping creations
  of side chats (`Delivery`), the forms of manifests (`MigrationApproval`).
