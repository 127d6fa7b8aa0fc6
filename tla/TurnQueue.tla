------------------------------ MODULE TurnQueue ------------------------------
(***************************************************************************)
(* The prompt queue of one thread in the orchestration server              *)
(* (apps/server/src/server.ts, queue-safety.ts): admission of prompts,     *)
(* steering, stopping, removal, the start and settlement of turns, and     *)
(* what a restart recovers.                                                *)
(*                                                                         *)
(* Every await of the code is a point where other handlers run, so each    *)
(* handler is split there: an action is the code between two awaits.  The  *)
(* two queues behind the awaits are kept:                                  *)
(*   - writes:  the snapshots of pending-queues.json waiting in            *)
(*              queueWrites.tail;                                          *)
(*   - appends: the owners of the events waiting in the tail of            *)
(*              OrchestrationEngine.append.                                *)
(* A write or an append takes effect, and its owner goes on, in one step.  *)
(*                                                                         *)
(* A turn is named by the prompt it runs: within one life of the server a  *)
(* prompt leaves the queue when its turn starts and cannot enter it again. *)
(* Image prompts, which never enter the durable queue, are not modelled.   *)
(***************************************************************************)
EXTENDS Integers, FiniteSets, SequencesExt

CONSTANTS
  Prompts,         \* the prompts users and schedules submit
  Tracked,         \* those that carry a submissionId (schedules carry none)
  Handlers,        \* slots for concurrently running client requests
  Starter,         \* names the admission as the owner of a write or append
  None,            \* no prompt, no handler
  MaxWriteFaults,  \* failed writes of the queue file or of an acceptance
  MaxFaults,       \* failed preparations, deliveries, closes; lost runtimes
  MaxCrashes,      \* server crashes
  MaxAsks          \* requests other than sendTurn

ASSUME QueueAssumption ==
  /\ Tracked \subseteq Prompts
  /\ IsFiniteSet(Prompts) /\ IsFiniteSet(Handlers)
  /\ None \notin Prompts \cup Handlers /\ Starter \notin Prompts \cup Handlers
  /\ Prompts \cap Handlers = {}
  /\ {MaxWriteFaults, MaxFaults, MaxCrashes, MaxAsks} \subseteq Nat

VARIABLES
  \* Durable: the event log's projection and the queue file.
  receipt,     \* thread.submissionReceipts[].state
  active,      \* thread.activeTurnId; running is active # None
  disk,        \* pending-queues.json
  \* Volatile state of the server process.
  server,      \* "down", "recovering", "loaded" or "up" (a client has bootstrapped)
  queue,       \* turnQueues.get(thread)
  writes,      \* queueWrites: pending snapshots, oldest first
  appends,     \* owners of the pending appends, oldest first
  starting,    \* queueAdmissions.get(thread) and where runNextQueued is
  request,     \* the running request handlers
  delivery,    \* the cancellation promise each handler created
  cancelling,  \* turnCancellations.get(thread): the handler that set it
  runtime,     \* the agent process of this thread, and its closing
  prompt,      \* the session/prompt call of each turn and its settlement
  signalled,   \* outstanding prompts that a session/cancel has reached
  lease,       \* a Git action holds the workspace of this thread
  \* History of the requests, and budgets that bound the instance.
  sent,        \* prompts submitted at least once
  unwanted,    \* prompts some request asked to drop
  dropped,     \* prompts whose removal was recorded
  dispatched,  \* how often each prompt was handed to the agent
  writeFaults, faults, crashes, asks

durable == <<receipt, active, disk>>
volatile == <<server, queue, writes, appends, starting, request, delivery,
              cancelling, runtime, prompt, signalled, lease>>
history == <<sent, unwanted, dropped, dispatched>>
budget == <<writeFaults, faults, crashes, asks>>
vars == <<durable, volatile, history, budget>>

-----------------------------------------------------------------------------
(* Types *)

ReceiptState == {"none", "queued", "started", "completed", "removed", "payload_lost"}
StartStage == {"none", "lease", "prepare", "ready", "start", "persist", "abort", "refuse"}
RequestStage == {"idle", "gate", "insert", "accept", "rollback", "move", "edit",
                 "drop", "mark", "stopping", "flush", "ending", "settle"}
RequestKind == {"none", "send", "steer", "promote", "edit", "remove", "clear", "stop"}
DeliveryState == {"none", "sending", "closing", "safe", "unsafe"}
RuntimeState == {"closed", "open", "closing", "unproven"}
PromptState == {"none", "open", "answered", "failed", "ending", "stranded"}

Starting == [item : Prompts \cup {None}, stage : StartStage,
             cancelled : BOOLEAN, restart : BOOLEAN,
             outdated : BOOLEAN]  \* the prompt was edited after its admission took it
Request == [stage : RequestStage, kind : RequestKind, item : Prompts \cup {None},
            turn : Prompts \cup {None},  \* thread.activeTurnId of the handler's snapshot
            ref : {"none", "live", "stale"},  \* the QueueAdmission object it captured
            drop : SUBSET Prompts]            \* the items it removed from the queue
Write == [owner : Handlers \cup {Starter}, items : Seq(Prompts), fresh : BOOLEAN]

NotStarting == [item |-> None, stage |-> "none", cancelled |-> FALSE, restart |-> FALSE,
                outdated |-> FALSE]
Idle == [stage |-> "idle", kind |-> "none", item |-> None, turn |-> None,
         ref |-> "none", drop |-> {}]

-----------------------------------------------------------------------------
(* Helpers *)

Running == server \in {"loaded", "up"}
Queued == ToSet(queue)

\* Mutant: shift() the head, although steering may have put another prompt there.
WithoutHead(q, i) == IF q = <<>> THEN q ELSE Tail(q)

\* filter((item) => item.queuedId !== queuedId); a prompt is in the queue once.
Without(q, i) ==
  IF i \in ToSet(q) THEN RemoveAt(q, CHOOSE k \in DOMAIN q : q[k] = i) ELSE q

\* QueueInsertionGate.#pending: prompts whose insertion is not settled.
Inserting(r) ==
  {r[h].item : h \in {g \in Handlers : r[g].stage \in {"gate", "insert", "accept", "rollback"}}}

\* Mutant: a cancellation that is still being delivered does not hold the queue.
Next1Uncancelled(q, turn, adm, cancel, r) ==
  IF /\ adm.item = None /\ turn = None
     /\ q # <<>> /\ Head(q) \notin Inserting(r)
  THEN [NotStarting EXCEPT !.item = Head(q), !.stage = "lease"]
  ELSE adm

\* Mutant: a running turn does not hold the queue.
Next1Running(q, turn, adm, cancel, r) ==
  IF /\ cancel = None /\ adm.item = None
     /\ q # <<>> /\ Head(q) \notin Inserting(r)
  THEN [NotStarting EXCEPT !.item = Head(q), !.stage = "lease"]
  ELSE adm

\* Mutant: a prompt may start while its insertion is not settled.
Next1Inserting(q, turn, adm, cancel, r) ==
  IF cancel = None /\ adm.item = None /\ turn = None /\ q # <<>>
  THEN [NotStarting EXCEPT !.item = Head(q), !.stage = "lease"]
  ELSE adm

\* runNextQueued up to its first await: the guards, then queueAdmissions.set.
Next1(q, turn, adm, cancel, r) ==
  IF /\ cancel = None /\ adm.item = None /\ turn = None
     /\ q # <<>> /\ Head(q) \notin Inserting(r)
  THEN [NotStarting EXCEPT !.item = Head(q), !.stage = "lease"]
  ELSE adm

\* persistQueues: the snapshot is taken now and written after the earlier ones.
Persist(ws, owner, q) == Append(ws, [owner |-> owner, items |-> q, fresh |-> TRUE])

\* The oldest write ends.  After a failure the later ones write the queue as it
\* is when their turn comes (failureEpoch), not the snapshot they were given.
NextWrites(q, failed) ==
  LET rest == [k \in DOMAIN Tail(writes) |->
                 [Tail(writes)[k] EXCEPT !.fresh = @ /\ ~failed]]
  IN  IF rest # <<>> /\ ~rest[1].fresh
      THEN [rest EXCEPT ![1] = [@ EXCEPT !.items = q, !.fresh = TRUE]]
      ELSE rest

Writing(owner) == writes # <<>> /\ Head(writes).owner = owner
Applying(owner) == appends # <<>> /\ Head(appends) = owner

\* completeSubmissionReceipt for the turn of prompt i.
Complete(rs, i) ==
  IF i \in Tracked /\ rs[i] = "started" THEN [rs EXCEPT ![i] = "completed"] ELSE rs

WriteFault == writeFaults < MaxWriteFaults /\ writeFaults' = writeFaults + 1
Fault == faults < MaxFaults /\ faults' = faults + 1
Ask == asks < MaxAsks /\ asks' = asks + 1

Init ==
  /\ receipt = [i \in Tracked |-> "none"]
  /\ active = None /\ disk = <<>>
  /\ server = "loaded" /\ queue = <<>> /\ writes = <<>> /\ appends = <<>>
  /\ starting = NotStarting /\ request = [h \in Handlers |-> Idle]
  /\ delivery = [h \in Handlers |-> "none"] /\ cancelling = None
  /\ runtime = "closed" /\ prompt = [i \in Prompts |-> "none"] /\ signalled = {} /\ lease = FALSE
  /\ sent = {} /\ unwanted = {} /\ dropped = {}
  /\ dispatched = [i \in Prompts |-> 0]
  /\ writeFaults = 0 /\ faults = 0 /\ crashes = 0 /\ asks = 0

-----------------------------------------------------------------------------
(* threads.sendTurn and the schedules: enqueueUserTurn, enqueueScheduledTurn *)

\* A handler that placed a prompt goes on.  With a turn in its snapshot it
\* cancels that turn (cancelThreadTurn appends "stopping"); with the admission
\* it captured it cancels the admission; otherwise it starts the next prompt.
Placed(h, pending) ==
  IF request[h].turn # None
  THEN /\ request' = [request EXCEPT ![h].stage = "stopping"]
       /\ appends' = Append(pending, h)
       /\ UNCHANGED starting
  ELSE /\ request' = [request EXCEPT ![h] = Idle]
       /\ appends' = pending
       /\ starting' = IF request[h].ref = "live"
                      THEN [starting EXCEPT !.cancelled = TRUE, !.restart = TRUE]
                      ELSE Next1(queue, active, starting, cancelling, request')

\* Mutant: a retried submission is not looked up among the receipts.
UnansweredRetry(i) == i \in Tracked \/ i \notin sent

\* A retried submissionId is answered from its receipt or from the pending
\* admission and changes nothing, so only a first submission, or one that
\* failed, is taken.  A prompt without submissionId is a new one each time.
Unanswered(i) == IF i \in Tracked THEN receipt[i] = "none" ELSE i \notin sent

\* A prompt arrives and queues at the insertion gate.
Send(h, i, mode) ==
  /\ Running /\ request[h] = Idle
  /\ i \notin Inserting(request) \cup Queued
  /\ Unanswered(i)
  /\ request' = [request EXCEPT ![h] = [Idle EXCEPT !.stage = "gate", !.kind = mode, !.item = i]]
  /\ sent' = sent \cup {i}
  /\ UNCHANGED <<durable, server, queue, writes, appends, starting, delivery, cancelling,
                 runtime, prompt, signalled, lease, unwanted, dropped, dispatched, budget>>

\* The gate runs one insertion at a time, and only when no write is pending.
Insert(h) ==
  LET i == request[h].item
      steering == request[h].kind = "steer" /\ (active # None \/ starting.item # None)
      q == IF steering THEN Cons(i, queue) ELSE Append(queue, i)
  IN  /\ request[h].stage = "gate" /\ writes = <<>>
      /\ \A g \in Handlers : request[g].stage \notin {"insert", "accept", "rollback"}
      /\ queue' = q
      /\ writes' = Persist(writes, h, q)
      /\ request' = [request EXCEPT ![h] = [@ EXCEPT !.stage = "insert",
                       !.turn = IF steering THEN active ELSE None,
                       !.ref = IF steering /\ active = None THEN "live" ELSE "none"]]
      /\ UNCHANGED <<durable, server, appends, starting, delivery, cancelling, runtime, prompt,
                     signalled, lease, history, budget>>

InsertWritten(h) ==
  /\ request[h].stage = "insert" /\ Writing(h)
  /\ disk' = Head(writes).items
  /\ writes' = NextWrites(queue, FALSE)
  /\ IF request[h].item \in Tracked
     THEN /\ request' = [request EXCEPT ![h].stage = "accept"]
          /\ appends' = Append(appends, h)
          /\ UNCHANGED starting
     ELSE Placed(h, appends)
  /\ UNCHANGED <<receipt, active, server, queue, delivery, cancelling, runtime, prompt, signalled,
                 lease, history, budget>>

\* persistQueuedInsertion takes the prompt out again and the request fails.
InsertFails(h) ==
  LET q == Without(queue, request[h].item)
  IN  /\ request[h].stage = "insert" /\ Writing(h) /\ WriteFault
      /\ queue' = q
      /\ writes' = NextWrites(q, TRUE)
      /\ request' = [request EXCEPT ![h] = Idle]
      /\ starting' = Next1(q, active, starting, cancelling, request')
      /\ UNCHANGED <<durable, server, appends, delivery, cancelling, runtime, prompt, signalled,
                     lease, history, faults, crashes, asks>>

\* TurnSubmissionAccepted is in the log: the submission is now the server's.
Accepted(h) ==
  LET i == request[h].item
  IN  /\ request[h].stage = "accept" /\ Applying(h)
      /\ receipt' = IF receipt[i] = "none" THEN [receipt EXCEPT ![i] = "queued"] ELSE receipt
      /\ Placed(h, Tail(appends))
      /\ UNCHANGED <<active, disk, server, queue, writes, delivery, cancelling, runtime, prompt,
                     signalled, lease, history, budget>>

\* acceptQueuedInsertion: the append failed, the insertion is written away.
AcceptFails(h) ==
  LET q == Without(queue, request[h].item)
  IN  /\ request[h].stage = "accept" /\ Applying(h) /\ WriteFault
      /\ appends' = Tail(appends)
      /\ queue' = q
      /\ writes' = Persist(writes, h, q)
      /\ request' = [request EXCEPT ![h].stage = "rollback"]
      /\ UNCHANGED <<durable, server, starting, delivery, cancelling, runtime, prompt, signalled,
                     lease, history, faults, crashes, asks>>

\* The rollback's write ends, well or badly; the request fails either way.
RolledBack(h) ==
  /\ request[h].stage = "rollback" /\ Writing(h)
  /\ \/ /\ disk' = Head(writes).items /\ writes' = NextWrites(queue, FALSE)
        /\ UNCHANGED writeFaults
     \/ /\ WriteFault /\ writes' = NextWrites(queue, TRUE) /\ UNCHANGED disk
  /\ request' = [request EXCEPT ![h] = Idle]
  /\ starting' = Next1(queue, active, starting, cancelling, request')
  /\ UNCHANGED <<receipt, active, server, queue, appends, delivery, cancelling, runtime, prompt,
                 signalled, lease, history, faults, crashes, asks>>

-----------------------------------------------------------------------------
(* threads.steerQueuedTurn, updateQueuedTurn, removeQueuedTurn, clearQueue,  *)
(* interruptTurn                                                           *)

\* These handlers refuse while an insertion is pending (assertIdle).
Accepting(h) == Running /\ request[h] = Idle /\ Inserting(request) = {} /\ Ask

\* steerQueuedTurn: a queued prompt goes to the head of the queue.
Promote(h, i) ==
  LET q == Cons(i, Without(queue, i))
  IN  /\ Accepting(h) /\ i \in Queued
      /\ queue' = q
      /\ writes' = Persist(writes, h, q)
      /\ request' = [request EXCEPT ![h] = [Idle EXCEPT !.stage = "move", !.kind = "promote",
                       !.item = i, !.turn = active,
                       !.ref = IF active = None /\ starting.item # None THEN "live" ELSE "none"]]
      /\ UNCHANGED <<durable, server, appends, starting, delivery, cancelling, runtime, prompt,
                     signalled, lease, history, writeFaults, faults, crashes>>

Moved(h) ==
  /\ request[h].stage = "move" /\ Writing(h)
  /\ \/ /\ disk' = Head(writes).items /\ writes' = NextWrites(queue, FALSE)
        /\ Placed(h, appends)
        /\ UNCHANGED writeFaults
     \/ /\ WriteFault /\ writes' = NextWrites(queue, TRUE)
        /\ request' = [request EXCEPT ![h] = Idle]
        /\ UNCHANGED <<disk, appends, starting>>
  /\ UNCHANGED <<receipt, active, server, queue, delivery, cancelling, runtime, prompt, signalled,
                 lease, history, faults, crashes, asks>>

\* updateQueuedTurn: the text of a queued prompt is replaced, but not in the
\* admission that took it.  The guard looks at the head of the queue, where the
\* prompt of the admission need not be.
Edit(h, i) ==
  /\ Accepting(h) /\ i \in Queued
  /\ ~ (Head(queue) = i /\ starting.item # None)
  /\ starting' = IF starting.item = i THEN [starting EXCEPT !.outdated = TRUE] ELSE starting
  /\ writes' = Persist(writes, h, queue)
  /\ request' = [request EXCEPT ![h] = [Idle EXCEPT !.stage = "edit", !.kind = "edit", !.item = i]]
  /\ UNCHANGED <<durable, server, queue, appends, delivery, cancelling, runtime, prompt,
                 signalled, lease, history, writeFaults, faults, crashes>>

Edited(h) ==
  /\ request[h].stage = "edit" /\ Writing(h)
  /\ \/ /\ disk' = Head(writes).items /\ writes' = NextWrites(queue, FALSE)
        /\ UNCHANGED writeFaults
     \/ /\ WriteFault /\ writes' = NextWrites(queue, TRUE)
        /\ UNCHANGED disk
  /\ request' = [request EXCEPT ![h] = Idle]
  /\ UNCHANGED <<receipt, active, server, queue, appends, starting, delivery, cancelling,
                 runtime, prompt, signalled, lease, history, faults, crashes, asks>>

\* Mutant: a removal leaves the admission of the prompt alone.
KeepAdmission(hit) == starting

\* cancelQueueAdmission, for an admission the request names.
CancelAdmission(hit) == IF hit THEN [starting EXCEPT !.cancelled = TRUE] ELSE starting

\* The handlers that take prompts out of the queue: gone leaves it, and the
\* admission of a prompt they name is cancelled.
Drop(h, kind, gone, left, hit) ==
  /\ queue' = left
  /\ starting' = CancelAdmission(hit)
  /\ unwanted' = unwanted \cup gone
  /\ writes' = Persist(writes, h, left)
  /\ request' = [request EXCEPT ![h] = [Idle EXCEPT !.stage = "drop", !.kind = kind,
                   !.drop = gone, !.ref = IF hit THEN "live" ELSE "none",
                   !.turn = IF kind = "stop" THEN active ELSE None]]
  /\ UNCHANGED <<durable, server, appends, delivery, cancelling, runtime, prompt, signalled, lease,
                 sent, dropped, dispatched, writeFaults, faults, crashes>>

\* For a prompt that neither waits nor starts the request changes nothing.
RemoveQueued(h, i) ==
  /\ Accepting(h) /\ i \in Queued \cup {starting.item}
  /\ Drop(h, "remove", {i} \cap Queued, Without(queue, i), starting.item = i)

ClearQueue(h) ==
  /\ Accepting(h)
  /\ Drop(h, "clear", Queued, <<>>, starting.item # None)

\* interruptTurn with clearQueue, or with an admission to cancel.
Stop(h, clear) ==
  LET starter == starting.item
  IN  /\ Accepting(h) /\ (clear \/ starter # None)
      /\ IF clear THEN Drop(h, "stop", Queued, <<>>, starter # None)
                  ELSE Drop(h, "stop", {starter} \cap Queued, Without(queue, starter), TRUE)

\* interruptTurn with nothing to take out of the queue.
StopTurn(h) ==
  /\ Accepting(h) /\ starting.item = None
  /\ IF active # None
     THEN /\ request' = [request EXCEPT ![h] = [Idle EXCEPT !.stage = "stopping",
                                                  !.kind = "stop", !.turn = active]]
          /\ appends' = Append(appends, h)
          /\ UNCHANGED starting
     ELSE /\ starting' = Next1(queue, active, starting, cancelling, request)
          /\ UNCHANGED <<request, appends>>
  /\ UNCHANGED <<durable, server, queue, writes, delivery, cancelling, runtime, prompt,
                 signalled, lease, history, writeFaults, faults, crashes>>

\* Mutant: a removal that cancelled no admission leaves the queue waiting.
RestartAdmission(h, r) ==
  IF request[h].ref = "live" THEN [starting EXCEPT !.restart = TRUE] ELSE starting

\* requestQueueRestart for the admission the handler captured, if any.
Restart(h, r) ==
  IF request[h].ref = "live"
  THEN [starting EXCEPT !.restart = TRUE]
  ELSE Next1(queue, active, starting, cancelling, r)

\* The removal is on disk and in the log.  interruptTurn goes on to cancel the
\* turn of its snapshot; the others restart the queue.
Dropped(h, pending) ==
  /\ dropped' = dropped \cup request[h].drop
  /\ IF request[h].turn # None
     THEN /\ request' = [request EXCEPT ![h].stage = "stopping"]
          /\ appends' = Append(pending, h)
          /\ UNCHANGED starting
     ELSE /\ request' = [request EXCEPT ![h] = Idle]
          /\ appends' = pending
          /\ starting' = Restart(h, request')

DropWritten(h) ==
  /\ request[h].stage = "drop" /\ Writing(h)
  /\ disk' = Head(writes).items
  /\ writes' = NextWrites(queue, FALSE)
  /\ IF request[h].drop \cap Tracked # {}
     THEN /\ request' = [request EXCEPT ![h].stage = "mark"]
          /\ appends' = Append(appends, h)
          /\ UNCHANGED <<starting, dropped>>
     ELSE Dropped(h, appends)
  /\ UNCHANGED <<receipt, active, server, queue, delivery, cancelling, runtime, prompt, signalled,
                 lease, sent, unwanted, dispatched, budget>>

\* The request fails: the prompts are out of the queue in memory only, and an
\* admission it cancelled is not asked to restart.
DropFails(h) ==
  /\ request[h].stage = "drop" /\ Writing(h) /\ WriteFault
  /\ writes' = NextWrites(queue, TRUE)
  /\ request' = [request EXCEPT ![h] = Idle]
  /\ UNCHANGED <<durable, server, queue, appends, starting, delivery, cancelling, runtime, prompt,
                 signalled, lease, history, faults, crashes, asks>>

\* TurnSubmissionsRemoved changes receipts that are still queued.
Marked(h) ==
  /\ request[h].stage = "mark" /\ Applying(h)
  /\ receipt' = [i \in Tracked |-> IF i \in request[h].drop /\ receipt[i] = "queued"
                                   THEN "removed" ELSE receipt[i]]
  /\ Dropped(h, Tail(appends))
  /\ UNCHANGED <<active, disk, server, queue, writes, delivery, cancelling, runtime, prompt,
                 signalled, lease, sent, unwanted, dispatched, budget>>

-----------------------------------------------------------------------------
(* cancelThreadTurn *)

\* "stopping" is in the log.  The cancellation starts, and turnCancellations
\* holds it; without an open runtime there is nothing to deliver.
Stopping(h) ==
  /\ request[h].stage = "stopping" /\ Applying(h)
  /\ appends' = Tail(appends)
  /\ delivery' = [delivery EXCEPT ![h] = IF runtime = "open" THEN "sending" ELSE "safe"]
  /\ cancelling' = h
  /\ request' = [request EXCEPT ![h].stage = "flush"]
  /\ UNCHANGED <<durable, server, queue, writes, starting, runtime, prompt, signalled, lease,
                 history, budget>>

\* acp.cancel: session/cancel is a notification, so it is done once delivered.
\* It reaches whatever the session runs by then.
Delivered(h) ==
  /\ delivery[h] = "sending"
  /\ delivery' = [delivery EXCEPT ![h] = "safe"]
  /\ signalled' = signalled \cup {i \in Prompts : prompt[i] = "open"}
  /\ UNCHANGED <<durable, server, queue, writes, appends, starting, request, cancelling,
                 runtime, prompt, lease, history, budget>>

\* The connection is gone: its prompts and deliveries fail, and whoever fails
\* to deliver waits in acp.close for the process to end.
Disconnect ==
  /\ runtime = "open" /\ Fault
  /\ runtime' = "closing"
  /\ prompt' = [i \in Prompts |-> IF prompt[i] = "open" THEN "failed" ELSE prompt[i]]
  /\ signalled' = {}
  /\ delivery' = [h \in Handlers |-> IF delivery[h] = "sending" THEN "closing" ELSE delivery[h]]
  /\ UNCHANGED <<durable, server, queue, writes, appends, starting, request, cancelling,
                 lease, history, writeFaults, crashes, asks>>

\* Delivery fails, so the runtime is closed.
DeliveryFails(h) == delivery[h] = "sending" /\ Disconnect

\* The agent process ends by itself.
RuntimeLost == Disconnect

\* terminateChild: the process has exited, or that cannot be proved, and the
\* cancellations waiting for it are not safe to restart from.
Closed ==
  /\ runtime = "closing"
  /\ \/ runtime' = "closed" /\ UNCHANGED faults
     \/ runtime' = "unproven" /\ Fault
  /\ delivery' = [h \in Handlers |-> IF delivery[h] # "closing" THEN delivery[h]
                                     ELSE IF runtime' = "closed" THEN "safe" ELSE "unsafe"]
  /\ UNCHANGED <<durable, server, queue, writes, appends, starting, request, cancelling,
                 prompt, signalled, lease, history, writeFaults, crashes, asks>>

\* The end of cancelThreadTurn: its continuation is left behind and
\* interruptTurn still asks for a restart.
Detach(h, turn, pending) ==
  /\ request' = [request EXCEPT ![h].stage = "settle"]
  /\ appends' = pending
  /\ starting' = IF request[h].kind # "stop" THEN starting
                 ELSE IF request[h].ref = "live" THEN [starting EXCEPT !.restart = TRUE]
                 ELSE Next1(queue, turn, starting, cancelling, request')

\* ingestion.flushWithin has returned.
Flushed(h) ==
  /\ request[h].stage = "flush"
  /\ IF active = request[h].turn
     THEN /\ request' = [request EXCEPT ![h].stage = "ending"]
          /\ appends' = Append(appends, h)
          /\ UNCHANGED starting
     ELSE Detach(h, active, appends)
  /\ UNCHANGED <<durable, server, queue, writes, delivery, cancelling, runtime, prompt, signalled,
                 lease, history, budget>>

\* TurnCancelled is in the log: the durable cancellation boundary.
Ended(h) ==
  LET turn == request[h].turn
      left == IF active = turn THEN None ELSE active
  IN  /\ request[h].stage = "ending" /\ Applying(h)
      /\ active' = left
      /\ receipt' = Complete(receipt, turn)
      /\ Detach(h, left, Tail(appends))
      /\ UNCHANGED <<disk, server, queue, writes, delivery, cancelling, runtime, prompt, signalled,
                     lease, history, budget>>

\* The continuation of the cancellation promise.  An unsafe outcome leaves
\* turnCancellations set, which blocks the queue until a restart.
Settled(h) ==
  LET r == [request EXCEPT ![h] = Idle]
      release == cancelling = h /\ delivery[h] = "safe"
  IN  /\ request[h].stage = "settle" /\ delivery[h] \in {"safe", "unsafe"}
      /\ request' = r
      /\ delivery' = [delivery EXCEPT ![h] = "none"]
      /\ cancelling' = IF release THEN None ELSE cancelling
      /\ starting' = IF release THEN Next1(queue, active, starting, None, r) ELSE starting
      /\ UNCHANGED <<durable, server, queue, writes, appends, runtime, prompt, signalled, lease,
                     history, budget>>

-----------------------------------------------------------------------------
(* runNextQueued and startQueuedTurn *)

\* Mutant: the finally forgets the restart that was requested meanwhile.
FinishQuietly(q, turn) ==
  /\ request' = [h \in Handlers |-> IF request[h].ref = "live"
                                    THEN [request[h] EXCEPT !.ref = "stale"] ELSE request[h]]
  /\ starting' = NotStarting

\* The finally of runNextQueued: the admission is gone, so the objects other
\* handlers captured are stale, and a requested restart is made.
Finish(q, turn) ==
  /\ request' = [h \in Handlers |-> IF request[h].ref = "live"
                                    THEN [request[h] EXCEPT !.ref = "stale"] ELSE request[h]]
  /\ starting' = IF starting.restart THEN Next1(q, turn, NotStarting, cancelling, request')
                 ELSE NotStarting

\* threadTouchesWorkspaceLease, then the append of "preparing".
CheckLease ==
  /\ starting.stage = "lease"
  /\ IF lease
     THEN Finish(queue, active) /\ UNCHANGED appends
     ELSE /\ starting' = [starting EXCEPT !.stage = "prepare"]
          /\ appends' = Append(appends, Starter)
          /\ UNCHANGED request
  /\ UNCHANGED <<durable, server, queue, writes, delivery, cancelling, runtime, prompt, signalled,
                 lease, history, budget>>

Preparing ==
  /\ starting.stage = "prepare" /\ Applying(Starter)
  /\ appends' = Tail(appends)
  /\ starting' = [starting EXCEPT !.stage = "ready"]
  /\ UNCHANGED <<durable, server, queue, writes, request, delivery, cancelling, runtime, prompt,
                 signalled, lease, history, budget>>

\* admitQueuedTurn.
Admits(i) == ~starting.cancelled /\ i \in Queued

\* Runtime, session, mentions and the "before" checkpoint are there;
\* admitQueuedTurn decides.  startRuntime first closes a runtime that is not
\* open any more, again if its process was not proved stopped.  Or one of the
\* preparations fails: the turn is refused too.
Prepared ==
  /\ starting.stage = "ready" /\ runtime # "closing"
  /\ \/ /\ runtime' = "open"
        /\ starting' = [starting EXCEPT !.stage =
                          IF Admits(starting.item) THEN "start" ELSE "refuse"]
        /\ UNCHANGED faults
     \/ Fault /\ starting' = [starting EXCEPT !.stage = "refuse"] /\ UNCHANGED runtime
  /\ appends' = Append(appends, Starter)
  /\ UNCHANGED <<durable, server, queue, writes, request, delivery, cancelling, prompt,
                 signalled, lease, history, writeFaults, crashes, asks>>

\* "idle" or "blocked" is in the log; the prompt stays in the queue.
Refused ==
  /\ starting.stage = "refuse" /\ Applying(Starter)
  /\ appends' = Tail(appends)
  /\ Finish(queue, active)
  /\ UNCHANGED <<durable, server, queue, writes, delivery, cancelling, runtime, prompt, signalled,
                 lease, history, budget>>

\* TurnStarted is in the log; the prompt leaves the queue.
Started ==
  LET i == starting.item
      q == Without(queue, i)
  IN  /\ starting.stage = "start" /\ Applying(Starter)
      /\ appends' = Tail(appends)
      /\ active' = i
      /\ receipt' = IF i \in Tracked /\ receipt[i] # "none"
                    THEN [receipt EXCEPT ![i] = "started"] ELSE receipt
      /\ queue' = q
      /\ writes' = Persist(writes, Starter, q)
      /\ starting' = [starting EXCEPT !.stage = "persist"]
      /\ UNCHANGED <<disk, server, request, delivery, cancelling, runtime, prompt, signalled, lease,
                     history, budget>>

\* The queue file no longer holds the prompt.  It is handed to the agent,
\* unless the admission or the turn was cancelled meanwhile; a runtime that was
\* closed meanwhile fails the call.
Launch ==
  LET i == starting.item
  IN  /\ starting.stage = "persist" /\ Writing(Starter)
      /\ disk' = Head(writes).items
      /\ writes' = NextWrites(queue, FALSE)
      /\ IF active = i /\ starting.cancelled
         THEN /\ starting' = [starting EXCEPT !.stage = "abort"]
              /\ appends' = Append(appends, Starter)
              /\ UNCHANGED <<request, runtime, prompt, dispatched>>
         ELSE /\ Finish(queue, active)
              /\ UNCHANGED appends
              /\ IF active = i
                 THEN /\ prompt' = [prompt EXCEPT ![i] =
                                        IF runtime = "open" THEN "open" ELSE "failed"]
                      /\ dispatched' = IF runtime = "open" THEN [dispatched EXCEPT ![i] = @ + 1]
                                       ELSE dispatched
                 ELSE UNCHANGED <<prompt, dispatched>>
      /\ UNCHANGED <<receipt, active, server, queue, delivery, cancelling, runtime, signalled,
                     lease, sent, unwanted, dropped, budget>>

\* The write failed after TurnStarted: runNextQueued's catch leaves a running
\* turn alone, so the turn is active and nothing was handed to the agent.
LaunchFails ==
  /\ starting.stage = "persist" /\ Writing(Starter) /\ WriteFault
  /\ writes' = NextWrites(queue, TRUE)
  /\ Finish(queue, active)
  /\ prompt' = [prompt EXCEPT ![starting.item] = "stranded"]
  /\ UNCHANGED <<durable, server, queue, appends, delivery, cancelling, runtime, signalled, lease,
                 history, faults, crashes, asks>>

\* TurnCancelled for a turn that was cancelled before it was handed over.
Aborted ==
  LET i == starting.item
      left == IF active = i THEN None ELSE active
  IN  /\ starting.stage = "abort" /\ Applying(Starter)
      /\ appends' = Tail(appends)
      /\ active' = left
      /\ receipt' = Complete(receipt, i)
      /\ Finish(queue, left)
      /\ UNCHANGED <<disk, server, queue, writes, delivery, cancelling, runtime, prompt, signalled,
                     lease, history, budget>>

-----------------------------------------------------------------------------
(* Settlement of session/prompt *)

\* The agent answers, or the call fails.
Answer(i) ==
  /\ prompt[i] = "open"
  /\ \E a \in {"answered", "failed"} : prompt' = [prompt EXCEPT ![i] = a]
  /\ signalled' = signalled \ {i}
  /\ UNCHANGED <<durable, server, queue, writes, appends, starting, request, delivery,
                 cancelling, runtime, lease, history, budget>>

\* Output is flushed, background tasks registered, the "after" checkpoint
\* taken.  If the turn is no longer active an answer is ignored; a failure
\* still asks for a restart.  (The phase "checkpointing" is left out.)
Settle(i) ==
  /\ prompt[i] \in {"answered", "failed"}
  /\ IF active = i
     THEN /\ prompt' = [prompt EXCEPT ![i] = "ending"]
          /\ appends' = Append(appends, i)
          /\ UNCHANGED starting
     ELSE /\ prompt' = [prompt EXCEPT ![i] = "none"]
          /\ starting' = IF prompt[i] = "failed"
                         THEN Next1(queue, active, starting, cancelling, request) ELSE starting
          /\ UNCHANGED appends
  /\ UNCHANGED <<durable, server, queue, writes, request, delivery, cancelling, runtime, signalled,
                 lease, history, budget>>

\* TurnCompleted or TurnCancelled is in the log, then requestQueueRestart.
EndTurn(i) ==
  LET left == IF active = i THEN None ELSE active
  IN  /\ prompt[i] = "ending" /\ Applying(i)
      /\ appends' = Tail(appends)
      /\ active' = left
      /\ receipt' = Complete(receipt, i)
      /\ prompt' = [prompt EXCEPT ![i] = "none"]
      /\ starting' = Next1(queue, left, starting, cancelling, request)
      /\ UNCHANGED <<disk, server, queue, writes, request, delivery, cancelling, runtime, signalled,
                     lease, history, budget>>

-----------------------------------------------------------------------------
(* Git workspace leases, as the queue sees them *)

\* threadHasWorkspaceWork is false for this thread.
TakeLease ==
  /\ Running /\ ~lease /\ active = None /\ starting.item = None /\ queue = <<>>
  /\ Inserting(request) = {} /\ cancelling = None
  /\ lease' = TRUE
  /\ UNCHANGED <<durable, server, queue, writes, appends, starting, request, delivery,
                 cancelling, runtime, prompt, signalled, history, budget>>

ReleaseLease ==
  /\ lease /\ lease' = FALSE
  /\ starting' = Next1(queue, active, starting, cancelling, request)
  /\ UNCHANGED <<durable, server, queue, writes, appends, request, delivery, cancelling,
                 runtime, prompt, signalled, history, budget>>

-----------------------------------------------------------------------------
(* Crash and recovery *)

\* Volatile state and the agent process are lost.  The write that was running
\* has replaced the queue file or has not.
Crash ==
  /\ server # "down" /\ crashes < MaxCrashes
  /\ crashes' = crashes + 1 /\ server' = "down"
  /\ disk' \in {disk} \cup (IF writes = <<>> THEN {} ELSE {Head(writes).items})
  /\ queue' = <<>> /\ writes' = <<>> /\ appends' = <<>> /\ starting' = NotStarting
  /\ request' = [h \in Handlers |-> Idle] /\ delivery' = [h \in Handlers |-> "none"]
  /\ cancelling' = None /\ runtime' = "closed" /\ prompt' = [i \in Prompts |-> "none"]
  /\ signalled' = {} /\ lease' = FALSE
  /\ UNCHANGED <<receipt, active, history, writeFaults, faults, asks>>

\* Mutant: the turn that was running at the crash is left running.
RecoverRunning ==
  /\ server = "down" /\ server' = "recovering"
  /\ queue' = disk
  /\ UNCHANGED <<durable, writes, appends, starting, request, delivery, cancelling, runtime, prompt,
                 signalled, lease, history, budget>>

\* engine.open cancels the turn that was running; loadQueues reads the file.
Recover ==
  /\ server = "down" /\ server' = "recovering"
  /\ active' = None
  /\ receipt' = IF active = None THEN receipt ELSE Complete(receipt, active)
  /\ queue' = disk
  /\ UNCHANGED <<disk, writes, appends, starting, request, delivery, cancelling, runtime, prompt,
                 signalled, lease, history, budget>>

\* loadQueues keeps a submission only while its receipt says it is queued.
Recoverable(i) == i \in Tracked => receipt[i] = "queued"

Discard(i) ==
  /\ server = "recovering" /\ i \in Queued /\ ~Recoverable(i)
  /\ queue' = Without(queue, i)
  /\ UNCHANGED <<durable, server, writes, appends, starting, request, delivery, cancelling,
                 runtime, prompt, signalled, lease, history, budget>>

\* reconcileMissingSubmissionPayloads, then the cleaned queue is written.
Load ==
  /\ server = "recovering" /\ \A i \in Queued : Recoverable(i)
  /\ server' = "loaded"
  /\ receipt' = [i \in Tracked |-> IF receipt[i] = "queued" /\ i \notin Queued
                                   THEN "payload_lost" ELSE receipt[i]]
  /\ disk' = queue
  /\ UNCHANGED <<active, queue, writes, appends, starting, request, delivery, cancelling,
                 runtime, prompt, signalled, lease, history, budget>>

\* env.bootstrap: a client connected.
Bootstrap ==
  /\ Running
  /\ server' = "up"
  /\ starting' = Next1(queue, active, starting, cancelling, request)
  /\ UNCHANGED <<durable, queue, writes, appends, request, delivery, cancelling, runtime, prompt,
                 signalled, lease, history, budget>>

-----------------------------------------------------------------------------
UserStep(h) ==
  \/ \E i \in Prompts : \E mode \in {"send", "steer"} : Send(h, i, mode)
  \/ \E i \in Prompts : Promote(h, i) \/ Edit(h, i) \/ RemoveQueued(h, i)
  \/ ClearQueue(h)
  \/ \E clear \in BOOLEAN : Stop(h, clear)
  \/ StopTurn(h)

HandlerStep(h) ==
  \/ Insert(h) \/ InsertWritten(h) \/ InsertFails(h)
  \/ Accepted(h) \/ AcceptFails(h) \/ RolledBack(h)
  \/ Moved(h) \/ Edited(h) \/ DropWritten(h) \/ DropFails(h) \/ Marked(h)
  \/ Stopping(h) \/ Delivered(h) \/ DeliveryFails(h)
  \/ Flushed(h) \/ Ended(h) \/ Settled(h)

StarterStep ==
  \/ CheckLease \/ Preparing \/ Prepared \/ Refused
  \/ Started \/ Launch \/ LaunchFails \/ Aborted

TurnStep(i) == Answer(i) \/ Settle(i) \/ EndTurn(i)

ServerStep ==
  \/ RuntimeLost \/ Closed \/ TakeLease \/ ReleaseLease \/ Crash \/ Recover
  \/ \E i \in Prompts : Discard(i)
  \/ Load \/ Bootstrap

Next ==
  \/ \E h \in Handlers : UserStep(h) \/ HandlerStep(h)
  \/ StarterStep
  \/ \E i \in Prompts : TurnStep(i)
  \/ ServerStep

Spec == Init /\ [][Next]_vars
\* The agent answers every prompt, Git actions end, and every handler that is
\* not waiting for a user runs on; users, crashes and faults owe nothing.
Fairness ==
  /\ \A h \in Handlers :
       /\ WF_vars(Insert(h)) /\ WF_vars(InsertWritten(h)) /\ WF_vars(Accepted(h))
       /\ WF_vars(RolledBack(h)) /\ WF_vars(Moved(h)) /\ WF_vars(Edited(h))
       /\ WF_vars(DropWritten(h)) /\ WF_vars(Marked(h)) /\ WF_vars(Stopping(h))
       /\ WF_vars(Delivered(h)) /\ WF_vars(Flushed(h)) /\ WF_vars(Ended(h)) /\ WF_vars(Settled(h))
  /\ WF_vars(CheckLease) /\ WF_vars(Preparing) /\ WF_vars(Prepared) /\ WF_vars(Refused)
  /\ WF_vars(Started) /\ WF_vars(Launch) /\ WF_vars(Aborted)
  /\ \A i \in Prompts : WF_vars(TurnStep(i)) /\ WF_vars(Discard(i))
  /\ WF_vars(Closed) /\ WF_vars(ReleaseLease) /\ WF_vars(Recover) /\ WF_vars(Load)
  /\ WF_vars(server = "loaded" /\ Bootstrap)

FairSpec == Spec /\ Fairness

-----------------------------------------------------------------------------
(* Properties *)

\* Every variable has its type, and the queue holds a prompt at most once.
TypeOK ==
  /\ receipt \in [Tracked -> ReceiptState]
  /\ active \in Prompts \cup {None}
  /\ disk \in Seq(Prompts) /\ IsInjective(disk)
  /\ server \in {"down", "recovering", "loaded", "up"}
  /\ queue \in Seq(Prompts) /\ IsInjective(queue)
  /\ writes \in Seq(Write)
  /\ appends \in Seq(Handlers \cup Prompts \cup {Starter})
  /\ starting \in Starting
  /\ request \in [Handlers -> Request]
  /\ delivery \in [Handlers -> DeliveryState]
  /\ cancelling \in Handlers \cup {None}
  /\ runtime \in RuntimeState
  /\ prompt \in [Prompts -> PromptState]
  /\ signalled \subseteq Prompts
  /\ lease \in BOOLEAN
  /\ sent \subseteq Prompts /\ unwanted \subseteq Prompts /\ dropped \subseteq Prompts
  /\ dispatched \in [Prompts -> Nat]
  /\ writeFaults \in 0..MaxWriteFaults /\ faults \in 0..MaxFaults
  /\ crashes \in 0..MaxCrashes /\ asks \in 0..MaxAsks

\* A submission is handed to the agent at most once, whatever crashes between
\* TurnStarted in the log and the queue file that still holds the prompt.
SubmittedOnce == \A i \in Tracked : dispatched[i] <= 1

\* A submission is started only after the server accepted it: a prompt whose
\* acceptance is still being written, or failed, never runs.
AcceptedBeforeStart ==
  \A i \in Tracked : starting.item = i \/ active = i \/ dispatched[i] > 0 =>
    receipt[i] # "none"

\* A submission the server has accepted, and nobody asked to drop, is on disk
\* until its turn starts: no stale snapshot overwrites it, no restart finds its
\* payload lost.
AcceptedIsDurable ==
  \A i \in Tracked \ unwanted :
    /\ receipt[i] = "queued" => i \in ToSet(disk)
    /\ receipt[i] # "payload_lost"

\* Once a removal is recorded the prompt is never handed to the agent again,
\* although an admission may have taken it before and a restart may follow.
DroppedStaysDropped ==
  [][\A i \in dropped : dispatched'[i] = dispatched[i]]_vars

\* A prompt still outstanding for a turn that is no longer active has been
\* cancelled at the agent, or its cancellation is being delivered: stopping a
\* turn leaves no prompt running unnoticed.
OldPromptsAreCancelled ==
  \A i \in Prompts : prompt[i] = "open" /\ active # i =>
    i \in signalled \/ \E h \in Handlers : delivery[h] = "sending"

\* A prompt is handed over only after every outstanding one was cancelled.
LaunchAfterCancel ==
  [][\A i \in Prompts : dispatched'[i] > dispatched[i] =>
       \A j \in Prompts : prompt[j] = "open" => j \in signalled]_vars

\* While the server runs, an active turn has an admission, a prompt or a
\* settlement that will end it, or its start failed after TurnStarted.
ActiveTurnIsDriven ==
  Running /\ active # None =>
    \/ starting.item = active /\ starting.stage \in {"persist", "abort"}
    \/ prompt[active] # "none"

\* Every prompt that waits is started or dropped in the end.
QueueDrains == \A i \in Prompts : (i \in Queued) ~> (i \notin Queued)

\* An accepted submission does not stay "queued".
AcceptedIsSettled == \A i \in Tracked : (receipt[i] = "queued") ~> (receipt[i] # "queued")

\* docs/acp-runtime-notes.md on queue, steer and stop: "This prevents concurrent
\* session/prompt calls against one ACP session."
NoConcurrentPrompts == Cardinality({i \in Prompts : prompt[i] = "open"}) <= 1

\* docs/USER_GUIDE.md: "Steering cancels the current turn at the durable
\* cancellation boundary and places the new instruction first."  So when a steer
\* request has been answered no other turn runs on uncancelled.
SteerCancelsTurn ==
  [][\A h \in Handlers :
       /\ request[h].kind = "steer" /\ request[h].stage \in {"insert", "accept"}
       /\ request'[h] = Idle /\ request[h].item \in ToSet(queue')
       /\ request[h].ref # "none"
       => \A i \in Prompts : prompt'[i] = "open" => i \in signalled']_vars

\* docs/USER_GUIDE.md: "Queued prompts appear above the composer and can be
\* edited or removed before dispatch."  So a prompt that was edited while it
\* waited does not start with its old text.
EditsTakeEffect == starting.stage = "persist" => ~starting.outdated
=============================================================================
