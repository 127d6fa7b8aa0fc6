---------------------------- MODULE BackgroundTasks ----------------------------
(***************************************************************************)
(* Tasks the agent leaves running in the background                        *)
(* (apps/server/src/background-tasks.ts and server.ts): they are found in  *)
(* the tools of a turn, registered within two limits, watched by a monitor *)
(* that reads Kimi's own records, and ended once. Registering and ending   *)
(* are serialized (backgroundTaskMutation); the log survives a crash, the  *)
(* chain of mutations and the monitor do not.                              *)
(*                                                                         *)
(* wake() only shortens the monitor's wait and is left out, as are the     *)
(* paths of a record (a record that cannot be told is "none").             *)
(***************************************************************************)
EXTENDS Integers, FiniteSets, SequencesExt

CONSTANTS
  Tasks, Threads, ThreadOf,       \* ThreadOf: [Tasks -> Threads]
  None,
  ActiveLimit,                    \* MAX_ACTIVE_BACKGROUND_TASKS
  MonitorLimit,                   \* MAX_MONITORED_BACKGROUND_TASKS
  MaxCrashes, MaxFailures, MaxOps

VARIABLES
  kimi,        \* Kimi's record of each task
  old,         \* the tasks registered a day ago
  tools,       \* the tasks the turn's tools name and have not seen the end of
  status,      \* the projection's status of each task
  asActive,    \* the tasks registered while Kimi still ran them (history)
  closed,      \* the tasks whose report is cancelled
  ends,        \* how often each task was ended (history)
  order,       \* registered tasks, the oldest first
  chain,       \* backgroundTaskMutation: the operations, the first one at work
  poll,        \* what the monitor has still to look at, None between polls
  source,      \* the current runtime, a generation
  supported,   \* the threads whose runtime's records can be read
  phase,       \* "boot" or "up"
  unclosed,    \* tasks whose cancellation could not be written since the start
  crashes, failures

log == <<status, asActive, closed, ends, order>>
vars == <<kimi, old, tools, log, chain, poll, source, supported, phase, unclosed,
          crashes, failures>>

Running == {t \in Tasks : status[t] = "running"}
ActiveIn(h) == {t \in Running : ThreadOf[t] = h}

Init ==
  /\ kimi = [t \in Tasks |-> "none"] /\ old = {} /\ tools = {}
  /\ status = [t \in Tasks |-> "none"] /\ asActive = {} /\ closed = {}
  /\ ends = [t \in Tasks |-> 0] /\ order = <<>>
  /\ chain = <<>> /\ poll = None /\ source = 1 /\ supported = Threads
  /\ phase = "up" /\ unclosed = {} /\ crashes = 0 /\ failures = 0

-----------------------------------------------------------------------------
(* Kimi, and the day that passes.                                          *)

Launch(t) ==
  /\ kimi[t] = "none" /\ t \notin tools /\ status[t] = "none" /\ phase = "up"
  /\ kimi' = [kimi EXCEPT ![t] = "running"]
  /\ tools' = tools \cup {t}
  /\ UNCHANGED <<old, log, chain, poll, source, supported, phase, unclosed, crashes, failures>>

\* The task ends, or its record can no longer be told from others.
KimiEnds(t) ==
  /\ kimi[t] = "running"
  /\ \E s \in {"done", "none"} : kimi' = [kimi EXCEPT ![t] = s]
  /\ UNCHANGED <<old, tools, log, chain, poll, source, supported, phase, unclosed, crashes, failures>>

\* The agent reads the end of its task within the turn (completedInTurn).
SeenInTurn(t) ==
  /\ t \in tools /\ kimi[t] = "done" /\ tools' = tools \ {t}
  /\ UNCHANGED <<kimi, old, log, chain, poll, source, supported, phase, unclosed, crashes, failures>>

DayPasses(t) ==
  /\ status[t] = "running" /\ t \notin old /\ old' = old \cup {t}
  /\ UNCHANGED <<kimi, tools, log, chain, poll, source, supported, phase, unclosed, crashes, failures>>

RuntimeReplaced ==
  /\ source = 1 /\ phase = "up" /\ source' = 2
  /\ UNCHANGED <<kimi, old, tools, log, chain, poll, supported, phase, unclosed, crashes, failures>>

-----------------------------------------------------------------------------
(* The chain of mutations. An operation of a stale runtime stops where it  *)
(* next asks sourceIsCurrent; the monitor's always is current.             *)

Op(thread, task, todo) ==
  [thread |-> thread, gen |-> IF thread = None THEN 0 ELSE source, task |-> task,
   todo |-> todo, room |-> 0, total |-> 0, ended |-> FALSE]
Current(op) == op.gen \in {0, source}

\* A tool update of the turn, or its end, asks for the registration.
Report(h) ==
  /\ phase = "up" /\ h \in supported /\ Len(chain) < MaxOps
  /\ chain' = Append(chain, Op(h, None, None))
  /\ UNCHANGED <<kimi, old, tools, log, poll, source, supported, phase, unclosed, crashes, failures>>

\* The first operation is over; the monitor goes on if it waited for it.
Done ==
  /\ chain' = Tail(chain)
  /\ poll' = IF Head(chain).thread = None THEN Tail(poll) ELSE poll

\* What the turn's tools name and the projection does not know, and the room left.
Begin ==
  /\ chain # <<>> /\ Head(chain).thread # None /\ Head(chain).todo = None
  /\ LET op == Head(chain) IN
     IF Current(op)
     THEN /\ chain' = [chain EXCEPT ![1] =
               [op EXCEPT !.todo = {t \in tools : ThreadOf[t] = op.thread /\ status[t] = "none"},
                          !.room = ActiveLimit - Cardinality(ActiveIn(op.thread)),
                          !.total = MonitorLimit - Cardinality(Running)]]
          /\ UNCHANGED poll
     ELSE Done
  /\ UNCHANGED <<kimi, old, tools, log, source, supported, phase, unclosed, crashes, failures>>

\* The operation after it registered t: a task already over is ended next.
Registered(op, t) ==
  LET active == kimi[t] = "running" IN
  [op EXCEPT !.todo = @ \ {t}, !.task = IF active THEN @ ELSE t,
             !.room = IF active THEN @ - 1 ELSE @, !.total = IF active THEN @ - 1 ELSE @]

\* Kimi's record is found: one detached task of the name in the session's folders.
Known(t) == kimi[t] # "none"

\* One candidate: unknown to Kimi or without room it is passed over.
Consider ==
  /\ chain # <<>> /\ Head(chain).todo # None /\ Head(chain).task = None
  /\ LET op == Head(chain) IN
     IF op.todo = {} \/ ~Current(op)
     THEN Done /\ UNCHANGED log
     ELSE \E t \in op.todo :
       IF ~Known(t) \/ (kimi[t] = "running" /\ (op.room <= 0 \/ op.total <= 0))
       THEN /\ chain' = [chain EXCEPT ![1].todo = @ \ {t}] /\ UNCHANGED <<poll, log>>
       ELSE /\ status' = [status EXCEPT ![t] = "running"]
            /\ order' = Append(order, t)
            /\ asActive' = IF kimi[t] = "running" THEN asActive \cup {t} ELSE asActive
            /\ chain' = [chain EXCEPT ![1] = Registered(op, t)]
            /\ UNCHANGED <<closed, ends, poll>>
  /\ UNCHANGED <<kimi, old, tools, source, supported, phase, unclosed, crashes, failures>>

\* Mutant: a task is ended again by whoever asks.
MayEndAgain(t) == TRUE

MayEnd(t) == status[t] = "running"

\* What follows the end of op's task: a registration goes on, the monitor's is over.
Next1(op) ==
  IF op.thread = None THEN Done
  ELSE chain' = [chain EXCEPT ![1] = [op EXCEPT !.task = None, !.ended = FALSE]] /\ UNCHANGED poll

\* BackgroundTaskFinished, unless the task ended meanwhile or the source is gone.
EndTask ==
  /\ chain # <<>> /\ Head(chain).task # None /\ ~Head(chain).ended
  /\ LET op == Head(chain) t == op.task IN
     IF MayEnd(t) /\ Current(op)
     THEN /\ status' = [status EXCEPT ![t] = "ended"]
          /\ ends' = [ends EXCEPT ![t] = @ + 1]
          /\ unclosed' = unclosed \cup {t}
          /\ chain' = [chain EXCEPT ![1].ended = TRUE]
          /\ UNCHANGED <<asActive, closed, order, poll>>
     ELSE Next1(op) /\ UNCHANGED <<log, unclosed>>
  /\ UNCHANGED <<kimi, old, tools, source, supported, phase, crashes, failures>>

\* BackgroundTaskReportCancelled follows it.
CloseReport ==
  /\ chain # <<>> /\ Head(chain).ended
  /\ LET op == Head(chain) IN
     /\ IF Current(op)
        THEN closed' = closed \cup {op.task} /\ unclosed' = unclosed \ {op.task}
        ELSE UNCHANGED <<closed, unclosed>>
     /\ Next1(op)
  /\ UNCHANGED <<kimi, old, tools, status, asActive, ends, order, source, supported, phase, crashes, failures>>

\* A write of the operation at work fails: it is rejected, the next one goes on.
WriteFails ==
  /\ chain # <<>> /\ failures < MaxFailures
  /\ Head(chain).todo # None \/ Head(chain).task # None
  /\ failures' = failures + 1 /\ Done
  /\ UNCHANGED <<kimi, old, tools, log, source, supported, phase, unclosed, crashes>>

-----------------------------------------------------------------------------
(* The monitor: one task at a time, the oldest first.                      *)

Pending == SelectSeq(order, LAMBDA t : status[t] = "running" /\ ThreadOf[t] \in supported)

Poll ==
  /\ phase = "up" /\ poll = None
  /\ poll' = SubSeq(Pending, 1, IF Len(Pending) < MonitorLimit THEN Len(Pending) ELSE MonitorLimit)
  /\ UNCHANGED <<kimi, old, tools, log, chain, source, supported, phase, unclosed, crashes, failures>>

Over(t) == t \in old \/ kimi[t] = "done"

Watch ==
  /\ poll # None /\ ~\E i \in DOMAIN chain : chain[i].thread = None
  /\ IF poll = <<>> THEN poll' = None /\ UNCHANGED chain
     ELSE IF Over(Head(poll))
     THEN chain' = Append(chain, Op(None, Head(poll), {})) /\ UNCHANGED poll
     ELSE poll' = Tail(poll) /\ UNCHANGED chain
  /\ UNCHANGED <<kimi, old, tools, log, source, supported, phase, unclosed, crashes, failures>>

-----------------------------------------------------------------------------
(* A crash, and the start: tasks whose records can no longer be read are   *)
(* lost, and reports left open are closed, before the monitor runs.        *)

Crash ==
  /\ crashes < MaxCrashes /\ crashes' = crashes + 1
  /\ chain' = <<>> /\ poll' = None /\ phase' = "boot" /\ unclosed' = {}
  /\ supported' \in SUBSET Threads
  /\ UNCHANGED <<kimi, old, tools, log, source, failures>>

\* Mutant: the start closes no report.
ToCloseNone == {}

Unreadable == {t \in Running : ThreadOf[t] \notin supported}
ToClose == {t \in Tasks : status[t] = "ended"} \ closed

Reconcile ==
  /\ phase = "boot"
  /\ \/ \E t \in Unreadable :
          /\ status' = [status EXCEPT ![t] = "ended"] /\ ends' = [ends EXCEPT ![t] = @ + 1]
          /\ UNCHANGED <<asActive, closed, order, phase>>
     \/ \E t \in ToClose : closed' = closed \cup {t} /\ UNCHANGED <<status, asActive, ends, order, phase>>
     \/ Unreadable = {} /\ ToClose = {} /\ phase' = "up" /\ UNCHANGED log
  /\ UNCHANGED <<kimi, old, tools, chain, poll, source, supported, unclosed, crashes, failures>>

-----------------------------------------------------------------------------

Work == Begin \/ Consider \/ EndTask \/ CloseReport
Monitor == Poll \/ Watch

Next ==
  \/ Work \/ WriteFails \/ Monitor \/ Reconcile \/ Crash \/ RuntimeReplaced
  \/ \E t \in Tasks : Launch(t) \/ KimiEnds(t) \/ SeenInTurn(t) \/ DayPasses(t)
  \/ \E h \in Threads : Report(h)

\* The chain runs as long as it holds work, the monitor's timer is set again
\* after each poll, the start goes through, and days pass.
Fairness ==
  /\ WF_vars(Work) /\ WF_vars(Monitor) /\ WF_vars(Reconcile)
  /\ \A t \in Tasks : WF_vars(DayPasses(t))

Spec == Init /\ [][Next]_vars
LiveSpec == Spec /\ Fairness

TypeOK ==
  /\ kimi \in [Tasks -> {"none", "running", "done"}]
  /\ status \in [Tasks -> {"none", "running", "ended"}]
  /\ old \cup tools \cup asActive \cup closed \cup unclosed \subseteq Tasks
  /\ ToSet(order) \subseteq Tasks /\ supported \subseteq Threads
  /\ phase \in {"boot", "up"} /\ source \in {1, 2}

(* Tasks registered while they ran stay within the limits, however the     *)
(* registrations of several turns follow each other, and each task is      *)
(* registered and ended at most once, whether its record, its day, a       *)
(* registration or the next start ends it.                                 *)
TasksAreBounded ==
  /\ \A h \in Threads : Cardinality(ActiveIn(h) \cap asActive) <= ActiveLimit
  /\ Cardinality(Running \cap asActive) <= MonitorLimit
  /\ \A t \in Tasks : ends[t] <= 1
  /\ IsInjective(order)

(* A registered task is ended and its report closed in the end, over       *)
(* crashes, lost records and replaced runtimes, unless a failed write or a *)
(* stale source left the report of an ended task to the next start.        *)
TasksSettle == \A t \in Tasks :
  status[t] = "running" ~> (status[t] = "ended" /\ t \in closed \cup unclosed)
=============================================================================
