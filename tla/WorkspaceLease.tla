---------------------------- MODULE WorkspaceLease ----------------------------
(***************************************************************************)
(* Git actions and agent turns exclude each other (apps/server/src/        *)
(* server.ts): a Git action takes a lease on its workspace, a turn starts  *)
(* only while no lease touches its thread's.                               *)
(*                                                                         *)
(* Both sides ask Git for the repository of a path and wait for the        *)
(* answer, so each checks the other on both sides of an await.             *)
(***************************************************************************)
EXTENDS Integers, FiniteSets

CONSTANTS
  Actions,        \* requests that change a Git workspace
  Clones,         \* those of them that are git.clone
  Threads,
  Paths,
  None,
  \* External: the file system and Git.
  Overlap,        \* Overlap[p]: what is equal to, above or below a path
  Root, Repo,     \* a path's top level and common directory, None outside Git
  Cwd, Workspace, \* a thread's directory; with it, the source of its worktree
  MaxPrompts, MaxFaults

ASSUME LeaseAssumption ==
  /\ Clones \subseteq Actions
  /\ Overlap \in [Paths -> SUBSET Paths]
  /\ \A p, q \in Paths : p \in Overlap[q] => q \in Overlap[p]
  /\ Root \in [Paths -> Paths] /\ None \notin Paths
  /\ Cwd \in [Threads -> Paths] /\ Workspace \in [Threads -> SUBSET Paths]
  /\ {MaxPrompts, MaxFaults} \subseteq Nat

VARIABLES
  lease,     \* gitWorkspaceLeases, with how far acquireGitWorkspaceLease is
  stage,     \* queueAdmissions, and the turn that came of it
  queue,     \* turnQueues: how many prompts
  wake,      \* a startNextQueued that is still to come
  late,      \* cancelled prompts of the thread that the agent still runs
  tasks,     \* the thread's running background tasks and open approvals
  prompts, faults

vars == <<lease, stage, queue, wake, late, tasks, prompts, faults>>

\* A lease is pending while Git is asked for its identity, and then for that of
\* each thread in left; then it is held.
LeaseStage == {"none", "identity", "threads", "held", "done"}
RepoOrNone == {Repo[p] : p \in Paths} \cup {None}
Lease == [stage : LeaseStage, root : Paths \cup {None}, repo : RepoOrNone, left : SUBSET Threads]
NoLease(s) == [stage |-> s, root |-> None, repo |-> None, left |-> {}]

\* The admission waits for the thread's repository, starts its turn, has a turn; a
\* turn that is cancelled runs until its cancellation is delivered.
TurnStage == {"none", "check", "starting", "running"}

\* A task is unseen if it came of a cancelled prompt while a Git action had a lease
\* (history: the code does not tell them apart).
TaskKind == {"seen", "unseen"}

Leases(ls) == {a \in Actions : ls[a].stage \in {"identity", "threads", "held"}}
Pending(l) == l.stage \in {"identity", "threads"}

\* threadTouchesPath, and the same for its repository.
Touches(t, root) == \E p \in Workspace[t] : root \in Overlap[p]
SameRepo(t, l) == Repo[Cwd[t]] # None /\ l.repo = Repo[Cwd[t]]
Meets(t, l) == Touches(t, l.root) \/ SameRepo(t, l)

\* threadHasWorkspaceWork
HasWork(t) == stage[t] # "none" \/ queue[t] > 0 \/ tasks[t] # {}

\* Mutant: only paths are compared.
AvailablePaths(a, l) ==
  \A b \in Leases(lease) \ {a} : l.root \notin Overlap[lease[b].root]

\* assertLeaseAvailable
Available(a, l) ==
  \A b \in Leases(lease) \ {a} :
    /\ l.root \notin Overlap[lease[b].root]
    /\ l.repo # None => l.repo # lease[b].repo

Init ==
  /\ lease = [a \in Actions |-> NoLease("none")]
  /\ stage = [t \in Threads |-> "none"] /\ queue = [t \in Threads |-> 0]
  /\ wake = [t \in Threads |-> FALSE]
  /\ late = [t \in Threads |-> 0] /\ tasks = [t \in Threads |-> {}]
  /\ prompts = 0 /\ faults = 0

Fault == faults < MaxFaults /\ faults' = faults + 1

-----------------------------------------------------------------------------
(* Turns *)

\* A lease in the way that is found without asking Git.
Blocked(t, ls) == \E a \in Leases(ls) : Pending(ls[a]) \/ Touches(t, ls[a].root)

\* The checks of runNextQueued that need no answer from Git: the prompt stays in
\* the queue, or its admission begins and asks Git if some lease has a repository.
MayStart(t, ls) == stage[t] = "none" /\ queue[t] > 0 /\ ~Blocked(t, ls)
NextStage(t, ls) ==
  IF ~MayStart(t, ls) THEN stage[t]
  ELSE IF \E a \in Leases(ls) : ls[a].repo # None THEN "check" ELSE "starting"

\* A prompt joins the queue; its handler starts it when it is stored.
Enqueue(t) ==
  /\ prompts < MaxPrompts /\ prompts' = prompts + 1
  /\ queue' = [queue EXCEPT ![t] = @ + 1]
  /\ wake' = [wake EXCEPT ![t] = TRUE]
  /\ UNCHANGED <<lease, stage, late, tasks, faults>>

\* startNextQueued of a handler or of a turn that ended.
StartNext(t) ==
  /\ wake[t] /\ wake' = [wake EXCEPT ![t] = FALSE]
  /\ stage' = [stage EXCEPT ![t] = NextStage(t, lease)]
  /\ UNCHANGED <<lease, queue, late, tasks, prompts, faults>>

\* Mutant: the repository of a held lease is not compared.
ConflictPending(t) == Repo[Cwd[t]] # None /\ \E a \in Leases(lease) : Pending(lease[a])

\* What the second check of threadTouchesWorkspaceLease looks for.
Conflict(t) ==
  /\ Repo[Cwd[t]] # None
  /\ \E a \in Leases(lease) : Pending(lease[a]) \/ SameRepo(t, lease[a])

\* Git answers the admission, or fails.
Checked(t) ==
  /\ stage[t] = "check"
  /\ \/ /\ stage' = [stage EXCEPT ![t] = IF Conflict(t) THEN "none" ELSE "starting"]
        /\ UNCHANGED faults
     \/ /\ Fault
        /\ stage' = [stage EXCEPT ![t] = IF Leases(lease) # {} THEN "none" ELSE "starting"]
  /\ UNCHANGED <<lease, queue, wake, late, tasks, prompts>>

\* startQueuedTurn succeeds, or fails and leaves the prompt in the queue.
Started(t) ==
  /\ stage[t] = "starting" /\ stage' = [stage EXCEPT ![t] = "running"]
  /\ queue' = [queue EXCEPT ![t] = @ - 1]
  /\ UNCHANGED <<lease, wake, late, tasks, prompts, faults>>

StartFails(t) ==
  /\ stage[t] = "starting" /\ Fault /\ stage' = [stage EXCEPT ![t] = "none"]
  /\ UNCHANGED <<lease, queue, wake, late, tasks, prompts>>

\* The turn ends, or its cancellation is delivered although session/prompt has not
\* returned; then the queue goes on.
Settled(t) ==
  /\ stage[t] = "running" /\ stage' = [stage EXCEPT ![t] = "none"]
  /\ late' \in {late, [late EXCEPT ![t] = @ + 1]}
  /\ wake' = [wake EXCEPT ![t] = TRUE]
  /\ UNCHANGED <<lease, queue, tasks, prompts, faults>>

\* A turn, or a prompt that outlived its turn, registers a task or asks for approval.
NewTask(t) ==
  /\ stage[t] = "running" \/ late[t] > 0
  /\ LET kind == IF stage[t] = "running" \/ Leases(lease) = {} THEN "seen" ELSE "unseen"
     IN  tasks' = [tasks EXCEPT ![t] = @ \cup {kind}]
  /\ UNCHANGED <<lease, stage, queue, wake, late, prompts, faults>>

LateReturn(t) ==
  /\ late[t] > 0 /\ late' = [late EXCEPT ![t] = @ - 1]
  /\ UNCHANGED <<lease, stage, queue, wake, tasks, prompts, faults>>

TasksEnd(t) ==
  /\ \E kind \in tasks[t] : tasks' = [tasks EXCEPT ![t] = @ \ {kind}]
  /\ UNCHANGED <<lease, stage, queue, wake, late, prompts, faults>>

-----------------------------------------------------------------------------
(* Git actions *)

\* Mutant: the queues wait for the next prompt.
ReleaseQuietly(a) ==
  /\ lease' = [lease EXCEPT ![a] = NoLease("done")]
  /\ UNCHANGED stage

\* releaseGitWorkspaceLease
Release(a) ==
  /\ lease' = [lease EXCEPT ![a] = NoLease("done")]
  /\ stage' = [t \in Threads |-> NextStage(t, lease')]

\* acquireWorkspaceLease: refused while a lease or work is at its path.  A clone
\* has its lease at once, the others have to wait for Git.
Acquire(a, p) ==
  /\ lease[a].stage = "none"
  /\ LET l == [NoLease(IF a \in Clones THEN "held" ELSE "identity") EXCEPT !.root = p]
     IN  Available(a, l) /\ lease' = [lease EXCEPT ![a] = l]
  /\ \A t \in Threads : HasWork(t) => ~Touches(t, p)
  /\ UNCHANGED <<stage, queue, wake, late, tasks, prompts, faults>>

\* The workspace is known: other leases are checked again, and the threads that
\* have work now are to be.
Identified(a) ==
  /\ lease[a].stage = "identity"
  /\ LET root == Root[lease[a].root]
         repo == Repo[lease[a].root]
         left == {t \in Threads : HasWork(t)}
         l == [stage |-> IF left = {} THEN "held" ELSE "threads",
               root |-> root, repo |-> repo, left |-> left]
     IN  IF repo # None /\ Available(a, l)
         THEN lease' = [lease EXCEPT ![a] = l] /\ UNCHANGED stage
         ELSE Release(a)
  /\ UNCHANGED <<queue, wake, late, tasks, prompts, faults>>

\* The next thread is checked.
ThreadChecked(a, t) ==
  /\ lease[a].stage = "threads" /\ t \in lease[a].left
  /\ LET left == lease[a].left \ {t}
     IN  IF Meets(t, lease[a]) THEN Release(a)
         ELSE /\ lease' = [lease EXCEPT ![a].left = left,
                             ![a].stage = IF left = {} THEN "held" ELSE "threads"]
              /\ UNCHANGED stage
  /\ UNCHANGED <<queue, wake, late, tasks, prompts, faults>>

\* The Git action ends, or Git fails to tell a workspace.
ActionEnds(a) ==
  /\ lease[a].stage = "held" /\ Release(a)
  /\ UNCHANGED <<queue, wake, late, tasks, prompts, faults>>

GitFails(a) ==
  /\ Pending(lease[a]) /\ Fault /\ Release(a)
  /\ UNCHANGED <<queue, wake, late, tasks, prompts>>

Turn(t) == StartNext(t) \/ Checked(t) \/ Started(t) \/ Settled(t)
Agent(t) == NewTask(t) \/ LateReturn(t) \/ TasksEnd(t)
Git(a) == Identified(a) \/ ActionEnds(a) \/ \E t \in Threads : ThreadChecked(a, t)

Next ==
  \/ \E t \in Threads : Enqueue(t) \/ Turn(t) \/ Agent(t) \/ StartFails(t)
  \/ \E a \in Actions : Git(a) \/ GitFails(a) \/ \E p \in Paths : Acquire(a, p)

Spec == Init /\ [][Next]_vars

\* Git answers, Git actions end, and the agent answers or its turn is cancelled;
\* nobody has to send a prompt or start a Git action, and no task has to end.
FairSpec == Spec /\ \A t \in Threads : WF_vars(Turn(t)) /\ \A a \in Actions : WF_vars(Git(a))

-----------------------------------------------------------------------------
(* Properties *)

\* Every variable has its type.
TypeOK ==
  /\ lease \in [Actions -> Lease]
  /\ \A a \in Leases(lease) : lease[a].root \in Paths
  /\ stage \in [Threads -> TurnStage]
  /\ queue \in [Threads -> Nat]
  /\ \A t \in Threads : stage[t] \in {"check", "starting"} => queue[t] > 0
  /\ wake \in [Threads -> BOOLEAN]
  /\ late \in [Threads -> Nat] /\ tasks \in [Threads -> SUBSET TaskKind]
  /\ prompts \in 0..MaxPrompts /\ faults \in 0..MaxFaults

\* The agent works, or is about to, or left tasks that do.
Works(t) == stage[t] \in {"starting", "running"} \/ "seen" \in tasks[t]

\* No Git action runs in a workspace or a repository in which an agent works, but for
\* what a prompt does after its cancellation was delivered: it is no work of its
\* thread for the code, and may come back with tasks under a lease.
Exclusion ==
  \A a \in Actions, t \in Threads : lease[a].stage = "held" /\ Works(t) => ~Meets(t, lease[a])

\* The same of all tasks, which TLC refutes.
ExclusionOfAll ==
  \A a \in Actions, t \in Threads :
    lease[a].stage = "held" /\ (Works(t) \/ tasks[t] # {}) => ~Meets(t, lease[a])

\* No two Git actions run in overlapping directories or in one repository.
LeasesDisjoint ==
  \A a, b \in Actions :
    a # b /\ lease[a].stage = "held" /\ lease[b].stage = "held"
    => /\ lease[a].root \notin Overlap[lease[b].root]
       /\ lease[a].repo # None => lease[a].repo # lease[b].repo

\* A prompt that a Git action held up runs: whoever holds a lease starts all
\* queues when it is released, and so does who failed to get one.
QueueRuns == \A t \in Threads : queue[t] > 0 ~> queue[t] = 0
=============================================================================
