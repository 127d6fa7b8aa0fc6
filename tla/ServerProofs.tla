---------------------------- MODULE ServerProofs ----------------------------
(***************************************************************************)
(* What the server run checks on a small instance, for every instance.     *)
(*                                                                         *)
(* Git actions exclude agents and each other, for any paths, threads and   *)
(* actions (WorkspaceLease).  The argument follows the awaits: what a      *)
(* check found before it waited still holds after it, since the other side *)
(* is visible meanwhile.                                                   *)
(*                                                                         *)
(* Neither a policy change nor an update overlaps work, for any number of  *)
(* runtimes, requests and windows (RuntimePolicy).                         *)
(*                                                                         *)
(* Background tasks stay within their limits and end once, for any tasks   *)
(* and limits (BackgroundTasks).                                           *)
(*                                                                         *)
(* No slot of a schedule is queued twice, for any schedules, edits, failed *)
(* writes and crashes (Schedules).                                         *)
(*                                                                         *)
(* Runtime output is stored in the order of arrival, for any chunks, keys, *)
(* limits, failed writes and replaced runtimes (RuntimeIngestion).         *)
(*                                                                         *)
(* One session at most is made for a creation id, for any chats, retries,  *)
(* lost answers, failed writes and crashes (ThreadCreation).               *)
(*                                                                         *)
(* The event log has proofs of its own, which are applied here to the run. *)
(***************************************************************************)
EXTENDS MCServer, FiniteSetTheorems, SequenceTheorems, TLAPS

\* A thread that is seen to have work: it is admitted or left tasks, other than those
\* a cancelled prompt came with under a lease.
Seen(t, st, ta) == st[t] # "none" \/ "seen" \in ta[t]

\* A held lease was granted against every thread that was seen, and what is
\* admitted since was checked against it: first its path, then its repository.
HeldOK(ls, st, ta) ==
  \A a \in Actions, t \in Threads : ls[a].stage = "held" =>
    /\ st[t] # "none" => ~Touches(t, ls[a].root)
    /\ st[t] \in {"starting", "running"} \/ "seen" \in ta[t] => ~Meets(t, ls[a])

\* A lease that is being checked has every thread with work still before it or
\* without conflict behind it: nothing is admitted meanwhile.
AskingOK(ls, st, ta) ==
  \A a \in Actions, t \in Threads :
    ls[a].stage = "threads" /\ Seen(t, st, ta) => t \in ls[a].left \/ ~Meets(t, ls[a])

\* Leases whose workspace is known are apart.
Apart(k, l) == k.root \notin Overlap[l.root] /\ (k.repo # None => k.repo # l.repo)
ApartOK(ls) ==
  \A a, b \in Actions :
    a # b /\ ls[a].stage \in {"threads", "held"} /\ ls[b].stage \in {"threads", "held"}
    => Apart(ls[a], ls[b])

IInv ==
  /\ TypeOK
  /\ HeldOK(lease, stage, tasks)
  /\ AskingOK(lease, stage, tasks)
  /\ ApartOK(lease)

-----------------------------------------------------------------------------
(* Starting a queue *)

\* A thread that is started touches no lease, and there is none it has to ask
\* Git about, unless it does ask.
LEMMA Starting ==
  ASSUME NEW ls, NEW t \in Threads, NextStage(t, ls) # stage[t]
  PROVE  /\ stage[t] = "none" /\ queue[t] > 0 /\ NextStage(t, ls) \in {"check", "starting"}
         /\ \A a \in Leases(ls) : ~Pending(ls[a]) /\ ~Touches(t, ls[a].root)
         /\ NextStage(t, ls) = "starting" => \A a \in Leases(ls) : ls[a].repo = None
BY DEF NextStage, MayStart, Blocked

\* Whatever queues a release or a handler starts, the invariant's parts about
\* leases and turns are kept.
LEMMA StartsKeep ==
  ASSUME NEW ls, NEW st,
         HeldOK(ls, stage, tasks), AskingOK(ls, stage, tasks),
         \A t \in Threads : st[t] \in {stage[t], NextStage(t, ls)}
  PROVE  HeldOK(ls, st, tasks) /\ AskingOK(ls, st, tasks)
<1>1. ASSUME NEW a \in Actions, NEW t \in Threads, ls[a].stage = "held",
             st[t] # stage[t]
      PROVE  ~Touches(t, ls[a].root) /\ (st[t] \in {"starting", "running"} => ~Meets(t, ls[a]))
  <2>1. a \in Leases(ls)
    BY <1>1 DEF Leases
  <2>2. NextStage(t, ls) # stage[t] /\ st[t] = NextStage(t, ls)
    BY <1>1
  <2> QED BY <2>1, <2>2, Starting DEF Meets, SameRepo
<1>2. ASSUME NEW a \in Actions, NEW t \in Threads, ls[a].stage = "threads"
      PROVE  st[t] = stage[t]
  <2>1. a \in Leases(ls) /\ Pending(ls[a])
    BY <1>2 DEF Leases, Pending
  <2> QED BY <2>1, Starting
<1>3. HeldOK(ls, st, tasks)
  <2> SUFFICES ASSUME NEW a \in Actions, NEW t \in Threads, ls[a].stage = "held"
               PROVE  /\ st[t] # "none" => ~Touches(t, ls[a].root)
                      /\ st[t] \in {"starting", "running"} \/ "seen" \in tasks[t] => ~Meets(t, ls[a])
    BY DEF HeldOK
  <2>1. /\ stage[t] # "none" => ~Touches(t, ls[a].root)
        /\ stage[t] \in {"starting", "running"} \/ "seen" \in tasks[t] => ~Meets(t, ls[a])
    BY DEF HeldOK
  <2> QED BY <1>1, <2>1
<1>4. AskingOK(ls, st, tasks)
  BY <1>2 DEF AskingOK, Seen
<1> QED BY <1>3, <1>4

\* The stages keep their type, and only a queue with a prompt is started.
LEMMA StartTypes ==
  ASSUME TypeOK, NEW ls, NEW t \in Threads
  PROVE  /\ NextStage(t, ls) \in TurnStage
         /\ NextStage(t, ls) \in {"check", "starting"} => queue[t] > 0
BY Starting DEF TypeOK, TurnStage

-----------------------------------------------------------------------------
(* Releasing a lease *)

\* A lease that ends takes its part of the invariant with it, and starts queues.
LEMMA ReleaseStep ==
  ASSUME IInv, NEW a \in Actions, Release(a),
         UNCHANGED <<queue, wake, late, tasks, prompts>>, faults' \in 0..MaxFaults
  PROVE  IInv'
<1> USE DEF IInv
<1>1. /\ lease' = [lease EXCEPT ![a] = NoLease("done")]
      /\ stage' = [t \in Threads |-> NextStage(t, lease')]
  BY DEF Release
<1>2. NoLease("done") \in Lease /\ NoLease("done").stage = "done"
  BY DEF NoLease, Lease, LeaseStage, RepoOrNone
<1>3. /\ lease' \in [Actions -> Lease] /\ lease'[a].stage = "done"
      /\ \A b \in Actions \ {a} : lease'[b] = lease[b]
  BY <1>1, <1>2 DEF TypeOK
<1>4. TypeOK'
  <2>1. \A b \in Leases(lease') : lease'[b].root \in Paths
    BY <1>3 DEF TypeOK, Leases
  <2>2. stage' \in [Threads -> TurnStage]
    BY <1>1, StartTypes
  <2>3. \A t \in Threads : stage'[t] \in {"check", "starting"} => queue[t] > 0
    BY <1>1, StartTypes
  <2> QED BY <1>3, <2>1, <2>2, <2>3 DEF TypeOK
<1>5. HeldOK(lease', stage, tasks) /\ AskingOK(lease', stage, tasks)
  BY <1>3 DEF HeldOK, AskingOK
<1>6. HeldOK(lease', stage', tasks) /\ AskingOK(lease', stage', tasks)
  <2>1. \A t \in Threads : stage'[t] \in {stage[t], NextStage(t, lease')}
    BY <1>1
  <2> QED BY <1>5, <2>1, StartsKeep
<1>7. ApartOK(lease')
  BY <1>3 DEF ApartOK
<1> QED BY <1>4, <1>6, <1>7

\* A lease changes, and nothing else does.
LEMMA LeaseMoves ==
  ASSUME TypeOK, NEW a \in Actions, NEW l \in Lease,
         l.stage \in {"identity", "threads", "held"} => l.root \in Paths,
         lease' = [lease EXCEPT ![a] = l],
         UNCHANGED <<stage, queue, wake, late, tasks, prompts, faults>>
  PROVE  /\ TypeOK' /\ lease'[a] = l
         /\ \A b \in Actions \ {a} : lease'[b] = lease[b]
<1>1. /\ lease' \in [Actions -> Lease] /\ lease'[a] = l
      /\ \A b \in Actions \ {a} : lease'[b] = lease[b]
  BY DEF TypeOK
<1>2. \A b \in Leases(lease') : lease'[b].root \in Paths
  BY <1>1 DEF TypeOK, Leases
<1> QED BY <1>1, <1>2 DEF TypeOK

-----------------------------------------------------------------------------
(* Git actions *)

\* A request is granted a lease at a path that no lease and no work touches; a
\* clone holds it at once.
LEMMA AcquireStep ==
  ASSUME IInv, NEW a \in Actions, NEW p \in Paths, Acquire(a, p)
  PROVE  IInv'
<1> USE DEF IInv
<1> DEFINE l == [NoLease(IF a \in Clones THEN "held" ELSE "identity") EXCEPT !.root = p]
<1>1. /\ lease' = [lease EXCEPT ![a] = l] /\ Available(a, l)
      /\ \A t \in Threads : HasWork(t) => ~Touches(t, p)
      /\ UNCHANGED <<stage, queue, wake, late, tasks, prompts, faults>>
  BY DEF Acquire
<1>2. /\ l \in Lease /\ l.root = p /\ l.repo = None
      /\ l.stage \in {"identity", "held"}
  BY DEF NoLease, Lease, LeaseStage, RepoOrNone
<1> HIDE DEF l
<1>3. /\ TypeOK' /\ lease'[a] = l
      /\ \A b \in Actions \ {a} : lease'[b] = lease[b]
  BY <1>1, <1>2, LeaseMoves
<1>4. HeldOK(lease', stage', tasks')
  <2>1. ASSUME NEW t \in Threads, stage[t] # "none" \/ "seen" \in tasks[t]
        PROVE  ~Touches(t, l.root) /\ ~Meets(t, l)
    BY <1>1, <1>2, <2>1 DEF HasWork, Meets, SameRepo
  <2> QED BY <1>1, <1>3, <2>1 DEF HeldOK
<1>5. AskingOK(lease', stage', tasks')
  BY <1>1, <1>2, <1>3 DEF AskingOK, Seen
<1>6. ApartOK(lease')
  <2>1. ASSUME NEW b \in Actions \ {a}, lease[b].stage \in {"threads", "held"}
        PROVE  Apart(l, lease[b]) /\ Apart(lease[b], l)
    <3>1. b \in Leases(lease) /\ lease[b].root \in Paths
      BY <2>1 DEF Leases, TypeOK
    <3>2. l.root \notin Overlap[lease[b].root]
      BY <1>1, <3>1 DEF Available
    <3>3. lease[b].root \notin Overlap[l.root]
      BY <1>2, <3>1, <3>2, LeaseAssumption
    <3> QED BY <1>2, <3>2, <3>3 DEF Apart
  <2> QED BY <1>3, <2>1 DEF ApartOK
<1> QED BY <1>3, <1>4, <1>5, <1>6

\* A lease that learns its workspace is checked against the other leases, and
\* has every thread with work before it.
LEMMA IdentifiedStep ==
  ASSUME IInv, NEW a \in Actions, Identified(a)
  PROVE  IInv'
<1> USE DEF IInv
<1> DEFINE work == {t \in Threads : HasWork(t)}
           l == [stage |-> IF work = {} THEN "held" ELSE "threads",
                 root |-> Root[lease[a].root], repo |-> Repo[lease[a].root], left |-> work]
<1>1. /\ lease[a].stage = "identity"
      /\ IF Repo[lease[a].root] # None /\ Available(a, l)
         THEN lease' = [lease EXCEPT ![a] = l] /\ UNCHANGED stage
         ELSE Release(a)
      /\ UNCHANGED <<queue, wake, late, tasks, prompts, faults>>
  BY DEF Identified
<1>2. lease[a].root \in Paths
  BY <1>1 DEF TypeOK, Leases
<1>3. l \in Lease /\ l.root \in Paths /\ l.left = work
  BY <1>2, LeaseAssumption DEF Lease, LeaseStage, RepoOrNone
<1>4. l.stage = "held" => work = {}
  OBVIOUS
<1>5. CASE Release(a)
  BY <1>1, <1>5, ReleaseStep DEF TypeOK
<1>6. CASE /\ Available(a, l) /\ lease' = [lease EXCEPT ![a] = l]
           /\ UNCHANGED stage
  <2> HIDE DEF l
  <2>1. /\ TypeOK' /\ lease'[a] = l
        /\ \A b \in Actions \ {a} : lease'[b] = lease[b]
    BY <1>1, <1>3, <1>6, LeaseMoves
  <2>2. \A t \in Threads : Seen(t, stage, tasks) => t \in work
    BY DEF Seen, HasWork
  <2> HIDE DEF work
  <2>3. HeldOK(lease', stage', tasks')
    BY <1>1, <1>4, <1>6, <2>1, <2>2 DEF HeldOK, Seen
  <2>4. AskingOK(lease', stage', tasks')
    BY <1>1, <1>3, <1>6, <2>1, <2>2 DEF AskingOK, Seen
  <2>5. ApartOK(lease')
    <3>1. ASSUME NEW b \in Actions \ {a}, lease[b].stage \in {"threads", "held"}
          PROVE  Apart(l, lease[b]) /\ Apart(lease[b], l)
      <4>1. b \in Leases(lease) /\ lease[b].root \in Paths
        BY <3>1 DEF Leases, TypeOK
      <4>2. /\ l.root \notin Overlap[lease[b].root]
            /\ l.repo # None => l.repo # lease[b].repo
        BY <1>6, <4>1 DEF Available
      <4>3. lease[b].root \notin Overlap[l.root]
        BY <1>3, <4>1, <4>2, LeaseAssumption
      <4> QED BY <4>2, <4>3 DEF Apart
    <3> QED BY <2>1, <3>1 DEF ApartOK
  <2> QED BY <2>1, <2>3, <2>4, <2>5
<1> QED BY <1>1, <1>5, <1>6

\* A thread that does not meet the lease is behind it; after the last one the
\* lease is held.
LEMMA ThreadCheckedStep ==
  ASSUME IInv, NEW a \in Actions, NEW u \in Threads, ThreadChecked(a, u)
  PROVE  IInv'
<1> USE DEF IInv
<1> DEFINE rest == lease[a].left \ {u}
           l == [lease[a] EXCEPT !.left = rest,
                   !.stage = IF rest = {} THEN "held" ELSE "threads"]
<1>1. /\ lease[a].stage = "threads"
      /\ IF Meets(u, lease[a]) THEN Release(a)
         ELSE lease' = [lease EXCEPT ![a] = l] /\ UNCHANGED stage
      /\ UNCHANGED <<queue, wake, late, tasks, prompts, faults>>
  BY DEF ThreadChecked, TypeOK
<1>2. CASE Release(a)
  BY <1>1, <1>2, ReleaseStep DEF TypeOK
<1>3. CASE ~Meets(u, lease[a]) /\ lease' = [lease EXCEPT ![a] = l] /\ UNCHANGED stage
  <2>1. lease[a] \in Lease /\ lease[a].root \in Paths
    BY <1>1 DEF TypeOK, Leases
  <2>2. /\ l \in Lease /\ l.root = lease[a].root /\ l.repo = lease[a].repo
        /\ l.left = rest /\ l.stage \in {"held", "threads"}
        /\ l.stage = "held" => rest = {}
    BY <2>1 DEF Lease, LeaseStage
  <2> HIDE DEF l
  <2>3. /\ TypeOK' /\ lease'[a] = l
        /\ \A b \in Actions \ {a} : lease'[b] = lease[b]
    BY <1>1, <1>3, <2>1, <2>2, LeaseMoves
  <2>4. \A t \in Threads : Seen(t, stage, tasks) => t \in rest \/ ~Meets(t, lease[a])
    BY <1>1, <1>3 DEF AskingOK
  <2>5. \A t \in Threads : /\ Meets(t, l) <=> Meets(t, lease[a])
                           /\ Touches(t, l.root) => Meets(t, l)
    BY <2>2 DEF Meets, SameRepo
  <2> HIDE DEF rest
  <2>6. HeldOK(lease', stage', tasks')
    BY <1>1, <1>3, <2>2, <2>3, <2>4, <2>5 DEF HeldOK, Seen
  <2>7. AskingOK(lease', stage', tasks')
    BY <1>1, <1>3, <2>2, <2>3, <2>4, <2>5 DEF AskingOK, Seen
  <2>8. ApartOK(lease')
    BY <1>1, <2>2, <2>3 DEF ApartOK, Apart
  <2> QED BY <2>3, <2>6, <2>7, <2>8
<1> QED BY <1>1, <1>2, <1>3

-----------------------------------------------------------------------------
(* Turns *)

\* A waiting handler starts its queue if nothing is in the way.
LEMMA StartNextStep ==
  ASSUME IInv, NEW t \in Threads, StartNext(t)
  PROVE  IInv'
<1> USE DEF IInv
<1>1. /\ wake' = [wake EXCEPT ![t] = FALSE]
      /\ stage' = [stage EXCEPT ![t] = NextStage(t, lease)]
      /\ UNCHANGED <<lease, queue, late, tasks, prompts, faults>>
  BY DEF StartNext
<1>2. \A u \in Threads : stage'[u] \in {stage[u], NextStage(u, lease)}
  BY <1>1 DEF TypeOK
<1>3. HeldOK(lease, stage', tasks) /\ AskingOK(lease, stage', tasks)
  BY <1>2, StartsKeep
<1>4. TypeOK'
  <2>1. stage' \in [Threads -> TurnStage]
    BY <1>1, StartTypes DEF TypeOK
  <2>2. \A u \in Threads : stage'[u] \in {"check", "starting"} => queue[u] > 0
    BY <1>2, StartTypes DEF TypeOK
  <2> QED BY <1>1, <2>1, <2>2 DEF TypeOK
<1> QED BY <1>1, <1>3, <1>4

\* The stage of one thread changes, and nothing it would have to be checked for.
LEMMA StageMoves ==
  ASSUME TypeOK, NEW t \in Threads, NEW s \in TurnStage,
         s \in {"check", "starting"} => queue[t] > 0,
         stage' = [stage EXCEPT ![t] = s],
         UNCHANGED <<lease, queue, wake, late, tasks, prompts>>, faults' \in 0..MaxFaults
  PROVE  /\ TypeOK' /\ stage'[t] = s
         /\ \A u \in Threads \ {t} : stage'[u] = stage[u]
<1>1. /\ stage' \in [Threads -> TurnStage] /\ stage'[t] = s
      /\ \A u \in Threads \ {t} : stage'[u] = stage[u]
  BY DEF TypeOK
<1> QED BY <1>1 DEF TypeOK

\* Fewer threads are seen than before.
LEMMA SeenLess ==
  ASSUME NEW st, NEW ta, HeldOK(lease, stage, tasks), AskingOK(lease, stage, tasks),
         \A t \in Threads : /\ st[t] \in {stage[t], "none"}
                            /\ "seen" \in ta[t] => "seen" \in tasks[t]
  PROVE  HeldOK(lease, st, ta) /\ AskingOK(lease, st, ta)
BY DEF HeldOK, AskingOK, Seen

\* What a fault leaves of its bound.
LEMMA FaultBound == ASSUME TypeOK, Fault PROVE faults' \in 0..MaxFaults
<1>1. MaxFaults \in Nat /\ faults \in 0..MaxFaults
  BY LeaseAssumption DEF TypeOK
<1> QED BY <1>1 DEF Fault

\* The answer of Git admits a thread whose path was found free, if no lease was
\* taken or is being taken in its repository.
LEMMA CheckedStep ==
  ASSUME IInv, NEW t \in Threads, Checked(t)
  PROVE  IInv'
<1> USE DEF IInv
<1>1. /\ stage[t] = "check"
      /\ UNCHANGED <<lease, queue, wake, late, tasks, prompts>>
  BY DEF Checked
<1>2. faults' \in 0..MaxFaults
  BY FaultBound DEF Checked, TypeOK
<1>3. queue[t] > 0
  BY <1>1 DEF TypeOK
<1>4. CASE stage' = [stage EXCEPT ![t] = "none"]
  <2>1. TypeOK' /\ \A u \in Threads : stage'[u] \in {stage[u], "none"}
    BY <1>1, <1>2, <1>4, StageMoves DEF TurnStage
  <2> QED BY <1>1, <2>1, SeenLess
<1>5. CASE /\ stage' = [stage EXCEPT ![t] = "starting"]
           /\ ~Conflict(t) \/ Leases(lease) = {}
  <2>1. /\ TypeOK' /\ stage'[t] = "starting"
        /\ \A u \in Threads \ {t} : stage'[u] = stage[u]
    BY <1>1, <1>2, <1>3, <1>5, StageMoves DEF TurnStage
  <2>2. ASSUME NEW a \in Actions, lease[a].stage = "held"
        PROVE  ~Meets(t, lease[a])
    <3>1. a \in Leases(lease)
      BY <2>2 DEF Leases
    <3>2. ~Touches(t, lease[a].root)
      BY <1>1, <2>2 DEF HeldOK
    <3>3. ~SameRepo(t, lease[a])
      BY <1>5, <3>1 DEF Conflict, SameRepo
    <3> QED BY <3>2, <3>3 DEF Meets
  <2>3. HeldOK(lease', stage', tasks')
    BY <1>1, <2>1, <2>2 DEF HeldOK, Meets
  <2>4. AskingOK(lease', stage', tasks')
    BY <1>1, <2>1 DEF AskingOK, Seen
  <2> QED BY <1>1, <2>1, <2>3, <2>4
<1> QED BY <1>4, <1>5 DEF Checked

\* A thread that was admitted stays as exclusive as it was.
LEMMA StartedStep ==
  ASSUME IInv, NEW t \in Threads, Started(t)
  PROVE  IInv'
<1> USE DEF IInv
<1>1. /\ stage[t] = "starting" /\ stage' = [stage EXCEPT ![t] = "running"]
      /\ queue' = [queue EXCEPT ![t] = @ - 1]
      /\ UNCHANGED <<lease, wake, late, tasks, prompts, faults>>
  BY DEF Started
<1>2. /\ stage' \in [Threads -> TurnStage] /\ stage'[t] = "running"
      /\ \A u \in Threads \ {t} : stage'[u] = stage[u]
  BY <1>1 DEF TypeOK, TurnStage
<1>3. /\ queue' \in [Threads -> Nat]
      /\ \A u \in Threads \ {t} : queue'[u] = queue[u]
  <2>1. queue[t] \in Nat /\ queue[t] > 0
    BY <1>1 DEF TypeOK
  <2>2. queue[t] - 1 \in Nat
    BY <2>1
  <2> QED BY <1>1, <2>2 DEF TypeOK
<1>4. TypeOK'
  BY <1>1, <1>2, <1>3 DEF TypeOK
<1>5. HeldOK(lease, stage', tasks)
  BY <1>1, <1>2 DEF HeldOK
<1>6. AskingOK(lease, stage', tasks)
  BY <1>1, <1>2 DEF AskingOK, Seen
<1> QED BY <1>1, <1>4, <1>5, <1>6

\* A turn that ends may leave its prompt running; it is no work any more.
LEMMA SettledStep ==
  ASSUME IInv, NEW t \in Threads, Settled(t)
  PROVE  IInv'
<1> USE DEF IInv
<1>1. /\ stage[t] = "running" /\ stage' = [stage EXCEPT ![t] = "none"]
      /\ late' \in {late, [late EXCEPT ![t] = @ + 1]}
      /\ wake' = [wake EXCEPT ![t] = TRUE]
      /\ UNCHANGED <<lease, queue, tasks, prompts, faults>>
  BY DEF Settled
<1>2. /\ stage' \in [Threads -> TurnStage] /\ stage'[t] = "none"
      /\ \A u \in Threads \ {t} : stage'[u] = stage[u]
  BY <1>1 DEF TypeOK, TurnStage
<1>3. late' \in [Threads -> Nat]
  BY <1>1 DEF TypeOK
<1>4. TypeOK'
  BY <1>1, <1>2, <1>3 DEF TypeOK
<1>5. HeldOK(lease, stage', tasks) /\ AskingOK(lease, stage', tasks)
  <2>1. \A u \in Threads : stage'[u] \in {stage[u], "none"}
    BY <1>2
  <2> QED BY <2>1, SeenLess
<1> QED BY <1>1, <1>4, <1>5

\* A task of a turn works where the turn does; a cancelled prompt's is seen by the
\* next request for a lease if it comes before it.
LEMMA NewTaskStep ==
  ASSUME IInv, NEW t \in Threads, NewTask(t)
  PROVE  IInv'
<1> USE DEF IInv
<1> DEFINE kind == IF stage[t] = "running" \/ Leases(lease) = {} THEN "seen" ELSE "unseen"
<1>1. /\ tasks' = [tasks EXCEPT ![t] = @ \cup {kind}]
      /\ UNCHANGED <<lease, stage, queue, wake, late, prompts, faults>>
  BY DEF NewTask
<1>2. kind \in TaskKind /\ (kind = "seen" => stage[t] = "running" \/ Leases(lease) = {})
  BY DEF TaskKind
<1> HIDE DEF kind
<1>3. /\ tasks' \in [Threads -> SUBSET TaskKind]
      /\ \A u \in Threads : "seen" \in tasks'[u]
           => "seen" \in tasks[u] \/ stage[u] = "running" \/ Leases(lease) = {}
  <2>1. /\ tasks \in [Threads -> SUBSET TaskKind]
        /\ tasks'[t] = tasks[t] \cup {kind}
        /\ \A u \in Threads \ {t} : tasks'[u] = tasks[u]
    BY <1>1 DEF TypeOK
  <2>2. tasks[t] \cup {kind} \in SUBSET TaskKind
    BY <1>2, <2>1
  <2>3. tasks' \in [Threads -> SUBSET TaskKind]
    BY <1>1, <2>1, <2>2
  <2> QED BY <1>2, <2>1, <2>3
<1>4. TypeOK'
  BY <1>1, <1>3 DEF TypeOK
<1>5. HeldOK(lease, stage, tasks')
  BY <1>3 DEF HeldOK, Leases
<1>6. AskingOK(lease, stage, tasks')
  BY <1>3 DEF AskingOK, Seen, Leases
<1> QED BY <1>1, <1>4, <1>5, <1>6

\* What the agent does after a turn keeps the invariant.
LEMMA AgentStep ==
  ASSUME IInv, NEW t \in Threads, Agent(t)
  PROVE  IInv'
<1> USE DEF IInv
<1>1. CASE LateReturn(t)
  <2>1. /\ late[t] > 0 /\ late' = [late EXCEPT ![t] = @ - 1]
        /\ UNCHANGED <<lease, stage, queue, wake, tasks, prompts, faults>>
    BY <1>1 DEF LateReturn
  <2>2. late' \in [Threads -> Nat]
    BY <2>1 DEF TypeOK
  <2>3. TypeOK'
    BY <2>1, <2>2 DEF TypeOK
  <2> QED BY <2>1, <2>3
<1>2. CASE TasksEnd(t)
  <2>1. PICK kind \in tasks[t] : tasks' = [tasks EXCEPT ![t] = @ \ {kind}]
    BY <1>2 DEF TasksEnd
  <2>2. UNCHANGED <<lease, stage, queue, wake, late, prompts, faults>>
    BY <1>2 DEF TasksEnd
  <2>3. /\ tasks' \in [Threads -> SUBSET TaskKind]
        /\ \A u \in Threads : "seen" \in tasks'[u] => "seen" \in tasks[u]
    BY <2>1 DEF TypeOK
  <2>4. TypeOK'
    BY <2>2, <2>3 DEF TypeOK
  <2> QED BY <2>2, <2>3, <2>4, SeenLess
<1> QED BY <1>1, <1>2, NewTaskStep DEF Agent

\* Every step keeps the invariant.
LEMMA Inductive == IInv /\ [Next]_vars => IInv'
<1> SUFFICES ASSUME IInv, [Next]_vars PROVE IInv'
  OBVIOUS
<1>1. ASSUME NEW t \in Threads, Enqueue(t) PROVE IInv'
  <2>1. /\ prompts < MaxPrompts /\ prompts' = prompts + 1
        /\ queue' = [queue EXCEPT ![t] = @ + 1]
        /\ wake' = [wake EXCEPT ![t] = TRUE]
        /\ UNCHANGED <<lease, stage, late, tasks, faults>>
    BY <1>1 DEF Enqueue
  <2>2. prompts' \in 0..MaxPrompts
    <3>1. MaxPrompts \in Nat /\ prompts \in 0..MaxPrompts
      BY LeaseAssumption DEF IInv, TypeOK
    <3> QED BY <2>1, <3>1
  <2>3. /\ queue' \in [Threads -> Nat]
        /\ \A u \in Threads : queue[u] > 0 => queue'[u] > 0
    <3>1. queue \in [Threads -> Nat]
      BY DEF IInv, TypeOK
    <3> QED BY <2>1, <3>1
  <2>4. TypeOK'
    BY <2>1, <2>2, <2>3 DEF IInv, TypeOK
  <2> QED BY <2>1, <2>4 DEF IInv
<1>2. ASSUME NEW t \in Threads, StartFails(t) PROVE IInv'
  <2>1. /\ stage' = [stage EXCEPT ![t] = "none"] /\ Fault
        /\ UNCHANGED <<lease, queue, wake, late, tasks, prompts>>
    BY <1>2 DEF StartFails
  <2>2. faults' \in 0..MaxFaults
    BY <2>1, FaultBound DEF IInv
  <2>3. TypeOK' /\ \A u \in Threads : stage'[u] \in {stage[u], "none"}
    BY <2>1, <2>2, StageMoves DEF IInv, TurnStage
  <2> QED BY <2>1, <2>3, SeenLess DEF IInv
<1>3. ASSUME NEW t \in Threads, Agent(t) PROVE IInv'
  BY <1>3, AgentStep
<1>4. ASSUME NEW t \in Threads, Turn(t) PROVE IInv'
  BY <1>4, StartNextStep, CheckedStep, StartedStep, SettledStep DEF Turn
<1>5. ASSUME NEW a \in Actions, ActionEnds(a) PROVE IInv'
  <2>1. Release(a) /\ UNCHANGED <<queue, wake, late, tasks, prompts, faults>>
    BY <1>5 DEF ActionEnds
  <2>2. faults' \in 0..MaxFaults
    BY <2>1 DEF IInv, TypeOK
  <2> QED BY <2>1, <2>2, ReleaseStep
<1>6. ASSUME NEW a \in Actions, GitFails(a) PROVE IInv'
  <2>1. Release(a) /\ Fault /\ UNCHANGED <<queue, wake, late, tasks, prompts>>
    BY <1>6 DEF GitFails
  <2>2. faults' \in 0..MaxFaults
    BY <2>1, FaultBound DEF IInv
  <2> QED BY <2>1, <2>2, ReleaseStep
<1>7. ASSUME NEW a \in Actions, Git(a) PROVE IInv'
  BY <1>5, <1>7, IdentifiedStep, ThreadCheckedStep DEF Git
<1>8. ASSUME UNCHANGED vars PROVE IInv'
  <2>1. TypeOK'
    BY <1>8 DEF vars, IInv, TypeOK, Leases
  <2> QED BY <1>8, <2>1 DEF vars, IInv
<1> QED BY <1>1, <1>2, <1>3, <1>4, <1>6, <1>7, <1>8, AcquireStep DEF Next

\* Nothing is leased and nothing runs at first.
LEMMA Initially == Init => IInv
<1> SUFFICES ASSUME Init PROVE IInv
  OBVIOUS
<1> USE DEF Init
<1>1. NoLease("none") \in Lease /\ NoLease("none").stage = "none"
  BY DEF NoLease, Lease, LeaseStage, RepoOrNone
<1>2. TypeOK
  <2>1. 0 \in 0..MaxPrompts /\ 0 \in 0..MaxFaults
    BY LeaseAssumption
  <2> QED BY <1>1, <2>1 DEF TypeOK, Leases, TurnStage
<1>3. HeldOK(lease, stage, tasks) /\ AskingOK(lease, stage, tasks) /\ ApartOK(lease)
  BY <1>1 DEF HeldOK, AskingOK, ApartOK
<1> QED BY <1>2, <1>3 DEF IInv

\* The invariant holds in every reachable state.
LEMMA Invariance == Spec => []IInv
<1> QED BY Initially, Inductive, PTL DEF Spec

-----------------------------------------------------------------------------
(* Results *)

\* Every variable keeps its type, and only a queue with a prompt is started.
THEOREM TypeCorrect == Spec => []TypeOK
<1>1. IInv => TypeOK
  BY DEF IInv
<1> QED BY <1>1, Invariance, PTL

\* acquireGitWorkspaceLease and runNextQueued together keep Git actions and the
\* agent's work apart, in a directory as in a repository with worktrees,
\* whichever of them asks Git first; what a prompt leaves that outlived its turn's
\* cancellation, under a lease, is not kept apart (Exclusion says so).
THEOREM GitExcludesTurns == Spec => []Exclusion
<1>1. IInv => Exclusion
  BY DEF IInv, Exclusion, HeldOK, Works
<1> QED BY <1>1, Invariance, PTL

\* assertLeaseAvailable before and after the await keeps two Git actions apart.
THEOREM GitExcludesGit == Spec => []LeasesDisjoint
<1>1. IInv => LeasesDisjoint
  BY DEF IInv, LeasesDisjoint, ApartOK, Apart
<1> QED BY <1>1, Invariance, PTL

-----------------------------------------------------------------------------
(* Work against policy changes and updates: module RuntimePolicy. *)

TurnStates == {"idle", "queued", "admitted", "ready", "running"}

PolicyTyped ==
  /\ Policy!TypeOK /\ policyConfirmed \in BOOLEAN
  /\ policyChange.step \in {"none", "read", "reset", "login"}
  /\ policyChange = [kind |-> policyChange.kind, step |-> policyChange.step, left |-> policyChange.left,
               closing |-> policyChange.closing]
  /\ policyChange.left \subseteq PolicyKeys /\ policyChange.closing \in PolicyKeys \cup {None}

\* Who changes the policy holds every key, and no window prepares an update.
KeysAreHeld ==
  /\ policyPolicy = IF policyChange.step = "none" THEN {} ELSE PolicyKeys
  /\ policyChange.step # "none" => policyLease = None
  /\ policyChange.closing # None => policyChange.step = "reset"

\* While the keys are held nothing begins: no request is admitted, no runtime
\* starts, and a chat whose runtime is to be closed stays idle.
ChangeIsQuiet ==
  policyChange.step # "none" =>
    /\ \A r \in PolicyRequests : policyOps[r] = None
    /\ \A k \in PolicyKeys : policyRuntime[k] # "starting"
    /\ \A k \in PolicyKeys : k \in policyChange.left \/ k = policyChange.closing => policyTurn[k] = "idle"

\* While a window holds the lease nothing begins, confirmed or not.
LeaseIsQuiet == policyLease # None => ~Policy!Blocked
ConfirmedHolds == policyConfirmed => policyLease # None

PolicyInv == PolicyTyped /\ KeysAreHeld /\ ChangeIsQuiet /\ LeaseIsQuiet /\ ConfirmedHolds

-----------------------------------------------------------------------------

\* There are runtimes, and a name that is none of them, for "no runtime".
PolicyNamed == PolicyKeys # {} /\ None \notin PolicyKeys /\ None \notin PolicyWindows

\* Initially nothing runs and nobody holds a key or the lease.
LEMMA PolicyInit == ASSUME PolicyNamed PROVE Policy!Init => PolicyInv
<1> SUFFICES ASSUME Policy!Init PROVE PolicyInv
  OBVIOUS
<1>1. policyChange = [kind |-> "none", step |-> "none", left |-> {}, closing |-> None]
  BY DEF Policy!Init, Policy!NoChange
<1>2. /\ policyChange = [kind |-> policyChange.kind, step |-> policyChange.step, left |-> policyChange.left,
                  closing |-> policyChange.closing]
      /\ policyChange.step = "none" /\ policyChange.left = {} /\ policyChange.closing = None
  BY <1>1
<1>3. PolicyTyped
  BY <1>2 DEF Policy!Init, PolicyTyped, Policy!TypeOK
<1> QED
  BY <1>2, <1>3 DEF Policy!Init, PolicyInv, KeysAreHeld, ChangeIsQuiet, LeaseIsQuiet,
     ConfirmedHolds

\* PolicyRequests and their runtimes.
LEMMA RequestStep ==
  ASSUME PolicyNamed, PolicyInv, NEW k \in PolicyKeys, NEW r,
         (r \in PolicyRequests /\ Policy!Begin(r, k)) \/ (r \in PolicyRequests /\ Policy!End(r))
           \/ Policy!Ensure(k) \/ Policy!Send(k) \/ Policy!Started(k) \/ Policy!Dies(k)
  PROVE  PolicyInv'
<1> USE DEF PolicyInv, PolicyTyped, Policy!TypeOK, KeysAreHeld, ChangeIsQuiet, LeaseIsQuiet,
   ConfirmedHolds,
            Policy!Blocked, Policy!OpsOn, Policy!Available, PolicyNamed
<1>1. CASE r \in PolicyRequests /\ Policy!Begin(r, k)
  BY <1>1 DEF Policy!Begin, Policy!CanOperate
<1>2. CASE r \in PolicyRequests /\ Policy!End(r)
  BY <1>2 DEF Policy!End
<1>3. CASE Policy!Ensure(k)
  BY <1>3 DEF Policy!Ensure
<1>4. CASE Policy!Send(k)
  BY <1>4 DEF Policy!Send
<1>5. CASE Policy!Started(k)
  BY <1>5 DEF Policy!Started
<1>6. CASE Policy!Dies(k)
  BY <1>6 DEF Policy!Dies
<1> QED
  BY <1>1, <1>2, <1>3, <1>4, <1>5, <1>6

\* Queued prompts.
LEMMA TurnStep ==
  ASSUME PolicyNamed, PolicyInv, NEW k \in PolicyKeys,
         Policy!RunNext(k) \/ Policy!EnsureTurn(k) \/ Policy!StartTurn(k) \/ Policy!TurnEnds(k) \/ Policy!RunSchedule(k)
  PROVE  PolicyInv'
<1> USE DEF PolicyInv, PolicyTyped, Policy!TypeOK, KeysAreHeld, ChangeIsQuiet, LeaseIsQuiet,
   ConfirmedHolds,
            Policy!Blocked, Policy!Available, PolicyNamed
<1>1. CASE Policy!RunNext(k)
  BY <1>1 DEF Policy!RunNext
<1>2. CASE Policy!EnsureTurn(k)
  BY <1>2 DEF Policy!EnsureTurn
<1>3. CASE Policy!StartTurn(k)
  BY <1>3 DEF Policy!StartTurn
<1>4. CASE Policy!TurnEnds(k)
  BY <1>4 DEF Policy!TurnEnds
<1>5. CASE Policy!RunSchedule(k)
  BY <1>5 DEF Policy!RunSchedule
<1> QED
  BY <1>1, <1>2, <1>3, <1>4, <1>5

\* Schedules.
LEMMA ScheduleStep ==
  ASSUME PolicyNamed, PolicyInv,
         Policy!CheckSchedules \/ Policy!SchedulesChecked \/ Policy!Recorded
  PROVE  PolicyInv'
BY DEF PolicyInv, PolicyTyped, Policy!TypeOK, KeysAreHeld, ChangeIsQuiet, LeaseIsQuiet,
   ConfirmedHolds, Policy!Blocked,
       Policy!CheckSchedules, Policy!MayCheck, Policy!SchedulesChecked, Policy!Recorded

\* A policy change takes the keys when nothing is at work and holds them.
LEMMA PolicyAcquireStep ==
  ASSUME PolicyNamed, PolicyInv, NEW kind, Policy!Acquire(kind)
  PROVE  PolicyInv'
<1> USE DEF PolicyInv, PolicyTyped, Policy!TypeOK, KeysAreHeld, ChangeIsQuiet, LeaseIsQuiet,
   ConfirmedHolds,
            Policy!Blocked, PolicyNamed
<1>1. /\ \A r \in PolicyRequests : policyOps[r] = None
      /\ \A k \in PolicyKeys : policyRuntime[k] # "starting"
      /\ kind # "mcp" => \A k \in PolicyKeys : policyTurn[k] = "idle"
      /\ policyLease = None
  BY DEF Policy!Acquire, Policy!Busy, Policy!OpsOn, Policy!HasWork
<1> QED
  BY <1>1 DEF Policy!Acquire, Policy!NoChange

\* Closing a runtime, and looking at the work of the affected chats.
LEMMA ChangeStep ==
  ASSUME PolicyNamed, PolicyInv, NEW k \in PolicyKeys,
         Policy!Close(k) \/ Policy!Closed(k) \/ (\E targets \in (SUBSET PolicyKeys) \ {{}} : Policy!Affected(targets))
  PROVE  PolicyInv'
<1> USE DEF PolicyInv, PolicyTyped, Policy!TypeOK, KeysAreHeld, ChangeIsQuiet, LeaseIsQuiet,
   ConfirmedHolds,
            Policy!Blocked, PolicyNamed
<1>1. CASE Policy!Close(k)
  BY <1>1 DEF Policy!Close
<1>2. CASE Policy!Closed(k)
  BY <1>2 DEF Policy!Closed
<1>3. ASSUME NEW targets \in (SUBSET PolicyKeys) \ {{}}, Policy!Affected(targets)
      PROVE  PolicyInv'
  BY <1>3 DEF Policy!Affected, Policy!HasWork
<1> QED
  BY <1>1, <1>2, <1>3

\* The keys are given back, or a sign-in goes on with them and ends.
LEMMA PolicyReleaseStep ==
  ASSUME PolicyNamed, PolicyInv, Policy!Release \/ Policy!StartLogin \/ Policy!LoginEnds
  PROVE  PolicyInv'
<1> USE DEF PolicyInv, PolicyTyped, Policy!TypeOK, KeysAreHeld, ChangeIsQuiet, LeaseIsQuiet,
   ConfirmedHolds,
            Policy!Blocked, PolicyNamed, Policy!GiveBack, Policy!NoChange
<1>1. CASE Policy!Release
  BY <1>1 DEF Policy!Release
<1>2. CASE Policy!StartLogin
  BY <1>2 DEF Policy!StartLogin
<1>3. CASE Policy!LoginEnds
  BY <1>3 DEF Policy!LoginEnds
<1> QED
  BY <1>1, <1>2, <1>3

\* The update lease.
LEMMA LeaseStep ==
  ASSUME PolicyNamed, PolicyInv, NEW w \in PolicyWindows,
         Policy!Prepare(w) \/ Policy!Confirm(w) \/ Policy!ReleaseLease(w)
  PROVE  PolicyInv'
<1> USE DEF PolicyInv, PolicyTyped, Policy!TypeOK, KeysAreHeld, ChangeIsQuiet, LeaseIsQuiet,
   ConfirmedHolds,
            Policy!Blocked, PolicyNamed
<1>1. CASE Policy!Prepare(w)
  BY <1>1 DEF Policy!Prepare
<1>2. CASE Policy!Confirm(w)
  BY <1>2 DEF Policy!Confirm
<1>3. CASE Policy!ReleaseLease(w)
  BY <1>3 DEF Policy!ReleaseLease
<1> QED
  BY <1>1, <1>2, <1>3

-----------------------------------------------------------------------------

\* The invariant holds in every reachable state.
LEMMA PolicyInductive == ASSUME PolicyNamed PROVE Policy!Spec => []PolicyInv
<1>1. Policy!Init => PolicyInv
  BY PolicyInit
<1>2. PolicyInv /\ [Policy!Next]_(Policy!vars) => PolicyInv'
  <2> SUFFICES ASSUME PolicyInv, [Policy!Next]_(Policy!vars) PROVE PolicyInv'
    OBVIOUS
  <2>1. CASE UNCHANGED Policy!vars
    BY <2>1 DEF Policy!vars, PolicyInv, PolicyTyped, Policy!TypeOK, KeysAreHeld,
       ChangeIsQuiet, LeaseIsQuiet,
                ConfirmedHolds, Policy!Blocked
  <2>2. CASE Policy!Next
    <3>1. PICK one \in PolicyKeys : TRUE
      BY DEF PolicyNamed
    <3>2. ASSUME NEW r \in PolicyRequests, Policy!End(r) PROVE PolicyInv'
      BY <3>1, <3>2, RequestStep
    <3>3. ASSUME NEW targets \in (SUBSET PolicyKeys) \ {{}}, Policy!Affected(targets)
          PROVE  PolicyInv'
      BY <3>1, <3>3, ChangeStep
    <3>4. ASSUME NEW k \in PolicyKeys, NEW r \in PolicyRequests, Policy!Begin(r, k)
          PROVE  PolicyInv'
      BY <3>4, RequestStep
    <3>5. ASSUME NEW k \in PolicyKeys, Policy!Ensure(k) \/ Policy!Send(k) \/ Policy!Started(k) \/ Policy!Dies(k)
          PROVE  PolicyInv'
      BY <3>5, RequestStep
    <3> QED
      BY <2>2, <3>2, <3>3, <3>4, <3>5, TurnStep, ScheduleStep, PolicyAcquireStep,
         ChangeStep, PolicyReleaseStep,
         LeaseStep DEF Policy!Next
  <2> QED
    BY <2>1, <2>2
<1> QED
  BY <1>1, <1>2, PTL DEF Policy!Spec

\* No policy change closes a runtime that is at work (resetRuntimeInstance,
\* assertAffectedRuntimesIdle).
THEOREM WorkIsNotCutOff == ASSUME PolicyNamed PROVE Policy!Spec => []NothingIsCutOff
<1>1. PolicyInv => NothingIsCutOff
  BY DEF NothingIsCutOff, PolicyNamed, PolicyInv, PolicyTyped, Policy!TypeOK, KeysAreHeld,
     ChangeIsQuiet,
     Policy!NothingIsCutOff, Policy!OpsOn, Policy!Admitted, Policy!Going
<1> QED
  BY <1>1, PolicyInductive, PTL

\* While an update that was confirmed is installed nothing is at work
\* (env.prepareUpdate, env.confirmUpdate).
THEOREM UpdatesAreQuiet == ASSUME PolicyNamed PROVE Policy!Spec => []UpdateIsQuiet
<1>1. PolicyInv => UpdateIsQuiet
  BY DEF UpdateIsQuiet, PolicyInv, LeaseIsQuiet, ConfirmedHolds, Policy!UpdateIsQuiet
<1> QED
  BY <1>1, PolicyInductive, PTL

-----------------------------------------------------------------------------
(* Background tasks: module BackgroundTasks. *)

\* The cardinality that the instance means is the one of the library.
LEMMA TaskCounts == \A S : Background!Cardinality(S) = Cardinality(S)
BY DEF Background!Cardinality, Cardinality

\* The limits are numbers and there are finitely many tasks.
TaskLimits == IsFiniteSet(TaskIds) /\ TaskActiveLimit \in Nat /\ TaskMonitorLimit \in Nat

\* The tasks that count towards the limits.
Counted == Background!Running \cap taskAsActive
CountedIn(h) == Background!ActiveIn(h) \cap taskAsActive

\* A task is ended once, and in the order of registration once.
TaskLogOK ==
  /\ taskStatus \in [TaskIds -> {"none", "running", "ended"}]
  /\ taskEnds \in [TaskIds -> Nat]
  /\ \A t \in TaskIds : taskEnds[t] = IF taskStatus[t] = "ended" THEN 1 ELSE 0
  /\ taskOrder \in Seq(TaskIds) /\ Background!IsInjective(taskOrder)
  /\ \A i \in DOMAIN taskOrder : taskStatus[taskOrder[i]] # "none"
  /\ taskTools \subseteq TaskIds
  /\ \A t \in taskAsActive : t \in TaskIds /\ taskStatus[t] # "none"

WithinLimits ==
  /\ \A h \in TaskThreads : Cardinality(CountedIn(h)) <= TaskActiveLimit
  /\ Cardinality(Counted) <= TaskMonitorLimit

IsTaskOp(op) ==
  /\ op = [thread |-> op.thread, gen |-> op.gen, task |-> op.task, todo |-> op.todo,
           room |-> op.room, total |-> op.total, ended |-> op.ended]
  /\ op.room \in Int /\ op.total \in Int

\* An operation that waits has looked at nothing; the monitor's has nothing to register.
TaskWaits(op) == IsTaskOp(op) /\ (op.todo = IF op.thread = None THEN {} ELSE None)

\* What the one at work is to register is not registered, and there is the room it knows of.
TaskAtWork(op) ==
  /\ IsTaskOp(op)
  /\ op.thread = None => op.todo = {}
  /\ op.thread # None /\ op.todo # None =>
       /\ \A t \in op.todo : t \in TaskIds /\ TaskThreadOf[t] = op.thread /\ taskStatus[t] = "none"
       /\ op.room <= TaskActiveLimit - Cardinality(CountedIn(op.thread))
       /\ op.total <= TaskMonitorLimit - Cardinality(Counted)
TaskChainOK ==
  /\ taskChain \in Seq(Background!ToSet(taskChain))
  /\ taskChain # <<>> => TaskAtWork(taskChain[1])
  /\ \A i \in DOMAIN taskChain : i # 1 => TaskWaits(taskChain[i])

TaskInv == TaskLogOK /\ WithinLimits /\ TaskChainOK

-----------------------------------------------------------------------------

\* Initially there are no tasks and no operations.
LEMMA TaskInit == ASSUME TaskLimits, Background!Init PROVE TaskInv
<1>1. Counted = {} /\ \A h \in TaskThreads : CountedIn(h) = {}
  BY DEF Background!Init, Counted, CountedIn
<1>2. WithinLimits
  BY <1>1, FS_EmptySet DEF WithinLimits, TaskLimits
<1>3. TaskLogOK
  BY EmptySeq DEF Background!Init, TaskLogOK, Background!IsInjective
<1>4. TaskChainOK
  BY EmptySeq DEF Background!Init, TaskChainOK
<1> QED BY <1>2, <1>3, <1>4 DEF TaskInv

\* The sets that are counted are finite.
LEMMA CountsAreFinite ==
  ASSUME TaskLimits
  PROVE  /\ IsFiniteSet(Counted) /\ Cardinality(Counted) \in Nat
         /\ \A h : IsFiniteSet(CountedIn(h)) /\ Cardinality(CountedIn(h)) \in Nat
         /\ IsFiniteSet(Background!Running)
         /\ Cardinality(Background!Running) \in Nat
         /\ Cardinality(Counted) <= Cardinality(Background!Running)
         /\ \A h : /\ IsFiniteSet(Background!ActiveIn(h)) /\ Cardinality(Background!ActiveIn(h)) \in Nat
                   /\ Cardinality(CountedIn(h)) <= Cardinality(Background!ActiveIn(h))
<1>1. Counted \subseteq Background!Running /\ Background!Running \subseteq TaskIds
  BY DEF Counted, Background!Running
<1>2. \A h : CountedIn(h) \subseteq Background!ActiveIn(h) /\ Background!ActiveIn(h) \subseteq TaskIds
  BY DEF CountedIn, Background!ActiveIn, Background!Running
<1>3. IsFiniteSet(Background!Running) /\ \A h : IsFiniteSet(Background!ActiveIn(h))
  BY <1>1, <1>2, FS_Subset DEF TaskLimits
<1>4. IsFiniteSet(Counted) /\ Cardinality(Counted) <= Cardinality(Background!Running)
  BY <1>1, <1>3, FS_Subset
<1>5. \A h : IsFiniteSet(CountedIn(h)) /\ Cardinality(CountedIn(h)) <= Cardinality(Background!ActiveIn(h))
  BY <1>2, <1>3, FS_Subset
<1> QED BY <1>3, <1>4, <1>5, FS_CardinalityType

\* FewerCounted tasks run: the counts do not grow.
LEMMA FewerCounted ==
  ASSUME TaskLimits, Background!Running' \subseteq Background!Running,
         taskAsActive' = taskAsActive
  PROVE  /\ Cardinality(Counted)' <= Cardinality(Counted) /\ Cardinality(Counted)' \in Nat
         /\ \A h : Cardinality(CountedIn(h))' <= Cardinality(CountedIn(h)) /\ Cardinality(CountedIn(h))' \in Nat
<1>1. Counted' \subseteq Counted
  BY DEF Counted
<1>2. ASSUME NEW h PROVE CountedIn(h)' \subseteq CountedIn(h)
  BY DEF CountedIn, Background!ActiveIn
<1> QED BY <1>1, <1>2, CountsAreFinite, FS_Subset, FS_CardinalityType

\* One more is counted at most.
LEMMA OneMoreCounted ==
  ASSUME TaskLimits, NEW t, Background!Running' = Background!Running \cup {t},
         taskAsActive' \subseteq taskAsActive \cup {t}
  PROVE  /\ Cardinality(Counted)' <= Cardinality(Counted) + 1 /\ Cardinality(Counted)' \in Nat
         /\ \A h : /\ Cardinality(CountedIn(h))' <= Cardinality(CountedIn(h)) + 1
                   /\ Cardinality(CountedIn(h))' \in Nat
                   /\ TaskThreadOf[t] # h => Cardinality(CountedIn(h))' <= Cardinality(CountedIn(h))
<1>1. ASSUME NEW S, NEW T, IsFiniteSet(S), T \subseteq S \cup {t}
      PROVE  /\ Cardinality(T) <= Cardinality(S) + 1 /\ Cardinality(T) \in Nat
             /\ T \subseteq S => Cardinality(T) <= Cardinality(S)
  <2>1. IsFiniteSet(S \cup {t}) /\ Cardinality(S \cup {t}) <= Cardinality(S) + 1
    <3>1. /\ IsFiniteSet(S \cup {t})
          /\ Cardinality(S \cup {t}) = IF t \in S THEN Cardinality(S) ELSE Cardinality(S) + 1
      BY <1>1, FS_AddElement
    <3>2. Cardinality(S) \in Nat
      BY <1>1, FS_CardinalityType
    <3> QED BY <3>1, <3>2
  <2>2. IsFiniteSet(T) /\ Cardinality(T) <= Cardinality(S \cup {t})
    BY <1>1, <2>1, FS_Subset
  <2>3. /\ Cardinality(T) \in Nat /\ Cardinality(S) \in Nat /\ Cardinality(S \cup {t}) \in Nat
        /\ T \subseteq S => Cardinality(T) <= Cardinality(S)
    BY <1>1, <2>1, <2>2, FS_Subset, FS_CardinalityType
  <2> QED BY <2>1, <2>2, <2>3
<1>2. Counted' \subseteq Counted \cup {t}
  BY DEF Counted
<1>3. ASSUME NEW h
      PROVE  /\ CountedIn(h)' \subseteq CountedIn(h) \cup {t}
             /\ (TaskThreadOf[t] # h => CountedIn(h)' \subseteq CountedIn(h))
  BY DEF CountedIn, Background!ActiveIn
<1> QED BY <1>1, <1>2, <1>3, CountsAreFinite

-----------------------------------------------------------------------------
(* The taskChain *)

\* The operation at work changes, and those behind it wait on.
LEMMA HeadChanges ==
  ASSUME TaskLimits, TaskChainOK, taskChain # <<>>, NEW op,
         taskChain' = [taskChain EXCEPT ![1] = op], 
         TaskAtWork(op)'
  PROVE  TaskChainOK'
<1>1. Len(taskChain) \in Nat /\ Len(taskChain) > 0 /\ DOMAIN taskChain = 1..Len(taskChain)
  BY DEF TaskChainOK
<1>2. /\ taskChain' \in Seq(Background!ToSet(taskChain) \cup {op})
      /\ DOMAIN taskChain' = 1..Len(taskChain)
      /\ taskChain'[1] = op
      /\ \A i \in DOMAIN taskChain : i # 1 => taskChain'[i] = taskChain[i]
  BY <1>1 DEF TaskChainOK
<1>3. taskChain' \in Seq(Background!ToSet(taskChain'))
  <2>1. taskChain' \in Seq(Range(taskChain'))
    BY <1>2, SeqOfRange
  <2> QED BY <2>1 DEF Background!ToSet, Range
<1>4. ASSUME NEW i \in DOMAIN taskChain', i # 1 PROVE TaskWaits(taskChain[i])
  BY <1>1, <1>2, <1>4 DEF TaskChainOK
<1> QED BY <1>1, <1>2, <1>3, <1>4 DEF TaskChainOK, TaskWaits, IsTaskOp

\* The next one begins.
LEMMA TailWorks ==
  ASSUME TaskLimits, TaskChainOK, taskChain # <<>>, taskChain' = Tail(taskChain)
  PROVE  TaskChainOK'
<1>1. Len(taskChain) \in Nat /\ Len(taskChain) > 0 /\ DOMAIN taskChain = 1..Len(taskChain)
  BY DEF TaskChainOK
<1>2. /\ taskChain' \in Seq(Background!ToSet(taskChain))
      /\ DOMAIN taskChain' = 1..(Len(taskChain) - 1)
      /\ \A i \in DOMAIN taskChain' : taskChain'[i] = taskChain[i + 1] /\ i + 1 \in DOMAIN taskChain /\ i + 1 # 1
  BY <1>1 DEF TaskChainOK
<1>3. taskChain' \in Seq(Background!ToSet(taskChain'))
  <2>1. taskChain' \in Seq(Range(taskChain'))
    BY <1>2, SeqOfRange
  <2> QED BY <2>1 DEF Background!ToSet, Range
<1>4. ASSUME NEW i \in DOMAIN taskChain' PROVE TaskWaits(taskChain'[i])
  BY <1>2, <1>4 DEF TaskChainOK
<1>5. ASSUME NEW op, TaskWaits(op) PROVE TaskAtWork(op)'
  BY <1>5 DEF TaskWaits, TaskAtWork
<1>6. taskChain' # <<>> => 1 \in DOMAIN taskChain'
  BY <1>1, <1>2
<1> QED BY <1>3, <1>4, <1>5, <1>6 DEF TaskChainOK

\* An operation is asked for.
LEMMA ChainGrows ==
  ASSUME TaskLimits, TaskChainOK, NEW op, taskChain' = Append(taskChain, op), TaskWaits(op),
         UNCHANGED <<taskStatus, taskAsActive>>
  PROVE  TaskChainOK'
<1>1. Len(taskChain) \in Nat /\ DOMAIN taskChain = 1..Len(taskChain)
  BY DEF TaskChainOK
<1>2. /\ taskChain' \in Seq(Background!ToSet(taskChain) \cup {op})
      /\ DOMAIN taskChain' = 1..(Len(taskChain) + 1)
      /\ \A i \in DOMAIN taskChain : taskChain'[i] = taskChain[i]
      /\ taskChain'[Len(taskChain) + 1] = op
  BY <1>1 DEF TaskChainOK
<1>3. taskChain' \in Seq(Background!ToSet(taskChain'))
  <2>1. taskChain' \in Seq(Range(taskChain'))
    BY <1>2, SeqOfRange
  <2> QED BY <2>1 DEF Background!ToSet, Range
<1>4. ASSUME NEW i \in DOMAIN taskChain', i # 1 PROVE TaskWaits(taskChain'[i])
  BY <1>1, <1>2, <1>4 DEF TaskChainOK
<1>5. TaskAtWork(op)
  BY DEF TaskWaits, TaskAtWork
<1>6. TaskAtWork(taskChain'[1])
  BY <1>1, <1>2, <1>5 DEF TaskChainOK
<1>7. ASSUME NEW o, TaskAtWork(o) PROVE TaskAtWork(o)'
  BY <1>7 DEF TaskAtWork, Counted, CountedIn, Background!Running, Background!ActiveIn
<1> QED BY <1>3, <1>4, <1>6, <1>7 DEF TaskChainOK

\* Nothing is asked of the chain: what the operation at work relies on stays.
LEMMA ChainStays ==
  ASSUME TaskLimits, TaskChainOK, UNCHANGED taskChain,
         Background!Running' \subseteq Background!Running, taskAsActive' = taskAsActive, 
         \A t \in TaskIds : taskStatus[t] = "none" => taskStatus'[t] = "none"
  PROVE  TaskChainOK'
<1>1. ASSUME NEW op, TaskAtWork(op) PROVE TaskAtWork(op)'
  BY <1>1, CountsAreFinite, FewerCounted DEF TaskAtWork, IsTaskOp, TaskLimits
<1> QED BY <1>1 DEF TaskChainOK

\* A task that runs is ended.
LEMMA EndKeeps ==
  ASSUME TaskLimits, TaskLogOK, WithinLimits, NEW t, taskStatus[t] = "running",
         taskStatus' = [taskStatus EXCEPT ![t] = "ended"], taskEnds' = [taskEnds EXCEPT ![t] = @ + 1],
         UNCHANGED <<taskAsActive, taskOrder, taskTools>>
  PROVE  /\ TaskLogOK' /\ WithinLimits' /\ Background!Running' \subseteq Background!Running
         /\ \A x \in TaskIds : taskStatus[x] = "none" => taskStatus'[x] = "none"
<1>1. /\ taskStatus' \in [TaskIds -> {"none", "running", "ended"}]
      /\ \A x \in TaskIds : taskStatus'[x] = IF x = t THEN "ended" ELSE taskStatus[x]
      /\ taskEnds' \in [TaskIds -> Nat]
      /\ \A x \in TaskIds : taskEnds'[x] = IF x = t THEN taskEnds[x] + 1 ELSE taskEnds[x]
  <2>1. CASE t \in TaskIds
    <3>1. taskEnds[t] + 1 \in Nat
      BY <2>1 DEF TaskLogOK
    <3> QED BY <2>1, <3>1 DEF TaskLogOK
  <2>2. CASE t \notin TaskIds
    BY <2>2 DEF TaskLogOK
  <2> QED BY <2>1, <2>2
<1>2. Background!Running' \subseteq Background!Running
  BY <1>1 DEF Background!Running
<1>3. TaskLogOK'
  BY <1>1 DEF TaskLogOK
<1>4. WithinLimits'
  BY <1>2, FewerCounted, CountsAreFinite DEF WithinLimits, TaskLimits
<1> QED BY <1>1, <1>2, <1>3, <1>4

\* The log stays.
LEMMA LogStays ==
  ASSUME TaskLimits, TaskLogOK, WithinLimits, UNCHANGED Background!log,
         taskTools' \subseteq TaskIds
  PROVE  /\ TaskLogOK'
         /\ WithinLimits'
         /\ Background!Running' \subseteq Background!Running
         /\ taskAsActive' = taskAsActive
         /\ taskStatus' = taskStatus
<1>1. /\ UNCHANGED <<taskStatus, taskAsActive, taskEnds, taskOrder>>
      /\ Background!Running' = Background!Running
  BY DEF Background!log, Background!Running
<1> QED BY <1>1 DEF TaskLogOK, WithinLimits, Counted, CountedIn, Background!ActiveIn

-----------------------------------------------------------------------------

\* An operation that registers looks at what is registered and at the room there is.
LEMMA BeginStep ==
  ASSUME TaskLimits, TaskInv, Background!Begin
  PROVE  TaskInv'
<1>1. /\ TaskLogOK'
      /\ WithinLimits'
      /\ Background!Running' \subseteq Background!Running
      /\ taskAsActive' = taskAsActive
      /\ taskStatus' = taskStatus
  BY LogStays DEF Background!Begin, TaskInv, TaskLogOK
<1> DEFINE op == Head(taskChain)
           new == [op EXCEPT !.todo = {t \in taskTools : TaskThreadOf[t] = op.thread /\ taskStatus[t] = "none"},
                             !.room = TaskActiveLimit - Cardinality(Background!ActiveIn(op.thread)),
                             !.total = TaskMonitorLimit - Cardinality(Background!Running)]
<1>2. CASE taskChain' = Tail(taskChain)
  BY <1>1, <1>2, TailWorks DEF Background!Begin, TaskInv
<1>3. CASE taskChain' = [taskChain EXCEPT ![1] = new]
  <2>1. taskChain # <<>> /\ op = taskChain[1] /\ IsTaskOp(op) /\ op.thread # None
    BY DEF Background!Begin, TaskInv, TaskChainOK, TaskAtWork
  <2>2. PICK r \in Int, o \in Int :
          /\ r = TaskActiveLimit - Cardinality(Background!ActiveIn(op.thread))
          /\ o = TaskMonitorLimit - Cardinality(Background!Running)
    BY CountsAreFinite DEF TaskLimits
  <2>3. PICK todo : todo = {t \in taskTools : TaskThreadOf[t] = op.thread /\ taskStatus[t] = "none"}
    OBVIOUS
  <2>4. /\ op \in [thread : {op.thread}, gen : {op.gen}, task : {op.task}, todo : {op.todo},
                   room : {op.room}, total : {op.total}, ended : {op.ended}]
        /\ new = [op EXCEPT !.todo = todo, !.room = r, !.total = o]
    BY <2>1, <2>2, <2>3 DEF IsTaskOp
  <2> HIDE DEF op, new
  <2>5. new \in [thread : {op.thread}, gen : {op.gen}, task : {op.task}, todo : {todo},
                 room : {r}, total : {o}, ended : {op.ended}]
    BY <2>4
  <2>6. /\ IsTaskOp(new)
        /\ new.thread = op.thread
        /\ new.todo = todo
        /\ new.room = r
        /\ new.total = o
    BY <2>5 DEF IsTaskOp
  <2>7. TaskAtWork(new)
    BY <2>1, <2>2, <2>3, <2>6, CountsAreFinite DEF TaskAtWork, TaskInv, TaskLogOK, TaskLimits
  <2>8. PICK n : n = new
    OBVIOUS
  <2>9. TaskAtWork(n)'
    BY <1>1, <2>7, <2>8 DEF TaskAtWork, Counted, CountedIn, Background!ActiveIn,
       Background!Running
  <2> QED BY <1>1, <1>3, <2>1, <2>8, <2>9, HeadChanges DEF TaskInv
<1> QED BY <1>2, <1>3, TaskCounts DEF Background!Begin, Background!Done

\* A candidate is registered if there is room.
LEMMA ConsiderStep ==
  ASSUME TaskLimits, TaskInv, Background!Consider
  PROVE  TaskInv'
<1> DEFINE op == Head(taskChain)
<1>0. taskChain # <<>> /\ op = taskChain[1] /\ IsTaskOp(op) /\ TaskAtWork(op)
  BY DEF Background!Consider, TaskInv, TaskChainOK, TaskAtWork
<1>00. op \in [thread : {op.thread}, gen : {op.gen}, task : {op.task}, todo : {op.todo},
              room : {op.room}, total : {op.total}, ended : {op.ended}]
  BY <1>0 DEF IsTaskOp
<1>1. CASE Background!Done /\ UNCHANGED Background!log
  <2>1. TaskLogOK' /\ WithinLimits'
    BY <1>1, LogStays DEF Background!Consider, TaskInv, TaskLogOK
  <2> QED BY <1>0, <1>1, <2>1, TailWorks DEF Background!Done, TaskInv
<1>2. ASSUME NEW t \in op.todo, op.thread # None, op.todo # None,
             taskChain' = [taskChain EXCEPT ![1].todo = @ \ {t}], UNCHANGED Background!log
      PROVE  TaskInv'
  <2>1. TaskLogOK' /\ WithinLimits' /\ UNCHANGED <<taskStatus, taskAsActive>>
    BY <1>2, LogStays DEF Background!Consider, TaskInv, TaskLogOK, Background!log
  <2>2. PICK new : new = [op EXCEPT !.todo = op.todo \ {t}]
    OBVIOUS
  <2>3. new \in [thread : {op.thread}, gen : {op.gen}, task : {op.task}, todo : {op.todo \ {t}},
                 room : {op.room}, total : {op.total}, ended : {op.ended}]
    <3> HIDE DEF op
    <3> QED BY <1>00, <2>2
  <2>4. taskChain' = [taskChain EXCEPT ![1] = new]
    BY <1>0, <1>2, <2>2
  <2> HIDE DEF op
  <2>5. /\ IsTaskOp(new)
        /\ new.thread = op.thread
        /\ new.todo = op.todo \ {t}
        /\ new.room = op.room
        /\ new.total = op.total
    BY <1>0, <2>3 DEF IsTaskOp
  <2>6. TaskAtWork(new)
    BY <1>0, <1>2, <2>5 DEF TaskAtWork
  <2>7. TaskAtWork(new)'
    BY <2>1, <2>6 DEF TaskAtWork, Counted, CountedIn, Background!Running, Background!ActiveIn
  <2> QED BY <1>0, <2>1, <2>4, <2>7, HeadChanges DEF TaskInv
<1>3. ASSUME NEW t \in op.todo, op.thread # None, op.todo # None,
             taskKimi[t] = "running" => op.room > 0 /\ op.total > 0,
             taskStatus' = [taskStatus EXCEPT ![t] = "running"], taskOrder' = Append(taskOrder, t),
             taskAsActive' = IF taskKimi[t] = "running" THEN taskAsActive \cup {t} ELSE taskAsActive,
             taskChain' = [taskChain EXCEPT ![1] = Background!Registered(op, t)], UNCHANGED <<taskEnds, taskTools>>
      PROVE  TaskInv'
  <2> DEFINE active == taskKimi[t] = "running"
             used == IF active THEN 1 ELSE 0
  <2>1. /\ t \in TaskIds
        /\ TaskThreadOf[t] = op.thread
        /\ taskStatus[t] = "none"
        /\ t \notin taskAsActive
    BY <1>0, <1>3 DEF TaskAtWork, TaskInv, TaskLogOK
  <2>2. /\ taskStatus' \in [TaskIds -> {"none", "running", "ended"}]
        /\ \A x \in TaskIds : taskStatus'[x] = IF x = t THEN "running" ELSE taskStatus[x]
    BY <1>3, <2>1 DEF TaskInv, TaskLogOK
  <2>3. TaskLogOK'
    <3>1. /\ taskOrder \in Seq(TaskIds)
          /\ Background!IsInjective(taskOrder)
          /\ \A i \in DOMAIN taskOrder : taskOrder[i] # t
      BY <2>1 DEF TaskInv, TaskLogOK
    <3>2. /\ taskOrder' \in Seq(TaskIds)
          /\ DOMAIN taskOrder' = 1..(Len(taskOrder) + 1)
          /\ Len(taskOrder) \in Nat
          /\ DOMAIN taskOrder = 1..Len(taskOrder)
          /\ \A i \in DOMAIN taskOrder : taskOrder'[i] = taskOrder[i]
          /\ taskOrder'[Len(taskOrder) + 1] = t
      BY <1>3, <2>1, <3>1
    <3>3. Background!IsInjective(taskOrder')
      BY <3>1, <3>2 DEF Background!IsInjective
    <3>4. \A i \in DOMAIN taskOrder' : taskStatus'[taskOrder'[i]] # "none"
      <4> SUFFICES ASSUME NEW i \in DOMAIN taskOrder' PROVE taskStatus'[taskOrder'[i]] # "none"
        OBVIOUS
      <4>1. CASE i \in DOMAIN taskOrder
        <5>1. taskOrder[i] \in TaskIds /\ taskStatus[taskOrder[i]] # "none"
          BY <3>1, <4>1 DEF TaskInv, TaskLogOK
        <5> QED BY <2>2, <3>2, <4>1, <5>1
      <4>2. CASE i \notin DOMAIN taskOrder
        BY <2>1, <2>2, <3>2, <4>2
      <4> QED BY <4>1, <4>2
    <3>5. /\ \A x \in taskAsActive' : x \in TaskIds /\ taskStatus'[x] # "none"
          /\ \A x \in TaskIds : taskEnds'[x] = IF taskStatus'[x] = "ended" THEN 1 ELSE 0
          /\ taskEnds' \in [TaskIds -> Nat] /\ taskTools' \subseteq TaskIds
      BY <1>3, <2>1, <2>2 DEF TaskInv, TaskLogOK
    <3> QED BY <2>2, <3>2, <3>3, <3>4, <3>5 DEF TaskLogOK
  <2>4. /\ Background!Running' = Background!Running \cup {t}
        /\ taskAsActive' \subseteq taskAsActive \cup {t}
    BY <1>3, <2>1, <2>2 DEF Background!Running
  <2>5. ~active => Counted' = Counted /\ \A h : CountedIn(h)' = CountedIn(h)
    BY <1>3, <2>1, <2>4 DEF Counted, CountedIn, Background!ActiveIn
  <2>6. /\ Cardinality(Counted)' <= Cardinality(Counted) + used /\ Cardinality(Counted)' \in Nat
        /\ \A h : /\ Cardinality(CountedIn(h))' <= Cardinality(CountedIn(h)) + used
                  /\ Cardinality(CountedIn(h))' \in Nat
                  /\ op.thread # h => Cardinality(CountedIn(h))' <= Cardinality(CountedIn(h))
    <3>1. CASE active
      BY <2>1, <2>4, <3>1, OneMoreCounted
    <3>2. CASE ~active
      BY <2>5, <3>2, CountsAreFinite
    <3> QED BY <3>1, <3>2
  <2>7. /\ op.room \in Int /\ op.total \in Int /\ used \in {0, 1} /\ used <= 1
        /\ used = 1 => op.room > 0 /\ op.total > 0
        /\ op.room <= TaskActiveLimit - Cardinality(CountedIn(op.thread))
        /\ op.total <= TaskMonitorLimit - Cardinality(Counted)
    BY <1>0, <1>3 DEF TaskAtWork, IsTaskOp
  <2> HIDE DEF used
  <2>8. WithinLimits'
    <3>1. Cardinality(Counted)' <= TaskMonitorLimit
      BY <2>6, <2>7, CountsAreFinite DEF TaskInv, WithinLimits, TaskLimits
    <3>2. ASSUME NEW h \in TaskThreads PROVE Cardinality(CountedIn(h))' <= TaskActiveLimit
      <4>1. Cardinality(CountedIn(h)) <= TaskActiveLimit /\ Cardinality(CountedIn(h)) \in Nat
        BY CountsAreFinite DEF TaskInv, WithinLimits
      <4>2. CASE h = op.thread
        BY <2>6, <2>7, <4>1, <4>2 DEF TaskLimits
      <4>3. CASE h # op.thread
        BY <2>6, <4>1, <4>3 DEF TaskLimits
      <4> QED BY <4>2, <4>3
    <3> QED BY <3>1, <3>2 DEF WithinLimits
  <2>9. PICK new : new = Background!Registered(op, t)
    OBVIOUS
  <2>10. PICK task : new \in [thread : {op.thread}, gen : {op.gen}, task : {task}, todo : {op.todo \ {t}},
                              room : {op.room - used}, total : {op.total - used}, ended : {op.ended}]
    <3> HIDE DEF op
    <3>1. CASE active
      <4>1. new = [op EXCEPT !.todo = op.todo \ {t}, !.task = op.task, !.room = op.room - 1, !.total = op.total - 1]
        BY <1>00, <2>9, <3>1 DEF Background!Registered
      <4>2. used = 1
        BY <3>1 DEF used
      <4> QED BY <1>00, <4>1, <4>2
    <3>2. CASE ~active
      <4>1. new = [op EXCEPT !.todo = op.todo \ {t}, !.task = t, !.room = op.room, !.total = op.total]
        BY <1>00, <2>9, <3>2 DEF Background!Registered
      <4>2. op.room - used = op.room /\ op.total - used = op.total
        BY <2>7, <3>2 DEF used
      <4> QED BY <1>00, <4>1, <4>2
    <3> QED BY <3>1, <3>2
  <2> HIDE DEF op
  <2>11. /\ IsTaskOp(new) /\ new.thread = op.thread /\ new.todo = op.todo \ {t}
         /\ new.room = op.room - used /\ new.total = op.total - used
    BY <2>7, <2>10 DEF IsTaskOp
  <2>12. TaskAtWork(new)'
    <3>1. \A x \in new.todo : x \in TaskIds /\ TaskThreadOf[x] = new.thread /\ taskStatus'[x] = "none"
      BY <1>0, <1>3, <2>2, <2>11 DEF TaskAtWork
    <3>2. PICK h : h = op.thread
      OBVIOUS
    <3>3. /\ new.room <= TaskActiveLimit - Cardinality(CountedIn(h))'
          /\ new.total <= TaskMonitorLimit - Cardinality(Counted)'
      BY <2>6, <2>7, <2>11, <3>2, CountsAreFinite DEF TaskLimits
    <3> QED BY <1>3, <2>11, <3>1, <3>2, <3>3 DEF TaskAtWork
  <2> QED BY <1>0, <1>3, <2>3, <2>8, <2>9, <2>12, HeadChanges DEF TaskInv
<1>4. op.todo # None /\ (op.thread = None => op.todo = {})
  BY <1>0 DEF Background!Consider, TaskAtWork
<1> QED BY <1>0, <1>1, <1>2, <1>3, <1>4 DEF Background!Consider, IsTaskOp

\* What follows the end of a task leaves nothing to register, or what there was.
LEMMA HeadGoesOn ==
  ASSUME TaskLimits, TaskChainOK, taskChain # <<>>,
         Background!Running' \subseteq Background!Running, taskAsActive' = taskAsActive, 
         \A t \in TaskIds : taskStatus[t] = "none" => taskStatus'[t] = "none",
         \/ taskChain' = Tail(taskChain)
         \/ taskChain' = [taskChain EXCEPT ![1].ended = TRUE]
         \/ taskChain' = [taskChain EXCEPT ![1] = [Head(taskChain) EXCEPT !.task = None, !.ended = FALSE]]
  PROVE  TaskChainOK'
<1> DEFINE op == Head(taskChain)
<1>0. op = taskChain[1] /\ IsTaskOp(op) /\ TaskAtWork(op)
  BY DEF TaskChainOK, TaskAtWork
<1>1. op \in [thread : {op.thread}, gen : {op.gen}, task : {op.task}, todo : {op.todo},
              room : {op.room}, total : {op.total}, ended : {op.ended}]
  BY <1>0 DEF IsTaskOp
<1>2. CASE taskChain' = Tail(taskChain)
  BY <1>2, TailWorks
<1>3. ASSUME NEW task, NEW ended,
             taskChain' = [taskChain EXCEPT ![1] = [op EXCEPT !.task = task, !.ended = ended]]
      PROVE  TaskChainOK'
  <2>1. PICK new : new = [op EXCEPT !.task = task, !.ended = ended]
    OBVIOUS
  <2>2. new \in [thread : {op.thread}, gen : {op.gen}, task : {task}, todo : {op.todo},
                 room : {op.room}, total : {op.total}, ended : {ended}]
    <3> HIDE DEF op
    <3> QED BY <1>1, <2>1
  <2>3. taskChain' = [taskChain EXCEPT ![1] = new]
    BY <1>3, <2>1
  <2> HIDE DEF op
  <2>4. /\ IsTaskOp(new)
        /\ new.thread = op.thread
        /\ new.todo = op.todo
        /\ new.room = op.room
        /\ new.total = op.total
    BY <1>0, <2>2 DEF IsTaskOp
  <2>5. TaskAtWork(new)
    BY <1>0, <2>4 DEF TaskAtWork
  <2>6. TaskAtWork(new)'
    BY <2>5, CountsAreFinite, FewerCounted DEF TaskAtWork, IsTaskOp, TaskLimits
  <2> QED BY <2>3, <2>6, HeadChanges
<1>4. CASE taskChain' = [taskChain EXCEPT ![1].ended = TRUE]
  <2>1. [op EXCEPT !.ended = TRUE] = [op EXCEPT !.task = op.task, !.ended = TRUE]
    <3> HIDE DEF op
    <3> QED BY <1>1
  <2>2. taskChain' = [taskChain EXCEPT ![1] = [op EXCEPT !.task = op.task, !.ended = TRUE]]
    BY <1>0, <1>4, <2>1
  <2> QED BY <1>3, <2>2
<1> QED BY <1>2, <1>3, <1>4

\* A task is ended, and its report closed.
LEMMA EndStep ==
  ASSUME TaskLimits, TaskInv, Background!EndTask \/ Background!CloseReport
  PROVE  TaskInv'
<1>1. CASE Background!EndTask
  <2> DEFINE t == Head(taskChain).task
  <2>1. CASE /\ taskStatus[t] = "running" /\ taskChain' = [taskChain EXCEPT ![1].ended = TRUE]
             /\ taskStatus' = [taskStatus EXCEPT ![t] = "ended"]
             /\ taskEnds' = [taskEnds EXCEPT ![t] = @ + 1]
             /\ UNCHANGED <<taskAsActive, taskOrder, taskTools>>
    <3> HIDE DEF t
    <3>1. /\ TaskLogOK' /\ WithinLimits' /\ Background!Running' \subseteq Background!Running
          /\ \A x \in TaskIds : taskStatus[x] = "none" => taskStatus'[x] = "none"
      BY <2>1, EndKeeps DEF TaskInv
    <3> QED BY <1>1, <2>1, <3>1, HeadGoesOn DEF Background!EndTask, TaskInv
  <2>2. CASE UNCHANGED Background!log /\ Background!Next1(Head(taskChain))
    <3>1. /\ TaskLogOK'
          /\ WithinLimits'
          /\ Background!Running' \subseteq Background!Running
          /\ taskAsActive' = taskAsActive
          /\ taskStatus' = taskStatus
      BY <1>1, <2>2, LogStays DEF Background!EndTask, TaskInv, TaskLogOK
    <3> QED BY <1>1, <2>2, <3>1, HeadGoesOn DEF Background!EndTask, Background!Next1, Background!Done, TaskInv
  <2> QED BY <1>1, <2>1, <2>2 DEF Background!EndTask, Background!MayEnd
<1>2. CASE Background!CloseReport
  <2>1. UNCHANGED <<taskStatus, taskAsActive, taskEnds, taskOrder, taskTools>>
    BY <1>2 DEF Background!CloseReport
  <2>2. TaskLogOK' /\ WithinLimits' /\ Background!Running' = Background!Running
    BY <2>1 DEF TaskInv, TaskLogOK, WithinLimits, Counted, CountedIn, Background!ActiveIn,
       Background!Running
  <2> QED BY <1>2, <2>1, <2>2, HeadGoesOn DEF Background!CloseReport, Background!Next1, Background!Done, TaskInv
<1> QED BY <1>1, <1>2

\* A new operation waits.
LEMMA OpWaits ==
  ASSUME NEW h, NEW task
  PROVE  /\ h # None => TaskWaits(Background!Op(h, None, None))
         /\ TaskWaits(Background!Op(None, task, {}))
<1>1. ASSUME NEW g, NEW a, NEW b, NEW c,
             NEW o \in [thread : {g}, gen : {a}, task : {b}, todo : {c}, room : {0}, total : {0}, ended : {FALSE}]
      PROVE  IsTaskOp(o) /\ o.thread = g /\ o.todo = c
  BY <1>1 DEF IsTaskOp
<1>2. \E a : Background!Op(h, None, None) \in [thread : {h}, gen : {a}, task : {None}, todo : {None}, room : {0},
                                    total : {0}, ended : {FALSE}]
  BY DEF Background!Op
<1>3. \E a : Background!Op(None, task, {}) \in [thread : {None}, gen : {a}, task : {task}, todo : {{}}, room : {0},
                                     total : {0}, ended : {FALSE}]
  BY DEF Background!Op
<1>4. h # None => TaskWaits(Background!Op(h, None, None))
  <2>1. /\ IsTaskOp(Background!Op(h, None, None))
        /\ Background!Op(h, None, None).thread = h
        /\ Background!Op(h, None, None).todo = None
    BY <1>1, <1>2
  <2> QED BY <2>1 DEF TaskWaits
<1>5. TaskWaits(Background!Op(None, task, {}))
  <2>1. /\ IsTaskOp(Background!Op(None, task, {}))
        /\ Background!Op(None, task, {}).thread = None
        /\ Background!Op(None, task, {}).todo = {}
    <3>1. PICK o : o = Background!Op(None, task, {})
      OBVIOUS
    <3>2. PICK a : o \in [thread : {None}, gen : {a}, task : {task}, todo : {{}}, room : {0},
                          total : {0}, ended : {FALSE}]
      BY <1>3, <3>1
    <3>3. IsTaskOp(o) /\ o.thread = None /\ o.todo = {}
      BY <3>2 DEF IsTaskOp
    <3> QED BY <3>1, <3>3
  <2> QED BY <2>1 DEF TaskWaits
<1> QED BY <1>4, <1>5

\* Requests, the monitor, and what is rejected.
LEMMA ChainSteps ==
  ASSUME TaskLimits, None \notin TaskThreads, TaskInv,
         Background!WriteFails \/ Background!Watch \/ Background!Poll \/ Background!Crash \/ Background!RuntimeReplaced \/ (\E h \in TaskThreads : Background!Report(h))
  PROVE  TaskInv'
<1>1. UNCHANGED <<Background!log, taskTools>>
  BY DEF Background!WriteFails, Background!Watch, Background!Poll, Background!Crash,
     Background!RuntimeReplaced, Background!Report
<1>2. /\ TaskLogOK'
      /\ WithinLimits'
      /\ Background!Running' \subseteq Background!Running
      /\ taskAsActive' = taskAsActive
      /\ taskStatus' = taskStatus
  BY <1>1, LogStays DEF TaskInv, TaskLogOK
<1>3. \/ taskChain # <<>> /\ taskChain' = Tail(taskChain)
      \/ taskChain' = taskChain
      \/ taskChain' = <<>>
      \/ \E task : taskChain' = Append(taskChain, Background!Op(None, task, {}))
      \/ \E h \in TaskThreads : taskChain' = Append(taskChain, Background!Op(h, None, None))
  BY DEF Background!WriteFails, Background!Watch, Background!Poll, Background!Crash,
     Background!RuntimeReplaced, Background!Report, Background!Done
<1>4. TaskChainOK'
  <2>1. CASE taskChain # <<>> /\ taskChain' = Tail(taskChain)
    BY <2>1, TailWorks DEF TaskInv
  <2>2. CASE taskChain' = taskChain
    BY <1>2, <2>2, ChainStays DEF TaskInv
  <2>3. CASE taskChain' = <<>>
    BY <2>3, EmptySeq DEF TaskChainOK
  <2>4. ASSUME NEW task, taskChain' = Append(taskChain, Background!Op(None, task, {}))
        PROVE  TaskChainOK'
    BY <1>2, <2>4, OpWaits, ChainGrows DEF TaskInv
  <2>5. ASSUME NEW h \in TaskThreads,
               taskChain' = Append(taskChain, Background!Op(h, None, None))
        PROVE  TaskChainOK'
    BY <1>2, <2>5, OpWaits, ChainGrows DEF TaskInv
  <2> QED BY <1>3, <2>1, <2>2, <2>3, <2>4, <2>5
<1> QED BY <1>2, <1>4 DEF TaskInv

\* The others do not touch the chain.
LEMMA OtherTaskSteps ==
  ASSUME TaskLimits, TaskInv,
         Background!Reconcile \/ (\E t \in TaskIds : Background!Launch(t) \/ Background!KimiEnds(t) \/ Background!SeenInTurn(t) \/ Background!DayPasses(t)) \/ UNCHANGED Background!vars
  PROVE  TaskInv'
<1>1. ASSUME NEW t \in Background!Unreadable, Background!Reconcile,
             taskStatus' = [taskStatus EXCEPT ![t] = "ended"], 
             taskEnds' = [taskEnds EXCEPT ![t] = @ + 1], UNCHANGED <<taskAsActive, taskOrder>>
      PROVE  TaskInv'
  <2>1. taskStatus[t] = "running" /\ UNCHANGED <<taskTools, taskChain>>
    BY <1>1 DEF Background!Unreadable, Background!Running, Background!Reconcile
  <2> QED BY <1>1, <2>1, EndKeeps, ChainStays DEF TaskInv
<1>2. CASE UNCHANGED <<taskStatus, taskAsActive, taskEnds, taskOrder, taskChain>> /\ taskTools' \subseteq TaskIds
  <2>1. TaskLogOK' /\ WithinLimits' /\ Background!Running' = Background!Running
    BY <1>2 DEF TaskInv, TaskLogOK, WithinLimits, Counted, CountedIn, Background!ActiveIn,
       Background!Running
  <2> QED BY <1>2, <2>1, ChainStays DEF TaskInv
<1>3. CASE Background!Reconcile
  BY <1>1, <1>2, <1>3 DEF Background!Reconcile, Background!log, TaskInv, TaskLogOK
<1>4. CASE \E t \in TaskIds : Background!Launch(t) \/ Background!KimiEnds(t) \/ Background!SeenInTurn(t) \/ Background!DayPasses(t)
  BY <1>2, <1>4 DEF Background!Launch, Background!KimiEnds, Background!SeenInTurn,
     Background!DayPasses, Background!log, TaskInv, TaskLogOK
<1> QED BY <1>2, <1>3, <1>4 DEF Background!vars, Background!log, TaskInv, TaskLogOK

\* Every step keeps the invariant.
LEMMA TaskInvariance == ASSUME TaskLimits, None \notin TaskThreads PROVE Background!Spec => []TaskInv
<1>1. Background!Init => TaskInv
  BY TaskInit
<1>2. TaskInv /\ [Background!Next]_(Background!vars) => TaskInv'
  BY BeginStep, ConsiderStep, EndStep, ChainSteps, OtherTaskSteps DEF Background!Next,
     Background!Work, Background!Monitor
<1> QED BY <1>1, <1>2, PTL DEF Background!Spec

\* A task is ended once and registered once, and the limits hold for the tasks that were
\* registered as active, whatever the monitor, the requests and the restarts do
\* (registerBackgroundTasks, completeBackgroundTask).
THEOREM TasksStayBounded == ASSUME TaskLimits, None \notin TaskThreads PROVE Background!Spec => []TasksAreBounded
<1>1. TaskInv => TasksAreBounded
  <2> SUFFICES ASSUME TaskInv PROVE TasksAreBounded
    OBVIOUS
  <2>1. \A t \in TaskIds : taskEnds[t] <= 1
    BY DEF TaskInv, TaskLogOK
  <2> QED BY <2>1, TaskCounts DEF TaskInv, TaskLogOK, WithinLimits, Counted, CountedIn, TasksAreBounded, Background!TasksAreBounded
<1> QED BY <1>1, TaskInvariance, PTL

-----------------------------------------------------------------------------
(* Schedules: module Schedules. *)

\* A schedule, a claim of one of its slots, and what is asked for.
ScheduleStates == [on : BOOLEAN, next : Int, once : BOOLEAN, edit : Int]
ScheduleClaimed == [id : ScheduleIds, edit : Int, slot : Int]
ScheduleOps ==
  [kind : {"create"}, id : ScheduleIds, with : ScheduleStates]
    \cup [kind : {"update"}, id : ScheduleIds, with : [on : BOOLEAN, next : Int]]
    \cup [kind : {"delete", "record"}, id : ScheduleIds, with : {None}]
    \cup [kind : {"take"}, id : {None}, with : {None}]

\* The types.
ScheduleTyped ==
  /\ scheduleSchedules \in [ScheduleIds -> ScheduleStates \cup {None}]
  /\ scheduleChain \in Seq(ScheduleOps)
  /\ scheduleClaims \subseteq ScheduleClaimed
  /\ scheduleRuns \subseteq ScheduleClaimed
  /\ scheduleGone \subseteq ScheduleIds
  /\ scheduleDay \in Int

\* The schedule has left the slot of this claim behind.
Passed(s, c) ==
  \/ s = None \/ c.edit < s.edit
  \/ c.edit = s.edit /\ IF s.once THEN ~s.on ELSE c.slot < s.next

\* No claim is due again, and none waits that was queued.
ClaimsPassed ==
  /\ \A c \in scheduleClaims \cup scheduleRuns : Passed(scheduleSchedules[c.id], c)
  /\ scheduleClaims \cap scheduleRuns = {} /\ ~scheduleTwice

\* A schedule that is not there was deleted, or has no history.
GoneOrNew ==
  /\ \A i \in scheduleGone : scheduleSchedules[i] = None
  /\ \A c \in scheduleClaims \cup scheduleRuns : scheduleSchedules[c.id] # None \/ c.id \in scheduleGone

\* What is asked for is asked for a new schedule once, or for one there is or was.
AskedRight ==
  \A j \in DOMAIN scheduleChain :
    /\ scheduleChain[j].kind = "create" =>
         /\ scheduleSchedules[scheduleChain[j].id] = None
         /\ scheduleChain[j].id \notin scheduleGone
         /\ \A k \in DOMAIN scheduleChain :
              scheduleChain[k].kind = "create" /\ scheduleChain[k].id = scheduleChain[j].id => k = j
    /\ scheduleChain[j].kind \in {"update", "delete"} =>
         scheduleSchedules[scheduleChain[j].id] # None \/ scheduleChain[j].id \in scheduleGone

\* The inductive invariant.
ScheduleInv == ScheduleTyped /\ ClaimsPassed /\ GoneOrNew /\ AskedRight

\* None is no schedule.
ScheduleNamed == None \notin ScheduleStates

\* An operation that is asked for comes last.
LEMMA OpAppended ==
  ASSUME scheduleChain \in Seq(ScheduleOps), NEW op \in ScheduleOps, Schedule!Ask(op)
  PROVE  /\ scheduleChain' \in Seq(ScheduleOps)
         /\ DOMAIN scheduleChain' = 1..Len(scheduleChain) + 1
         /\ scheduleChain'[Len(scheduleChain) + 1] = op
         /\ \A j \in DOMAIN scheduleChain : scheduleChain'[j] = scheduleChain[j]
         /\ DOMAIN scheduleChain = 1..Len(scheduleChain) /\ Len(scheduleChain) \in Nat
BY DEF Schedule!Ask

\* The first operation leaves, and the others keep their order.
LEMMA OpLeft ==
  ASSUME scheduleChain \in Seq(ScheduleOps), scheduleChain # <<>>,
         scheduleChain' = Tail(scheduleChain)
  PROVE  /\ Head(scheduleChain) \in ScheduleOps
         /\ Head(scheduleChain) = scheduleChain[1]
         /\ scheduleChain' \in Seq(ScheduleOps)
         /\ 1 \in DOMAIN scheduleChain
         /\ \A j \in DOMAIN scheduleChain' : j + 1 \in DOMAIN scheduleChain /\ j + 1 # 1
                                     /\ scheduleChain'[j] = scheduleChain[j + 1] /\ j \in Int
<1>1. /\ Len(scheduleChain) \in Nat
      /\ Len(scheduleChain) > 0
      /\ DOMAIN scheduleChain = 1..Len(scheduleChain)
  OBVIOUS
<1>2. /\ Len(scheduleChain') = Len(scheduleChain) - 1
      /\ DOMAIN scheduleChain' = 1..Len(scheduleChain) - 1
  BY <1>1
<1>3. \A j \in 1..Len(scheduleChain) - 1 : scheduleChain'[j] = scheduleChain[j + 1]
  BY <1>1
<1>4. /\ scheduleChain' \in Seq(ScheduleOps)
      /\ Head(scheduleChain) = scheduleChain[1]
      /\ Head(scheduleChain) \in ScheduleOps
  BY <1>1
<1> QED
  BY <1>1, <1>2, <1>3, <1>4

\* Initially there are no schedules.
LEMMA ScheduleInit == Schedule!Init => ScheduleInv
BY DEF Schedule!Init, ScheduleInv, ScheduleTyped, ClaimsPassed, GoneOrNew, AskedRight

\* What a window asks for.
LEMMA ScheduleRequested ==
  ASSUME ScheduleInv, NEW i \in ScheduleIds,
         Schedule!Create(i) \/ Schedule!Update(i) \/ Schedule!Delete(i) PROVE ScheduleInv'
<1> USE DEF ScheduleInv, ScheduleTyped, ClaimsPassed, GoneOrNew, AskedRight, Schedule!Op
<1>1. UNCHANGED <<scheduleSchedules, scheduleClaims, scheduleRuns, scheduleTwice, scheduleGone, scheduleDay>>
  BY DEF Schedule!Create, Schedule!Update, Schedule!Delete
<1>2. ASSUME NEW op \in ScheduleOps, Schedule!Ask(op),
             op.kind = "create" => /\ scheduleSchedules[op.id] = None /\ op.id \notin scheduleGone
                                   /\ ~\E j \in DOMAIN scheduleChain :
                                        scheduleChain[j].kind = "create" /\ scheduleChain[j].id = op.id,
             op.kind \in {"update", "delete"} => scheduleSchedules[op.id] # None
      PROVE  ScheduleInv'
  <2>1. /\ scheduleChain' \in Seq(ScheduleOps)
        /\ DOMAIN scheduleChain' = 1..Len(scheduleChain) + 1
        /\ scheduleChain'[Len(scheduleChain) + 1] = op
        /\ \A j \in DOMAIN scheduleChain : scheduleChain'[j] = scheduleChain[j]
        /\ DOMAIN scheduleChain = 1..Len(scheduleChain) /\ Len(scheduleChain) \in Nat
    BY <1>2, OpAppended
  <2>2. AskedRight'
    <3> SUFFICES ASSUME NEW j \in DOMAIN scheduleChain'
                 PROVE  /\ scheduleChain'[j].kind = "create" =>
                             /\ scheduleSchedules[scheduleChain'[j].id] = None
                             /\ scheduleChain'[j].id \notin scheduleGone
                             /\ \A k \in DOMAIN scheduleChain' :
                                  scheduleChain'[k].kind = "create" /\ scheduleChain'[k].id = scheduleChain'[j].id => k = j
                        /\ scheduleChain'[j].kind \in {"update", "delete"} =>
                             scheduleSchedules[scheduleChain'[j].id] # None \/ scheduleChain'[j].id \in scheduleGone
      BY <1>1
    <3>1. \A k \in DOMAIN scheduleChain' : k = Len(scheduleChain) + 1 \/ k \in DOMAIN scheduleChain
      BY <2>1
    <3>2. CASE j = Len(scheduleChain) + 1
      BY <1>2, <2>1, <3>1, <3>2
    <3>3. CASE j \in DOMAIN scheduleChain
      BY <1>2, <2>1, <3>1, <3>3
    <3> QED
      BY <3>1, <3>2, <3>3
  <2> QED
    BY <1>1, <2>1, <2>2
<1>3. CASE Schedule!Create(i)
  <2>1. PICK once \in BOOLEAN, next \in scheduleDay..ScheduleMaxDay :
          Schedule!Ask(Schedule!Op("create", i, [on |-> TRUE, next |-> next, once |-> once, edit |-> 0]))
    BY <1>3 DEF Schedule!Create
  <2>2. Schedule!Op("create", i, [on |-> TRUE, next |-> next, once |-> once, edit |-> 0]) \in ScheduleOps
    BY DEF ScheduleOps, ScheduleStates
  <2> QED
    BY <1>2, <1>3, <2>1, <2>2 DEF Schedule!Create
<1>4. CASE Schedule!Update(i)
  <2>1. PICK on \in BOOLEAN, next \in 0..ScheduleMaxDay : Schedule!Ask(Schedule!Op("update", i, [on |-> on, next |-> next]))
    BY <1>4 DEF Schedule!Update
  <2>2. Schedule!Op("update", i, [on |-> on, next |-> next]) \in ScheduleOps
    BY DEF ScheduleOps
  <2> QED
    BY <1>2, <1>4, <2>1, <2>2 DEF Schedule!Update
<1>5. CASE Schedule!Delete(i)
  <2>1. Schedule!Op("delete", i, None) \in ScheduleOps
    BY DEF ScheduleOps
  <2> QED
    BY <1>2, <1>5, <2>1 DEF Schedule!Delete
<1> QED
  BY <1>3, <1>4, <1>5

\* The timer asks for what is due, or for the record of a result.
LEMMA TimerAsks ==
  ASSUME ScheduleInv, NEW op \in ScheduleOps, op.kind \in {"take", "record"}, Schedule!Ask(op),
         UNCHANGED <<scheduleSchedules, scheduleGone>>
  PROVE  AskedRight' /\ scheduleChain' \in Seq(ScheduleOps)
<1> USE DEF ScheduleInv, ScheduleTyped, AskedRight
<1>1. /\ scheduleChain' \in Seq(ScheduleOps)
      /\ DOMAIN scheduleChain' = 1..Len(scheduleChain) + 1
      /\ scheduleChain'[Len(scheduleChain) + 1] = op
      /\ \A j \in DOMAIN scheduleChain : scheduleChain'[j] = scheduleChain[j]
      /\ DOMAIN scheduleChain = 1..Len(scheduleChain) /\ Len(scheduleChain) \in Nat
  BY OpAppended
<1>2. \A k \in DOMAIN scheduleChain' : scheduleChain'[k].kind \notin {"take", "record"} => k \in DOMAIN scheduleChain
  BY <1>1
<1> QED
  BY <1>1, <1>2

\* runDueSchedules begins a check and claims nothing yet.
LEMMA RunDueStep == ASSUME ScheduleInv, Schedule!RunDue PROVE ScheduleInv'
<1>1. /\ Schedule!Op("take", None, None) \in ScheduleOps
      /\ Schedule!Op("take", None, None).kind = "take"
  BY DEF ScheduleOps, Schedule!Op
<1>2. AskedRight' /\ scheduleChain' \in Seq(ScheduleOps)
  BY <1>1, TimerAsks DEF Schedule!RunDue
<1> QED
  BY <1>2 DEF Schedule!RunDue, ScheduleInv, ScheduleTyped, ClaimsPassed, GoneOrNew

\* A claim that is queued waits no more, and was left behind when it was taken.
LEMMA EnqueueStep == ASSUME ScheduleInv, NEW c \in scheduleClaims, Schedule!Enqueue(c) PROVE ScheduleInv'
<1>1. /\ Schedule!Op("record", c.id, None) \in ScheduleOps
      /\ Schedule!Op("record", c.id, None).kind = "record"
  BY DEF ScheduleOps, Schedule!Op, ScheduleInv, ScheduleTyped, ScheduleClaimed
<1>2. AskedRight' /\ scheduleChain' \in Seq(ScheduleOps)
  BY <1>1, TimerAsks DEF Schedule!Enqueue
<1>3. /\ c \notin scheduleRuns
      /\ ~scheduleTwice
      /\ scheduleClaims \cap scheduleRuns = {}
      /\ scheduleClaims' = scheduleClaims \ {c}
  BY DEF Schedule!Enqueue, ScheduleInv, ClaimsPassed
<1>4. ~scheduleTwice'
  BY <1>3, Zenon DEF Schedule!Enqueue
<1>5. /\ scheduleRuns' \in {scheduleRuns, scheduleRuns \cup {c}}
      /\ UNCHANGED <<scheduleSchedules, scheduleGone, scheduleDay>>
  BY DEF Schedule!Enqueue
<1>6. /\ scheduleClaims' \cap scheduleRuns' = {}
      /\ scheduleClaims' \cup scheduleRuns' \subseteq scheduleClaims \cup scheduleRuns
  BY <1>3, <1>5
<1> QED
  BY <1>2, <1>3, <1>4, <1>5, <1>6 DEF ScheduleInv, ScheduleTyped, ClaimsPassed, GoneOrNew

\* What is over changes no schedule.
LEMMA ScheduleQuietStep ==
  ASSUME ScheduleInv,
         Schedule!MutateFails \/ Schedule!Checked \/ Schedule!Crash \/ Schedule!Tick PROVE ScheduleInv'
<1> USE DEF ScheduleInv, ScheduleTyped, ClaimsPassed, GoneOrNew, AskedRight
<1>1. CASE Schedule!MutateFails
  <2>1. scheduleChain # <<>> /\ scheduleChain' = Tail(scheduleChain)
    BY <1>1 DEF Schedule!MutateFails
  <2>2. /\ scheduleChain' \in Seq(ScheduleOps)
        /\ \A j \in DOMAIN scheduleChain' : j + 1 \in DOMAIN scheduleChain /\ scheduleChain'[j] = scheduleChain[j + 1] /\ j \in Int
    BY <2>1, OpLeft
  <2>3. UNCHANGED <<scheduleSchedules, scheduleClaims, scheduleRuns, scheduleTwice, scheduleGone, scheduleDay>>
    BY <1>1 DEF Schedule!MutateFails
  <2>4. AskedRight'
    BY <2>2, <2>3
  <2> QED
    BY <2>2, <2>3, <2>4
<1>2. CASE Schedule!Checked
  BY <1>2 DEF Schedule!Checked
<1>3. CASE Schedule!Tick
  BY <1>3 DEF Schedule!Tick
<1>4. CASE Schedule!Crash
  BY <1>4 DEF Schedule!Crash
<1> QED
  BY <1>1, <1>2, <1>3, <1>4

-----------------------------------------------------------------------------
(* An operation is carried out *)

\* What is left of the chain asks for what it asked.
LEMMA RestAsked ==
  ASSUME ScheduleInv, scheduleChain # <<>>, scheduleChain' = Tail(scheduleChain),
         scheduleGone \subseteq scheduleGone', 
         \A i \in ScheduleIds : scheduleSchedules'[i] = None => scheduleSchedules[i] = None \/ i \in scheduleGone',
         \A i \in ScheduleIds : scheduleSchedules[i] = None /\ scheduleSchedules'[i] # None =>
           Head(scheduleChain).kind = "create" /\ Head(scheduleChain).id = i,
         \A i \in scheduleGone' \ scheduleGone : scheduleSchedules[i] # None \/ i \in scheduleGone
  PROVE  AskedRight'
<1> USE DEF ScheduleInv, ScheduleTyped, AskedRight
<1>1. /\ Head(scheduleChain) = scheduleChain[1]
      /\ scheduleChain' \in Seq(ScheduleOps)
      /\ 1 \in DOMAIN scheduleChain
      /\ \A j \in DOMAIN scheduleChain' : j + 1 \in DOMAIN scheduleChain /\ j + 1 # 1
                                  /\ scheduleChain'[j] = scheduleChain[j + 1] /\ j \in Int
  BY OpLeft
<1>2. \A j \in DOMAIN scheduleChain' : scheduleChain'[j] \in ScheduleOps
  BY <1>1
<1> SUFFICES ASSUME NEW j \in DOMAIN scheduleChain'
             PROVE  /\ scheduleChain'[j].kind = "create" =>
                         /\ scheduleSchedules'[scheduleChain'[j].id] = None
                         /\ scheduleChain'[j].id \notin scheduleGone'
                         /\ \A k \in DOMAIN scheduleChain' :
                              scheduleChain'[k].kind = "create" /\ scheduleChain'[k].id = scheduleChain'[j].id => k = j
                    /\ scheduleChain'[j].kind \in {"update", "delete"} =>
                         scheduleSchedules'[scheduleChain'[j].id] # None \/ scheduleChain'[j].id \in scheduleGone'
  OBVIOUS
<1>3. scheduleChain'[j].kind \in {"create", "update", "delete"} => scheduleChain'[j].id \in ScheduleIds
  BY <1>2 DEF ScheduleOps
<1>4. scheduleChain'[j] = scheduleChain[j + 1] /\ j + 1 \in DOMAIN scheduleChain /\ j + 1 # 1
  BY <1>1
<1>5. ASSUME scheduleChain'[j].kind = "create"
      PROVE  /\ scheduleSchedules'[scheduleChain'[j].id] = None
             /\ scheduleChain'[j].id \notin scheduleGone'
             /\ \A k \in DOMAIN scheduleChain' :
                  scheduleChain'[k].kind = "create" /\ scheduleChain'[k].id = scheduleChain'[j].id => k = j
  <2>1. /\ scheduleSchedules[scheduleChain'[j].id] = None
        /\ scheduleChain'[j].id \notin scheduleGone
    BY <1>4, <1>5
  <2>2. ~(scheduleChain[1].kind = "create" /\ scheduleChain[1].id = scheduleChain'[j].id)
    BY <1>1, <1>4, <1>5
  <2>3. \A k \in DOMAIN scheduleChain' :
          scheduleChain'[k].kind = "create" /\ scheduleChain'[k].id = scheduleChain'[j].id => k = j
    BY <1>1, <1>4, <1>5
  <2> QED
    BY <1>1, <1>3, <1>5, <2>1, <2>2, <2>3
<1>6. ASSUME scheduleChain'[j].kind \in {"update", "delete"}
      PROVE  scheduleSchedules'[scheduleChain'[j].id] # None \/ scheduleChain'[j].id \in scheduleGone'
  BY <1>3, <1>4, <1>6
<1> QED
  BY <1>5, <1>6

\* The head of the chain is applied and saved: takeDue leaves what it claims behind.
LEMMA MutateStep == ASSUME ScheduleNamed, ScheduleInv, Schedule!Mutate PROVE ScheduleInv'
<1> USE DEF ScheduleInv, ScheduleTyped, ClaimsPassed, GoneOrNew
<1> DEFINE op == Head(scheduleChain)
<1>1. /\ scheduleChain # <<>>
      /\ scheduleChain' = Tail(scheduleChain)
      /\ scheduleSchedules' = Schedule!Changed(op, scheduleSchedules)
      /\ scheduleGone' = IF op.kind = "delete" THEN scheduleGone \cup {op.id} ELSE scheduleGone
      /\ UNCHANGED <<scheduleRuns, scheduleTwice, scheduleDay>>
  BY DEF Schedule!Mutate
<1>2. /\ op \in ScheduleOps
      /\ op = scheduleChain[1]
      /\ scheduleChain' \in Seq(ScheduleOps)
      /\ 1 \in DOMAIN scheduleChain
  BY <1>1, OpLeft
<1> HIDE DEF op
<1>3. CASE op \in [kind : {"create"}, id : ScheduleIds, with : ScheduleStates]
  <2>1. /\ scheduleSchedules' = [scheduleSchedules EXCEPT ![op.id] = op.with]
        /\ op.id \in ScheduleIds
        /\ op.with \in ScheduleStates
    BY <1>1, <1>3 DEF Schedule!Changed
  <2>2. scheduleSchedules[op.id] = None /\ op.id \notin scheduleGone
    BY <1>2, <1>3 DEF AskedRight
  <2>3. UNCHANGED <<scheduleClaims, scheduleGone>>
    BY <1>1, <1>3 DEF Schedule!Mutate, op
  <2>4. \A c \in scheduleClaims \cup scheduleRuns : c.id # op.id /\ c.id \in ScheduleIds
    BY <2>2 DEF ScheduleClaimed
  <2>5. AskedRight'
    BY <1>1, <1>3, <2>1, <2>2, <2>3, RestAsked DEF op
  <2>6. \A c \in scheduleClaims \cup scheduleRuns : scheduleSchedules'[c.id] = scheduleSchedules[c.id]
    BY <2>1, <2>4
  <2>7. ScheduleTyped'
    BY <1>1, <1>2, <2>1, <2>3
  <2>8. ClaimsPassed'
    BY <1>1, <2>3, <2>6
  <2>9. GoneOrNew'
    BY <1>1, <2>1, <2>2, <2>3, <2>6
  <2> QED
    BY <2>5, <2>7, <2>8, <2>9
<1>4. CASE op \in [kind : {"update"}, id : ScheduleIds, with : [on : BOOLEAN, next : Int]]
  <2> DEFINE s == scheduleSchedules[op.id]
             n == [on |-> op.with.on, next |-> op.with.next, once |-> s.once, edit |-> s.edit + 1]
  <2>0. op.id \in ScheduleIds /\ op.with \in [on : BOOLEAN, next : Int] /\ op.kind = "update"
    BY <1>4
  <2>1. scheduleSchedules' = [scheduleSchedules EXCEPT ![op.id] = IF s = None THEN None ELSE n]
    BY <1>1, <2>0 DEF Schedule!Changed
  <2>2. s # None => n \in ScheduleStates /\ n.edit = s.edit + 1 /\ s \in ScheduleStates
    BY <2>0 DEF ScheduleStates
  <2>3. UNCHANGED <<scheduleClaims, scheduleGone>>
    BY <1>1, <2>0 DEF Schedule!Mutate, op
  <2> HIDE DEF n
  <2>4. \A i \in ScheduleIds : /\ scheduleSchedules'[i] = None <=> scheduleSchedules[i] = None
                               /\ i # op.id => scheduleSchedules'[i] = scheduleSchedules[i]
    BY <2>0, <2>1, <2>2 DEF ScheduleNamed
  <2>5. AskedRight'
    BY <1>1, <2>3, <2>4, RestAsked DEF op
  <2>6. \A c \in scheduleClaims \cup scheduleRuns : Passed(scheduleSchedules'[c.id], c)
    <3> SUFFICES ASSUME NEW c \in scheduleClaims \cup scheduleRuns PROVE Passed(scheduleSchedules'[c.id], c)
      OBVIOUS
    <3>1. c \in ScheduleClaimed /\ Passed(scheduleSchedules[c.id], c)
      OBVIOUS
    <3>2. CASE c.id # op.id
      BY <2>4, <3>1, <3>2 DEF ScheduleClaimed
    <3>3. CASE c.id = op.id /\ s # None
      <4>1. scheduleSchedules'[c.id] = n
        BY <2>0, <2>1, <3>3
      <4>2. c.edit <= s.edit /\ c.edit \in Int /\ s.edit \in Int
        BY <2>2, <3>1, <3>3 DEF Passed, ScheduleClaimed, ScheduleStates
      <4> QED
        BY <2>2, <3>3, <4>1, <4>2 DEF Passed
    <3>4. CASE c.id = op.id /\ s = None
      BY <2>0, <2>1, <3>4 DEF Passed
    <3> QED
      BY <3>2, <3>3, <3>4
  <2>7. scheduleSchedules' \in [ScheduleIds -> ScheduleStates \cup {None}]
    BY <2>1, <2>2
  <2>8. ScheduleTyped' /\ ClaimsPassed'
    BY <1>1, <1>2, <2>3, <2>6, <2>7
  <2>9. GoneOrNew'
    BY <1>1, <2>3, <2>4 DEF ScheduleClaimed
  <2> QED
    BY <2>5, <2>8, <2>9
<1>5. CASE op \in [kind : {"delete", "record"}, id : ScheduleIds, with : {None}]
  <2>1. op.id \in ScheduleIds /\ op.kind \in {"delete", "record"}
    BY <1>5
  <2>2. scheduleSchedules' = IF op.kind = "delete" THEN [scheduleSchedules EXCEPT ![op.id] = None] ELSE scheduleSchedules
    BY <1>1, <2>1 DEF Schedule!Changed
  <2>3. UNCHANGED scheduleClaims
    BY <1>1, <2>1 DEF Schedule!Mutate, op
  <2>4. \A i \in ScheduleIds : scheduleSchedules'[i] = scheduleSchedules[i] \/ (scheduleSchedules'[i] = None /\ i \in scheduleGone')
    BY <1>1, <2>1, <2>2
  <2>5. \A i \in scheduleGone' \ scheduleGone : scheduleSchedules[i] # None \/ i \in scheduleGone
    BY <1>1, <1>2, <2>1 DEF AskedRight
  <2>6. AskedRight'
    BY <1>1, <2>4, <2>5, RestAsked DEF op
  <2>7. ClaimsPassed'
    BY <1>1, <2>3, <2>4 DEF ScheduleClaimed, Passed
  <2>8. ScheduleTyped'
    BY <1>1, <1>2, <2>1, <2>2, <2>3
  <2>9. GoneOrNew'
    BY <1>1, <2>1, <2>2, <2>3, <2>4 DEF ScheduleClaimed
  <2> QED
    BY <2>6, <2>7, <2>8, <2>9
<1>6. CASE op \in [kind : {"take"}, id : {None}, with : {None}]
  <2>1. op.kind = "take"
    BY <1>6
  <2>2. scheduleSchedules' = [i \in ScheduleIds |-> IF Schedule!Due(scheduleSchedules[i]) THEN Schedule!Claimed(scheduleSchedules[i]) ELSE scheduleSchedules[i]]
    BY <1>1, <2>1 DEF Schedule!Changed
  <2>3. scheduleClaims' = {[id |-> i, edit |-> scheduleSchedules[i].edit, slot |-> scheduleSchedules[i].next] :
                     i \in {j \in ScheduleIds : Schedule!Due(scheduleSchedules[j])}}
    BY <1>1, <2>1 DEF Schedule!Mutate, op
  <2>4. UNCHANGED scheduleGone
    BY <1>1, <2>1
  <2>5. ASSUME NEW i \in ScheduleIds, Schedule!Due(scheduleSchedules[i])
        PROVE  /\ scheduleSchedules[i] \in ScheduleStates
               /\ scheduleSchedules'[i] \in ScheduleStates
               /\ scheduleSchedules'[i].edit = scheduleSchedules[i].edit
               /\ scheduleSchedules'[i].once = scheduleSchedules[i].once
               /\ IF scheduleSchedules[i].once THEN scheduleSchedules[i].on /\ ~scheduleSchedules'[i].on
                  ELSE scheduleSchedules[i].next < scheduleSchedules'[i].next
    <3>1. /\ scheduleSchedules'[i] = Schedule!Claimed(scheduleSchedules[i])
          /\ scheduleSchedules[i] \in ScheduleStates
      BY <2>2, <2>5 DEF Schedule!Due
    <3>2. CASE scheduleSchedules[i].once
      <4>1. scheduleSchedules'[i] = [scheduleSchedules[i] EXCEPT !.on = FALSE]
        BY <3>1, <3>2 DEF Schedule!Claimed
      <4> QED
        BY <2>5, <3>1, <3>2, <4>1 DEF Schedule!Due, ScheduleStates
    <3>3. CASE ~scheduleSchedules[i].once
      <4>1. scheduleSchedules'[i] = [scheduleSchedules[i] EXCEPT !.next = scheduleDay + 1]
        BY <3>1, <3>3 DEF Schedule!Claimed
      <4>2. /\ scheduleDay \in Int
            /\ scheduleSchedules[i].next <= scheduleDay
            /\ scheduleSchedules[i].next \in Int
        BY <2>5, <3>1 DEF Schedule!Due, ScheduleStates
      <4> QED
        BY <3>1, <3>3, <4>1, <4>2 DEF ScheduleStates
    <3> QED
      BY <3>1, <3>2, <3>3
  <2>6. \A i \in ScheduleIds : ~Schedule!Due(scheduleSchedules[i]) => scheduleSchedules'[i] = scheduleSchedules[i]
    BY <2>2
  <2>7. \A i \in ScheduleIds : scheduleSchedules'[i] = None <=> scheduleSchedules[i] = None
    BY <2>5, <2>6 DEF ScheduleNamed, Schedule!Due
  <2>8. AskedRight'
    BY <1>1, <2>4, <2>7, RestAsked DEF op
  <2>9. \A c \in scheduleClaims' : c \in ScheduleClaimed /\ Schedule!Due(scheduleSchedules[c.id]) /\ Passed(scheduleSchedules'[c.id], c)
                           /\ c.edit = scheduleSchedules[c.id].edit
                           /\ c.slot = scheduleSchedules[c.id].next
    BY <2>3, <2>5 DEF ScheduleClaimed, ScheduleStates, Passed
  <2>10. \A c \in scheduleRuns : Passed(scheduleSchedules'[c.id], c)
    <3> SUFFICES ASSUME NEW c \in scheduleRuns PROVE Passed(scheduleSchedules'[c.id], c)
      OBVIOUS
    <3>1. c \in ScheduleClaimed /\ Passed(scheduleSchedules[c.id], c) /\ c.id \in ScheduleIds
      BY DEF ScheduleClaimed
    <3>2. CASE Schedule!Due(scheduleSchedules[c.id])
      <4>1. /\ scheduleSchedules[c.id] \in ScheduleStates
            /\ scheduleSchedules'[c.id] \in ScheduleStates
            /\ scheduleSchedules'[c.id].edit = scheduleSchedules[c.id].edit
            /\ scheduleSchedules'[c.id].once = scheduleSchedules[c.id].once
            /\ IF scheduleSchedules[c.id].once THEN scheduleSchedules[c.id].on /\ ~scheduleSchedules'[c.id].on
               ELSE scheduleSchedules[c.id].next < scheduleSchedules'[c.id].next
        BY <2>5, <3>1, <3>2
      <4> QED
        BY <3>1, <3>2, <4>1 DEF Passed, Schedule!Due, ScheduleStates, ScheduleClaimed
    <3> QED
      BY <2>6, <3>1, <3>2
  <2>11. \A c \in scheduleClaims' : c \notin scheduleRuns
    <3> SUFFICES ASSUME NEW c \in scheduleClaims', c \in scheduleRuns PROVE FALSE
      OBVIOUS
    <3>1. c \in ScheduleClaimed /\ c.id \in ScheduleIds /\ Passed(scheduleSchedules[c.id], c)
      BY DEF ScheduleClaimed
    <3>2. /\ Schedule!Due(scheduleSchedules[c.id]) /\ c.edit = scheduleSchedules[c.id].edit
          /\ c.slot = scheduleSchedules[c.id].next /\ scheduleSchedules[c.id] \in ScheduleStates
      BY <2>5, <2>9, <3>1
    <3> QED
      BY <3>1, <3>2 DEF Passed, Schedule!Due, ScheduleStates
  <2>12. scheduleSchedules' \in [ScheduleIds -> ScheduleStates \cup {None}]
    BY <2>2, <2>5
  <2>13. ScheduleTyped'
    BY <1>1, <1>2, <2>4, <2>9, <2>12
  <2>14. ClaimsPassed'
    BY <1>1, <2>9, <2>10, <2>11
  <2>15. GoneOrNew'
    BY <1>1, <2>4, <2>7, <2>9 DEF ScheduleClaimed, Schedule!Due
  <2> QED
    BY <2>8, <2>13, <2>14, <2>15
<1> QED
  BY <1>2, <1>3, <1>4, <1>5, <1>6 DEF ScheduleOps

\* The invariant holds in every reachable state.
LEMMA ScheduleInductive == ASSUME ScheduleNamed PROVE Schedule!Spec => []ScheduleInv
<1>1. Schedule!Init => ScheduleInv
  BY ScheduleInit
<1>2. ScheduleInv /\ [Schedule!Next]_(Schedule!vars) => ScheduleInv'
  <2> SUFFICES ASSUME ScheduleInv, [Schedule!Next]_(Schedule!vars) PROVE ScheduleInv'
    OBVIOUS
  <2>1. CASE UNCHANGED Schedule!vars
    BY <2>1 DEF Schedule!vars, ScheduleInv, ScheduleTyped, ClaimsPassed, GoneOrNew, AskedRight
  <2> QED
    BY <2>1, ScheduleRequested, RunDueStep, EnqueueStep, ScheduleQuietStep, MutateStep DEF
       Schedule!Next
<1> QED
  BY <1>1, <1>2, PTL DEF Schedule!Spec

\* No slot is queued twice and nothing deleted comes back, for any schedules, days,
\* edits, failed writes and crashes (takeDue, runDueSchedules).
THEOREM SlotsAreRunOnce == ASSUME ScheduleNamed PROVE Schedule!Spec => []SlotsRunOnce
<1>1. ScheduleInv => SlotsRunOnce
  BY DEF SlotsRunOnce, ScheduleInv, ClaimsPassed, GoneOrNew, Schedule!SlotsRunOnce
<1> QED
  BY <1>1, ScheduleInductive, PTL

-----------------------------------------------------------------------------
(* Runtime ingestion *)

ChunkSources == IngestionTurns \cup {None}
ChunkLabels == IngestionKeys \cup {Ingestion!Direct, "end"}
OutputEvents ==
  [key : ChunkLabels, turn : ChunkSources, gen : Nat, from : ChunkSources, chunks : Seq(Nat)]
ChunkArrivals == [n : Nat, key : ChunkLabels, gen : Nat, from : ChunkSources]
ChunkTakings == [event : OutputEvents, awaits : {"tail", "flush", "write"}]

\* None is nothing that is being taken in.
IngestionNamed == None \notin ChunkTakings

\* The chunks of events, and of writes.
ChunkNums(events) == UNION {Ingestion!ToSet(events[i].chunks) : i \in DOMAIN events}
WriteNums(writes) == UNION {ChunkNums(writes[k]) : k \in DOMAIN writes}
AllBelow(first, second) == \A m \in first, n \in second : m < n

\* Writes are in order, each for itself and one after the other.
WritesOrdered(writes) ==
  /\ \A k \in DOMAIN writes : writes[k] # <<>> /\ Ingestion!InOrder(writes[k])
  /\ \A k, l \in DOMAIN writes : k < l => AllBelow(ChunkNums(writes[k]), ChunkNums(writes[l]))

\* What was received and is in no buffer and no write.
ChunksWaiting ==
  IF ingestionTaking # None /\ ingestionTaking.awaits = "write" THEN Tail(ingestionIngress)
  ELSE ingestionIngress
NumbersOf(arrivals) == {arrivals[i].n : i \in DOMAIN arrivals}
InArrival(arrivals) == \A i, j \in DOMAIN arrivals : i < j => arrivals[i].n < arrivals[j].n

IngestionTyped ==
  /\ ingestionRuntime \in Nat /\ ingestionReceived \in Nat /\ ingestionTurn \in ChunkSources
  /\ ingestionIngress \in Seq(ChunkArrivals)
  /\ ingestionPending \in Seq(OutputEvents)
  /\ ingestionLog \in Seq(OutputEvents)
  /\ ingestionTail \in Seq(Seq(OutputEvents))
  /\ ingestionTaking \in ChunkTakings \cup {None}
  /\ ingestionTaking # None => /\ ingestionPending = <<>> /\ ingestionIngress # <<>>
                               /\ ingestionTaking.event.chunks = <<Head(ingestionIngress).n>>

\* The log, the writes, the buffer and what waits follow each other.
LineUp(first, writes, buffer, rest, last) ==
  /\ Ingestion!InOrder(first)
  /\ WritesOrdered(writes)
  /\ Ingestion!InOrder(buffer)
  /\ InArrival(rest)
  /\ AllBelow(ChunkNums(first), WriteNums(writes))
  /\ AllBelow(ChunkNums(first), ChunkNums(buffer))
  /\ AllBelow(ChunkNums(first), NumbersOf(rest))
  /\ AllBelow(WriteNums(writes), ChunkNums(buffer))
  /\ AllBelow(WriteNums(writes), NumbersOf(rest))
  /\ AllBelow(ChunkNums(buffer), NumbersOf(rest))
  /\ \A n \in ChunkNums(first) \cup WriteNums(writes) \cup ChunkNums(buffer) \cup NumbersOf(rest) :
       n <= last

IngestionInv ==
  /\ IngestionTyped
  /\ LineUp(ingestionLog, ingestionTail, ingestionPending, ChunksWaiting, ingestionReceived)

(* Sequences of events, of writes and of arrivals *)

\* There is nothing in no event and in no write.
LEMMA NoChunks ==
  /\ Ingestion!InOrder(<<>>) /\ ChunkNums(<<>>) = {}
  /\ WritesOrdered(<<>>) /\ WriteNums(<<>>) = {}
  /\ InArrival(<<>>) /\ NumbersOf(<<>>) = {}
BY DEF Ingestion!InOrder, ChunkNums, WritesOrdered, WriteNums, InArrival, NumbersOf

\* Which chunks these are.
LEMMA ChunkMembers ==
  /\ \A s, n : n \in ChunkNums(s) <=> \E i \in DOMAIN s : n \in Ingestion!ToSet(s[i].chunks)
  /\ \A w, n : n \in WriteNums(w) <=> \E k \in DOMAIN w : n \in ChunkNums(w[k])
  /\ \A a, n : n \in NumbersOf(a) <=> \E i \in DOMAIN a : n = a[i].n
BY Zenon DEF ChunkNums, WriteNums, NumbersOf

\* The chunks of an event are numbers.
LEMMA ChunkNumbers ==
  /\ \A s \in Seq(OutputEvents) : ChunkNums(s) \subseteq Nat
  /\ \A w \in Seq(Seq(OutputEvents)) : WriteNums(w) \subseteq Nat
  /\ \A a \in Seq(ChunkArrivals) : NumbersOf(a) \subseteq Nat
<1>1. ASSUME NEW s \in Seq(OutputEvents) PROVE ChunkNums(s) \subseteq Nat
  <2>1. ASSUME NEW i \in DOMAIN s PROVE s[i].chunks \in Seq(Nat)
    <3>1. s[i] \in OutputEvents
      OBVIOUS
    <3> QED BY <3>1 DEF OutputEvents
  <2> QED BY <2>1 DEF ChunkNums, Ingestion!ToSet
<1>2. ASSUME NEW w \in Seq(Seq(OutputEvents)) PROVE WriteNums(w) \subseteq Nat
  BY <1>1 DEF WriteNums
<1>3. ASSUME NEW a \in Seq(ChunkArrivals) PROVE NumbersOf(a) \subseteq Nat
  <2>1. ASSUME NEW i \in DOMAIN a PROVE a[i].n \in Nat
    <3>1. a[i] \in ChunkArrivals
      OBVIOUS
    <3> QED BY <3>1 DEF ChunkArrivals
  <2> QED BY <2>1 DEF NumbersOf
<1> QED BY <1>1, <1>2, <1>3

\* An event behind others.
LEMMA EventBehind ==
  ASSUME NEW s \in Seq(OutputEvents), NEW e \in OutputEvents,
         Ingestion!InOrder(s), Ingestion!Ascending(e.chunks),
         AllBelow(ChunkNums(s), Ingestion!ToSet(e.chunks))
  PROVE  /\ Append(s, e) \in Seq(OutputEvents)
         /\ Append(s, e) # <<>>
         /\ Ingestion!InOrder(Append(s, e))
         /\ ChunkNums(Append(s, e)) = ChunkNums(s) \cup Ingestion!ToSet(e.chunks)
<1>1. /\ Append(s, e) \in Seq(OutputEvents) /\ DOMAIN Append(s, e) = 1..Len(s) + 1
      /\ Append(s, e)[Len(s) + 1] = e /\ \A i \in DOMAIN s : Append(s, e)[i] = s[i]
      /\ DOMAIN s = 1..Len(s) /\ Len(s) \in Nat /\ Append(s, e) # <<>>
  OBVIOUS
<1>2. \A i \in DOMAIN s : Ingestion!ToSet(s[i].chunks) \subseteq ChunkNums(s)
  BY DEF ChunkNums
<1>3. ChunkNums(Append(s, e)) = ChunkNums(s) \cup Ingestion!ToSet(e.chunks)
  BY <1>1 DEF ChunkNums
<1>4. \A i \in DOMAIN Append(s, e) : Ingestion!Ascending(Append(s, e)[i].chunks)
  BY <1>1 DEF Ingestion!InOrder
<1>5. ASSUME NEW i \in DOMAIN Append(s, e), NEW j \in DOMAIN Append(s, e), i < j,
             NEW m \in Ingestion!ToSet(Append(s, e)[i].chunks),
             NEW n \in Ingestion!ToSet(Append(s, e)[j].chunks)
      PROVE  m < n
  <2>1. i \in DOMAIN s
    BY <1>1, <1>5
  <2>2. CASE j \in DOMAIN s
    BY <1>1, <1>5, <2>1, <2>2 DEF Ingestion!InOrder
  <2>3. CASE j = Len(s) + 1
    BY <1>1, <1>2, <1>5, <2>1, <2>3 DEF AllBelow
  <2> QED BY <1>1, <2>2, <2>3
<1> QED BY <1>1, <1>3, <1>4, <1>5 DEF Ingestion!InOrder

\* The first event and the rest.
LEMMA FirstEvent ==
  ASSUME NEW s \in Seq(OutputEvents), s # <<>>, Ingestion!InOrder(s)
  PROVE  /\ Head(s) \in OutputEvents /\ Ingestion!Ascending(Head(s).chunks)
         /\ Tail(s) \in Seq(OutputEvents) /\ Ingestion!InOrder(Tail(s))
         /\ ChunkNums(s) = Ingestion!ToSet(Head(s).chunks) \cup ChunkNums(Tail(s))
         /\ AllBelow(Ingestion!ToSet(Head(s).chunks), ChunkNums(Tail(s)))
<1>1. /\ Head(s) = s[1] /\ DOMAIN s = 1..Len(s) /\ Len(s) \in Nat /\ Len(s) # 0
      /\ Tail(s) \in Seq(OutputEvents) /\ DOMAIN Tail(s) = 1..Len(s) - 1
      /\ \A i \in DOMAIN Tail(s) : Tail(s)[i] = s[i + 1] /\ i + 1 \in DOMAIN s
  OBVIOUS
<1>2. ChunkNums(s) = Ingestion!ToSet(Head(s).chunks) \cup ChunkNums(Tail(s))
  <2>1. \A i \in DOMAIN s : i # 1 => i - 1 \in DOMAIN Tail(s) /\ Tail(s)[i - 1] = s[i]
    BY <1>1
  <2> QED BY <1>1, <2>1 DEF ChunkNums
<1>3. Ingestion!InOrder(Tail(s))
  BY <1>1 DEF Ingestion!InOrder
<1>4. AllBelow(Ingestion!ToSet(Head(s).chunks), ChunkNums(Tail(s)))
  BY <1>1 DEF Ingestion!InOrder, AllBelow, ChunkNums
<1> QED BY <1>1, <1>2, <1>3, <1>4 DEF Ingestion!InOrder

\* A chunk merged into the last event.
LEMMA ChunkMerged ==
  ASSUME NEW s \in Seq(OutputEvents), s # <<>>, Ingestion!InOrder(s), NEW n \in Nat,
         AllBelow(ChunkNums(s), {n}), 
         NEW r,
         r = Ingestion!ReplaceAt(s, Len(s), [Ingestion!Last(s) EXCEPT !.chunks = @ \o <<n>>])
  PROVE  /\ r \in Seq(OutputEvents)
         /\ r # <<>>
         /\ Ingestion!InOrder(r)
         /\ ChunkNums(r) = ChunkNums(s) \cup {n}
<1> DEFINE e == [Ingestion!Last(s) EXCEPT !.chunks = @ \o <<n>>]
           c == s[Len(s)].chunks
<1>1. /\ DOMAIN s = 1..Len(s)
      /\ Len(s) \in Nat \ {0}
      /\ Ingestion!Last(s) = s[Len(s)]
      /\ Ingestion!Last(s) \in OutputEvents
  BY DEF Ingestion!Last
<1>2. /\ c \in Seq(Nat) /\ e \in OutputEvents /\ e.chunks = c \o <<n>>
  <2> DEFINE x == Ingestion!Last(s)
  <2>1. x \in OutputEvents /\ x = s[Len(s)]
    BY <1>1
  <2> HIDE DEF x
  <2>2. x.chunks \in Seq(Nat) /\ x.chunks \o <<n>> \in Seq(Nat)
    BY <2>1 DEF OutputEvents
  <2>3. [x EXCEPT !.chunks = x.chunks \o <<n>>] \in OutputEvents
    BY <2>1, <2>2 DEF OutputEvents
  <2>4. [x EXCEPT !.chunks = x.chunks \o <<n>>].chunks = x.chunks \o <<n>>
    BY <2>1 DEF OutputEvents
  <2> QED BY <2>1, <2>2, <2>3, <2>4 DEF x
<1> HIDE DEF e, c
<1>3. /\ DOMAIN e.chunks = 1..Len(c) + 1 /\ DOMAIN c = 1..Len(c) /\ Len(c) \in Nat
      /\ e.chunks[Len(c) + 1] = n /\ \A i \in DOMAIN c : e.chunks[i] = c[i]
  BY <1>2
<1>4. Ingestion!ToSet(e.chunks) = Ingestion!ToSet(c) \cup {n}
  BY <1>3 DEF Ingestion!ToSet
<1>5. /\ r \in Seq(OutputEvents) /\ DOMAIN r = DOMAIN s /\ r # <<>>
      /\ r[Len(s)] = e /\ \A i \in DOMAIN s : i # Len(s) => r[i] = s[i]
  <2>1. r = [i \in 1..Len(s) |-> IF i = Len(s) THEN e ELSE s[i]]
    BY Zenon, <1>1 DEF Ingestion!ReplaceAt, e
  <2>2. \A i \in 1..Len(s) : s[i] \in OutputEvents
    BY <1>1
  <2>3. r \in [1..Len(s) -> OutputEvents]
    BY <1>2, <2>1, <2>2
  <2>4. r \in Seq(OutputEvents) /\ Len(r) = Len(s)
    BY <1>1, <2>3
  <2>5. Len(s) \in 1..Len(s) /\ r # <<>> /\ DOMAIN r = 1..Len(s)
    BY <1>1, <2>3, <2>4
  <2>6. r[Len(s)] = e /\ \A i \in 1..Len(s) : i # Len(s) => r[i] = s[i]
    BY Zenon, <2>1, <2>5
  <2> QED BY <1>1, <2>4, <2>5, <2>6
<1>6. \A i \in DOMAIN s : Ingestion!ToSet(s[i].chunks) \subseteq ChunkNums(s)
  BY DEF ChunkNums
<1>7. ChunkNums(r) = ChunkNums(s) \cup {n}
  <2>1. ASSUME NEW k PROVE k \in ChunkNums(r) <=> k \in ChunkNums(s) \cup {n}
    <3>1. k \in ChunkNums(r) <=> \E i \in DOMAIN s : k \in Ingestion!ToSet(r[i].chunks)
      BY <1>5, ChunkMembers
    <3>2. k \in ChunkNums(s) <=> \E i \in DOMAIN s : k \in Ingestion!ToSet(s[i].chunks)
      BY ChunkMembers
    <3>3. \A i \in DOMAIN s : i # Len(s) => r[i].chunks = s[i].chunks
      BY <1>5
    <3>4. Ingestion!ToSet(r[Len(s)].chunks) = Ingestion!ToSet(s[Len(s)].chunks) \cup {n}
      BY <1>4, <1>5 DEF c
    <3>5. CASE k \in ChunkNums(s)
      <4>1. PICK i \in DOMAIN s : k \in Ingestion!ToSet(s[i].chunks)
        BY <3>2, <3>5
      <4>2. CASE i = Len(s)
        <5>1. Len(s) \in DOMAIN s /\ k \in Ingestion!ToSet(s[Len(s)].chunks)
          BY <4>1, <4>2
        <5>2. k \in Ingestion!ToSet(r[Len(s)].chunks)
          BY <3>4, <5>1
        <5> QED BY Zenon, <3>1, <3>5, <5>1, <5>2
      <4> QED BY Zenon, <3>1, <3>3, <3>5, <4>1, <4>2
    <3>6. CASE k = n
      <4>1. Len(s) \in DOMAIN s
        BY <1>1
      <4> QED BY Zenon, <3>1, <3>4, <3>6, <4>1
    <3>7. ASSUME k \in ChunkNums(r) PROVE k \in ChunkNums(s) \cup {n}
      <4>1. PICK i \in DOMAIN s : k \in Ingestion!ToSet(r[i].chunks)
        BY <3>1, <3>7
      <4>2. CASE i = Len(s)
        BY <3>2, <3>4, <4>1, <4>2
      <4> QED BY <3>2, <3>3, <4>1, <4>2
    <3> QED BY <3>5, <3>6, <3>7
  <2> QED BY <2>1
<1>8. Ingestion!Ascending(e.chunks)
  <2>1. Ingestion!Ascending(c) /\ \A i \in DOMAIN c : c[i] \in ChunkNums(s)
    BY <1>1, <1>6 DEF Ingestion!InOrder, Ingestion!ToSet, c
  <2>2. \A i \in DOMAIN c : c[i] < n
    BY <2>1 DEF AllBelow
  <2>3. ASSUME NEW i \in DOMAIN e.chunks, NEW j \in DOMAIN e.chunks, i < j
        PROVE  e.chunks[i] < e.chunks[j]
    <3>1. CASE j \in DOMAIN c
      BY <1>3, <2>1, <2>3, <3>1 DEF Ingestion!Ascending
    <3>2. CASE j = Len(c) + 1
      BY <1>3, <2>2, <2>3, <3>2
    <3> QED BY <1>3, <3>1, <3>2
  <2> QED BY <2>3 DEF Ingestion!Ascending
<1>9. ASSUME NEW i \in DOMAIN r, NEW j \in DOMAIN r, i < j,
             NEW k \in Ingestion!ToSet(r[i].chunks), NEW l \in Ingestion!ToSet(r[j].chunks)
      PROVE  k < l
  <2>1. i # Len(s) /\ r[i] = s[i] /\ k \in ChunkNums(s)
    <3>1. i # Len(s) /\ i \in DOMAIN s
      BY <1>1, <1>5, <1>9
    <3> QED BY <1>5, <1>6, <1>9, <3>1
  <2>2. CASE l = n
    BY <2>1, <2>2 DEF AllBelow
  <2>3. CASE l \in Ingestion!ToSet(s[j].chunks)
    BY <1>5, <1>9, <2>1, <2>3 DEF Ingestion!InOrder
  <2> QED BY <1>4, <1>5, <1>9, <2>2, <2>3 DEF c
<1>10. \A i \in DOMAIN r : Ingestion!Ascending(r[i].chunks)
  BY <1>5, <1>8 DEF Ingestion!InOrder
<1> QED BY <1>5, <1>7, <1>9, <1>10 DEF Ingestion!InOrder

\* A write behind others.
LEMMA WriteBehind ==
  ASSUME NEW w \in Seq(Seq(OutputEvents)), NEW s \in Seq(OutputEvents), s # <<>>,
         WritesOrdered(w), Ingestion!InOrder(s), AllBelow(WriteNums(w), ChunkNums(s))
  PROVE  /\ Append(w, s) \in Seq(Seq(OutputEvents)) /\ WritesOrdered(Append(w, s))
         /\ WriteNums(Append(w, s)) = WriteNums(w) \cup ChunkNums(s)
<1>1. /\ Append(w, s) \in Seq(Seq(OutputEvents)) /\ DOMAIN Append(w, s) = 1..Len(w) + 1
      /\ Append(w, s)[Len(w) + 1] = s /\ \A i \in DOMAIN w : Append(w, s)[i] = w[i]
      /\ DOMAIN w = 1..Len(w) /\ Len(w) \in Nat
  OBVIOUS
<1>2. \A k \in DOMAIN w : ChunkNums(w[k]) \subseteq WriteNums(w)
  BY DEF WriteNums
<1>3. WriteNums(Append(w, s)) = WriteNums(w) \cup ChunkNums(s)
  <2>1. ASSUME NEW n
        PROVE  n \in WriteNums(Append(w, s)) <=> n \in WriteNums(w) \cup ChunkNums(s)
    <3>1. n \in WriteNums(Append(w, s)) <=> \E k \in 1..Len(w) + 1 : n \in ChunkNums(Append(w, s)[k])
      BY <1>1, ChunkMembers
    <3>2. n \in WriteNums(w) <=> \E k \in 1..Len(w) : n \in ChunkNums(w[k])
      BY <1>1, ChunkMembers
    <3>3. \A k \in 1..Len(w) + 1 : k \in 1..Len(w) \/ k = Len(w) + 1
      BY <1>1
    <3>4. \A k \in 1..Len(w) : k \in 1..Len(w) + 1 /\ ChunkNums(Append(w, s)[k]) = ChunkNums(w[k])
      BY <1>1
    <3>5. Len(w) + 1 \in 1..Len(w) + 1 /\ ChunkNums(Append(w, s)[Len(w) + 1]) = ChunkNums(s)
      BY <1>1
    <3> QED BY Zenon, <3>1, <3>2, <3>3, <3>4, <3>5
  <2> QED BY <2>1
<1>4. \A k \in DOMAIN Append(w, s) : Append(w, s)[k] # <<>> /\ Ingestion!InOrder(Append(w, s)[k])
  BY <1>1 DEF WritesOrdered
<1>5. ASSUME NEW k \in DOMAIN Append(w, s), NEW l \in DOMAIN Append(w, s), k < l
      PROVE  AllBelow(ChunkNums(Append(w, s)[k]), ChunkNums(Append(w, s)[l]))
  <2>1. k \in DOMAIN w
    BY <1>1, <1>5
  <2>2. CASE l \in DOMAIN w
    BY <1>1, <1>5, <2>1, <2>2 DEF WritesOrdered
  <2>3. CASE l = Len(w) + 1
    BY <1>1, <1>2, <2>1, <2>3 DEF AllBelow
  <2> QED BY <1>1, <2>2, <2>3
<1> QED BY <1>1, <1>3, <1>4, <1>5 DEF WritesOrdered

\* The first write and the others.
LEMMA FirstWrite ==
  ASSUME NEW w \in Seq(Seq(OutputEvents)), w # <<>>, WritesOrdered(w)
  PROVE  /\ Head(w) \in Seq(OutputEvents) /\ Head(w) # <<>> /\ Ingestion!InOrder(Head(w))
         /\ Tail(w) \in Seq(Seq(OutputEvents)) /\ WritesOrdered(Tail(w))
         /\ WriteNums(w) = ChunkNums(Head(w)) \cup WriteNums(Tail(w))
         /\ AllBelow(ChunkNums(Head(w)), WriteNums(Tail(w)))
<1>1. /\ Head(w) = w[1] /\ DOMAIN w = 1..Len(w) /\ Len(w) \in Nat /\ Len(w) # 0
      /\ Tail(w) \in Seq(Seq(OutputEvents)) /\ DOMAIN Tail(w) = 1..Len(w) - 1
      /\ \A i \in DOMAIN Tail(w) : Tail(w)[i] = w[i + 1] /\ i + 1 \in DOMAIN w
  OBVIOUS
<1>2. WriteNums(w) = ChunkNums(Head(w)) \cup WriteNums(Tail(w))
  <2>1. \A i \in DOMAIN w : i # 1 => i - 1 \in DOMAIN Tail(w) /\ Tail(w)[i - 1] = w[i]
    BY <1>1
  <2>2. ASSUME NEW n
        PROVE  n \in WriteNums(w) <=> n \in ChunkNums(Head(w)) \cup WriteNums(Tail(w))
    <3>1. n \in WriteNums(w) <=> \E k \in DOMAIN w : n \in ChunkNums(w[k])
      BY ChunkMembers
    <3>2. n \in WriteNums(Tail(w)) <=> \E k \in DOMAIN Tail(w) : n \in ChunkNums(Tail(w)[k])
      BY ChunkMembers
    <3>3. 1 \in DOMAIN w /\ w[1] = Head(w)
      BY <1>1
    <3> HIDE DEF WriteNums, ChunkNums
    <3> QED BY <1>1, <2>1, <3>1, <3>2, <3>3
  <2> QED BY <2>2
<1>3. WritesOrdered(Tail(w))
  BY <1>1 DEF WritesOrdered
<1>4. ASSUME NEW m \in ChunkNums(Head(w)), NEW n \in WriteNums(Tail(w)) PROVE m < n
  <2>1. PICK k \in DOMAIN Tail(w) : n \in ChunkNums(Tail(w)[k])
    BY ChunkMembers
  <2>2. 1 \in DOMAIN w /\ k + 1 \in DOMAIN w /\ 1 < k + 1
    BY <1>1
  <2>3. AllBelow(ChunkNums(w[1]), ChunkNums(w[k + 1]))
    BY <2>2 DEF WritesOrdered
  <2> QED BY <1>1, <2>1, <2>3 DEF AllBelow
<1> QED BY <1>1, <1>2, <1>3, <1>4 DEF WritesOrdered, AllBelow

\* What is left of one event is nothing.
LEMMA SingleEvent ==
  ASSUME NEW s \in Seq(OutputEvents), s # <<>>
  PROVE  Tail(s) = <<>> <=> Len(s) = 1
<1>1. Len(s) \in Nat /\ Len(s) # 0 /\ Tail(s) \in Seq(OutputEvents) /\ Len(Tail(s)) = Len(s) - 1
  OBVIOUS
<1>2. Tail(s) = <<>> <=> Len(Tail(s)) = 0
  BY <1>1
<1> QED BY <1>1, <1>2

\* The writes once the first event is written.
LEMMA WritesRest ==
  ASSUME ingestionTail \in Seq(Seq(OutputEvents)), ingestionTail # <<>>,
         WritesOrdered(ingestionTail)
  PROVE  /\ Head(Head(ingestionTail)) \in OutputEvents
         /\ Ingestion!Ascending(Head(Head(ingestionTail)).chunks)
         /\ Ingestion!Rest \in Seq(Seq(OutputEvents)) /\ WritesOrdered(Ingestion!Rest)
         /\ WriteNums(ingestionTail) =
              Ingestion!ToSet(Head(Head(ingestionTail)).chunks) \cup WriteNums(Ingestion!Rest)
         /\ AllBelow(Ingestion!ToSet(Head(Head(ingestionTail)).chunks), WriteNums(Ingestion!Rest))
<1> DEFINE h == Head(ingestionTail)
           t == Tail(ingestionTail)
<1>1. /\ h \in Seq(OutputEvents) /\ h # <<>> /\ Ingestion!InOrder(h)
      /\ t \in Seq(Seq(OutputEvents)) /\ WritesOrdered(t)
      /\ WriteNums(ingestionTail) = ChunkNums(h) \cup WriteNums(t)
      /\ AllBelow(ChunkNums(h), WriteNums(t))
  BY FirstWrite
<1>2. /\ Head(h) \in OutputEvents /\ Ingestion!Ascending(Head(h).chunks)
      /\ Tail(h) \in Seq(OutputEvents) /\ Ingestion!InOrder(Tail(h))
      /\ ChunkNums(h) = Ingestion!ToSet(Head(h).chunks) \cup ChunkNums(Tail(h))
      /\ AllBelow(Ingestion!ToSet(Head(h).chunks), ChunkNums(Tail(h)))
  BY <1>1, FirstEvent
<1>3. CASE Len(h) = 1
  <2>1. Ingestion!Rest = t /\ Tail(h) = <<>>
    <3>1. Ingestion!Rest = t
      BY Zenon, <1>3 DEF Ingestion!Rest
    <3> QED BY <1>1, <1>3, <3>1, SingleEvent
  <2> QED BY <1>1, <1>2, <2>1, NoChunks DEF AllBelow
<1>4. CASE Len(h) # 1
  <2> DEFINE r == <<Tail(h)>> \o t
  <2>1. Ingestion!Rest = r /\ Tail(h) # <<>>
    <3>1. Ingestion!Rest = r
      BY Zenon, <1>4 DEF Ingestion!Rest
    <3> QED BY <1>1, <1>4, <3>1, SingleEvent
  <2>2. /\ r \in Seq(Seq(OutputEvents)) /\ DOMAIN r = 1..Len(t) + 1 /\ r[1] = Tail(h)
        /\ \A i \in DOMAIN t : r[i + 1] = t[i]
        /\ DOMAIN t = 1..Len(t) /\ Len(t) \in Nat
    <3> DEFINE th == Tail(h)
    <3>1. th \in Seq(OutputEvents) /\ t \in Seq(Seq(OutputEvents))
      BY <1>1, <1>2
    <3> HIDE DEF t, th
    <3>2. /\ <<th>> \in Seq(Seq(OutputEvents)) /\ Len(<<th>>) = 1
      BY <3>1
    <3> QED BY <3>1, <3>2 DEF th
  <2>4. \A i \in DOMAIN r : i # 1 => i - 1 \in DOMAIN t /\ r[i] = t[i - 1]
    BY <2>2
  <2> HIDE DEF r, t, h
  <2>5. WriteNums(r) = ChunkNums(Tail(h)) \cup WriteNums(t)
    <3>1. 1 \in DOMAIN r /\ \A i \in DOMAIN t : i + 1 \in DOMAIN r
      BY <2>2
    <3>2. ASSUME NEW n PROVE n \in WriteNums(r) <=> n \in ChunkNums(Tail(h)) \cup WriteNums(t)
      <4>1. n \in WriteNums(r) <=> \E k \in DOMAIN r : n \in ChunkNums(r[k])
        BY ChunkMembers
      <4>2. n \in WriteNums(t) <=> \E k \in DOMAIN t : n \in ChunkNums(t[k])
        BY ChunkMembers
      <4> QED BY <2>2, <2>4, <3>1, <4>1, <4>2
    <3> QED BY <3>2
  <2>6. /\ AllBelow(ChunkNums(Tail(h)), WriteNums(t))
        /\ AllBelow(Ingestion!ToSet(Head(h).chunks), WriteNums(r))
    BY <1>1, <1>2, <2>5 DEF AllBelow
  <2>7. \A k \in DOMAIN r : r[k] # <<>> /\ Ingestion!InOrder(r[k])
    BY <1>1, <1>2, <2>1, <2>2, <2>4 DEF WritesOrdered
  <2>8. ASSUME NEW k \in DOMAIN r, NEW l \in DOMAIN r, k < l
        PROVE  AllBelow(ChunkNums(r[k]), ChunkNums(r[l]))
    <3>1. l # 1 /\ l - 1 \in DOMAIN t /\ r[l] = t[l - 1]
      BY <2>2, <2>4, <2>8
    <3>2. CASE k = 1
      BY <2>2, <2>6, <3>1, <3>2 DEF AllBelow, WriteNums
    <3>3. CASE k # 1
      BY <1>1, <2>2, <2>4, <2>8, <3>1, <3>3 DEF WritesOrdered
    <3> QED BY <3>2, <3>3
  <2>9. WritesOrdered(r)
    BY <2>7, <2>8 DEF WritesOrdered
  <2> QED BY <1>1, <1>2, <2>1, <2>2, <2>5, <2>6, <2>9 DEF h
<1> QED BY <1>3, <1>4

\* What waits: one more, and one less.
LEMMA ChunkArrives ==
  ASSUME NEW a \in Seq(ChunkArrivals), NEW x \in ChunkArrivals, InArrival(a),
         AllBelow(NumbersOf(a), {x.n})
  PROVE  /\ Append(a, x) \in Seq(ChunkArrivals) /\ InArrival(Append(a, x))
         /\ NumbersOf(Append(a, x)) = NumbersOf(a) \cup {x.n}
<1>1. /\ Append(a, x) \in Seq(ChunkArrivals) /\ DOMAIN Append(a, x) = 1..Len(a) + 1
      /\ Append(a, x)[Len(a) + 1] = x /\ \A i \in DOMAIN a : Append(a, x)[i] = a[i]
      /\ DOMAIN a = 1..Len(a) /\ Len(a) \in Nat
  OBVIOUS
<1>2. NumbersOf(Append(a, x)) = NumbersOf(a) \cup {x.n}
  BY <1>1 DEF NumbersOf
<1>3. ASSUME NEW i \in DOMAIN Append(a, x), NEW j \in DOMAIN Append(a, x), i < j
      PROVE  Append(a, x)[i].n < Append(a, x)[j].n
  <2>1. i \in DOMAIN a
    BY <1>1, <1>3
  <2>2. CASE j \in DOMAIN a
    BY <1>1, <1>3, <2>1, <2>2 DEF InArrival
  <2>3. CASE j = Len(a) + 1
    BY <1>1, <2>1, <2>3 DEF AllBelow, NumbersOf
  <2> QED BY <1>1, <2>2, <2>3
<1> QED BY <1>1, <1>2, <1>3 DEF InArrival

\* The first that waits, and the rest.
LEMMA ChunkLeaves ==
  ASSUME NEW a \in Seq(ChunkArrivals), a # <<>>, InArrival(a)
  PROVE  /\ Head(a) \in ChunkArrivals /\ Tail(a) \in Seq(ChunkArrivals) /\ InArrival(Tail(a))
         /\ NumbersOf(a) = {Head(a).n} \cup NumbersOf(Tail(a))
         /\ AllBelow({Head(a).n}, NumbersOf(Tail(a)))
<1>1. /\ Head(a) = a[1] /\ DOMAIN a = 1..Len(a) /\ Len(a) \in Nat /\ Len(a) # 0
      /\ Tail(a) \in Seq(ChunkArrivals) /\ DOMAIN Tail(a) = 1..Len(a) - 1
      /\ \A i \in DOMAIN Tail(a) : Tail(a)[i] = a[i + 1] /\ i + 1 \in DOMAIN a
      /\ Head(a) \in ChunkArrivals
  OBVIOUS
<1>2. NumbersOf(a) = {Head(a).n} \cup NumbersOf(Tail(a))
  <2>1. \A i \in DOMAIN a : i # 1 => i - 1 \in DOMAIN Tail(a) /\ Tail(a)[i - 1] = a[i]
    BY <1>1
  <2>2. ASSUME NEW n PROVE n \in NumbersOf(a) <=> n \in {Head(a).n} \cup NumbersOf(Tail(a))
    <3>1. n \in NumbersOf(a) <=> \E i \in DOMAIN a : n = a[i].n
      BY ChunkMembers
    <3>2. n \in NumbersOf(Tail(a)) <=> \E i \in DOMAIN Tail(a) : n = Tail(a)[i].n
      BY ChunkMembers
    <3>3. 1 \in DOMAIN a /\ a[1] = Head(a)
      BY <1>1
    <3> QED BY <1>1, <2>1, <3>1, <3>2, <3>3
  <2> QED BY <2>2
<1>3. InArrival(Tail(a))
  BY <1>1 DEF InArrival
<1>4. ASSUME NEW n \in NumbersOf(Tail(a)) PROVE Head(a).n < n
  <2>1. PICK i \in DOMAIN Tail(a) : n = Tail(a)[i].n
    BY ChunkMembers
  <2> QED BY <1>1, <2>1 DEF InArrival
<1> QED BY <1>1, <1>2, <1>3, <1>4 DEF AllBelow

\* What Queued makes of the buffer.
LEMMA QueuedIs ==
  ASSUME ingestionPending \in Seq(OutputEvents), Ingestion!InOrder(ingestionPending),
         NEW e \in OutputEvents, NEW n \in Nat, 
         e.chunks = <<n>>, AllBelow(ChunkNums(ingestionPending), {n})
  PROVE  /\ Ingestion!Queued(e) \in Seq(OutputEvents)
         /\ Ingestion!Queued(e) # <<>>
         /\ Ingestion!InOrder(Ingestion!Queued(e))
         /\ ChunkNums(Ingestion!Queued(e)) = ChunkNums(ingestionPending) \cup {n}
<1>1. Ingestion!ToSet(e.chunks) = {n} /\ Ingestion!Ascending(e.chunks)
  BY DEF Ingestion!ToSet, Ingestion!Ascending
<1>2. CASE Ingestion!Queued(e) = Append(ingestionPending, e)
  BY <1>1, <1>2, EventBehind
<1>3. CASE Ingestion!Queued(e) # Append(ingestionPending, e)
  <2>1. /\ ingestionPending # <<>>
        /\ Ingestion!Queued(e) =
             Ingestion!ReplaceAt(ingestionPending, Len(ingestionPending),
                                 [Ingestion!Last(ingestionPending) EXCEPT !.chunks = @ \o <<n>>])
    BY <1>3 DEF Ingestion!Queued, Ingestion!NoEvents
  <2> QED BY <2>1, ChunkMerged
<1> QED BY <1>2, <1>3

\* What LineUp says of an event put behind the log.
LEMMA LogGrows ==
  ASSUME NEW s \in Seq(OutputEvents), NEW e \in OutputEvents, NEW w, NEW v, NEW b, NEW a, NEW l,
         LineUp(s, w, b, a, l), WritesOrdered(v),
         WriteNums(w) = Ingestion!ToSet(e.chunks) \cup WriteNums(v),
         Ingestion!Ascending(e.chunks), AllBelow(Ingestion!ToSet(e.chunks), WriteNums(v))
  PROVE  LineUp(Append(s, e), v, b, a, l) /\ LineUp(s, v, b, a, l)
<1>1. AllBelow(ChunkNums(s), Ingestion!ToSet(e.chunks)) /\ Ingestion!InOrder(s)
  BY DEF LineUp, AllBelow
<1>2. /\ Ingestion!InOrder(Append(s, e))
      /\ ChunkNums(Append(s, e)) = ChunkNums(s) \cup Ingestion!ToSet(e.chunks)
  BY <1>1, EventBehind
<1> QED BY <1>2 DEF LineUp, AllBelow

\* A buffer becomes a write.
LEMMA Flushed ==
  ASSUME NEW s, NEW w \in Seq(Seq(OutputEvents)), NEW b \in Seq(OutputEvents), NEW a, NEW l,
         LineUp(s, w, b, a, l), b # <<>>
  PROVE  LineUp(s, Append(w, b), <<>>, a, l) /\ Append(w, b) \in Seq(Seq(OutputEvents))
<1>1. WritesOrdered(w) /\ Ingestion!InOrder(b) /\ AllBelow(WriteNums(w), ChunkNums(b))
  BY DEF LineUp
<1>2. /\ Append(w, b) \in Seq(Seq(OutputEvents)) /\ WritesOrdered(Append(w, b))
      /\ WriteNums(Append(w, b)) = WriteNums(w) \cup ChunkNums(b)
  BY <1>1, WriteBehind
<1> QED BY <1>2, NoChunks DEF LineUp, AllBelow

\* The first that waits is lost, or goes into the buffer.
LEMMA FirstGoes ==
  ASSUME NEW s, NEW w, NEW b, NEW c, NEW a \in Seq(ChunkArrivals), NEW l, a # <<>>,
         LineUp(s, w, b, a, l)
  PROVE  /\ LineUp(s, w, b, Tail(a), l) /\ AllBelow(ChunkNums(b), {Head(a).n})
         /\ Ingestion!InOrder(c) /\ ChunkNums(c) = ChunkNums(b) \cup {Head(a).n} =>
             LineUp(s, w, c, Tail(a), l)
<1>1. InArrival(a)
  BY DEF LineUp
<1>2. /\ InArrival(Tail(a)) /\ NumbersOf(a) = {Head(a).n} \cup NumbersOf(Tail(a))
      /\ AllBelow({Head(a).n}, NumbersOf(Tail(a)))
  BY <1>1, ChunkLeaves
<1> QED BY <1>2 DEF LineUp, AllBelow

(* Every step keeps the order *)

\* Nothing has arrived yet.
LEMMA IngestionInit == ASSUME IngestionNamed, Ingestion!Init PROVE IngestionInv
<1>1. IngestionTyped /\ ChunksWaiting = <<>>
  BY DEF Ingestion!Init, IngestionTyped, Ingestion!NoEvents, ChunkSources, ChunksWaiting
<1>2. LineUp(<<>>, <<>>, <<>>, <<>>, 0)
  BY NoChunks DEF LineUp, AllBelow
<1> QED BY <1>1, <1>2 DEF Ingestion!Init, IngestionInv, Ingestion!NoEvents

\* A chunk arrives behind what waits.
LEMMA ReceiveKeeps == ASSUME IngestionNamed, IngestionInv, Ingestion!Receive PROVE IngestionInv'
<1> USE DEF IngestionInv, IngestionTyped
<1>1. PICK x \in ChunkArrivals :
        ingestionIngress' = Append(ingestionIngress, x) /\ x.n = ingestionReceived + 1
  <2> DEFINE from == IF ingestionSettling = "idle" THEN ingestionTurn ELSE None
  <2>1. PICK key \in IngestionKeys \cup {Ingestion!Direct} :
          ingestionIngress' =
            Append(ingestionIngress, [n |-> ingestionReceived', key |-> key,
                                      gen |-> ingestionRuntime, from |-> from])
    BY DEF Ingestion!Receive
  <2> DEFINE x == [n |-> ingestionReceived', key |-> key, gen |-> ingestionRuntime,
                  from |-> from]
  <2>2. x \in ChunkArrivals /\ x.n = ingestionReceived + 1
    BY DEF Ingestion!Receive, ChunkArrivals, ChunkLabels, ChunkSources
  <2> QED BY <2>1, <2>2
<1>2. /\ ingestionReceived' = ingestionReceived + 1
      /\ UNCHANGED <<ingestionRuntime, ingestionTaking, ingestionPending, ingestionTail,
                     ingestionLog, ingestionTurn>>
  BY DEF Ingestion!Receive, Ingestion!owner
<1>3. /\ ingestionIngress' \in Seq(ChunkArrivals)
      /\ ingestionIngress' # <<>>
      /\ (ingestionIngress # <<>> => Head(ingestionIngress') = Head(ingestionIngress))
  <2> DEFINE a == ingestionIngress
  <2>1. a \in Seq(ChunkArrivals) /\ ingestionIngress' = Append(a, x)
    BY <1>1
  <2> HIDE DEF a
  <2>2. /\ Append(a, x) \in Seq(ChunkArrivals)
        /\ Append(a, x) # <<>>
        /\ (a # <<>> => Append(a, x)[1] = a[1])
    <3>1. /\ Len(a) \in Nat
          /\ Len(Append(a, x)) = Len(a) + 1
          /\ \A i \in 1..Len(a) : Append(a, x)[i] = a[i]
      BY <2>1
    <3>2. a # <<>> => 1 \in 1..Len(a)
      BY <2>1, <3>1
    <3> QED BY <2>1, <3>1, <3>2
  <2>3. Head(Append(a, x)) = Append(a, x)[1] /\ (a # <<>> => Head(a) = a[1])
    BY <2>1, <2>2
  <2> QED BY <2>1, <2>2, <2>3 DEF a
<1>4. ChunksWaiting \in Seq(ChunkArrivals) /\ ChunksWaiting' = Append(ChunksWaiting, x)
  <2>1. CASE ingestionTaking # None /\ ingestionTaking.awaits = "write"
    <3>1. /\ ingestionIngress # <<>>
          /\ ChunksWaiting = Tail(ingestionIngress)
          /\ ChunksWaiting' = Tail(ingestionIngress')
      BY <1>2, <2>1 DEF ChunksWaiting
    <3>2. Tail(Append(ingestionIngress, x)) = Append(Tail(ingestionIngress), x)
      BY <3>1
    <3> QED BY <1>1, <3>1, <3>2
  <2>2. CASE ~(ingestionTaking # None /\ ingestionTaking.awaits = "write")
    BY <1>1, <1>2, <2>2 DEF ChunksWaiting
  <2> QED BY <2>1, <2>2
<1>5. /\ ChunkNums(ingestionLog) \subseteq Nat
      /\ WriteNums(ingestionTail) \subseteq Nat
      /\ ChunkNums(ingestionPending) \subseteq Nat
      /\ NumbersOf(ChunksWaiting) \subseteq Nat
  BY <1>4, ChunkNumbers
<1>6. \A n \in ChunkNums(ingestionLog) \cup WriteNums(ingestionTail) \cup ChunkNums(ingestionPending) \cup
           NumbersOf(ChunksWaiting) :
        n \in Nat /\ n <= ingestionReceived
  BY <1>5 DEF LineUp
<1>7. AllBelow(NumbersOf(ChunksWaiting), {x.n}) /\ InArrival(ChunksWaiting)
  BY <1>1, <1>6 DEF AllBelow, LineUp
<1>8. /\ InArrival(ChunksWaiting')
      /\ NumbersOf(ChunksWaiting') = NumbersOf(ChunksWaiting) \cup {ingestionReceived + 1}
  BY <1>1, <1>4, <1>7, ChunkArrives
<1>9. LineUp(ingestionLog, ingestionTail, ingestionPending, ChunksWaiting', ingestionReceived + 1)
  BY <1>6, <1>8 DEF LineUp, AllBelow
<1>10. LineUp(ingestionLog', ingestionTail', ingestionPending', ChunksWaiting', ingestionReceived')
  BY <1>2, <1>9
<1>11. IngestionTyped'
  BY <1>2, <1>3
<1> QED BY <1>10, <1>11

\* The first of the chain is dropped, buffered or written.
LEMMA TakeKeeps == ASSUME IngestionNamed, IngestionInv, Ingestion!Take PROVE IngestionInv'
<1> DEFINE chunk == Head(ingestionIngress)
           event == [key |-> chunk.key, turn |-> ingestionTurn, gen |-> chunk.gen,
                     from |-> chunk.from, chunks |-> <<chunk.n>>]
           buffer == Ingestion!Queued(event)
<1>1. /\ ingestionIngress # <<>>
      /\ ingestionTaking = None
      /\ UNCHANGED <<ingestionRuntime, ingestionReceived, ingestionLog, ingestionTurn>>
      /\ ingestionIngress \in Seq(ChunkArrivals)
      /\ ingestionPending \in Seq(OutputEvents)
      /\ ingestionTail \in Seq(Seq(OutputEvents))
      /\ chunk \in ChunkArrivals /\ Tail(ingestionIngress) \in Seq(ChunkArrivals)
  BY DEF Ingestion!Take, Ingestion!owner, IngestionInv, IngestionTyped
<1>2. /\ ChunksWaiting = ingestionIngress
      /\ LineUp(ingestionLog, ingestionTail, ingestionPending, ingestionIngress, ingestionReceived)
  BY <1>1 DEF ChunksWaiting, IngestionInv
<1>3. event \in OutputEvents /\ event.chunks = <<chunk.n>> /\ chunk.n \in Nat
  BY <1>1 DEF OutputEvents, ChunkArrivals, IngestionInv, IngestionTyped
<1>4. /\ LineUp(ingestionLog, ingestionTail, ingestionPending, Tail(ingestionIngress), ingestionReceived)
      /\ AllBelow(ChunkNums(ingestionPending), {chunk.n})
      /\ Ingestion!InOrder(ingestionPending)
  BY <1>1, <1>2, FirstGoes DEF LineUp
<1>5. /\ buffer \in Seq(OutputEvents) /\ buffer # <<>> /\ Ingestion!InOrder(buffer)
      /\ ChunkNums(buffer) = ChunkNums(ingestionPending) \cup {chunk.n}
  <2> HIDE DEF event
  <2> QED BY <1>1, <1>3, <1>4, QueuedIs
<1>6. LineUp(ingestionLog, ingestionTail, buffer, Tail(ingestionIngress), ingestionReceived)
  <2> HIDE DEF buffer
  <2> QED BY <1>1, <1>2, <1>5, FirstGoes
<1> HIDE DEF buffer, event
<1>7. CASE /\ ingestionTaking' = None
           /\ ingestionIngress' = Tail(ingestionIngress)
           /\ UNCHANGED <<ingestionPending, ingestionTail>>
  BY <1>1, <1>4, <1>7 DEF IngestionInv, IngestionTyped, ChunksWaiting
<1>8. CASE /\ Ingestion!Flush /\ ingestionIngress' = ingestionIngress
           /\ ingestionTaking' =
                 [event |-> event,
                  awaits |-> IF ingestionPending = Ingestion!NoEvents THEN "tail" ELSE "flush"]
  <2>1. /\ ingestionTaking' \in ChunkTakings
        /\ ingestionTaking'.event = event
        /\ ingestionTaking'.awaits # "write"
    BY <1>3, <1>8 DEF ChunkTakings
  <2>2. /\ ingestionPending' = <<>>
        /\ ingestionTail' \in Seq(Seq(OutputEvents))
        /\ LineUp(ingestionLog, ingestionTail', <<>>, ingestionIngress, ingestionReceived)
    <3>1. CASE ingestionPending = <<>>
      BY <1>1, <1>2, <1>8, <3>1 DEF Ingestion!Flush, Ingestion!NoEvents
    <3>2. CASE ingestionPending # <<>>
      BY <1>1, <1>2, <1>8, <3>2, Flushed DEF Ingestion!Flush, Ingestion!NoEvents
    <3> QED BY <3>1, <3>2
  <2>3. ChunksWaiting' = ingestionIngress
    BY <1>8, <2>1 DEF ChunksWaiting
  <2>4. IngestionTyped'
    BY <1>1, <1>3, <1>8, <2>1, <2>2, NoChunks DEF IngestionInv, IngestionTyped, IngestionNamed
  <2> QED BY <1>1, <2>2, <2>3, <2>4 DEF IngestionInv
<1>9. CASE /\ ingestionPending' = buffer
           /\ ingestionTaking' = None
           /\ ingestionIngress' = Tail(ingestionIngress)
           /\ ingestionTail' = ingestionTail
  BY <1>1, <1>5, <1>6, <1>9 DEF IngestionInv, IngestionTyped, ChunksWaiting
<1>10. CASE /\ ingestionTail' = Append(ingestionTail, buffer)
            /\ ingestionPending' = Ingestion!NoEvents
            /\ ingestionIngress' = ingestionIngress
            /\ ingestionTaking' = [event |-> event, awaits |-> "write"]
  <2>1. /\ ingestionTaking' \in ChunkTakings
        /\ ingestionTaking'.event = event
        /\ ingestionTaking'.awaits = "write"
    BY <1>3, <1>10 DEF ChunkTakings
  <2>2. /\ LineUp(ingestionLog, ingestionTail', <<>>, Tail(ingestionIngress), ingestionReceived)
        /\ ingestionTail' \in Seq(Seq(OutputEvents))
    BY <1>1, <1>5, <1>6, <1>10, Flushed
  <2>3. ChunksWaiting' = Tail(ingestionIngress)
    BY <1>10, <2>1 DEF ChunksWaiting, IngestionNamed
  <2>4. IngestionTyped'
    BY <1>1, <1>3, <1>10, <2>1, <2>2 DEF IngestionInv, IngestionTyped, IngestionNamed,
       Ingestion!NoEvents
  <2> QED BY <1>1, <1>10, <2>2, <2>3, <2>4 DEF IngestionInv, Ingestion!NoEvents
<1> QED BY <1>1, <1>7, <1>8, <1>9, <1>10 DEF Ingestion!Take, event, buffer

\* A chunk that is not buffered is written once nothing is before it.
LEMMA WriteDirectKeeps ==
  ASSUME IngestionNamed, IngestionInv, Ingestion!WriteDirect
  PROVE  IngestionInv'
<1> DEFINE e == ingestionTaking.event
<1>1. /\ ingestionTaking \in ChunkTakings
      /\ ingestionTail = <<>>
      /\ ingestionPending = <<>>
      /\ ingestionIngress # <<>>
      /\ ingestionTail' = <<<<e>>>>
      /\ ingestionTaking' = [ingestionTaking EXCEPT !.awaits = "write"]
      /\ ingestionTaking.awaits # "write"
      /\ UNCHANGED <<ingestionRuntime, ingestionReceived, ingestionIngress, ingestionPending,
                     ingestionLog, ingestionTurn>>
      /\ ingestionIngress \in Seq(ChunkArrivals) /\ Head(ingestionIngress) \in ChunkArrivals
      /\ e.chunks = <<Head(ingestionIngress).n>>
  BY DEF Ingestion!WriteDirect, Ingestion!owner, IngestionInv, IngestionTyped
<1>2. /\ e \in OutputEvents
      /\ ingestionTaking' \in ChunkTakings
      /\ ingestionTaking'.event = e
      /\ ingestionTaking'.awaits = "write"
  BY <1>1 DEF ChunkTakings
<1>3. ChunksWaiting = ingestionIngress /\ ChunksWaiting' = Tail(ingestionIngress)
  BY <1>1, <1>2 DEF ChunksWaiting, IngestionNamed
<1>4. LineUp(ingestionLog, <<>>, <<>>, ingestionIngress, ingestionReceived)
  BY <1>1, <1>3 DEF IngestionInv
<1>5. Ingestion!Ascending(e.chunks) /\ Ingestion!ToSet(e.chunks) = {Head(ingestionIngress).n}
  BY <1>1 DEF Ingestion!Ascending, Ingestion!ToSet
<1>6. /\ <<e>> \in Seq(OutputEvents)
      /\ <<e>> # <<>>
      /\ Ingestion!InOrder(<<e>>)
      /\ ChunkNums(<<e>>) = {Head(ingestionIngress).n}
  <2>1. Append(<<>>, e) = <<e>> /\ <<>> \in Seq(OutputEvents)
    OBVIOUS
  <2>2. AllBelow(ChunkNums(<<>>), Ingestion!ToSet(e.chunks))
    BY NoChunks DEF AllBelow
  <2> HIDE DEF e
  <2> QED BY <1>2, <1>5, <2>1, <2>2, NoChunks, EventBehind
<1> HIDE DEF e
<1>7. LineUp(ingestionLog, <<>>, <<e>>, Tail(ingestionIngress), ingestionReceived)
  BY <1>1, <1>4, <1>6, FirstGoes, NoChunks
<1>8. /\ LineUp(ingestionLog, <<<<e>>>>, <<>>, Tail(ingestionIngress), ingestionReceived)
      /\ <<<<e>>>> \in Seq(Seq(OutputEvents))
  <2>1. Append(<<>>, <<e>>) = <<<<e>>>> /\ <<>> \in Seq(Seq(OutputEvents))
    OBVIOUS
  <2> QED BY <1>6, <1>7, <2>1, Flushed
<1>9. IngestionTyped'
  BY <1>1, <1>2, <1>8 DEF e, IngestionInv, IngestionTyped
<1> QED BY <1>1, <1>3, <1>8, <1>9 DEF e, IngestionInv

\* It is written, and the next one may be taken.
LEMMA TakenKeeps == ASSUME IngestionNamed, IngestionInv, Ingestion!Taken PROVE IngestionInv'
<1>1. /\ ingestionTaking # None
      /\ ingestionTaking.awaits = "write"
      /\ ingestionIngress # <<>>
      /\ ingestionIngress \in Seq(ChunkArrivals)
      /\ ingestionIngress' = Tail(ingestionIngress) /\ ingestionTaking' = None
      /\ UNCHANGED <<ingestionRuntime, ingestionReceived, ingestionTail, ingestionPending,
                     ingestionLog, ingestionTurn>>
  BY DEF Ingestion!Taken, Ingestion!owner, IngestionInv, IngestionTyped
<1>2. ChunksWaiting' = ChunksWaiting
  BY <1>1 DEF ChunksWaiting
<1>3. IngestionTyped'
  BY <1>1 DEF IngestionInv, IngestionTyped
<1> QED BY <1>1, <1>2, <1>3 DEF IngestionInv

\* The timer and who waits for the buffer make it a write.
LEMMA FlushKeeps ==
  ASSUME IngestionNamed, IngestionInv, Ingestion!Flush,
         UNCHANGED <<ingestionRuntime, ingestionReceived, ingestionIngress, ingestionTaking,
                     ingestionLog, ingestionTurn>>
  PROVE  IngestionInv'
<1>1. ChunksWaiting' = ChunksWaiting
  BY DEF ChunksWaiting
<1>2. CASE ingestionPending = <<>>
  BY <1>1, <1>2 DEF Ingestion!Flush, Ingestion!NoEvents, IngestionInv, IngestionTyped
<1>3. CASE ingestionPending # <<>>
  <2>1. /\ ingestionTail' = Append(ingestionTail, ingestionPending)
        /\ ingestionPending' = <<>>
        /\ ingestionTaking = None
    BY <1>3 DEF Ingestion!Flush, Ingestion!NoEvents, IngestionInv, IngestionTyped
  <2>2. /\ LineUp(ingestionLog, ingestionTail', <<>>, ChunksWaiting, ingestionReceived)
        /\ ingestionTail' \in Seq(Seq(OutputEvents))
    BY <1>3, <2>1, Flushed DEF IngestionInv, IngestionTyped
  <2> QED BY <1>1, <2>1, <2>2 DEF IngestionInv, IngestionTyped
<1> QED BY <1>2, <1>3

\* The first event of the first write is stored or skipped.
LEMMA WriteKeeps ==
  ASSUME IngestionNamed, IngestionInv, ingestionTail # <<>>, ingestionTail' = Ingestion!Rest,
         ingestionLog' \in {ingestionLog, Append(ingestionLog, Head(Head(ingestionTail)))},
         UNCHANGED <<ingestionRuntime, ingestionReceived, ingestionIngress, ingestionTaking,
                     ingestionPending, ingestionTurn>>
  PROVE  IngestionInv'
<1> DEFINE e == Head(Head(ingestionTail))
<1>1. /\ ingestionTail # <<>>
      /\ ingestionTail \in Seq(Seq(OutputEvents))
      /\ ingestionTail' = Ingestion!Rest
      /\ ingestionLog' \in {ingestionLog, Append(ingestionLog, e)}
      /\ UNCHANGED <<ingestionRuntime, ingestionReceived, ingestionIngress, ingestionTaking,
                     ingestionPending, ingestionTurn>>
      /\ ingestionLog \in Seq(OutputEvents)
      /\ LineUp(ingestionLog, ingestionTail, ingestionPending, ChunksWaiting, ingestionReceived)
  BY DEF IngestionInv, IngestionTyped
<1>2. WritesOrdered(ingestionTail)
  BY <1>1 DEF LineUp
<1>3. /\ e \in OutputEvents
      /\ Ingestion!Ascending(e.chunks)
      /\ Ingestion!Rest \in Seq(Seq(OutputEvents))
      /\ WritesOrdered(Ingestion!Rest)
      /\ WriteNums(ingestionTail) = Ingestion!ToSet(e.chunks) \cup WriteNums(Ingestion!Rest)
      /\ AllBelow(Ingestion!ToSet(e.chunks), WriteNums(Ingestion!Rest))
  BY <1>1, <1>2, WritesRest
<1> HIDE DEF e
<1>4. /\ LineUp(ingestionLog', Ingestion!Rest, ingestionPending, ChunksWaiting, ingestionReceived)
      /\ ingestionLog' \in Seq(OutputEvents)
  <2>1. /\ LineUp(Append(ingestionLog, e), Ingestion!Rest, ingestionPending, ChunksWaiting, ingestionReceived)
        /\ LineUp(ingestionLog, Ingestion!Rest, ingestionPending, ChunksWaiting, ingestionReceived)
    BY <1>1, <1>3, LogGrows
  <2>2. Append(ingestionLog, e) \in Seq(OutputEvents)
    BY <1>1, <1>3
  <2> QED BY <1>1, <2>1, <2>2
<1>5. ChunksWaiting' = ChunksWaiting
  BY <1>1 DEF ChunksWaiting
<1>6. IngestionTyped'
  BY <1>1, <1>3, <1>4 DEF IngestionInv, IngestionTyped
<1> QED BY <1>1, <1>4, <1>5, <1>6 DEF IngestionInv

\* A write fails, and what waits for it may be given up.
LEMMA WriteFailsKeeps ==
  ASSUME IngestionNamed, IngestionInv, ingestionTail # <<>>, Ingestion!WriteFails
  PROVE  IngestionInv'
<1>1. /\ ingestionTail # <<>>
      /\ ingestionTail \in Seq(Seq(OutputEvents))
      /\ ingestionTail' = Tail(ingestionTail)
      /\ UNCHANGED <<ingestionRuntime, ingestionReceived, ingestionPending, ingestionLog,
                     ingestionTurn>>
      /\ \/ UNCHANGED <<ingestionIngress, ingestionTaking>>
         \/ ingestionTaking # None /\ ingestionTaking.awaits = "flush" 
             /\ ingestionTaking' = None /\ ingestionIngress' = Tail(ingestionIngress)
      /\ LineUp(ingestionLog, ingestionTail, ingestionPending, ChunksWaiting, ingestionReceived)
  BY DEF Ingestion!WriteFails, Ingestion!owner, IngestionInv, IngestionTyped
<1>2. WritesOrdered(ingestionTail)
  BY <1>1 DEF LineUp
<1>3. /\ Tail(ingestionTail) \in Seq(Seq(OutputEvents)) /\ WritesOrdered(Tail(ingestionTail))
      /\ WriteNums(Tail(ingestionTail)) \subseteq WriteNums(ingestionTail)
  BY <1>1, <1>2, FirstWrite
<1>4. LineUp(ingestionLog, Tail(ingestionTail), ingestionPending, ChunksWaiting, ingestionReceived)
  BY <1>1, <1>3 DEF LineUp, AllBelow
<1>5. CASE UNCHANGED <<ingestionIngress, ingestionTaking>>
  <2>1. ChunksWaiting' = ChunksWaiting
    BY <1>5 DEF ChunksWaiting
  <2> QED BY <1>1, <1>3, <1>4, <1>5, <2>1 DEF IngestionInv, IngestionTyped
<1>6. CASE /\ ingestionTaking # None
           /\ ingestionTaking.awaits = "flush"
           /\ ingestionTaking' = None
           /\ ingestionIngress' = Tail(ingestionIngress)
  <2>1. /\ ChunksWaiting = ingestionIngress
        /\ ChunksWaiting' = Tail(ingestionIngress)
        /\ ingestionIngress \in Seq(ChunkArrivals)
        /\ ingestionIngress # <<>>
    BY <1>6 DEF ChunksWaiting, IngestionInv, IngestionTyped
  <2>2. LineUp(ingestionLog, Tail(ingestionTail), ingestionPending, Tail(ingestionIngress), ingestionReceived)
    BY <1>4, <2>1, FirstGoes
  <2> QED BY <1>1, <1>3, <1>6, <2>1, <2>2 DEF IngestionInv, IngestionTyped
<1> QED BY <1>1, <1>5, <1>6

\* The end of a turn is an event without chunks.
LEMMA EndedKeeps == ASSUME IngestionNamed, IngestionInv, Ingestion!Ended PROVE IngestionInv'
<1> DEFINE e == Ingestion!End(ingestionTurn)
<1>1. /\ ingestionLog' = Append(ingestionLog, e) /\ ingestionTurn' = None
      /\ UNCHANGED <<ingestionRuntime, ingestionReceived, ingestionIngress,
                     ingestionTaking, ingestionPending, ingestionTail>>
  BY DEF Ingestion!Ended, Ingestion!Outside, Ingestion!buffers
<1>2. e \in OutputEvents /\ e.chunks = <<>>
  BY DEF Ingestion!End, OutputEvents, ChunkLabels, IngestionInv, IngestionTyped
<1>3. Ingestion!Ascending(e.chunks) /\ Ingestion!ToSet(e.chunks) = {}
  BY <1>2 DEF Ingestion!Ascending, Ingestion!ToSet
<1> HIDE DEF e
<1>4. LineUp(Append(ingestionLog, e), ingestionTail, ingestionPending, ChunksWaiting, ingestionReceived)
  <2>1. /\ WritesOrdered(ingestionTail)
        /\ AllBelow(Ingestion!ToSet(e.chunks), WriteNums(ingestionTail))
        /\ WriteNums(ingestionTail) = Ingestion!ToSet(e.chunks) \cup WriteNums(ingestionTail)
        /\ ingestionLog \in Seq(OutputEvents)
        /\ LineUp(ingestionLog, ingestionTail, ingestionPending, ChunksWaiting, ingestionReceived)
    BY <1>3 DEF IngestionInv, IngestionTyped, LineUp, AllBelow
  <2> QED BY <1>2, <1>3, <2>1, LogGrows
<1>5. ChunksWaiting' = ChunksWaiting
  BY <1>1 DEF ChunksWaiting
<1>6. IngestionTyped'
  BY <1>1, <1>2 DEF IngestionInv, IngestionTyped, ChunkSources
<1> QED BY <1>1, <1>4, <1>5, <1>6 DEF IngestionInv

\* Another runtime or another turn moves no chunk.
LEMMA NothingMoves ==
  ASSUME IngestionInv,
         UNCHANGED <<ingestionReceived, ingestionIngress, ingestionTaking, ingestionPending,
                     ingestionTail, ingestionLog>>,
         ingestionRuntime' \in {ingestionRuntime, ingestionRuntime + 1},
         ingestionTurn' \in ChunkSources
  PROVE  IngestionInv'
<1>1. ChunksWaiting' = ChunksWaiting
  BY DEF ChunksWaiting
<1>2. IngestionTyped'
  BY DEF IngestionInv, IngestionTyped
<1> QED BY <1>1, <1>2 DEF IngestionInv

(* The queue of the engine *)

EngineOps == [op : {"write", "start", "phase", "end"}, turn : ChunkSources]

\* One write at most is in the queue of the engine, and it is still the first.
EngineInv ==
  /\ ingestionEngine \in Seq(EngineOps)
  /\ \A i, j \in DOMAIN ingestionEngine :
       ingestionEngine[i].op = "write" /\ ingestionEngine[j].op = "write" => i = j
  /\ Ingestion!Writing => ingestionTail # <<>>

\* An append is queued; a write, if there is none.
LEMMA EngineGrows ==
  ASSUME EngineInv, NEW x \in EngineOps, ingestionEngine' = Append(ingestionEngine, x),
         x.op = "write" => ~Ingestion!Writing /\ ingestionTail # <<>>,
         ingestionTail' = ingestionTail
  PROVE  EngineInv'
<1> DEFINE e == ingestionEngine
           n == Len(ingestionEngine) + 1
<1>1. /\ Append(e, x) \in Seq(EngineOps) /\ DOMAIN Append(e, x) = 1..n
      /\ Append(e, x)[n] = x /\ \A i \in DOMAIN e : Append(e, x)[i] = e[i]
      /\ DOMAIN e = 1..n - 1 /\ n \in Nat
  BY DEF EngineInv
<1>2. \A i \in 1..n : i \in DOMAIN e \/ i = n
  BY <1>1
<1> HIDE DEF e, n
<1>3. \A i \in DOMAIN ingestionEngine' :
        ingestionEngine'[i].op = "write" =>
          \/ i = n /\ x.op = "write"
          \/ i \in DOMAIN ingestionEngine /\ ingestionEngine[i].op = "write"
  BY <1>1, <1>2 DEF e
<1> QED BY <1>1, <1>3 DEF EngineInv, Ingestion!Writing, e

\* The first append is done.
LEMMA EngineMoves ==
  ASSUME EngineInv, ingestionEngine # <<>>, ingestionEngine' = Tail(ingestionEngine),
         Head(ingestionEngine).op # "write" => ingestionTail' = ingestionTail
  PROVE  EngineInv'
<1> DEFINE e == ingestionEngine
<1>1. /\ Tail(e) \in Seq(EngineOps) /\ Head(e) = e[1] /\ 1 \in DOMAIN e
      /\ \A i \in DOMAIN Tail(e) : Tail(e)[i] = e[i + 1] /\ i + 1 \in DOMAIN e /\ i \in Nat
      /\ \A i \in DOMAIN Tail(e) : i + 1 # 1
  BY DEF EngineInv
<1>2. Ingestion!Writing' => Ingestion!Writing /\ e[1].op # "write"
  BY <1>1 DEF EngineInv, Ingestion!Writing
<1>3. \A i, j \in DOMAIN Tail(e) : Tail(e)[i].op = "write" /\ Tail(e)[j].op = "write" => i = j
  <2>1. \A i, j \in DOMAIN Tail(e) :
          Tail(e)[i].op = "write" /\ Tail(e)[j].op = "write" => i + 1 = j + 1
    BY <1>1 DEF EngineInv
  <2> QED BY <1>1, <2>1
<1> QED BY <1>1, <1>2, <1>3 DEF EngineInv

\* The first append of a step that takes one.
LEMMA NextAppend ==
  ASSUME EngineInv, NEW o, Ingestion!Next1(o)
  PROVE  /\ ingestionEngine # <<>> /\ ingestionEngine' = Tail(ingestionEngine)
         /\ Head(ingestionEngine).op = o /\ Head(ingestionEngine).turn \in ChunkSources
         /\ o = "write" => ingestionTail # <<>>
<1>1. /\ ingestionEngine # <<>> /\ ingestionEngine' = Tail(ingestionEngine)
      /\ Head(ingestionEngine).op = o
  BY DEF Ingestion!Next1
<1>2. Head(ingestionEngine) \in EngineOps /\ 1 \in DOMAIN ingestionEngine
      /\ Head(ingestionEngine) = ingestionEngine[1]
  BY <1>1 DEF EngineInv
<1>3. o = "write" => Ingestion!Writing
  BY <1>1, <1>2 DEF Ingestion!Writing
<1> QED BY <1>1, <1>2, <1>3 DEF EngineInv, EngineOps

\* The turn's own events are queued behind what is there.
LEMMA TurnAppends ==
  ASSUME IngestionInv, EngineInv, NEW o \in {"start", "phase", "end"}, NEW t \in ChunkSources,
         NEW s, Ingestion!Appends(o, t, s)
  PROVE  IngestionInv' /\ EngineInv'
<1>1. /\ ingestionEngine' = Append(ingestionEngine, Ingestion!Op(o, t))
      /\ UNCHANGED <<ingestionRuntime, ingestionReceived, ingestionIngress, ingestionTaking,
                     ingestionPending, ingestionTail, ingestionLog, ingestionTurn>>
  BY DEF Ingestion!Appends, Ingestion!Outside, Ingestion!buffers
<1>2. Ingestion!Op(o, t) \in EngineOps /\ Ingestion!Op(o, t).op # "write"
  BY DEF Ingestion!Op, EngineOps
<1>3. EngineInv'
  BY <1>1, <1>2, EngineGrows
<1>4. IngestionInv'
  BY <1>1, NothingMoves DEF IngestionInv, IngestionTyped
<1> QED BY <1>3, <1>4

\* What the owner of the turn does.
LEMMA TurnsKeep ==
  ASSUME IngestionNamed, IngestionInv, EngineInv,
         \/ Ingestion!StartTurn \/ Ingestion!Stop \/ Ingestion!EndTurn
         \/ Ingestion!FlushTimesOut
         \/ Ingestion!Started \/ Ingestion!Stopping \/ Ingestion!Ended
         \/ Ingestion!Restart \/ Ingestion!Answer \/ Ingestion!FlushDone
  PROVE  IngestionInv' /\ EngineInv'
<1>1. ingestionTurn \in ChunkSources /\ \A t \in IngestionTurns : t \in ChunkSources
  BY DEF IngestionInv, IngestionTyped, ChunkSources
<1>2. CASE Ingestion!StartTurn
  <2>1. PICK t \in IngestionTurns : Ingestion!Appends("start", t, "starting")
    BY <1>2 DEF Ingestion!StartTurn
  <2> QED BY <1>1, <2>1, TurnAppends
<1>3. CASE Ingestion!Stop
  BY <1>1, <1>3, TurnAppends DEF Ingestion!Stop
<1>4. CASE Ingestion!EndTurn \/ Ingestion!FlushTimesOut
  BY <1>1, <1>4, TurnAppends DEF Ingestion!EndTurn, Ingestion!FlushTimesOut
<1>5. CASE Ingestion!Started
  <2>1. /\ ingestionTurn' = Head(ingestionEngine).turn
        /\ UNCHANGED <<ingestionRuntime, ingestionReceived, ingestionIngress, ingestionTaking,
                       ingestionPending, ingestionTail, ingestionLog>>
    BY <1>5 DEF Ingestion!Started, Ingestion!Outside, Ingestion!buffers
  <2>2. Ingestion!Next1("start")
    BY <1>5 DEF Ingestion!Started
  <2>3. EngineInv'
    BY <2>1, <2>2, NextAppend, EngineMoves
  <2>4. ingestionTurn' \in ChunkSources
    BY <2>1, <2>2, NextAppend
  <2> QED BY <2>1, <2>3, <2>4, NothingMoves
<1>6. CASE Ingestion!Stopping
  <2>1. UNCHANGED <<ingestionRuntime, ingestionReceived, ingestionIngress, ingestionTaking,
                    ingestionPending, ingestionTail, ingestionLog, ingestionTurn>>
    BY <1>6 DEF Ingestion!Stopping, Ingestion!Outside, Ingestion!buffers
  <2>2. EngineInv'
    BY <1>6, <2>1, NextAppend, EngineMoves DEF Ingestion!Stopping
  <2> QED BY <1>1, <2>1, <2>2, NothingMoves
<1>7. CASE Ingestion!Ended
  <2>1. ingestionTail' = ingestionTail /\ Ingestion!Next1("end")
    BY <1>7 DEF Ingestion!Ended, Ingestion!Outside, Ingestion!buffers
  <2>2. EngineInv'
    BY <2>1, NextAppend, EngineMoves
  <2> QED BY <1>7, <2>2, EndedKeeps
<1>8. CASE Ingestion!Restart \/ Ingestion!Answer \/ Ingestion!FlushDone
  <2>1. /\ UNCHANGED <<ingestionReceived, ingestionIngress, ingestionTaking, ingestionPending,
                       ingestionTail, ingestionEngine, ingestionLog, ingestionTurn>>
        /\ ingestionRuntime' \in {ingestionRuntime, ingestionRuntime + 1}
    BY <1>8 DEF Ingestion!Restart, Ingestion!Answer, Ingestion!FlushDone, Ingestion!Outside,
       Ingestion!buffers, Ingestion!owner
  <2>2. EngineInv'
    BY <2>1 DEF EngineInv, Ingestion!Writing
  <2> QED BY <1>1, <2>1, <2>2, NothingMoves
<1> QED BY <1>2, <1>3, <1>4, <1>5, <1>6, <1>7, <1>8

\* What the chain of writes does.
LEMMA WritesKeep ==
  ASSUME IngestionNamed, IngestionInv, EngineInv,
         Ingestion!Submit \/ Ingestion!Written \/ Ingestion!WriteFails
  PROVE  IngestionInv' /\ EngineInv'
<1>1. CASE Ingestion!Submit
  <2>1. /\ ingestionTail # <<>> /\ ~Ingestion!Writing
        /\ UNCHANGED <<ingestionRuntime, ingestionReceived, ingestionIngress, ingestionTaking,
                       ingestionPending, ingestionLog, ingestionTurn>>
    BY <1>1 DEF Ingestion!Submit, Ingestion!owner
  <2>2. CASE /\ ingestionEngine' = Append(ingestionEngine, Ingestion!Op("write", None))
             /\ ingestionTail' = ingestionTail
    <3>1. Ingestion!Op("write", None) \in EngineOps
      BY DEF Ingestion!Op, EngineOps, ChunkSources
    <3>2. EngineInv'
      BY <2>1, <2>2, <3>1, EngineGrows
    <3> QED BY <2>1, <2>2, <3>2, NothingMoves DEF IngestionInv, IngestionTyped
  <2>3. CASE ingestionEngine' = ingestionEngine /\ ingestionTail' = Ingestion!Rest
    <3>1. EngineInv'
      BY <2>1, <2>3 DEF EngineInv, Ingestion!Writing
    <3> QED BY <2>1, <2>3, <3>1, WriteKeeps
  <2> QED BY <1>1, <2>2, <2>3 DEF Ingestion!Submit
<1>2. CASE Ingestion!Written
  <2>1. /\ Ingestion!Next1("write") /\ ingestionTail' = Ingestion!Rest
        /\ ingestionLog' = Append(ingestionLog, Head(Head(ingestionTail)))
        /\ UNCHANGED <<ingestionRuntime, ingestionReceived, ingestionIngress, ingestionTaking,
                       ingestionPending, ingestionTurn>>
    BY <1>2 DEF Ingestion!Written, Ingestion!owner
  <2>2. EngineInv' /\ ingestionTail # <<>>
    BY <2>1, NextAppend, EngineMoves
  <2> QED BY <2>1, <2>2, WriteKeeps
<1>3. CASE Ingestion!WriteFails
  <2>1. Ingestion!Next1("write")
    BY <1>3 DEF Ingestion!WriteFails
  <2>2. EngineInv' /\ ingestionTail # <<>>
    BY <2>1, NextAppend, EngineMoves
  <2> QED BY <1>3, <2>2, WriteFailsKeeps
<1> QED BY <1>1, <1>2, <1>3

\* What puts writes behind the others.
LEMMA MoreWrites ==
  ASSUME IngestionInv, EngineInv, ingestionEngine' = ingestionEngine,
         \/ ingestionTail' = ingestionTail
         \/ \E s : ingestionTail' = Append(ingestionTail, s)
  PROVE  EngineInv'
<1>1. ingestionTail \in Seq(Seq(OutputEvents))
  BY DEF IngestionInv, IngestionTyped
<1>2. ingestionTail # <<>> => ingestionTail' # <<>>
  <2>1. ASSUME NEW s PROVE Append(ingestionTail, s) # <<>>
    <3>1. Append(ingestionTail, s)[Len(ingestionTail) + 1] = s
          /\ Len(Append(ingestionTail, s)) = Len(ingestionTail) + 1 /\ Len(ingestionTail) \in Nat
      BY <1>1
    <3> QED BY <3>1
  <2> QED BY <2>1
<1> QED BY <1>2 DEF EngineInv, Ingestion!Writing

\* Every step keeps both invariants.
LEMMA IngestionStep ==
  ASSUME IngestionNamed, IngestionInv, EngineInv, [Ingestion!Next]_(Ingestion!vars)
  PROVE  IngestionInv' /\ EngineInv'
<1>1. CASE Ingestion!TimerFires \/ Ingestion!FlushRound
  <2>1. /\ Ingestion!Flush
        /\ UNCHANGED <<ingestionRuntime, ingestionReceived, ingestionIngress, ingestionTaking,
                       ingestionEngine, ingestionLog, ingestionTurn>>
    BY <1>1 DEF Ingestion!TimerFires, Ingestion!FlushRound, Ingestion!owner
  <2>2. EngineInv'
    BY <2>1, MoreWrites DEF Ingestion!Flush
  <2> QED BY <2>1, <2>2, FlushKeeps
<1>2. CASE Ingestion!Receive
  <2>1. EngineInv'
    BY <1>2, MoreWrites DEF Ingestion!Receive
  <2> QED BY <1>2, <2>1, ReceiveKeeps
<1>3. CASE Ingestion!Take
  <2>1. EngineInv'
    BY <1>3, MoreWrites DEF Ingestion!Take, Ingestion!Flush
  <2> QED BY <1>3, <2>1, TakeKeeps
<1>4. CASE Ingestion!WriteDirect
  <2>1. ingestionTail' # <<>> /\ ingestionEngine' = ingestionEngine
    BY <1>4 DEF Ingestion!WriteDirect
  <2>2. EngineInv'
    BY <2>1 DEF EngineInv, Ingestion!Writing
  <2> QED BY <1>4, <2>2, WriteDirectKeeps
<1>5. CASE Ingestion!Taken
  <2>1. EngineInv'
    BY <1>5, MoreWrites DEF Ingestion!Taken
  <2> QED BY <1>5, <2>1, TakenKeeps
<1>6. CASE UNCHANGED Ingestion!vars
  <2>1. UNCHANGED <<ingestionRuntime, ingestionReceived, ingestionIngress, ingestionTaking,
                    ingestionPending, ingestionTail, ingestionEngine, ingestionLog, ingestionTurn>>
    BY <1>6 DEF Ingestion!vars, Ingestion!buffers, Ingestion!owner
  <2>2. EngineInv'
    BY <2>1, MoreWrites
  <2> QED BY <2>1, <2>2, NothingMoves DEF IngestionInv, IngestionTyped
<1> QED BY <1>1, <1>2, <1>3, <1>4, <1>5, <1>6, TurnsKeep, WritesKeep
        DEF Ingestion!Next, Ingestion!Stored

\* StoredInOrder (#queue, #flushNow and #ingestResolved in runtime-ingestion.ts): what is
\* stored is stored in the order of arrival and once.
THEOREM OutputIsInOrder ==
  ASSUME IngestionNamed
  PROVE  Ingestion!Spec => []StoredInOrder
<1>1. Ingestion!Init => IngestionInv /\ EngineInv
  <2>1. Ingestion!Init => EngineInv
    BY DEF Ingestion!Init, EngineInv, Ingestion!Writing
  <2> QED BY <2>1, IngestionInit
<1>2. (IngestionInv /\ EngineInv) /\ [Ingestion!Next]_(Ingestion!vars)
      => (IngestionInv /\ EngineInv)'
  BY IngestionStep
<1>3. IngestionInv => StoredInOrder
  BY DEF IngestionInv, LineUp, StoredInOrder, Ingestion!StoredInOrder
<1> QED BY <1>1, <1>2, <1>3, PTL DEF Ingestion!Spec

-----------------------------------------------------------------------------
(* The creation of chats: before the runtime is asked, the baseline of the   *)
(* id is on disk and in the value before it, and from then on whatever a     *)
(* start reads says that the request may have been sent.                     *)

Places == {"idle", "save", "writing", "reserved", "prepared", "asking", "waiting",
           "configuring", "created", "ended", "failed"}
Pairs == (CreationIds \cup {CreationForeign}) \X Nat
Reservations == [stage : Creation!Stages, baseline : (SUBSET Pairs) \cup {None},
                 session : Pairs \cup {None}]
Journals == [held : [CreationIds -> Reservations \cup {None}], receipts : SUBSET CreationIds]
Wishes == [reservation : Reservations \cup {None}, then : Places]

\* None is no session, set of sessions, reservation or write, and nobody else
\* has an id.  (The run does not cut a start of the server off between restoring the
\* journal and rewriting it.)
CreationNamed ==
  /\ None \notin Pairs /\ None \notin SUBSET Pairs /\ None \notin Reservations
  /\ None \notin [id : CreationIds, previous : Journals]
  /\ CreationForeign \notin CreationIds

CreationTyped ==
  /\ creationPhase \in {"up", "restored", "down"} /\ creationJournal \in Journals
  /\ creationDisk \in [now : Journals, before : Journals]
  /\ creationWriter \in [id : CreationIds, previous : Journals] \cup {None}
  /\ creationOp \in [CreationIds -> [at : Places, next : Wishes \cup {None}]]
  /\ creationThreads \in [CreationIds -> Pairs \cup {None}]
  /\ creationAsked \subseteq CreationIds
  /\ creationSessions \subseteq Pairs /\ IsFiniteSet(creationSessions)

\* The runtime has a session of i, or is to make one.
Touched(i) == i \in creationAsked \/ \E s \in creationSessions : s[1] = i

\* ... and then only this one.
Once(i) ==
  /\ i \in creationAsked => \A s \in creationSessions : s[1] # i
  /\ \A s, t \in creationSessions : s[1] = i /\ t[1] = i => s = t

\* A reservation is bound when it has a session, after its baseline was taken.
Sane(r) == (r.stage = "bound" <=> r.session # None) /\ (r.stage = "bound" => r.baseline # None)
Well(j) == \A i \in CreationIds : j.held[i] # None => i \notin j.receipts /\ Sane(j.held[i])

\* A journal that keeps i from asking again; and one that does so when it is known
\* to be old.
Asking(r) == r # None /\ r.baseline # None /\ r.stage \in {"requesting", "bound"}
Kept(j, i) == i \in j.receipts \/ Asking(j.held[i])
Known(j, i) == i \in j.receipts \/ (j.held[i] # None /\ j.held[i].baseline # None)

\* What is on disk is what is in memory, or was before the write under way.
DiskOK ==
  /\ creationPhase # "up" => /\ creationWriter = None
                              /\ creationOp = [i \in CreationIds |-> Creation!Idle]
  /\ creationPhase = "up" => creationDisk.now =
       IF creationWriter = None THEN creationJournal ELSE creationWriter.previous
  /\ Well(creationJournal) /\ Well(creationDisk.now) /\ Well(creationDisk.before)

\* What a creation goes on with has what the place needs.
Has(i, r, place) ==
  /\ place \in {"reserved", "prepared", "asking", "waiting", "configuring"} => r # None
  /\ place \in {"prepared", "asking", "waiting"} => r.baseline # None
  /\ place \in {"asking", "waiting"} => r.stage = "requesting"
  /\ place = "asking" => ~Touched(i)

\* A write of i keeps it from asking again, if it has asked; before it asks, its
\* baseline is on disk.
WishOK(i, wish) ==
  /\ wish \in Wishes
  /\ wish.reservation # None => Sane(wish.reservation)
  /\ wish.then \notin {"save", "writing"}
  /\ Has(i, wish.reservation, wish.then)
  /\ wish.then \in {"created", "ended"} => wish.reservation = None
  /\ Touched(i) => Asking(wish.reservation) \/ wish.then \in {"created", "ended"}
  /\ wish.then = "asking" => Known(creationDisk.now, i)

OpOK(i) ==
  /\ Has(i, Creation!Held(i), creationOp[i].at)
  /\ creationOp[i].at \in {"save", "writing"} => WishOK(i, creationOp[i].next)
  /\ creationOp[i].at = "save" /\ creationOp[i].next.reservation # None =>
       i \notin creationJournal.receipts
  /\ creationOp[i].at = "writing" =>
       /\ creationWriter # None /\ creationWriter.id = i
       /\ creationJournal.held[i] = creationOp[i].next.reservation
       /\ creationOp[i].next.then \in {"created", "ended"} => i \in creationJournal.receipts

\* A write changes the reservation of who writes, and may add a receipt.
WriterOK ==
  creationWriter # None =>
    /\ creationOp[creationWriter.id].at = "writing"
    /\ \A i \in CreationIds \ {creationWriter.id} :
         creationWriter.previous.held[i] = creationJournal.held[i]
    /\ creationWriter.previous.receipts \subseteq creationJournal.receipts

\* Whoever has asked is kept from asking again, by whatever is read next.
Safe(i) ==
  Touched(i) \/ creationOp[i].at = "asking" =>
    /\ Known(creationDisk.before, i) /\ Known(creationDisk.now, i)
    /\ creationPhase # "restored" => Kept(creationDisk.now, i)
    /\ creationPhase = "up" => Kept(creationJournal, i)

CreationInv ==
  CreationTyped /\ DiskOK /\ WriterOK /\ \A i \in CreationIds : Once(i) /\ OpOK(i) /\ Safe(i)

\* An empty journal holds nothing.
LEMMA CreationInit == ASSUME CreationNamed PROVE Creation!Init => CreationInv
<1> SUFFICES ASSUME Creation!Init PROVE CreationInv
  OBVIOUS
<1>1. Creation!NoJournal \in Journals /\ Well(Creation!NoJournal)
  BY DEF Creation!NoJournal, Journals, Well
<1>2. CreationTyped
  BY <1>1, FS_EmptySet DEF Creation!Init, CreationTyped, Creation!Idle, Places
<1>3. DiskOK
  BY <1>1 DEF Creation!Init, DiskOK
<1>4. WriterOK
  BY DEF Creation!Init, WriterOK
<1>5. ASSUME NEW i \in CreationIds PROVE Once(i) /\ OpOK(i) /\ Safe(i)
  <2>1. creationOp[i] = Creation!Idle /\ ~Touched(i)
    BY DEF Creation!Init, Touched
  <2> QED BY <2>1 DEF Creation!Init, Once, OpOK, Safe, Has, Creation!Idle
<1> QED BY <1>2, <1>3, <1>4, <1>5 DEF CreationInv

\* A step that takes one creation elsewhere, while the journal stays.
LEMMA OpStep ==
  ASSUME CreationNamed, CreationInv, creationPhase = "up", NEW i \in CreationIds,
         NEW new \in [at : Places, next : Wishes \cup {None}],
         creationOp' = [creationOp EXCEPT ![i] = new],
         creationOp[i].at # "writing", new.at \notin {"writing", "asking"},
         UNCHANGED <<creationPhase, creationJournal, creationDisk, creationWriter,
                     creationAsked, creationSessions>>,
         creationThreads' \in [CreationIds -> Pairs \cup {None}],
         Has(i, Creation!Held(i), new.at),
         new.at = "save" => /\ WishOK(i, new.next)
                            /\ new.next.reservation # None => i \notin creationJournal.receipts
  PROVE  CreationInv'
<1>1. \A j \in CreationIds : Creation!Held(j)' = Creation!Held(j) /\ Touched(j)' = Touched(j)
  BY DEF Creation!Held, Touched
<1>2. creationOp'[i] = new /\ \A j \in CreationIds \ {i} : creationOp'[j] = creationOp[j]
  BY DEF CreationInv, CreationTyped
<1>3. CreationTyped'
  BY DEF CreationInv, CreationTyped
<1>4. DiskOK'
  BY DEF CreationInv, DiskOK
<1>5. WriterOK'
  BY <1>2 DEF CreationInv, WriterOK, CreationTyped
<1>6. ASSUME NEW j \in CreationIds PROVE Once(j)' /\ OpOK(j)' /\ Safe(j)'
  <2>1. Once(j) /\ OpOK(j) /\ Safe(j)
    BY DEF CreationInv
  <2>2. Once(j)'
    BY <2>1 DEF Once
  <2>3. CASE j = i
    <3>1. ASSUME new.at = "save" PROVE WishOK(i, new.next)'
      BY <3>1, <1>1 DEF WishOK, Has
    <3>2. Has(i, Creation!Held(i), new.at)'
      BY <1>1, <1>2 DEF Has
    <3>3. OpOK(i)'
      BY <1>1, <1>2, <3>1, <3>2 DEF OpOK, Has
    <3>4. Safe(i)'
      BY <1>1, <1>2, <2>1, <2>3 DEF Safe
    <3> QED BY <2>2, <2>3, <3>3, <3>4
  <2>4. CASE j # i
    <3>1. creationOp'[j] = creationOp[j]
      BY <1>2, <2>4
    <3>2. Safe(j)'
      BY <1>1, <3>1, <2>1 DEF Safe
    <3>3. OpOK(j)'
      BY <1>1, <3>1, <2>1 DEF OpOK, WishOK, Has, Creation!Held
    <3> QED BY <2>2, <3>2, <3>3
  <2> QED BY <2>3, <2>4
<1> QED BY <1>3, <1>4, <1>5, <1>6 DEF CreationInv

\* A step that only goes on to another place keeps the invariant when the place has
\* what it needs.
LEMMA GoStep ==
  ASSUME CreationNamed, CreationInv, creationPhase = "up", NEW i \in CreationIds,
         NEW place \in Places, Creation!Go(i, place),
         creationOp[i].at # "writing", place \notin {"save", "writing", "asking"},
         UNCHANGED <<creationPhase, creationJournal, creationDisk, creationWriter,
                     creationAsked, creationSessions>>,
         creationThreads' \in [CreationIds -> Pairs \cup {None}],
         Has(i, Creation!Held(i), place)
  PROVE  CreationInv'
<1> DEFINE new == [at |-> place, next |-> None]
<1>1. new \in [at : Places, next : Wishes \cup {None}] /\ new.at = place
  OBVIOUS
<1>2. creationOp' = [creationOp EXCEPT ![i] = new]
  BY DEF Creation!Go
<1> HIDE DEF new
<1> QED BY <1>1, <1>2, OpStep

\* A step that only asks for a write keeps it when the write may be made.
LEMMA WantsStep ==
  ASSUME CreationNamed, CreationInv, creationPhase = "up", NEW i \in CreationIds, NEW r,
         NEW then, Creation!Wants(i, r, then),
         creationOp[i].at # "writing",
         UNCHANGED <<creationPhase, creationJournal, creationDisk, creationWriter,
                     creationAsked, creationSessions>>,
         creationThreads' \in [CreationIds -> Pairs \cup {None}],
         WishOK(i, [reservation |-> r, then |-> then]),
         r # None => i \notin creationJournal.receipts
  PROVE  CreationInv'
<1> DEFINE wish == [reservation |-> r, then |-> then]
<1> DEFINE new == [at |-> "save", next |-> wish]
<1>0. wish.reservation = r
  OBVIOUS
<1>1. wish \in Wishes
  BY DEF WishOK
<1>2. creationOp' = [creationOp EXCEPT ![i] = new]
  BY DEF Creation!Wants
<1> HIDE DEF wish
<1>3. new \in [at : Places, next : Wishes \cup {None}] /\ new.at = "save" /\ new.next = wish
  BY <1>1 DEF Places
<1>4. Has(i, Creation!Held(i), new.at)
  BY <1>3 DEF Has
<1>5. WishOK(i, wish)
  BY DEF wish
<1> HIDE DEF new
<1> QED BY <1>0, <1>2, <1>3, <1>4, <1>5, OpStep

\* What a reservation in memory says.
LEMMA HeldFacts ==
  ASSUME CreationNamed, CreationInv, NEW i \in CreationIds
  PROVE  /\ Creation!Held(i) \in Reservations \cup {None}
         /\ Creation!Held(i) # None =>
              i \notin creationJournal.receipts /\ Sane(Creation!Held(i))
         /\ creationPhase = "up" /\ Touched(i) =>
              i \in creationJournal.receipts \/ Asking(Creation!Held(i))
         /\ Has(i, Creation!Held(i), creationOp[i].at)
         /\ creationThreads \in [CreationIds -> Pairs \cup {None}]
         /\ creationPhase = "up" => \/ creationDisk.now = creationJournal
                                    \/ creationWriter # None /\ creationWriter.id \in CreationIds
                                       /\ creationOp[creationWriter.id].at = "writing"
  BY DEF CreationInv, CreationTyped, Journals, Creation!Held, DiskOK, Well, Safe, Kept, OpOK,
     WriterOK

\* While i writes nothing itself, the disk has its reservation.
LEMMA DiskHas ==
  ASSUME CreationNamed, CreationInv, NEW i \in CreationIds, creationPhase = "up",
         creationOp[i].at # "writing"
  PROVE  creationDisk.now.held[i] = Creation!Held(i)
<1>1. CASE creationWriter = None
  BY <1>1 DEF CreationInv, DiskOK, Creation!Held
<1>2. CASE creationWriter # None
  <2>1. creationWriter.id # i
    BY <1>2 DEF CreationInv, WriterOK
  <2> QED BY <1>2, <2>1 DEF CreationInv, DiskOK, WriterOK, Creation!Held
<1> QED BY <1>1, <1>2

-----------------------------------------------------------------------------
(* The steps of a creation. *)

\* A request reserves its id, goes on with a reservation or is told of the receipt.
LEMMA CreationRequestStep ==
  ASSUME CreationNamed, CreationInv, NEW i \in CreationIds,
         Creation!Request(i) \/ Creation!RequestAgain(i)
  PROVE  CreationInv'
<1> USE HeldFacts DEF Creation!At, Creation!world
<1>1. CASE Creation!Request(i) /\ Creation!Held(i) = None
  <2>1. /\ Creation!Reservation("reserved") \in Reservations
        /\ Sane(Creation!Reservation("reserved"))
    BY DEF Creation!Reservation, Reservations, Creation!Stages, Sane
  <2>2. WishOK(i, [reservation |-> Creation!Reservation("reserved"), then |-> "reserved"])
    BY <1>1, <2>1 DEF Creation!Request, WishOK, Wishes, Places, Has, Asking, CreationNamed
  <2> QED BY <1>1, <2>2, WantsStep DEF Creation!Request
<1>2. CASE Creation!Request(i) /\ Creation!Held(i) # None
  <2>1. Has(i, Creation!Held(i), "reserved")
    BY <1>2 DEF Has
  <2> QED BY <1>2, <2>1, GoStep DEF Creation!Request, Places
<1>3. CASE Creation!RequestAgain(i)
  <2>1. WishOK(i, [reservation |-> None, then |-> "ended"])
    BY <1>3 DEF Creation!RequestAgain, WishOK, Wishes, Places, Has
  <2> QED BY <1>3, <2>1, WantsStep DEF Creation!RequestAgain
<1> QED BY <1>1, <1>2, <1>3

\* What the runtime has before the first request is noted, which nothing was asked
\* of yet.
LEMMA BaselineStep ==
  ASSUME CreationNamed, CreationInv, NEW i \in CreationIds, Creation!Baseline(i)
  PROVE  CreationInv'
<1> USE HeldFacts DEF Creation!world
<1>0. /\ creationPhase = "up"
      /\ creationOp[i].at = "reserved"
      /\ Creation!Held(i) \in Reservations
      /\ Sane(Creation!Held(i))
      /\ Creation!Held(i) # None /\ i \notin creationJournal.receipts
  BY DEF Creation!Baseline, Creation!At, Has
<1>1. CASE Creation!Held(i).baseline = None
  <2> DEFINE r == [Creation!Held(i) EXCEPT !.baseline = creationSessions, !.stage = "ready"]
  <2>1. creationSessions \in SUBSET Pairs /\ creationSessions # None
    BY DEF CreationInv, CreationTyped, CreationNamed
  <2>2. /\ r \in Reservations /\ r.baseline # None /\ r.stage = "ready" /\ r.session = None
        /\ r # None
    BY <1>0, <1>1, <2>1 DEF Reservations, Creation!Stages, Sane, CreationNamed
  <2>3. Creation!Wants(i, r, "prepared")
    BY <1>1 DEF Creation!Baseline
  <2>4. ~Touched(i)
    BY <1>0, <1>1 DEF Asking
  <2> HIDE DEF r
  <2>5. WishOK(i, [reservation |-> r, then |-> "prepared"])
    BY <2>2, <2>4 DEF WishOK, Wishes, Places, Has, Sane
  <2> QED BY <1>0, <2>3, <2>5, WantsStep DEF Creation!Baseline
<1>2. CASE Creation!Held(i).baseline # None
  <2>1. Has(i, Creation!Held(i), "prepared")
    BY <1>0, <1>2 DEF Has, CreationNamed
  <2> QED BY <1>0, <1>2, <2>1, GoStep DEF Creation!Baseline, Places
<1> QED BY <1>1, <1>2

\* The stage is to be stored before the runtime is asked; its baseline is on disk.
LEMMA AskStep ==
  ASSUME CreationNamed, CreationInv, NEW i \in CreationIds, Creation!Ask(i)
  PROVE  CreationInv'
<1> USE HeldFacts DEF Creation!world
<1>0. /\ creationPhase = "up"
      /\ creationOp[i].at = "prepared"
      /\ Creation!Held(i) \in Reservations
      /\ Sane(Creation!Held(i))
      /\ Creation!Held(i).baseline # None
      /\ Creation!Held(i) # None
      /\ i \notin creationJournal.receipts
  BY DEF Creation!Ask, Creation!At, Has
<1> DEFINE r == [Creation!Held(i) EXCEPT !.stage = "requesting"]
<1>1. /\ r \in Reservations /\ r.stage = "requesting" /\ r.baseline = Creation!Held(i).baseline
      /\ r.session = None /\ r # None
  BY <1>0 DEF Creation!Ask, Reservations, Creation!Stages, CreationNamed
<1>2. ~Touched(i)
  BY <1>0 DEF Creation!Ask, Asking, Sane
<1>3. Known(creationDisk.now, i)
  BY <1>0, DiskHas DEF Known
<1>4. Creation!Wants(i, r, "asking")
  BY DEF Creation!Ask
<1> HIDE DEF r
<1>5. WishOK(i, [reservation |-> r, then |-> "asking"])
  BY <1>0, <1>1, <1>2, <1>3 DEF WishOK, Wishes, Places, Has, Sane
<1> QED BY <1>0, <1>4, <1>5, WantsStep DEF Creation!Ask

\* A session is bound to who waits or looks for it.
LEMMA BindStep ==
  ASSUME CreationNamed, CreationInv, NEW i \in CreationIds, Creation!Bind(i) \/ Creation!Adopt(i)
  PROVE  CreationInv'
<1> USE HeldFacts DEF Creation!world
<1>0. /\ creationPhase = "up"
      /\ creationOp[i].at \in {"waiting", "prepared"}
      /\ Creation!Held(i) \in Reservations
      /\ Creation!Held(i).baseline # None
      /\ Creation!Held(i) # None
      /\ i \notin creationJournal.receipts
  BY DEF Creation!Bind, Creation!Adopt, Creation!At, Has
<1>1. ASSUME NEW s \in creationSessions,
             Creation!Wants(i, [Creation!Held(i) EXCEPT !.stage = "bound", !.session = s],
                            "configuring")
      PROVE  CreationInv'
  <2> DEFINE r == [Creation!Held(i) EXCEPT !.stage = "bound", !.session = s]
  <2>1. s \in Pairs /\ s # None
    BY DEF CreationInv, CreationTyped, CreationNamed
  <2>2. /\ r \in Reservations /\ r.stage = "bound" /\ r.baseline = Creation!Held(i).baseline
        /\ r.session # None /\ r # None
    BY <1>0, <2>1 DEF Reservations, Creation!Stages, CreationNamed
  <2>3. Creation!Wants(i, r, "configuring")
    BY <1>1
  <2> HIDE DEF r
  <2>4. WishOK(i, [reservation |-> r, then |-> "configuring"])
    BY <1>0, <2>2 DEF WishOK, Wishes, Places, Has, Sane, Asking
  <2> QED BY <1>0, <2>3, <2>4, WantsStep DEF Creation!Bind, Creation!Adopt
<1>2. CASE Creation!Go(i, "failed") /\ Creation!Adopt(i)
  <2>1. Has(i, Creation!Held(i), "failed")
    BY DEF Has
  <2> QED BY <1>0, <1>2, <2>1, GoStep DEF Creation!Adopt, Places
<1>3. CASE Creation!Bind(i)
  BY <1>1, <1>3 DEF Creation!Bind
<1>4. CASE Creation!Adopt(i)
  BY <1>1, <1>2, <1>4 DEF Creation!Adopt, Creation!Candidates
<1> QED BY <1>3, <1>4

\* Steps that write nothing: what waits or is created has what it needs.
LEMMA GoingStep ==
  ASSUME CreationNamed, CreationInv, NEW i \in CreationIds,
         \/ Creation!Resume(i) \/ Creation!Unanswered(i)
         \/ Creation!Created(i) \/ Creation!Unready(i)
  PROVE  CreationInv'
<1> USE HeldFacts DEF Creation!world, Creation!At, Places
<1>1. CASE Creation!Resume(i)
  <2>1. Has(i, Creation!Held(i), "configuring")
    BY <1>1 DEF Creation!Resume, Has
  <2> QED BY <1>1, <2>1, GoStep DEF Creation!Resume
<1>2. CASE Creation!Unanswered(i)
  BY <1>2, GoStep DEF Creation!Unanswered, Has
<1>3. CASE Creation!Created(i)
  BY <1>3, GoStep DEF Creation!Created, Has
<1>4. CASE Creation!Unready(i)
  BY <1>4, GoStep DEF Creation!Unready, Has
<1> QED BY <1>1, <1>2, <1>3, <1>4

\* The receipt replaces the reservation, which keeps the id from asking again.
LEMMA StoreStep ==
  ASSUME CreationNamed, CreationInv, NEW i \in CreationIds, Creation!Store(i) \/ Creation!Fail(i)
  PROVE  CreationInv'
<1> USE HeldFacts DEF Creation!world, Creation!At
<1>1. ASSUME Creation!Wants(i, None, "created"), Creation!Store(i),
             creationThreads' = [creationThreads EXCEPT ![i] = Creation!Held(i).session]
      PROVE  CreationInv'
  <2>1. WishOK(i, [reservation |-> None, then |-> "created"])
    BY DEF WishOK, Wishes, Places, Has
  <2>2. Creation!Held(i) # None
    BY <1>1 DEF Creation!Store, Has
  <2>3. Creation!Held(i).session \in Pairs \cup {None}
    BY <2>2 DEF Reservations
  <2> QED BY <1>1, <2>1, <2>3, WantsStep DEF Creation!Store
<1>2. CASE Creation!Go(i, "failed") /\ Creation!Store(i) /\ UNCHANGED creationThreads
  BY <1>2, GoStep DEF Creation!Store, Has, Places
<1>3. CASE Creation!Go(i, "idle") /\ Creation!Fail(i)
  BY <1>3, GoStep DEF Creation!Fail, Has, Places
<1>4. CASE /\ Creation!Wants(i, None, "idle")
           /\ Creation!Fail(i)
           /\ Creation!Held(i) # None
           /\ Creation!Held(i).stage \notin {"requesting", "bound"}
  <2>1. ~Touched(i)
    BY <1>4 DEF Creation!Fail, Asking
  <2>2. WishOK(i, [reservation |-> None, then |-> "idle"])
    BY <2>1 DEF WishOK, Wishes, Places, Has
  <2> QED BY <1>4, <2>2, WantsStep DEF Creation!Fail
<1> QED BY <1>1, <1>2, <1>3, <1>4 DEF Creation!Store, Creation!Fail

-----------------------------------------------------------------------------
(* The runtime. *)

\* A request is sent by who has not asked, and nobody else's changes.
LEMMA SendStep ==
  ASSUME CreationNamed, CreationInv, NEW i \in CreationIds, Creation!SendNew(i)
  PROVE  CreationInv'
<1> USE HeldFacts DEF Creation!world, Creation!At
<1>0. /\ creationPhase = "up"
      /\ creationOp[i].at = "asking"
      /\ ~Touched(i)
      /\ Creation!Held(i) # None
      /\ UNCHANGED <<creationPhase, creationJournal, creationDisk, creationWriter,
                     creationThreads, creationSessions>>
  BY DEF Creation!SendNew, Has
<1>1. /\ creationOp'[i] = [at |-> "waiting", next |-> None]
      /\ \A j \in CreationIds \ {i} : creationOp'[j] = creationOp[j]
      /\ creationOp' \in [CreationIds -> [at : Places, next : Wishes \cup {None}]]
  BY DEF Creation!SendNew, Creation!Go, CreationInv, CreationTyped, Places
<1>2. /\ creationAsked' = creationAsked \cup {i}
      /\ \A j \in CreationIds \ {i} : Touched(j)' = Touched(j)
  BY <1>0 DEF Creation!SendNew, Touched
<1>3. CreationTyped'
  BY <1>0, <1>1, <1>2 DEF CreationInv, CreationTyped
<1>4. DiskOK' /\ WriterOK'
  BY <1>0, <1>1 DEF CreationInv, CreationTyped, DiskOK, WriterOK
<1>5. ASSUME NEW j \in CreationIds PROVE Once(j)' /\ OpOK(j)' /\ Safe(j)'
  <2>1. Once(j) /\ OpOK(j) /\ Safe(j)
    BY DEF CreationInv
  <2>2. CASE j = i
    <3>1. Once(i)'
      BY <1>0, <1>2, <2>1, <2>2 DEF Once, Touched
    <3>2. OpOK(i)'
      BY <1>0, <1>1, <2>1, <2>2 DEF OpOK, Has, Creation!Held
    <3>3. Safe(i)'
      BY <1>0, <2>1, <2>2 DEF Safe
    <3> QED BY <2>2, <3>1, <3>2, <3>3
  <2>3. CASE j # i
    <3>1. creationOp'[j] = creationOp[j] /\ Touched(j)' = Touched(j)
      BY <1>1, <1>2, <2>3
    <3>2. Once(j)'
      BY <1>0, <1>2, <2>1, <2>3 DEF Once
    <3>3. OpOK(j)'
      BY <1>0, <3>1, <2>1 DEF OpOK, WishOK, Has, Creation!Held
    <3>4. Safe(j)'
      BY <1>0, <3>1, <2>1 DEF Safe
    <3> QED BY <3>2, <3>3, <3>4
  <2> QED BY <2>2, <2>3
<1> QED BY <1>3, <1>4, <1>5 DEF CreationInv

\* Who was asked and rejects has made no session.
LEMMA RejectedStep ==
  ASSUME CreationNamed, CreationInv, NEW i \in CreationIds, Creation!Rejected(i)
  PROVE  CreationInv'
<1> USE HeldFacts DEF Creation!world, Creation!At
<1> DEFINE r == [Creation!Held(i) EXCEPT !.stage = "ready"]
<1> DEFINE wish == [reservation |-> r, then |-> "failed"]
<1>0. /\ creationPhase = "up"
      /\ creationOp[i].at = "waiting"
      /\ i \in creationAsked
      /\ Creation!Held(i) \in Reservations
      /\ Creation!Held(i).stage = "requesting"
      /\ Sane(Creation!Held(i))
      /\ i \notin creationJournal.receipts
      /\ UNCHANGED <<creationPhase, creationJournal, creationDisk, creationWriter,
                     creationThreads, creationSessions>>
  BY DEF Creation!Rejected, Has
<1>1. /\ creationOp'[i] = [at |-> "save", next |-> wish]
      /\ \A j \in CreationIds \ {i} : creationOp'[j] = creationOp[j]
  BY DEF Creation!Rejected, Creation!Wants, CreationInv, CreationTyped
<1>a. r \in Reservations /\ Sane(r) /\ r.stage = "ready"
  BY <1>0 DEF Reservations, Creation!Stages, Sane
<1>b. creationOp' \in [CreationIds -> [at : Places, next : Wishes \cup {None}]]
  BY <1>a DEF Creation!Rejected, Creation!Wants, Wishes, Places, CreationInv, CreationTyped
<1>c. r' = r
  BY <1>0 DEF Creation!Held
<1> HIDE DEF r
<1>2. /\ creationAsked' = creationAsked \ {i}
      /\ (\A j \in CreationIds \ {i} : Touched(j)' = Touched(j))
      /\ ~Touched(i)'
  BY <1>0 DEF Creation!Rejected, Touched, CreationInv, Once
<1>3. CreationTyped'
  BY <1>0, <1>b, <1>2 DEF CreationInv, CreationTyped
<1>4. DiskOK' /\ WriterOK'
  BY <1>0, <1>1 DEF CreationInv, CreationTyped, DiskOK, WriterOK
<1>5. ASSUME NEW j \in CreationIds PROVE Once(j)' /\ OpOK(j)' /\ Safe(j)'
  <2>1. Once(j) /\ OpOK(j) /\ Safe(j)
    BY DEF CreationInv
  <2>2. CASE j = i
    <3>1. Once(i)'
      BY <1>0, <1>2, <2>1, <2>2 DEF Once
    <3>2. WishOK(i, wish)'
      BY <1>a, <1>c, <1>2 DEF WishOK, Wishes, Places, Has
    <3>3. OpOK(i)'
      BY <1>0, <1>1, <1>c, <3>2 DEF OpOK, Has
    <3>4. Safe(i)'
      BY <1>1, <1>2 DEF Safe
    <3> QED BY <2>2, <3>1, <3>3, <3>4
  <2>3. CASE j # i
    <3>1. creationOp'[j] = creationOp[j] /\ Touched(j)' = Touched(j)
      BY <1>1, <1>2, <2>3
    <3>2. Once(j)'
      BY <1>0, <1>2, <2>1, <2>3 DEF Once
    <3>3. OpOK(j)'
      BY <1>0, <3>1, <2>1 DEF OpOK, WishOK, Has, Creation!Held
    <3>4. Safe(j)'
      BY <1>0, <3>1, <2>1 DEF Safe
    <3> QED BY <3>2, <3>3, <3>4
  <2> QED BY <2>2, <2>3
<1> QED BY <1>3, <1>4, <1>5 DEF CreationInv

\* Counting is the same everywhere.
LEMMA CreationCounts == \A S : Creation!Cardinality(S) = Cardinality(S)
BY DEF Creation!Cardinality, Cardinality

\* The runtime makes what it was asked for, once; and what others ask for.
LEMMA MakeStep ==
  ASSUME CreationNamed, CreationInv, Creation!MakeSession \/ Creation!ForeignSession
  PROVE  CreationInv'
<1>0. UNCHANGED <<creationPhase, creationJournal, creationDisk, creationWriter, creationOp,
                  creationThreads>>
  BY DEF Creation!MakeSession, Creation!ForeignSession, Creation!parts
<1>1. PICK by \in CreationIds \cup {CreationForeign} :
        /\ creationSessions' = creationSessions \cup {Creation!Make(by)}
        /\ by \in CreationIds => by \in creationAsked /\ creationAsked' = creationAsked \ {by}
        /\ by = CreationForeign => creationAsked' = creationAsked
  BY DEF Creation!MakeSession, Creation!ForeignSession, CreationInv, CreationTyped,
     CreationNamed
<1>2. /\ Creation!Make(by) \in Pairs
      /\ Creation!Make(by)[1] = by
      /\ creationAsked' \subseteq CreationIds
  <2>1. IsFiniteSet({s \in creationSessions : s[1] = by})
    BY FS_Subset DEF CreationInv, CreationTyped
  <2>2. Cardinality({s \in creationSessions : s[1] = by}) + 1 \in Nat
    BY <2>1, FS_CardinalityType
  <2> QED BY <1>1, <2>2, CreationCounts DEF Creation!Make, Pairs, CreationInv, CreationTyped
<1>3. IsFiniteSet(creationSessions')
  BY <1>1, FS_AddElement DEF CreationInv, CreationTyped
<1>4. CreationTyped'
  BY <1>0, <1>1, <1>2, <1>3 DEF CreationInv, CreationTyped
<1>5. \A j \in CreationIds : Touched(j)' = Touched(j)
  BY <1>1, <1>2 DEF Touched, CreationNamed
<1>6. DiskOK' /\ WriterOK'
  BY <1>0 DEF CreationInv, DiskOK, WriterOK
<1>7. ASSUME NEW j \in CreationIds PROVE Once(j)' /\ OpOK(j)' /\ Safe(j)'
  <2>1. Once(j) /\ OpOK(j) /\ Safe(j)
    BY DEF CreationInv
  <2>2. Once(j)'
    BY <1>1, <1>2, <2>1 DEF Once, CreationNamed
  <2>3. OpOK(j)'
    BY <1>0, <1>5, <2>1 DEF OpOK, WishOK, Has, Creation!Held
  <2>4. Safe(j)'
    BY <1>0, <1>5, <2>1 DEF Safe
  <2> QED BY <2>2, <2>3, <2>4
<1> QED BY <1>4, <1>6, <1>7 DEF CreationInv

-----------------------------------------------------------------------------
(* The creationJournal. *)

\* What is being written keeps whoever has asked from asking again.
LEMMA CreationBeginStep ==
  ASSUME CreationNamed, CreationInv, Creation!BeginWrite
  PROVE  CreationInv'
<1>1. PICK i \in CreationIds :
        /\ creationOp[i].at = "save"
        /\ creationWriter' = [id |-> i, previous |-> creationJournal]
        /\ creationJournal' = [held |-> [creationJournal.held EXCEPT
                                      ![i] = creationOp[i].next.reservation],
                       receipts |-> IF creationOp[i].next.then \in {"created", "ended"}
                                    THEN creationJournal.receipts \cup {i}
                                    ELSE creationJournal.receipts]
        /\ creationOp' = [creationOp EXCEPT ![i].at = "writing"]
  BY DEF Creation!BeginWrite
<1>2. /\ creationPhase = "up"
      /\ creationWriter = None
      /\ UNCHANGED <<creationPhase, creationDisk, creationThreads, creationAsked,
                     creationSessions>>
  BY DEF Creation!BeginWrite, Creation!world
<1>3. /\ WishOK(i, creationOp[i].next)
      /\ (creationOp[i].next.reservation # None => i \notin creationJournal.receipts)
  BY <1>1 DEF CreationInv, OpOK
<1> DEFINE w == creationOp[i].next
<1>4. w \in Wishes /\ w.reservation \in Reservations \cup {None}
  BY <1>3 DEF WishOK, Wishes
<1>5. /\ creationJournal \in Journals
      /\ creationDisk.now = creationJournal
      /\ Well(creationJournal)
  BY <1>2 DEF CreationInv, CreationTyped, DiskOK
<1>6. /\ creationJournal'.held[i] = w.reservation
      /\ \A k \in CreationIds \ {i} : creationJournal'.held[k] = creationJournal.held[k]
      /\ creationJournal'.receipts = IF w.then \in {"created", "ended"}
                                      THEN creationJournal.receipts \cup {i}
                             ELSE creationJournal.receipts
      /\ creationJournal' \in Journals
  BY <1>1, <1>4, <1>5 DEF Journals
<1>7. /\ creationOp'[i].at = "writing"
      /\ creationOp'[i].next = w
      /\ \A k \in CreationIds \ {i} : creationOp'[k] = creationOp[k]
      /\ creationOp' \in [CreationIds -> [at : Places, next : Wishes \cup {None}]]
  BY <1>1 DEF CreationInv, CreationTyped, Places
<1>8. creationWriter' \in [id : CreationIds, previous : Journals] /\ creationWriter' # None
      /\ creationWriter'.id = i /\ creationWriter'.previous = creationJournal
  BY <1>1, <1>5 DEF CreationNamed
<1>9. CreationTyped'
  BY <1>2, <1>6, <1>7, <1>8 DEF CreationInv, CreationTyped
<1>10. Well(creationJournal')
  BY <1>3, <1>5, <1>6 DEF Well, WishOK
<1>11. DiskOK'
  BY <1>2, <1>5, <1>8, <1>10 DEF CreationInv, DiskOK
<1>12. WriterOK'
  BY <1>6, <1>7, <1>8 DEF WriterOK
<1>13. \A k \in CreationIds : Touched(k)' = Touched(k)
  BY <1>2 DEF Touched
<1>14. ASSUME NEW k \in CreationIds PROVE Once(k)' /\ OpOK(k)' /\ Safe(k)'
  <2>1. Once(k) /\ OpOK(k) /\ Safe(k)
    BY DEF CreationInv
  <2>2. Once(k)'
    BY <1>2, <2>1 DEF Once
  <2>3. CASE k = i
    <3>1. WishOK(i, w)'
      BY <1>2, <1>3, <1>7, <1>13 DEF WishOK, Has
    <3>2. OpOK(i)'
      BY <1>6, <1>7, <1>8, <3>1 DEF OpOK, Has
    <3>3. Safe(i)'
      BY <1>2, <1>3, <1>6, <1>7, <1>13, <2>1, <2>3 DEF Safe, Kept, WishOK
    <3> QED BY <2>2, <2>3, <3>2, <3>3
  <2>4. CASE k # i
    <3>1. /\ creationOp'[k] = creationOp[k]
          /\ creationJournal'.held[k] = creationJournal.held[k]
          /\ (k \in creationJournal'.receipts <=> k \in creationJournal.receipts)
      BY <1>6, <1>7, <2>4
    <3>2. creationOp[k].at # "writing"
      BY <1>2, <2>1 DEF OpOK
    <3>3. OpOK(k)'
      BY <1>2, <1>13, <2>1, <3>1, <3>2 DEF OpOK, WishOK, Has, Creation!Held
    <3>4. Safe(k)'
      BY <1>2, <1>13, <2>1, <3>1 DEF Safe, Kept
    <3> QED BY <2>2, <3>3, <3>4
  <2> QED BY <2>3, <2>4
<1> QED BY <1>9, <1>11, <1>12, <1>14 DEF CreationInv

\* What the operation that wrote goes on with is on disk.
LEMMA CreationEndStep == ASSUME CreationNamed, CreationInv, Creation!EndWrite PROVE CreationInv'
<1>0. /\ creationWriter.id \in CreationIds
      /\ creationOp[creationWriter.id].at = "writing"
      /\ WishOK(creationWriter.id, creationOp[creationWriter.id].next)
  BY DEF Creation!EndWrite, CreationInv, CreationTyped, WriterOK, OpOK
<1>a. PICK i \in CreationIds, w \in Wishes : i = creationWriter.id /\ w = creationOp[i].next
  BY <1>0 DEF WishOK
<1>1. /\ creationPhase = "up"
      /\ creationWriter # None
      /\ i = creationWriter.id
      /\ creationWriter' = None
      /\ UNCHANGED <<creationPhase, creationJournal, creationThreads, creationAsked,
                     creationSessions>>
      /\ creationDisk' = [now |-> creationJournal, before |-> creationDisk.now]
      /\ creationOp' = [creationOp EXCEPT ![i] = [at |-> w.then, next |-> None]]
  BY <1>a DEF Creation!EndWrite, Creation!Written, Creation!world, Creation!Go
<1>2. creationOp[i].at = "writing" /\ WishOK(i, w) /\ creationJournal.held[i] = w.reservation
      /\ (w.then \in {"created", "ended"} => i \in creationJournal.receipts)
  BY <1>0, <1>a, <1>1 DEF CreationInv, OpOK
<1>3. w.then \in Places \ {"save", "writing"}
  BY <1>2 DEF WishOK, Wishes
<1>4. /\ creationOp'[i] = [at |-> w.then, next |-> None]
      /\ \A k \in CreationIds \ {i} : creationOp'[k] = creationOp[k]
      /\ creationOp' \in [CreationIds -> [at : Places, next : Wishes \cup {None}]]
  BY <1>1, <1>3 DEF CreationInv, CreationTyped
<1>5. /\ creationDisk.now = creationWriter.previous
      /\ Well(creationJournal)
      /\ Well(creationDisk.now)
      /\ creationDisk.now \in Journals /\ creationJournal \in Journals
      /\ creationDisk'.now = creationJournal /\ creationDisk'.before = creationDisk.now
  BY <1>1 DEF CreationInv, DiskOK, CreationTyped
<1>6. CreationTyped'
  BY <1>1, <1>4, <1>5 DEF CreationInv, CreationTyped
<1>7. DiskOK' /\ WriterOK'
  BY <1>1, <1>5 DEF DiskOK, WriterOK
<1>8. \A k \in CreationIds : Touched(k)' = Touched(k)
  BY <1>1 DEF Touched
<1>9. ASSUME NEW k \in CreationIds PROVE Once(k)' /\ OpOK(k)' /\ Safe(k)'
  <2>1. Once(k) /\ OpOK(k) /\ Safe(k)
    BY DEF CreationInv
  <2>2. Once(k)'
    BY <1>1, <2>1 DEF Once
  <2>3. CASE k = i
    <3>1. Has(i, Creation!Held(i), w.then)'
      BY <1>1, <1>2, <1>4, <1>8 DEF WishOK, Has, Creation!Held
    <3>2. OpOK(k)'
      BY <1>3, <1>4, <2>3, <3>1 DEF OpOK
    <3>3. Touched(k) \/ w.then = "asking" => Known(creationDisk.now, k) /\ Kept(creationJournal, k)
      BY <1>1, <1>2, <2>1, <2>3 DEF Safe, Kept, WishOK, Has, Asking
    <3>4. Kept(creationJournal, k) => Known(creationJournal, k)
      BY DEF Kept, Known, Asking
    <3>5. Safe(k)'
      BY <1>1, <1>4, <1>5, <1>8, <2>3, <3>3, <3>4 DEF Safe
    <3> QED BY <2>2, <3>2, <3>5
  <2>4. CASE k # i
    <3>1. creationOp'[k] = creationOp[k] /\ creationOp[k].at # "writing"
      BY <1>1, <1>4, <2>1, <2>4 DEF OpOK
    <3>2. /\ creationJournal.held[k] = creationDisk.now.held[k]
          /\ creationDisk.now.receipts \subseteq creationJournal.receipts
      BY <1>1, <1>5, <2>4 DEF CreationInv, WriterOK
    <3>3. Known(creationDisk.now, k) => Known(creationJournal, k)
      BY <3>2 DEF Known
    <3>4. OpOK(k)'
      BY <1>1, <1>5, <1>8, <2>1, <3>1, <3>3 DEF OpOK, WishOK, Has, Creation!Held
    <3>5. Safe(k)'
      BY <1>1, <1>5, <1>8, <2>1, <3>1, <3>3 DEF Safe
    <3> QED BY <2>2, <3>4, <3>5
  <2> QED BY <2>3, <2>4
<1> QED BY <1>6, <1>7, <1>9 DEF CreationInv

\* A write that fails leaves memory as the disk is.
LEMMA FailsStep == ASSUME CreationNamed, CreationInv, Creation!WriteFails PROVE CreationInv'
<1>0. PICK i \in CreationIds : i = creationWriter.id
  BY DEF Creation!WriteFails, CreationInv, CreationTyped
<1>1. /\ creationPhase = "up"
      /\ creationWriter # None
      /\ i = creationWriter.id
      /\ creationWriter' = None
      /\ creationJournal' = creationWriter.previous
      /\ UNCHANGED <<creationPhase, creationDisk, creationThreads, creationAsked,
                     creationSessions>>
      /\ creationOp[i].at = "writing"
  BY <1>0 DEF Creation!WriteFails, Creation!world, CreationInv, WriterOK
<1>2. PICK place \in {"idle", "failed"} :
        creationOp' = [creationOp EXCEPT ![i] = [at |-> place, next |-> None]]
  BY <1>0 DEF Creation!WriteFails, Creation!Go
<1>4. /\ creationOp'[i] = [at |-> place, next |-> None]
      /\ \A k \in CreationIds \ {i} : creationOp'[k] = creationOp[k]
      /\ creationOp' \in [CreationIds -> [at : Places, next : Wishes \cup {None}]]
  BY <1>1, <1>2 DEF CreationInv, CreationTyped, Places
<1>5. /\ creationDisk.now = creationWriter.previous
      /\ Well(creationDisk.now)
      /\ creationDisk.now \in Journals
  BY <1>1 DEF CreationInv, DiskOK, CreationTyped
<1>6. CreationTyped'
  BY <1>1, <1>4, <1>5 DEF CreationInv, CreationTyped
<1>7. DiskOK' /\ WriterOK'
  BY <1>1, <1>5 DEF CreationInv, DiskOK, WriterOK
<1>8. \A k \in CreationIds : Touched(k)' = Touched(k)
  BY <1>1 DEF Touched
<1>9. ASSUME NEW k \in CreationIds PROVE Once(k)' /\ OpOK(k)' /\ Safe(k)'
  <2>1. Once(k) /\ OpOK(k) /\ Safe(k)
    BY DEF CreationInv
  <2>2. Once(k)'
    BY <1>1, <2>1 DEF Once
  <2>3. CASE k = i
    <3>1. OpOK(k)'
      BY <1>4, <2>3 DEF OpOK, Has
    <3>2. Safe(k)'
      BY <1>1, <1>4, <1>5, <1>8, <2>1, <2>3 DEF Safe
    <3> QED BY <2>2, <3>1, <3>2
  <2>4. CASE k # i
    <3>1. creationOp'[k] = creationOp[k] /\ creationOp[k].at # "writing"
      BY <1>1, <1>4, <2>1, <2>4 DEF OpOK
    <3>2. /\ creationJournal.held[k] = creationJournal'.held[k]
          /\ creationJournal'.receipts \subseteq creationJournal.receipts
      BY <1>1, <1>5, <2>4 DEF CreationInv, WriterOK
    <3>4. OpOK(k)'
      BY <1>1, <1>8, <2>1, <3>1, <3>2 DEF OpOK, WishOK, Has, Creation!Held
    <3>5. Safe(k)'
      BY <1>1, <1>5, <1>8, <2>1, <3>1 DEF Safe
    <3> QED BY <2>2, <3>4, <3>5
  <2> QED BY <2>3, <2>4
<1> QED BY <1>6, <1>7, <1>9 DEF CreationInv

-----------------------------------------------------------------------------
(* Ends and starts of the server. *)

\* A deleted thread leaves its receipt.
LEMMA DeleteStep ==
  ASSUME CreationNamed, CreationInv, NEW i \in CreationIds, Creation!Delete(i)
  PROVE  CreationInv'
<1>1. UNCHANGED <<creationPhase, creationJournal, creationDisk, creationWriter, creationOp,
                  creationAsked, creationSessions>>
  BY DEF Creation!Delete, Creation!parts
<1>2. CreationTyped'
  BY <1>1 DEF Creation!Delete, CreationInv, CreationTyped
<1>3. DiskOK' /\ WriterOK' /\ \A j \in CreationIds : Once(j)' /\ OpOK(j)' /\ Safe(j)'
  BY <1>1 DEF CreationInv, DiskOK, WriterOK, Once, OpOK, WishOK, Has, Creation!Held,
                  Touched,
     Safe
<1> QED BY <1>2, <1>3 DEF CreationInv

\* Whatever of a write is on disk keeps whoever has asked from asking again.
LEMMA CrashStep == ASSUME CreationNamed, CreationInv, Creation!Crash PROVE CreationInv'
<1>1. /\ creationPhase = "up"
      /\ creationPhase' = "down"
      /\ creationWriter' = None
      /\ creationOp' = [i \in CreationIds |-> Creation!Idle]
      /\ creationJournal' = Creation!NoJournal
      /\ UNCHANGED <<creationThreads, creationAsked, creationSessions>>
  BY DEF Creation!Crash, CreationNamed, Creation!world
<1>2. \/ creationDisk' = creationDisk
      \/ creationDisk' = [now |-> creationJournal, before |-> creationDisk.now]
  BY DEF Creation!Crash, Creation!Written
<1>3. /\ Well(creationJournal) /\ Well(creationDisk.now) /\ Well(creationDisk.before)
      /\ creationJournal \in Journals /\ creationDisk \in [now : Journals, before : Journals]
  BY DEF CreationInv, DiskOK, CreationTyped
<1>4. Creation!NoJournal \in Journals /\ Well(Creation!NoJournal)
  BY DEF Creation!NoJournal, Journals, Well
<1>5. /\ creationDisk' \in [now : Journals, before : Journals]
      /\ Well(creationDisk'.now)
      /\ Well(creationDisk'.before)
  BY <1>2, <1>3
<1>6. CreationTyped'
  BY <1>1, <1>4, <1>5 DEF CreationInv, CreationTyped, Creation!Idle, Places
<1>7. DiskOK' /\ WriterOK'
  BY <1>1, <1>4, <1>5 DEF DiskOK, WriterOK
<1>8. \A k \in CreationIds : Touched(k)' = Touched(k)
  BY <1>1 DEF Touched
<1>9. ASSUME NEW k \in CreationIds PROVE Once(k)' /\ OpOK(k)' /\ Safe(k)'
  <2>1. Once(k) /\ OpOK(k) /\ Safe(k)
    BY DEF CreationInv
  <2>2. Once(k)'
    BY <1>1, <2>1 DEF Once
  <2>3. creationOp'[k].at = "idle"
    BY <1>1 DEF Creation!Idle
  <2>4. OpOK(k)'
    BY <2>3 DEF OpOK, Has
  <2>5. Kept(creationJournal, k) => Known(creationJournal, k)
    BY DEF Kept, Known, Asking
  <2>6. Safe(k)'
    BY <1>1, <1>2, <1>8, <2>1, <2>3, <2>5 DEF Safe
  <2> QED BY <2>2, <2>4, <2>6
<1> QED BY <1>6, <1>7, <1>9 DEF CreationInv

\* What is loaded keeps from asking again who the file keeps; and if the file may
\* be old, who it knows.
LEMMA LoadedOK ==
  ASSUME CreationNamed, NEW value \in Journals, Well(value), NEW recovered \in BOOLEAN
  PROVE  /\ Creation!Loaded(value, recovered) \in Journals
         /\ Well(Creation!Loaded(value, recovered))
         /\ \A i \in CreationIds : Kept(value, i) \/ (recovered /\ Known(value, i))
                            => Kept(Creation!Loaded(value, recovered), i)
<1> DEFINE there == {i \in CreationIds : creationThreads[i] # None}
<1> DEFINE Again(r) == IF r # None /\ recovered /\ r.session = None
                       THEN [r EXCEPT !.stage = "requesting"] ELSE r
<1> DEFINE new == Creation!Loaded(value, recovered)
<1>1. new = [held |-> [i \in CreationIds |->
                         IF i \in there THEN None ELSE Again(value.held[i])],
             receipts |-> value.receipts \cup there]
  BY DEF Creation!Loaded
<1>2. ASSUME NEW i \in CreationIds
      PROVE  /\ Again(value.held[i]) \in Reservations \cup {None}
             /\ Again(value.held[i]) # None =>
                  value.held[i] # None /\ Sane(Again(value.held[i]))
             /\ value.held[i] # None => Again(value.held[i]) # None
             /\ Asking(value.held[i]) => Asking(Again(value.held[i]))
             /\ recovered /\ value.held[i] # None /\ value.held[i].baseline # None
                  => Asking(Again(value.held[i]))
  <2> DEFINE r == value.held[i]
  <2>1. r \in Reservations \cup {None} /\ (r # None => Sane(r))
    BY DEF Journals, Well
  <2> HIDE DEF r
  <2>2. CASE r # None /\ recovered /\ r.session = None
    <3>1. /\ Again(r) \in Reservations /\ Again(r).stage = "requesting" /\ Again(r) # None
          /\ Again(r).session = None /\ Again(r).baseline = r.baseline
      BY <2>1, <2>2 DEF Reservations, Creation!Stages, CreationNamed
    <3> HIDE DEF Again
    <3>2. /\ Again(r) \in Reservations \cup {None} /\ Sane(Again(r))
          /\ (r.baseline # None => Asking(Again(r))) /\ (Asking(r) => r.baseline # None)
      BY <3>1 DEF Sane, Asking
    <3> QED BY <2>2, <3>1, <3>2 DEF r
  <2>3. CASE ~(r # None /\ recovered /\ r.session = None)
    <3>1. Again(r) = r
      BY <2>3
    <3> HIDE DEF Again
    <3>2. recovered /\ r # None /\ r.baseline # None => Asking(r)
      BY <2>1, <2>3 DEF Sane, Asking
    <3> QED BY <2>1, <3>1, <3>2 DEF r
  <2> QED BY <2>2, <2>3
<1> HIDE DEF Again, new
<1>3. value.receipts \subseteq CreationIds /\ there \subseteq CreationIds
  BY DEF Journals
<1>4. new \in Journals
  BY <1>1, <1>2, <1>3 DEF Journals
<1>5. \A i \in CreationIds :
        /\ i \in there => (i \in new.receipts /\ new.held[i] = None)
        /\ i \notin there => new.held[i] = Again(value.held[i])
        /\ i \in new.receipts <=> (i \in value.receipts \/ i \in there)
  BY <1>1
<1>6. Well(new)
  BY <1>2, <1>5 DEF Well
<1>7. ASSUME NEW i \in CreationIds, Kept(value, i) \/ (recovered /\ Known(value, i))
      PROVE  Kept(new, i)
  BY <1>2, <1>5, <1>7 DEF Kept, Known
<1> QED BY <1>4, <1>6, <1>7 DEF new

\* A restored file is known to be old when it is loaded.
LEMMA LoadStep ==
  ASSUME CreationNamed, CreationInv, Creation!Open \/ Creation!OpenRestored
  PROVE  CreationInv'
<1>1. PICK recovered \in BOOLEAN :
        /\ Creation!Load(creationDisk.now, recovered)
        /\ creationPhase # "up"
        /\ (creationPhase = "restored" => recovered)
  BY DEF Creation!Open, Creation!OpenRestored
<1> DEFINE new == Creation!Loaded(creationDisk.now, recovered)
<1>2. /\ creationPhase' = "up" /\ creationJournal' = new
      /\ creationDisk' = IF new = creationDisk.now THEN creationDisk
                         ELSE [now |-> new, before |-> creationDisk.now]
      /\ UNCHANGED <<creationWriter, creationOp, creationThreads, creationAsked,
                     creationSessions>>
  BY <1>1 DEF Creation!Load, Creation!world
<1>3. /\ /\ creationWriter = None
                              /\ creationOp = [i \in CreationIds |-> Creation!Idle]
      /\ Well(creationDisk.now)
      /\ Well(creationDisk.before)
      /\ creationDisk \in [now : Journals, before : Journals]
  BY <1>1 DEF CreationInv, DiskOK, CreationTyped
<1>4. /\ new \in Journals /\ Well(new)
      /\ \A i \in CreationIds :
           Kept(creationDisk.now, i) \/ (recovered /\ Known(creationDisk.now, i)) => Kept(new, i)
  BY <1>3, LoadedOK
<1> HIDE DEF new
<1>5. /\ creationDisk' \in [now : Journals, before : Journals] /\ creationDisk'.now = new
      /\ Well(creationDisk'.before)
      /\ (creationDisk'.before = creationDisk.before \/ creationDisk'.before = creationDisk.now)
  BY <1>2, <1>3, <1>4
<1>6. CreationTyped'
  BY <1>2, <1>4, <1>5 DEF CreationInv, CreationTyped
<1>7. DiskOK' /\ WriterOK'
  BY <1>2, <1>3, <1>4, <1>5 DEF DiskOK, WriterOK
<1>8. \A k \in CreationIds : Touched(k)' = Touched(k)
  BY <1>2 DEF Touched
<1>9. ASSUME NEW k \in CreationIds PROVE Once(k)' /\ OpOK(k)' /\ Safe(k)'
  <2>1. Once(k) /\ OpOK(k) /\ Safe(k)
    BY DEF CreationInv
  <2>2. Once(k)'
    BY <1>2, <2>1 DEF Once
  <2>3. creationOp'[k].at = "idle"
    BY <1>2, <1>3 DEF Creation!Idle
  <2>4. OpOK(k)'
    BY <2>3 DEF OpOK, Has
  <2>5. Kept(new, k) => Known(new, k)
    BY DEF Kept, Known, Asking
  <2>6. Safe(k)'
    BY <1>1, <1>2, <1>4, <1>5, <1>8, <2>1, <2>3, <2>5 DEF Safe
  <2> QED BY <2>2, <2>4, <2>6
<1> QED BY <1>6, <1>7, <1>9 DEF CreationInv

\* A start that reads the value before: whoever has asked has its baseline there, so
\* that the start turns it into a request that was sent.
LEMMA RestoreStep == ASSUME CreationNamed, CreationInv, Creation!Restore PROVE CreationInv'
<1>1. /\ creationPhase = "down" /\ creationPhase' = "restored"
      /\ creationDisk' = [now |-> creationDisk.before, before |-> creationDisk.before]
      /\ UNCHANGED <<creationJournal, creationWriter, creationOp, creationThreads,
                     creationAsked, creationSessions>>
  BY DEF Creation!Restore, Creation!world
<1>2. CreationTyped'
  BY <1>1 DEF CreationInv, CreationTyped
<1>3. DiskOK' /\ WriterOK'
  BY <1>1 DEF CreationInv, DiskOK, WriterOK
<1>4. ASSUME NEW k \in CreationIds PROVE Once(k)' /\ OpOK(k)' /\ Safe(k)'
  <2>1. Once(k) /\ OpOK(k) /\ Safe(k) /\ creationOp[k].at = "idle"
    BY <1>1 DEF CreationInv, DiskOK, Creation!Idle
  <2>2. Touched(k)' = Touched(k) /\ Once(k)'
    BY <1>1, <2>1 DEF Once, Touched
  <2>3. OpOK(k)'
    BY <1>1, <2>1 DEF OpOK, Has
  <2>4. Safe(k)'
    BY <1>1, <2>1, <2>2 DEF Safe
  <2> QED BY <2>2, <2>3, <2>4
<1> QED BY <1>2, <1>3, <1>4 DEF CreationInv

\* Every step keeps the invariant.
LEMMA CreationStep ==
  ASSUME CreationNamed, CreationInv, [Creation!Next]_(Creation!vars)
  PROVE  CreationInv'
<1>1. CASE UNCHANGED Creation!vars
  <2>1. UNCHANGED <<creationPhase, creationJournal, creationDisk, creationWriter, creationOp,
                    creationThreads, creationAsked, creationSessions>>
    BY <1>1 DEF Creation!vars, Creation!parts, Creation!world
  <2> QED BY <2>1 DEF CreationInv, CreationTyped, DiskOK, WriterOK, Once, OpOK, WishOK, Has, Creation!Held,
                  Touched,
     Safe
<1>2. CASE Creation!Next
  BY <1>2, CreationBeginStep, CreationEndStep, FailsStep, MakeStep, CreationRequestStep,
     BaselineStep, AskStep,
     BindStep,
     GoingStep, StoreStep, SendStep, RejectedStep, DeleteStep, CrashStep, LoadStep, RestoreStep
     DEF Creation!Next
<1> QED BY <1>1, <1>2

\* At most one session is made for an id, however often its creation is tried
\* again (continueReservedThreadCreation, loadThreadCreationJournal).
THEOREM SessionsAreMadeOnce == ASSUME CreationNamed PROVE Creation!Spec => []OneSessionEach
<1>1. CreationInv => OneSessionEach
  <2> SUFFICES ASSUME CreationInv, NEW i \in CreationIds
               PROVE  Cardinality({s \in creationSessions : s[1] = i})
                         + (IF i \in creationAsked THEN 1 ELSE 0) <= 1
    BY CreationCounts DEF OneSessionEach, Creation!OneSessionEach
  <2> DEFINE S == {s \in creationSessions : s[1] = i}
  <2>1. Once(i)
    BY DEF CreationInv
  <2>2. CASE S = {}
    BY <2>2, FS_EmptySet
  <2>3. CASE S # {}
    <3>1. PICK s \in S : S = {s}
      BY <2>1, <2>3 DEF Once
    <3>2. Cardinality(S) = 1
      BY <3>1, FS_Singleton
    <3>3. i \notin creationAsked
      BY <2>1, <2>3 DEF Once
    <3> QED BY <3>2, <3>3
  <2> QED BY <2>2, <2>3
<1> QED BY <1>1, CreationInit, CreationStep, PTL DEF Creation!Spec

-----------------------------------------------------------------------------
(* The event log: module EventStore, proved in EventStoreProofs. *)

StoreFacts == INSTANCE EventStoreProofs WITH
  Threads <- StoreThreads, Events <- StoreEvents, MaxFaults <- StoreMaxFaults,
  RestoreFails <- FALSE, MaxTorn <- 0, MaxCrashes <- StoreMaxCrashes,
  path <- storePath, bak <- storeBak, server <- storeServer, seq <- storeSeq,
  threads <- storeThreads, op <- storeOp, used <- storeUsed, faults <- storeFaults,
  torn <- storeTorn, crashes <- storeCrashes

\* The behaviours of the run are those that EventStoreProofs is about.
LEMMA StoreBehaviours == Store!Spec => StoreFacts!Spec
<1>1. Store!Init => StoreFacts!Init
  BY Zenon DEF Store!Init, StoreFacts!Init, Store!Absent, StoreFacts!Absent, Store!Quiet,
               StoreFacts!Quiet, Store!Doing, StoreFacts!Doing
<1>2. Store!Next <=> StoreFacts!Next
  BY Zenon DEF Store!Next, StoreFacts!Next, Store!Begin, StoreFacts!Begin, Store!Running,
               StoreFacts!Running, Store!Deleted, StoreFacts!Deleted, Store!Numbered,
               StoreFacts!Numbered, Store!Doing, StoreFacts!Doing, Store!disk,
               StoreFacts!disk, Store!budget, StoreFacts!budget, Store!Torn,
               StoreFacts!Torn, Store!Absent, StoreFacts!Absent, Store!Whole,
               StoreFacts!Whole, Store!Newline, StoreFacts!Newline, Store!AppendFails,
               StoreFacts!AppendFails, Store!Fault, StoreFacts!Fault, Store!Reject,
               StoreFacts!Reject, Store!Quiet, StoreFacts!Quiet, Store!Applied,
               StoreFacts!Applied, Store!Compact, StoreFacts!Compact, Store!Written,
               StoreFacts!Written, Store!Goes, StoreFacts!Goes, Store!Unlinked,
               StoreFacts!Unlinked, Store!Parked, StoreFacts!Parked, Store!Swapped,
               StoreFacts!Swapped, Store!Compacted, StoreFacts!Compacted, Store!SetToSeq,
               StoreFacts!SetToSeq, Store!Cardinality, StoreFacts!Cardinality,
               Store!IsInjective, StoreFacts!IsInjective, Store!Live, StoreFacts!Live,
               Store!Snapshot, StoreFacts!Snapshot, Store!SwapFails, StoreFacts!SwapFails,
               Store!Restored, StoreFacts!Restored, Store!Cleaned, StoreFacts!Cleaned,
               Store!LastSeq, StoreFacts!LastSeq, Store!Max, StoreFacts!Max,
               Store!CompactFails, StoreFacts!CompactFails, Store!Fails, StoreFacts!Fails,
               Store!Crash, StoreFacts!Crash, Store!RecoverBackup, StoreFacts!RecoverBackup,
               Store!RecoverTail, StoreFacts!RecoverTail, Store!Open, StoreFacts!Open,
               Store!Replay, StoreFacts!Replay, Store!Begins, StoreFacts!Begins
<1>3. UNCHANGED Store!vars <=> UNCHANGED StoreFacts!vars
  BY DEF Store!vars, StoreFacts!vars, Store!disk, StoreFacts!disk, Store!memory,
         StoreFacts!memory, Store!budget, StoreFacts!budget
<1>4. [Store!Next]_(Store!vars) => [StoreFacts!Next]_(StoreFacts!vars)
  BY <1>2, <1>3
<1> QED BY <1>1, <1>4, PTL DEF Store!Spec, StoreFacts!Spec

\* For any threads, events, failed steps and crashes the event log is a durable log,
\* while an append and the return of the backup do not fail halfway.
THEOREM StoreIsTheLog == ASSUME StoreFacts!Assumed PROVE Store!Spec => IsDurableLog
<1>1. StoreFacts!Promise!Init => Store!Promise!Init
  BY Zenon DEF Store!Promise!Init, StoreFacts!Promise!Init, Store!Stored, StoreFacts!Stored,
               Store!Replay, StoreFacts!Replay, Store!Begins, StoreFacts!Begins,
               Store!Absent, StoreFacts!Absent, Store!Running, StoreFacts!Running
<1>2. StoreFacts!Promise!Next => Store!Promise!Next
  BY Zenon DEF Store!Promise!Next, StoreFacts!Promise!Next, Store!Promise!Delete,
               StoreFacts!Promise!Delete, Store!Promise!Store, StoreFacts!Promise!Store,
               Store!Promise!Cardinality, StoreFacts!Promise!Cardinality,
               Store!Promise!Show, StoreFacts!Promise!Show, Store!Promise!Crash,
               StoreFacts!Promise!Crash, Store!Promise!Reopen, StoreFacts!Promise!Reopen,
               Store!Stored, StoreFacts!Stored, Store!Replay, StoreFacts!Replay,
               Store!Begins, StoreFacts!Begins, Store!Absent, StoreFacts!Absent,
               Store!Running, StoreFacts!Running
<1>3. UNCHANGED StoreFacts!Promise!vars => UNCHANGED Store!Promise!vars
  BY Zenon DEF Store!Promise!vars, StoreFacts!Promise!vars, Store!Stored, StoreFacts!Stored,
               Store!Replay, StoreFacts!Replay, Store!Begins, StoreFacts!Begins,
               Store!Absent, StoreFacts!Absent, Store!Running, StoreFacts!Running
<1>4. [StoreFacts!Promise!Next]_(StoreFacts!Promise!vars) =>
        [Store!Promise!Next]_(Store!Promise!vars)
  BY <1>2, <1>3
<1>5. StoreFacts!IsDurableLog => IsDurableLog
  BY <1>1, <1>4, PTL DEF IsDurableLog, StoreFacts!IsDurableLog, Store!IsDurableLog,
                         StoreFacts!Promise!Spec, Store!Promise!Spec
<1> QED BY <1>5, StoreBehaviours, StoreFacts!IsTheLog, PTL

-----------------------------------------------------------------------------
(* The run: each of its parts is a behaviour of that part's specification.  *)

\* A part that is not the run's own stays as it began, which its specification
\* allows.
LEMMA ServerBehaviours ==
  ServerSpec => /\ Spec /\ Store!Spec /\ Creation!Spec /\ Policy!Spec /\ Schedule!Spec
                /\ Background!Spec /\ Ingestion!Spec
<1>1. ServerInit => /\ Init /\ Store!Init /\ Creation!Init /\ Policy!Init /\ Schedule!Init
                    /\ Background!Init /\ Ingestion!Init
  BY DEF ServerInit
<1>2. ASSUME [ServerNext]_ServerVars
      PROVE  /\ [Next]_vars /\ [Store!Next]_(Store!vars) /\ [Creation!Next]_(Creation!vars)
             /\ [Policy!Next]_(Policy!vars) /\ [Schedule!Next]_(Schedule!vars)
             /\ [Background!Next]_(Background!vars) /\ [Ingestion!Next]_(Ingestion!vars)
  <2>1. /\ UNCHANGED storeVars => UNCHANGED Store!vars
        /\ UNCHANGED creationVars => UNCHANGED Creation!vars
        /\ UNCHANGED policyVars => UNCHANGED Policy!vars
        /\ UNCHANGED scheduleVars => UNCHANGED Schedule!vars
        /\ UNCHANGED taskVars => UNCHANGED Background!vars
        /\ UNCHANGED ingestionVars => UNCHANGED Ingestion!vars
    BY DEF storeVars, Store!vars, Store!disk, Store!memory, Store!budget, creationVars,
           Creation!vars, Creation!parts, Creation!world, policyVars, Policy!vars,
           scheduleVars, Schedule!vars, taskVars, Background!vars, Background!log,
           ingestionVars, Ingestion!vars, Ingestion!buffers, Ingestion!owner
  <2>2. CASE UNCHANGED ServerVars
    BY <2>1, <2>2 DEF ServerVars
  <2>3. CASE ServerNext
    <3>1. [Next]_vars
      BY <2>3 DEF ServerNext, Only
    <3>2. [Store!Next]_(Store!vars)
      BY <2>1, <2>3 DEF ServerNext, Only
    <3>3. [Creation!Next]_(Creation!vars)
      BY <2>1, <2>3 DEF ServerNext, Only
    <3>4. [Policy!Next]_(Policy!vars)
      BY <2>1, <2>3 DEF ServerNext, Only
    <3>5. [Schedule!Next]_(Schedule!vars)
      BY <2>1, <2>3 DEF ServerNext, Only
    <3>6. [Background!Next]_(Background!vars)
      BY <2>1, <2>3 DEF ServerNext, Only
    <3>7. [Ingestion!Next]_(Ingestion!vars)
      BY <2>1, <2>3 DEF ServerNext, Only
    <3> QED BY <3>1, <3>2, <3>3, <3>4, <3>5, <3>6, <3>7
  <2> QED BY <1>2, <2>2, <2>3
<1> QED BY <1>1, <1>2, PTL DEF ServerSpec, Spec, Store!Spec, Creation!Spec, Policy!Spec,
   Schedule!Spec, Background!Spec, Ingestion!Spec

\* What the run checks of these parts holds for every value of its constants, each
\* with the exceptions its own comment names.
THEOREM ServerIsSafe ==
  ASSUME PolicyNamed, ScheduleNamed, CreationNamed, StoreFacts!Assumed,
         TaskLimits, None \notin TaskThreads, IngestionNamed
  PROVE  ServerSpec => /\ []Exclusion /\ []LeasesDisjoint
                       /\ []NothingIsCutOff /\ []UpdateIsQuiet
                       /\ []SlotsRunOnce /\ []OneSessionEach /\ IsDurableLog
                       /\ []TasksAreBounded /\ []StoredInOrder
BY ServerBehaviours, GitExcludesTurns, GitExcludesGit, WorkIsNotCutOff, UpdatesAreQuiet,
   SlotsAreRunOnce, SessionsAreMadeOnce, StoreIsTheLog, TasksStayBounded,
   OutputIsInOrder, PTL

=============================================================================
