--------------------------- MODULE TurnQueueProofs --------------------------
(***************************************************************************)
(* The safety of TurnQueue for any prompts, handlers and bounds.  IInv has *)
(* the types and what makes a submission run at most once and only when    *)
(* accepted; the layers on top of it, all together Safe, what keeps it on  *)
(* disk, dropped prompts out, and the turns and calls of the agent in      *)
(* order.  The lemmas named ...Steps say how any step changes one variable *)
(* and which handler does it, so that a layer is kept case by case of what *)
(* changed, not action by action.                                          *)
(***************************************************************************)
EXTENDS TurnQueue, SequenceTheorems, TLAPS

-----------------------------------------------------------------------------
(* Queues as sequences without repetition *)

\* The first element of a queue is one of its elements.
LEMMA HeadInQueue ==
  ASSUME NEW q \in Seq(Prompts), q # <<>>
  PROVE  Head(q) \in Prompts /\ Head(q) \in ToSet(q)
BY DEF ToSet

\* Appending a prompt that does not wait keeps the queue without repetition.
LEMMA AppendPrompt ==
  ASSUME NEW q \in Seq(Prompts), IsInjective(q), NEW i \in Prompts, i \notin ToSet(q)
  PROVE  /\ Append(q, i) \in Seq(Prompts) /\ IsInjective(Append(q, i))
         /\ ToSet(Append(q, i)) = ToSet(q) \cup {i}
<1>1. Append(q, i) \in Seq(Prompts) /\ Len(Append(q, i)) = Len(q) + 1
  OBVIOUS
<1>2. \A k \in 1..Len(q) : Append(q, i)[k] = q[k]
  OBVIOUS
<1>3. Append(q, i)[Len(q) + 1] = i
  OBVIOUS
<1>4. IsInjective(Append(q, i))
  BY <1>1, <1>2, <1>3 DEF IsInjective, ToSet
<1>5. ToSet(Append(q, i)) = ToSet(q) \cup {i}
  BY <1>1, <1>2, <1>3 DEF ToSet
<1> QED BY <1>1, <1>4, <1>5

\* So does putting it first.
LEMMA ConsPrompt ==
  ASSUME NEW q \in Seq(Prompts), IsInjective(q), NEW i \in Prompts, i \notin ToSet(q)
  PROVE  /\ Cons(i, q) \in Seq(Prompts) /\ IsInjective(Cons(i, q))
         /\ ToSet(Cons(i, q)) = ToSet(q) \cup {i}
<1>1. Cons(i, q) \in Seq(Prompts) /\ Len(Cons(i, q)) = Len(q) + 1
  BY DEF Cons
<1>2. \A k \in 1..Len(q) : Cons(i, q)[k + 1] = q[k]
  BY DEF Cons
<1>3. Cons(i, q)[1] = i
  BY DEF Cons
<1>4. \A k \in 2..Len(q) + 1 : Cons(i, q)[k] = q[k - 1]
  BY <1>2
<1>5. IsInjective(Cons(i, q))
  <2> DEFINE c == Cons(i, q)
  <2>1. \A k \in 1..Len(q) : q[k] # i
    BY DEF ToSet
  <2>2. /\ DOMAIN c = 1..Len(q) + 1 /\ c[1] = i
        /\ \A k \in 2..Len(q) + 1 : c[k] = q[k - 1] /\ k - 1 \in 1..Len(q)
    BY <1>1, <1>3, <1>4
  <2> HIDE DEF c
  <2>3. IsInjective(c)
    BY <2>1, <2>2 DEF IsInjective
  <2> QED BY <2>3 DEF c
<1>6. ToSet(Cons(i, q)) = ToSet(q) \cup {i}
  <2>1. ASSUME NEW x \in ToSet(Cons(i, q)) PROVE x \in ToSet(q) \cup {i}
    BY <1>1, <1>3, <1>4 DEF ToSet
  <2>2. ASSUME NEW k \in 1..Len(q) PROVE q[k] \in ToSet(Cons(i, q))
    <3>1. k + 1 \in DOMAIN Cons(i, q) /\ Cons(i, q)[k + 1] = q[k]
      BY <1>1, <1>2
    <3> QED BY <3>1 DEF ToSet
  <2>3. i \in ToSet(Cons(i, q))
    BY <1>1, <1>3 DEF ToSet
  <2> QED BY <2>1, <2>2, <2>3 DEF ToSet
<1> QED BY <1>1, <1>5, <1>6

\* Taking a prompt out leaves the others, in a queue without repetition.
LEMMA WithoutPrompt ==
  ASSUME NEW q \in Seq(Prompts), IsInjective(q), NEW i
  PROVE  /\ Without(q, i) \in Seq(Prompts) /\ IsInjective(Without(q, i))
         /\ ToSet(Without(q, i)) = ToSet(q) \ {i}
<1>1. CASE i \notin ToSet(q)
  BY <1>1 DEF Without
<1>2. CASE i \in ToSet(q)
  <2> DEFINE n == CHOOSE k \in DOMAIN q : q[k] = i
             w == RemoveAt(q, n)
  <2>1. n \in 1..Len(q) /\ q[n] = i
    BY <1>2 DEF ToSet
  <2>2. Without(q, i) = w
    BY <1>2 DEF Without
  <2> HIDE DEF n
  <2> DEFINE before == SubSeq(q, 1, n - 1)
             after == SubSeq(q, n + 1, Len(q))
  <2>a. w = before \o after
    BY DEF RemoveAt
  <2>b. /\ before \in Seq(Prompts) /\ Len(before) = n - 1
        /\ \A k \in 1..n - 1 : before[k] = q[k]
    BY <2>1
  <2>c. /\ after \in Seq(Prompts) /\ Len(after) = Len(q) - n
        /\ \A k \in 1..Len(q) - n : after[k] = q[k + n]
    BY <2>1
  <2> HIDE DEF before, after, w
  <2>3. w \in Seq(Prompts) /\ Len(w) = Len(q) - 1
    <3>1. before \in Seq(Prompts) /\ after \in Seq(Prompts)
      BY <2>b, <2>c
    <3>2. w \in Seq(Prompts) /\ Len(w) = Len(before) + Len(after)
      BY <3>1, <2>a, ConcatProperties
    <3>3. Len(w) = n - 1 + (Len(q) - n)
      BY <3>2, <2>b, <2>c
    <3> QED BY <3>2, <3>3, <2>1
  <2>4. \A k \in 1..Len(q) - 1 : w[k] = IF k < n THEN q[k] ELSE q[k + 1]
    <3> TAKE k \in 1..Len(q) - 1
    <3>1. CASE k < n
      BY <3>1, <2>1, <2>a, <2>b, <2>c
    <3>2. CASE k >= n
      <4>1. k - (n - 1) \in 1..Len(q) - n /\ k - (n - 1) + n = k + 1
        BY <3>2, <2>1
      <4>2. w[k] = after[k - (n - 1)]
        BY <3>2, <2>1, <2>a, <2>b, <2>c
      <4> QED BY <3>2, <4>1, <4>2, <2>1, <2>c
    <3> QED BY <3>1, <3>2, <2>1
  <2>d. DOMAIN w = 1..Len(q) - 1 /\ DOMAIN q = 1..Len(q)
    BY <2>3
  <2>5. IsInjective(w)
    <3> DEFINE m(k) == IF k < n THEN k ELSE k + 1
    <3>1. \A k \in DOMAIN w : m(k) \in DOMAIN q /\ w[k] = q[m(k)]
      BY <2>1, <2>d, <2>4
    <3>2. \A k, l \in DOMAIN w : m(k) = m(l) => k = l
      BY <2>1, <2>d
    <3> HIDE DEF m
    <3> QED BY <3>1, <3>2 DEF IsInjective
  <2>6. \A k \in 1..Len(w) : w[k] \in ToSet(q) \ {i}
    <3> TAKE k \in 1..Len(w)
    <3>1. PICK m \in 1..Len(q) : w[k] = q[m] /\ m # n
      BY <2>1, <2>3, <2>4
    <3> QED BY <3>1, <2>1, <2>d DEF IsInjective, ToSet
  <2>7. ASSUME NEW k \in 1..Len(q), q[k] # i PROVE q[k] \in ToSet(w)
    <3>1. CASE k < n
      BY <3>1, <2>1, <2>3, <2>4 DEF ToSet
    <3>2. CASE k > n
      <4>1. k - 1 \in 1..Len(w) /\ w[k - 1] = q[k]
        BY <3>2, <2>1, <2>3, <2>4
      <4> QED BY <4>1 DEF ToSet
    <3> QED BY <3>1, <3>2, <2>1, <2>7
  <2> QED BY <2>2, <2>3, <2>5, <2>6, <2>7 DEF ToSet
<1> QED BY <1>1, <1>2
-----------------------------------------------------------------------------
(* The inductive invariant *)

InsertStage == {"gate", "insert", "accept", "rollback"}
Ran == {"started", "completed"}

\* While the server is down nothing runs, and nothing but a recovered queue is
\* there before it is loaded.
Quiet ==
  ~Running =>
    /\ starting = NotStarting /\ lease = FALSE /\ runtime = "closed"
    /\ writes = <<>> /\ appends = <<>>
    /\ \A h \in Handlers : delivery[h] = "none"
    /\ \A h \in Handlers : request[h].stage = "idle"
    /\ \A i \in Prompts : prompt[i] = "none"

\* No snapshot on its way to the disk holds a prompt twice.
WritesOK(ws) == ws \in Seq(Write) /\ \A k \in DOMAIN ws : IsInjective(ws[k].items)

\* The insertion gate: who inserts what, and what the queue holds of it.
Insertions ==
  /\ \A h \in Handlers : request[h].stage \in InsertStage =>
       /\ request[h].item \in Prompts
       /\ request[h].item \in Tracked => receipt[request[h].item] = "none"
       /\ request[h].stage \in {"gate", "rollback"} => request[h].item \notin Queued
       /\ request[h].stage = "accept" => request[h].item \in Tracked
  /\ \A g, h \in Handlers :
       /\ g # h
       /\ request[g].stage \in InsertStage /\ request[h].stage \in InsertStage
       => request[g].item # request[h].item

\* A submission that waits is being inserted or accepted, and has not run.
WaitingOK(q, rc, r) ==
  \A i \in Tracked : i \in ToSet(q) =>
    (rc[i] # "none" \/ i \in Inserting(r)) /\ rc[i] \notin Ran

\* The admission holds a prompt exactly while it is under way; the receipt of
\* that prompt says on which side of TurnStarted it is, and nothing is admitted
\* that was handed over before.
AdmissionOK(adm, rc, given) ==
  /\ adm \in Starting
  /\ adm.stage = "none" <=> adm.item = None
  /\ adm.item \in Tracked =>
       IF adm.stage \in {"persist", "abort"}
       THEN rc[adm.item] \in Ran
       ELSE rc[adm.item] \notin Ran \cup {"none"}
  /\ \A i \in Tracked : given[i] > 0 => adm.item # i

\* What was handed over, or is active, has been started for good.
HandedOver(rc, given) ==
  \A i \in Tracked : given[i] <= 1 /\ (given[i] > 0 => rc[i] \in Ran)

IInv ==
  /\ TypeOK /\ Quiet
  /\ WritesOK(writes)
  /\ Insertions
  /\ Running => WaitingOK(queue, receipt, request)
  /\ AdmissionOK(starting, receipt, dispatched)
  /\ HandedOver(receipt, dispatched)
  /\ active \in Tracked => receipt[active] \in Ran

-----------------------------------------------------------------------------
(* What the helpers of the model preserve *)

\* persistQueues adds a snapshot of a queue without repetition.
LEMMA PersistWrites ==
  ASSUME NEW ws, WritesOK(ws), NEW owner \in Handlers \cup {Starter},
         NEW q \in Seq(Prompts), IsInjective(q)
  PROVE  WritesOK(Persist(ws, owner, q))
<1> DEFINE w == [owner |-> owner, items |-> q, fresh |-> TRUE]
<1>1. w \in Write /\ w.items = q
  BY DEF Write
<1>2. ws \in Seq(Write)
  BY DEF WritesOK
<1> HIDE DEF w
<1>3. Append(ws, w) \in Seq(Write)
  BY <1>1, <1>2
<1>4. \A k \in DOMAIN Append(ws, w) : IsInjective(Append(ws, w)[k].items)
  BY <1>1, <1>2 DEF WritesOK
<1> QED BY <1>3, <1>4 DEF WritesOK, Persist, w

\* The oldest snapshot has no repetition, and neither has any that is left.
LEMMA NextWritesOK ==
  ASSUME WritesOK(writes), writes # <<>>, NEW q \in Seq(Prompts), IsInjective(q),
         NEW failed \in BOOLEAN
  PROVE  /\ Head(writes).items \in Seq(Prompts) /\ IsInjective(Head(writes).items)
         /\ WritesOK(NextWrites(q, failed))
<1> DEFINE n == Len(writes) - 1
           rest == [k \in DOMAIN Tail(writes) |->
                      [Tail(writes)[k] EXCEPT !.fresh = @ /\ ~failed]]
<1>1. writes \in Seq(Write) /\ Len(writes) \in Nat \ {0}
  BY DEF WritesOK
<1>2. Head(writes).items \in Seq(Prompts) /\ IsInjective(Head(writes).items)
  <2>1. Head(writes) = writes[1] /\ 1 \in DOMAIN writes
    BY <1>1
  <2>2. writes[1] \in Write /\ IsInjective(writes[1].items)
    BY <2>1, <1>1 DEF WritesOK
  <2> QED BY <2>1, <2>2 DEF Write
<1>3. n \in Nat /\ DOMAIN Tail(writes) = 1..n
  BY <1>1
<1>4. ASSUME NEW k \in 1..n
      PROVE  rest[k] \in Write /\ IsInjective(rest[k].items)
  <2>1. Tail(writes)[k] = writes[k + 1] /\ k + 1 \in DOMAIN writes
    BY <1>1
  <2>2. writes[k + 1] \in Write /\ IsInjective(writes[k + 1].items)
    BY <2>1, <1>1 DEF WritesOK
  <2>3. rest[k] = [writes[k + 1] EXCEPT !.fresh = @ /\ ~failed]
    BY <2>1, <1>3
  <2> QED BY <2>2, <2>3 DEF Write
<1>5. rest \in Seq(Write) /\ DOMAIN rest = 1..n
  <2>1. rest \in [1..n -> Write]
    BY <1>3, <1>4
  <2> QED BY <2>1, <1>3
<1>6. WritesOK(rest)
  BY <1>4, <1>5 DEF WritesOK
<1> HIDE DEF rest
<1>7. ASSUME rest # <<>>
      PROVE  WritesOK([rest EXCEPT ![1] = [@ EXCEPT !.items = q, !.fresh = TRUE]])
  <2> DEFINE w == [rest[1] EXCEPT !.items = q, !.fresh = TRUE]
             new == [rest EXCEPT ![1] = w]
  <2>1. 1 \in 1..n
    BY <1>5, <1>3, <1>7
  <2>2. w \in Write /\ IsInjective(w.items)
    <3>1. rest[1] \in Write
      BY <2>1, <1>5
    <3>2. w \in Write
      BY <3>1 DEF Write
    <3>3. w.items = q
      BY <3>1 DEF Write
    <3> QED BY <3>2, <3>3
  <2> HIDE DEF w
  <2>3. new \in Seq(Write) /\ DOMAIN new = 1..n
    BY <2>1, <2>2, <1>5, <1>3
  <2>4. \A k \in 1..n : IsInjective(new[k].items)
    BY <2>2, <1>5, <1>6 DEF WritesOK
  <2> QED BY <2>3, <2>4 DEF WritesOK, w
<1> QED BY <1>2, <1>6, <1>7 DEF NextWrites, rest

\* runNextQueued admits the head of the queue, or nothing.
LEMMA Next1Admits ==
  ASSUME NEW q \in Seq(Prompts), NEW turn, NEW adm, NEW cancel, NEW r, NEW rc, NEW given,
         WaitingOK(q, rc, r), AdmissionOK(adm, rc, given), HandedOver(rc, given)
  PROVE  AdmissionOK(Next1(q, turn, adm, cancel, r), rc, given)
<1> DEFINE new == [item |-> Head(q), stage |-> "lease", cancelled |-> FALSE,
                   restart |-> FALSE, outdated |-> FALSE]
<1>1. CASE Next1(q, turn, adm, cancel, r) = adm
  BY <1>1
<1>2. CASE /\ Next1(q, turn, adm, cancel, r) = new
           /\ q # <<>> /\ Head(q) \notin Inserting(r)
  <2>1. Head(q) \in Prompts /\ Head(q) \in ToSet(q)
    BY <1>2, HeadInQueue
  <2>2. new \in Starting /\ new.item # None
    BY <2>1, QueueAssumption DEF Starting, StartStage
  <2>3. ASSUME Head(q) \in Tracked PROVE rc[Head(q)] \notin Ran \cup {"none"}
    BY <2>1, <2>3, <1>2 DEF WaitingOK
  <2>4. \A i \in Tracked : given[i] > 0 => Head(q) # i
    BY <2>3 DEF HandedOver
  <2> QED BY <1>2, <2>2, <2>3, <2>4 DEF AdmissionOK
<1> QED BY <1>1, <1>2 DEF Next1, NotStarting

\* Who is at the insertion gate.
LEMMA InsertingIff ==
  ASSUME NEW r, NEW i
  PROVE  i \in Inserting(r) <=> \E g \in Handlers : r[g].stage \in InsertStage /\ r[g].item = i
BY DEF Inserting, InsertStage

\* What a handler that goes on changes at the gate.
LEMMA GateKept ==
  ASSUME NEW r, NEW r2, NEW h \in Handlers,
         \A g \in Handlers \ {h} : r2[g].stage = r[g].stage /\ r2[g].item = r[g].item
  PROVE  /\ \A j : j \in Inserting(r) => j \in Inserting(r2) \/ j = r[h].item
         /\ r[h].stage \notin InsertStage \/ (r2[h].stage \in InsertStage /\ r2[h].item = r[h].item)
              => \A j : j \in Inserting(r) => j \in Inserting(r2)
BY InsertingIff

\* What waits still does if the queue, the receipts and the gate agree on it.
LEMMA WaitingKept ==
  ASSUME NEW q, NEW rc, NEW r, WaitingOK(q, rc, r), NEW q2, NEW rc2, NEW r2,
         ToSet(q2) \subseteq ToSet(q),
         \A i \in Tracked : i \in ToSet(q2) =>
           /\ rc2[i] = "none" => rc[i] = "none"
           /\ rc2[i] \in Ran => rc[i] \in Ran,
         \A i \in Tracked : i \in Inserting(r) => i \in Inserting(r2) \/ i \notin ToSet(q2)
  PROVE  WaitingOK(q2, rc2, r2)
BY DEF WaitingOK

\* A step that leaves the gate alone and adds nothing to the queue.
LEMMA GateSame ==
  ASSUME Insertions, ToSet(queue') \subseteq ToSet(queue),
         \A g \in Handlers :
           /\ request'[g].stage \in InsertStage <=> request[g].stage \in InsertStage
           /\ request[g].stage \in InsertStage =>
                request'[g].stage = request[g].stage /\ request'[g].item = request[g].item,
         \A i \in Tracked :
           /\ receipt[i] = "none" <=> receipt'[i] = "none"
           /\ i \in ToSet(queue') /\ receipt'[i] \in Ran => receipt[i] \in Ran
  PROVE  /\ Insertions'
         /\ WaitingOK(queue, receipt, request) => WaitingOK(queue', receipt', request')
<1>1. \A j : j \in Inserting(request) => j \in Inserting(request')
  BY InsertingIff
<1>2. WaitingOK(queue, receipt, request) => WaitingOK(queue', receipt', request')
  BY <1>1, WaitingKept
<1>3. Insertions'
  BY DEF Insertions, Queued
<1> QED BY <1>2, <1>3

\* The admission stays on its side of TurnStarted.
LEMMA AdmissionKept ==
  ASSUME NEW adm, NEW rc, NEW given, AdmissionOK(adm, rc, given),
         NEW adm2 \in Starting, adm2.item = adm.item,
         adm2.stage = "none" <=> adm.stage = "none",
         adm2.stage \in {"persist", "abort"} <=> adm.stage \in {"persist", "abort"},
         NEW rc2, \A i \in Tracked : /\ rc2[i] = "none" => rc[i] = "none"
                                     /\ rc2[i] \in Ran <=> rc[i] \in Ran
  PROVE  AdmissionOK(adm2, rc2, given)
BY DEF AdmissionOK

\* So it does when receipts change on their side.
LEMMA AdmissionReceipts ==
  ASSUME NEW adm, NEW rc, NEW given, AdmissionOK(adm, rc, given),
         NEW rc2, \A i \in Tracked : /\ rc2[i] = "none" => rc[i] = "none"
                                     /\ rc2[i] \in Ran <=> rc[i] \in Ran
  PROVE  AdmissionOK(adm, rc2, given)
BY DEF AdmissionOK

\* Its flags do not matter for that.
LEMMA FlagsKept ==
  ASSUME NEW adm, NEW rc, NEW given, AdmissionOK(adm, rc, given)
  PROVE  /\ AdmissionOK([adm EXCEPT !.restart = TRUE], rc, given)
         /\ AdmissionOK([adm EXCEPT !.cancelled = TRUE], rc, given)
         /\ AdmissionOK([adm EXCEPT !.outdated = TRUE], rc, given)
         /\ AdmissionOK([adm EXCEPT !.cancelled = TRUE, !.restart = TRUE], rc, given)
BY DEF AdmissionOK, Starting

\* No admission is always in order.
LEMMA NoAdmission ==
  ASSUME NEW rc, NEW given
  PROVE  AdmissionOK(NotStarting, rc, given)
BY QueueAssumption DEF AdmissionOK, NotStarting, Starting, StartStage

\* Whoever is under way runs in a server that is up.
LEMMA Busy ==
  ASSUME IInv
  PROVE  /\ \A h \in Handlers : request[h].stage # "idle" => Running
         /\ starting.stage # "none" => Running
         /\ \A i \in Prompts : prompt[i] # "none" => Running
         /\ lease \/ runtime # "closed" => Running
         /\ \A h \in Handlers : delivery[h] # "none" => Running
BY DEF IInv, Quiet, NotStarting

\* A handler goes on: the others keep their state.
LEMMA HandlerMoves ==
  ASSUME TypeOK, NEW h \in Handlers, NEW x \in Request,
         request' = [request EXCEPT ![h] = x]
  PROVE  /\ request' \in [Handlers -> Request] /\ request'[h] = x
         /\ \A g \in Handlers \ {h} : request'[g] = request[g]
BY DEF TypeOK

\* A handler goes on within its request.
LEMMA StageMoves ==
  ASSUME TypeOK, NEW h \in Handlers, NEW s \in RequestStage,
         request' = [request EXCEPT ![h].stage = s]
  PROVE  /\ request' \in [Handlers -> Request]
         /\ request'[h] = [request[h] EXCEPT !.stage = s]
         /\ request'[h].stage = s /\ request'[h].item = request[h].item
         /\ \A g \in Handlers \ {h} : request'[g] = request[g]
<1>1. [request[h] EXCEPT !.stage = s] \in Request
  BY DEF TypeOK, Request
<1> QED BY <1>1 DEF TypeOK, Request

\* A handler that is done.
LEMMA IdleRequest == Idle \in Request /\ Idle.stage = "idle"
BY DEF Idle, Request, RequestStage, RequestKind

\* The queue of appends keeps its type.
AppendsOK(a) == a \in Seq(Handlers \cup Prompts \cup {Starter})

\* An append joins it, and the oldest one leaves it.
LEMMA AppendsTypes ==
  ASSUME NEW a, AppendsOK(a), NEW o \in Handlers \cup Prompts \cup {Starter}
  PROVE  AppendsOK(Append(a, o)) /\ (a # <<>> => AppendsOK(Tail(a)))
BY DEF AppendsOK

\* A fault or a request stays within its bound.
LEMMA Budgets ==
  ASSUME TypeOK
  PROVE  /\ WriteFault => writeFaults' \in 0..MaxWriteFaults
         /\ Fault => faults' \in 0..MaxFaults
         /\ Ask => asks' \in 0..MaxAsks
<1>1. /\ MaxWriteFaults \in Nat /\ MaxFaults \in Nat /\ MaxAsks \in Nat
  BY QueueAssumption
<1>2. writeFaults \in 0..MaxWriteFaults /\ faults \in 0..MaxFaults /\ asks \in 0..MaxAsks
  BY DEF TypeOK
<1>3. WriteFault => writeFaults' \in 0..MaxWriteFaults
  BY <1>1, <1>2 DEF WriteFault
<1>4. Fault => faults' \in 0..MaxFaults
  BY <1>1, <1>2 DEF Fault
<1>5. Ask => asks' \in 0..MaxAsks
  BY <1>1, <1>2 DEF Ask
<1> QED BY <1>3, <1>4, <1>5

-----------------------------------------------------------------------------
(* Every action preserves the invariant *)

\* A request that arrives only takes a slot at the gate.
LEMMA SendStep ==
  ASSUME IInv, NEW h \in Handlers, NEW i \in Prompts, NEW mode \in {"send", "steer"},
         Send(h, i, mode)
  PROVE  IInv'
<1> USE DEF IInv, Send
<1>1. TypeOK'
  BY DEF TypeOK, Request, RequestStage, RequestKind, Idle, durable, budget
<1>2. Quiet'
  BY DEF Quiet, Running, Idle, durable, budget
<1>3. Insertions'
  BY DEF Insertions, InsertStage, Inserting, Idle, Unanswered, Queued, durable, budget, TypeOK
<1>4. WaitingOK(queue', receipt', request')
  <2>1. \A j : j \in Inserting(request) => j \in Inserting(request')
    <3>1. \A g \in Handlers \ {h} : request'[g] = request[g]
      BY DEF TypeOK
    <3>2. request[h].stage = "idle"
      BY DEF Idle
    <3> HIDE DEF Send, IInv
    <3> QED BY <3>1, <3>2, GateKept DEF InsertStage
  <2> QED BY <2>1, WaitingKept DEF durable, Running
<1> QED
  BY <1>1, <1>2, <1>3, <1>4 DEF durable, TypeOK

\* At the gate the prompt joins the queue, last or first.
LEMMA InsertStep ==
  ASSUME IInv, NEW h \in Handlers, Insert(h)
  PROVE  IInv'
<1> USE DEF IInv
<1> DEFINE i == request[h].item
<1>0. /\ \A g \in Handlers \ {h} : request'[g] = request[g]
      /\ request[h].stage = "gate" /\ request'[h].stage = "insert" /\ request'[h].item = i
      /\ request'[h] \in Request /\ request' \in [Handlers -> Request]
  <2>1. request[h] \in Request /\ request[h].stage = "gate"
    BY DEF TypeOK, Insert
  <2>2. active \in Prompts \cup {None}
    BY DEF TypeOK
  <2> DEFINE t == request'[h].turn
             f == request'[h].ref
  <2> QED BY <2>1, <2>2 DEF Insert, TypeOK, Request, RequestStage
<1>1. i \in Prompts /\ i \notin Queued /\ queue \in Seq(Prompts) /\ IsInjective(queue)
  BY DEF Insert, Insertions, InsertStage, TypeOK
<1>2. /\ queue' \in Seq(Prompts) /\ IsInjective(queue')
      /\ ToSet(queue') = Queued \cup {i}
  BY <1>1, AppendPrompt, ConsPrompt DEF Insert, Queued
<1>3. WritesOK(writes') /\ writes' \in Seq(Write)
  BY <1>2, PersistWrites DEF Insert, WritesOK
<1>4. TypeOK'
  BY <1>0, <1>2, <1>3 DEF Insert, TypeOK, durable, history, budget
<1>5. Quiet'
  BY DEF Insert, Quiet, Running, durable, budget
<1>6. Insertions'
  BY <1>1, <1>2 DEF Insert, Insertions, InsertStage, Queued, durable, TypeOK
<1>7. WaitingOK(queue', receipt', request')
  <2>1. \A j : j \in Inserting(request) => j \in Inserting(request')
    BY <1>0, GateKept DEF InsertStage
  <2>2. receipt[i] = "none" \/ i \notin Tracked
    BY DEF Insert, Insertions, InsertStage
  <2>3. i \in Inserting(request')
    BY <1>0, InsertingIff DEF InsertStage
  <2> QED BY <1>2, <2>1, <2>2, <2>3 DEF WaitingOK, Queued, Insert, durable, Running, Quiet, Ran
<1> QED
  BY <1>3, <1>4, <1>5, <1>6, <1>7 DEF Insert, durable, history

-----------------------------------------------------------------------------
(* Placed, Restart, Finish and Detach *)

\* A handler that placed its prompt leaves the gate; it cancels a turn or is
\* done.
LEMMA PlacedMoves ==
  ASSUME TypeOK, NEW h \in Handlers, NEW pending, AppendsOK(pending), Placed(h, pending)
  PROVE  /\ request' \in [Handlers -> Request] /\ AppendsOK(appends')
         /\ request'[h].stage \in {"stopping", "idle"}
         /\ \A g \in Handlers \ {h} : request'[g] = request[g]
<1>1. CASE request[h].turn # None
  <2>1. request' = [request EXCEPT ![h].stage = "stopping"] /\ appends' = Append(pending, h)
    BY <1>1 DEF Placed
  <2> QED BY <2>1, StageMoves, AppendsTypes DEF RequestStage
<1>2. CASE request[h].turn = None
  <2>1. request' = [request EXCEPT ![h] = Idle] /\ appends' = pending
    BY <1>2 DEF Placed
  <2> QED BY <2>1, HandlerMoves, IdleRequest
<1> QED BY <1>1, <1>2

\* It starts the next prompt, or tells the admission to.
LEMMA PlacedStarts ==
  ASSUME NEW h \in Handlers, NEW pending, Placed(h, pending), queue \in Seq(Prompts),
         NEW rc, AdmissionOK(starting, rc, dispatched), WaitingOK(queue, rc, request'),
         HandedOver(rc, dispatched)
  PROVE  AdmissionOK(starting', rc, dispatched)
<1>1. CASE request[h].turn # None
  <2>1. starting' = starting
    BY <1>1 DEF Placed
  <2> QED BY <2>1
<1>2. CASE request[h].turn = None /\ request[h].ref = "live"
  <2>1. starting' = [starting EXCEPT !.cancelled = TRUE, !.restart = TRUE]
    BY <1>2 DEF Placed
  <2> QED BY <2>1, FlagsKept
<1>3. CASE request[h].turn = None /\ request[h].ref # "live"
  <2>1. starting' = Next1(queue, active, starting, cancelling, request')
    BY <1>3 DEF Placed
  <2> QED BY <2>1, Next1Admits
<1> QED BY <1>1, <1>2, <1>3

\* The restart a request asks for keeps the admission.
LEMMA RestartStarts ==
  ASSUME NEW h \in Handlers, NEW r, queue \in Seq(Prompts),
         NEW rc, AdmissionOK(starting, rc, dispatched), WaitingOK(queue, rc, r),
         HandedOver(rc, dispatched)
  PROVE  AdmissionOK(Restart(h, r), rc, dispatched)
BY FlagsKept, Next1Admits DEF Restart

\* The end of an admission makes the handles on it stale, and may start the next.
LEMMA FinishMoves ==
  ASSUME TypeOK, NEW q \in Seq(Prompts), NEW turn, Finish(q, turn)
  PROVE  /\ request' \in [Handlers -> Request]
         /\ \A g \in Handlers :
              request'[g].stage = request[g].stage /\ request'[g].item = request[g].item
         /\ \A rc, given : WaitingOK(q, rc, request') /\ HandedOver(rc, given) =>
              AdmissionOK(starting', rc, given)
<1>1. ASSUME NEW g \in Handlers
      PROVE  /\ request'[g] \in Request
             /\ request'[g].stage = request[g].stage /\ request'[g].item = request[g].item
  BY DEF Finish, TypeOK, Request
<1>2. request' \in [Handlers -> Request]
  BY <1>1 DEF Finish
<1>3. ASSUME NEW rc, NEW given, WaitingOK(q, rc, request'), HandedOver(rc, given)
      PROVE  AdmissionOK(starting', rc, given)
  <2>1. AdmissionOK(NotStarting, rc, given)
    BY NoAdmission
  <2>2. AdmissionOK(Next1(q, turn, NotStarting, cancelling, request'), rc, given)
    BY <1>3, <2>1, Next1Admits
  <2> QED BY <2>1, <2>2 DEF Finish
<1> QED BY <1>1, <1>2, <1>3

\* cancelThreadTurn returns.
LEMMA DetachMoves ==
  ASSUME TypeOK, NEW h \in Handlers, NEW turn, NEW pending, Detach(h, turn, pending)
  PROVE  /\ request' \in [Handlers -> Request] /\ appends' = pending
         /\ request'[h].stage = "settle"
         /\ \A g \in Handlers \ {h} : request'[g] = request[g]
         /\ \A rc : /\ queue \in Seq(Prompts) /\ AdmissionOK(starting, rc, dispatched)
                    /\ WaitingOK(queue, rc, request') /\ HandedOver(rc, dispatched)
                    => AdmissionOK(starting', rc, dispatched)
<1>1. request' = [request EXCEPT ![h].stage = "settle"] /\ appends' = pending
  BY DEF Detach
<1>2. ASSUME NEW rc, queue \in Seq(Prompts), AdmissionOK(starting, rc, dispatched),
             WaitingOK(queue, rc, request'), HandedOver(rc, dispatched)
      PROVE  AdmissionOK(starting', rc, dispatched)
  BY <1>2, FlagsKept, Next1Admits DEF Detach
<1> QED BY <1>1, <1>2, StageMoves DEF RequestStage

\* A receipt of a turn that ends.
LEMMA CompleteReceipt ==
  ASSUME NEW rc \in [Tracked -> ReceiptState], NEW i
  PROVE  /\ Complete(rc, i) \in [Tracked -> ReceiptState]
         /\ \A j \in Tracked : /\ Complete(rc, i)[j] = "none" <=> rc[j] = "none"
                               /\ Complete(rc, i)[j] \in Ran <=> rc[j] \in Ran
BY DEF Complete, Ran, ReceiptState

\* What the parts of the invariant say about types.
LEMMA PartTypes ==
  /\ \A ws : WritesOK(ws) => ws \in Seq(Write)
  /\ \A adm, rc, given : AdmissionOK(adm, rc, given) => adm \in Starting
  /\ \A a : AppendsOK(a) <=> a \in Seq(Handlers \cup Prompts \cup {Starter})
BY DEF WritesOK, AdmissionOK, AppendsOK

\* A handler leaves the gate: its prompt is accepted, untracked or not queued.
LEMMA GateLeft ==
  ASSUME Insertions, WaitingOK(queue, receipt, request), NEW h \in Handlers,
         request[h].stage \in InsertStage, request'[h].stage \notin InsertStage,
         \A g \in Handlers \ {h} : request'[g] = request[g],
         ToSet(queue') \subseteq ToSet(queue),
         \A i \in Tracked : i # request[h].item => receipt'[i] = receipt[i],
         request[h].item \in Tracked =>
           request[h].item \notin ToSet(queue') \/ receipt'[request[h].item] = "queued"
  PROVE  Insertions' /\ WaitingOK(queue', receipt', request')
<1>1. \A j : j \in Inserting(request) => j \in Inserting(request') \/ j = request[h].item
  BY GateKept
<1>2. ASSUME NEW i \in Tracked, i \in ToSet(queue')
      PROVE  (receipt'[i] # "none" \/ i \in Inserting(request')) /\ receipt'[i] \notin Ran
  <2>1. CASE i = request[h].item
    BY <1>2, <2>1 DEF Ran
  <2>2. CASE i # request[h].item
    BY <1>1, <1>2, <2>2 DEF WaitingOK
  <2> QED BY <2>1, <2>2
<1>3. Insertions'
  BY DEF Insertions, Queued
<1> QED BY <1>2, <1>3 DEF WaitingOK

\* A step of a running server that keeps every part keeps the invariant.
LEMMA StaysUp ==
  ASSUME Running, server' = server, TypeOK', WritesOK(writes'), Insertions',
         WaitingOK(queue', receipt', request'),
         AdmissionOK(starting', receipt', dispatched'), HandedOver(receipt', dispatched'),
         active' \in Tracked => receipt'[active'] \in Ran
  PROVE  IInv'
BY DEF IInv, Quiet, Running

\* The parts of the invariant in a state where some handler, admission or turn
\* is under way.
LEMMA Parts ==
  ASSUME IInv
  PROVE  /\ TypeOK /\ Insertions /\ WritesOK(writes) /\ HandedOver(receipt, dispatched)
         /\ AdmissionOK(starting, receipt, dispatched) /\ AppendsOK(appends)
         /\ queue \in Seq(Prompts) /\ IsInjective(queue)
         /\ receipt \in [Tracked -> ReceiptState]
         /\ active \in Tracked => receipt[active] \in Ran
         /\ Running => WaitingOK(queue, receipt, request)
BY PartTypes DEF IInv, TypeOK

-----------------------------------------------------------------------------
(* The steps of sendTurn *)

\* The insertion is on disk: it is accepted next, or placed at once.
LEMMA InsertWrittenStep ==
  ASSUME IInv, NEW h \in Handlers, InsertWritten(h)
  PROVE  IInv'
<1> DEFINE i == request[h].item
<1>1. /\ TypeOK /\ Insertions /\ WritesOK(writes) /\ HandedOver(receipt, dispatched)
      /\ AdmissionOK(starting, receipt, dispatched) /\ AppendsOK(appends)
  BY Parts
<1>2. /\ request[h].stage = "insert" /\ writes # <<>>
      /\ disk' = Head(writes).items /\ writes' = NextWrites(queue, FALSE)
      /\ UNCHANGED <<receipt, active, server, queue, delivery, cancelling, runtime, prompt,
                     signalled, lease, history, budget>>
  BY DEF InsertWritten, Writing
<1>3. Running /\ WaitingOK(queue, receipt, request)
  BY <1>2, Busy, Parts
<1>4. /\ disk' \in Seq(Prompts) /\ IsInjective(disk') /\ WritesOK(writes')
  BY <1>1, <1>2, NextWritesOK DEF TypeOK
<1>5. /\ request' \in [Handlers -> Request] /\ AppendsOK(appends')
      /\ Insertions' /\ AdmissionOK(starting', receipt', dispatched')
      /\ WaitingOK(queue', receipt', request')
  <2>1. CASE i \in Tracked
    <3>1. /\ request' = [request EXCEPT ![h].stage = "accept"]
          /\ appends' = Append(appends, h) /\ starting' = starting
      BY <2>1 DEF InsertWritten
    <3>2. /\ request' \in [Handlers -> Request] /\ AppendsOK(appends')
          /\ request'[h].stage = "accept" /\ request'[h].item = i
          /\ \A g \in Handlers \ {h} : request'[g] = request[g]
      BY <3>1, <1>1, StageMoves, AppendsTypes DEF RequestStage
    <3>3. \A j : j \in Inserting(request) => j \in Inserting(request')
      BY <3>2, <1>2, GateKept DEF InsertStage
    <3>4. WaitingOK(queue', receipt', request')
      BY <3>3, <1>2, <1>3, WaitingKept
    <3>5. Insertions'
      BY <3>2, <1>1, <1>2, <2>1 DEF Insertions, InsertStage, Queued
    <3> QED BY <3>1, <3>2, <3>4, <3>5, <1>1, <1>2 DEF history
  <2>2. CASE i \notin Tracked
    <3>1. Placed(h, appends)
      BY <2>2 DEF InsertWritten
    <3>2. /\ request' \in [Handlers -> Request] /\ AppendsOK(appends')
          /\ request'[h].stage \in {"stopping", "idle"}
          /\ \A g \in Handlers \ {h} : request'[g] = request[g]
      BY <3>1, <1>1, PlacedMoves
    <3>3. Insertions' /\ WaitingOK(queue', receipt', request')
      BY <3>2, <1>1, <1>2, <1>3, <2>2, GateLeft DEF InsertStage
    <3>4. AdmissionOK(starting', receipt, dispatched)
      BY <3>1, <3>3, <1>1, <1>2, PlacedStarts DEF TypeOK
    <3> QED BY <3>2, <3>3, <3>4, <1>2 DEF history
  <2> QED BY <2>1, <2>2
<1>6. TypeOK'
  BY <1>1, <1>2, <1>4, <1>5, PartTypes DEF TypeOK, history, budget
<1> QED BY <1>1, <1>2, <1>3, <1>4, <1>5, <1>6, StaysUp, Parts DEF history

\* The insertion could not be written: the prompt leaves the queue again.
LEMMA InsertFailsStep ==
  ASSUME IInv, NEW h \in Handlers, InsertFails(h)
  PROVE  IInv'
<1> DEFINE i == request[h].item
<1>1. /\ request[h].stage = "insert" /\ writes # <<>>
      /\ queue' = Without(queue, i) /\ writes' = NextWrites(queue', TRUE)
      /\ request' = [request EXCEPT ![h] = Idle]
      /\ starting' = Next1(queue', active, starting, cancelling, request')
      /\ WriteFault
      /\ UNCHANGED <<durable, server, appends, delivery, cancelling, runtime, prompt,
                     signalled, lease, history, faults, crashes, asks>>
  BY DEF InsertFails, Writing
<1>2. Running
  BY <1>1, Busy
<1>3. /\ queue' \in Seq(Prompts) /\ IsInjective(queue')
      /\ ToSet(queue') = ToSet(queue) \ {i}
  BY <1>1, Parts, WithoutPrompt
<1>4. WritesOK(writes')
  BY <1>1, <1>3, Parts, NextWritesOK
<1>5. /\ request' \in [Handlers -> Request] /\ request'[h].stage = "idle"
      /\ \A g \in Handlers \ {h} : request'[g] = request[g]
  BY <1>1, Parts, HandlerMoves, IdleRequest
<1>6. Insertions' /\ WaitingOK(queue', receipt', request')
  BY <1>1, <1>2, <1>3, <1>5, Parts, GateLeft DEF InsertStage, durable
<1>7. AdmissionOK(starting', receipt', dispatched')
  BY <1>1, <1>3, <1>6, Parts, Next1Admits DEF durable, history
<1>8. TypeOK'
  BY <1>1, <1>3, <1>4, <1>5, <1>7, Parts, PartTypes, Budgets
     DEF TypeOK, durable, history
<1> QED BY <1>1, <1>2, <1>4, <1>6, <1>7, <1>8, StaysUp, Parts DEF durable, history

\* The acceptance is in the log: a retry is answered from the receipt now.
LEMMA AcceptedStep ==
  ASSUME IInv, NEW h \in Handlers, Accepted(h)
  PROVE  IInv'
<1> DEFINE i == request[h].item
<1>1. /\ request[h].stage = "accept" /\ appends # <<>>
      /\ receipt' = IF receipt[i] = "none" THEN [receipt EXCEPT ![i] = "queued"] ELSE receipt
      /\ Placed(h, Tail(appends))
      /\ UNCHANGED <<active, disk, server, queue, writes, delivery, cancelling, runtime, prompt,
                     signalled, lease, history, budget>>
  BY DEF Accepted, Applying
<1>2. Running
  BY <1>1, Busy
<1>3. i \in Tracked /\ receipt[i] = "none"
  BY <1>1, Parts DEF Insertions, InsertStage
<1>4. /\ receipt' \in [Tracked -> ReceiptState] /\ receipt'[i] = "queued"
      /\ \A j \in Tracked : j # i => receipt'[j] = receipt[j]
  BY <1>1, <1>3, Parts DEF ReceiptState
<1>5. /\ request' \in [Handlers -> Request] /\ AppendsOK(appends')
      /\ request'[h].stage \in {"stopping", "idle"}
      /\ \A g \in Handlers \ {h} : request'[g] = request[g]
  BY <1>1, Parts, AppendsTypes, PlacedMoves
<1>6. Insertions' /\ WaitingOK(queue', receipt', request')
  BY <1>1, <1>2, <1>4, <1>5, Parts, GateLeft DEF InsertStage
<1>7. /\ HandedOver(receipt', dispatched')
      /\ active' \in Tracked => receipt'[active'] \in Ran
      /\ AdmissionOK(starting, receipt', dispatched)
  <2>1. \A j \in Tracked :
          /\ receipt'[j] = "none" => receipt[j] = "none"
          /\ receipt'[j] \in Ran <=> receipt[j] \in Ran
    BY <1>3, <1>4 DEF Ran
  <2>2. AdmissionOK(starting, receipt', dispatched)
    BY <2>1, Parts, AdmissionReceipts
  <2> QED BY <1>1, <2>1, <2>2, Parts DEF HandedOver, history
<1>8. AdmissionOK(starting', receipt', dispatched')
  BY <1>1, <1>6, <1>7, Parts, PlacedStarts DEF history
<1>9. TypeOK'
  BY <1>1, <1>4, <1>5, <1>8, Parts, PartTypes DEF TypeOK, history, budget
<1> QED BY <1>1, <1>2, <1>6, <1>7, <1>8, <1>9, StaysUp, Parts DEF history

\* The acceptance failed: the prompt leaves the queue, and that is written.
LEMMA AcceptFailsStep ==
  ASSUME IInv, NEW h \in Handlers, AcceptFails(h)
  PROVE  IInv'
<1> DEFINE i == request[h].item
<1>1. /\ request[h].stage = "accept" /\ appends # <<>> /\ appends' = Tail(appends)
      /\ queue' = Without(queue, i) /\ writes' = Persist(writes, h, queue')
      /\ request' = [request EXCEPT ![h].stage = "rollback"]
      /\ WriteFault
      /\ UNCHANGED <<durable, server, starting, delivery, cancelling, runtime, prompt,
                     signalled, lease, history, faults, crashes, asks>>
  BY DEF AcceptFails, Applying
<1>2. Running
  BY <1>1, Busy
<1>3. /\ queue' \in Seq(Prompts) /\ IsInjective(queue')
      /\ ToSet(queue') = ToSet(queue) \ {i}
  BY <1>1, Parts, WithoutPrompt
<1>4. WritesOK(writes')
  BY <1>1, <1>3, Parts, PersistWrites
<1>5. /\ request' \in [Handlers -> Request] /\ request'[h].stage = "rollback"
      /\ request'[h].item = i
      /\ \A g \in Handlers \ {h} : request'[g] = request[g]
  BY <1>1, Parts, StageMoves DEF RequestStage
<1>6. WaitingOK(queue', receipt', request')
  <2>1. \A j : j \in Inserting(request) => j \in Inserting(request')
    BY <1>1, <1>5, GateKept DEF InsertStage
  <2> QED BY <1>1, <1>2, <1>3, <2>1, Parts, WaitingKept DEF durable
<1>7. Insertions'
  BY <1>1, <1>3, <1>5, Parts DEF Insertions, InsertStage, Queued, durable
<1>8. TypeOK'
  BY <1>1, <1>3, <1>4, <1>5, Parts, PartTypes, AppendsTypes, Budgets
     DEF TypeOK, durable, history
<1> QED BY <1>1, <1>2, <1>4, <1>6, <1>7, <1>8, StaysUp, Parts DEF durable, history

\* The rollback ends and its request with it.
LEMMA RolledBackStep ==
  ASSUME IInv, NEW h \in Handlers, RolledBack(h)
  PROVE  IInv'
<1> DEFINE i == request[h].item
<1>1. /\ request[h].stage = "rollback" /\ writes # <<>>
      /\ disk' = disk \/ disk' = Head(writes).items
      /\ writes' = NextWrites(queue, FALSE) \/ writes' = NextWrites(queue, TRUE)
      /\ writeFaults' = writeFaults \/ WriteFault
      /\ request' = [request EXCEPT ![h] = Idle]
      /\ starting' = Next1(queue, active, starting, cancelling, request')
      /\ UNCHANGED <<receipt, active, server, queue, appends, delivery, cancelling, runtime,
                     prompt, signalled, lease, history, faults, crashes, asks>>
  BY DEF RolledBack, Writing
<1>2. Running
  BY <1>1, Busy
<1>3. i \notin ToSet(queue)
  BY <1>1, Parts DEF Insertions, InsertStage, Queued
<1>4. /\ disk' \in Seq(Prompts) /\ IsInjective(disk') /\ WritesOK(writes')
  BY <1>1, Parts, NextWritesOK DEF TypeOK
<1>5. /\ request' \in [Handlers -> Request] /\ request'[h].stage = "idle"
      /\ \A g \in Handlers \ {h} : request'[g] = request[g]
  BY <1>1, Parts, HandlerMoves, IdleRequest
<1>6. Insertions' /\ WaitingOK(queue', receipt', request')
  BY <1>1, <1>2, <1>3, <1>5, Parts, GateLeft DEF InsertStage
<1>7. AdmissionOK(starting', receipt', dispatched')
  BY <1>1, <1>6, Parts, Next1Admits DEF history
<1>8. TypeOK'
  BY <1>1, <1>4, <1>5, <1>7, Parts, PartTypes, Budgets
     DEF TypeOK, history
<1> QED BY <1>1, <1>2, <1>4, <1>6, <1>7, <1>8, StaysUp, Parts DEF history

-----------------------------------------------------------------------------
(* The requests that change the queue and their steps *)

\* A handler that is not at the gate before or after leaves the gate alone.
LEMMA Outside ==
  ASSUME Insertions, NEW h \in Handlers,
         request[h].stage \notin InsertStage, request'[h].stage \notin InsertStage,
         \A g \in Handlers \ {h} : request'[g] = request[g],
         ToSet(queue') \subseteq ToSet(queue),
         \A i \in Tracked :
           /\ receipt[i] = "none" <=> receipt'[i] = "none"
           /\ i \in ToSet(queue') /\ receipt'[i] \in Ran => receipt[i] \in Ran
  PROVE  /\ Insertions'
         /\ WaitingOK(queue, receipt, request) => WaitingOK(queue', receipt', request')
<1>1. \A g \in Handlers :
        /\ request'[g].stage \in InsertStage <=> request[g].stage \in InsertStage
        /\ request[g].stage \in InsertStage =>
             request'[g].stage = request[g].stage /\ request'[g].item = request[g].item
  OBVIOUS
<1> QED BY <1>1, GateSame

\* The queue is reordered and written.
LEMMA PromoteStep ==
  ASSUME IInv, NEW h \in Handlers, NEW i \in Prompts, Promote(h, i)
  PROVE  IInv'
<1> DEFINE x == [Idle EXCEPT !.stage = "move", !.kind = "promote", !.item = i, !.turn = active,
                   !.ref = IF active = None /\ starting.item # None THEN "live" ELSE "none"]
<1>1. /\ Running /\ request[h] = Idle /\ Ask /\ i \in ToSet(queue)
      /\ queue' = Cons(i, Without(queue, i)) /\ writes' = Persist(writes, h, queue')
      /\ request' = [request EXCEPT ![h] = x]
      /\ UNCHANGED <<durable, server, appends, starting, delivery, cancelling, runtime, prompt,
                     signalled, lease, history, writeFaults, faults, crashes>>
  BY DEF Promote, Accepting, Queued
<1>2. x \in Request /\ x.stage = "move"
  BY Parts DEF TypeOK, Idle, Request, RequestStage, RequestKind
<1>3. /\ queue' \in Seq(Prompts) /\ IsInjective(queue') /\ ToSet(queue') = ToSet(queue)
  <2>1. /\ Without(queue, i) \in Seq(Prompts) /\ IsInjective(Without(queue, i))
        /\ ToSet(Without(queue, i)) = ToSet(queue) \ {i}
    BY Parts, WithoutPrompt
  <2> DEFINE q == Without(queue, i)
  <2> HIDE DEF q
  <2>2. q \in Seq(Prompts) /\ IsInjective(q) /\ ToSet(q) = ToSet(queue) \ {i}
    BY <2>1 DEF q
  <2>3. /\ Cons(i, q) \in Seq(Prompts) /\ IsInjective(Cons(i, q))
        /\ ToSet(Cons(i, q)) = ToSet(q) \cup {i}
    BY <2>2, ConsPrompt
  <2>4. queue' = Cons(i, q)
    BY <1>1 DEF q
  <2>5. (ToSet(queue) \ {i}) \cup {i} = ToSet(queue)
    BY <1>1
  <2> QED BY <2>2, <2>3, <2>4, <2>5
<1>4. WritesOK(writes')
  BY <1>1, <1>3, Parts, PersistWrites
<1> HIDE DEF x
<1>5. /\ request' \in [Handlers -> Request] /\ request'[h].stage = "move"
      /\ \A g \in Handlers \ {h} : request'[g] = request[g]
  BY <1>1, <1>2, Parts, HandlerMoves
<1>6. Insertions' /\ WaitingOK(queue', receipt', request')
  BY <1>1, <1>3, <1>5, Parts, IdleRequest, Outside DEF InsertStage, durable
<1>7. TypeOK'
  BY <1>1, <1>3, <1>4, <1>5, Parts, PartTypes, Budgets DEF TypeOK, durable, history
<1> QED BY <1>1, <1>4, <1>6, <1>7, StaysUp, Parts DEF durable, history

\* The new order is on disk, or writing it failed.
LEMMA MovedStep ==
  ASSUME IInv, NEW h \in Handlers, Moved(h)
  PROVE  IInv'
<1>1. /\ request[h].stage = "move" /\ writes # <<>>
      /\ UNCHANGED <<receipt, active, server, queue, delivery, cancelling, runtime, prompt,
                     signalled, lease, history, faults, crashes, asks>>
  BY DEF Moved, Writing
<1>2. Running
  BY <1>1, Busy
<1>3. /\ disk' \in Seq(Prompts) /\ IsInjective(disk') /\ WritesOK(writes')
      /\ writeFaults' \in 0..MaxWriteFaults
  BY <1>1, Parts, NextWritesOK, Budgets DEF Moved, TypeOK
<1>4. /\ request' \in [Handlers -> Request] /\ AppendsOK(appends')
      /\ Insertions' /\ WaitingOK(queue', receipt', request')
      /\ AdmissionOK(starting', receipt', dispatched')
  <2>1. CASE Placed(h, appends)
    <3>1. /\ request' \in [Handlers -> Request] /\ AppendsOK(appends')
          /\ request'[h].stage \in {"stopping", "idle"}
          /\ \A g \in Handlers \ {h} : request'[g] = request[g]
      BY <2>1, Parts, PlacedMoves
    <3>2. Insertions' /\ WaitingOK(queue', receipt', request')
      BY <1>1, <1>2, <3>1, Parts, Outside DEF InsertStage
    <3>3. AdmissionOK(starting', receipt, dispatched)
      BY <1>1, <2>1, <3>2, Parts, PlacedStarts
    <3> QED BY <1>1, <3>1, <3>2, <3>3 DEF history
  <2>2. CASE request' = [request EXCEPT ![h] = Idle] /\ UNCHANGED <<disk, appends, starting>>
    <3>1. /\ request' \in [Handlers -> Request] /\ request'[h].stage = "idle"
          /\ \A g \in Handlers \ {h} : request'[g] = request[g]
      BY <2>2, Parts, HandlerMoves, IdleRequest
    <3>2. Insertions' /\ WaitingOK(queue', receipt', request')
      BY <1>1, <1>2, <3>1, Parts, Outside DEF InsertStage
    <3> QED BY <1>1, <2>2, <3>1, <3>2, Parts DEF history
  <2> QED BY <2>1, <2>2 DEF Moved
<1>5. TypeOK'
  BY <1>1, <1>3, <1>4, Parts, PartTypes DEF TypeOK, history
<1> QED BY <1>1, <1>2, <1>3, <1>4, <1>5, StaysUp, Parts DEF history

\* An edit writes the queue; at most the admission becomes outdated.
LEMMA EditStep ==
  ASSUME IInv, NEW h \in Handlers, NEW i \in Prompts, Edit(h, i)
  PROVE  IInv'
<1> DEFINE x == [Idle EXCEPT !.stage = "edit", !.kind = "edit", !.item = i]
<1>1. /\ Running /\ request[h] = Idle /\ Ask
      /\ starting' = starting \/ starting' = [starting EXCEPT !.outdated = TRUE]
      /\ writes' = Persist(writes, h, queue) /\ request' = [request EXCEPT ![h] = x]
      /\ UNCHANGED <<durable, server, queue, appends, delivery, cancelling, runtime, prompt,
                     signalled, lease, history, writeFaults, faults, crashes>>
  BY DEF Edit, Accepting
<1>2. x \in Request /\ x.stage = "edit"
  BY DEF Idle, Request, RequestStage, RequestKind
<1>3. WritesOK(writes')
  BY <1>1, Parts, PersistWrites
<1>4. AdmissionOK(starting', receipt', dispatched')
  <2>1. AdmissionOK(starting, receipt, dispatched)
    BY Parts
  <2>2. AdmissionOK([starting EXCEPT !.outdated = TRUE], receipt, dispatched)
    BY <2>1, FlagsKept
  <2>3. receipt' = receipt /\ dispatched' = dispatched
    BY <1>1 DEF durable, history
  <2>4. CASE starting' = starting
    BY <2>1, <2>3, <2>4
  <2>5. CASE starting' = [starting EXCEPT !.outdated = TRUE]
    BY <2>2, <2>3, <2>5
  <2> QED BY <1>1, <2>4, <2>5
<1> HIDE DEF x
<1>5. /\ request' \in [Handlers -> Request] /\ request'[h].stage = "edit"
      /\ \A g \in Handlers \ {h} : request'[g] = request[g]
  BY <1>1, <1>2, Parts, HandlerMoves
<1>6. Insertions' /\ WaitingOK(queue', receipt', request')
  BY <1>1, <1>5, Parts, IdleRequest, Outside DEF InsertStage, durable
<1>7. TypeOK'
  BY <1>1, <1>3, <1>4, <1>5, Parts, PartTypes, Budgets DEF TypeOK, durable, history
<1> QED BY <1>1, <1>3, <1>4, <1>6, <1>7, StaysUp, Parts DEF durable, history

\* The edit is on disk, or writing it failed.
LEMMA EditedStep ==
  ASSUME IInv, NEW h \in Handlers, Edited(h)
  PROVE  IInv'
<1>1. /\ request[h].stage = "edit" /\ writes # <<>>
      /\ request' = [request EXCEPT ![h] = Idle]
      /\ UNCHANGED <<receipt, active, server, queue, appends, starting, delivery, cancelling,
                     runtime, prompt, signalled, lease, history, faults, crashes, asks>>
  BY DEF Edited, Writing
<1>2. Running
  BY <1>1, Busy
<1>3. /\ disk' \in Seq(Prompts) /\ IsInjective(disk') /\ WritesOK(writes')
      /\ writeFaults' \in 0..MaxWriteFaults
  BY <1>1, Parts, NextWritesOK, Budgets DEF Edited, TypeOK
<1>4. /\ request' \in [Handlers -> Request] /\ request'[h].stage = "idle"
      /\ \A g \in Handlers \ {h} : request'[g] = request[g]
  BY <1>1, Parts, HandlerMoves, IdleRequest
<1>5. Insertions' /\ WaitingOK(queue', receipt', request')
  BY <1>1, <1>2, <1>4, Parts, Outside DEF InsertStage
<1>6. TypeOK'
  BY <1>1, <1>3, <1>4, Parts, PartTypes DEF TypeOK, history
<1> QED BY <1>1, <1>2, <1>3, <1>5, <1>6, StaysUp, Parts DEF history

\* Prompts leave the queue, and the admission of one of them is cancelled.
LEMMA DropStep ==
  ASSUME IInv, NEW h \in Handlers, NEW kind \in {"remove", "clear", "stop"},
         NEW gone \in SUBSET Prompts, NEW left \in Seq(Prompts), IsInjective(left),
         ToSet(left) \subseteq ToSet(queue), NEW hit \in BOOLEAN,
         Accepting(h), Drop(h, kind, gone, left, hit)
  PROVE  IInv'
<1> DEFINE x == [Idle EXCEPT !.stage = "drop", !.kind = kind,
                   !.drop = gone, !.ref = IF hit THEN "live" ELSE "none",
                   !.turn = IF kind = "stop" THEN active ELSE None]
<1>1. /\ Running /\ request[h] = Idle /\ Ask
      /\ starting' = starting \/ starting' = [starting EXCEPT !.cancelled = TRUE]
      /\ queue' = left /\ unwanted' = unwanted \cup gone
      /\ writes' = Persist(writes, h, left) /\ request' = [request EXCEPT ![h] = x]
      /\ UNCHANGED <<durable, server, appends, delivery, cancelling, runtime, prompt, signalled,
                     lease, sent, dropped, dispatched, writeFaults, faults, crashes>>
  BY DEF Drop, Accepting, CancelAdmission
<1>2. x \in Request /\ x.stage = "drop"
  BY Parts DEF TypeOK, Idle, Request, RequestStage, RequestKind
<1>3. WritesOK(writes')
  BY <1>1, Parts, PersistWrites
<1>4. AdmissionOK(starting', receipt', dispatched')
  <2>1. AdmissionOK(starting, receipt, dispatched)
    BY Parts
  <2>2. AdmissionOK([starting EXCEPT !.cancelled = TRUE], receipt, dispatched)
    BY <2>1, FlagsKept
  <2>3. receipt' = receipt /\ dispatched' = dispatched
    BY <1>1 DEF durable
  <2>4. CASE starting' = starting
    BY <2>1, <2>3, <2>4
  <2>5. CASE starting' = [starting EXCEPT !.cancelled = TRUE]
    BY <2>2, <2>3, <2>5
  <2> QED BY <1>1, <2>4, <2>5
<1> HIDE DEF x
<1>5. /\ request' \in [Handlers -> Request] /\ request'[h].stage = "drop"
      /\ \A g \in Handlers \ {h} : request'[g] = request[g]
  BY <1>1, <1>2, Parts, HandlerMoves
<1>6. Insertions' /\ WaitingOK(queue', receipt', request')
  BY <1>1, <1>5, Parts, IdleRequest, Outside DEF InsertStage, durable
<1>7. TypeOK'
  BY <1>1, <1>3, <1>4, <1>5, Parts, PartTypes, Budgets DEF TypeOK, durable
<1> QED BY <1>1, <1>3, <1>4, <1>6, <1>7, StaysUp, Parts DEF durable

\* The three requests that drop prompts.
LEMMA DropRequests ==
  ASSUME IInv, NEW h \in Handlers,
         \/ \E i \in Prompts : RemoveQueued(h, i)
         \/ ClearQueue(h)
         \/ \E clear \in BOOLEAN : Stop(h, clear)
  PROVE  IInv'
<1>0. /\ Queued \subseteq Prompts
      /\ <<>> \in Seq(Prompts) /\ IsInjective(<<>>) /\ ToSet(<<>>) = {}
  BY Parts DEF Queued, ToSet, IsInjective
<1>1. ASSUME NEW i \in Prompts, RemoveQueued(h, i) PROVE IInv'
  <2>1. /\ Without(queue, i) \in Seq(Prompts) /\ IsInjective(Without(queue, i))
        /\ ToSet(Without(queue, i)) \subseteq ToSet(queue)
    BY Parts, WithoutPrompt
  <2>2. (starting.item = i) \in BOOLEAN /\ {i} \cap Queued \in SUBSET Prompts
    BY <1>0
  <2> QED BY <1>1, <2>1, <2>2, DropStep DEF RemoveQueued
<1>2. ASSUME ClearQueue(h) PROVE IInv'
  <2>1. (starting.item # None) \in BOOLEAN
    OBVIOUS
  <2> QED BY <1>0, <1>2, <2>1, DropStep DEF ClearQueue
<1>3. ASSUME NEW clear \in BOOLEAN, Stop(h, clear) PROVE IInv'
  <2> DEFINE i == starting.item
  <2>1. /\ Without(queue, i) \in Seq(Prompts) /\ IsInjective(Without(queue, i))
        /\ ToSet(Without(queue, i)) \subseteq ToSet(queue)
    BY Parts, WithoutPrompt
  <2>2. (i # None) \in BOOLEAN /\ {i} \cap Queued \in SUBSET Prompts
    BY <1>0
  <2>3. CASE clear
    <3>1. Accepting(h) /\ Drop(h, "stop", Queued, <<>>, i # None)
      BY <1>3, <2>3 DEF Stop
    <3> QED BY <3>1, <1>0, <2>2, DropStep
  <2>4. CASE ~clear
    <3>1. Accepting(h) /\ Drop(h, "stop", {i} \cap Queued, Without(queue, i), TRUE)
      BY <1>3, <2>4 DEF Stop
    <3> QED BY <3>1, <2>1, <2>2, DropStep
  <2> QED BY <2>3, <2>4
<1> QED BY <1>1, <1>2, <1>3
\* A stop request with nothing to drop cancels the turn or looks at the queue.
LEMMA StopTurnStep ==
  ASSUME IInv, NEW h \in Handlers, StopTurn(h)
  PROVE  IInv'
<1> DEFINE x == [Idle EXCEPT !.stage = "stopping", !.kind = "stop", !.turn = active]
<1>1. /\ Running /\ request[h] = Idle /\ Ask
      /\ UNCHANGED <<durable, server, queue, writes, delivery, cancelling, runtime, prompt,
                     signalled, lease, history, writeFaults, faults, crashes>>
  BY DEF StopTurn, Accepting
<1>2. /\ request' \in [Handlers -> Request] /\ AppendsOK(appends')
      /\ Insertions' /\ WaitingOK(queue', receipt', request')
      /\ AdmissionOK(starting', receipt, dispatched)
  <2>1. CASE active # None
    <3>1. /\ request' = [request EXCEPT ![h] = x] /\ appends' = Append(appends, h)
          /\ starting' = starting
      BY <2>1 DEF StopTurn
    <3>2. x \in Request /\ x.stage = "stopping"
      BY Parts DEF TypeOK, Idle, Request, RequestStage, RequestKind
    <3> HIDE DEF x
    <3>3. /\ request' \in [Handlers -> Request] /\ request'[h].stage = "stopping"
          /\ \A g \in Handlers \ {h} : request'[g] = request[g]
      BY <3>1, <3>2, Parts, HandlerMoves
    <3>4. Insertions' /\ WaitingOK(queue', receipt', request')
      BY <1>1, <3>3, Parts, IdleRequest, Outside DEF InsertStage, durable
    <3> QED BY <3>1, <3>3, <3>4, Parts, AppendsTypes
  <2>2. CASE active = None
    <3>1. /\ request' = request /\ appends' = appends
          /\ starting' = Next1(queue, active, starting, cancelling, request)
      BY <2>2 DEF StopTurn
    <3>2. Insertions' /\ WaitingOK(queue', receipt', request')
      BY <1>1, <3>1, Parts, GateSame DEF durable
    <3>3. AdmissionOK(starting', receipt, dispatched)
      BY <1>1, <3>1, Parts, Next1Admits
    <3> QED BY <3>1, <3>2, <3>3, Parts DEF TypeOK
  <2> QED BY <2>1, <2>2
<1>3. receipt' = receipt /\ dispatched' = dispatched
  BY <1>1 DEF durable, history
<1>4. AdmissionOK(starting', receipt', dispatched')
  BY <1>2, <1>3
<1>5. TypeOK'
  BY <1>1, <1>2, Parts, PartTypes, Budgets DEF TypeOK, durable, history
<1> QED BY <1>1, <1>2, <1>4, <1>5, StaysUp, Parts DEF durable, history

\* A recorded removal: the handler cancels a turn or restarts the queue.
LEMMA DroppedMoves ==
  ASSUME TypeOK, NEW h \in Handlers, NEW pending, AppendsOK(pending), Dropped(h, pending)
  PROVE  /\ request' \in [Handlers -> Request] /\ AppendsOK(appends')
         /\ request'[h].stage \in {"stopping", "idle"}
         /\ \A g \in Handlers \ {h} : request'[g] = request[g]
         /\ dropped' \subseteq Prompts
<1>1. dropped' \subseteq Prompts
  BY DEF Dropped, TypeOK, Request
<1>2. CASE request[h].turn # None
  <2>1. request' = [request EXCEPT ![h].stage = "stopping"] /\ appends' = Append(pending, h)
    BY <1>2 DEF Dropped
  <2> QED BY <1>1, <2>1, StageMoves, AppendsTypes DEF RequestStage
<1>3. CASE request[h].turn = None
  <2>1. request' = [request EXCEPT ![h] = Idle] /\ appends' = pending
    BY <1>3 DEF Dropped
  <2> QED BY <1>1, <2>1, HandlerMoves, IdleRequest
<1> QED BY <1>2, <1>3

\* It keeps the admission in order.
LEMMA DroppedStarts ==
  ASSUME NEW h \in Handlers, NEW pending, Dropped(h, pending), queue \in Seq(Prompts),
         NEW rc, AdmissionOK(starting, rc, dispatched), WaitingOK(queue, rc, request'),
         HandedOver(rc, dispatched)
  PROVE  AdmissionOK(starting', rc, dispatched)
<1>1. CASE starting' = starting
  BY <1>1
<1>2. CASE starting' = Restart(h, request')
  <2>1. AdmissionOK(Restart(h, request'), rc, dispatched)
    BY RestartStarts
  <2> QED BY <1>2, <2>1
<1> QED BY <1>1, <1>2 DEF Dropped

\* The shorter queue is on disk.
LEMMA DropWrittenStep ==
  ASSUME IInv, NEW h \in Handlers, DropWritten(h)
  PROVE  IInv'
<1>1. /\ request[h].stage = "drop" /\ writes # <<>>
      /\ disk' = Head(writes).items /\ writes' = NextWrites(queue, FALSE)
      /\ UNCHANGED <<receipt, active, server, queue, delivery, cancelling, runtime, prompt,
                     signalled, lease, sent, unwanted, dispatched, budget>>
  BY DEF DropWritten, Writing
<1>2. Running
  BY <1>1, Busy
<1>3. /\ disk' \in Seq(Prompts) /\ IsInjective(disk') /\ WritesOK(writes')
  BY <1>1, Parts, NextWritesOK DEF TypeOK
<1>4. /\ request' \in [Handlers -> Request] /\ AppendsOK(appends')
      /\ Insertions' /\ WaitingOK(queue', receipt', request')
      /\ AdmissionOK(starting', receipt, dispatched) /\ dropped' \subseteq Prompts
  <2>1. CASE request[h].drop \cap Tracked # {}
    <3>1. /\ request' = [request EXCEPT ![h].stage = "mark"]
          /\ appends' = Append(appends, h) /\ UNCHANGED <<starting, dropped>>
      BY <2>1 DEF DropWritten
    <3>2. /\ request' \in [Handlers -> Request] /\ request'[h].stage = "mark"
          /\ \A g \in Handlers \ {h} : request'[g] = request[g]
      BY <3>1, Parts, StageMoves DEF RequestStage
    <3>3. Insertions' /\ WaitingOK(queue', receipt', request')
      BY <1>1, <1>2, <3>2, Parts, Outside DEF InsertStage
    <3>4. dropped' \subseteq Prompts
      BY <3>1, Parts DEF TypeOK
    <3> QED BY <3>1, <3>2, <3>3, <3>4, Parts, AppendsTypes
  <2>2. CASE Dropped(h, appends)
    <3>1. /\ request' \in [Handlers -> Request] /\ AppendsOK(appends')
          /\ request'[h].stage \in {"stopping", "idle"} /\ dropped' \subseteq Prompts
          /\ \A g \in Handlers \ {h} : request'[g] = request[g]
      BY <2>2, Parts, DroppedMoves
    <3>2. Insertions' /\ WaitingOK(queue', receipt', request')
      BY <1>1, <1>2, <3>1, Parts, Outside DEF InsertStage
    <3>3. AdmissionOK(starting', receipt, dispatched)
      BY <1>1, <2>2, <3>2, Parts, DroppedStarts
    <3> QED BY <3>1, <3>2, <3>3
  <2> QED BY <2>1, <2>2 DEF DropWritten
<1>5. AdmissionOK(starting', receipt', dispatched')
  BY <1>1, <1>4
<1>6. TypeOK'
  BY <1>1, <1>3, <1>4, Parts, PartTypes DEF TypeOK, budget
<1> QED BY <1>1, <1>2, <1>3, <1>4, <1>5, <1>6, StaysUp, Parts

\* Writing the shorter queue failed.
LEMMA DropFailsStep ==
  ASSUME IInv, NEW h \in Handlers, DropFails(h)
  PROVE  IInv'
<1>1. /\ request[h].stage = "drop" /\ writes # <<>> /\ WriteFault
      /\ writes' = NextWrites(queue, TRUE) /\ request' = [request EXCEPT ![h] = Idle]
      /\ UNCHANGED <<durable, server, queue, appends, starting, delivery, cancelling, runtime,
                     prompt, signalled, lease, history, faults, crashes, asks>>
  BY DEF DropFails, Writing
<1>2. Running
  BY <1>1, Busy
<1>3. WritesOK(writes')
  BY <1>1, Parts, NextWritesOK
<1>4. /\ request' \in [Handlers -> Request] /\ request'[h].stage = "idle"
      /\ \A g \in Handlers \ {h} : request'[g] = request[g]
  BY <1>1, Parts, HandlerMoves, IdleRequest
<1>5. Insertions' /\ WaitingOK(queue', receipt', request')
  BY <1>1, <1>2, <1>4, Parts, Outside DEF InsertStage, durable
<1>6. TypeOK'
  BY <1>1, <1>3, <1>4, Parts, PartTypes, Budgets DEF TypeOK, durable, history
<1> QED BY <1>1, <1>2, <1>3, <1>5, <1>6, StaysUp, Parts DEF durable, history

\* The removal is in the log: receipts that are still queued say so.
LEMMA MarkedStep ==
  ASSUME IInv, NEW h \in Handlers, Marked(h)
  PROVE  IInv'
<1>1. /\ request[h].stage = "mark" /\ appends # <<>> /\ Dropped(h, Tail(appends))
      /\ receipt' = [i \in Tracked |-> IF i \in request[h].drop /\ receipt[i] = "queued"
                                       THEN "removed" ELSE receipt[i]]
      /\ UNCHANGED <<active, disk, server, queue, writes, delivery, cancelling, runtime, prompt,
                     signalled, lease, sent, unwanted, dispatched, budget>>
  BY DEF Marked, Applying
<1>2. Running
  BY <1>1, Busy
<1>3. /\ receipt' \in [Tracked -> ReceiptState]
      /\ \A i \in Tracked : /\ receipt'[i] = "none" <=> receipt[i] = "none"
                            /\ receipt'[i] \in Ran <=> receipt[i] \in Ran
  BY <1>1, Parts DEF ReceiptState, Ran
<1>4. /\ request' \in [Handlers -> Request] /\ AppendsOK(appends')
      /\ request'[h].stage \in {"stopping", "idle"} /\ dropped' \subseteq Prompts
      /\ \A g \in Handlers \ {h} : request'[g] = request[g]
  BY <1>1, Parts, AppendsTypes, DroppedMoves
<1>5. Insertions' /\ WaitingOK(queue', receipt', request')
  BY <1>1, <1>2, <1>3, <1>4, Parts, Outside DEF InsertStage
<1>6. HandedOver(receipt', dispatched') /\ AdmissionOK(starting, receipt', dispatched)
  <2>1. AdmissionOK(starting, receipt', dispatched)
    BY <1>3, Parts, AdmissionReceipts
  <2> QED BY <1>1, <1>3, <2>1, Parts DEF HandedOver
<1>7. AdmissionOK(starting', receipt', dispatched')
  <2>1. AdmissionOK(starting', receipt', dispatched)
    BY <1>1, <1>5, <1>6, Parts, DroppedStarts
  <2> QED BY <1>1, <2>1
<1>8. TypeOK'
  BY <1>1, <1>3, <1>4, <1>7, Parts, PartTypes DEF TypeOK, budget
<1> QED BY <1>1, <1>2, <1>3, <1>5, <1>6, <1>7, <1>8, StaysUp, Parts

-----------------------------------------------------------------------------
(* The steps of a cancellation *)

\* A step that only moves one handler that is not at the gate.
LEMMA OneMoves ==
  ASSUME IInv, Running, NEW h \in Handlers, request[h].stage \notin InsertStage,
         request'[h].stage \notin InsertStage,
         \A g \in Handlers \ {h} : request'[g] = request[g],
         TypeOK', UNCHANGED <<receipt, active, server, queue, writes, dispatched>>,
         \/ starting' = starting
         \/ WaitingOK(queue, receipt, request') => AdmissionOK(starting', receipt, dispatched)
  PROVE  IInv'
<1>1. Insertions' /\ WaitingOK(queue', receipt', request')
  BY Parts, Outside
<1>2. AdmissionOK(starting', receipt, dispatched)
  <2>1. WaitingOK(queue, receipt, request')
    BY <1>1
  <2> QED BY <2>1, Parts
<1> QED BY <1>1, <1>2, StaysUp, Parts

\* The cancellation is announced and starts.
LEMMA StoppingStep ==
  ASSUME IInv, NEW h \in Handlers, Stopping(h)
  PROVE  IInv'
<1>1. /\ request[h].stage = "stopping" /\ appends # <<>> /\ appends' = Tail(appends)
      /\ delivery' = [delivery EXCEPT ![h] = IF runtime = "open" THEN "sending" ELSE "safe"]
      /\ cancelling' = h /\ request' = [request EXCEPT ![h].stage = "flush"]
      /\ UNCHANGED <<durable, server, queue, writes, starting, runtime, prompt, signalled, lease,
                     history, budget>>
  BY DEF Stopping, Applying
<1>2. Running
  BY <1>1, Busy
<1>3. /\ request' \in [Handlers -> Request] /\ request'[h].stage = "flush"
      /\ \A g \in Handlers \ {h} : request'[g] = request[g]
  BY <1>1, Parts, StageMoves DEF RequestStage
<1>4. delivery' \in [Handlers -> DeliveryState] /\ AppendsOK(appends')
  BY <1>1, Parts, AppendsTypes DEF TypeOK, DeliveryState
<1>5. TypeOK'
  BY <1>1, <1>3, <1>4, Parts, PartTypes DEF TypeOK, durable, history, budget
<1> QED BY <1>1, <1>2, <1>3, <1>5, OneMoves DEF InsertStage, durable, history

\* The output is flushed: the turn is ended, or it already was.
LEMMA FlushedStep ==
  ASSUME IInv, NEW h \in Handlers, Flushed(h)
  PROVE  IInv'
<1>1. /\ request[h].stage = "flush"
      /\ UNCHANGED <<durable, server, queue, writes, delivery, cancelling, runtime, prompt,
                     signalled, lease, history, budget>>
  BY DEF Flushed
<1>2. Running
  BY <1>1, Busy
<1>3. CASE /\ request' = [request EXCEPT ![h].stage = "ending"]
           /\ appends' = Append(appends, h) /\ starting' = starting
  <2>1. /\ request' \in [Handlers -> Request] /\ request'[h].stage = "ending"
        /\ \A g \in Handlers \ {h} : request'[g] = request[g]
    BY <1>3, Parts, StageMoves DEF RequestStage
  <2>2. AppendsOK(appends')
    BY <1>3, Parts, AppendsTypes
  <2>3. TypeOK'
    BY <1>1, <1>3, <2>1, <2>2, Parts, PartTypes DEF TypeOK, durable, history, budget
  <2> QED BY <1>1, <1>2, <1>3, <2>1, <2>3, OneMoves DEF InsertStage, durable, history
<1>4. CASE Detach(h, active, appends)
  <2>1. /\ request' \in [Handlers -> Request] /\ appends' = appends
        /\ request'[h].stage = "settle"
        /\ \A g \in Handlers \ {h} : request'[g] = request[g]
    BY <1>4, Parts, DetachMoves
  <2>2. Insertions' /\ WaitingOK(queue', receipt', request')
    BY <1>1, <1>2, <2>1, Parts, Outside DEF InsertStage, durable
  <2>3. receipt' = receipt /\ dispatched' = dispatched /\ queue' = queue
    BY <1>1 DEF durable, history
  <2>4. AdmissionOK(starting', receipt, dispatched)
    BY <1>4, <2>2, <2>3, Parts, DetachMoves
  <2>5. TypeOK'
    BY <1>1, <2>1, <2>4, Parts, PartTypes DEF TypeOK, durable, history, budget
  <2> QED BY <1>1, <1>2, <2>2, <2>3, <2>4, <2>5, StaysUp, Parts DEF durable
<1> QED BY <1>3, <1>4 DEF Flushed

\* The turn of a cancellation is over.
LEMMA EndedStep ==
  ASSUME IInv, NEW h \in Handlers, Ended(h)
  PROVE  IInv'
<1> DEFINE turn == request[h].turn
           left == IF active = turn THEN None ELSE active
<1>1. /\ request[h].stage = "ending" /\ appends # <<>>
      /\ active' = left /\ receipt' = Complete(receipt, turn)
      /\ Detach(h, left, Tail(appends))
      /\ UNCHANGED <<disk, server, queue, writes, delivery, cancelling, runtime, prompt,
                     signalled, lease, history, budget>>
  BY DEF Ended, Applying
<1>2. Running
  BY <1>1, Busy
<1>3. /\ receipt' \in [Tracked -> ReceiptState]
      /\ \A i \in Tracked : /\ receipt'[i] = "none" <=> receipt[i] = "none"
                            /\ receipt'[i] \in Ran <=> receipt[i] \in Ran
  BY <1>1, Parts, CompleteReceipt
<1>4. /\ active' \in Prompts \cup {None} /\ (active' \in Tracked => receipt'[active'] \in Ran)
  BY <1>1, <1>3, Parts, QueueAssumption DEF TypeOK
<1>5. /\ request' \in [Handlers -> Request] /\ appends' = Tail(appends)
      /\ request'[h].stage = "settle"
      /\ \A g \in Handlers \ {h} : request'[g] = request[g]
  BY <1>1, Parts, DetachMoves
<1>6. Insertions' /\ WaitingOK(queue', receipt', request')
  BY <1>1, <1>2, <1>3, <1>5, Parts, Outside DEF InsertStage
<1>7. HandedOver(receipt', dispatched) /\ AdmissionOK(starting, receipt', dispatched)
  <2>1. AdmissionOK(starting, receipt', dispatched)
    BY <1>3, Parts, AdmissionReceipts
  <2> QED BY <1>3, <2>1, Parts DEF HandedOver
<1>8. AdmissionOK(starting', receipt', dispatched)
  <2>1. queue' = queue
    BY <1>1
  <2> QED BY <1>1, <1>6, <1>7, <2>1, Parts, DetachMoves
<1>9. AppendsOK(appends')
  BY <1>1, <1>5, Parts, AppendsTypes
<1>10. TypeOK'
  BY <1>1, <1>3, <1>4, <1>5, <1>8, <1>9, Parts, PartTypes DEF TypeOK, history, budget
<1>11. dispatched' = dispatched
  BY <1>1 DEF history
<1> QED BY <1>1, <1>2, <1>4, <1>6, <1>7, <1>8, <1>10, <1>11, StaysUp, Parts

\* The continuation of a cancellation.
LEMMA SettledStep ==
  ASSUME IInv, NEW h \in Handlers, Settled(h)
  PROVE  IInv'
<1>1. /\ request[h].stage = "settle" /\ request' = [request EXCEPT ![h] = Idle]
      /\ delivery' = [delivery EXCEPT ![h] = "none"]
      /\ cancelling' = cancelling \/ cancelling' = None
      /\ \/ starting' = starting
         \/ starting' = Next1(queue, active, starting, None, request')
      /\ UNCHANGED <<durable, server, queue, writes, appends, runtime, prompt, signalled, lease,
                     history, budget>>
  BY DEF Settled
<1>2. Running
  BY <1>1, Busy
<1>3. /\ request' \in [Handlers -> Request] /\ request'[h].stage = "idle"
      /\ \A g \in Handlers \ {h} : request'[g] = request[g]
  BY <1>1, Parts, HandlerMoves, IdleRequest
<1>4. Insertions' /\ WaitingOK(queue', receipt', request')
  BY <1>1, <1>2, <1>3, Parts, Outside DEF InsertStage, durable
<1>5. AdmissionOK(starting', receipt, dispatched)
  <2>1. WaitingOK(queue, receipt, request')
    BY <1>1, <1>4 DEF durable
  <2>2. AdmissionOK(Next1(queue, active, starting, None, request'), receipt, dispatched)
    BY <2>1, Parts, Next1Admits
  <2> QED BY <1>1, <2>2, Parts
<1>6. delivery' \in [Handlers -> DeliveryState] /\ cancelling' \in Handlers \cup {None}
  BY <1>1, Parts DEF TypeOK, DeliveryState
<1>7. TypeOK'
  BY <1>1, <1>3, <1>5, <1>6, Parts, PartTypes DEF TypeOK, durable, history, budget
<1> QED BY <1>1, <1>2, <1>3, <1>5, <1>7, OneMoves DEF InsertStage, durable, history
\* The runtime, a lease or a budget changes, but no part of the queue.
LEMMA QueueUntouched ==
  ASSUME IInv, Running, TypeOK',
         UNCHANGED <<receipt, active, server, queue, writes, starting, request, dispatched>>
  PROVE  IInv'
<1>1. Insertions' /\ WaitingOK(queue', receipt', request')
  BY Parts DEF Insertions, Queued
<1> QED BY <1>1, StaysUp, Parts

\* A cancellation was delivered.
LEMMA DeliveredStep ==
  ASSUME IInv, NEW h \in Handlers, Delivered(h)
  PROVE  IInv'
<1>1. TypeOK'
  BY Parts DEF Delivered, TypeOK, DeliveryState, durable, history, budget
<1>2. Running
  BY Busy DEF Delivered
<1> QED BY <1>1, <1>2, QueueUntouched DEF Delivered, durable, history

\* The connection to the agent is gone.
LEMMA DisconnectStep ==
  ASSUME IInv, Disconnect
  PROVE  IInv'
<1>1. /\ prompt' \in [Prompts -> PromptState] /\ delivery' \in [Handlers -> DeliveryState]
      /\ runtime' \in RuntimeState /\ signalled' \subseteq Prompts
  BY Parts DEF Disconnect, TypeOK, PromptState, DeliveryState, RuntimeState
<1>2. TypeOK'
  BY <1>1, Parts, Budgets DEF Disconnect, TypeOK, durable, history
<1>3. Running
  BY Busy DEF Disconnect
<1> QED BY <1>2, <1>3, QueueUntouched DEF Disconnect, durable, history

\* The agent process has ended, or that could not be proved.
LEMMA ClosedStep ==
  ASSUME IInv, Closed
  PROVE  IInv'
<1>1. delivery' \in [Handlers -> DeliveryState] /\ runtime' \in RuntimeState
  BY Parts DEF Closed, TypeOK, DeliveryState, RuntimeState
<1>2. faults' \in 0..MaxFaults
  BY Parts, Budgets DEF Closed, TypeOK
<1>3. TypeOK'
  BY <1>1, <1>2, Parts DEF Closed, TypeOK, durable, history
<1>4. Running
  BY Busy DEF Closed
<1> QED BY <1>3, <1>4, QueueUntouched DEF Closed, durable, history

\* A Git action takes the workspace.
LEMMA TakeLeaseStep ==
  ASSUME IInv, TakeLease
  PROVE  IInv'
<1>1. TypeOK'
  BY Parts DEF TakeLease, TypeOK, durable, history, budget
<1> QED BY <1>1, QueueUntouched DEF TakeLease, durable, history

-----------------------------------------------------------------------------
(* The steps of an admission and of a turn *)

\* A step that leaves the requests alone and may admit the head of the queue.
LEMMA AdmissionMoves ==
  ASSUME IInv, Running, TypeOK',
         UNCHANGED <<receipt, active, server, queue, writes, request, dispatched>>,
         \/ starting' = starting
         \/ \E cancel : starting' = Next1(queue, active, starting, cancel, request)
         \/ AdmissionOK(starting', receipt, dispatched)
  PROVE  IInv'
<1>1. Insertions' /\ WaitingOK(queue', receipt', request')
  BY Parts DEF Insertions, Queued
<1>2. AdmissionOK(starting', receipt, dispatched)
  <2>1. ASSUME NEW cancel
        PROVE  AdmissionOK(Next1(queue, active, starting, cancel, request), receipt, dispatched)
    BY Parts, Next1Admits
  <2> QED BY <2>1, Parts
<1> QED BY <1>1, <1>2, StaysUp, Parts

\* The lease is given back, or a client connects.
LEMMA QueueRestarts ==
  ASSUME IInv, ReleaseLease \/ (Bootstrap /\ server' = "up")
  PROVE  IInv'
<1>1. Running
  BY Busy DEF ReleaseLease, Bootstrap
<1>2. /\ starting' = Next1(queue, active, starting, cancelling, request)
      /\ UNCHANGED <<durable, queue, writes, appends, request, delivery, cancelling, runtime,
                     prompt, signalled, history, budget>>
      /\ lease' \in BOOLEAN /\ server' \in {"loaded", "up"}
  BY <1>1, Parts DEF ReleaseLease, Bootstrap, TypeOK, Running
<1>3. AdmissionOK(starting', receipt, dispatched)
  BY <1>1, <1>2, Parts, Next1Admits
<1>4. TypeOK'
  BY <1>2, <1>3, Parts, PartTypes DEF TypeOK, durable, history, budget
<1>5. Insertions' /\ WaitingOK(queue', receipt', request')
  BY <1>1, <1>2, Parts DEF Insertions, Queued, durable
<1>6. Running'
  BY <1>2 DEF Running
<1> QED BY <1>2, <1>3, <1>4, <1>5, <1>6, Parts DEF IInv, Quiet, durable, history

\* What the end of an admission leaves of the invariant.
LEMMA FinishKeeps ==
  ASSUME IInv, Running, NEW turn, Finish(queue', turn),
         queue' \in Seq(Prompts), ToSet(queue') \subseteq ToSet(queue),
         \A i \in Tracked : /\ receipt'[i] = "none" <=> receipt[i] = "none"
                            /\ receipt'[i] \in Ran <=> receipt[i] \in Ran,
         HandedOver(receipt', dispatched')
  PROVE  /\ request' \in [Handlers -> Request]
         /\ Insertions' /\ WaitingOK(queue', receipt', request')
         /\ AdmissionOK(starting', receipt', dispatched')
<1>1. /\ request' \in [Handlers -> Request]
      /\ \A g \in Handlers :
           request'[g].stage = request[g].stage /\ request'[g].item = request[g].item
  BY Parts, FinishMoves
<1>2. Insertions' /\ WaitingOK(queue', receipt', request')
  BY <1>1, Parts, GateSame
<1>3. AdmissionOK(starting', receipt', dispatched')
  BY <1>2, Parts, FinishMoves
<1> QED BY <1>1, <1>2, <1>3

\* A lease ends the admission; otherwise the thread is announced "preparing".
LEMMA CheckLeaseStep ==
  ASSUME IInv, CheckLease
  PROVE  IInv'
<1>1. /\ starting.stage = "lease"
      /\ UNCHANGED <<durable, server, queue, writes, delivery, cancelling, runtime, prompt,
                     signalled, lease, history, budget>>
  BY DEF CheckLease
<1>2. Running
  BY <1>1, Busy
<1>3. CASE Finish(queue, active) /\ appends' = appends
  <2>1. /\ request' \in [Handlers -> Request]
        /\ Insertions' /\ WaitingOK(queue', receipt', request')
        /\ AdmissionOK(starting', receipt', dispatched')
    BY <1>1, <1>2, <1>3, Parts, FinishKeeps DEF durable, history
  <2>2. TypeOK'
    BY <1>1, <1>3, <2>1, Parts, PartTypes DEF TypeOK, durable, history, budget
  <2> QED BY <1>1, <1>2, <2>1, <2>2, StaysUp, Parts DEF durable, history
<1>4. CASE /\ starting' = [starting EXCEPT !.stage = "prepare"]
           /\ appends' = Append(appends, Starter) /\ request' = request
  <2>1. AdmissionOK(starting', receipt, dispatched)
    BY <1>1, <1>4, Parts DEF AdmissionOK, Starting, StartStage
  <2>2. AppendsOK(appends')
    BY <1>4, Parts, AppendsTypes
  <2>3. TypeOK'
    BY <1>1, <1>4, <2>1, <2>2, Parts, PartTypes DEF TypeOK, durable, history, budget
  <2> QED BY <1>1, <1>2, <1>4, <2>1, <2>3, AdmissionMoves DEF durable, history
<1> QED BY <1>3, <1>4 DEF CheckLease

\* "preparing" is in the log.
LEMMA PreparingStep ==
  ASSUME IInv, Preparing
  PROVE  IInv'
<1>1. /\ starting.stage = "prepare" /\ appends # <<>> /\ appends' = Tail(appends)
      /\ starting' = [starting EXCEPT !.stage = "ready"]
      /\ UNCHANGED <<durable, server, queue, writes, request, delivery, cancelling, runtime,
                     prompt, signalled, lease, history, budget>>
  BY DEF Preparing, Applying
<1>2. Running
  BY <1>1, Busy
<1>3. AdmissionOK(starting', receipt, dispatched)
  BY <1>1, Parts DEF AdmissionOK, Starting, StartStage
<1>4. AppendsOK(appends')
  BY <1>1, Parts, AppendsTypes
<1>5. TypeOK'
  BY <1>1, <1>3, <1>4, Parts, PartTypes DEF TypeOK, durable, history, budget
<1> QED BY <1>1, <1>2, <1>3, <1>5, AdmissionMoves DEF durable, history

\* The runtime is there, or preparing it failed.
LEMMA PreparedStep ==
  ASSUME IInv, Prepared
  PROVE  IInv'
<1>1. /\ starting.stage = "ready" /\ appends' = Append(appends, Starter)
      /\ starting' = [starting EXCEPT !.stage = "start"]
         \/ starting' = [starting EXCEPT !.stage = "refuse"]
      /\ UNCHANGED <<durable, server, queue, writes, request, delivery, cancelling, prompt,
                     signalled, lease, history, writeFaults, crashes, asks>>
  BY DEF Prepared
<1>2. Running
  BY <1>1, Busy
<1>3. AdmissionOK(starting', receipt, dispatched)
  BY <1>1, Parts DEF AdmissionOK, Starting, StartStage
<1>4. AppendsOK(appends')
  BY <1>1, Parts, AppendsTypes
<1>5. runtime' \in RuntimeState /\ faults' \in 0..MaxFaults
  BY Parts, Budgets DEF Prepared, TypeOK, RuntimeState
<1>6. TypeOK'
  BY <1>1, <1>3, <1>4, <1>5, Parts, PartTypes DEF TypeOK, durable, history
<1> QED BY <1>1, <1>2, <1>3, <1>6, AdmissionMoves DEF durable, history

\* The refusal is in the log.
LEMMA RefusedStep ==
  ASSUME IInv, Refused
  PROVE  IInv'
<1>1. /\ starting.stage = "refuse" /\ appends # <<>> /\ appends' = Tail(appends)
      /\ Finish(queue, active)
      /\ UNCHANGED <<durable, server, queue, writes, delivery, cancelling, runtime, prompt,
                     signalled, lease, history, budget>>
  BY DEF Refused, Applying
<1>2. Running
  BY <1>1, Busy
<1>3. /\ request' \in [Handlers -> Request]
      /\ Insertions' /\ WaitingOK(queue', receipt', request')
      /\ AdmissionOK(starting', receipt', dispatched')
  BY <1>1, <1>2, Parts, FinishKeeps DEF durable, history
<1>4. AppendsOK(appends')
  BY <1>1, Parts, AppendsTypes
<1>5. TypeOK'
  BY <1>1, <1>3, <1>4, Parts, PartTypes DEF TypeOK, durable, history, budget
<1> QED BY <1>1, <1>2, <1>3, <1>5, StaysUp, Parts DEF durable, history

\* The prompt of an admission under way.
LEMMA Admitted ==
  ASSUME IInv, starting.stage # "none"
  PROVE  /\ starting.item \in Prompts
         /\ starting.item \in Tracked =>
              /\ receipt[starting.item] # "none"
              /\ dispatched[starting.item] = 0
              /\ starting.stage \in {"persist", "abort"} => receipt[starting.item] \in Ran
<1>1. starting.item \in Prompts
  BY Parts DEF AdmissionOK, Starting
<1>2. ASSUME starting.item \in Tracked
      PROVE  /\ receipt[starting.item] # "none"
             /\ starting.stage \in {"persist", "abort"} => receipt[starting.item] \in Ran
  BY <1>2, Parts DEF AdmissionOK, Ran
<1>3. ASSUME starting.item \in Tracked PROVE dispatched[starting.item] = 0
  <2>1. ~ dispatched[starting.item] > 0
    BY <1>3, Parts DEF AdmissionOK
  <2>2. dispatched[starting.item] \in Nat
    BY <1>1, Parts DEF TypeOK
  <2> QED BY <2>1, <2>2
<1> QED BY <1>1, <1>2, <1>3

\* TurnStarted: the receipt changes sides together with the admission.
LEMMA StartedStep ==
  ASSUME IInv, Started
  PROVE  IInv'
<1> DEFINE i == starting.item
<1>1. /\ starting.stage = "start" /\ appends # <<>> /\ appends' = Tail(appends)
      /\ active' = i
      /\ receipt' = IF i \in Tracked /\ receipt[i] # "none"
                    THEN [receipt EXCEPT ![i] = "started"] ELSE receipt
      /\ queue' = Without(queue, i) /\ writes' = Persist(writes, Starter, queue')
      /\ starting' = [starting EXCEPT !.stage = "persist"]
      /\ UNCHANGED <<disk, server, request, delivery, cancelling, runtime, prompt, signalled,
                     lease, history, budget>>
  BY DEF Started, Applying
<1>2. Running
  BY <1>1, Busy
<1>3. i \in Prompts /\ (i \in Tracked => receipt[i] # "none" /\ dispatched[i] = 0)
  BY <1>1, Admitted
<1>4. /\ queue' \in Seq(Prompts) /\ IsInjective(queue')
      /\ ToSet(queue') = ToSet(queue) \ {i}
  BY <1>1, Parts, WithoutPrompt
<1>5. WritesOK(writes')
  BY <1>1, <1>4, Parts, PersistWrites
<1>6. /\ receipt' \in [Tracked -> ReceiptState]
      /\ \A j \in Tracked : j # i => receipt'[j] = receipt[j]
      /\ i \in Tracked => receipt'[i] = "started"
  BY <1>1, <1>3, Parts DEF ReceiptState
<1>7. Insertions' /\ WaitingOK(queue', receipt', request')
  BY <1>1, <1>2, <1>3, <1>4, <1>6, Parts, GateSame DEF InsertStage
<1>8. HandedOver(receipt', dispatched') /\ (active' \in Tracked => receipt'[active'] \in Ran)
  BY <1>1, <1>6, Parts DEF HandedOver, Ran, history
<1>9. AdmissionOK(starting', receipt', dispatched')
  BY <1>1, <1>3, <1>6, Parts, QueueAssumption
     DEF AdmissionOK, Starting, StartStage, Ran, history
<1>10. AppendsOK(appends')
  BY <1>1, Parts, AppendsTypes
<1>11. TypeOK'
  BY <1>1, <1>3, <1>4, <1>5, <1>6, <1>9, <1>10, Parts, PartTypes DEF TypeOK, history, budget
<1> QED BY <1>1, <1>2, <1>5, <1>7, <1>8, <1>9, <1>11, StaysUp

\* The shorter queue is on disk and the prompt is handed over, once.
LEMMA LaunchStep ==
  ASSUME IInv, Launch
  PROVE  IInv'
<1> DEFINE i == starting.item
<1>1. /\ starting.stage = "persist" /\ writes # <<>>
      /\ disk' = Head(writes).items /\ writes' = NextWrites(queue, FALSE)
      /\ UNCHANGED <<receipt, active, server, queue, delivery, cancelling, runtime, signalled,
                     lease, sent, unwanted, dropped, budget>>
  BY DEF Launch, Writing
<1>2. Running
  BY <1>1, Busy
<1>3. i \in Prompts /\ (i \in Tracked => receipt[i] \in Ran /\ dispatched[i] = 0)
  BY <1>1, Admitted
<1>4. /\ disk' \in Seq(Prompts) /\ IsInjective(disk') /\ WritesOK(writes')
  BY <1>1, Parts, NextWritesOK DEF TypeOK
<1>5. CASE active = i /\ starting.cancelled
  <2>1. /\ starting' = [starting EXCEPT !.stage = "abort"]
        /\ appends' = Append(appends, Starter)
        /\ UNCHANGED <<request, runtime, prompt, dispatched>>
    BY <1>5 DEF Launch
  <2>2. AdmissionOK(starting', receipt, dispatched)
    BY <1>1, <2>1, Parts DEF AdmissionOK, Starting, StartStage
  <2>3. AppendsOK(appends')
    BY <2>1, Parts, AppendsTypes
  <2>4. TypeOK'
    BY <1>1, <1>4, <2>1, <2>2, <2>3, Parts, PartTypes DEF TypeOK, budget
  <2>5. Insertions' /\ WaitingOK(queue', receipt', request')
    BY <1>1, <1>2, <2>1, Parts DEF Insertions, Queued
  <2> QED BY <1>1, <1>2, <1>4, <2>1, <2>2, <2>4, <2>5, StaysUp, Parts
<1>6. CASE ~(active = i /\ starting.cancelled)
  <2>1. /\ Finish(queue, active) /\ appends' = appends
        /\ dispatched' = dispatched \/ dispatched' = [dispatched EXCEPT ![i] = @ + 1]
    BY <1>6 DEF Launch
  <2>2. prompt' \in [Prompts -> PromptState]
    BY <1>6, <1>3, Parts DEF Launch, TypeOK, PromptState
  <2>3. dispatched' \in [Prompts -> Nat]
    BY <2>1, Parts DEF TypeOK
  <2>4. HandedOver(receipt', dispatched')
    <3>1. \A j \in Tracked : j \in Prompts /\ dispatched[j] \in Nat
      BY Parts, QueueAssumption DEF TypeOK
    <3>2. \A j \in Tracked : dispatched'[j] = dispatched[j] \/ (j = i /\ dispatched'[j] = 1)
      BY <1>3, <2>1, <3>1, Parts DEF TypeOK
    <3> QED BY <1>1, <1>3, <3>1, <3>2, Parts DEF HandedOver
  <2>5. /\ request' \in [Handlers -> Request]
        /\ Insertions' /\ WaitingOK(queue', receipt', request')
        /\ AdmissionOK(starting', receipt', dispatched')
    BY <1>1, <1>2, <2>1, <2>4, Parts, FinishKeeps
  <2>6. TypeOK'
    BY <1>1, <1>4, <2>1, <2>2, <2>3, <2>5, Parts, PartTypes DEF TypeOK, budget
  <2> QED BY <1>1, <1>2, <1>4, <2>4, <2>5, <2>6, StaysUp, Parts
<1> QED BY <1>5, <1>6

\* The write after TurnStarted failed.
LEMMA LaunchFailsStep ==
  ASSUME IInv, LaunchFails
  PROVE  IInv'
<1>1. /\ starting.stage = "persist" /\ writes # <<>> /\ WriteFault
      /\ writes' = NextWrites(queue, TRUE) /\ Finish(queue, active)
      /\ prompt' = [prompt EXCEPT ![starting.item] = "stranded"]
      /\ UNCHANGED <<durable, server, queue, appends, delivery, cancelling, runtime, signalled,
                     lease, history, faults, crashes, asks>>
  BY DEF LaunchFails, Writing
<1>2. Running
  BY <1>1, Busy
<1>3. WritesOK(writes')
  BY <1>1, Parts, NextWritesOK
<1>4. /\ request' \in [Handlers -> Request]
      /\ Insertions' /\ WaitingOK(queue', receipt', request')
      /\ AdmissionOK(starting', receipt', dispatched')
  BY <1>1, <1>2, Parts, FinishKeeps DEF durable, history
<1>5. prompt' \in [Prompts -> PromptState]
  BY <1>1, Parts DEF TypeOK, PromptState
<1>6. TypeOK'
  BY <1>1, <1>3, <1>4, <1>5, Parts, PartTypes, Budgets DEF TypeOK, durable, history
<1> QED BY <1>1, <1>2, <1>3, <1>4, <1>6, StaysUp, Parts DEF durable, history

\* A turn ends: its receipt does not leave the turns that ran.
LEMMA TurnEnds ==
  ASSUME IInv, NEW i, receipt' = Complete(receipt, i),
         active' = IF active = i THEN None ELSE active
  PROVE  /\ receipt' \in [Tracked -> ReceiptState]
         /\ \A j \in Tracked : /\ receipt'[j] = "none" <=> receipt[j] = "none"
                               /\ receipt'[j] \in Ran <=> receipt[j] \in Ran
         /\ active' \in Prompts \cup {None}
         /\ active' \in Tracked => receipt'[active'] \in Ran
         /\ HandedOver(receipt', dispatched) /\ AdmissionOK(starting, receipt', dispatched)
<1>1. /\ receipt' \in [Tracked -> ReceiptState]
      /\ \A j \in Tracked : /\ receipt'[j] = "none" <=> receipt[j] = "none"
                            /\ receipt'[j] \in Ran <=> receipt[j] \in Ran
  BY Parts, CompleteReceipt
<1>2. active' \in Prompts \cup {None} /\ (active' \in Tracked => receipt'[active'] \in Ran)
  BY <1>1, Parts, QueueAssumption DEF TypeOK
<1>3. AdmissionOK(starting, receipt', dispatched)
  BY <1>1, Parts, AdmissionReceipts
<1>4. HandedOver(receipt', dispatched)
  BY <1>1, Parts DEF HandedOver
<1> QED BY <1>1, <1>2, <1>3, <1>4

\* A turn that was cancelled before it was handed over is over.
LEMMA AbortedStep ==
  ASSUME IInv, Aborted
  PROVE  IInv'
<1> DEFINE i == starting.item
           left == IF active = i THEN None ELSE active
<1>1. /\ starting.stage = "abort" /\ appends # <<>> /\ appends' = Tail(appends)
      /\ active' = left /\ receipt' = Complete(receipt, i) /\ Finish(queue, left)
      /\ UNCHANGED <<disk, server, queue, writes, delivery, cancelling, runtime, prompt,
                     signalled, lease, history, budget>>
  BY DEF Aborted, Applying
<1>2. Running
  BY <1>1, Busy
<1>3. /\ receipt' \in [Tracked -> ReceiptState]
      /\ \A j \in Tracked : /\ receipt'[j] = "none" <=> receipt[j] = "none"
                            /\ receipt'[j] \in Ran <=> receipt[j] \in Ran
      /\ active' \in Prompts \cup {None}
      /\ active' \in Tracked => receipt'[active'] \in Ran
      /\ HandedOver(receipt', dispatched)
  BY <1>1, TurnEnds
<1>4. queue' = queue /\ dispatched' = dispatched
  BY <1>1 DEF history
<1>5. /\ request' \in [Handlers -> Request]
      /\ Insertions' /\ WaitingOK(queue', receipt', request')
      /\ AdmissionOK(starting', receipt', dispatched')
  BY <1>1, <1>2, <1>3, <1>4, Parts, FinishKeeps
<1>6. AppendsOK(appends')
  BY <1>1, Parts, AppendsTypes
<1>7. TypeOK'
  BY <1>1, <1>3, <1>5, <1>6, Parts, PartTypes DEF TypeOK, history, budget
<1> QED BY <1>1, <1>2, <1>3, <1>4, <1>5, <1>7, StaysUp, Parts

\* The agent answers, or the call fails.
LEMMA AnswerStep ==
  ASSUME IInv, NEW i \in Prompts, Answer(i)
  PROVE  IInv'
<1>1. Running
  BY Busy DEF Answer
<1>2. TypeOK'
  BY Parts DEF Answer, TypeOK, PromptState, durable, history, budget
<1> QED BY <1>1, <1>2, QueueUntouched DEF Answer, durable, history

\* The turn is about to end, or its outcome no longer matters.
LEMMA SettleStep ==
  ASSUME IInv, NEW i \in Prompts, Settle(i)
  PROVE  IInv'
<1>1. /\ prompt[i] # "none"
      /\ prompt' = [prompt EXCEPT ![i] = "ending"] \/ prompt' = [prompt EXCEPT ![i] = "none"]
      /\ appends' = appends \/ appends' = Append(appends, i)
      /\ \/ starting' = starting
         \/ starting' = Next1(queue, active, starting, cancelling, request)
      /\ UNCHANGED <<durable, server, queue, writes, request, delivery, cancelling, runtime,
                     signalled, lease, history, budget>>
  BY DEF Settle
<1>2. Running
  BY <1>1, Busy
<1>3. AdmissionOK(starting', receipt, dispatched)
  <2>1. AdmissionOK(Next1(queue, active, starting, cancelling, request), receipt, dispatched)
    BY <1>2, Parts, Next1Admits
  <2> QED BY <1>1, <2>1, Parts
<1>4. prompt' \in [Prompts -> PromptState]
  BY <1>1, Parts DEF TypeOK, PromptState
<1>5. AppendsOK(appends')
  BY <1>1, Parts, AppendsTypes
<1>6. TypeOK'
  BY <1>1, <1>3, <1>4, <1>5, Parts, PartTypes DEF TypeOK, durable, history, budget
<1> QED BY <1>1, <1>2, <1>3, <1>6, AdmissionMoves DEF durable, history

\* The turn is over, and the next prompt may start.
LEMMA EndTurnStep ==
  ASSUME IInv, NEW i \in Prompts, EndTurn(i)
  PROVE  IInv'
<1> DEFINE left == IF active = i THEN None ELSE active
<1>1. /\ prompt[i] = "ending" /\ appends # <<>> /\ appends' = Tail(appends)
      /\ active' = left /\ receipt' = Complete(receipt, i)
      /\ prompt' = [prompt EXCEPT ![i] = "none"]
      /\ starting' = Next1(queue, left, starting, cancelling, request)
      /\ UNCHANGED <<disk, server, queue, writes, request, delivery, cancelling, runtime,
                     signalled, lease, history, budget>>
  BY DEF EndTurn, Applying
<1>2. Running
  BY <1>1, Busy
<1>3. /\ receipt' \in [Tracked -> ReceiptState]
      /\ \A j \in Tracked : /\ receipt'[j] = "none" <=> receipt[j] = "none"
                            /\ receipt'[j] \in Ran <=> receipt[j] \in Ran
      /\ active' \in Prompts \cup {None}
      /\ active' \in Tracked => receipt'[active'] \in Ran
      /\ HandedOver(receipt', dispatched) /\ AdmissionOK(starting, receipt', dispatched)
  BY <1>1, TurnEnds
<1>4. Insertions' /\ WaitingOK(queue', receipt', request')
  BY <1>1, <1>2, <1>3, Parts, GateSame
<1>5. AdmissionOK(starting', receipt', dispatched)
  <2>1. WaitingOK(queue, receipt', request)
    BY <1>1, <1>4
  <2> QED BY <1>1, <1>3, <2>1, Parts, Next1Admits
<1>6. prompt' \in [Prompts -> PromptState]
  BY <1>1, Parts DEF TypeOK, PromptState
<1>7. AppendsOK(appends')
  BY <1>1, Parts, AppendsTypes
<1>8. TypeOK'
  BY <1>1, <1>3, <1>5, <1>6, <1>7, Parts, PartTypes DEF TypeOK, history, budget
<1> QED BY <1>1, <1>2, <1>3, <1>4, <1>5, <1>8, StaysUp, Parts DEF history
-----------------------------------------------------------------------------
(* Crash and recovery *)

\* With no server running, only the durable part of the invariant matters.
LEMMA StaysDown ==
  ASSUME ~Running', TypeOK', Quiet', writes' = <<>>,
         \A h \in Handlers : request'[h].stage = "idle",
         starting' = NotStarting, HandedOver(receipt', dispatched'),
         active' \in Tracked => receipt'[active'] \in Ran
  PROVE  IInv'
<1>1. WritesOK(writes')
  BY DEF WritesOK
<1>2. AdmissionOK(starting', receipt', dispatched')
  BY NoAdmission
<1>3. Insertions'
  BY DEF Insertions, InsertStage
<1> QED BY <1>1, <1>2, <1>3 DEF IInv

\* What runs while the server does not: nothing.
LEMMA Silent ==
  ASSUME IInv, ~Running
  PROVE  /\ starting = NotStarting /\ lease = FALSE /\ writes = <<>> /\ appends = <<>>
         /\ runtime = "closed" /\ \A h \in Handlers : delivery[h] = "none"
         /\ \A h \in Handlers : request[h].stage = "idle"
         /\ \A i \in Prompts : prompt[i] = "none"
BY DEF IInv, Quiet

\* A crash keeps the receipts and may leave the queue file old or new.
LEMMA CrashStep ==
  ASSUME IInv, Crash
  PROVE  IInv'
<1>1. disk' \in Seq(Prompts) /\ IsInjective(disk')
  <2>1. CASE writes = <<>>
    BY <2>1, Parts DEF Crash, TypeOK
  <2>2. CASE writes # <<>>
    <3>1. Head(writes).items \in Seq(Prompts) /\ IsInjective(Head(writes).items)
      BY <2>2, Parts, NextWritesOK
    <3> QED BY <3>1, Parts DEF Crash, TypeOK
  <2> QED BY <2>1, <2>2
<1>2. /\ request' \in [Handlers -> Request] /\ starting' \in Starting
      /\ \A h \in Handlers : request'[h].stage = "idle"
  <2>1. starting' \in Starting
    BY NoAdmission DEF AdmissionOK, Crash
  <2> QED BY <2>1, IdleRequest DEF Crash
<1>3. /\ queue' = <<>> /\ writes' = <<>> /\ appends' = <<>> /\ starting' = NotStarting
      /\ server' = "down" /\ lease' = FALSE /\ prompt' = [i \in Prompts |-> "none"]
      /\ runtime' = "closed" /\ cancelling' = None /\ signalled' = {}
      /\ delivery' = [h \in Handlers |-> "none"] /\ crashes' \in 0..MaxCrashes
      /\ UNCHANGED <<receipt, active, history, writeFaults, faults, asks>>
  BY Parts, QueueAssumption DEF Crash, TypeOK
<1>4. /\ queue' \in Seq(Prompts) /\ IsInjective(queue') /\ writes' \in Seq(Write)
      /\ appends' \in Seq(Handlers \cup Prompts \cup {Starter})
  <2>1. IsInjective(<<>>)
    BY DEF IsInjective
  <2> QED BY <1>3, <2>1
<1>5. TypeOK'
  BY <1>1, <1>2, <1>3, <1>4, Parts
     DEF TypeOK, history, DeliveryState, RuntimeState, PromptState
<1>6. ~Running' /\ Quiet'
  BY <1>2, <1>3 DEF Running, Quiet
<1> QED BY <1>2, <1>3, <1>5, <1>6, StaysDown, Parts DEF history

\* engine.open ends the turn that was running; the queue file is read.
LEMMA RecoverStep ==
  ASSUME IInv, Recover
  PROVE  IInv'
<1>1. /\ server = "down" /\ server' = "recovering" /\ active' = None /\ queue' = disk
      /\ receipt' = IF active = None THEN receipt ELSE Complete(receipt, active)
      /\ UNCHANGED <<disk, writes, appends, starting, request, delivery, cancelling, runtime,
                     prompt, signalled, lease, history, budget>>
  BY DEF Recover
<1>2. ~Running /\ ~Running'
  BY <1>1 DEF Running
<1>3. /\ receipt' \in [Tracked -> ReceiptState]
      /\ \A j \in Tracked : receipt'[j] \in Ran <=> receipt[j] \in Ran
  BY <1>1, Parts, CompleteReceipt
<1>4. TypeOK'
  BY <1>1, <1>3, Parts DEF TypeOK, history, budget
<1>5. HandedOver(receipt', dispatched')
  BY <1>1, <1>3, Parts DEF HandedOver, history
<1>6. active' \notin Tracked
  BY <1>1, QueueAssumption
<1>7. Quiet'
  BY <1>1, <1>2, Silent DEF Quiet
<1> QED BY <1>1, <1>2, <1>4, <1>5, <1>6, <1>7, Silent, StaysDown

\* A prompt the receipts do not ask for is not queued again.
LEMMA DiscardStep ==
  ASSUME IInv, NEW i \in Prompts, Discard(i)
  PROVE  IInv'
<1>1. /\ server = "recovering" /\ queue' = Without(queue, i)
      /\ UNCHANGED <<durable, server, writes, appends, starting, request, delivery, cancelling,
                     runtime, prompt, signalled, lease, history, budget>>
  BY DEF Discard
<1>2. ~Running /\ ~Running'
  BY <1>1 DEF Running
<1>3. queue' \in Seq(Prompts) /\ IsInjective(queue')
  BY <1>1, Parts, WithoutPrompt
<1>4. TypeOK'
  BY <1>1, <1>3, Parts DEF TypeOK, durable, history, budget
<1>5. Quiet'
  BY <1>1, <1>2, Silent DEF Quiet
<1> QED BY <1>1, <1>2, <1>4, <1>5, Silent, StaysDown, Parts DEF durable, history

\* Every prompt left in the queue is recoverable, so it is accepted and has
\* not run.
LEMMA LoadStep ==
  ASSUME IInv, Load
  PROVE  IInv'
<1>1. /\ server = "recovering" /\ server' = "loaded" /\ disk' = queue
      /\ \A i \in Queued : Recoverable(i)
      /\ receipt' = [i \in Tracked |-> IF receipt[i] = "queued" /\ i \notin Queued
                                       THEN "payload_lost" ELSE receipt[i]]
      /\ UNCHANGED <<active, queue, writes, appends, starting, request, delivery, cancelling,
                     runtime, prompt, signalled, lease, history, budget>>
  BY DEF Load
<1>2. ~Running /\ Running'
  BY <1>1 DEF Running
<1>3. /\ starting' = NotStarting /\ writes' = <<>>
      /\ \A h \in Handlers : request'[h].stage = "idle"
  BY <1>1, <1>2, Silent
<1>4. /\ receipt' \in [Tracked -> ReceiptState]
      /\ \A j \in Tracked : /\ receipt'[j] \in Ran <=> receipt[j] \in Ran
                            /\ j \in Queued => receipt'[j] = "queued"
  BY <1>1, Parts DEF ReceiptState, Ran, Recoverable
<1>5. TypeOK'
  BY <1>1, <1>4, Parts DEF TypeOK, history, budget
<1>6. HandedOver(receipt', dispatched') /\ (active' \in Tracked => receipt'[active'] \in Ran)
  BY <1>1, <1>4, Parts DEF HandedOver, history
<1>7. WaitingOK(queue', receipt', request')
  BY <1>1, <1>4 DEF WaitingOK, Queued, Ran
<1>8. Insertions' /\ WritesOK(writes') /\ AdmissionOK(starting', receipt', dispatched')
  BY <1>3, NoAdmission DEF Insertions, InsertStage, WritesOK
<1>9. Quiet'
  BY <1>2 DEF Quiet
<1> QED BY <1>5, <1>6, <1>7, <1>8, <1>9 DEF IInv

-----------------------------------------------------------------------------
(* The invariant is inductive *)

\* The server starts with an empty queue.
LEMMA InitOK ==
  ASSUME Init
  PROVE  IInv
<1>1. /\ disk \in Seq(Prompts) /\ IsInjective(disk) /\ writes \in Seq(Write)
      /\ queue \in Seq(Prompts) /\ IsInjective(queue) /\ ToSet(queue) = {}
      /\ appends \in Seq(Handlers \cup Prompts \cup {Starter})
  <2>1. IsInjective(<<>>) /\ ToSet(<<>>) = {}
    BY DEF IsInjective, ToSet
  <2>2. disk = <<>> /\ queue = <<>> /\ writes = <<>> /\ appends = <<>>
    BY DEF Init
  <2> QED BY <2>1, <2>2
<1>2. /\ AdmissionOK(starting, receipt, dispatched) /\ starting \in Starting
      /\ request \in [Handlers -> Request] /\ \A h \in Handlers : request[h].stage = "idle"
  BY NoAdmission, IdleRequest DEF Init, AdmissionOK
<1>3. TypeOK
  <2>1. /\ receipt \in [Tracked -> ReceiptState] /\ delivery \in [Handlers -> DeliveryState]
        /\ prompt \in [Prompts -> PromptState] /\ dispatched \in [Prompts -> Nat]
    BY DEF Init, ReceiptState, DeliveryState, PromptState
  <2>2. /\ writeFaults \in 0..MaxWriteFaults /\ faults \in 0..MaxFaults
        /\ crashes \in 0..MaxCrashes /\ asks \in 0..MaxAsks
    BY QueueAssumption DEF Init
  <2>3. /\ active \in Prompts \cup {None} /\ cancelling \in Handlers \cup {None}
        /\ server \in {"down", "recovering", "loaded", "up"} /\ runtime \in RuntimeState
        /\ signalled \subseteq Prompts /\ lease \in BOOLEAN
        /\ sent \subseteq Prompts /\ unwanted \subseteq Prompts /\ dropped \subseteq Prompts
    BY DEF Init, RuntimeState
  <2> QED BY <1>1, <1>2, <2>1, <2>2, <2>3 DEF TypeOK
<1>4. WritesOK(writes) /\ WaitingOK(queue, receipt, request) /\ Insertions
  BY <1>1, <1>2 DEF Init, WritesOK, WaitingOK, Insertions, InsertStage
<1>5. HandedOver(receipt, dispatched) /\ active \notin Tracked
  BY QueueAssumption DEF Init, HandedOver
<1>6. Quiet
  BY DEF Init, Quiet, Running
<1> QED BY <1>2, <1>3, <1>4, <1>5, <1>6 DEF IInv

\* Every step of a request handler keeps the invariant.
LEMMA HandlersKeep ==
  ASSUME IInv, NEW h \in Handlers, UserStep(h) \/ HandlerStep(h)
  PROVE  IInv'
<1>1. CASE UserStep(h)
  <2>1. ASSUME NEW i \in Prompts, NEW mode \in {"send", "steer"}, Send(h, i, mode)
        PROVE  IInv'
    BY <2>1, SendStep
  <2>2. ASSUME NEW i \in Prompts, Promote(h, i) \/ Edit(h, i)
        PROVE  IInv'
    BY <2>2, PromoteStep, EditStep
  <2>3. CASE StopTurn(h)
    BY <2>3, StopTurnStep
  <2> QED BY <1>1, <2>1, <2>2, <2>3, DropRequests DEF UserStep
<1>2. CASE HandlerStep(h)
  <2>1. CASE Insert(h) \/ InsertWritten(h) \/ InsertFails(h)
    BY <2>1, InsertStep, InsertWrittenStep, InsertFailsStep
  <2>2. CASE Accepted(h) \/ AcceptFails(h) \/ RolledBack(h)
    BY <2>2, AcceptedStep, AcceptFailsStep, RolledBackStep
  <2>3. CASE Moved(h) \/ Edited(h)
    BY <2>3, MovedStep, EditedStep
  <2>4. CASE DropWritten(h) \/ DropFails(h) \/ Marked(h)
    BY <2>4, DropWrittenStep, DropFailsStep, MarkedStep
  <2>5. CASE Stopping(h) \/ Flushed(h) \/ Ended(h) \/ Settled(h)
    BY <2>5, StoppingStep, FlushedStep, EndedStep, SettledStep
  <2>6. CASE Delivered(h) \/ DeliveryFails(h)
    BY <2>6, DeliveredStep, DisconnectStep DEF DeliveryFails
  <2> QED BY <1>2, <2>1, <2>2, <2>3, <2>4, <2>5, <2>6 DEF HandlerStep
<1> QED BY <1>1, <1>2

\* So does every other step, and a step that changes nothing.
LEMMA NextKeeps ==
  ASSUME IInv, [Next]_vars
  PROVE  IInv'
<1>1. ASSUME NEW h \in Handlers, UserStep(h) \/ HandlerStep(h) PROVE IInv'
  BY <1>1, HandlersKeep
<1>2. CASE StarterStep
  BY <1>2, CheckLeaseStep, PreparingStep, PreparedStep, RefusedStep, StartedStep, LaunchStep,
     LaunchFailsStep, AbortedStep DEF StarterStep
<1>3. ASSUME NEW i \in Prompts, TurnStep(i) PROVE IInv'
  BY <1>3, AnswerStep, SettleStep, EndTurnStep DEF TurnStep
<1>4. CASE ServerStep
  <2>1. CASE RuntimeLost \/ Closed \/ TakeLease
    BY <2>1, DisconnectStep, ClosedStep, TakeLeaseStep DEF RuntimeLost
  <2>2. CASE ReleaseLease \/ Bootstrap
    BY <2>2, QueueRestarts DEF Bootstrap
  <2>3. CASE Crash \/ Recover \/ Load
    BY <2>3, CrashStep, RecoverStep, LoadStep
  <2>4. ASSUME NEW i \in Prompts, Discard(i) PROVE IInv'
    BY <2>4, DiscardStep
  <2> QED BY <1>4, <2>1, <2>2, <2>3, <2>4 DEF ServerStep
<1>5. CASE UNCHANGED vars
  <2>1. /\ UNCHANGED <<receipt, active, disk, server, queue, writes, appends, starting, request>>
        /\ UNCHANGED <<delivery, cancelling, runtime, prompt, signalled, lease>>
        /\ UNCHANGED <<history, budget>>
    BY <1>5 DEF vars, durable, volatile
  <2>2. TypeOK'
    BY <2>1, Parts DEF TypeOK, history, budget
  <2>3. Quiet' /\ Insertions'
    BY <2>1, Parts DEF IInv, Quiet, Running, Insertions, Queued
  <2>4. Running' => WaitingOK(queue', receipt', request')
    BY <2>1, Parts DEF Running
  <2> QED BY <2>1, <2>2, <2>3, <2>4, Parts DEF IInv, history
<1> QED BY <1>1, <1>2, <1>3, <1>4, <1>5 DEF Next

\* What the invariant says in the words of the properties.
LEMMA IInvSuffices ==
  ASSUME IInv
  PROVE  TypeOK /\ SubmittedOnce /\ AcceptedBeforeStart
<1>1. SubmittedOnce
  BY Parts DEF HandedOver, SubmittedOnce
<1>2. ASSUME NEW i \in Tracked, starting.item = i \/ active = i \/ dispatched[i] > 0
      PROVE  receipt[i] # "none"
  <2>1. CASE starting.item = i
    BY <2>1, Parts DEF AdmissionOK, Ran
  <2>2. CASE active = i \/ dispatched[i] > 0
    BY <2>2, Parts DEF HandedOver, Ran
  <2> QED BY <1>2, <2>1, <2>2
<1> QED BY <1>1, <1>2, Parts DEF AcceptedBeforeStart

\* The invariant holds in every reachable state.
LEMMA Invariance == Spec => []IInv
<1>1. Init => IInv
  BY InitOK
<1>2. IInv /\ [Next]_vars => IInv'
  BY NextKeeps
<1> QED BY <1>1, <1>2, PTL DEF Spec

-----------------------------------------------------------------------------
(* How a step changes the queue, its snapshots, the requests and the admission *)

\* The stages in which a handler waits for a write of its own.
WriteStage == {"insert", "rollback", "move", "edit", "drop"}

\* How the queue file and its pending snapshots change: the queue is put on its
\* way as the step leaves it, the oldest snapshot arrives or fails, or the server
\* stops or loads.
WritesStep ==
  \/ UNCHANGED <<disk, writes>>
  \/ \E h \in Handlers : /\ writes' = Persist(writes, h, queue') /\ disk' = disk
                         /\ request[h].stage \notin WriteStage /\ request'[h].stage \in WriteStage
  \/ Started /\ writes' = Persist(writes, Starter, queue') /\ disk' = disk
  \/ /\ writes # <<>> /\ \E failed \in BOOLEAN : writes' = NextWrites(queue', failed)
     /\ disk' \in {disk, Head(writes).items}
     /\ Head(writes).owner = Starter => Launch \/ LaunchFails
  \/ Crash /\ writes' = <<>> /\ disk' \in {disk} \cup (IF writes = <<>> THEN {} ELSE {Head(writes).items})
  \/ Load /\ writes' = writes /\ disk' = queue

\* A request that takes prompts out of the queue.
Removes(h) == (\E i \in Prompts : RemoveQueued(h, i)) \/ ClearQueue(h) \/ \E clear \in BOOLEAN : Stop(h, clear)

\* What it takes out, it names, and the admission of what it takes out is cancelled.
LEMMA RemovesWhat ==
  ASSUME IInv, NEW h \in Handlers, Removes(h)
  PROVE  /\ Accepting(h) /\ request'[h].stage = "drop"
         /\ request'[h].drop \subseteq Queued
         /\ ToSet(queue') = Queued \ request'[h].drop
         /\ unwanted' = unwanted \cup request'[h].drop
         /\ writes' = Persist(writes, h, queue')
         /\ starting.item \in request'[h].drop => starting'.cancelled
         /\ request'[h].turn # None => 
              request'[h].turn = active /\ (starting.item # None => starting'.cancelled)
         /\ request'[h].item = None
<1>1. queue \in Seq(Prompts) /\ IsInjective(queue) /\ request \in [Handlers -> Request] /\ starting \in Starting
  BY DEF IInv, TypeOK
<1> DEFINE Shape(gone) ==
      /\ request'[h].stage = "drop" /\ request'[h].drop = gone /\ request'[h].item = None
      /\ ToSet(queue') = Queued \ gone /\ unwanted' = unwanted \cup gone
      /\ writes' = Persist(writes, h, queue')
      /\ starting.item \in gone => starting'.cancelled
      /\ request'[h].turn # None =>
           request'[h].turn = active /\ (starting.item # None => starting'.cancelled)
<1>2. ASSUME NEW kind, NEW gone, NEW left, NEW hit \in BOOLEAN, Drop(h, kind, gone, left, hit),
             ToSet(left) = Queued \ gone, starting.item \in gone => hit,
             kind = "stop" => (starting.item # None => hit)
      PROVE  Shape(gone)
  BY <1>1, <1>2 DEF Drop, CancelAdmission, Idle, Starting
<1>3. ToSet(<<>>) = {} /\ None \notin Queued
  BY <1>1, QueueAssumption DEF ToSet, Queued
<1>4. \A i : ToSet(Without(queue, i)) = Queued \ {i}
  BY <1>1, WithoutPrompt DEF Queued
<1> HIDE DEF Shape
<1>5. ASSUME NEW i \in Prompts, RemoveQueued(h, i)
      PROVE  Accepting(h) /\ Shape({i} \cap Queued)
  <2>1. Accepting(h) /\ Drop(h, "remove", {i} \cap Queued, Without(queue, i), starting.item = i)
    BY <1>5 DEF RemoveQueued
  <2>2. (starting.item = i) \in BOOLEAN /\ ToSet(Without(queue, i)) = Queued \ ({i} \cap Queued)
    BY <1>4
  <2> QED BY <2>1, <2>2, <1>2
<1>6. ASSUME ClearQueue(h)
      PROVE  Accepting(h) /\ Shape(Queued)
  <2>1. Accepting(h) /\ Drop(h, "clear", Queued, <<>>, starting.item # None)
    BY <1>6 DEF ClearQueue
  <2>2. (starting.item # None) \in BOOLEAN /\ None \notin Queued /\ ToSet(<<>>) = Queued \ Queued
    BY <1>3
  <2> QED BY <2>1, <2>2, <1>2
<1>7. ASSUME NEW clear \in BOOLEAN, Stop(h, clear)
      PROVE  Accepting(h) /\ \E gone \in SUBSET Queued : Shape(gone)
  <2> DEFINE i == starting.item
  <2>1. CASE clear
    <3>1. Accepting(h) /\ Drop(h, "stop", Queued, <<>>, i # None)
      BY <1>7, <2>1 DEF Stop
    <3>2. (i # None) \in BOOLEAN /\ None \notin Queued /\ ToSet(<<>>) = Queued \ Queued
      BY <1>3
    <3>3. Shape(Queued)
      BY <3>1, <3>2, <1>2
    <3> QED BY <3>1, <3>3
  <2>2. CASE ~clear
    <3>1. Accepting(h) /\ Drop(h, "stop", {i} \cap Queued, Without(queue, i), TRUE)
      BY <1>7, <2>2 DEF Stop
    <3>2. TRUE \in BOOLEAN /\ ToSet(Without(queue, i)) = Queued \ ({i} \cap Queued)
      BY <1>4
    <3>3. Shape({i} \cap Queued)
      BY <3>1, <3>2, <1>2
    <3> QED BY <3>1, <3>3
  <2> QED BY <2>1, <2>2
<1>8. Accepting(h) /\ \E gone \in SUBSET Queued : Shape(gone)
  BY <1>5, <1>6, <1>7 DEF Removes
<1> QED BY <1>8 DEF Shape

\* What a request becomes when a user asks for something.
LEMMA UserStages ==
  ASSUME IInv, NEW h \in Handlers, UserStep(h)
  PROVE  \/ request' = request
         \/ /\ request[h] = Idle
            /\ \/ /\ \E i \in Prompts : /\ request'[h].item = i
                                        /\ \E mode \in {"send", "steer"} : Send(h, i, mode)
                  /\ request'[h].stage = "gate" /\ request'[h].turn = None /\ request'[h].drop = {}
               \/ /\ \E i \in Prompts : Promote(h, i) /\ request'[h].item = i
                  /\ request'[h].stage = "move" /\ request'[h].turn = active /\ request'[h].drop = {}
               \/ /\ \E i \in Prompts : Edit(h, i) /\ request'[h].item = i
                  /\ request'[h].stage = "edit" /\ request'[h].turn = None /\ request'[h].drop = {}
               \/ Removes(h) /\ request'[h].stage = "drop"
               \/ /\ StopTurn(h) /\ active # None /\ request'[h].item = None
                  /\ request'[h].stage = "stopping" /\ request'[h].turn = active /\ request'[h].drop = {}
<1>0. request \in [Handlers -> Request]
  BY DEF IInv, TypeOK
<1>1. CASE Removes(h)
  BY <1>1, RemovesWhat DEF Accepting
<1>2. ASSUME NEW i \in Prompts, Promote(h, i)
      PROVE  /\ request[h] = Idle /\ request'[h].item = i
             /\ request'[h].stage = "move" /\ request'[h].turn = active /\ request'[h].drop = {}
  BY <1>0, <1>2 DEF Promote, Accepting, Idle
<1>3. ASSUME NEW i \in Prompts, Edit(h, i)
      PROVE  /\ request[h] = Idle /\ request'[h].item = i
             /\ request'[h].stage = "edit" /\ request'[h].turn = None /\ request'[h].drop = {}
  BY <1>0, <1>3 DEF Edit, Accepting, Idle
<1>4. ASSUME NEW i \in Prompts, NEW mode \in {"send", "steer"}, Send(h, i, mode)
      PROVE  /\ request[h] = Idle /\ request'[h].item = i
             /\ request'[h].stage = "gate" /\ request'[h].turn = None /\ request'[h].drop = {}
  BY <1>0, <1>4 DEF Send, Idle
<1>5. CASE StopTurn(h) /\ active = None
  BY <1>5 DEF StopTurn
<1>6. CASE StopTurn(h) /\ active # None
  <2>1. /\ request[h] = Idle
        /\ request' = [request EXCEPT ![h] = [Idle EXCEPT !.stage = "stopping", !.kind = "stop",
                                                         !.turn = active]]
    BY <1>6 DEF StopTurn, Accepting
  <2>2. /\ request'[h].stage = "stopping" /\ request'[h].turn = active
        /\ request'[h].item = None /\ request'[h].drop = {}
    BY <1>0, <2>1 DEF Idle
  <2> QED BY <1>6, <2>1, <2>2
<1>7. \/ \E i \in Prompts : Promote(h, i) \/ Edit(h, i) \/ \E mode \in {"send", "steer"} : Send(h, i, mode)
      \/ Removes(h) \/ StopTurn(h)
  BY DEF UserStep, Removes
<1> QED BY <1>1, <1>2, <1>3, <1>4, <1>5, <1>6, <1>7

\* A step does one of these to the file and its snapshots.
LEMMA WritesSteps ==
  ASSUME IInv, [Next]_vars
  PROVE  WritesStep
<1>0. request \in [Handlers -> Request] /\ Starter \notin Handlers
  BY QueueAssumption DEF IInv, TypeOK
<1> USE DEF WritesStep
<1>1. ASSUME NEW h \in Handlers, UserStep(h) PROVE WritesStep
  <2>1. CASE Removes(h)
    <3>1. disk' = disk
      BY <2>1 DEF Removes, RemoveQueued, ClearQueue, Stop, Drop, durable
    <3> QED BY <2>1, <3>1, RemovesWhat DEF Accepting, Idle, WriteStage
  <2>2. ASSUME NEW i \in Prompts, Promote(h, i) \/ Edit(h, i) PROVE WritesStep
    <3>1. request[h].stage = "idle"
      BY <2>2 DEF Promote, Edit, Accepting, Idle
    <3>2. CASE Promote(h, i)
      <4>1. request'[h].stage = "move"
        BY <1>0, <3>2 DEF Promote, Idle
      <4> QED BY <3>1, <3>2, <4>1 DEF Promote, WriteStage, durable
    <3>3. CASE Edit(h, i)
      <4>1. request'[h].stage = "edit"
        BY <1>0, <3>3 DEF Edit, Idle
      <4> QED BY <3>1, <3>3, <4>1 DEF Edit, WriteStage, durable
    <3> QED BY <2>2, <3>2, <3>3
  <2>3. ~(\E i \in Prompts : Promote(h, i) \/ Edit(h, i)) /\ ~Removes(h) => UNCHANGED <<disk, writes>>
    BY <1>1 DEF UserStep, Send, StopTurn, Removes, durable
  <2> QED BY <2>1, <2>2, <2>3
<1>2. ASSUME NEW h \in Handlers, HandlerStep(h) PROVE WritesStep
  <2>1. CASE Insert(h) \/ AcceptFails(h)
    <3>1. writes' = Persist(writes, h, queue') /\ disk' = disk /\ request[h].stage \in {"gate", "accept"}
      BY <2>1 DEF Insert, AcceptFails, durable
    <3>2. request'[h].stage \in {"insert", "rollback"}
      BY <1>0, <2>1 DEF Insert, AcceptFails, Request
    <3> QED BY <3>1, <3>2 DEF WriteStage
  <2>2. CASE ~(Insert(h) \/ AcceptFails(h))
    BY <1>0, <1>2, <2>2 DEF HandlerStep, InsertWritten, InsertFails, Accepted, RolledBack,
     Moved, Edited, DropWritten, DropFails, Marked, Stopping, Delivered, DeliveryFails, Disconnect,
     Flushed, Ended, Settled, durable, Writing
  <2> QED BY <2>1, <2>2
<1>3. CASE StarterStep
  BY <1>3 DEF StarterStep, CheckLease, Preparing, Prepared, Refused, Started, Launch, LaunchFails,
     Aborted, durable, Writing
<1>4. ASSUME NEW i \in Prompts, TurnStep(i) PROVE WritesStep
  BY <1>4 DEF TurnStep, Answer, Settle, EndTurn, durable
<1>5. CASE ServerStep
  <2>1. CASE Load
    BY <2>1 DEF Load
  <2>2. CASE Crash
    BY <2>2 DEF Crash
  <2> QED BY <1>5, <2>1, <2>2 DEF ServerStep, RuntimeLost, Disconnect, Closed, TakeLease, ReleaseLease,
       Recover, Discard, Bootstrap, durable
<1>6. CASE UNCHANGED vars
  BY <1>6 DEF vars, durable, volatile
<1> QED BY <1>1, <1>2, <1>3, <1>4, <1>5, <1>6 DEF Next

\* How a request goes on: where its handler may go from each await.
GoesOn == {<<"accept", "rollback">>, <<"drop", "mark">>,
           <<"insert", "stopping">>, <<"accept", "stopping">>, <<"move", "stopping">>,
           <<"drop", "stopping">>, <<"mark", "stopping">>, <<"stopping", "flush">>,
           <<"flush", "ending">>, <<"flush", "settle">>, <<"ending", "settle">>}

\* Nothing that names prompts changes in a request.
SameNames(a, b) == a.item = b.item /\ a.turn = b.turn /\ a.drop = b.drop

RequestStep(g) ==
  \/ request'[g].stage = request[g].stage /\ SameNames(request'[g], request[g])
  \/ request'[g] = Idle
  \/ <<request[g].stage, request'[g].stage>> \in GoesOn /\ SameNames(request'[g], request[g])
  \/ Insert(g)
  \/ InsertWritten(g) /\ request'[g].stage = "accept" /\ SameNames(request'[g], request[g])
  \/ request[g] = Idle /\ UserStep(g) /\ request'[g].stage \in {"gate", "move", "edit", "drop", "stopping"}

\* A handler goes on along the stages of its request, and what it names is fixed when
\* it begins, or when its prompt is inserted.
LEMMA RequestSteps ==
  ASSUME IInv, [Next]_vars, NEW g \in Handlers
  PROVE  RequestStep(g)
<1>0. request \in [Handlers -> Request]
  BY DEF IInv, TypeOK
<1> USE <1>0 DEF RequestStep, SameNames, GoesOn, Request
<1>1. ASSUME NEW h \in Handlers, UserStep(h) PROVE RequestStep(g)
  <2>1. CASE h = g
    <3>1. \/ UNCHANGED request
          \/ request[g] = Idle /\ request'[g].stage \in {"gate", "move", "edit", "drop", "stopping"}
      <4> HIDE DEF RequestStep
      <4> QED BY <1>1, <2>1, UserStages
    <3> QED BY <1>1, <2>1, <3>1
  <2>2. CASE h # g
    BY <1>1, <2>2 DEF UserStep, Send, Promote, Edit, RemoveQueued, ClearQueue, Stop, StopTurn, Drop
  <2> QED BY <2>1, <2>2
<1>2. ASSUME NEW h \in Handlers, HandlerStep(h) PROVE RequestStep(g)
  <2>1. CASE h = g
    <3>a. ASSUME NEW pending, Placed(h, pending), request[h].stage \in {"insert", "accept", "move"}
          PROVE  RequestStep(g)
      BY <2>1, <3>a DEF Placed
    <3>b. ASSUME NEW pending, Dropped(h, pending), request[h].stage \in {"drop", "mark"}
          PROVE  RequestStep(g)
      BY <2>1, <3>b DEF Dropped
    <3>d. ASSUME InsertWritten(h), request' = [request EXCEPT ![h].stage = "accept"]
          PROVE  RequestStep(g)
      BY <2>1, <3>d
    <3>c. \/ request' = request
          \/ request' = [request EXCEPT ![h] = Idle]
          \/ \E s \in RequestStage : /\ request' = [request EXCEPT ![h].stage = s]
                                     /\ <<request[h].stage, s>> \in GoesOn
          => RequestStep(g)
      BY <2>1
    <3>1. CASE InsertWritten(h) \/ InsertFails(h) \/ Accepted(h) \/ AcceptFails(h) \/ RolledBack(h)
      <4> HIDE DEF RequestStep
      <4> QED BY <3>1, <3>a, <3>c, <3>d DEF InsertWritten, InsertFails, Accepted, AcceptFails, RolledBack, RequestStage
    <3>2. CASE Moved(h) \/ Edited(h) \/ DropWritten(h) \/ DropFails(h) \/ Marked(h)
      <4> HIDE DEF RequestStep
      <4> QED BY <3>2, <3>a, <3>b, <3>c DEF Moved, Edited, DropWritten, DropFails, Marked, RequestStage
    <3>3. CASE Stopping(h) \/ Flushed(h) \/ Ended(h) \/ Settled(h) \/ Delivered(h) \/ DeliveryFails(h)
      BY <2>1, <3>3 DEF Stopping, Delivered, DeliveryFails, Disconnect, Flushed, Ended, Settled, Detach
    <3> QED BY <1>2, <2>1, <3>1, <3>2, <3>3 DEF HandlerStep
  <2>2. CASE h # g
    <3>1. request'[g] = request[g]
      BY <1>2, <2>2 DEF HandlerStep, Insert, InsertWritten, InsertFails, Accepted, AcceptFails, RolledBack,
     Moved, Edited, DropWritten, DropFails, Marked, Stopping, Delivered, DeliveryFails, Disconnect,
     Flushed, Ended, Settled, Placed, Dropped, Detach
    <3> QED BY <3>1
  <2> QED BY <2>1, <2>2
<1>3. CASE StarterStep
  <2>1. ASSUME NEW q, NEW turn, Finish(q, turn) PROVE RequestStep(g)
    BY <2>1 DEF Finish
  <2>2. UNCHANGED request => RequestStep(g)
    OBVIOUS
  <2> HIDE DEF RequestStep
  <2> QED
    BY <1>3, <2>1, <2>2 DEF StarterStep, CheckLease, Preparing, Prepared, Refused, Started, Launch,
       LaunchFails, Aborted
<1>4. ASSUME NEW i \in Prompts, TurnStep(i) PROVE RequestStep(g)
  BY <1>4 DEF TurnStep, Answer, Settle, EndTurn
<1>5. CASE ServerStep
  BY <1>5 DEF ServerStep, RuntimeLost, Disconnect, Closed, TakeLease, ReleaseLease, Crash,
       Recover, Discard, Load, Bootstrap
<1>6. CASE UNCHANGED vars
  BY <1>6 DEF vars, volatile
<1> QED BY <1>1, <1>2, <1>3, <1>4, <1>5, <1>6 DEF Next

\* The stage of a request is changed by its own handler, or by a crash.
LEMMA OwnSteps ==
  ASSUME IInv, [Next]_vars, NEW h \in Handlers, request'[h].stage # request[h].stage
  PROVE  (Crash /\ request'[h] = Idle) \/ UserStep(h) \/ HandlerStep(h)
<1>0. request \in [Handlers -> Request]
  BY DEF IInv, TypeOK
<1>1. ASSUME NEW g \in Handlers \ {h}, UserStep(g) PROVE request'[h] = request[h]
  BY <1>0, <1>1 DEF UserStep, Send, Promote, Edit, RemoveQueued, ClearQueue, Stop, StopTurn, Drop
<1>2. ASSUME NEW g \in Handlers \ {h}, HandlerStep(g) PROVE request'[h] = request[h]
  BY <1>0, <1>2 DEF HandlerStep, Insert, InsertWritten, InsertFails, Accepted, AcceptFails,
     RolledBack, Moved, Edited, DropWritten, DropFails, Marked, Stopping, Delivered, DeliveryFails,
     Disconnect, Flushed, Ended, Settled, Placed, Dropped, Detach
<1>3. StarterStep => request'[h].stage = request[h].stage
  <2>1. ASSUME NEW q, NEW turn, Finish(q, turn) PROVE request'[h].stage = request[h].stage
    <3>1. request'[h] \in {request[h], [request[h] EXCEPT !.ref = "stale"]} /\ request[h] \in Request
      BY <1>0, <2>1 DEF Finish
    <3> QED BY <3>1 DEF Request
  <2> QED BY <2>1 DEF StarterStep, CheckLease, Preparing, Prepared, Refused, Started, Launch, LaunchFails,
     Aborted
<1>4. ASSUME NEW i \in Prompts, TurnStep(i) PROVE request' = request
  BY <1>4 DEF TurnStep, Answer, Settle, EndTurn
<1>5. ServerStep => (Crash /\ request'[h] = Idle) \/ request' = request
  BY DEF ServerStep, RuntimeLost, Disconnect, Closed, TakeLease, ReleaseLease, Crash, Recover, Discard,
     Load, Bootstrap
<1>6. UNCHANGED vars => request' = request
  BY DEF vars, volatile
<1> QED BY <1>1, <1>2, <1>3, <1>4, <1>5, <1>6 DEF Next

\* How the admission goes on.
Before == {"lease", "prepare", "ready", "start", "refuse"}
AfterStart == {"persist", "abort"}

\* An admission that runNextQueued has just made.
Taken(adm, q, turn, cancel, r) ==
  /\ adm.item \in ToSet(q) \ Inserting(r) /\ adm.stage = "lease" /\ ~adm.cancelled
  /\ turn = None /\ cancel = None

GoesOnStarting ==
  /\ starting'.item = starting.item /\ (starting.cancelled => starting'.cancelled)
  /\ \/ starting'.stage = starting.stage
     \/ starting.stage \in Before /\ starting'.stage \in Before
     \/ starting.stage = "start" /\ starting'.stage = "persist" /\ Started
     \/ starting.stage = "persist" /\ starting'.stage = "abort" /\ Launch

AdmissionStep ==
  \/ GoesOnStarting
  \/ starting' = NotStarting /\ (CheckLease \/ Refused \/ Launch \/ LaunchFails \/ Aborted \/ Crash)
  \/ /\ Taken(starting', queue', active', cancelling', request')
     /\ starting.item = None \/ CheckLease \/ Refused \/ Launch \/ LaunchFails \/ Aborted

\* runNextQueued admits the head of the queue, or nothing.
LEMMA Next1Cases ==
  ASSUME NEW q \in Seq(Prompts), NEW turn, NEW adm, NEW cancel, NEW r
  PROVE  \/ Next1(q, turn, adm, cancel, r) = adm
         \/ adm.item = None /\ Taken(Next1(q, turn, adm, cancel, r), q, turn, cancel, r)
BY HeadInQueue DEF Next1, NotStarting, Taken

\* An admission goes on, ends, or is made: it is never replaced.
LEMMA AdmissionSteps ==
  ASSUME IInv, [Next]_vars
  PROVE  AdmissionStep
<1>0. starting \in Starting /\ queue \in Seq(Prompts) /\ queue' \in Seq(Prompts)
  BY NextKeeps DEF IInv, TypeOK
<1> DEFINE Restarted == starting' = Next1(queue', active', starting, cancelling', request')
<1>a. Restarted => AdmissionStep
  BY <1>0, Next1Cases DEF AdmissionStep, GoesOnStarting
<1>b. starting' = starting => AdmissionStep
  BY DEF AdmissionStep, GoesOnStarting
<1>c. \/ starting' = [starting EXCEPT !.restart = TRUE]
      \/ starting' = [starting EXCEPT !.cancelled = TRUE]
      \/ starting' = [starting EXCEPT !.outdated = TRUE]
      \/ starting' = [starting EXCEPT !.cancelled = TRUE, !.restart = TRUE]
      => AdmissionStep
  BY <1>0 DEF AdmissionStep, GoesOnStarting, Starting
<1> HIDE DEF Restarted
<1>1. ASSUME NEW h \in Handlers, UserStep(h) PROVE AdmissionStep
  BY <1>1, <1>a, <1>b, <1>c DEF UserStep, Send, Promote, Edit, RemoveQueued, ClearQueue, Stop, StopTurn,
     Drop, CancelAdmission, durable, Restarted
<1>2. ASSUME NEW h \in Handlers, HandlerStep(h) PROVE AdmissionStep
  <2>1. ASSUME NEW pending, Placed(h, pending), UNCHANGED <<queue, active, cancelling>>
        PROVE  AdmissionStep
    BY <2>1, <1>a, <1>b, <1>c DEF Placed, Restarted
  <2>2. ASSUME NEW pending, Dropped(h, pending), UNCHANGED <<queue, active, cancelling>>
        PROVE  AdmissionStep
    BY <2>2, <1>a, <1>b, <1>c DEF Dropped, Restart, Restarted
  <2>3. ASSUME NEW pending, NEW turn, Detach(h, turn, pending), turn = active', UNCHANGED <<queue, cancelling>>
        PROVE  AdmissionStep
    BY <2>3, <1>a, <1>b, <1>c DEF Detach, Restarted
  <2>4. CASE Insert(h) \/ InsertWritten(h) \/ InsertFails(h) \/ Accepted(h) \/ AcceptFails(h) \/ RolledBack(h)
    BY <2>1, <2>4, <1>a, <1>b DEF Insert, InsertWritten, InsertFails, Accepted, AcceptFails, RolledBack,
       Restarted, durable
  <2>5. CASE Moved(h) \/ Edited(h) \/ DropWritten(h) \/ DropFails(h) \/ Marked(h)
    BY <2>1, <2>2, <2>5, <1>b DEF Moved, Edited, DropWritten, DropFails, Marked, durable
  <2>6. CASE Stopping(h) \/ Flushed(h) \/ Ended(h) \/ Delivered(h) \/ DeliveryFails(h)
    BY <2>3, <2>6, <1>b DEF Stopping, Delivered, DeliveryFails, Disconnect, Flushed, Ended, durable
  <2>7. CASE Settled(h)
    BY <2>7, <1>a, <1>b DEF Settled, Restarted, durable
  <2> QED BY <1>2, <2>4, <2>5, <2>6, <2>7 DEF HandlerStep
<1>3. CASE StarterStep
  <2>1. ASSUME Finish(queue', active'), cancelling' = cancelling,
               CheckLease \/ Refused \/ Launch \/ LaunchFails \/ Aborted
        PROVE  AdmissionStep
    BY <2>1, <1>0, Next1Cases DEF Finish, AdmissionStep
  <2>2. CASE CheckLease \/ Preparing \/ Prepared
    BY <2>1, <2>2, <1>0 DEF CheckLease, Preparing, Prepared, AdmissionStep, GoesOnStarting, Before, Starting, durable
  <2>3. CASE Refused \/ LaunchFails \/ Aborted
    BY <2>1, <2>3 DEF Refused, LaunchFails, Aborted, durable
  <2>4. CASE Launch
    BY <2>1, <2>4, <1>0 DEF Launch, AdmissionStep, GoesOnStarting, Starting
  <2>5. CASE Started
    BY <2>5, <1>0 DEF Started, AdmissionStep, GoesOnStarting, Starting
  <2> QED
    BY <1>3, <2>2, <2>3, <2>4, <2>5 DEF StarterStep
<1>4. ASSUME NEW i \in Prompts, TurnStep(i) PROVE AdmissionStep
  BY <1>4, <1>a, <1>b DEF TurnStep, Answer, Settle, EndTurn, durable, Restarted
<1>5. CASE ServerStep
  BY <1>5, <1>a, <1>b DEF ServerStep, RuntimeLost, Disconnect, Closed, TakeLease, ReleaseLease, Crash,
       Recover, Discard, Load, Bootstrap, durable, Restarted, AdmissionStep
<1>6. CASE UNCHANGED vars
  BY <1>6, <1>b DEF vars, volatile
<1> QED BY <1>1, <1>2, <1>3, <1>4, <1>5, <1>6 DEF Next
-----------------------------------------------------------------------------
\* How the queue changes.
QueueStep ==
  \/ ToSet(queue') = Queued /\ UNCHANGED unwanted
  \/ \E h \in Handlers : Insert(h) /\ ToSet(queue') = Queued \cup {request[h].item}
  \/ \E h \in Handlers : /\ (InsertFails(h) \/ AcceptFails(h))
                         /\ ToSet(queue') = Queued \ {request[h].item}
  \/ \E h \in Handlers : Removes(h)
  \/ Started /\ ToSet(queue') = Queued \ {starting.item}
  \/ Crash \/ Recover
  \/ \E i \in Prompts : Discard(i) /\ ToSet(queue') = Queued \ {i}

\* How the queue, as a set, changes.
LEMMA QueueSteps ==
  ASSUME IInv, [Next]_vars
  PROVE  QueueStep
<1>1. queue \in Seq(Prompts) /\ IsInjective(queue)
  BY DEF IInv, TypeOK
<1>2. \A i : /\ Without(queue, i) \in Seq(Prompts) /\ IsInjective(Without(queue, i))
             /\ ToSet(Without(queue, i)) = Queued \ {i}
  BY <1>1, WithoutPrompt DEF Queued
<1>3. ASSUME NEW i \in Prompts, i \in Queued
      PROVE  ToSet(Cons(i, Without(queue, i))) = Queued
  <2>1. ToSet(Cons(i, Without(queue, i))) = (Queued \ {i}) \cup {i}
    BY <1>2, ConsPrompt
  <2> QED BY <1>3, <2>1
<1>4. ASSUME NEW i \in Prompts, i \notin Queued
      PROVE  ToSet(Cons(i, queue)) = Queued \cup {i} /\ ToSet(Append(queue, i)) = Queued \cup {i}
  BY <1>1, <1>4, ConsPrompt, AppendPrompt DEF Queued
<1> USE DEF QueueStep, Queued
<1>5. ASSUME NEW h \in Handlers, UserStep(h) PROVE QueueStep
  BY <1>3, <1>5 DEF UserStep, Send, Promote, Edit, StopTurn, Removes, history
<1>6. ASSUME NEW h \in Handlers, Insert(h) PROVE QueueStep
  <2>1. request[h].item \in Prompts /\ request[h].item \notin Queued
    BY <1>6, Parts DEF Insert, Insertions, InsertStage
  <2> QED BY <1>4, <1>6, <2>1 DEF Insert
<1>7. ASSUME NEW h \in Handlers, HandlerStep(h), ~Insert(h) PROVE QueueStep
  <2>1. CASE InsertFails(h) \/ AcceptFails(h)
    BY <1>2, <2>1 DEF InsertFails, AcceptFails
  <2> QED
  BY <1>7, <2>1 DEF HandlerStep, InsertWritten, InsertFails, Accepted, AcceptFails, RolledBack,
     Moved, Edited, DropWritten, DropFails, Marked, Stopping, Delivered, DeliveryFails, Disconnect,
     Flushed, Ended, Settled, history
<1>8. CASE StarterStep
  BY <1>2, <1>8 DEF StarterStep, CheckLease, Preparing, Prepared, Refused, Started, Launch, LaunchFails,
     Aborted, history
<1>9. ASSUME NEW i \in Prompts, TurnStep(i) PROVE QueueStep
  BY <1>9 DEF TurnStep, Answer, Settle, EndTurn, history
<1>10. CASE ServerStep
  BY <1>2, <1>10 DEF ServerStep, RuntimeLost, Disconnect, Closed, TakeLease, ReleaseLease, Discard, Load, Bootstrap, history
<1>11. CASE UNCHANGED vars
  BY <1>11 DEF vars, volatile, history
<1> QED BY <1>5, <1>6, <1>7, <1>8, <1>9, <1>10, <1>11 DEF Next

\* How the receipts change.
ReceiptStep ==
  \A i \in Tracked :
    /\ receipt'[i] = "none" => receipt[i] = "none"
    /\ receipt'[i] = "queued" => receipt[i] = "queued" \/ \E h \in Handlers : Accepted(h) /\ request[h].item = i
    /\ receipt'[i] = "payload_lost" =>
         receipt[i] = "payload_lost" \/ (Load /\ receipt[i] = "queued" /\ i \notin Queued)

\* How receipts change.
LEMMA ReceiptSteps ==
  ASSUME IInv, [Next]_vars
  PROVE  ReceiptStep
<1>1. receipt \in [Tracked -> ReceiptState]
  BY DEF IInv, TypeOK
<1>2. receipt' = receipt \/ (\E t : receipt' = Complete(receipt, t)) => ReceiptStep
  BY <1>1 DEF Complete, ReceiptStep
<1>3. ASSUME NEW h \in Handlers, UserStep(h) PROVE receipt' = receipt
  BY <1>3 DEF UserStep, Send, Promote, Edit, RemoveQueued, ClearQueue, Stop, StopTurn, Drop, durable
<1>4. ASSUME NEW h \in Handlers, HandlerStep(h) PROVE ReceiptStep
  <2>1. CASE Accepted(h)
    BY <1>1, <2>1 DEF Accepted, ReceiptStep
  <2>2. CASE Marked(h)
    BY <1>1, <2>2 DEF Marked, ReceiptStep
  <2>3. CASE Ended(h)
    BY <1>2, <2>3 DEF Ended
  <2>4. CASE ~(Accepted(h) \/ Marked(h) \/ Ended(h))
    <3>1. receipt' = receipt
      BY <1>4, <2>4 DEF HandlerStep, Insert, InsertWritten, InsertFails, AcceptFails, RolledBack,
         Moved, Edited, DropWritten, DropFails, Stopping, Delivered, DeliveryFails, Disconnect,
         Flushed, Settled, durable
    <3> QED BY <1>2, <3>1
  <2> QED BY <2>1, <2>2, <2>3, <2>4
<1>5. CASE StarterStep
  <2>1. CASE Started
    BY <1>1, <2>1 DEF Started, ReceiptStep
  <2>2. CASE Aborted
    BY <1>2, <2>2 DEF Aborted
  <2>3. CASE ~(Started \/ Aborted)
    <3>1. receipt' = receipt
      BY <1>5, <2>3 DEF StarterStep, CheckLease, Preparing, Prepared, Refused, Launch, LaunchFails, durable
    <3> QED BY <1>2, <3>1
  <2> QED BY <2>1, <2>2, <2>3
<1>6. ASSUME NEW i \in Prompts, TurnStep(i) PROVE ReceiptStep
  BY <1>2, <1>6 DEF TurnStep, Answer, Settle, EndTurn, durable
<1>7. CASE ServerStep
  <2>1. CASE Load
    BY <1>1, <2>1 DEF Load, ReceiptStep
  <2>2. CASE Recover
    BY <1>2, <2>2 DEF Recover
  <2>3. CASE ~(Load \/ Recover)
    <3>1. receipt' = receipt
      BY <1>7, <2>3 DEF ServerStep, RuntimeLost, Disconnect, Closed, TakeLease, ReleaseLease, Crash,
         Discard, Bootstrap, durable
    <3> QED BY <1>2, <3>1
  <2> QED BY <2>1, <2>2, <2>3
<1>8. CASE UNCHANGED vars
  BY <1>2, <1>8 DEF vars, durable
<1> QED BY <1>3, <1>2, <1>4, <1>5, <1>6, <1>7, <1>8 DEF Next

-----------------------------------------------------------------------------
(* An accepted submission stays on disk *)

\* Every snapshot that is still to be written holds the prompt.
OnTheWay(i) == \A k \in DOMAIN writes : i \in ToSet(writes[k].items)
Held(i) == i \in Queued /\ OnTheWay(i)

Durability ==
  /\ \A i \in Tracked \ unwanted :
       /\ receipt[i] # "payload_lost"
       /\ receipt[i] = "queued" => i \in ToSet(disk) /\ (server # "down" => Held(i))
  /\ \A h \in Handlers : request[h].stage \in {"insert", "accept"} /\ request[h].item \in Tracked =>
       /\ Held(request[h].item)
       /\ request[h].stage = "accept" => request[h].item \in ToSet(disk)

\* A snapshot of the queue that joins the pending ones is the last of them.
LEMMA PersistShape ==
  ASSUME NEW o \in Handlers \cup {Starter}, WritesOK(writes), writes' = Persist(writes, o, queue')
  PROVE  \E n \in Nat : /\ DOMAIN writes' = DOMAIN writes \cup {n}
                        /\ \A k \in DOMAIN writes : writes'[k] = writes[k] /\ k \in Nat /\ k < n
                        /\ writes'[n].owner = o
                        /\ writes'[n].items = queue'
<1> DEFINE w == [owner |-> o, items |-> queue', fresh |-> TRUE]
           n == Len(writes) + 1
<1>1. writes \in Seq(Write)
  BY DEF WritesOK
<1>2. w.owner = o /\ w.items = queue' /\ writes' = Append(writes, w)
  BY DEF Persist
<1> HIDE DEF w
<1>3. /\ DOMAIN writes' = 1..n /\ DOMAIN writes = 1..Len(writes) /\ Len(writes) \in Nat
      /\ \A k \in 1..Len(writes) : writes'[k] = writes[k]
      /\ writes'[n] = w
  BY <1>1, <1>2
<1>4. n \in Nat /\ 1..n = (1..Len(writes)) \cup {n} /\ \A k \in 1..Len(writes) : k \in Nat /\ k < n
  BY <1>3
<1> HIDE DEF n
<1> QED BY <1>2, <1>3, <1>4

\* When the oldest snapshot is done the others move up; what they hold stays, or is
\* the queue of now.
LEMMA NextWritesShape ==
  ASSUME NEW q, NEW failed \in BOOLEAN, WritesOK(writes), writes # <<>>
  PROVE  /\ 1 \in DOMAIN writes /\ Head(writes) = writes[1]
         /\ DOMAIN NextWrites(q, failed) = 1..Len(writes) - 1 /\ Len(writes) \in Nat
         /\ DOMAIN writes = 1..Len(writes)
         /\ \A k \in DOMAIN NextWrites(q, failed) :
              /\ k + 1 \in DOMAIN writes
              /\ NextWrites(q, failed)[k].owner = writes[k + 1].owner
              /\ NextWrites(q, failed)[k].items \in {writes[k + 1].items, q}
<1> DEFINE n == Len(writes) - 1
           rest == [k \in DOMAIN Tail(writes) |->
                      [Tail(writes)[k] EXCEPT !.fresh = @ /\ ~failed]]
<1>1. writes \in Seq(Write) /\ Len(writes) \in Nat \ {0} /\ Head(writes) = writes[1]
      /\ DOMAIN writes = 1..Len(writes)
  BY DEF WritesOK
<1>2. n \in Nat /\ DOMAIN rest = 1..n
  BY <1>1
<1>3. ASSUME NEW k \in 1..n
      PROVE  /\ k + 1 \in DOMAIN writes
             /\ rest[k].owner = writes[k + 1].owner /\ rest[k].items = writes[k + 1].items
             /\ rest[k] \in Write
  <2>1. Tail(writes)[k] = writes[k + 1] /\ k + 1 \in DOMAIN writes
    BY <1>1
  <2>2. writes[k + 1] \in Write
    BY <2>1, <1>1
  <2>3. rest[k] = [writes[k + 1] EXCEPT !.fresh = @ /\ ~failed]
    BY <2>1, <1>2
  <2> QED BY <2>1, <2>2, <2>3 DEF Write
<1> HIDE DEF rest
<1>4. ASSUME rest # <<>>
      PROVE  LET new == [rest EXCEPT ![1] = [@ EXCEPT !.items = q, !.fresh = TRUE]]
             IN  /\ DOMAIN new = 1..n
                 /\ \A k \in 1..n : /\ new[k].owner = rest[k].owner
                                    /\ new[k].items \in {rest[k].items, q}
  <2>1. ASSUME NEW r \in Write, NEW x
        PROVE  /\ [r EXCEPT !.items = x, !.fresh = TRUE].owner = r.owner
               /\ [r EXCEPT !.items = x, !.fresh = TRUE].items = x
    BY DEF Write
  <2>2. \A k \in 1..n : rest[k] \in Write
    BY <1>3
  <2> QED BY <1>2, <2>1, <2>2
<1>5. /\ DOMAIN NextWrites(q, failed) = 1..n
      /\ \A k \in 1..n : /\ NextWrites(q, failed)[k].owner = rest[k].owner
                         /\ NextWrites(q, failed)[k].items \in {rest[k].items, q}
  BY <1>2, <1>4 DEF NextWrites, rest
<1> QED BY <1>1, <1>2, <1>3, <1>5

\* The requests and history that only grow, and a server that is down.
LEMMA Grows ==
  ASSUME [Next]_vars
  PROVE  sent \subseteq sent' /\ unwanted \subseteq unwanted' /\ dropped \subseteq dropped'
<1>1. ASSUME NEW h \in Handlers, UserStep(h)
      PROVE  sent \subseteq sent' /\ unwanted \subseteq unwanted' /\ dropped \subseteq dropped'
  BY <1>1 DEF UserStep, Send, Promote, Edit, RemoveQueued, ClearQueue, Stop, StopTurn, Drop, history
<1>2. ASSUME NEW h \in Handlers, HandlerStep(h)
      PROVE  sent \subseteq sent' /\ unwanted \subseteq unwanted' /\ dropped \subseteq dropped'
  BY <1>2 DEF HandlerStep, Insert, InsertWritten, InsertFails, Accepted, AcceptFails, RolledBack,
     Moved, Edited, DropWritten, DropFails, Marked, Dropped, Stopping, Delivered, DeliveryFails,
     Disconnect, Flushed, Ended, Settled, history
<1>3. ~(\E h \in Handlers : UserStep(h) \/ HandlerStep(h)) => UNCHANGED <<sent, unwanted, dropped>>
  BY DEF Next, StarterStep, CheckLease, Preparing, Prepared, Refused, Started, Launch, LaunchFails,
     Aborted, TurnStep, Answer, Settle, EndTurn, ServerStep, RuntimeLost, Disconnect, Closed,
     TakeLease, ReleaseLease, Crash, Recover, Discard, Load, Bootstrap, vars, history
<1> QED BY <1>1, <1>2, <1>3

\* A server that is down recovers, or nothing happens.
LEMMA DownStep ==
  ASSUME IInv, [Next]_vars, server = "down"
  PROVE  Recover \/ (UNCHANGED <<receipt, active, disk, server, queue, writes, starting, request,
                                 prompt, unwanted, dropped, sent>>)
<1>1. /\ ~Running /\ starting = NotStarting /\ writes = <<>> /\ appends = <<>> /\ lease = FALSE
      /\ runtime = "closed" /\ \A h \in Handlers : request[h].stage = "idle"
      /\ \A h \in Handlers : delivery[h] = "none"
      /\ \A i \in Prompts : prompt[i] = "none"
  BY DEF IInv, Quiet, Running
<1>2. ~ \E h \in Handlers : UserStep(h)
  BY <1>1 DEF UserStep, Send, Promote, Edit, RemoveQueued, ClearQueue, Stop, StopTurn, Accepting
<1>3. ~ \E h \in Handlers : HandlerStep(h)
  BY <1>1 DEF HandlerStep, Insert, InsertWritten, InsertFails, Accepted, AcceptFails, RolledBack,
     Moved, Edited, DropWritten, DropFails, Marked, Stopping, Delivered, DeliveryFails,
     Flushed, Ended, Settled
<1>4. ~StarterStep /\ ~ \E i \in Prompts : TurnStep(i)
  BY <1>1 DEF StarterStep, CheckLease, Preparing, Prepared, Refused, Started, Launch, LaunchFails,
     Aborted, TurnStep, Answer, Settle, EndTurn, NotStarting
<1>5. ServerStep => Recover
  BY <1>1 DEF ServerStep, RuntimeLost, Disconnect, Closed, TakeLease, ReleaseLease, Crash, Discard, Load,
     Bootstrap
<1>6. UNCHANGED vars => UNCHANGED <<receipt, active, disk, server, queue, writes, starting, request,
                                 prompt, unwanted, dropped, sent>>
  BY DEF vars, durable, volatile, history
<1> QED BY <1>2, <1>3, <1>4, <1>5, <1>6 DEF Next

\* A prompt every snapshot holds stays in every snapshot while it waits ...
LEMMA HoldsOnTheWay ==
  ASSUME NEW i \in Prompts, IInv, WritesStep, OnTheWay(i), i \in ToSet(queue')
  PROVE  \A k \in DOMAIN writes' : i \in ToSet(writes'[k].items)
<1>1. WritesOK(writes)
  BY DEF IInv
<1>2. ASSUME NEW o \in Handlers \cup {Starter}, writes' = Persist(writes, o, queue')
      PROVE  \A k \in DOMAIN writes' : i \in ToSet(writes'[k].items)
  <2>1. \E n \in Nat : /\ DOMAIN writes' = DOMAIN writes \cup {n}
                       /\ \A k \in DOMAIN writes : writes'[k] = writes[k]
                       /\ writes'[n].items = queue'
    BY <1>1, <1>2, PersistShape
  <2> QED BY <2>1 DEF OnTheWay
<1>3. ASSUME NEW failed \in BOOLEAN, writes # <<>>, writes' = NextWrites(queue', failed)
      PROVE  \A k \in DOMAIN writes' : i \in ToSet(writes'[k].items)
  BY <1>1, <1>3, NextWritesShape DEF OnTheWay
<1>4. writes' = <<>> => \A k \in DOMAIN writes' : i \in ToSet(writes'[k].items)
  OBVIOUS
<1> QED BY <1>2, <1>3, <1>4 DEF WritesStep, OnTheWay

\* ... and on disk.
LEMMA HoldsOnDisk ==
  ASSUME NEW i \in Prompts, IInv, WritesStep, OnTheWay(i), i \in ToSet(disk), i \in Queued
  PROVE  i \in ToSet(disk')
<1>1. writes # <<>> => i \in ToSet(Head(writes).items)
  BY NextWritesShape DEF IInv, OnTheWay
<1> QED BY <1>1 DEF WritesStep, Queued

\* A submission nobody asked to drop leaves the queue only when it starts.
LEMMA QueuedStays ==
  ASSUME IInv, QueueStep, NEW i \in Tracked, i \notin unwanted', i \in Queued,
         server # "down", server' # "down", receipt[i] = "queued", receipt'[i] = "queued"
  PROVE  i \in ToSet(queue')
<1>1. /\ receipt \in [Tracked -> ReceiptState] /\ Insertions
  BY DEF IInv, TypeOK
<1>2. ASSUME NEW h \in Handlers, InsertFails(h) \/ AcceptFails(h) PROVE request[h].item # i
  BY <1>1, <1>2 DEF InsertFails, AcceptFails, Insertions, InsertStage
<1>3. ASSUME NEW h \in Handlers, Removes(h) PROVE i \in ToSet(queue')
  BY <1>3, RemovesWhat
<1>4. Started => i # starting.item
  BY <1>1 DEF Started
<1>5. ~Crash /\ ~Recover
  BY DEF Crash, Recover
<1>6. ASSUME NEW j \in Prompts, Discard(j) PROVE i # j
  BY <1>6 DEF Discard, Recoverable
<1> QED BY <1>2, <1>3, <1>4, <1>5, <1>6 DEF QueueStep

\* What is being inserted stays in the queue until it is accepted.
LEMMA InsertedStays ==
  ASSUME IInv, QueueStep, NEW h \in Handlers, request[h].item \in Tracked, request[h].item \in Queued,
         request[h].stage \in {"insert", "accept"}, request'[h].stage \in {"insert", "accept"}
  PROVE  request[h].item \in ToSet(queue')
<1> DEFINE i == request[h].item
<1>1. /\ request \in [Handlers -> Request] /\ Insertions /\ Running
      /\ AdmissionOK(starting, receipt, dispatched)
  BY Busy DEF IInv, TypeOK
<1>2. ASSUME NEW g \in Handlers, InsertFails(g) \/ AcceptFails(g) PROVE request[g].item # i
  <2>1. g # h
    <3>1. InsertFails(g) => request'[g].stage = "idle"
      BY <1>1 DEF InsertFails, Idle
    <3>2. AcceptFails(g) => request'[g].stage = "rollback"
      BY <1>1 DEF AcceptFails, Request
    <3> QED BY <1>2, <3>1, <3>2
  <2> QED BY <1>1, <1>2, <2>1 DEF InsertFails, AcceptFails, Insertions, InsertStage
<1>3. ASSUME NEW g \in Handlers, Removes(g) PROVE FALSE
  <2>1. Inserting(request) = {}
    BY <1>3, RemovesWhat DEF Accepting
  <2> QED BY <2>1, InsertingIff DEF InsertStage
<1>4. Started => i # starting.item
  BY <1>1 DEF Started, AdmissionOK, Insertions, InsertStage
<1>5. ~Crash
  BY DEF Crash, Idle
<1>6. ~Recover /\ ~ \E j \in Prompts : Discard(j)
  BY <1>1 DEF Recover, Discard, Running
<1> QED BY <1>2, <1>3, <1>4, <1>5, <1>6 DEF QueueStep

\* So no step loses an accepted submission.
LEMMA DurabilityStep ==
  ASSUME IInv, [Next]_vars, Durability
  PROVE  Durability'
<1>1. /\ WritesStep /\ QueueStep /\ ReceiptStep /\ \A g \in Handlers : RequestStep(g)
      /\ unwanted \subseteq unwanted'
  BY WritesSteps, QueueSteps, ReceiptSteps, RequestSteps, Grows
<1>2. ASSUME NEW i \in Tracked \ unwanted', receipt[i] = "queued", receipt'[i] = "queued"
      PROVE  i \in ToSet(disk') /\ (server' # "down" => Held(i)')
  <2>1. i \in ToSet(disk) /\ (server # "down" => Held(i))
    BY <1>1, <1>2 DEF Durability
  <2>2. CASE server = "down"
    <3>1. CASE Recover
      BY <2>1, <2>2, <3>1 DEF Recover, Held, OnTheWay, durable, IInv, Quiet, Running, Queued
    <3>2. CASE UNCHANGED <<disk, server>>
      BY <2>1, <2>2, <3>2
    <3> QED BY <2>2, <3>1, <3>2, DownStep
  <2>3. CASE server # "down"
    <3>1. i \in ToSet(disk')
      BY <1>1, <2>1, <2>3, HoldsOnDisk, QueueAssumption DEF Held
    <3>2. ASSUME server' # "down" PROVE i \in ToSet(queue')
      BY <1>1, <1>2, <2>1, <2>3, <3>2, QueuedStays DEF Held
    <3>3. server' # "down" => OnTheWay(i)'
      BY <1>1, <2>1, <2>3, <3>2, HoldsOnTheWay, QueueAssumption DEF OnTheWay, Held
    <3> QED BY <3>1, <3>2, <3>3 DEF Held, Queued
  <2> QED BY <2>2, <2>3
<1>3. ASSUME NEW h \in Handlers, Accepted(h), NEW i \in Tracked, i = request[h].item
      PROVE  i \in ToSet(disk') /\ Held(i)'
  <2>1. i \in ToSet(disk) /\ Held(i)
    BY <1>3 DEF Durability, Accepted
  <2>2. UNCHANGED <<disk, queue, writes>>
    BY <1>3 DEF Accepted
  <2> QED BY <2>1, <2>2 DEF Held, OnTheWay, Queued
<1>4. ASSUME NEW i \in Tracked \ unwanted', receipt'[i] = "queued"
      PROVE  i \in ToSet(disk') /\ (server' # "down" => Held(i)')
  BY <1>1, <1>2, <1>3, <1>4 DEF ReceiptStep
<1>5. ASSUME NEW i \in Tracked \ unwanted' PROVE receipt'[i] # "payload_lost"
  <2>1. receipt[i] # "payload_lost" /\ (receipt[i] = "queued" /\ server # "down" => i \in Queued)
    BY <1>1 DEF Durability, Held
  <2> QED BY <1>1, <2>1 DEF ReceiptStep, Load
<1>6. ASSUME NEW h \in Handlers, request'[h].stage \in {"insert", "accept"},
             NEW i \in Tracked, i = request'[h].item
      PROVE  Held(i)' /\ (request'[h].stage = "accept" => i \in ToSet(disk'))
  <2>0. request \in [Handlers -> Request]
    BY DEF IInv, TypeOK
  <2>1. CASE Insert(h)
    <3>1. /\ writes = <<>> /\ writes' = Persist(writes, h, queue') /\ request[h].item = i
          /\ request'[h].stage = "insert"
      BY <1>6, <2>0, <2>1 DEF Insert, Request
    <3>2. i \in ToSet(queue')
      <4>1. i \in Prompts /\ queue \in Seq(Prompts) /\ IsInjective(queue) /\ i \notin ToSet(queue)
        BY <2>1, <3>1, Parts DEF Insert, Insertions, InsertStage, Queued
      <4>2. i \in ToSet(Append(queue, i)) /\ i \in ToSet(Cons(i, queue))
        BY <4>1, AppendPrompt, ConsPrompt
      <4>3. queue' = Append(queue, i) \/ queue' = Cons(i, queue)
        BY <2>1, <3>1 DEF Insert
      <4> QED BY <4>2, <4>3
    <3>3. OnTheWay(i)
      BY <3>1 DEF OnTheWay
    <3> QED BY <1>1, <3>1, <3>2, <3>3, HoldsOnTheWay, QueueAssumption DEF OnTheWay, Held, Queued
  <2>2. CASE request[h].stage \in {"insert", "accept"} /\ request[h].item = i
    <3>1. Held(i)
      BY <2>2 DEF Durability
    <3>2. i \in ToSet(queue')
      BY <1>1, <1>6, <2>2, <3>1, InsertedStays DEF Held
    <3>3. Held(i)'
      BY <1>1, <3>1, <3>2, HoldsOnTheWay, QueueAssumption DEF OnTheWay, Held, Queued
    <3>4. ASSUME request[h].stage = "accept" PROVE i \in ToSet(disk')
      <4>1. i \in ToSet(disk)
        BY <2>2, <3>4 DEF Durability
      <4> QED BY <1>1, <3>1, <4>1, HoldsOnDisk, QueueAssumption DEF Held
    <3>5. ASSUME InsertWritten(h) PROVE i \in ToSet(disk')
      <4>1. disk' = Head(writes).items /\ writes # <<>>
        BY <3>5 DEF InsertWritten, Writing
      <4>2. Head(writes) = writes[1] /\ 1 \in DOMAIN writes
        BY <4>1, NextWritesShape DEF IInv
      <4> QED BY <3>1, <4>1, <4>2 DEF Held, OnTheWay
    <3>6. request'[h].stage = "accept" => request[h].stage = "accept" \/ InsertWritten(h)
      <4>1. Insert(h) => request'[h].stage = "insert"
        BY <2>0 DEF Insert, Request
      <4>2. RequestStep(h)
        BY <1>1
      <4> QED BY <4>1, <4>2 DEF RequestStep, GoesOn, Idle
    <3> QED BY <1>6, <3>3, <3>4, <3>5, <3>6
  <2>3. RequestStep(h) /\ (InsertWritten(h) => request[h].stage = "insert")
    BY <1>1 DEF InsertWritten
  <2> QED BY <1>6, <2>1, <2>2, <2>3 DEF RequestStep, GoesOn, Idle, SameNames
<1> QED BY <1>4, <1>5, <1>6 DEF Durability

\* Nothing is accepted at first.
LEMMA DurabilityInit == Init => Durability
<1> SUFFICES ASSUME Init PROVE Durability
  OBVIOUS
<1> QED BY QueueAssumption DEF Init, Durability, Idle

-----------------------------------------------------------------------------
(* How turns and calls begin and end *)

\* What a snapshot holds was the queue at some time: a step makes none up.
LEMMA SnapshotSources ==
  ASSUME IInv, WritesStep
  PROVE  /\ \A k \in DOMAIN writes' : \/ writes'[k].items = queue'
                                      \/ \E l \in DOMAIN writes : writes'[k].items = writes[l].items
         /\ \/ disk' = disk \/ disk' = queue
            \/ \E l \in DOMAIN writes : disk' = writes[l].items
<1>1. WritesOK(writes)
  BY DEF IInv
<1>2. ASSUME NEW o \in Handlers \cup {Starter}, writes' = Persist(writes, o, queue')
      PROVE  \A k \in DOMAIN writes' : \/ writes'[k].items = queue'
                                       \/ \E l \in DOMAIN writes : writes'[k].items = writes[l].items
  <2>1. \E n \in Nat : /\ DOMAIN writes' = DOMAIN writes \cup {n}
                       /\ \A k \in DOMAIN writes : writes'[k] = writes[k]
                       /\ writes'[n].items = queue'
    BY <1>1, <1>2, PersistShape
  <2> QED BY <2>1
<1>3. ASSUME NEW failed \in BOOLEAN, writes # <<>>, writes' = NextWrites(queue', failed)
      PROVE  \A k \in DOMAIN writes' : \/ writes'[k].items = queue'
                                       \/ \E l \in DOMAIN writes : writes'[k].items = writes[l].items
  BY <1>1, <1>3, NextWritesShape
<1>4. writes # <<>> => 1 \in DOMAIN writes /\ Head(writes) = writes[1]
  BY <1>1, NextWritesShape
<1>5. writes' = <<>> => DOMAIN writes' = {}
  OBVIOUS
<1> QED BY <1>2, <1>3, <1>4, <1>5 DEF WritesStep

\* How the active turn changes.
LEMMA ActiveSteps ==
  ASSUME IInv, [Next]_vars
  PROVE  active' = active \/ active' = None \/ (Started /\ active' = starting.item)
<1>1. ASSUME NEW h \in Handlers, UserStep(h) PROVE active' = active
  BY <1>1 DEF UserStep, Send, Promote, Edit, RemoveQueued, ClearQueue, Stop, StopTurn, Drop, durable
<1>2. ASSUME NEW h \in Handlers, HandlerStep(h) PROVE active' = active \/ active' = None
  BY <1>2 DEF HandlerStep, Insert, InsertWritten, InsertFails, Accepted, AcceptFails, RolledBack,
     Moved, Edited, DropWritten, DropFails, Marked, Stopping, Delivered, DeliveryFails, Disconnect,
     Flushed, Ended, Settled, durable
<1>3. CASE StarterStep
  BY <1>3 DEF StarterStep, CheckLease, Preparing, Prepared, Refused, Started, Launch, LaunchFails,
     Aborted, durable
<1>4. ASSUME NEW i \in Prompts, TurnStep(i) PROVE active' = active \/ active' = None
  BY <1>4 DEF TurnStep, Answer, Settle, EndTurn, durable
<1>5. CASE ServerStep
  BY <1>5 DEF ServerStep, RuntimeLost, Disconnect, Closed, TakeLease, ReleaseLease, Crash, Recover,
     Discard, Load, Bootstrap, durable
<1>6. CASE UNCHANGED vars
  BY <1>6 DEF vars, durable
<1> QED BY <1>1, <1>2, <1>3, <1>4, <1>5, <1>6 DEF Next

\* When the server runs.
LEMMA RunningSteps ==
  ASSUME IInv, [Next]_vars
  PROVE  /\ Running' => Running \/ Load
         /\ Running /\ ~Running' => Crash
         /\ server' = "recovering" => Recover \/ (server = "recovering" /\ UNCHANGED active)
<1>1. server' = server \/ Crash \/ Recover \/ Load \/ Bootstrap
  <2>1. ASSUME NEW h \in Handlers, UserStep(h) PROVE server' = server
    BY <2>1 DEF UserStep, Send, Promote, Edit, RemoveQueued, ClearQueue, Stop, StopTurn, Drop
  <2>2. ASSUME NEW h \in Handlers, HandlerStep(h) PROVE server' = server
    BY <2>2 DEF HandlerStep, Insert, InsertWritten, InsertFails, Accepted, AcceptFails, RolledBack,
       Moved, Edited, DropWritten, DropFails, Marked, Stopping, Delivered, DeliveryFails, Disconnect,
       Flushed, Ended, Settled
  <2>3. CASE StarterStep
    BY <2>3 DEF StarterStep, CheckLease, Preparing, Prepared, Refused, Started, Launch, LaunchFails, Aborted
  <2>4. ASSUME NEW i \in Prompts, TurnStep(i) PROVE server' = server
    BY <2>4 DEF TurnStep, Answer, Settle, EndTurn
  <2>5. CASE ServerStep
    BY <2>5 DEF ServerStep, RuntimeLost, Disconnect, Closed, TakeLease, ReleaseLease, Discard
  <2>6. CASE UNCHANGED vars
    BY <2>6 DEF vars, volatile
  <2> QED BY <2>1, <2>2, <2>3, <2>4, <2>5, <2>6 DEF Next
<1>2. server = "recovering" /\ server' = "recovering" => UNCHANGED active
  <2>1. ASSUME server = "recovering", \E h \in Handlers : Ended(h) PROVE FALSE
    BY <2>1, Busy DEF Ended, Running
  <2>2. ASSUME server = "recovering", Started \/ Aborted PROVE FALSE
    BY <2>2, Busy DEF Started, Aborted, Running
  <2>3. ASSUME server = "recovering", \E i \in Prompts : EndTurn(i) PROVE FALSE
    BY <2>3, Busy DEF EndTurn, Running
  <2>4. ASSUME server = "recovering", Recover PROVE FALSE
    BY <2>4 DEF Recover
  <2>5. ASSUME NEW h \in Handlers, UserStep(h) PROVE active' = active
    BY <2>5 DEF UserStep, Send, Promote, Edit, RemoveQueued, ClearQueue, Stop, StopTurn, Drop, durable
  <2>6. ASSUME NEW h \in Handlers, HandlerStep(h), ~Ended(h) PROVE active' = active
    BY <2>6 DEF HandlerStep, Insert, InsertWritten, InsertFails, Accepted, AcceptFails, RolledBack,
       Moved, Edited, DropWritten, DropFails, Marked, Stopping, Delivered, DeliveryFails, Disconnect,
       Flushed, Settled, durable
  <2>7. StarterStep /\ ~Started /\ ~Aborted => active' = active
    BY DEF StarterStep, CheckLease, Preparing, Prepared, Refused, Launch, LaunchFails, durable
  <2>8. ASSUME NEW i \in Prompts, TurnStep(i), ~EndTurn(i) PROVE active' = active
    BY <2>8 DEF TurnStep, Answer, Settle, durable
  <2>9. ServerStep /\ ~Recover => active' = active
    BY DEF ServerStep, RuntimeLost, Disconnect, Closed, TakeLease, ReleaseLease, Crash,
       Discard, Load, Bootstrap, durable
  <2>10. UNCHANGED vars => active' = active
    BY DEF vars, durable
  <2> QED BY <2>1, <2>2, <2>3, <2>4, <2>5, <2>6, <2>7, <2>8, <2>9, <2>10 DEF Next
<1>3. /\ Crash => server' = "down"
      /\ Recover => server = "down" /\ server' = "recovering"
      /\ Load => server = "recovering" /\ server' = "loaded"
      /\ Bootstrap => Running /\ server' = "up"
  BY DEF Crash, Recover, Load, Bootstrap
<1> QED BY <1>1, <1>2, <1>3 DEF Running

\* How the calls to the agent begin and end.
PromptStep ==
  \A i \in Prompts :
    /\ prompt'[i] # "none" /\ prompt[i] = "none" =>
         /\ starting.item = i /\ starting.stage = "persist"
         /\ (Launch /\ active = i) \/ LaunchFails
    /\ prompt'[i] = "none" /\ prompt[i] # "none" => Crash \/ active' # i
    /\ prompt'[i] = "open" =>
         \/ prompt[i] = "open"
         \/ /\ Launch /\ runtime = "open" /\ active = i /\ starting.item = i /\ starting.stage = "persist"
            /\ ~starting.cancelled

\* A call begins where a turn is launched, and ends with its turn.
LEMMA PromptSteps ==
  ASSUME IInv, [Next]_vars
  PROVE  PromptStep
<1>0. prompt \in [Prompts -> PromptState] /\ prompt' \in [Prompts -> PromptState] /\ None \notin Prompts
  BY NextKeeps, QueueAssumption DEF IInv, TypeOK
<1>a. prompt' = prompt => PromptStep
  BY DEF PromptStep
<1>1. ASSUME NEW h \in Handlers, UserStep(h) PROVE prompt' = prompt
  BY <1>1 DEF UserStep, Send, Promote, Edit, RemoveQueued, ClearQueue, Stop, StopTurn, Drop
<1>2. CASE Disconnect
  BY <1>0, <1>2 DEF Disconnect, PromptStep
<1>3. ASSUME NEW h \in Handlers, HandlerStep(h), ~Disconnect PROVE prompt' = prompt
  BY <1>3 DEF HandlerStep, Insert, InsertWritten, InsertFails, Accepted, AcceptFails, RolledBack,
     Moved, Edited, DropWritten, DropFails, Marked, Stopping, Delivered, DeliveryFails, 
     Flushed, Ended, Settled
<1>4. CASE Launch
  BY <1>0, <1>4 DEF Launch, PromptStep
<1>5. CASE LaunchFails
  BY <1>0, <1>5 DEF LaunchFails, PromptStep
<1>6. StarterStep /\ ~Launch /\ ~LaunchFails => prompt' = prompt
  BY DEF StarterStep, CheckLease, Preparing, Prepared, Refused, Started, Aborted
<1>7. ASSUME NEW i \in Prompts, TurnStep(i) PROVE PromptStep
  <2>1. CASE Answer(i)
    BY <1>0, <2>1 DEF Answer, PromptStep
  <2>2. CASE Settle(i)
    BY <1>0, <2>2 DEF Settle, PromptStep, durable
  <2>3. CASE EndTurn(i)
    BY <1>0, <2>3 DEF EndTurn, PromptStep
  <2> QED BY <1>7, <2>1, <2>2, <2>3 DEF TurnStep
<1>8. CASE Crash
  BY <1>0, <1>8 DEF Crash, PromptStep
<1>9. ServerStep /\ ~Disconnect /\ ~Crash => prompt' = prompt
  BY DEF ServerStep, RuntimeLost, Closed, TakeLease, ReleaseLease, Recover, Discard, Load, Bootstrap
<1>10. UNCHANGED vars => prompt' = prompt
  BY DEF vars, volatile
<1> QED BY <1>a, <1>1, <1>2, <1>3, <1>4, <1>5, <1>6, <1>7, <1>8, <1>9, <1>10 DEF Next, ServerStep, RuntimeLost, HandlerStep, DeliveryFails

-----------------------------------------------------------------------------
(* Past the insertion gate *)

\* The turn a request is about was active when it came.
LEMMA TurnSources ==
  ASSUME IInv, [Next]_vars, NEW h \in Handlers, request'[h].turn # None
  PROVE  request'[h].turn = request[h].turn \/ (Running /\ request'[h].turn = active)
<1>0. request \in [Handlers -> Request]
  BY DEF IInv, TypeOK
<1>1. CASE Insert(h)
  <2>1. Running
    BY <1>1, Busy DEF Insert
  <2> QED BY <1>0, <1>1, <2>1 DEF Insert, Request
<1>2. CASE request[h] = Idle /\ UserStep(h)
  BY <1>2, UserStages, RemovesWhat DEF Promote, StopTurn, Accepting
<1>3. request'[h] = Idle => request'[h].turn = None
  BY DEF Idle
<1> QED BY <1>1, <1>2, <1>3, RequestSteps DEF RequestStep, SameNames

\* Only a submission that is to be taken comes to the gate.
LEMMA GateSources ==
  ASSUME IInv, [Next]_vars, NEW i \in Prompts, i \in Inserting(request')
  PROVE  i \in Inserting(request) \/ (Unanswered(i) /\ i \in sent')
<1>0. request \in [Handlers -> Request]
  BY DEF IInv, TypeOK
<1>1. PICK h \in Handlers : request'[h].stage \in InsertStage /\ request'[h].item = i
  BY InsertingIff
<1>2. CASE request[h] = Idle /\ UserStep(h)
  <2>1. request'[h].stage \in InsertStage /\ request[h].stage \notin InsertStage
    BY <1>1, <1>2 DEF Idle, InsertStage
  <2>2. \E mode \in {"send", "steer"} : Send(h, i, mode)
    BY <1>1, <1>2, <2>1, UserStages DEF InsertStage
  <2> QED BY <2>2 DEF Send
<1>3. CASE Insert(h)
  BY <1>0, <1>1, <1>3, InsertingIff DEF Insert, Request, InsertStage
<1>4. CASE request'[h].stage = request[h].stage /\ SameNames(request'[h], request[h])
  BY <1>1, <1>4, InsertingIff DEF SameNames
<1>5. CASE <<request[h].stage, request'[h].stage>> \in GoesOn /\ SameNames(request'[h], request[h])
  BY <1>1, <1>5, InsertingIff DEF GoesOn, SameNames, InsertStage
<1>6. CASE InsertWritten(h) /\ SameNames(request'[h], request[h])
  BY <1>1, <1>6, InsertingIff DEF InsertWritten, SameNames, InsertStage
<1>7. request'[h] # Idle
  BY <1>1 DEF Idle, InsertStage
<1> QED BY <1>2, <1>3, <1>4, <1>5, <1>6, <1>7, RequestSteps DEF RequestStep

\* A prompt that is past the insertion gate: it is not being inserted, and a
\* retry of its submission is answered without inserting it again.
Passed(i) == i \notin Inserting(request) /\ ~Unanswered(i)

\* It is so for good.
LEMMA PassedStays ==
  ASSUME IInv, [Next]_vars, NEW i \in Prompts, Passed(i)
  PROVE  Passed(i)'
<1>1. ~Unanswered(i)'
  BY Grows, ReceiptSteps DEF Passed, Unanswered, ReceiptStep
<1> QED BY <1>1, GateSources DEF Passed

\* What waits, in memory or in a file, was submitted once.
SentOK ==
  /\ Queued \subseteq sent /\ Inserting(request) \subseteq sent /\ ToSet(disk) \subseteq sent
  /\ \A k \in DOMAIN writes : ToSet(writes[k].items) \subseteq sent

\* A step brings nothing into the queue or a file that was not submitted.
LEMMA SentStep ==
  ASSUME IInv, [Next]_vars, SentOK
  PROVE  SentOK'
<1>1. sent \subseteq sent'
  BY Grows
<1>2. ToSet(queue') \subseteq sent'
  <2>1. CASE Crash
    BY <2>1 DEF Crash, ToSet
  <2>2. CASE Recover
    BY <1>1, <2>2 DEF Recover, SentOK
  <2>3. ASSUME NEW h \in Handlers, Insert(h) PROVE request[h].item \in sent
    BY <2>3, InsertingIff DEF Insert, SentOK, InsertStage
  <2>4. ASSUME NEW h \in Handlers, Removes(h) PROVE ToSet(queue') \subseteq Queued
    BY <2>4, RemovesWhat
  <2> QED BY <1>1, <2>1, <2>2, <2>3, <2>4, QueueSteps DEF QueueStep, SentOK
<1>3. Inserting(request') \subseteq sent'
  <2>1. Inserting(request') \subseteq Prompts
    BY NextKeeps, InsertingIff DEF IInv, Insertions
  <2> QED BY <1>1, <2>1, GateSources DEF SentOK
<1> QED BY <1>1, <1>2, <1>3, WritesSteps, SnapshotSources DEF SentOK, Queued

\* What a request asked to drop, what starts and what started is past the gate,
\* and nothing runs before the recovered queue is loaded.
PassedOK ==
  /\ \A i \in unwanted : Passed(i)
  /\ starting.item # None => Passed(starting.item)
  /\ \A h \in Handlers : request[h].turn # None => Passed(request[h].turn)
  /\ \A i \in Prompts : prompt[i] # "none" => Passed(i)
  /\ Running /\ active # None => Passed(active)
  /\ server = "recovering" => active = None

\* What waits is past the gate once its insertion is settled.
LEMMA QueuedPassed ==
  ASSUME IInv, SentOK, Running, NEW i \in Queued, i \notin Inserting(request)
  PROVE  Passed(i)
BY Parts DEF SentOK, Passed, Unanswered, WaitingOK, Queued

\* Every step keeps that: what starts comes from the queue, and what is dropped or
\* cancelled comes from the queue or was started.
LEMMA PassedStep ==
  ASSUME IInv, [Next]_vars, SentOK, PassedOK
  PROVE  PassedOK'
<1>0. /\ starting.item \in Prompts \cup {None} /\ active \in Prompts \cup {None} /\ unwanted \subseteq Prompts
      /\ \A h \in Handlers : request[h].turn \in Prompts \cup {None}
      /\ queue \in Seq(Prompts)
  BY DEF IInv, TypeOK, Starting, Request
<1>1. SentOK' /\ IInv'
  BY SentStep, NextKeeps
<1>2. ASSUME NEW i \in unwanted' PROVE Passed(i)'
  <2>1. CASE i \in unwanted
    BY <1>0, <2>1, PassedStays DEF PassedOK
  <2>2. CASE i \notin unwanted
    <3>1. PICK h \in Handlers : Removes(h)
      <4>1. \A h \in Handlers : HandlerStep(h) => unwanted' = unwanted
        BY DEF HandlerStep, Insert, InsertWritten, InsertFails, Accepted, AcceptFails, RolledBack,
           Moved, Edited, DropWritten, DropFails, Marked, Stopping, Delivered, DeliveryFails,
           Disconnect, Flushed, Ended, Settled, history
      <4>2. \A h \in Handlers : UserStep(h) /\ ~Removes(h) => unwanted' = unwanted
        BY DEF UserStep, Send, Promote, Edit, StopTurn, Removes, history
      <4>3. ~(\E h \in Handlers : UserStep(h) \/ HandlerStep(h)) => unwanted' = unwanted
        BY DEF Next, StarterStep, CheckLease, Preparing, Prepared, Refused, Started, Launch, LaunchFails,
           Aborted, TurnStep, Answer, Settle, EndTurn, ServerStep, RuntimeLost, Disconnect, Closed,
           TakeLease, ReleaseLease, Crash, Recover, Discard, Load, Bootstrap, vars, history
      <4> QED BY <2>2, <4>1, <4>2, <4>3
    <3>2. i \in Queued /\ Running /\ Inserting(request) = {}
      BY <2>2, <3>1, RemovesWhat DEF Accepting
    <3>3. Passed(i) /\ i \in Prompts
      BY <1>0, <3>2, QueuedPassed DEF Queued, ToSet
    <3> QED BY <3>3, PassedStays
  <2> QED BY <2>1, <2>2
<1>3. ASSUME NEW i \in Prompts, starting'.item = i PROVE Passed(i)'
  <2>1. CASE starting.item = i
    BY <1>0, <2>1, QueueAssumption, PassedStays DEF PassedOK
  <2>2. CASE Taken(starting', queue', active', cancelling', request')
    <3>1. i \in Queued' /\ i \notin Inserting(request') /\ Running'
      <4>1. starting'.stage # "none"
        BY <2>2 DEF Taken
      <4>2. Running'
        BY <1>1, <4>1 DEF IInv, Quiet, NotStarting
      <4> QED BY <1>3, <2>2, <4>2 DEF Taken, Queued
    <3>2. WaitingOK(queue', receipt', request') /\ Queued' \subseteq sent'
      BY <1>1, <3>1 DEF IInv, SentOK
    <3> QED BY <3>1, <3>2 DEF Passed, Unanswered, WaitingOK, Queued
  <2>3. starting' # NotStarting
    BY <1>3, QueueAssumption DEF NotStarting
  <2> QED BY <1>3, <2>1, <2>2, <2>3, AdmissionSteps DEF AdmissionStep, GoesOnStarting
<1>4. ASSUME NEW h \in Handlers, NEW i \in Prompts, request'[h].turn = i PROVE Passed(i)'
  <2>1. request[h].turn = i \/ (Running /\ active = i)
    BY <1>4, QueueAssumption, TurnSources
  <2> QED BY <2>1, QueueAssumption, PassedStays DEF PassedOK
<1>5. ASSUME NEW i \in Prompts, prompt'[i] # "none" PROVE Passed(i)'
  BY <1>5, QueueAssumption, PromptSteps, PassedStays DEF PromptStep, PassedOK
<1>6. ASSUME NEW i \in Prompts, Running', active' = i PROVE Passed(i)'
  <2>1. CASE Started /\ starting.item = i
    BY <2>1, QueueAssumption, PassedStays DEF PassedOK
  <2>2. CASE active = i
    BY <1>6, <2>2, QueueAssumption, PassedStays, RunningSteps DEF PassedOK, Load
  <2> QED BY <1>6, <2>1, <2>2, QueueAssumption, ActiveSteps
<1>7. server' = "recovering" => active' = None
  BY RunningSteps DEF Recover, PassedOK
<1>8. /\ starting'.item \in Prompts \cup {None} /\ active' \in Prompts \cup {None}
      /\ \A h \in Handlers : request'[h].turn \in Prompts \cup {None}
  BY <1>1 DEF IInv, TypeOK, Starting, Request
<1> QED BY <1>2, <1>3, <1>4, <1>5, <1>6, <1>7, <1>8 DEF PassedOK, Passed, Unanswered

-----------------------------------------------------------------------------
(* Turns that have begun *)

\* A turn that has begun: its prompt has left the queue and cannot come back
\* while the server lives, and an admission that still holds it is past TurnStarted.
Begun(i) ==
  /\ i \notin Queued /\ Passed(i)
  /\ starting.item = i => starting.stage \in AfterStart

\* A turn that has begun stays so until the server is started again: a retry of its
\* prompt does not pass Unanswered, and nothing else brings it back into the queue.
LEMMA BegunStays ==
  ASSUME IInv, [Next]_vars, NEW i \in Prompts, Begun(i), ~Recover
  PROVE  Begun(i)'
<1>1. Passed(i)'
  BY PassedStays DEF Begun
<1>2. i \notin ToSet(queue')
  <2>1. ASSUME NEW h \in Handlers, Insert(h) PROVE request[h].item # i
    BY <2>1, InsertingIff DEF Insert, InsertStage, Begun, Passed
  <2>2. CASE Crash
    BY <2>2 DEF Crash, ToSet
  <2>3. ASSUME NEW h \in Handlers, Removes(h) PROVE ToSet(queue') \subseteq Queued
    BY <2>3, RemovesWhat
  <2> QED BY <2>1, <2>2, <2>3, QueueSteps DEF QueueStep, Begun
<1>3. starting'.item = i => starting'.stage \in AfterStart
  <2>1. CASE GoesOnStarting
    BY <2>1 DEF GoesOnStarting, Begun, AfterStart, Before
  <2>2. CASE starting' = NotStarting
    BY <2>2, QueueAssumption DEF NotStarting
  <2>3. CASE Taken(starting', queue', active', cancelling', request')
    BY <1>2, <2>3 DEF Taken
  <2> QED BY <2>1, <2>2, <2>3, AdmissionSteps DEF AdmissionStep
<1> QED BY <1>1, <1>2, <1>3 DEF Begun, Queued, Passed, Unanswered

\* What is active, named by a request, past TurnStarted or with the agent has
\* begun; the admission is never of another prompt than the active one; and an
\* active turn is driven.
BegunOK ==
  /\ Running /\ active # None => Begun(active)
  /\ \A h \in Handlers : request[h].turn # None => Begun(request[h].turn) /\ request[h].stage # "idle"
  /\ starting.stage \in AfterStart => Begun(starting.item)
  /\ \A i \in Prompts : prompt[i] # "none" => Begun(i) /\ starting.item # i
  /\ starting.item # None /\ active # None => active = starting.item /\ starting.stage \in AfterStart
  /\ ActiveTurnIsDriven

\* With TurnStarted a turn has begun.
LEMMA StartedHasBegun ==
  ASSUME IInv, [Next]_vars, PassedOK, Started
  PROVE  /\ starting.item \in Prompts /\ active' = starting.item
         /\ starting'.item = starting.item /\ starting'.stage = "persist"
         /\ Begun(starting.item)'
<1>1. starting \in Starting /\ starting.item \in Prompts
  BY Parts DEF Started, AdmissionOK, Starting
<1>2. /\ active' = starting.item /\ starting'.item = starting.item /\ starting'.stage = "persist"
      /\ queue' = Without(queue, starting.item)
  BY <1>1 DEF Started, Starting
<1>3. starting.item \notin ToSet(queue')
  BY <1>2, Parts, WithoutPrompt
<1>4. Passed(starting.item)'
  <2>1. ASSUME NEW i \in Prompts, starting.item = i PROVE Passed(i)'
    BY <2>1, QueueAssumption, PassedStays DEF PassedOK
  <2> QED BY <1>1, <1>2, <2>1 DEF Passed, Unanswered
<1> QED BY <1>1, <1>2, <1>3, <1>4 DEF Begun, Queued, AfterStart

\* While the server runs, or after it crashed, every step keeps that.
LEMMA BegunStep ==
  ASSUME IInv, [Next]_vars, PassedOK, BegunOK, ~Recover
  PROVE  BegunOK'
<1>0. /\ starting.item \in Prompts \cup {None} /\ active \in Prompts \cup {None}
      /\ \A h \in Handlers : request[h].turn \in Prompts \cup {None}
      /\ None \notin Prompts
      /\ AdmissionOK(starting, receipt, dispatched)
      /\ request \in [Handlers -> Request]
  BY QueueAssumption DEF IInv, TypeOK, Starting, Request
<1>a. /\ starting'.item \in Prompts \cup {None} /\ active' \in Prompts \cup {None}
      /\ \A h \in Handlers : request'[h].turn \in Prompts \cup {None}
      /\ AdmissionOK(starting', receipt', dispatched')
  BY NextKeeps DEF IInv, TypeOK, Starting, Request
<1>1. ASSUME NEW i \in Prompts, Running', active' = i PROVE Begun(i)'
  <2>1. CASE Started /\ active' = starting.item
    BY <1>1, <2>1, StartedHasBegun
  <2>2. CASE active = i
    <3>1. Running
      BY <1>0, <1>1, <2>2, RunningSteps DEF PassedOK, Load
    <3> QED BY <1>0, <2>2, <3>1, BegunStays DEF BegunOK
  <2> QED BY <1>0, <1>1, <2>1, <2>2, ActiveSteps
<1>2. ASSUME NEW h \in Handlers, NEW i \in Prompts, request'[h].turn = i
      PROVE  Begun(i)' /\ request'[h].stage # "idle"
  <2>1. request[h].turn = i \/ (Running /\ active = i)
    BY <1>0, <1>2, TurnSources
  <2>2. Begun(i)'
    BY <1>0, <2>1, BegunStays DEF BegunOK
  <2>3. request'[h].stage # "idle"
    <3>1. Insert(h) => request'[h].stage = "insert"
      BY <1>0 DEF Insert, Request
    <3>2. request'[h] # Idle
      BY <1>0, <1>2 DEF Idle
    <3>3. request[h].turn = i => request[h].stage # "idle"
      BY <1>0 DEF BegunOK
    <3> QED BY <1>2, <3>1, <3>2, <3>3, RequestSteps DEF RequestStep, SameNames, GoesOn
  <2> QED BY <2>2, <2>3
<1>3. ASSUME NEW i \in Prompts, starting'.stage \in AfterStart, starting'.item = i PROVE Begun(i)'
  <2>1. CASE Started
    BY <1>3, <2>1, StartedHasBegun
  <2>2. CASE starting.item = i /\ starting.stage \in AfterStart
    BY <2>2, BegunStays DEF BegunOK
  <2>3. CASE GoesOnStarting /\ ~Started
    BY <1>3, <2>2, <2>3 DEF GoesOnStarting, AfterStart, Before
  <2>4. starting' # NotStarting /\ ~Taken(starting', queue', active', cancelling', request')
    BY <1>3 DEF NotStarting, Taken, AfterStart
  <2> QED BY <2>1, <2>3, <2>4, AdmissionSteps DEF AdmissionStep
<1>4. ASSUME NEW i \in Prompts, prompt'[i] # "none"
      PROVE  Begun(i)' /\ starting'.item # i
  <2>1. CASE prompt[i] # "none"
    <3>1. Begun(i)' /\ starting.item # i
      BY <2>1, BegunStays DEF BegunOK
    <3>2. starting'.item # i
      BY <1>0, <1>4, <3>1, AdmissionSteps DEF AdmissionStep, GoesOnStarting, NotStarting, Taken, Begun, Queued
    <3> QED BY <3>1, <3>2
  <2>2. CASE prompt[i] = "none"
    <3>1. starting.item = i /\ starting.stage = "persist" /\ ((Launch /\ active = i) \/ LaunchFails)
      BY <1>4, <2>2, PromptSteps DEF PromptStep
    <3>2. Begun(i)'
      BY <3>1, BegunStays DEF BegunOK, AfterStart
    <3>3. starting'.item # i
      <4>1. CASE Launch /\ active = i /\ starting.cancelled
        <5>1. prompt' = prompt
          BY <3>1, <4>1 DEF Launch
        <5> QED BY <1>4, <2>2, <5>1
      <4>2. CASE ~(Launch /\ active = i /\ starting.cancelled)
        <5>1. Finish(queue', active') /\ cancelling' = cancelling
          BY <3>1, <4>2 DEF Launch, LaunchFails, durable
        <5>2. starting' = NotStarting \/ Taken(starting', queue', active', cancelling', request')
          <6>1. queue' \in Seq(Prompts)
            BY NextKeeps DEF IInv, TypeOK
          <6> QED BY <5>1, <6>1, Next1Cases DEF Finish
        <5> QED BY <1>0, <3>2, <5>2 DEF NotStarting, Taken, Begun, Queued
      <4> QED BY <4>1, <4>2
    <3> QED BY <3>2, <3>3
  <2> QED BY <2>1, <2>2
<1>5. ASSUME starting'.item # None, active' # None
      PROVE  active' = starting'.item /\ starting'.stage \in AfterStart
  <2>1. CASE Started
    BY <2>1, StartedHasBegun DEF AfterStart
  <2>2. CASE active' = active /\ GoesOnStarting
    BY <1>5, <2>2 DEF GoesOnStarting, BegunOK, AfterStart, Before
  <2>3. starting' # NotStarting /\ ~Taken(starting', queue', active', cancelling', request')
    BY <1>5 DEF NotStarting, Taken
  <2> QED BY <1>5, <2>1, <2>2, <2>3, ActiveSteps, AdmissionSteps DEF AdmissionStep
<1>6. ASSUME NEW i \in Prompts, Running', active' = i
      PROVE  (starting'.item = i /\ starting'.stage \in AfterStart) \/ prompt'[i] # "none"
  <2>1. CASE Started
    BY <1>6, <2>1, StartedHasBegun DEF AfterStart
  <2>2. CASE ~Started
    <3>1. active = i /\ Running
      BY <1>0, <1>6, <2>2, ActiveSteps, RunningSteps DEF PassedOK, Load
    <3>2. CASE prompt[i] # "none"
      <4>1. ~Crash
        BY <1>6 DEF Crash, Running
      <4> QED BY <1>6, <3>2, <4>1, PromptSteps DEF PromptStep
    <3>3. CASE prompt[i] = "none"
      <4>1. starting.item = i /\ starting.stage \in AfterStart
        BY <1>0, <3>1, <3>3 DEF BegunOK, ActiveTurnIsDriven, AfterStart
      <4>2. CASE GoesOnStarting
        BY <4>1, <4>2 DEF GoesOnStarting, AfterStart, Before
      <4>3. CASE CheckLease \/ Refused \/ Crash
        BY <1>6, <4>1, <4>3 DEF CheckLease, Refused, Crash, Running, AfterStart
      <4>4. CASE Aborted
        BY <1>0, <1>6, <3>1, <4>1, <4>4 DEF Aborted
      <4>5. CASE Launch \/ LaunchFails
        <5>0. prompt \in [Prompts -> PromptState] /\ starting \in Starting
          BY DEF IInv, TypeOK
        <5>1. CASE LaunchFails
          BY <4>1, <5>0, <5>1 DEF LaunchFails
        <5>2. CASE Launch /\ starting.cancelled
          BY <3>1, <4>1, <5>0, <5>2 DEF Launch, AfterStart, Starting
        <5>3. CASE Launch /\ ~starting.cancelled
          BY <3>1, <4>1, <5>0, <5>3 DEF Launch
        <5> QED BY <4>5, <5>1, <5>2, <5>3
      <4> QED BY <1>0, <4>1, <4>2, <4>3, <4>4, <4>5, AdmissionSteps DEF AdmissionStep
    <3> QED BY <3>2, <3>3
  <2> QED BY <2>1, <2>2
<1>7. ActiveTurnIsDriven'
  BY <1>a, <1>6 DEF ActiveTurnIsDriven, Running, AfterStart
<1>8. starting'.stage \in AfterStart => starting'.item \in Prompts
  BY <1>a DEF AdmissionOK, AfterStart
<1> QED BY <1>a, <1>1, <1>2, <1>3, <1>4, <1>5, <1>7, <1>8 DEF BegunOK, Begun, Passed, Unanswered

\* After a crash nothing has begun: what ran is cancelled when the log is opened.
LEMMA BegunRecovers ==
  ASSUME IInv, BegunOK, Recover
  PROVE  BegunOK'
<1>1. server' = "recovering" /\ active' = None /\ ~Running
      /\ UNCHANGED <<starting, request, prompt>>
  BY DEF Recover, Running
<1>2. /\ starting.item = None /\ starting.stage = "none"
      /\ \A h \in Handlers : request[h].turn = None
      /\ \A i \in Prompts : prompt[i] = "none"
  BY <1>1 DEF IInv, Quiet, NotStarting, BegunOK
<1> QED BY <1>1, <1>2 DEF BegunOK, ActiveTurnIsDriven, Running, AfterStart

-----------------------------------------------------------------------------
(* Whose write is pending *)

\* The oldest pending snapshot, which o waits for, has arrived or failed.
Ends(o) == Writing(o) /\ \E failed \in BOOLEAN : writes' = NextWrites(queue', failed)

\* The others are then one place further.
LEMMA EndsShape ==
  ASSUME IInv, NEW o \in Handlers \cup {Starter}, Ends(o)
  PROVE  /\ 1 \in DOMAIN writes /\ writes[1].owner = o /\ Head(writes) = writes[1]
         /\ Len(writes) \in Nat /\ DOMAIN writes = 1..Len(writes)
         /\ DOMAIN writes' = 1..Len(writes) - 1
         /\ \A k \in DOMAIN writes' : /\ k + 1 \in DOMAIN writes
                                      /\ writes'[k].owner = writes[k + 1].owner
                                      /\ writes'[k].items \in {writes[k + 1].items, queue'}
<1>1. WritesOK(writes) /\ writes # <<>> /\ Head(writes).owner = o
  BY DEF IInv, Ends, Writing
<1>2. PICK failed \in BOOLEAN : writes' = NextWrites(queue', failed)
  BY DEF Ends
<1> QED BY <1>1, <1>2, NextWritesShape

\* A handler waits until its own write has ended.
LEMMA LeavesWrite ==
  ASSUME IInv, [Next]_vars, NEW h \in Handlers,
         request[h].stage \in WriteStage, request'[h].stage \notin WriteStage
  PROVE  Crash \/ Ends(h)
<1>0. request \in [Handlers -> Request]
  BY DEF IInv, TypeOK
<1>1. ~UserStep(h)
  BY <1>0, UserStages DEF Idle, WriteStage
<1>2. ASSUME HandlerStep(h) PROVE Ends(h)
  <2>1. ~(Insert(h) \/ Accepted(h) \/ AcceptFails(h) \/ Marked(h))
    BY DEF Insert, Accepted, AcceptFails, Marked, WriteStage
  <2>2. ~(Stopping(h) \/ Flushed(h) \/ Ended(h) \/ Settled(h))
    BY DEF Stopping, Flushed, Ended, Settled, WriteStage
  <2>3. ~(Delivered(h) \/ DeliveryFails(h))
    BY DEF Delivered, DeliveryFails, Disconnect
  <2>4. \/ InsertWritten(h) \/ InsertFails(h) \/ RolledBack(h)
        \/ Moved(h) \/ Edited(h) \/ DropWritten(h) \/ DropFails(h)
    BY <1>2, <2>1, <2>2, <2>3 DEF HandlerStep
  <2> QED BY <2>4 DEF InsertWritten, InsertFails, RolledBack, Moved, Edited, DropWritten, DropFails, Ends
<1> QED BY <1>1, <1>2, OwnSteps

\* The admission waits for the write that takes its prompt out of the queue file.
LEMMA StarterWrites ==
  ASSUME IInv, [Next]_vars
  PROVE  /\ starting.stage = "persist" /\ starting'.stage # "persist" => Crash \/ Ends(Starter)
         /\ starting.stage # "persist" /\ starting'.stage = "persist" => Started
         /\ Started => starting.stage = "start" /\ starting'.stage = "persist"
         /\ Launch \/ LaunchFails => starting.stage = "persist" /\ starting'.stage # "persist"
<1>0. /\ AdmissionOK(starting, receipt, dispatched) /\ starting \in Starting
      /\ queue \in Seq(Prompts)
  BY DEF IInv, TypeOK
<1>1. Launch \/ LaunchFails => Ends(Starter)
  BY DEF Launch, LaunchFails, Ends
<1>2. ASSUME starting.stage = "persist", starting'.stage # "persist" PROVE Crash \/ Ends(Starter)
  <2>1. ~CheckLease /\ ~Refused /\ ~Aborted /\ starting.item # None
    BY <1>0, <1>2 DEF CheckLease, Refused, Aborted, AdmissionOK
  <2>2. GoesOnStarting => Launch
    BY <1>2 DEF GoesOnStarting, Before
  <2> QED BY <1>1, <2>1, <2>2, AdmissionSteps DEF AdmissionStep
<1>3. starting.stage # "persist" /\ starting'.stage = "persist" => Started
  <2>1. GoesOnStarting /\ starting.stage # "persist" /\ starting'.stage = "persist" => Started
    BY DEF GoesOnStarting, Before
  <2>2. starting'.stage = "persist" => starting' # NotStarting /\ ~Taken(starting', queue', active', cancelling', request')
    BY DEF NotStarting, Taken
  <2> QED BY <2>1, <2>2, AdmissionSteps DEF AdmissionStep
<1>4. Started => starting.stage = "start" /\ starting'.stage = "persist"
  BY <1>0 DEF Started, Starting
<1>5. ASSUME Launch \/ LaunchFails PROVE starting.stage = "persist" /\ starting'.stage # "persist"
  <2>1. starting.stage = "persist"
    BY <1>5 DEF Launch, LaunchFails
  <2>2. ASSUME NEW turn, Finish(queue, turn) PROVE starting'.stage # "persist"
    BY <1>0, <2>2, Next1Cases DEF Finish, NotStarting, Taken
  <2>3. CASE Launch /\ active = starting.item /\ starting.cancelled
    BY <1>0, <2>3 DEF Launch, Starting
  <2> QED BY <1>5, <2>1, <2>2, <2>3 DEF Launch, LaunchFails
<1> QED BY <1>2, <1>3, <1>4, <1>5

\* Every pending snapshot belongs to one handler, or the admission, that waits for it.
OwnersOK ==
  /\ \A k \in DOMAIN writes : writes[k].owner \in Handlers => request[writes[k].owner].stage \in WriteStage
  /\ \A k \in DOMAIN writes : writes[k].owner = Starter => starting.stage = "persist"
  /\ starting.stage = "persist" => \E k \in DOMAIN writes : writes[k].owner = Starter
  /\ \A k, l \in DOMAIN writes : writes[k].owner = writes[l].owner => k = l

\* Every step keeps that: who has a snapshot pending neither goes on nor takes another.
LEMMA OwnersStep ==
  ASSUME IInv, [Next]_vars, OwnersOK
  PROVE  OwnersOK'
<1>0. /\ WritesOK(writes) /\ Starter \notin Handlers
      /\ \A k \in DOMAIN writes : writes[k].owner \in Handlers \cup {Starter} /\ k \in Nat
  <2>1. writes \in Seq(Write)
    BY DEF IInv, TypeOK
  <2>2. \A k \in DOMAIN writes : writes[k] \in Write /\ k \in Nat
    BY <2>1
  <2> QED BY <2>2, QueueAssumption DEF IInv, Write
<1>1. ASSUME NEW o \in Handlers \cup {Starter}, Ends(o), ~Crash PROVE OwnersOK'
  <2> DEFINE n == Len(writes)
  <2>1. /\ 1 \in DOMAIN writes /\ writes[1].owner = o
        /\ n \in Nat /\ DOMAIN writes = 1..n /\ DOMAIN writes' = 1..n - 1
        /\ \A k \in DOMAIN writes' : k + 1 \in DOMAIN writes /\ writes'[k].owner = writes[k + 1].owner
        /\ n \in DOMAIN writes /\ n \notin DOMAIN writes'
    BY <1>1, EndsShape
  <2> HIDE DEF n
  <2>2. ~Started
    <3>1. ASSUME Started PROVE FALSE
      <4>1. writes' = Persist(writes, Starter, queue')
        BY <3>1 DEF Started
      <4>2. \E m \in Nat : DOMAIN writes' = DOMAIN writes \cup {m}
        BY <1>0, <4>1, PersistShape
      <4> QED BY <2>1, <4>2
    <3> QED BY <3>1
  <2>3. ASSUME NEW k \in DOMAIN writes' PROVE writes[k + 1].owner # o
    BY <2>1, <2>3 DEF OwnersOK
  <2>4. ASSUME NEW g \in Handlers \cup {Starter}, Ends(g) PROVE g = o
    BY <2>1, <2>4, EndsShape
  <2>5. ASSUME NEW k \in DOMAIN writes', writes'[k].owner \in Handlers
        PROVE  request'[writes'[k].owner].stage \in WriteStage
    BY <1>1, <2>1, <2>3, <2>4, <2>5, LeavesWrite DEF OwnersOK
  <2>6. ASSUME NEW k \in DOMAIN writes', writes'[k].owner = Starter
        PROVE  starting'.stage = "persist"
    BY <1>1, <2>1, <2>3, <2>4, <2>6, StarterWrites DEF OwnersOK
  <2>7. ASSUME starting'.stage = "persist" PROVE \E k \in DOMAIN writes' : writes'[k].owner = Starter
    <3>1. PICK l \in DOMAIN writes : writes[l].owner = Starter
      BY <2>2, <2>7, StarterWrites DEF OwnersOK
    <3>2. o # Starter
      <4>1. ASSUME o = Starter PROVE FALSE
        <5>1. ~(UNCHANGED <<disk, writes>>) /\ ~Load
          <6>1. writes' # writes
            BY <2>1
          <6> QED BY <6>1 DEF Load
        <5>2. ASSUME NEW h \in Handlers, writes' = Persist(writes, h, queue') PROVE FALSE
          <6>1. \E m \in Nat : DOMAIN writes' = DOMAIN writes \cup {m}
            BY <1>0, <5>2, PersistShape
          <6> QED BY <2>1, <6>1
        <5>3. Head(writes).owner = Starter
          BY <1>1, <4>1 DEF Ends, Writing
        <5>4. Launch \/ LaunchFails
          BY <1>1, <2>2, <5>1, <5>2, <5>3, WritesSteps DEF WritesStep
        <5> QED BY <2>7, <5>4, StarterWrites
      <4> QED BY <4>1
    <3>3. l # 1 /\ l \in 1..n
      BY <2>1, <3>1, <3>2
    <3>4. l - 1 \in DOMAIN writes' /\ (l - 1) + 1 = l
      BY <2>1, <3>3
    <3>5. writes'[l - 1].owner = Starter
      BY <2>1, <3>1, <3>4
    <3> QED BY <3>4, <3>5
  <2>8. ASSUME NEW k \in DOMAIN writes', NEW l \in DOMAIN writes', writes'[k].owner = writes'[l].owner
        PROVE  k = l
    <3>1. k + 1 = l + 1 /\ k \in Nat /\ l \in Nat
      BY <2>1, <2>8 DEF OwnersOK
    <3> QED BY <3>1
  <2> QED BY <2>5, <2>6, <2>7, <2>8 DEF OwnersOK
<1>2. ASSUME ~Crash, \A o \in Handlers \cup {Starter} : ~Ends(o) PROVE OwnersOK'
  <2>1. /\ \A h \in Handlers : request[h].stage \in WriteStage => request'[h].stage \in WriteStage
        /\ starting.stage = "persist" => starting'.stage = "persist"
        /\ starting'.stage = "persist" => starting.stage = "persist" \/ Started
    BY <1>2, LeavesWrite, StarterWrites
  <2>2. CASE UNCHANGED writes
    <3>1. ~Started
      <4>1. ASSUME Started PROVE FALSE
        <5>1. writes' = Persist(writes, Starter, queue')
          BY <4>1 DEF Started
        <5>2. \E m \in Nat : DOMAIN writes' = DOMAIN writes \cup {m} /\ \A k \in DOMAIN writes : k < m
          BY <1>0, <5>1, PersistShape
        <5> QED BY <1>0, <2>2, <5>2
      <4> QED BY <4>1
    <3> QED BY <2>1, <2>2, <3>1 DEF OwnersOK
  <2>3. ASSUME NEW h \in Handlers, writes' = Persist(writes, h, queue'),
               request[h].stage \notin WriteStage, request'[h].stage \in WriteStage
        PROVE  OwnersOK'
    <3>1. \E m \in Nat : /\ DOMAIN writes' = DOMAIN writes \cup {m}
                         /\ \A k \in DOMAIN writes : writes'[k] = writes[k]
                         /\ writes'[m].owner = h
      BY <1>0, <2>3, PersistShape
    <3>2. ~Started
      <4>1. ASSUME Started PROVE FALSE
        <5>1. writes' = Persist(writes, Starter, queue')
          BY <4>1 DEF Started
        <5>2. \E m \in Nat : /\ DOMAIN writes' = DOMAIN writes \cup {m}
                             /\ \A k \in DOMAIN writes : k \in Nat /\ k < m
                             /\ writes'[m].owner = Starter
          BY <1>0, <5>1, PersistShape
        <5>3. \E m \in Nat : /\ DOMAIN writes' = DOMAIN writes \cup {m}
                             /\ \A k \in DOMAIN writes : k \in Nat /\ k < m
                             /\ writes'[m].owner = h
          BY <1>0, <2>3, PersistShape
        <5> QED BY <1>0, <5>2, <5>3
      <4> QED BY <4>1
    <3>3. \A k \in DOMAIN writes : writes[k].owner # h
      BY <2>3 DEF OwnersOK
    <3> QED BY <1>0, <2>1, <2>3, <3>1, <3>2, <3>3 DEF OwnersOK
  <2>4. CASE Started
    <3>1. writes' = Persist(writes, Starter, queue')
      BY <2>4 DEF Started
    <3>2. \E m \in Nat : /\ DOMAIN writes' = DOMAIN writes \cup {m}
                         /\ \A k \in DOMAIN writes : writes'[k] = writes[k]
                         /\ writes'[m].owner = Starter
      BY <1>0, <3>1, PersistShape
    <3>3. starting.stage # "persist" /\ starting'.stage = "persist"
      BY <2>4, StarterWrites
    <3>4. \A k \in DOMAIN writes : writes[k].owner # Starter
      BY <3>3 DEF OwnersOK
    <3> QED BY <1>0, <2>1, <3>2, <3>3, <3>4 DEF OwnersOK
  <2>5. ASSUME writes # <<>>, NEW failed \in BOOLEAN, writes' = NextWrites(queue', failed) PROVE FALSE
    <3>1. Head(writes).owner \in Handlers \cup {Starter}
      BY <1>0, <2>5, NextWritesShape
    <3>2. Ends(Head(writes).owner)
      BY <2>5 DEF Ends, Writing
    <3> QED BY <1>2, <3>1, <3>2
  <2> QED BY <1>2, <2>2, <2>3, <2>4, <2>5, WritesSteps DEF WritesStep
<1>3. CASE Crash
  <2>1. DOMAIN writes' = {} /\ starting'.stage = "none"
    BY <1>3 DEF Crash, NotStarting
  <2> QED BY <2>1 DEF OwnersOK
<1> QED BY <1>1, <1>2, <1>3

-----------------------------------------------------------------------------
(* What was dropped *)

\* A prompt that is out of the queue and the queue file for good; an admission
\* that took it before is cancelled.
Gone(i) ==
  /\ i \notin Queued /\ i \notin ToSet(disk)
  /\ \A k \in DOMAIN writes : i \notin ToSet(writes[k].items)
  /\ starting.item = i => starting.cancelled

\* A prompt that a request took out of the queue: no snapshot from its own on holds it.
Leaving(h, i) ==
  /\ i \notin Queued
  /\ starting.item = i => starting.cancelled
  /\ \A k, l \in DOMAIN writes : writes[k].owner = h /\ k <= l => i \notin ToSet(writes[l].items)

\* What is past the gate and out of the queue stays out of it.
LEMMA OutOfQueue ==
  ASSUME IInv, [Next]_vars, NEW i \in Prompts, Passed(i), i \notin Queued,
         starting.item = i => starting.cancelled, Recover => i \notin ToSet(disk)
  PROVE  i \notin ToSet(queue') /\ (starting'.item = i => starting'.cancelled)
<1>1. i \notin ToSet(queue')
  <2>1. ASSUME NEW h \in Handlers, Insert(h) PROVE request[h].item # i
    BY <2>1, InsertingIff DEF Insert, InsertStage, Passed
  <2>2. CASE Crash
    BY <2>2 DEF Crash, ToSet
  <2>3. CASE Recover
    BY <2>3 DEF Recover
  <2>4. ASSUME NEW h \in Handlers, Removes(h) PROVE ToSet(queue') \subseteq Queued
    BY <2>4, RemovesWhat
  <2> QED BY <2>1, <2>2, <2>3, <2>4, QueueSteps DEF QueueStep
<1>2. starting'.item = i => starting'.cancelled
  BY <1>1, QueueAssumption, AdmissionSteps DEF AdmissionStep, GoesOnStarting, NotStarting, Taken
<1> QED BY <1>1, <1>2

\* What is gone stays gone ...
LEMMA GoneStays ==
  ASSUME IInv, [Next]_vars, NEW i \in Prompts, Passed(i), Gone(i)
  PROVE  Gone(i)'
BY OutOfQueue, WritesSteps, SnapshotSources DEF Gone, Queued

\* ... and what is leaving stays out of the snapshots that follow, while its request runs.
LEMMA LeavingStays ==
  ASSUME IInv, [Next]_vars, NEW h \in Handlers, NEW i \in Prompts, Passed(i), Leaving(h, i),
         request[h].stage # "idle", request'[h].stage # "idle"
  PROVE  Leaving(h, i)'
<1>1. WritesOK(writes)
  BY DEF IInv
<1>2. ~Recover /\ ~Crash /\ ~Load
  <2>1. Running
    BY Busy
  <2>2. Crash => request'[h].stage = "idle"
    BY DEF Crash, Idle
  <2> QED BY <2>1, <2>2 DEF Recover, Load, Running
<1>3. i \notin ToSet(queue') /\ (starting'.item = i => starting'.cancelled)
  BY <1>2, OutOfQueue DEF Leaving
<1>4. ASSUME NEW o \in Handlers \cup {Starter}, writes' = Persist(writes, o, queue')
      PROVE  \A k, l \in DOMAIN writes' : writes'[k].owner = h /\ k <= l => i \notin ToSet(writes'[l].items)
  <2>1. \E n \in Nat : /\ DOMAIN writes' = DOMAIN writes \cup {n}
                       /\ \A k \in DOMAIN writes : writes'[k] = writes[k] /\ k \in Nat /\ k < n
                       /\ writes'[n].items = queue'
    BY <1>1, <1>4, PersistShape
  <2> QED BY <1>3, <2>1 DEF Leaving
<1>5. ASSUME NEW failed \in BOOLEAN, writes # <<>>, writes' = NextWrites(queue', failed),
             NEW k \in DOMAIN writes', NEW l \in DOMAIN writes', writes'[k].owner = h, k <= l
      PROVE  i \notin ToSet(writes'[l].items)
  <2>1. /\ k + 1 \in DOMAIN writes /\ l + 1 \in DOMAIN writes
        /\ writes[k + 1].owner = h /\ writes'[l].items \in {writes[l + 1].items, queue'}
        /\ k \in Nat /\ l \in Nat
    BY <1>1, <1>5, NextWritesShape
  <2>2. k + 1 <= l + 1
    BY <1>5, <2>1
  <2> QED BY <1>3, <2>1, <2>2 DEF Leaving
<1>6. \A k, l \in DOMAIN writes' : writes'[k].owner = h /\ k <= l => i \notin ToSet(writes'[l].items)
  BY <1>2, <1>4, <1>5, WritesSteps DEF WritesStep, Leaving
<1> QED BY <1>3, <1>6 DEF Leaving, Queued

\* When a removal is recorded: its write, or its event, is done.
LEMMA DropSources ==
  ASSUME IInv, [Next]_vars
  PROVE  /\ \/ dropped' = dropped
            \/ \E h \in Handlers : /\ DropWritten(h) \/ Marked(h)
                                   /\ dropped' = dropped \cup request[h].drop
         /\ \A h \in Handlers : request[h].stage = "drop" /\ request'[h].stage = "mark" => DropWritten(h)
<1>0. request \in [Handlers -> Request]
  BY DEF IInv, TypeOK
<1>1. ASSUME NEW h \in Handlers, UserStep(h) PROVE dropped' = dropped
  BY <1>1 DEF UserStep, Send, Promote, Edit, RemoveQueued, ClearQueue, Stop, StopTurn, Drop, history
<1>2. ASSUME NEW h \in Handlers, HandlerStep(h)
      PROVE  \/ dropped' = dropped
             \/ (DropWritten(h) \/ Marked(h)) /\ dropped' = dropped \cup request[h].drop
  BY <1>2 DEF HandlerStep, Insert, InsertWritten, InsertFails, Accepted, AcceptFails, RolledBack,
     Moved, Edited, DropWritten, DropFails, Marked, Dropped, Stopping, Delivered, DeliveryFails,
     Disconnect, Flushed, Ended, Settled, history
<1>3. ~(\E h \in Handlers : UserStep(h) \/ HandlerStep(h)) => dropped' = dropped
  BY DEF Next, StarterStep, CheckLease, Preparing, Prepared, Refused, Started, Launch, LaunchFails,
     Aborted, TurnStep, Answer, Settle, EndTurn, ServerStep, RuntimeLost, Disconnect, Closed,
     TakeLease, ReleaseLease, Crash, Recover, Discard, Load, Bootstrap, vars, history
<1>4. ASSUME NEW h \in Handlers, request[h].stage = "drop", request'[h].stage = "mark"
      PROVE  DropWritten(h)
  <2>1. ~(Insert(h) \/ InsertWritten(h) \/ InsertFails(h) \/ Accepted(h) \/ AcceptFails(h) \/ RolledBack(h))
    BY <1>4 DEF Insert, InsertWritten, InsertFails, Accepted, AcceptFails, RolledBack
  <2>2. ~(Moved(h) \/ Edited(h) \/ Marked(h) \/ Stopping(h) \/ Flushed(h) \/ Ended(h) \/ Settled(h))
    BY <1>4 DEF Moved, Edited, Marked, Stopping, Flushed, Ended, Settled
  <2>3. ~(Delivered(h) \/ DeliveryFails(h))
    BY <1>4 DEF Delivered, DeliveryFails, Disconnect
  <2>4. DropFails(h) => request'[h].stage = "idle"
    BY <1>0 DEF DropFails, Idle
  <2>5. ~UserStep(h)
    BY <1>4, UserStages DEF Idle
  <2> QED BY <1>4, <2>1, <2>2, <2>3, <2>4, <2>5, OwnSteps DEF HandlerStep, Idle
<1> QED BY <1>1, <1>2, <1>3, <1>4

\* A removal that was recorded, or is about to be, is in memory and on disk; one
\* that still waits for its write is in memory and in the snapshots that follow.
GoneOK ==
  /\ dropped \subseteq unwanted
  /\ \A h \in Handlers : request[h].drop \subseteq unwanted
  /\ \A i \in dropped : Gone(i)
  /\ \A h \in Handlers : request[h].stage = "mark" => \A i \in request[h].drop : Gone(i)
  /\ \A h \in Handlers : request[h].stage = "drop" => \A i \in request[h].drop : Leaving(h, i)

\* When the write of a removal is done, what it took out is gone: the snapshots before
\* its own have been written, and those after it do not hold the prompt.
LEMMA DropEnds ==
  ASSUME IInv, [Next]_vars, GoneOK, PassedOK, NEW h \in Handlers, DropWritten(h), NEW i \in request[h].drop
  PROVE  Gone(i)'
<1>1. i \in Prompts /\ Passed(i) /\ Leaving(h, i) /\ IInv /\ [Next]_vars
  BY DEF IInv, TypeOK, GoneOK, PassedOK, DropWritten
<1>2. Ends(h) /\ disk' = Head(writes).items /\ queue' = queue /\ ~Recover
  <2>1. Running
    BY Busy DEF DropWritten
  <2> QED BY <2>1 DEF DropWritten, Ends, Recover, Running
<1>3. \A l \in DOMAIN writes : i \notin ToSet(writes[l].items)
  BY <1>1, <1>2, EndsShape DEF Leaving
<1>4. i \notin ToSet(disk') 
  BY <1>2, <1>3, EndsShape
<1>5. \A k \in DOMAIN writes' : i \notin ToSet(writes'[k].items)
  BY <1>1, <1>2, <1>3, WritesSteps, SnapshotSources DEF Leaving, Queued
<1> QED BY <1>1, <1>2, <1>4, <1>5, OutOfQueue DEF Gone, Queued, Leaving

\* Every step keeps that.
LEMMA GoneStep ==
  ASSUME IInv, [Next]_vars, PassedOK, OwnersOK, GoneOK
  PROVE  GoneOK'
<1>0. unwanted \subseteq Prompts /\ unwanted \subseteq unwanted' /\ \A i \in unwanted : Passed(i)
  BY Grows DEF IInv, TypeOK, PassedOK
<1>1. ASSUME NEW i \in dropped' PROVE i \in unwanted' /\ Gone(i)'
  <2>1. CASE i \in dropped
    BY <1>0, <2>1, GoneStays DEF GoneOK
  <2>2. ASSUME NEW h \in Handlers, DropWritten(h), i \in request[h].drop PROVE i \in unwanted' /\ Gone(i)'
    BY <1>0, <2>2, DropEnds DEF GoneOK
  <2>3. ASSUME NEW h \in Handlers, Marked(h), i \in request[h].drop PROVE i \in unwanted' /\ Gone(i)'
    BY <1>0, <2>3, GoneStays DEF GoneOK, Marked
  <2> QED BY <1>1, <2>1, <2>2, <2>3, DropSources
<1>2. ASSUME NEW h \in Handlers PROVE request'[h].drop \subseteq unwanted'
  <2>1. CASE request'[h].drop = request[h].drop \/ request'[h].drop = {}
    BY <1>0, <2>1 DEF GoneOK
  <2>2. CASE Removes(h)
    BY <2>2, RemovesWhat
  <2>3. CASE UserStep(h)
    BY <2>1, <2>2, <2>3, UserStages
  <2>4. CASE Insert(h)
    <3>1. request'[h].drop = request[h].drop
      BY <2>4 DEF Insert, IInv, TypeOK, Request
    <3> QED BY <2>1, <3>1
  <2>5. Idle.drop = {}
    BY DEF Idle
  <2> QED BY <2>1, <2>3, <2>4, <2>5, RequestSteps DEF RequestStep, SameNames
<1>3. ASSUME NEW h \in Handlers, request'[h].stage = "mark", NEW i \in request'[h].drop
      PROVE  Gone(i)'
  <2>1. request[h].stage \in {"drop", "mark"} /\ request'[h].drop = request[h].drop
    <3>1. Insert(h) => request'[h].stage = "insert"
      BY DEF Insert, IInv, TypeOK, Request
    <3> QED BY <1>3, <3>1, RequestSteps DEF RequestStep, SameNames, GoesOn, Idle
  <2>2. CASE request[h].stage = "mark"
    BY <1>0, <1>3, <2>1, <2>2, GoneStays DEF GoneOK
  <2>3. CASE request[h].stage = "drop"
    BY <1>3, <2>1, <2>3, DropSources, DropEnds
  <2> QED BY <2>1, <2>2, <2>3
<1>4. ASSUME NEW h \in Handlers, request'[h].stage = "drop", NEW i \in request'[h].drop
      PROVE  Leaving(h, i)'
  <2>1. CASE request[h].stage = "drop" /\ request'[h].drop = request[h].drop
    BY <1>0, <1>4, <2>1, LeavingStays DEF GoneOK
  <2>2. CASE Removes(h)
    <3>1. /\ writes' = Persist(writes, h, queue') /\ i \notin ToSet(queue') /\ i \in Queued
          /\ starting.item = i => starting'.cancelled
          /\ request[h].stage = "idle"
      BY <1>4, <2>2, RemovesWhat DEF Accepting, Idle
    <3>2. \E n \in Nat : /\ DOMAIN writes' = DOMAIN writes \cup {n}
                         /\ \A k \in DOMAIN writes : writes'[k] = writes[k] /\ k \in Nat /\ k < n
                         /\ writes'[n].items = queue'
      BY <3>1, PersistShape DEF IInv
    <3>3. \A k \in DOMAIN writes : writes[k].owner # h
      BY <3>1 DEF OwnersOK, WriteStage
    <3>4. \A k, l \in DOMAIN writes' : writes'[k].owner = h /\ k <= l => i \notin ToSet(writes'[l].items)
      BY <3>1, <3>2, <3>3
    <3>5. starting'.item = i => starting'.cancelled
      <4>1. i # None
        BY <3>1, QueueAssumption, Parts DEF Queued, ToSet
      <4> QED BY <3>1, <4>1, AdmissionSteps DEF AdmissionStep, GoesOnStarting, NotStarting, Taken
    <3> QED BY <3>1, <3>4, <3>5 DEF Leaving, Queued
  <2>3. \/ request[h].stage = "drop" /\ request'[h].drop = request[h].drop
        \/ Removes(h)
    <3>1. Insert(h) => request'[h].stage = "insert"
      BY DEF Insert, IInv, TypeOK, Request
    <3>2. UserStep(h) => Removes(h) \/ request' = request
      BY <1>4, UserStages
    <3> QED BY <1>4, <3>1, <3>2, RequestSteps DEF RequestStep, SameNames, GoesOn, Idle
  <2> QED BY <2>1, <2>2, <2>3
<1> QED BY <1>1, <1>2, <1>3, <1>4 DEF GoneOK

\* Only Launch hands a prompt over, and never one whose admission is cancelled.
LEMMA DispatchSteps ==
  ASSUME IInv, [Next]_vars, NEW i \in Prompts
  PROVE  \/ dispatched'[i] = dispatched[i]
         \/ /\ Launch /\ starting.item = i /\ active = i /\ ~starting.cancelled /\ runtime = "open"
            /\ dispatched'[i] = dispatched[i] + 1
<1>0. dispatched \in [Prompts -> Nat]
  BY DEF IInv, TypeOK
<1>1. ASSUME NEW h \in Handlers, UserStep(h) PROVE dispatched' = dispatched
  BY <1>1 DEF UserStep, Send, Promote, Edit, RemoveQueued, ClearQueue, Stop, StopTurn, Drop, history
<1>2. ASSUME NEW h \in Handlers, HandlerStep(h) PROVE dispatched' = dispatched
  BY <1>2 DEF HandlerStep, Insert, InsertWritten, InsertFails, Accepted, AcceptFails, RolledBack,
     Moved, Edited, DropWritten, DropFails, Marked, Stopping, Delivered, DeliveryFails,
     Disconnect, Flushed, Ended, Settled, history
<1>3. CASE Launch
  BY <1>0, <1>3 DEF Launch
<1>4. ~(\E h \in Handlers : UserStep(h) \/ HandlerStep(h)) /\ ~Launch => dispatched' = dispatched
  BY DEF Next, StarterStep, CheckLease, Preparing, Prepared, Refused, Started, LaunchFails,
     Aborted, TurnStep, Answer, Settle, EndTurn, ServerStep, RuntimeLost, Disconnect, Closed,
     TakeLease, ReleaseLease, Crash, Recover, Discard, Load, Bootstrap, vars, history
<1> QED BY <1>1, <1>2, <1>3, <1>4

\* What is gone is not handed over: its admission, if any, was cancelled.
LEMMA DroppedStay ==
  ASSUME IInv, [Next]_vars, GoneOK
  PROVE  \A i \in dropped : dispatched'[i] = dispatched[i]
BY DispatchSteps DEF GoneOK, Gone, IInv, TypeOK

-----------------------------------------------------------------------------
(* Cancelled at the agent *)

\* An outstanding call that no session/cancel has reached yet.
Unheard(i) == prompt[i] = "open" /\ i \notin signalled

\* The cancellation that holds the queue is on its way to the agent.
Sending == cancelling # None /\ delivery[cancelling] = "sending"

\* An outstanding call has an open runtime; what may cancel the turn that is
\* being started is a promotion whose write comes after its own; and a call that
\* was not cancelled belongs to the active turn, or its cancellation is on its
\* way and holds the queue.
CancelOK ==
  /\ \A i \in Prompts : prompt[i] = "open" => runtime = "open"
  /\ \A h \in Handlers :
       /\ starting.stage = "persist" /\ ~starting.cancelled /\ request[h].turn = starting.item
       => /\ request[h].stage = "move"
          /\ \A k, l \in DOMAIN writes : writes[k].owner = Starter /\ writes[l].owner = h => k < l
  /\ \A i \in Prompts : Unheard(i) =>
       /\ active # i => Sending /\ starting.item = None
       /\ \A h \in Handlers : request[h].stage \in {"flush", "ending"} /\ request[h].turn = i => Sending

\* While a call is outstanding its runtime stays, a signal is not forgotten, and
\* a cancellation goes on until it is delivered.
LEMMA OpenStays ==
  ASSUME IInv, [Next]_vars, NEW i \in Prompts, prompt[i] = "open", prompt'[i] = "open", runtime = "open"
  PROVE  /\ runtime' = "open"
         /\ i \in signalled => i \in signalled'
         /\ Sending /\ i \notin signalled' => Sending'
<1>0. /\ prompt \in [Prompts -> PromptState] /\ delivery \in [Handlers -> DeliveryState]
      /\ cancelling \in Handlers \cup {None} /\ None \notin Handlers
  BY QueueAssumption DEF IInv, TypeOK
<1> DEFINE Kept ==
  /\ runtime' = "open"
  /\ i \in signalled => i \in signalled'
  /\ Sending /\ i \notin signalled' => Sending'
<1>1. UNCHANGED <<runtime, signalled, delivery, cancelling>> => Kept
  BY DEF Sending
<1>2. ~Disconnect /\ ~Crash
  BY <1>0 DEF Disconnect, Crash
<1>3. ASSUME NEW h \in Handlers, Stopping(h) PROVE Kept
  BY <1>0, <1>3 DEF Stopping, Sending
<1>4. ASSUME NEW h \in Handlers, Delivered(h) PROVE Kept
  BY <1>4 DEF Delivered
<1>5. ASSUME NEW h \in Handlers, Settled(h) PROVE Kept
  BY <1>0, <1>5 DEF Settled, Sending
<1>6. ASSUME Prepared PROVE Kept
  BY <1>6 DEF Prepared, Sending
<1>7. ASSUME NEW j \in Prompts, Answer(j) PROVE Kept
  BY <1>0, <1>7 DEF Answer, Sending
<1>8. ~Closed
  BY DEF Closed
<1> HIDE DEF Kept
<1>9. ASSUME NEW h \in Handlers, UserStep(h) PROVE Kept
  BY <1>1, <1>9 DEF UserStep, Send, Promote, Edit, RemoveQueued, ClearQueue, Stop, StopTurn, Drop
<1>10. ASSUME NEW h \in Handlers, HandlerStep(h) PROVE Kept
  BY <1>1, <1>2, <1>3, <1>4, <1>5, <1>10 DEF HandlerStep, Insert, InsertWritten, InsertFails, Accepted,
     AcceptFails, RolledBack, Moved, Edited, DropWritten, DropFails, Marked, DeliveryFails, Flushed, Ended
<1>11. ASSUME StarterStep PROVE Kept
  <2>1. CheckLease \/ Preparing \/ Refused \/ Started => UNCHANGED <<runtime, signalled, delivery, cancelling>>
    BY DEF CheckLease, Preparing, Refused, Started
  <2>2. Launch => UNCHANGED <<runtime, signalled, delivery, cancelling>>
    BY DEF Launch
  <2>3. LaunchFails \/ Aborted => UNCHANGED <<runtime, signalled, delivery, cancelling>>
    BY DEF LaunchFails, Aborted
  <2>4. Prepared \/ UNCHANGED <<runtime, signalled, delivery, cancelling>>
    BY <1>11, <2>1, <2>2, <2>3 DEF StarterStep
  <2> QED BY <1>1, <1>6, <2>4
<1>12. ASSUME NEW j \in Prompts, TurnStep(j) PROVE Kept
  BY <1>1, <1>7, <1>12 DEF TurnStep, Settle, EndTurn
<1>13. ServerStep => Kept
  BY <1>1, <1>2, <1>8 DEF ServerStep, RuntimeLost, TakeLease, ReleaseLease, Recover, Discard, Load, Bootstrap
<1>14. UNCHANGED vars => Kept
  BY <1>1 DEF vars, volatile
<1>15. Kept
  BY <1>9, <1>10, <1>11, <1>12, <1>13, <1>14 DEF Next
<1> QED BY <1>15 DEF Kept

\* What ends the active turn.
LEMMA ActiveEnds ==
  ASSUME IInv, [Next]_vars, active # None, active' # active
  PROVE  \/ Started \/ Aborted \/ Recover
         \/ \E h \in Handlers : request[h].stage = "ending" /\ request[h].turn = active
         \/ \E j \in Prompts : prompt[j] = "ending" /\ active = j
<1>1. ASSUME NEW h \in Handlers, UserStep(h) PROVE active' = active
  BY <1>1 DEF UserStep, Send, Promote, Edit, RemoveQueued, ClearQueue, Stop, StopTurn, Drop, durable
<1>2. ASSUME NEW h \in Handlers, HandlerStep(h), ~Ended(h) PROVE active' = active
  BY <1>2 DEF HandlerStep, Insert, InsertWritten, InsertFails, Accepted, AcceptFails, RolledBack,
     Moved, Edited, DropWritten, DropFails, Marked, Stopping, Delivered, DeliveryFails, Disconnect,
     Flushed, Settled, durable
<1>3. StarterStep /\ ~Started /\ ~Aborted => active' = active
  BY DEF StarterStep, CheckLease, Preparing, Prepared, Refused, Launch, LaunchFails, durable
<1>4. ASSUME NEW i \in Prompts, TurnStep(i), ~EndTurn(i) PROVE active' = active
  BY <1>4 DEF TurnStep, Answer, Settle, durable
<1>5. ServerStep /\ ~Recover => active' = active
  BY DEF ServerStep, RuntimeLost, Disconnect, Closed, TakeLease, ReleaseLease, Crash,
     Discard, Load, Bootstrap, durable
<1>6. UNCHANGED vars => active' = active
  BY DEF vars, durable
<1>7. ASSUME NEW h \in Handlers, Ended(h) PROVE request[h].stage = "ending" /\ request[h].turn = active
  BY <1>7 DEF Ended
<1>8. ASSUME NEW i \in Prompts, EndTurn(i) PROVE prompt[i] = "ending" /\ active = i
  BY <1>8 DEF EndTurn
<1> QED BY <1>1, <1>2, <1>3, <1>4, <1>5, <1>6, <1>7, <1>8 DEF Next

\* A request goes on to the cancellation of its turn only by starting it.
LEMMA FlushSources ==
  ASSUME IInv, [Next]_vars, NEW h \in Handlers, request'[h].stage \in {"flush", "ending"}
  PROVE  /\ request'[h].turn = request[h].turn
         /\ request[h].stage \in {"flush", "ending"} \/ Stopping(h)
<1>0. request \in [Handlers -> Request]
  BY DEF IInv, TypeOK
<1>1. request'[h] # Idle
  BY DEF Idle
<1>2. ~Insert(h)
  BY <1>0 DEF Insert, Request
<1>3. /\ SameNames(request'[h], request[h])
      /\ \/ request'[h].stage = request[h].stage
         \/ <<request[h].stage, request'[h].stage>> \in GoesOn
  <2>1. request'[h].stage \notin {"accept", "gate", "move", "edit", "drop", "stopping"}
    OBVIOUS
  <2> QED BY <1>1, <1>2, <2>1, RequestSteps DEF RequestStep
<1>4. ASSUME request[h].stage = "stopping" PROVE Stopping(h)
  <2>1. ~(Insert(h) \/ InsertWritten(h) \/ InsertFails(h) \/ Accepted(h) \/ AcceptFails(h) \/ RolledBack(h))
    BY <1>4 DEF Insert, InsertWritten, InsertFails, Accepted, AcceptFails, RolledBack
  <2>2. ~(Moved(h) \/ Edited(h) \/ DropWritten(h) \/ DropFails(h) \/ Marked(h))
    BY <1>4 DEF Moved, Edited, DropWritten, DropFails, Marked
  <2>3. ~(Flushed(h) \/ Ended(h) \/ Settled(h))
    BY <1>4 DEF Flushed, Ended, Settled
  <2>4. ~(Delivered(h) \/ DeliveryFails(h))
    <3>1. Delivered(h) \/ DeliveryFails(h) => request' = request
      BY DEF Delivered, DeliveryFails, Disconnect
    <3> QED BY <1>4, <3>1
  <2>5. ~UserStep(h)
    BY <1>4, UserStages DEF Idle
  <2> QED BY <1>4, <2>1, <2>2, <2>3, <2>4, <2>5, OwnSteps DEF HandlerStep, Idle
<1> QED BY <1>3, <1>4 DEF GoesOn, SameNames

\* While a turn is being started nobody who will cancel it comes before it.
LEMMA StartsAlone ==
  ASSUME IInv, [Next]_vars, OwnersOK, BegunOK, CancelOK, NEW h \in Handlers,
         starting'.stage = "persist", ~starting'.cancelled, request'[h].turn = starting'.item
  PROVE  /\ request'[h].stage = "move"
         /\ \A k, l \in DOMAIN writes' : writes'[k].owner = Starter /\ writes'[l].owner = h => k < l
<1> DEFINE i == starting'.item
<1>0. /\ i \in Prompts /\ None \notin Prompts /\ Starter \notin Handlers
      /\ request \in [Handlers -> Request] /\ WritesOK(writes)
      /\ AdmissionOK(starting, receipt, dispatched)
  <2>1. IInv'
    BY NextKeeps
  <2> QED BY <2>1, QueueAssumption DEF IInv, TypeOK, AdmissionOK, Starting
<1>1. ~Started
  <2>1. ASSUME Started PROVE FALSE
    <3>1. starting.stage = "start" /\ starting.item # None
      BY <1>0, <2>1 DEF Started, AdmissionOK
    <3>2. starting.item = i
      BY <1>0, <2>1 DEF Started, Starting, IInv, TypeOK
    <3>3. request[h].turn = i \/ active = i
      BY <1>0, TurnSources
    <3> QED BY <1>0, <3>1, <3>2, <3>3 DEF BegunOK, Begun, AfterStart
  <2> QED BY <2>1
<1>2. starting.stage = "persist" /\ starting.item = i /\ ~starting.cancelled
  <2>1. starting' # NotStarting /\ ~Taken(starting', queue', active', cancelling', request')
    BY DEF NotStarting, Taken
  <2> QED BY <1>1, <2>1, StarterWrites, AdmissionSteps DEF AdmissionStep, GoesOnStarting
<1>3. ~Crash
  BY <1>0 DEF Crash, Idle
<1>4. CASE request[h].turn = i
  <2>1. /\ request[h].stage = "move"
        /\ \A k, l \in DOMAIN writes : writes[k].owner = Starter /\ writes[l].owner = h => k < l
    BY <1>2, <1>4 DEF CancelOK
  <2>2. request'[h].stage = "move"
    <3>1. ~Ends(h)
      <4>1. ASSUME Ends(h) PROVE FALSE
        <5>1. 1 \in DOMAIN writes /\ writes[1].owner = h /\ DOMAIN writes = 1..Len(writes) /\ Len(writes) \in Nat
          BY <4>1, EndsShape
        <5>2. PICK k \in DOMAIN writes : writes[k].owner = Starter
          BY <1>2 DEF OwnersOK
        <5>3. k < 1 /\ k \in 1..Len(writes)
          BY <2>1, <5>1, <5>2
        <5> QED BY <5>1, <5>3
      <4> QED BY <4>1
    <3>2. request'[h].stage \in WriteStage
      BY <1>3, <2>1, <3>1, LeavesWrite DEF WriteStage
    <3>3. ~Insert(h) /\ ~InsertWritten(h) /\ request[h] # Idle
      BY <2>1 DEF Insert, InsertWritten, Idle
    <3> QED BY <2>1, <3>2, <3>3, RequestSteps DEF RequestStep, GoesOn, WriteStage, Idle
  <2>3. ASSUME NEW g \in Handlers, writes' = Persist(writes, g, queue')
        PROVE  \A k, l \in DOMAIN writes' : writes'[k].owner = Starter /\ writes'[l].owner = h => k < l
    <3>1. \E n \in Nat : /\ DOMAIN writes' = DOMAIN writes \cup {n}
                         /\ \A k \in DOMAIN writes : writes'[k] = writes[k] /\ k \in Nat /\ k < n
                         /\ writes'[n].owner = g
      BY <1>0, <2>3, PersistShape
    <3> QED BY <1>0, <2>1, <3>1
  <2>4. ASSUME NEW failed \in BOOLEAN, writes # <<>>, writes' = NextWrites(queue', failed),
               NEW k \in DOMAIN writes', NEW l \in DOMAIN writes',
               writes'[k].owner = Starter, writes'[l].owner = h
        PROVE  k < l
    <3>1. /\ k + 1 \in DOMAIN writes /\ l + 1 \in DOMAIN writes
          /\ writes[k + 1].owner = Starter /\ writes[l + 1].owner = h
          /\ k \in Nat /\ l \in Nat
      BY <1>0, <2>4, NextWritesShape
    <3>2. k + 1 < l + 1
      BY <2>1, <3>1
    <3> QED BY <3>1, <3>2
  <2>5. \A k, l \in DOMAIN writes' : writes'[k].owner = Starter /\ writes'[l].owner = h => k < l
    BY <1>1, <1>3, <2>1, <2>3, <2>4, WritesSteps DEF WritesStep, Load
  <2> QED BY <2>2, <2>5
<1>5. CASE request[h].turn # i
  <2>1. ~Insert(h)
    BY <1>2 DEF Insert, OwnersOK
  <2>2. ~SameNames(request'[h], request[h]) /\ request'[h] # Idle
    BY <1>0, <1>5 DEF SameNames, Idle
  <2>3. UserStep(h) /\ request[h] = Idle
    BY <2>1, <2>2, RequestSteps DEF RequestStep
  <2>4. ~(Removes(h) \/ StopTurn(h))
    <3>1. ~Removes(h)
      BY <1>0, <1>2, RemovesWhat
    <3>2. ~StopTurn(h)
      BY <1>0, <1>2 DEF StopTurn
    <3> QED BY <3>1, <3>2
  <2>5. request' # request
    BY <1>5
  <2>6. request'[h].stage = "move" /\ \E j \in Prompts : Promote(h, j)
    BY <1>0, <2>3, <2>4, <2>5, UserStages
  <2>7. writes' = Persist(writes, h, queue')
    BY <2>6 DEF Promote
  <2>8. \E n \in Nat : /\ DOMAIN writes' = DOMAIN writes \cup {n}
                       /\ \A k \in DOMAIN writes : writes'[k] = writes[k] /\ k \in Nat /\ k < n
                       /\ writes'[n].owner = h
    BY <1>0, <2>7, PersistShape
  <2>9. \A l \in DOMAIN writes : writes[l].owner # h
    BY <2>3 DEF OwnersOK, WriteStage, Idle
  <2> QED BY <1>0, <2>6, <2>8, <2>9
<1> QED BY <1>4, <1>5

\* While a call is outstanding that was not cancelled nothing is being started.
LEMMA UnheardAlone ==
  ASSUME IInv, BegunOK, CancelOK, NEW i \in Prompts, Unheard(i)
  PROVE  starting.item = None /\ runtime = "open" /\ Running
<1>1. prompt[i] = "open" /\ starting.item # i /\ runtime = "open" /\ Running
  BY Busy DEF Unheard, BegunOK, CancelOK
<1>2. starting.item = None
  BY <1>1, QueueAssumption DEF BegunOK, CancelOK
<1> QED BY <1>1, <1>2

\* Every step keeps that.
LEMMA CancelStep ==
  ASSUME IInv, [Next]_vars, PassedOK, OwnersOK, BegunOK, CancelOK
  PROVE  CancelOK'
<1>0. /\ None \notin Prompts /\ starting \in Starting /\ active \in Prompts \cup {None}
      /\ AdmissionOK(starting, receipt, dispatched) /\ request \in [Handlers -> Request]
  BY QueueAssumption DEF IInv, TypeOK
<1>1. ASSUME NEW i \in Prompts, prompt'[i] = "open" PROVE runtime' = "open"
  <2>1. CASE prompt[i] = "open"
    BY <1>1, <2>1, OpenStays DEF CancelOK
  <2>2. CASE Launch /\ runtime = "open"
    BY <2>2 DEF Launch
  <2> QED BY <1>1, <2>1, <2>2, PromptSteps DEF PromptStep
<1>2. ASSUME NEW i \in Prompts, Unheard(i)', prompt[i] = "open"
      PROVE  /\ active' # i => Sending' /\ starting'.item = None
             /\ \A h \in Handlers : request'[h].stage \in {"flush", "ending"} /\ request'[h].turn = i => Sending'
  <2>1. prompt'[i] = "open" /\ i \notin signalled' /\ runtime = "open"
    BY <1>2 DEF Unheard, CancelOK
  <2>2. Unheard(i)
    BY <1>2, <2>1, OpenStays DEF Unheard
  <2>3. starting.item = None /\ Running
    BY <2>2, UnheardAlone
  <2>4. Sending => Sending'
    BY <1>2, <2>1, OpenStays
  <2>5. active' # i => Sending
    <3>1. CASE active # i
      BY <2>2, <3>1 DEF CancelOK
    <3>2. ASSUME active = i, active' # i PROVE Sending
      <4>1. ~Started /\ ~Aborted /\ ~Recover
        BY <1>0, <2>3 DEF Started, Aborted, Recover, Running, AdmissionOK
      <4>2. ~ \E j \in Prompts : prompt[j] = "ending" /\ active = j
        BY <1>2, <3>2
      <4>3. PICK h \in Handlers : request[h].stage = "ending" /\ request[h].turn = i
        BY <1>0, <3>2, <4>1, <4>2, ActiveEnds
      <4> QED BY <2>2, <4>3 DEF CancelOK
    <3> QED BY <3>1, <3>2
  <2>6. Sending' => starting'.item = None
    BY <2>3, AdmissionSteps DEF AdmissionStep, GoesOnStarting, NotStarting, Taken, Sending
  <2>7. ASSUME NEW h \in Handlers, request'[h].stage \in {"flush", "ending"}, request'[h].turn = i
        PROVE  Sending'
    <3>1. request[h].turn = i /\ (request[h].stage \in {"flush", "ending"} \/ Stopping(h))
      BY <2>7, FlushSources
    <3>2. CASE request[h].stage \in {"flush", "ending"}
      BY <2>2, <2>4, <3>1, <3>2 DEF CancelOK
    <3>3. CASE Stopping(h)
      BY <2>1, <3>3, QueueAssumption DEF Stopping, Sending, IInv, TypeOK
    <3> QED BY <3>1, <3>2, <3>3
  <2> QED BY <2>4, <2>5, <2>6, <2>7
<1>3. ASSUME NEW i \in Prompts, Unheard(i)', prompt[i] # "open"
      PROVE  /\ active' = i
             /\ \A h \in Handlers : ~(request'[h].stage \in {"flush", "ending"} /\ request'[h].turn = i)
  <2>1. /\ Launch /\ active = i /\ starting.item = i /\ starting.stage = "persist" /\ ~starting.cancelled
    BY <1>3, PromptSteps DEF PromptStep, Unheard
  <2>2. active' = i
    BY <2>1 DEF Launch
  <2>3. ASSUME NEW h \in Handlers, request'[h].stage \in {"flush", "ending"}, request'[h].turn = i
        PROVE  FALSE
    <3>1. request[h].turn = i /\ (request[h].stage \in {"flush", "ending"} \/ Stopping(h))
      BY <2>3, FlushSources
    <3>2. request[h].stage = "move"
      BY <2>1, <3>1 DEF CancelOK
    <3> QED BY <3>1, <3>2 DEF Stopping
  <2> QED BY <2>2, <2>3
<1>4. \A h \in Handlers :
       /\ starting'.stage = "persist" /\ ~starting'.cancelled /\ request'[h].turn = starting'.item
       => /\ request'[h].stage = "move"
          /\ \A k, l \in DOMAIN writes' : writes'[k].owner = Starter /\ writes'[l].owner = h => k < l
  BY StartsAlone
<1> QED BY <1>1, <1>2, <1>3, <1>4 DEF CancelOK

\* That is more than the property asks for.
LEMMA CancelSuffices ==
  ASSUME IInv, CancelOK
  PROVE  OldPromptsAreCancelled
BY DEF CancelOK, OldPromptsAreCancelled, Unheard, Sending, IInv, TypeOK

\* And Launch finds no call outstanding that was not cancelled.
LEMMA LaunchesAlone ==
  ASSUME IInv, [Next]_vars, BegunOK, CancelOK
  PROVE  \A i \in Prompts : dispatched'[i] > dispatched[i] =>
           \A j \in Prompts : prompt[j] = "open" => j \in signalled
<1>1. ASSUME NEW i \in Prompts, dispatched'[i] > dispatched[i], NEW j \in Prompts, Unheard(j) PROVE FALSE
  <2>1. starting.item = i
    BY <1>1, DispatchSteps DEF IInv, TypeOK
  <2> QED BY <1>1, <2>1, UnheardAlone, QueueAssumption
<1> QED BY <1>1 DEF Unheard

-----------------------------------------------------------------------------
(* All layers together *)

\* The inductive invariant, by layers: each one needs those before it.
Safe ==
  /\ IInv /\ Durability /\ SentOK /\ PassedOK
  /\ BegunOK /\ OwnersOK /\ GoneOK /\ CancelOK

\* A server that has just been installed satisfies every layer.
LEMMA SafeInit == Init => Safe
<1> SUFFICES ASSUME Init PROVE Safe
  OBVIOUS
<1>1. IInv /\ Durability
  BY InitOK, DurabilityInit
<1>2. /\ queue = <<>> /\ disk = <<>> /\ writes = <<>> /\ ToSet(queue) = {} /\ ToSet(disk) = {}
      /\ DOMAIN writes = {} /\ sent = {} /\ unwanted = {} /\ dropped = {} /\ signalled = {}
      /\ active = None /\ server = "loaded" /\ Running
      /\ starting.item = None /\ starting.stage = "none"
  BY DEF Init, NotStarting, Running, ToSet
<1>3. /\ \A h \in Handlers : request[h].turn = None /\ request[h].drop = {} /\ request[h].stage = "idle"
      /\ \A i \in Prompts : prompt[i] = "none"
  BY DEF Init, Idle
<1>4. Inserting(request) = {}
  BY <1>3 DEF Inserting
<1>5. SentOK /\ PassedOK
  BY <1>2, <1>3, <1>4 DEF SentOK, PassedOK, Queued
<1>6. BegunOK
  BY <1>2, <1>3 DEF BegunOK, ActiveTurnIsDriven, AfterStart
<1>7. OwnersOK /\ GoneOK
  BY <1>2, <1>3 DEF OwnersOK, GoneOK
<1>8. CancelOK
  BY <1>2, <1>3 DEF CancelOK, Unheard
<1> QED BY <1>1, <1>5, <1>6, <1>7, <1>8 DEF Safe

\* Every step keeps every layer.
LEMMA SafeStep ==
  ASSUME Safe, [Next]_vars
  PROVE  Safe'
<1>1. BegunOK'
  BY BegunStep, BegunRecovers DEF Safe
<1>2. IInv' /\ Durability' /\ SentOK' /\ PassedOK'
  BY NextKeeps, DurabilityStep, SentStep, PassedStep DEF Safe
<1>3. OwnersOK' /\ GoneOK' /\ CancelOK'
  BY OwnersStep, GoneStep, CancelStep DEF Safe
<1> QED BY <1>1, <1>2, <1>3 DEF Safe

\* Every layer holds in every reachable state.
LEMMA SafeAlways == Spec => []Safe
<1>1. Init => Safe
  BY SafeInit
<1>2. Safe /\ [Next]_vars => Safe'
  BY SafeStep
<1> QED BY <1>1, <1>2, PTL DEF Spec

-----------------------------------------------------------------------------
(* The theorems *)

\* Types, and a queue and queue file that never hold a prompt twice, through
\* steering, rollbacks, failed writes and restarts.
THEOREM TypeCorrect == Spec => []TypeOK
<1>1. IInv => TypeOK
  BY IInvSuffices
<1> QED BY <1>1, Invariance, PTL

\* runNextQueued, startQueuedTurn and loadQueues hand a submission to the agent
\* at most once: TurnStarted is in the log before session/prompt is called, and
\* the receipt keeps the prompt out of the queue a restart recovers.
THEOREM AtMostOnce == Spec => []SubmittedOnce
<1>1. IInv => SubmittedOnce
  BY IInvSuffices
<1> QED BY <1>1, Invariance, PTL

\* The insertion gate holds a prompt back until TurnSubmissionAccepted is in the
\* log, so what starts is what a retry will be told was accepted.
THEOREM AcceptedFirst == Spec => []AcceptedBeforeStart
<1>1. IInv => AcceptedBeforeStart
  BY IInvSuffices
<1> QED BY <1>1, Invariance, PTL
-----------------------------------------------------------------------------

\* An accepted submission nobody asked to drop is in pending-queues.json until
\* its turn starts: whatever snapshots are still to be written, fail, or are cut
\* off by a crash, and loadQueues never finds its payload lost.
THEOREM AcceptedStays == Spec => []AcceptedIsDurable
<1>1. Safe => AcceptedIsDurable
  BY DEF Safe, Durability, AcceptedIsDurable
<1> QED BY <1>1, SafeAlways, PTL

\* No turn stays active with nobody left to end it: between TurnStarted and
\* TurnCompleted or TurnCancelled there is an admission that will hand the
\* prompt over or abort it, or a session/prompt call that is not settled.
THEOREM ActiveIsDriven == Spec => []ActiveTurnIsDriven
<1>1. Safe => ActiveTurnIsDriven
  BY DEF Safe, BegunOK
<1> QED BY <1>1, SafeAlways, PTL

\* A session/prompt call that outlives its turn has been cancelled at the agent,
\* or a session/cancel is on its way: cancelThreadTurn sends it before the turn
\* is given up, and no other path ends the turn of an outstanding call.
THEOREM OldOnesAreCancelled == Spec => []OldPromptsAreCancelled
<1>1. Safe => OldPromptsAreCancelled
  BY CancelSuffices DEF Safe
<1> QED BY <1>1, SafeAlways, PTL

\* removeQueuedTurn, clearQueue and interruptTurn keep their word: what they
\* recorded as removed is never handed to the agent afterwards, although an
\* admission may have taken it and old snapshots may still be on their way.
THEOREM RemovalIsFinal == Spec => DroppedStaysDropped
<1>1. Safe /\ [Next]_vars => [\A i \in dropped : dispatched'[i] = dispatched[i]]_vars
  BY DroppedStay DEF Safe
<1> QED BY <1>1, SafeAlways, PTL DEF Spec, DroppedStaysDropped

\* Nothing is handed to the agent while a call is outstanding that no
\* session/cancel has reached: turnCancellations and the active turn hold the
\* queue from the one until the other.
THEOREM OneUncancelled == Spec => LaunchAfterCancel
<1>1. Safe /\ [Next]_vars =>
        [\A i \in Prompts : dispatched'[i] > dispatched[i] =>
           \A j \in Prompts : prompt[j] = "open" => j \in signalled]_vars
  BY LaunchesAlone DEF Safe
<1> QED BY <1>1, SafeAlways, PTL DEF Spec, LaunchAfterCancel
=============================================================================
