-------------------------- MODULE RendererSyncProofs --------------------------
(***************************************************************************)
(* The renderer shows each event once.                                     *)
(***************************************************************************)
EXTENDS RendererSync, WellFoundedInduction, TLAPS

Values == Seq(Nat) \cup {None}
Views == [Threads -> Values]
Kinds == {"created", "updated", "deleted", "goal"}
Pushed == [type : {"event"}, kind : Kinds, thread : Threads, n : Nat]
Messages ==
  Pushed \cup [type : {"list"}, id : Nat, threads : Views]
         \cup [type : {"thread", "goal"}, thread : Threads, value : Values]

\* None is not a thread's events.
SyncNamed == None \notin Seq(Nat)

\* An event that makes or removes the thread: what it was before does not matter.
Sets(m, t) == m.type = "event" /\ m.thread = t /\ m.kind \in {"created", "deleted"}
Touched(s, t) == \E i \in DOMAIN s : Sets(s[i], t)

Requested == [id : Nat, threads : Views \cup {None}]
Lists == [state : {"off", "waiting"}, id : Nat, attempt : Nat]

SyncTyped ==
  /\ server \in Views /\ view \in Views /\ count \in Nat
  /\ socket \in Seq(Messages) /\ batch \in Seq(Messages)
  /\ asked \subseteq Requested /\ list \in Lists
  /\ recovered \subseteq Present(view)
  /\ \A r \in asked : r.id <= list.id
  /\ \A p \in DOMAIN socket : socket[p].type = "list" => socket[p].id <= list.id
  /\ ~connected => socket = <<>> /\ asked = {} /\ ~listed /\ list.state = "off"

\* A list that may still be installed has what was not pushed behind it: it was read
\* when nothing was on its way, or something is received before it and disturbs it.
Follows(threads, stored, messages, k) ==
  \/ stored = Applied(threads, messages)
  \/ \E i \in 1..k : messages[i].type # "list"
ListOK ==
  list.state = "waiting" /\ ~disturbed =>
    /\ batch = <<>>
    /\ \A r \in asked : r.id = list.id /\ r.threads # None =>
         Follows(r.threads, server, socket, Len(socket))
    /\ \A p \in DOMAIN socket : socket[p].type = "list" /\ socket[p].id = list.id =>
         Follows(socket[p].threads, server, socket, p - 1)

\* The thread is shown once the messages arrived, or was deleted while the connection
\* was down and nothing on its way is about its being there.
ShownAs(shown, messages, stored, kept, t) ==
  \/ Applied(shown, messages)[t] = stored[t]
  \/ /\ stored[t] = None /\ t \in kept /\ shown[t] # None
     /\ ~Touched(messages, t)
ShownOK ==
  listed => \A t \in Threads \ overwritten :
    ShownAs(view, batch \o socket, server, recovered, t)

SyncInv == SyncTyped /\ ListOK /\ ShownOK

-----------------------------------------------------------------------------
(* What messages do to the threads *)

\* Any set of numbers has a least one.
LEMMA Least == ASSUME NEW S \in SUBSET Nat, S # {} PROVE \E n \in S : \A m \in S : n <= m
<1>1. IsWellFoundedOn(OpToRel(<, Nat), Nat)
  BY NatLessThanWellFounded
<1>2. \E x \in S : \A y \in S : ~(<<y, x>> \in OpToRel(<, Nat))
  BY <1>1, WFMin
<1>3. OpToRel(<, Nat) = {p \in Nat \X Nat : p[1] < p[2]}
  BY DEF OpToRel
<1>4. PICK x \in S : \A y \in S : ~(<<y, x>> \in {p \in Nat \X Nat : p[1] < p[2]})
  BY <1>2, <1>3
<1>5. ASSUME NEW y \in S PROVE x <= y
  <2>1. x \in Nat /\ y \in Nat
    OBVIOUS
  <2>2. y < x => <<y, x>> \in {p \in Nat \X Nat : p[1] < p[2]}
    BY <2>1
  <2>3. ~(y < x)
    BY <1>4, <1>5, <2>2
  <2> QED BY <2>1, <2>3
<1> QED BY <1>5

\* The threads after each of the first k messages.
Run(f, v, s, k) == f = [i \in 0..k |-> IF i = 0 THEN v ELSE Arrive(f[i - 1], s[i])]

\* There are such threads,
LEMMA RunExists ==
  ASSUME NEW v, NEW s, NEW k \in Nat
  PROVE  \E f : Run(f, v, s, k)
<1> DEFINE Bad == {n \in Nat : ~\E f : Run(f, v, s, n)}
<1>1. SUFFICES ASSUME Bad # {} PROVE FALSE
  OBVIOUS
<1>2. PICK n \in Bad : \A m \in Bad : n <= m
  BY <1>1, Least
<1>3. n \in Nat /\ ~\E f : Run(f, v, s, n)
  BY <1>2
<1>4. CASE n = 0
  <2>1. Run([i \in 0..0 |-> v], v, s, 0)
    BY DEF Run
  <2> QED BY <1>3, <1>4, <2>1
<1>5. CASE n # 0
  <2>1. n - 1 \in Nat /\ ~(n - 1 \in Bad)
    BY <1>2, <1>3, <1>5
  <2>2. PICK g : Run(g, v, s, n - 1)
    BY <2>1
  <2> DEFINE f == [i \in 0..n |-> IF i = n THEN Arrive(g[n - 1], s[n]) ELSE g[i]]
  <2>3. \A i \in 0..n - 1 : g[i] = IF i = 0 THEN v ELSE Arrive(g[i - 1], s[i])
    BY <2>2 DEF Run
  <2>4. ASSUME NEW i \in 0..n
        PROVE  f[i] = IF i = 0 THEN v ELSE Arrive(f[i - 1], s[i])
    <3>1. CASE i = n
      <4>1. f[i] = Arrive(g[n - 1], s[n]) /\ f[i - 1] = g[n - 1]
        BY <1>3, <1>5, <3>1
      <4> QED BY <1>5, <3>1, <4>1
    <3>2. CASE i # n /\ i # 0
      <4>1. f[i] = g[i] /\ f[i - 1] = g[i - 1] /\ i \in 0..n - 1
        BY <1>3, <3>2
      <4> QED BY <2>3, <3>2, <4>1
    <3>3. CASE i # n /\ i = 0
      <4>1. f[i] = g[i] /\ i \in 0..n - 1
        BY <1>3, <3>3
      <4> QED BY <2>3, <3>3, <4>1
    <3> QED BY <3>1, <3>2, <3>3
  <2>5. f = [i \in 0..n |-> IF i = 0 THEN v ELSE Arrive(f[i - 1], s[i])]
    <3>1. f = [i \in 0..n |-> f[i]]
      OBVIOUS
    <3> HIDE DEF f
    <3> QED BY <2>4, <3>1
  <2>6. Run(f, v, s, n)
    BY <2>5 DEF Run
  <2> QED BY <1>3, <2>6
<1> QED BY <1>4, <1>5

\* and none others: messages that agree have the same effect.
LEMMA RunIsOne ==
  ASSUME NEW v, NEW s, NEW u, NEW f, NEW g, NEW k \in Nat, NEW l \in Nat, k <= l,
         Run(f, v, s, k), Run(g, v, u, l), \A i \in 1..k : s[i] = u[i]
  PROVE  \A i \in 0..k : f[i] = g[i]
<1> DEFINE Bad == {i \in 0..k : f[i] # g[i]}
<1>1. SUFFICES ASSUME Bad # {} PROVE FALSE
  OBVIOUS
<1>2. PICK n \in Bad : \A m \in Bad : n <= m
  <2>1. Bad \in SUBSET Nat
    OBVIOUS
  <2> QED BY <1>1, <2>1, Least
<1>3. n \in 0..k /\ f[n] # g[n]
  BY <1>2
<1>4. /\ f[n] = IF n = 0 THEN v ELSE Arrive(f[n - 1], s[n])
      /\ g[n] = IF n = 0 THEN v ELSE Arrive(g[n - 1], u[n])
  BY <1>3 DEF Run
<1>5. CASE n = 0
  BY <1>3, <1>4, <1>5
<1>6. CASE n # 0
  <2>1. n - 1 \in 0..k /\ ~(n - 1 \in Bad) /\ s[n] = u[n]
    BY <1>2, <1>3, <1>6
  <2> QED BY <1>3, <1>4, <1>6, <2>1
<1> QED BY <1>5, <1>6

\* Applied is where such threads end.
LEMMA AppliedIs ==
  ASSUME NEW v, NEW s, Len(s) \in Nat
  PROVE  \E f : Run(f, v, s, Len(s)) /\ Applied(v, s) = f[Len(s)]
<1>1. \E f : f = [i \in 0..Len(s) |-> IF i = 0 THEN v ELSE Arrive(f[i - 1], s[i])]
  <2>1. \E f : Run(f, v, s, Len(s))
    BY RunExists
  <2> QED BY <2>1, Zenon DEF Run
<1> DEFINE f == CHOOSE f : f = [i \in 0..Len(s) |-> IF i = 0 THEN v ELSE Arrive(f[i - 1], s[i])]
<1>2. f = [i \in 0..Len(s) |-> IF i = 0 THEN v ELSE Arrive(f[i - 1], s[i])]
  BY <1>1
<1>3. Applied(v, s) = f[Len(s)]
  BY DEF Applied
<1> QED BY <1>2, <1>3 DEF Run

\* One message after others.
LEMMA AppliedStep ==
  ASSUME NEW S, NEW s \in Seq(S), NEW m \in S, NEW v
  PROVE  Applied(v, Append(s, m)) = Arrive(Applied(v, s), m)
<1>1. PICK u : u = Append(s, m)
  OBVIOUS
<1>2. PICK l \in Nat : l = Len(u) /\ l # 0 /\ u[l] = m /\ Len(s) = l - 1 /\ l - 1 \in Nat
                       /\ \A i \in 1..l - 1 : s[i] = u[i]
  BY <1>1
<1>3. PICK f : Run(f, v, s, l - 1) /\ Applied(v, s) = f[l - 1]
  BY <1>2, AppliedIs
<1>4. PICK g : Run(g, v, u, l) /\ Applied(v, u) = g[l]
  BY <1>2, AppliedIs
<1>5. f[l - 1] = g[l - 1]
  <2>1. l - 1 <= l /\ l - 1 \in 0..l - 1
    BY <1>2
  <2>2. \A i \in 0..l - 1 : f[i] = g[i]
    BY <1>2, <1>3, <1>4, <2>1, RunIsOne
  <2> QED BY <2>1, <2>2
<1>6. g[l] = Arrive(g[l - 1], u[l])
  <2>1. l \in 0..l /\ l # 0
    BY <1>2
  <2> QED BY <1>4, <2>1 DEF Run
<1> QED BY <1>1, <1>2, <1>3, <1>4, <1>5, <1>6

\* No message changes nothing.
LEMMA AppliedNone == ASSUME NEW v PROVE Applied(v, <<>>) = v
<1>1. PICK f : Run(f, v, <<>>, 0) /\ Applied(v, <<>>) = f[0]
  BY AppliedIs
<1> QED BY <1>1 DEF Run

\* A sequence that is not empty ends in a message.
LEMMA EndsIn ==
  ASSUME NEW S, NEW w \in Seq(S), Len(w) # 0
  PROVE  \E x \in Seq(S), m \in S : w = Append(x, m) /\ Len(x) = Len(w) - 1
<1>1. PICK x : x = [i \in 1..Len(w) - 1 |-> w[i]]
  OBVIOUS
<1>2. x \in Seq(S) /\ Len(x) = Len(w) - 1
  <2>1. \A i \in 1..Len(w) - 1 : w[i] \in S
    OBVIOUS
  <2> QED BY <1>1, <2>1
<1>3. w[Len(w)] \in S
  OBVIOUS
<1>4. w = Append(x, w[Len(w)])
  BY <1>1
<1> QED BY <1>2, <1>3, <1>4

\* What is appended to the last of two sequences is appended to both.
LEMMA AppendedToBoth ==
  ASSUME NEW S, NEW s \in Seq(S), NEW x \in Seq(S), NEW m \in S
  PROVE  s \o Append(x, m) = Append(s \o x, m) /\ s \o x \in Seq(S)
OBVIOUS

\* Messages are applied one after the other.
LEMMA AppliedTwice ==
  ASSUME NEW v, NEW s \in Seq(Messages), NEW u \in Seq(Messages)
  PROVE  Applied(v, s \o u) = Applied(Applied(v, s), u)
<1> DEFINE Bad == {n \in Nat : \E w \in Seq(Messages) :
                      Len(w) = n /\ Applied(v, s \o w) # Applied(Applied(v, s), w)}
<1>1. SUFFICES ASSUME Bad # {} PROVE FALSE
  <2>1. Len(u) \in Nat /\ u \in Seq(Messages)
    OBVIOUS
  <2> QED BY <2>1
<1>2. PICK n \in Bad : \A m \in Bad : n <= m
  <2>1. Bad \in SUBSET Nat
    OBVIOUS
  <2> QED BY <1>1, <2>1, Least
<1>3. PICK w \in Seq(Messages) : Len(w) = n /\ Applied(v, s \o w) # Applied(Applied(v, s), w)
  BY <1>2
<1>4. n \in Nat
  BY <1>2
<1>5. CASE n = 0
  <2>1. w = <<>> /\ s \o w = s
    BY <1>3, <1>5
  <2> QED BY <1>3, <2>1, AppliedNone
<1>6. CASE n # 0
  <2>1. PICK x \in Seq(Messages), m \in Messages : w = Append(x, m) /\ Len(x) = n - 1
    <3>1. w \in Seq(Messages) /\ Len(w) # 0 /\ Len(w) = n
      BY <1>3, <1>4, <1>6
    <3>2. \E x \in Seq(Messages), m \in Messages : w = Append(x, m) /\ Len(x) = Len(w) - 1
      BY <3>1, EndsIn
    <3> QED BY <3>1, <3>2
  <2>2. s \o w = Append(s \o x, m) /\ s \o x \in Seq(Messages)
    BY <2>1, AppendedToBoth
  <2>3. Applied(v, s \o x) = Applied(Applied(v, s), x)
    <3>1. n - 1 \in Nat /\ ~(n - 1 \in Bad)
      BY <1>2, <1>4, <1>6
    <3> QED BY <2>1, <3>1
  <2>4. Applied(v, Append(s \o x, m)) = Arrive(Applied(v, s \o x), m)
    BY <2>1, <2>2, AppliedStep
  <2>5. Applied(Applied(v, s), Append(x, m)) = Arrive(Applied(Applied(v, s), x), m)
    BY <2>1, <2>2, AppliedStep
  <2> QED BY <1>3, <2>1, <2>2, <2>3, <2>4, <2>5
<1> QED BY <1>4, <1>5, <1>6

\* One message does to a thread what it does, whatever other threads are.
LEMMA ArriveIs ==
  ASSUME SyncNamed, NEW v \in Views, NEW m \in Messages
  PROVE  /\ Arrive(v, m) \in Views
         /\ \A t \in Threads : Sets(m, t) /\ m.kind = "created" => Arrive(v, m)[t] = <<m.n>>
         /\ \A t \in Threads : Sets(m, t) /\ m.kind = "deleted" => Arrive(v, m)[t] = None
         /\ \A t \in Threads : ~Sets(m, t) => (Arrive(v, m)[t] = None <=> v[t] = None)
         /\ \A w \in Views, t \in Threads :
              v[t] = w[t] \/ Sets(m, t) => Arrive(v, m)[t] = Arrive(w, m)[t]
<1>1. CASE m.type # "event"
  BY <1>1 DEF Arrive, Sets
<1>2. CASE m.type = "event"
  <2>1. m.thread \in Threads /\ m.kind \in Kinds /\ m.n \in Nat
    BY <1>2 DEF Messages, Pushed
  <2>2. ASSUME NEW w \in Views
        PROVE  \/ m.kind = "created" /\ Arrive(w, m) = [w EXCEPT ![m.thread] = <<m.n>>]
               \/ m.kind = "deleted" /\ Arrive(w, m) = [w EXCEPT ![m.thread] = None]
               \/ /\ m.kind \notin {"created", "deleted"}
                  /\ w[m.thread] # None /\ m.kind # "goal"
                  /\ w[m.thread] \in Seq(Nat)
                  /\ Arrive(w, m) = [w EXCEPT ![m.thread] = Append(w[m.thread], m.n)]
               \/ /\ m.kind \notin {"created", "deleted"}
                  /\ w[m.thread] = None \/ m.kind = "goal"
                  /\ Arrive(w, m) = w
    BY <1>2, <2>1 DEF Arrive, Apply, Kinds, Views, Values
  <2>3. <<m.n>> \in Values /\ None \in Values /\ <<m.n>> # None
    <3>1. <<m.n>> \in Seq(Nat)
      BY <2>1
    <3> QED BY <3>1 DEF Values, SyncNamed
  <2>4. \A q \in Seq(Nat) : Append(q, m.n) \in Seq(Nat) /\ Append(q, m.n) \in Values
                            /\ Append(q, m.n) # None
    BY <2>1 DEF Values, SyncNamed
  <2>5. Arrive(v, m) \in Views
    <3>1. \A x \in Values : [v EXCEPT ![m.thread] = x] \in Views
      BY DEF Views
    <3>2. \/ Arrive(v, m) = v
          \/ \E x \in Values : Arrive(v, m) = [v EXCEPT ![m.thread] = x]
      BY <2>2, <2>3, <2>4, Zenon
    <3> QED BY <3>1, <3>2
  <2>6. ASSUME NEW t \in Threads
        PROVE  /\ Sets(m, t) /\ m.kind = "created" => Arrive(v, m)[t] = <<m.n>>
               /\ Sets(m, t) /\ m.kind = "deleted" => Arrive(v, m)[t] = None
               /\ ~Sets(m, t) => (Arrive(v, m)[t] = None <=> v[t] = None)
    BY <1>2, <2>1, <2>2, <2>3, <2>4 DEF Views, Sets, Kinds
  <2>7. ASSUME NEW w \in Views, NEW t \in Threads, v[t] = w[t] \/ Sets(m, t)
        PROVE  Arrive(v, m)[t] = Arrive(w, m)[t]
    <3>1. CASE t # m.thread
      BY <2>1, <2>2, <2>7, <3>1 DEF Views, Sets
    <3>2. CASE t = m.thread
      <4>1. \A x : [v EXCEPT ![t] = x][t] = x /\ [w EXCEPT ![t] = x][t] = x
        BY DEF Views
      <4>2. CASE Sets(m, t)
        BY <2>2, <3>2, <4>1, <4>2, Zenon DEF Sets
      <4>3. CASE v[t] = w[t] /\ ~Sets(m, t)
        <5>1. m.kind \notin {"created", "deleted"}
          BY <1>2, <3>2, <4>3 DEF Sets
        <5>2. ASSUME NEW x \in Views
              PROVE  Arrive(x, m)[t] = IF x[t] # None /\ m.kind # "goal"
                                       THEN Append(x[t], m.n) ELSE x[t]
          <6>1. /\ x[t] # None /\ m.kind # "goal" =>
                     Arrive(x, m) = [x EXCEPT ![t] = Append(x[t], m.n)]
                /\ x[t] = None \/ m.kind = "goal" => Arrive(x, m) = x
            BY <2>2, <3>2, <5>1, Zenon
          <6>2. \A y : [x EXCEPT ![t] = y][t] = y
            BY DEF Views
          <6> QED BY <6>1, <6>2
        <5> QED BY <4>3, <5>2
      <4> QED BY <2>7, <4>2, <4>3
    <3> QED BY <3>1, <3>2
  <2> QED BY <2>5, <2>6, <2>7
<1> QED BY <1>1, <1>2

\* Messages keep the threads typed; those that are no events change nothing; and what
\* becomes of a thread depends on that thread alone, or not even on it.
LEMMA AppliedThread ==
  ASSUME SyncNamed, NEW u \in Seq(Messages)
  PROVE  /\ \A v \in Views : Applied(v, u) \in Views
         /\ \A v \in Views : (\A i \in DOMAIN u : u[i].type # "event") => Applied(v, u) = v
         /\ \A v \in Views, t \in Threads :
              ~Touched(u, t) => (Applied(v, u)[t] = None <=> v[t] = None)
         /\ \A v, w \in Views, t \in Threads :
              v[t] = w[t] \/ Touched(u, t) => Applied(v, u)[t] = Applied(w, u)[t]
<1> DEFINE P(s) == /\ \A v \in Views : Applied(v, s) \in Views
                   /\ \A v \in Views :
                        (\A i \in DOMAIN s : s[i].type # "event") => Applied(v, s) = v
                   /\ \A v \in Views, t \in Threads :
                        ~Touched(s, t) => (Applied(v, s)[t] = None <=> v[t] = None)
                   /\ \A v, w \in Views, t \in Threads :
                        v[t] = w[t] \/ Touched(s, t) => Applied(v, s)[t] = Applied(w, s)[t]
<1>1. ASSUME NEW x \in Seq(Messages), NEW m \in Messages, P(x)
      PROVE  P(Append(x, m))
  <2>1. \A v \in Views : Applied(v, Append(x, m)) = Arrive(Applied(v, x), m)
                         /\ Applied(v, x) \in Views
    BY <1>1, AppliedStep
  <2>2. DOMAIN Append(x, m) = DOMAIN x \cup {Len(x) + 1} /\ Append(x, m)[Len(x) + 1] = m
        /\ \A i \in DOMAIN x : Append(x, m)[i] = x[i]
    OBVIOUS
  <2>3. \A t \in Threads : Touched(Append(x, m), t) <=> Touched(x, t) \/ Sets(m, t)
    BY <2>2 DEF Touched
  <2>4. ASSUME NEW v \in Views
        PROVE  /\ Applied(v, Append(x, m)) \in Views
               /\ \A t \in Threads : ~Touched(Append(x, m), t) =>
                    (Applied(v, Append(x, m))[t] = None <=> v[t] = None)
    BY <1>1, <2>1, <2>3, ArriveIs
  <2>5. ASSUME NEW v \in Views, \A i \in DOMAIN Append(x, m) : Append(x, m)[i].type # "event"
        PROVE  Applied(v, Append(x, m)) = v
    <3>1. \A i \in DOMAIN x : x[i].type # "event"
      BY <2>2, <2>5
    <3>2. m.type # "event"
      BY <2>2, <2>5
    <3> QED BY <1>1, <2>1, <3>1, <3>2 DEF Arrive
  <2>6. ASSUME NEW v \in Views, NEW w \in Views, NEW t \in Threads,
               v[t] = w[t] \/ Touched(Append(x, m), t)
        PROVE  Applied(v, Append(x, m))[t] = Applied(w, Append(x, m))[t]
    <3>1. Applied(v, x)[t] = Applied(w, x)[t] \/ Sets(m, t)
      BY <1>1, <2>3, <2>6
    <3> QED BY <2>1, <3>1, ArriveIs
  <2> QED BY <2>4, <2>5, <2>6
<1>2. P(<<>>)
  BY AppliedNone DEF Touched
<1> HIDE DEF P
<1> DEFINE Bad == {n \in Nat : \E w \in Seq(Messages) : Len(w) = n /\ ~P(w)}
<1>3. SUFFICES ASSUME Bad # {} PROVE FALSE
  <2>1. Len(u) \in Nat /\ u \in Seq(Messages)
    OBVIOUS
  <2>2. P(u)
    BY <1>3, <2>1
  <2> QED BY <2>2 DEF P
<1>4. PICK n \in Bad : \A m \in Bad : n <= m
  <2>1. Bad \in SUBSET Nat
    OBVIOUS
  <2> QED BY <1>3, <2>1, Least
<1>5. PICK w \in Seq(Messages) : Len(w) = n /\ ~P(w)
  BY <1>4
<1>6. n \in Nat
  BY <1>4
<1>7. CASE n = 0
  <2>1. w = <<>>
    BY <1>5, <1>7
  <2> QED BY <1>2, <1>5, <2>1
<1>8. CASE n # 0
  <2>1. PICK x \in Seq(Messages), m \in Messages : w = Append(x, m) /\ Len(x) = n - 1
    <3>1. w \in Seq(Messages) /\ Len(w) # 0 /\ Len(w) = n
      BY <1>5, <1>6, <1>8
    <3>2. \E x \in Seq(Messages), m \in Messages : w = Append(x, m) /\ Len(x) = Len(w) - 1
      BY <3>1, EndsIn
    <3> QED BY <3>1, <3>2
  <2>2. P(x)
    <3>1. n - 1 \in Nat /\ ~(n - 1 \in Bad)
      BY <1>4, <1>6, <1>8
    <3> QED BY <2>1, <3>1
  <2> QED BY <1>1, <1>5, <2>1, <2>2
<1> QED BY <1>6, <1>7, <1>8

\* The first message, and the rest.
LEMMA FirstApplied ==
  ASSUME SyncNamed, NEW s \in Seq(Messages), s # <<>>, NEW v
  PROVE  Applied(v, s) = Applied(Arrive(v, Head(s)), Tail(s))
<1>1. Head(s) \in Messages /\ <<Head(s)>> \in Seq(Messages) /\ Tail(s) \in Seq(Messages)
      /\ s = <<Head(s)>> \o Tail(s) /\ <<Head(s)>> = Append(<<>>, Head(s)) /\ <<>> \in Seq(Messages)
  OBVIOUS
<1>2. Applied(v, s) = Applied(Applied(v, <<Head(s)>>), Tail(s))
  <2>1. Applied(v, <<Head(s)>> \o Tail(s)) = Applied(Applied(v, <<Head(s)>>), Tail(s))
    BY <1>1, AppliedTwice, Zenon
  <2> QED BY <1>1, <2>1
<1>3. Applied(v, <<Head(s)>>) = Arrive(Applied(v, <<>>), Head(s))
  BY <1>1, AppliedStep
<1> QED BY <1>2, <1>3, AppliedNone

\* Which threads a sequence is about.
LEMMA TouchedIs ==
  ASSUME NEW b \in Seq(Messages), NEW s \in Seq(Messages), NEW t
  PROVE  /\ Touched(b \o s, t) <=> Touched(b, t) \/ Touched(s, t)
         /\ s # <<>> => (Touched(s, t) <=> Sets(Head(s), t) \/ Touched(Tail(s), t))
         /\ \A m \in Messages : Touched(Append(s, m), t) <=> Touched(s, t) \/ Sets(m, t)
<1>1. /\ DOMAIN (b \o s) = 1..Len(b) + Len(s) /\ Len(b) \in Nat /\ Len(s) \in Nat
      /\ DOMAIN b = 1..Len(b) /\ DOMAIN s = 1..Len(s)
      /\ \A i \in 1..Len(b) : (b \o s)[i] = b[i]
      /\ \A i \in 1..Len(s) : (b \o s)[Len(b) + i] = s[i]
  OBVIOUS
<1>2. Touched(b \o s, t) <=> Touched(b, t) \/ Touched(s, t)
  <2>1. ASSUME Touched(b \o s, t) PROVE Touched(b, t) \/ Touched(s, t)
    <3>1. PICK i \in 1..Len(b) + Len(s) : Sets((b \o s)[i], t)
      BY <1>1, <2>1 DEF Touched
    <3>2. CASE i <= Len(b)
      BY <1>1, <3>1, <3>2 DEF Touched
    <3>3. CASE ~(i <= Len(b))
      <4>1. i - Len(b) \in 1..Len(s) /\ (b \o s)[i] = s[i - Len(b)]
        BY <1>1, <3>1, <3>3
      <4> QED BY <1>1, <3>1, <4>1 DEF Touched
    <3> QED BY <3>2, <3>3
  <2>2. ASSUME Touched(b, t) PROVE Touched(b \o s, t)
    BY <1>1, <2>2 DEF Touched
  <2>3. ASSUME Touched(s, t) PROVE Touched(b \o s, t)
    <3>1. PICK i \in 1..Len(s) : Sets(s[i], t)
      BY <1>1, <2>3 DEF Touched
    <3>2. Len(b) + i \in 1..Len(b) + Len(s) /\ (b \o s)[Len(b) + i] = s[i]
      BY <1>1, <3>1
    <3> QED BY <1>1, <3>1, <3>2 DEF Touched
  <2> QED BY <2>1, <2>2, <2>3
<1>3. ASSUME s # <<>>
      PROVE  Touched(s, t) <=> Sets(Head(s), t) \/ Touched(Tail(s), t)
  <2>1. /\ Head(s) = s[1] /\ DOMAIN Tail(s) = 1..Len(s) - 1 /\ 1 \in DOMAIN s
        /\ \A i \in 1..Len(s) - 1 : Tail(s)[i] = s[i + 1] /\ i + 1 \in DOMAIN s
        /\ \A i \in DOMAIN s : i = 1 \/ (i - 1 \in 1..Len(s) - 1 /\ Tail(s)[i - 1] = s[i])
    BY <1>1, <1>3
  <2> QED BY <2>1 DEF Touched
<1>4. ASSUME NEW m \in Messages
      PROVE  Touched(Append(s, m), t) <=> Touched(s, t) \/ Sets(m, t)
  <2>2. DOMAIN Append(s, m) = DOMAIN s \cup {Len(s) + 1} /\ Append(s, m)[Len(s) + 1] = m
        /\ \A i \in DOMAIN s : Append(s, m)[i] = s[i]
    OBVIOUS
  <2> QED BY <2>2 DEF Touched
<1> QED BY <1>2, <1>3, <1>4

\* A message that is sent is shown in its turn.
LEMMA ShownSent ==
  ASSUME SyncNamed, NEW v \in Views, NEW b \in Seq(Messages), NEW s \in Seq(Messages),
         NEW m \in Messages, NEW w \in Views, NEW k, NEW t \in Threads,
         ShownAs(v, b \o s, w, k, t)
  PROVE  ShownAs(v, b \o Append(s, m), Arrive(w, m), k, t)
<1>1. b \o Append(s, m) = Append(b \o s, m) /\ b \o s \in Seq(Messages)
  BY AppendedToBoth
<1>2. Applied(v, Append(b \o s, m)) = Arrive(Applied(v, b \o s), m)
  BY <1>1, AppliedStep
<1>3. Applied(v, b \o s) \in Views
  BY <1>1, AppliedThread
<1>4. CASE Applied(v, b \o s)[t] = w[t]
  BY <1>1, <1>2, <1>3, <1>4, ArriveIs DEF ShownAs
<1>5. CASE Sets(m, t)
  BY <1>1, <1>2, <1>3, <1>5, ArriveIs DEF ShownAs
<1>6. CASE /\ w[t] = None /\ t \in k /\ v[t] # None /\ ~Touched(b \o s, t)
           /\ ~Sets(m, t)
  <2>1. ~Touched(Append(b \o s, m), t)
    BY <1>1, <1>6, TouchedIs
  <2>2. Arrive(w, m)[t] = None
    BY <1>6, ArriveIs
  <2> QED BY <1>1, <1>6, <2>1, <2>2 DEF ShownAs
<1> QED BY <1>4, <1>5, <1>6 DEF ShownAs

\* So is a batch that is applied.
LEMMA ShownApplied ==
  ASSUME SyncNamed, NEW v \in Views, NEW b \in Seq(Messages), NEW s \in Seq(Messages),
         NEW w, NEW k, NEW t \in Threads, ShownAs(v, b \o s, w, k, t)
  PROVE  ShownAs(Applied(v, b), <<>> \o s, w, k \cap Present(Applied(v, b)), t)
<1>1. Applied(v, b \o s) = Applied(Applied(v, b), s) /\ <<>> \o s = s
  BY AppliedTwice
<1>2. CASE w[t] = None /\ t \in k /\ v[t] # None /\ ~Touched(b \o s, t)
  <2>1. ~Touched(b, t) /\ ~Touched(s, t)
    BY <1>2, TouchedIs
  <2>2. Applied(v, b)[t] # None
    BY <1>2, <2>1, AppliedThread
  <2> QED BY <1>1, <1>2, <2>1, <2>2 DEF ShownAs, Present
<1> QED BY <1>1, <1>2 DEF ShownAs

\* An event that arrives is only moved.
LEMMA ShownMoved ==
  ASSUME NEW b \in Seq(Messages), NEW s \in Seq(Messages), s # <<>>
  PROVE  Append(b, Head(s)) \o Tail(s) = b \o s
OBVIOUS

\* Any other message may go, if the thread stays as it is.
LEMMA ShownSkipped ==
  ASSUME SyncNamed, NEW v \in Views, NEW b \in Seq(Messages), NEW s \in Seq(Messages),
         s # <<>>, Head(s).type # "event", NEW w, NEW k, NEW t \in Threads,
         ShownAs(v, b \o s, w, k, t),
         NEW x \in Views, x[t] = v[t], NEW l, t \in k => t \in l
  PROVE  ShownAs(x, b \o Tail(s), w, l, t)
<1>1. Tail(s) \in Seq(Messages) /\ b \o Tail(s) \in Seq(Messages)
  OBVIOUS
<1>2. Applied(v, b \o s) = Applied(v, b \o Tail(s))
  <2>1. Applied(v, b \o s) = Applied(Applied(v, b), s)
    BY AppliedTwice
  <2>2. Applied(Applied(v, b), s) = Applied(Applied(v, b), Tail(s))
    BY FirstApplied DEF Arrive
  <2>3. Applied(v, b \o Tail(s)) = Applied(Applied(v, b), Tail(s))
    BY <1>1, AppliedTwice
  <2> QED BY <2>1, <2>2, <2>3
<1>3. Applied(x, b \o Tail(s))[t] = Applied(v, b \o Tail(s))[t]
  <2>1. PICK u \in Seq(Messages) : u = b \o Tail(s)
    BY <1>1
  <2>2. \A y, z \in Views, r \in Threads : y[r] = z[r] \/ Touched(u, r) =>
          Applied(y, u)[r] = Applied(z, u)[r]
    BY AppliedThread
  <2> QED BY <2>1, <2>2
<1>4. Touched(b \o Tail(s), t) => Touched(b \o s, t)
  BY <1>1, TouchedIs
<1> QED BY <1>2, <1>3, <1>4 DEF ShownAs

-----------------------------------------------------------------------------
(* The invariant *)

\* The shape of messages.
LEMMA MessageIs ==
  /\ \A m \in Messages : m.type = "event" => m.kind \in Kinds /\ m.thread \in Threads
  /\ \A m \in Messages : m.type = "list" => m.id \in Nat /\ m.threads \in Views
  /\ \A m \in Messages :
       m.type \in {"thread", "goal"} => m.thread \in Threads /\ m.value \in Values
  /\ \A k \in Kinds, t \in Threads, n \in Nat :
       [type |-> "event", kind |-> k, thread |-> t, n |-> n] \in Messages
  /\ \A id \in Nat, v \in Views : [type |-> "list", id |-> id, threads |-> v] \in Messages
  /\ \A y \in {"thread", "goal"}, t \in Threads, x \in Values :
       [type |-> y, thread |-> t, value |-> x] \in Messages
<1>1. ASSUME NEW m \in Messages, m.type = "event" PROVE m.kind \in Kinds /\ m.thread \in Threads
  BY <1>1 DEF Messages, Pushed
<1>2. ASSUME NEW m \in Messages, m.type = "list" PROVE m.id \in Nat /\ m.threads \in Views
  BY <1>2 DEF Messages, Pushed
<1>3. ASSUME NEW m \in Messages, m.type \in {"thread", "goal"}
      PROVE  m.thread \in Threads /\ m.value \in Values
  BY <1>3 DEF Messages, Pushed
<1>4. ASSUME NEW k \in Kinds, NEW t \in Threads, NEW n \in Nat
      PROVE  [type |-> "event", kind |-> k, thread |-> t, n |-> n] \in Messages
  BY DEF Messages, Pushed
<1>5. ASSUME NEW id \in Nat, NEW v \in Views
      PROVE  [type |-> "list", id |-> id, threads |-> v] \in Messages
  BY DEF Messages
<1>6. ASSUME NEW y \in {"thread", "goal"}, NEW t \in Threads, NEW x \in Values
      PROVE  [type |-> y, thread |-> t, value |-> x] \in Messages
  BY DEF Messages
<1> QED BY <1>1, <1>2, <1>3, <1>4, <1>5, <1>6

\* Initially nothing is shown.
LEMMA SyncStarts == ASSUME SyncNamed, Init PROVE SyncInv
<1>1. SyncTyped
  BY DEF Init, Empty, NoList, SyncTyped, Views, Values, Lists, Present
<1>2. ListOK
  BY DEF Init, NoList, ListOK
<1>3. ShownOK
  BY DEF Init, ShownOK
<1> QED BY <1>1, <1>2, <1>3 DEF SyncInv

\* The server sends a message and does what it says.
LEMMA OneSent ==
  ASSUME SyncNamed, NEW m \in Messages, NEW so \in Seq(Messages), NEW sv \in Views
  PROVE  /\ Append(so, m) \in Seq(Messages) /\ Arrive(sv, m) \in Views
         /\ DOMAIN Append(so, m) = DOMAIN so \cup {Len(so) + 1}
         /\ Len(Append(so, m)) = Len(so) + 1 /\ Append(so, m)[Len(so) + 1] = m
         /\ \A i \in DOMAIN so : Append(so, m)[i] = so[i]
         /\ \A w, k : k \in 0..Len(so) /\ Follows(w, sv, so, k) =>
                        Follows(w, Arrive(sv, m), Append(so, m), k)
         /\ m.type # "list" =>
              \A w : Follows(w, Arrive(sv, m), Append(so, m), Len(so) + 1)
<1>1. /\ Append(so, m) \in Seq(Messages)
      /\ DOMAIN Append(so, m) = DOMAIN so \cup {Len(so) + 1}
      /\ Len(Append(so, m)) = Len(so) + 1 /\ Append(so, m)[Len(so) + 1] = m
      /\ \A i \in DOMAIN so : Append(so, m)[i] = so[i]
      /\ Len(so) \in Nat /\ DOMAIN so = 1..Len(so)
  OBVIOUS
<1>2. Arrive(sv, m) \in Views
  BY ArriveIs
<1>3. ASSUME NEW w, NEW k, k \in 0..Len(so), Follows(w, sv, so, k)
      PROVE  Follows(w, Arrive(sv, m), Append(so, m), k)
  <2>1. CASE sv = Applied(w, so)
    BY <2>1, AppliedStep DEF Follows
  <2>2. CASE \E i \in 1..k : so[i].type # "list"
    BY <1>1, <1>3, <2>2 DEF Follows
  <2> QED BY <1>3, <2>1, <2>2 DEF Follows
<1>4. ASSUME m.type # "list", NEW w
      PROVE  Follows(w, Arrive(sv, m), Append(so, m), Len(so) + 1)
  <2>1. Len(so) + 1 \in 1..Len(so) + 1
    BY <1>1
  <2> QED BY <1>1, <1>4, <2>1 DEF Follows
<1> QED BY <1>1, <1>2, <1>3, <1>4

\* What the invariant says of the server and the socket.
InStep(sv, so) ==
  /\ sv \in Views /\ so \in Seq(Messages)
  /\ \A p \in DOMAIN so : so[p].type = "list" => so[p].id <= list.id
  /\ list.state = "waiting" /\ ~disturbed =>
       /\ batch = <<>>
       /\ \A r \in asked : r.id = list.id /\ r.threads # None =>
            Follows(r.threads, sv, so, Len(so))
       /\ \A p \in DOMAIN so : so[p].type = "list" /\ so[p].id = list.id =>
            Follows(so[p].threads, sv, so, p - 1)
  /\ listed => \A t \in Threads \ overwritten : ShownAs(view, batch \o so, sv, recovered, t)

\* A message of the server keeps all this, when it is no list.
LEMMA SentInStep ==
  ASSUME SyncNamed, batch \in Seq(Messages), view \in Views,
         NEW m \in Messages, m.type # "list", NEW sv, NEW so, InStep(sv, so)
  PROVE  InStep(Arrive(sv, m), Append(so, m))
<1>0. sv \in Views /\ so \in Seq(Messages) /\ DOMAIN so = 1..Len(so) /\ Len(so) \in Nat
  BY DEF InStep
<1>1. /\ Append(so, m) \in Seq(Messages) /\ Arrive(sv, m) \in Views
      /\ DOMAIN Append(so, m) = DOMAIN so \cup {Len(so) + 1}
      /\ Len(Append(so, m)) = Len(so) + 1 /\ Append(so, m)[Len(so) + 1] = m
      /\ \A i \in DOMAIN so : Append(so, m)[i] = so[i]
      /\ \A w, k : k \in 0..Len(so) /\ Follows(w, sv, so, k) =>
                     Follows(w, Arrive(sv, m), Append(so, m), k)
      /\ \A w : Follows(w, Arrive(sv, m), Append(so, m), Len(so) + 1)
  BY <1>0, OneSent
<1>2. ASSUME list.state = "waiting", ~disturbed, NEW p \in DOMAIN Append(so, m),
             Append(so, m)[p].type = "list" /\ Append(so, m)[p].id = list.id
      PROVE  Follows(Append(so, m)[p].threads, Arrive(sv, m), Append(so, m), p - 1)
  <2>1. p \in DOMAIN so /\ Append(so, m)[p] = so[p] /\ p - 1 \in 0..Len(so)
    BY <1>0, <1>1, <1>2
  <2>2. Follows(so[p].threads, sv, so, p - 1)
    BY <1>2, <2>1 DEF InStep
  <2> QED BY <1>1, <2>1, <2>2
<1>3. ASSUME listed, NEW t \in Threads \ overwritten
      PROVE  ShownAs(view, batch \o Append(so, m), Arrive(sv, m), recovered, t)
  BY <1>0, <1>3, ShownSent DEF InStep
<1>4. \A p \in DOMAIN Append(so, m) :
        Append(so, m)[p].type = "list" => Append(so, m)[p].id <= list.id
  BY <1>1 DEF InStep
<1>5. list.state = "waiting" /\ ~disturbed => batch = <<>>
  BY DEF InStep
<1>6. Len(Append(so, m)) = Len(so) + 1
  BY <1>1
<1> QED BY <1>1, <1>2, <1>3, <1>4, <1>5, <1>6 DEF InStep

\* A step of the server that sends what it does, as long as somebody is connected.
LEMMA ServerKeeps ==
  ASSUME SyncInv, InStep(server, socket) => InStep(server', socket') \/ ~connected,
         ~connected => socket' = socket /\ server' \in Views,
         count' \in Nat, UNCHANGED <<asked, connected, client>>
  PROVE  SyncInv'
<1>1. UNCHANGED <<asked, connected, view, batch, recovered, list, disturbed, listed, overwritten>>
  BY DEF client
<1>2. InStep(server, socket)
  BY DEF SyncInv, SyncTyped, ListOK, ShownOK, InStep
<1>3. CASE ~connected
  <2>1. ~listed /\ list.state = "off" /\ socket' = socket /\ server' \in Views
    BY <1>3 DEF SyncInv, SyncTyped
  <2> QED BY <1>1, <1>3, <2>1 DEF SyncInv, SyncTyped, ListOK, ShownOK, Present
<1>4. CASE connected
  <2>1. InStep(server', socket')
    BY <1>2, <1>4
  <2>2. SyncTyped'
    BY <1>1, <1>4, <2>1 DEF SyncInv, SyncTyped, Present, InStep
  <2>3. ListOK'
    BY <1>1, <2>1 DEF ListOK, InStep
  <2>4. ShownOK'
    BY <1>1, <2>1 DEF ShownOK, InStep
  <2> QED BY <2>2, <2>3, <2>4 DEF SyncInv
<1> QED BY <1>3, <1>4

\* An event is stored and pushed.
LEMMA PublishKeeps == ASSUME SyncNamed, SyncInv, Publish PROVE SyncInv'
<1>1. PICK t \in Threads, kind \in {"created", "updated", "deleted"} :
        LET e == [type |-> "event", kind |-> kind, thread |-> t, n |-> count'] IN
          server' = Apply(server, e) /\ Send(<<e>>)
  BY DEF Publish
<1>2. count' \in Nat /\ UNCHANGED <<asked, connected, client>>
  BY DEF Publish, SyncInv, SyncTyped
<1>3. PICK e : e = [type |-> "event", kind |-> kind, thread |-> t, n |-> count']
  OBVIOUS
<1>4. e \in Messages /\ e.type = "event"
  BY <1>2, <1>3, MessageIs DEF Kinds
<1>5. server' = Arrive(server, e) /\ socket' = IF connected THEN socket \o <<e>> ELSE socket
  BY <1>1, <1>3, <1>4 DEF Arrive, Send
<1>6. socket \in Seq(Messages) /\ server \in Views /\ view \in Views /\ batch \in Seq(Messages)
  BY DEF SyncInv, SyncTyped
<1>7. socket \o <<e>> = Append(socket, e)
  BY <1>4, <1>6
<1>8. server' \in Views
  BY <1>4, <1>5, <1>6, ArriveIs
<1>9. InStep(server, socket) => InStep(Arrive(server, e), Append(socket, e))
  BY <1>4, <1>6, SentInStep
<1> QED BY <1>2, <1>5, <1>7, <1>8, <1>9, ServerKeeps

\* The thread in the answer to another request.
LEMMA AnswerThreadKeeps == ASSUME SyncNamed, SyncInv, AnswerThread PROVE SyncInv'
<1>1. PICK t \in Present(server) : Send(<<[type |-> "thread", thread |-> t, value |-> server[t]]>>)
  BY DEF AnswerThread
<1>2. count' \in Nat /\ UNCHANGED <<server, asked, connected, client>> /\ connected
  BY DEF AnswerThread, SyncInv, SyncTyped
<1>3. PICK e : e = [type |-> "thread", thread |-> t, value |-> server[t]]
  OBVIOUS
<1>6. socket \in Seq(Messages) /\ server \in Views /\ view \in Views /\ batch \in Seq(Messages)
  BY DEF SyncInv, SyncTyped
<1>4. e \in Messages /\ e.type = "thread"
  <2>1. t \in Threads /\ server[t] \in Values
    BY <1>1, <1>6 DEF Present, Views
  <2> QED BY <1>3, <2>1, MessageIs
<1>5. server' = Arrive(server, e) /\ socket' = socket \o <<e>>
  BY <1>1, <1>2, <1>3, <1>4 DEF Arrive, Send
<1>7. socket \o <<e>> = Append(socket, e)
  BY <1>4, <1>6
<1>9. InStep(server, socket) => InStep(Arrive(server, e), Append(socket, e))
  BY <1>4, <1>6, SentInStep
<1> QED BY <1>2, <1>5, <1>7, <1>9, ServerKeeps

\* A goal: its event, and the thread with it.
LEMMA SetGoalKeeps == ASSUME SyncNamed, SyncInv, SetGoal PROVE SyncInv'
<1>1. PICK t \in Present(server) :
        Send(<<[type |-> "event", kind |-> "goal", thread |-> t, n |-> count'],
               [type |-> "goal", thread |-> t, value |-> server[t]]>>)
  BY DEF SetGoal
<1>2. count' \in Nat /\ UNCHANGED <<server, asked, connected, client>> /\ connected
  BY DEF SetGoal, SyncInv, SyncTyped
<1>3. PICK e, g : /\ e = [type |-> "event", kind |-> "goal", thread |-> t, n |-> count']
                  /\ g = [type |-> "goal", thread |-> t, value |-> server[t]]
  OBVIOUS
<1>4. socket \in Seq(Messages) /\ server \in Views /\ view \in Views /\ batch \in Seq(Messages)
  BY DEF SyncInv, SyncTyped
<1>5. e \in Messages /\ e.type = "event" /\ e.kind = "goal" /\ g \in Messages /\ g.type = "goal"
  <2>1. t \in Threads /\ server[t] \in Values
    BY <1>1, <1>4 DEF Present, Views
  <2> QED BY <1>2, <1>3, <2>1, MessageIs DEF Kinds
<1>6. Arrive(server, e) = server /\ Arrive(server, g) = server
  BY <1>5 DEF Arrive, Apply
<1>7. socket' = socket \o <<e, g>>
  BY <1>1, <1>2, <1>3 DEF Send
<1>8. socket \o <<e, g>> = Append(Append(socket, e), g)
  BY <1>4, <1>5
<1>9. InStep(server, socket) => InStep(server, Append(socket, e))
  BY <1>4, <1>5, <1>6, SentInStep
<1>10. InStep(server, Append(socket, e)) => InStep(server, Append(Append(socket, e), g))
  BY <1>4, <1>5, <1>6, SentInStep
<1> QED BY <1>2, <1>7, <1>8, <1>9, <1>10, ServerKeeps

\* The threads are read for an answer.
LEMMA ReadThreadsKeeps == ASSUME SyncNamed, SyncInv, ReadThreads PROVE SyncInv'
<1>1. PICK r \in asked : asked' = (asked \ {r}) \cup {[r EXCEPT !.threads = server]}
  BY DEF ReadThreads
<1>2. UNCHANGED <<server, count, socket, connected, view, batch, recovered, list, disturbed,
                  listed, overwritten>>
  BY DEF ReadThreads, client
<1>3. r \in Requested /\ server \in Views /\ socket \in Seq(Messages)
  BY DEF SyncInv, SyncTyped
<1>4. PICK q : q = [r EXCEPT !.threads = server]
  OBVIOUS
<1>5. q \in Requested /\ q.id = r.id /\ q.threads = server
  BY <1>3, <1>4 DEF Requested
<1>6. Follows(server, server, socket, Len(socket))
  <2>1. CASE \A i \in DOMAIN socket : socket[i].type = "list"
    BY <1>3, <2>1, AppliedThread DEF Follows
  <2>2. CASE \E i \in DOMAIN socket : socket[i].type # "list"
    BY <1>3, <2>2 DEF Follows
  <2> QED BY <2>1, <2>2
<1>7. \A x \in asked' : x \in asked \/ x = q
  BY <1>1, <1>4
<1>8. SyncTyped'
  BY <1>2, <1>5, <1>7 DEF SyncInv, SyncTyped, Present
<1>9. ListOK'
  BY <1>2, <1>5, <1>6, <1>7 DEF SyncInv, ListOK
<1>10. ShownOK'
  BY <1>2 DEF SyncInv, ShownOK
<1> QED BY <1>8, <1>9, <1>10 DEF SyncInv

\* The answer is sent.
LEMMA AnswerListKeeps == ASSUME SyncNamed, SyncInv, AnswerList PROVE SyncInv'
<1>1. PICK r \in asked :
        /\ r.threads # None /\ asked' = asked \ {r}
        /\ Send(<<[type |-> "list", id |-> r.id, threads |-> r.threads]>>)
  BY DEF AnswerList
<1>2. UNCHANGED <<server, count, connected, view, batch, recovered, list, disturbed,
                  listed, overwritten>>
  BY DEF AnswerList, client
<1>3. r \in Requested /\ server \in Views /\ socket \in Seq(Messages) /\ r.id <= list.id
      /\ view \in Views /\ batch \in Seq(Messages)
  BY DEF SyncInv, SyncTyped
<1>4. PICK m : m = [type |-> "list", id |-> r.id, threads |-> r.threads]
  OBVIOUS
<1>5. m \in Messages /\ m.type = "list" /\ m.id = r.id /\ m.threads = r.threads
  <2>1. r.id \in Nat /\ r.threads \in Views
    BY <1>1, <1>3 DEF Requested
  <2> QED BY <1>4, <2>1, MessageIs
<1>6. connected
  BY <1>1 DEF SyncInv, SyncTyped
<1>7. socket' = Append(socket, m)
  <2>1. socket' = socket \o <<m>>
    BY <1>1, <1>4, <1>6 DEF Send
  <2> QED BY <1>3, <1>5, <2>1
<1>8. Arrive(server, m) = server
  BY <1>5 DEF Arrive
<1>9. /\ socket' \in Seq(Messages)
      /\ DOMAIN socket' = DOMAIN socket \cup {Len(socket) + 1}
      /\ Len(socket') = Len(socket) + 1 /\ socket'[Len(socket) + 1] = m
      /\ \A i \in DOMAIN socket : socket'[i] = socket[i]
      /\ \A w, k : k \in 0..Len(socket) /\ Follows(w, server, socket, k) =>
                     Follows(w, server, socket', k)
  BY <1>3, <1>5, <1>7, <1>8, OneSent
<1>10. SyncTyped'
  BY <1>1, <1>2, <1>3, <1>5, <1>6, <1>9 DEF SyncInv, SyncTyped, Present
<1>11. ListOK'
  <2>1. SUFFICES ASSUME list.state = "waiting", ~disturbed
        PROVE  /\ batch = <<>>
               /\ \A x \in asked' : x.id = list.id /\ x.threads # None =>
                    Follows(x.threads, server, socket', Len(socket'))
               /\ \A p \in DOMAIN socket' : socket'[p].type = "list" /\ socket'[p].id = list.id =>
                    Follows(socket'[p].threads, server, socket', p - 1)
    BY <1>2 DEF ListOK
  <2>2. DOMAIN socket = 1..Len(socket) /\ Len(socket) \in Nat
    BY <1>3
  <2>3. ASSUME NEW x \in asked, x.id = list.id, x.threads # None
        PROVE  /\ Follows(x.threads, server, socket', Len(socket))
               /\ Follows(x.threads, server, socket', Len(socket'))
    <3>1. Follows(x.threads, server, socket, Len(socket))
      BY <2>1, <2>3 DEF SyncInv, ListOK
    <3>2. Follows(x.threads, server, socket', Len(socket))
      BY <1>9, <2>2, <3>1
    <3>3. \A i \in 1..Len(socket) : i \in 1..Len(socket')
      BY <1>9, <2>2
    <3> QED BY <3>2, <3>3 DEF Follows
  <2>4. ASSUME NEW p \in DOMAIN socket', socket'[p].type = "list" /\ socket'[p].id = list.id
        PROVE  Follows(socket'[p].threads, server, socket', p - 1)
    <3>1. CASE p = Len(socket) + 1
      <4>1. p - 1 = Len(socket)
        BY <2>2, <3>1
      <4> QED BY <1>1, <1>5, <1>9, <2>3, <2>4, <3>1, <4>1
    <3>2. CASE p # Len(socket) + 1
      <4>1. p \in DOMAIN socket /\ socket'[p] = socket[p] /\ p - 1 \in 0..Len(socket)
        BY <1>9, <2>2, <2>4, <3>2
      <4>2. Follows(socket[p].threads, server, socket, p - 1)
        BY <2>1, <2>4, <4>1 DEF SyncInv, ListOK
      <4> QED BY <1>9, <4>1, <4>2
    <3> QED BY <3>1, <3>2
  <2>5. batch = <<>>
    BY <2>1 DEF SyncInv, ListOK
  <2> QED BY <1>1, <2>3, <2>4, <2>5
<1>12. ShownOK'
  <2>1. SUFFICES ASSUME listed, NEW t \in Threads \ overwritten
        PROVE  ShownAs(view, batch \o Append(socket, m), Arrive(server, m), recovered, t)
    BY <1>2, <1>7, <1>8 DEF ShownOK
  <2> QED BY <1>3, <1>5, <2>1, ShownSent DEF SyncInv, ShownOK
<1> QED BY <1>10, <1>11, <1>12 DEF SyncInv

\* The frame applies the batch.
LEMMA FrameKeeps == ASSUME SyncNamed, SyncInv, Frame PROVE SyncInv'
<1>1. UNCHANGED <<server, count, socket, asked, connected, list, disturbed, listed, overwritten>>
      /\ batch' = <<>> /\ view' = Applied(view, batch)
      /\ recovered' = recovered \cap Present(view')
  BY DEF Frame, Show
<1>2. view \in Views /\ batch \in Seq(Messages) /\ socket \in Seq(Messages)
  BY DEF SyncInv, SyncTyped
<1>3. view' \in Views
  BY <1>1, <1>2, AppliedThread
<1>4. SyncTyped'
  BY <1>1, <1>3 DEF SyncInv, SyncTyped
<1>5. ListOK'
  BY <1>1 DEF SyncInv, ListOK
<1>6. ShownOK'
  <2>1. SUFFICES ASSUME listed, NEW t \in Threads \ overwritten
        PROVE  ShownAs(Applied(view, batch), <<>> \o socket, server,
                       recovered \cap Present(Applied(view, batch)), t)
    BY <1>1 DEF ShownOK
  <2> QED BY <1>2, <2>1, ShownApplied DEF SyncInv, ShownOK
<1> QED BY <1>4, <1>5, <1>6 DEF SyncInv

\* A list is asked for, maybe after an answer that is no use.
LEMMA AskKeeps ==
  ASSUME SyncNamed, SyncInv, NEW k \in Nat, Ask(k),
         asked' \subseteq asked \cup {[id |-> list'.id, threads |-> None]}, connected',
         \/ socket' = socket
         \/ socket # <<>> /\ Head(socket).type = "list" /\ socket' = Tail(socket),
         UNCHANGED <<server, count, listed, overwritten>>
  PROVE  SyncInv'
<1>1. /\ list' = [state |-> "waiting", id |-> list.id + 1, attempt |-> k] /\ disturbed' = FALSE
      /\ batch' = <<>> /\ view' = Applied(view, batch)
      /\ recovered' = recovered \cap Present(view')
  BY DEF Ask, Show
<1>2. view \in Views /\ batch \in Seq(Messages) /\ socket \in Seq(Messages) /\ list.id \in Nat
  BY DEF SyncInv, SyncTyped, Lists
<1>3. view' \in Views
  BY <1>1, <1>2, AppliedThread
<1>4. list' \in Lists /\ list'.id = list.id + 1
  BY <1>1, <1>2 DEF Lists
<1>5. /\ socket' \in Seq(Messages)
      /\ \A p \in DOMAIN socket' : socket'[p].type = "list" => socket'[p].id <= list.id
  <2>1. CASE socket' = socket
    BY <2>1 DEF SyncInv, SyncTyped
  <2>2. CASE socket # <<>> /\ socket' = Tail(socket)
    <3>1. /\ Tail(socket) \in Seq(Messages)
          /\ \A p \in DOMAIN Tail(socket) : p + 1 \in DOMAIN socket
                                            /\ Tail(socket)[p] = socket[p + 1]
      BY <1>2, <2>2
    <3> QED BY <2>2, <3>1 DEF SyncInv, SyncTyped
  <2> QED BY <2>1, <2>2
<1>6. \A p \in DOMAIN socket' : socket'[p].type = "list" => socket'[p].id \in Nat
  BY <1>5, MessageIs
<1>7. /\ \A r \in asked' : r \in Requested /\ r.id <= list'.id
      /\ \A r \in asked' : r.id = list'.id => r.threads = None
  <2>1. ASSUME NEW r \in asked PROVE r \in Requested /\ r.id <= list.id /\ r.id \in Nat
    BY DEF SyncInv, SyncTyped, Requested
  <2>2. PICK q : q = [id |-> list'.id, threads |-> None]
    OBVIOUS
  <2>3. q \in Requested /\ q.id = list'.id /\ q.threads = None
    BY <1>2, <1>4, <2>2 DEF Requested
  <2>4. \A r \in asked' : r \in asked \/ r = q
    BY <2>2
  <2> QED BY <1>2, <1>4, <2>1, <2>3, <2>4
<1>8. SyncTyped'
  BY <1>1, <1>2, <1>3, <1>4, <1>5, <1>6, <1>7 DEF SyncInv, SyncTyped, Lists
<1>9. ListOK'
  BY <1>1, <1>2, <1>4, <1>5, <1>6, <1>7 DEF ListOK
<1>10. ShownOK'
  <2>1. SUFFICES ASSUME listed, NEW t \in Threads \ overwritten
        PROVE  ShownAs(Applied(view, batch), <<>> \o socket', server,
                       recovered \cap Present(Applied(view, batch)), t)
    BY <1>1 DEF ShownOK
  <2>2. ShownAs(Applied(view, batch), <<>> \o socket, server,
                recovered \cap Present(Applied(view, batch)), t)
    BY <1>2, <2>1, ShownApplied DEF SyncInv, ShownOK
  <2>3. CASE socket # <<>> /\ Head(socket).type = "list" /\ socket' = Tail(socket)
    <3>1. <<>> \in Seq(Messages) /\ Applied(view, batch) \in Views
      BY <1>1, <1>3
    <3> QED BY <1>2, <2>2, <2>3, <3>1, ShownSkipped
  <2> QED BY <2>2, <2>3
<1> QED BY <1>8, <1>9, <1>10 DEF SyncInv

\* Connections and requests.
LEMMA ConnectKeeps == ASSUME SyncNamed, SyncInv, Connect \/ AskAgain PROVE SyncInv'
<1>1. Ask(1) /\ connected' /\ socket' = socket /\ UNCHANGED <<server, count, listed, overwritten>>
  BY DEF Connect, AskAgain
<1>2. asked' \subseteq asked \cup {[id |-> list'.id, threads |-> None]}
  BY DEF Connect, AskAgain
<1> QED BY <1>1, <1>2, AskKeeps

\* The connection is lost.
LEMMA DisconnectKeeps == ASSUME SyncNamed, SyncInv, Disconnect PROVE SyncInv'
<1>1. /\ socket' = <<>> /\ asked' = {} /\ list' = [list EXCEPT !.state = "off"] /\ ~listed'
      /\ UNCHANGED <<server, count, view, batch, recovered, disturbed, overwritten>>
  BY DEF Disconnect
<1>2. list' \in Lists /\ list'.id = list.id /\ list'.state = "off"
  BY <1>1 DEF SyncInv, SyncTyped, Lists
<1>3. SyncTyped'
  BY <1>1, <1>2 DEF SyncInv, SyncTyped, Present
<1> QED BY <1>1, <1>2, <1>3 DEF SyncInv, ListOK, ShownOK

\* The request is given up.
LEMMA ListTimesOutKeeps == ASSUME SyncNamed, SyncInv, ListTimesOut PROVE SyncInv'
<1>1. /\ list' = [list EXCEPT !.state = "off"]
      /\ UNCHANGED <<server, count, socket, asked, connected, view, batch, recovered, disturbed,
                     listed, overwritten>>
  BY DEF ListTimesOut
<1>2. list' \in Lists /\ list'.id = list.id /\ list'.state = "off"
  BY <1>1 DEF SyncInv, SyncTyped, Lists
<1>3. SyncTyped'
  BY <1>1, <1>2 DEF SyncInv, SyncTyped, Present
<1> QED BY <1>1, <1>2, <1>3 DEF SyncInv, ListOK, ShownOK

\* What is received leaves the rest.
LEMMA ReceivedIs ==
  ASSUME SyncNamed, SyncInv, socket # <<>>
  PROVE  /\ Head(socket) \in Messages /\ Tail(socket) \in Seq(Messages)
         /\ Head(socket) = socket[1] /\ 1 \in DOMAIN socket /\ Len(socket) \in Nat
         /\ DOMAIN socket = 1..Len(socket) /\ DOMAIN Tail(socket) = 1..Len(socket) - 1
         /\ \A p \in DOMAIN Tail(socket) : p + 1 \in DOMAIN socket
                                           /\ Tail(socket)[p] = socket[p + 1]
         /\ \A p \in DOMAIN socket : p = 1 \/ (p - 1 \in DOMAIN Tail(socket)
                                               /\ Tail(socket)[p - 1] = socket[p])
         /\ \A p \in DOMAIN Tail(socket) :
              Tail(socket)[p].type = "list" => Tail(socket)[p].id <= list.id
         /\ view \in Views /\ batch \in Seq(Messages) /\ server \in Views
<1>1. socket \in Seq(Messages) /\ view \in Views /\ batch \in Seq(Messages) /\ server \in Views
  BY DEF SyncInv, SyncTyped
<1>2. /\ Head(socket) \in Messages /\ Tail(socket) \in Seq(Messages)
      /\ Head(socket) = socket[1] /\ 1 \in DOMAIN socket /\ Len(socket) \in Nat
      /\ DOMAIN socket = 1..Len(socket) /\ DOMAIN Tail(socket) = 1..Len(socket) - 1
      /\ \A p \in DOMAIN Tail(socket) : p + 1 \in DOMAIN socket
                                        /\ Tail(socket)[p] = socket[p + 1]
      /\ \A p \in DOMAIN socket : p = 1 \/ (p - 1 \in DOMAIN Tail(socket)
                                            /\ Tail(socket)[p - 1] = socket[p])
  BY <1>1
<1>3. \A p \in DOMAIN Tail(socket) :
        Tail(socket)[p].type = "list" => Tail(socket)[p].id <= list.id
  BY <1>2 DEF SyncInv, SyncTyped
<1> QED BY <1>1, <1>2, <1>3

\* An event is received: it waits for the frame, and a list in the meantime is no use.
LEMMA ReceiveEventKeeps == ASSUME SyncNamed, SyncInv, ReceiveEvent PROVE SyncInv'
<1>1. /\ socket # <<>> /\ Head(socket).type = "event" /\ socket' = Tail(socket)
      /\ batch' = Append(batch, Head(socket)) /\ disturbed' = TRUE
      /\ recovered' = IF Head(socket).kind = "deleted" THEN recovered \ {Head(socket).thread}
                      ELSE recovered
      /\ UNCHANGED <<server, count, asked, connected, view, list, listed, overwritten>>
  BY DEF ReceiveEvent, Message
<1>2. PICK h : h = Head(socket)
  OBVIOUS
<1>3. /\ h \in Messages /\ Tail(socket) \in Seq(Messages)
      /\ \A p \in DOMAIN Tail(socket) :
           Tail(socket)[p].type = "list" => Tail(socket)[p].id <= list.id
      /\ view \in Views /\ batch \in Seq(Messages) /\ socket \in Seq(Messages)
  <2>1. socket \in Seq(Messages)
    BY DEF SyncInv, SyncTyped
  <2> QED BY <1>1, <1>2, <2>1, ReceivedIs
<1>4. batch' \in Seq(Messages)
  BY <1>1, <1>2, <1>3
<1>5. recovered' \subseteq recovered
  BY <1>1
<1>6. SyncTyped'
  <2>1. connected
    BY <1>1 DEF SyncInv, SyncTyped
  <2>2. recovered' \subseteq Present(view')
    BY <1>1, <1>5 DEF SyncInv, SyncTyped, Present
  <2> QED BY <1>1, <1>3, <1>4, <2>1, <2>2 DEF SyncInv, SyncTyped
<1>7. ListOK'
  BY <1>1 DEF ListOK
<1>8. ShownOK'
  <2>1. SUFFICES ASSUME listed, NEW t \in Threads \ overwritten
        PROVE  ShownAs(view, batch' \o socket', server, recovered', t)
    BY <1>1 DEF ShownOK
  <2>2. batch' \o socket' = batch \o socket
    BY <1>1, <1>3, ShownMoved
  <2>3. ShownAs(view, batch \o socket, server, recovered, t)
    BY <2>1 DEF SyncInv, ShownOK
  <2>4. ASSUME t \in recovered, ~Touched(batch \o socket, t) PROVE t \in recovered'
    <3>1. ~Sets(h, t)
      BY <1>1, <1>2, <1>3, <2>4, TouchedIs
    <3> QED BY <1>1, <1>2, <2>4, <3>1 DEF Sets
  <2> QED BY <2>2, <2>3, <2>4 DEF ShownAs
<1> QED BY <1>6, <1>7, <1>8 DEF SyncInv

\* What is left when a message that is no event was received: threads it did not change
\* are shown as before.
LEMMA SkippedKeeps ==
  ASSUME SyncNamed, SyncInv, socket # <<>>, Head(socket).type # "event",
         socket' = Tail(socket), view' \in Views, recovered' \subseteq Present(view'),
         \A t \in Threads \ overwritten' : view'[t] = view[t] /\ (t \in recovered => t \in recovered'),
         overwritten \subseteq overwritten', list' \in Lists, list'.id = list.id,
         ListOK', UNCHANGED <<server, count, asked, connected, batch, listed>>
  PROVE  SyncInv'
<1>1. /\ Tail(socket) \in Seq(Messages)
      /\ \A p \in DOMAIN Tail(socket) :
           Tail(socket)[p].type = "list" => Tail(socket)[p].id <= list.id
      /\ view \in Views /\ batch \in Seq(Messages) /\ socket \in Seq(Messages)
  <2>1. socket \in Seq(Messages)
    BY DEF SyncInv, SyncTyped
  <2> QED BY <2>1, ReceivedIs
<1>2. SyncTyped'
  <2>1. connected
    BY DEF SyncInv, SyncTyped
  <2> QED BY <1>1, <2>1 DEF SyncInv, SyncTyped
<1>3. ShownOK'
  <2>1. SUFFICES ASSUME listed, NEW t \in Threads \ overwritten'
        PROVE  ShownAs(view', batch \o Tail(socket), server, recovered', t)
    BY DEF ShownOK
  <2>2. PICK x, l : x = view' /\ l = recovered'
    OBVIOUS
  <2>3. x \in Views /\ x[t] = view[t] /\ (t \in recovered => t \in l)
    BY <2>1, <2>2
  <2>4. ShownAs(view, batch \o socket, server, recovered, t)
    BY <2>1 DEF SyncInv, ShownOK
  <2>5. ShownAs(x, batch \o Tail(socket), server, l, t)
    BY <1>1, <2>1, <2>3, <2>4, ShownSkipped
  <2> QED BY <2>2, <2>5
<1> QED BY <1>2, <1>3 DEF SyncInv

\* The thread in the answer to another request is received,
LEMMA ReceiveThreadKeeps == ASSUME SyncNamed, SyncInv, ReceiveThread PROVE SyncInv'
<1>1. PICK t : t = Head(socket).thread
  OBVIOUS
<1>2. /\ socket # <<>> /\ Head(socket).type = "thread" /\ socket' = Tail(socket)
      /\ view' = IF view[t] = None THEN [view EXCEPT ![t] = Head(socket).value] ELSE view
      /\ recovered' = (recovered \cup {t}) \cap Present(view')
      /\ overwritten' = IF view[t] = None THEN overwritten \cup {t} ELSE overwritten
      /\ disturbed' = TRUE
      /\ UNCHANGED <<server, count, asked, connected, batch, list, listed>>
  BY <1>1 DEF ReceiveThread, Message, Show
<1>3. t \in Threads /\ Head(socket).value \in Values /\ view \in Views
  BY <1>1, <1>2, ReceivedIs, MessageIs
<1>4. view' \in Views /\ \A u \in Threads : u = t \/ view'[u] = view[u]
  BY <1>2, <1>3 DEF Views
<1>5. ASSUME NEW u \in Threads \ overwritten'
      PROVE  view'[u] = view[u] /\ (u \in recovered => u \in recovered')
  <2>1. view'[u] = view[u]
    BY <1>2, <1>4, <1>5
  <2>2. recovered \subseteq Present(view)
    BY DEF SyncInv, SyncTyped
  <2> QED BY <1>2, <2>1, <2>2 DEF Present
<1>6. ListOK'
  BY <1>2 DEF ListOK
<1>7. list' \in Lists /\ list'.id = list.id /\ overwritten \subseteq overwritten'
      /\ recovered' \subseteq Present(view')
  BY <1>2 DEF SyncInv, SyncTyped
<1>8. socket # <<>> /\ Head(socket).type # "event" /\ socket' = Tail(socket)
      /\ UNCHANGED <<server, count, asked, connected, batch, listed>>
  BY <1>2
<1> QED BY <1>4, <1>5, <1>6, <1>7, <1>8, SkippedKeeps

\* or a goal's,
LEMMA ReceiveGoalKeeps == ASSUME SyncNamed, SyncInv, ReceiveGoal PROVE SyncInv'
<1>1. PICK t : t = Head(socket).thread
  OBVIOUS
<1>2. /\ socket # <<>> /\ Head(socket).type = "goal" /\ socket' = Tail(socket)
      /\ view' = [view EXCEPT ![t] = Head(socket).value]
      /\ recovered' = recovered \cap Present(view')
      /\ overwritten' = overwritten \cup {t}
      /\ disturbed' = TRUE
      /\ UNCHANGED <<server, count, asked, connected, batch, list, listed>>
  BY <1>1 DEF ReceiveGoal, Message, Show
<1>3. t \in Threads /\ Head(socket).value \in Values /\ view \in Views
  BY <1>1, <1>2, ReceivedIs, MessageIs
<1>4. view' \in Views /\ \A u \in Threads : u = t \/ view'[u] = view[u]
  BY <1>2, <1>3 DEF Views
<1>5. ASSUME NEW u \in Threads \ overwritten'
      PROVE  view'[u] = view[u] /\ (u \in recovered => u \in recovered')
  <2>1. view'[u] = view[u]
    BY <1>2, <1>4, <1>5
  <2>2. recovered \subseteq Present(view)
    BY DEF SyncInv, SyncTyped
  <2> QED BY <1>2, <2>1, <2>2 DEF Present
<1>6. ListOK'
  BY <1>2 DEF ListOK
<1>7. list' \in Lists /\ list'.id = list.id /\ overwritten \subseteq overwritten'
      /\ recovered' \subseteq Present(view')
  BY <1>2 DEF SyncInv, SyncTyped
<1>8. socket # <<>> /\ Head(socket).type # "event" /\ socket' = Tail(socket)
      /\ UNCHANGED <<server, count, asked, connected, batch, listed>>
  BY <1>2
<1> QED BY <1>4, <1>5, <1>6, <1>7, <1>8, SkippedKeeps

\* A list that nothing disturbed is what the server had when the rest was sent; a thread
\* it does not have is kept when the renderer created it.
LEMMA Installed ==
  ASSUME SyncNamed, SyncInv, socket # <<>>, NEW h, h = Head(socket), h.type = "list",
         list.state = "waiting", h.id = list.id, ~disturbed,
         NEW x, x = Rebase(h.threads), NEW l, l = (recovered \ Present(h.threads)) \cap Present(x),
         NEW t \in Threads
  PROVE  x \in Views /\ batch = <<>> /\ ShownAs(x, batch \o Tail(socket), server, l, t)
<1>1. /\ h \in Messages /\ Tail(socket) \in Seq(Messages)
      /\ h = socket[1] /\ 1 \in DOMAIN socket
      /\ view \in Views /\ server \in Views
  BY ReceivedIs
<1>2. h.threads \in Views
  BY <1>1, MessageIs
<1>3. batch = <<>> /\ Follows(h.threads, server, socket, 1 - 1)
  BY <1>1 DEF SyncInv, ListOK
<1>4. server = Applied(h.threads, socket)
  <2>1. ~\E i \in 1..1 - 1 : socket[i].type # "list"
    OBVIOUS
  <2> QED BY <1>3, <2>1 DEF Follows
<1>5. server = Applied(h.threads, Tail(socket))
  <2>1. socket \in Seq(Messages)
    BY DEF SyncInv, SyncTyped
  <2>2. Applied(h.threads, socket) = Applied(Arrive(h.threads, Head(socket)), Tail(socket))
    BY <2>1, FirstApplied
  <2>3. Arrive(h.threads, Head(socket)) = h.threads
    BY DEF Arrive
  <2> QED BY <1>4, <2>2, <2>3
<1>6. x \in Views /\ \A r \in Threads :
        x[r] = IF h.threads[r] = None /\ r \in recovered THEN view[r] ELSE h.threads[r]
  <2>1. x = [r \in Threads |-> IF h.threads[r] = None /\ r \in recovered THEN view[r]
                               ELSE h.threads[r]]
    BY DEF Rebase
  <2> QED BY <1>1, <1>2, <2>1 DEF Views
<1>7. batch \o Tail(socket) = Tail(socket)
  BY <1>1, <1>3
<1>8. CASE Touched(Tail(socket), t) \/ x[t] = h.threads[t]
  <2>1. Applied(x, Tail(socket))[t] = Applied(h.threads, Tail(socket))[t]
    BY <1>1, <1>2, <1>6, <1>8, AppliedThread
  <2> QED BY <1>3, <1>5, <1>6, <1>7, <2>1 DEF ShownAs
<1>9. CASE ~Touched(Tail(socket), t) /\ x[t] # h.threads[t]
  <2>1. h.threads[t] = None /\ t \in recovered /\ x[t] = view[t]
    BY <1>6, <1>9
  <2>2. x[t] # None
    BY <2>1 DEF SyncInv, SyncTyped, Present
  <2>3. server[t] = None
    BY <1>1, <1>2, <1>5, <1>9, <2>1, AppliedThread
  <2>4. t \in l
    BY <2>1, <2>2 DEF Present
  <2> QED BY <1>3, <1>6, <1>7, <1>9, <2>2, <2>3, <2>4 DEF ShownAs
<1> QED BY <1>8, <1>9

\* A list is received: it is installed, asked for again, given up or dropped.
LEMMA ReceiveListKeeps == ASSUME SyncNamed, SyncInv, ReceiveList PROVE SyncInv'
<1>0. PICK h : h = Head(socket)
  OBVIOUS
<1>1. /\ socket # <<>> /\ h.type = "list" /\ socket' = Tail(socket)
      /\ UNCHANGED <<server, count, connected>>
  BY <1>0 DEF ReceiveList, Message
<1>2. /\ h \in Messages /\ Tail(socket) \in Seq(Messages) /\ Len(socket) \in Nat
      /\ DOMAIN socket = 1..Len(socket) /\ DOMAIN Tail(socket) = 1..Len(socket) - 1
      /\ \A p \in DOMAIN Tail(socket) : p + 1 \in DOMAIN socket
                                        /\ Tail(socket)[p] = socket[p + 1]
      /\ \A p \in DOMAIN socket : p = 1 \/ (p - 1 \in DOMAIN Tail(socket)
                                            /\ Tail(socket)[p - 1] = socket[p])
      /\ h = socket[1]
      /\ \A p \in DOMAIN Tail(socket) :
           Tail(socket)[p].type = "list" => Tail(socket)[p].id <= list.id
      /\ view \in Views /\ batch \in Seq(Messages)
  BY <1>0, <1>1, ReceivedIs
<1>3. CASE /\ list.state = "waiting" /\ h.id = list.id /\ ~disturbed
           /\ view' = Rebase(h.threads)
           /\ recovered' = (recovered \ Present(h.threads)) \cap Present(view')
           /\ list' = [list EXCEPT !.state = "off"]
           /\ listed' = TRUE /\ overwritten' = {}
           /\ UNCHANGED <<asked, batch, disturbed>>
  <2>1. PICK x, l : x = view' /\ l = recovered'
    OBVIOUS
  <2>2. ASSUME NEW t \in Threads
        PROVE  x \in Views /\ ShownAs(x, batch \o Tail(socket), server, l, t)
    BY <1>0, <1>1, <1>3, <2>1, Installed
  <2>3. x \in Views
    <3>1. h.threads \in Views
      BY <1>1, <1>2, MessageIs
    <3> QED BY <1>2, <1>3, <2>1, <3>1 DEF Rebase, Views
  <2>4. list' \in Lists /\ list'.id = list.id /\ list'.state = "off"
    BY <1>3 DEF SyncInv, SyncTyped, Lists
  <2>5. connected /\ recovered' \subseteq Present(view')
    BY <1>1, <1>3 DEF SyncInv, SyncTyped
  <2>6. SyncTyped'
    BY <1>1, <1>2, <1>3, <2>1, <2>3, <2>4, <2>5 DEF SyncInv, SyncTyped
  <2>7. ListOK'
    BY <2>4 DEF ListOK
  <2>8. ShownOK'
    BY <1>1, <1>3, <2>1, <2>2 DEF ShownOK
  <2> QED BY <2>6, <2>7, <2>8 DEF SyncInv
<1>4. CASE /\ Ask(list.attempt + 1)
           /\ asked' = asked \cup {[id |-> list'.id, threads |-> None]}
           /\ UNCHANGED <<listed, overwritten>>
  <2>1. PICK k : k = list.attempt + 1
    OBVIOUS
  <2>2. k \in Nat /\ Ask(k)
    BY <1>4, <2>1 DEF SyncInv, SyncTyped, Lists
  <2>3. connected'
    BY <1>1 DEF SyncInv, SyncTyped
  <2>4. UNCHANGED <<server, count, listed, overwritten>>
    BY <1>1, <1>4
  <2>5. socket # <<>> /\ Head(socket).type = "list" /\ socket' = Tail(socket)
    BY <1>0, <1>1
  <2>6. asked' \subseteq asked \cup {[id |-> list'.id, threads |-> None]}
    BY <1>4
  <2> QED BY <2>2, <2>3, <2>4, <2>5, <2>6, AskKeeps
<1>5. ASSUME list' \in Lists, list'.id = list.id, ListOK',
             UNCHANGED <<asked, batch, view, recovered, listed, overwritten>>
      PROVE  SyncInv'
  <2>1. view' \in Views /\ recovered' \subseteq Present(view')
    BY <1>2, <1>5 DEF SyncInv, SyncTyped, Present
  <2>2. \A t \in Threads \ overwritten' :
          view'[t] = view[t] /\ (t \in recovered => t \in recovered')
    BY <1>5
  <2>3. Head(socket).type # "event" /\ overwritten \subseteq overwritten'
    BY <1>0, <1>1, <1>5
  <2> QED BY <1>1, <1>5, <2>1, <2>2, <2>3, SkippedKeeps
<1>6. CASE /\ list' = [list EXCEPT !.state = "off"]
           /\ UNCHANGED <<asked, batch, view, recovered, disturbed, listed, overwritten>>
  <2>1. list' \in Lists /\ list'.id = list.id /\ list'.state = "off"
    BY <1>6 DEF SyncInv, SyncTyped, Lists
  <2>2. ListOK'
    BY <2>1 DEF ListOK
  <2> QED BY <1>5, <1>6, <2>1, <2>2
<1>7. CASE /\ ~(list.state = "waiting" /\ h.id = list.id)
           /\ UNCHANGED <<asked, batch, view, recovered, list, disturbed, listed, overwritten>>
  <2>1. list' \in Lists /\ list'.id = list.id
    BY <1>7 DEF SyncInv, SyncTyped
  <2>2. ListOK'
    <3>1. SUFFICES ASSUME list.state = "waiting", ~disturbed
          PROVE  /\ batch = <<>>
                 /\ \A r \in asked : r.id = list.id /\ r.threads # None =>
                      Follows(r.threads, server, Tail(socket), Len(Tail(socket)))
                 /\ \A p \in DOMAIN Tail(socket) :
                      Tail(socket)[p].type = "list" /\ Tail(socket)[p].id = list.id =>
                        Follows(Tail(socket)[p].threads, server, Tail(socket), p - 1)
      BY <1>1, <1>7 DEF ListOK
    <3>2. ASSUME NEW w, NEW k \in 1..Len(socket), Follows(w, server, socket, k)
          PROVE  Follows(w, server, Tail(socket), k - 1)
      <4>1. CASE server = Applied(w, socket)
        <5>1. socket \in Seq(Messages)
          BY DEF SyncInv, SyncTyped
        <5>2. Applied(w, socket) = Applied(Arrive(w, Head(socket)), Tail(socket))
          BY <1>1, <5>1, FirstApplied
        <5>3. Arrive(w, Head(socket)) = w
          BY <1>0, <1>1 DEF Arrive
        <5> QED BY <4>1, <5>2, <5>3 DEF Follows
      <4>2. CASE \E i \in 1..k : socket[i].type # "list"
        <5>1. PICK i \in 1..k : socket[i].type # "list"
          BY <4>2
        <5>2. i # 1 /\ i \in DOMAIN socket
          BY <1>1, <1>2, <3>2, <5>1
        <5>3. i - 1 \in 1..k - 1 /\ Tail(socket)[i - 1] = socket[i]
          BY <1>2, <3>2, <5>1, <5>2
        <5> QED BY <5>1, <5>3 DEF Follows
      <4> QED BY <3>2, <4>1, <4>2 DEF Follows
    <3>3. Len(socket) \in 1..Len(socket) /\ Len(Tail(socket)) = Len(socket) - 1
      <4>1. socket \in Seq(Messages)
        BY DEF SyncInv, SyncTyped
      <4> QED BY <1>1, <4>1
    <3>4. ASSUME NEW r \in asked, r.id = list.id, r.threads # None
          PROVE  Follows(r.threads, server, Tail(socket), Len(Tail(socket)))
      <4>1. Follows(r.threads, server, socket, Len(socket))
        BY <3>1, <3>4 DEF SyncInv, ListOK
      <4> QED BY <3>2, <3>3, <4>1
    <3>5. ASSUME NEW p \in DOMAIN Tail(socket),
                 Tail(socket)[p].type = "list" /\ Tail(socket)[p].id = list.id
          PROVE  Follows(Tail(socket)[p].threads, server, Tail(socket), p - 1)
      <4>1. p + 1 \in DOMAIN socket /\ Tail(socket)[p] = socket[p + 1] /\ p \in Nat
            /\ p \in 1..Len(socket) /\ (p + 1) - 1 = p
        BY <1>2
      <4>2. Follows(socket[p + 1].threads, server, socket, (p + 1) - 1)
        BY <3>1, <3>5, <4>1 DEF SyncInv, ListOK
      <4> QED BY <3>2, <4>1, <4>2
    <3>6. batch = <<>>
      BY <3>1 DEF SyncInv, ListOK
    <3> QED BY <3>4, <3>5, <3>6
  <2> QED BY <1>5, <1>7, <2>1, <2>2
<1>8. \/ /\ list.state = "waiting" /\ h.id = list.id /\ ~disturbed
         /\ view' = Rebase(h.threads)
         /\ recovered' = (recovered \ Present(h.threads)) \cap Present(view')
         /\ list' = [list EXCEPT !.state = "off"]
         /\ listed' = TRUE /\ overwritten' = {}
         /\ UNCHANGED <<asked, batch, disturbed>>
      \/ /\ Ask(list.attempt + 1)
         /\ asked' = asked \cup {[id |-> list'.id, threads |-> None]}
         /\ UNCHANGED <<listed, overwritten>>
      \/ /\ list' = [list EXCEPT !.state = "off"]
         /\ UNCHANGED <<asked, batch, view, recovered, disturbed, listed, overwritten>>
      \/ /\ ~(list.state = "waiting" /\ h.id = list.id)
         /\ UNCHANGED <<asked, batch, view, recovered, list, disturbed, listed, overwritten>>
  BY <1>0, Zenon DEF ReceiveList, Show, Stable
<1> QED BY <1>3, <1>4, <1>6, <1>7, <1>8

\* Every step keeps the invariant.
LEMMA SyncStep == ASSUME SyncNamed, SyncInv, [Next]_vars PROVE SyncInv'
<1>1. CASE Next
  BY <1>1, PublishKeeps, ReadThreadsKeeps, AnswerListKeeps, AnswerThreadKeeps, SetGoalKeeps,
     FrameKeeps, ConnectKeeps, DisconnectKeeps, ListTimesOutKeeps, ReceiveEventKeeps,
     ReceiveThreadKeeps, ReceiveGoalKeeps, ReceiveListKeeps, Zenon DEF Next
<1>2. CASE UNCHANGED vars
  <2>1. UNCHANGED <<server, count, socket, asked, connected, view, batch, recovered, list,
                    disturbed, listed, overwritten>>
    BY <1>2 DEF vars, client
  <2>2. SyncTyped'
    BY <2>1 DEF SyncInv, SyncTyped, Present
  <2>3. ListOK'
    BY <2>1 DEF SyncInv, ListOK
  <2>4. ShownOK'
    BY <2>1 DEF SyncInv, ShownOK
  <2> QED BY <2>2, <2>3, <2>4 DEF SyncInv
<1> QED BY <1>1, <1>2

\* Once a list was installed, every event is shown exactly once and in order, however
\* lists, events, frames, connections and other answers interleave: whatever the renderer
\* holds and however many threads, events, requests and losses there are.
THEOREM EventsAreShownOnce == ASSUME SyncNamed PROVE Spec => []ShowsEachEventOnce
<1>1. Init => SyncInv
  BY SyncStarts
<1>2. SyncInv /\ [Next]_vars => SyncInv'
  BY SyncStep
<1>3. SyncInv => ShowsEachEventOnce
  <2>1. SUFFICES ASSUME SyncInv, listed, NEW t \in Threads \ overwritten
        PROVE  Settled[t] = server[t] \/ (server[t] = None /\ t \in recovered)
    BY DEF ShowsEachEventOnce
  <2> QED BY <2>1 DEF SyncInv, ShownOK, ShownAs, Settled
<1> QED BY <1>1, <1>2, <1>3, PTL DEF Spec
=============================================================================
