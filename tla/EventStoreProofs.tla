-------------------------- MODULE EventStoreProofs --------------------------
(***************************************************************************)
(* The event log keeps what the server has shown, for any number of        *)
(* threads, events, failed steps and crashes: it implements DurableLog.    *)
(*                                                                         *)
(* IInv relates the three places a thread is in: the file a restart would  *)
(* read (its lines, replayed), the memory of the server and the record     *)
(* that is being written.  It assumes that no append fails after a part of *)
(* its record was written and that the backup can be moved back: without   *)
(* either the log is not durable, and the runs show how.                   *)
(***************************************************************************)
EXTENDS EventStore, FiniteSetTheorems, TLAPS

(***************************************************************************)
(* Lines of a log                                                          *)
(***************************************************************************)

\* The lines of a thread from its last beginning on, or after one.
Kept(lines, t) ==
  {k \in DOMAIN lines : lines[k].thread = t /\ \E b \in 1..k : Begins(lines, t, b)}

\* A thread begins with an event.
Full(lines) ==
  \A k \in DOMAIN lines : lines[k].kind \in {"created", "snapshot"} => lines[k].body # {}

\* s is the last number of the thread, 0 if it has none.
IsLast(lines, t, s) ==
  /\ s \in Nat /\ \A k \in DOMAIN lines : lines[k].thread = t => lines[k].seq <= s
  /\ s # 0 => \E k \in DOMAIN lines : lines[k].thread = t /\ lines[k].seq = s

\* The fields of a line have their types.
LEMMA LineTypes ==
  ASSUME NEW lines \in Seq(Line), NEW k \in DOMAIN lines
  PROVE  /\ lines[k] \in Line /\ lines[k].thread \in Threads /\ lines[k].seq \in Nat \ {0}
         /\ lines[k].kind \in LineKind /\ lines[k].body \in SUBSET Entry
         /\ k \in 1..Len(lines)
<1>1. lines[k] \in Line /\ k \in 1..Len(lines)
  OBVIOUS
<1> QED
  BY <1>1 DEF Line

\* LastSeq is the last number.
LEMMA LastIs ==
  ASSUME NEW lines \in Seq(Line), NEW t \in Threads, NEW s, IsLast(lines, t, s)
  PROVE  LastSeq(lines)[t] = s
<1> DEFINE seqs == {lines[k].seq : k \in {k \in DOMAIN lines : lines[k].thread = t}}
<1>1. LastSeq(lines)[t] = IF seqs = {} THEN 0 ELSE Max(seqs)
  BY DEF LastSeq
<1>2. \A n \in seqs : n \in Nat \ {0} /\ n <= s
  BY LineTypes DEF IsLast
<1>3. CASE seqs = {}
  <2>1. s = 0
    BY <1>3 DEF IsLast
  <2> QED
    BY <1>1, <1>3, <2>1
<1>4. CASE seqs # {}
  <2>1. s \in Nat /\ s # 0
    BY <1>2, <1>4 DEF IsLast
  <2>2. s \in seqs
    BY <2>1 DEF IsLast
  <2>3. \A x \in seqs : (\A y \in seqs : x >= y) => x = s
    <3> SUFFICES ASSUME NEW x \in seqs, \A y \in seqs : x >= y PROVE x = s
      OBVIOUS
    <3>1. x >= s /\ x <= s /\ x \in Nat
      BY <1>2, <2>2
    <3> QED
      BY <2>1, <3>1
  <2>4. \A y \in seqs : s >= y
    BY <1>2, <2>1
  <2> HIDE DEF seqs
  <2>5. Max(seqs) = s
    BY <2>2, <2>3, <2>4 DEF Max
  <2> QED
    BY <1>1, <1>4, <2>5
<1> QED
  BY <1>3, <1>4

\* A thread is made of what is kept of its lines.
LEMMA ReplayIs ==
  ASSUME NEW lines, NEW t \in Threads
  PROVE  Replay(lines)[t] = UNION {lines[k].body : k \in Kept(lines, t)}
BY DEF Replay, Kept

\* A log without lines has no threads.
LEMMA NoLines ==
  /\ Replay(<<>>) = [t \in Threads |-> {}] /\ LastSeq(<<>>) = [t \in Threads |-> 0]
<1>1. DOMAIN <<>> = {}
  OBVIOUS
<1> QED
  BY <1>1 DEF Replay, LastSeq

\* Appending adds a line at the end.
LEMMA AppendLines ==
  ASSUME NEW lines \in Seq(Line), NEW l \in Line
  PROVE  LET more == Append(lines, l)  n == Len(lines) + 1 IN
         /\ more \in Seq(Line) /\ n \in Nat /\ n \in DOMAIN more /\ more[n] = l
         /\ DOMAIN lines = 1..Len(lines) /\ DOMAIN more = 1..n /\ n \notin DOMAIN lines
         /\ \A k \in DOMAIN lines : k \in DOMAIN more /\ more[k] = lines[k] /\ k < n
         /\ \A k \in DOMAIN more : k = n \/ k \in DOMAIN lines
OBVIOUS

\* The number of the new line is the last of its thread.
LEMMA AppendLast ==
  ASSUME NEW lines \in Seq(Line), NEW l \in Line, NEW t \in Threads, NEW s, IsLast(lines, t, s),
         l.thread = t => s < l.seq
  PROVE  IsLast(Append(lines, l), t, IF l.thread = t THEN l.seq ELSE s)
<1> DEFINE more == Append(lines, l)
           n == Len(lines) + 1
<1>1. /\ more \in Seq(Line) /\ n \in Nat /\ n \in DOMAIN more /\ more[n] = l
      /\ \A k \in DOMAIN lines : k \in DOMAIN more /\ more[k] = lines[k]
      /\ \A k \in DOMAIN more : k = n \/ k \in DOMAIN lines
  BY AppendLines
<1>2. l.seq \in Nat /\ \A k \in DOMAIN lines : lines[k].seq \in Nat
  BY LineTypes DEF Line
<1> HIDE DEF more, n
<1>3. l.thread = t => IsLast(more, t, l.seq)
  BY <1>1, <1>2 DEF IsLast
<1>4. l.thread # t => IsLast(more, t, s)
  BY <1>1, <1>2 DEF IsLast
<1> QED
  BY <1>3, <1>4 DEF more

\* What a record makes of the events of its thread.
Grown(r, l) ==
  IF l.kind = "deleted" THEN {} ELSE IF l.kind = "created" \/ r # {} THEN r \cup l.body ELSE {}

\* The new line makes its thread Grown and leaves the others.
LEMMA AppendReplay ==
  ASSUME NEW lines \in Seq(Line), NEW l \in Line, NEW t \in Threads, Full(lines),
         l.kind \in {"created", "event", "deleted"},
         l.kind = "created" /\ l.thread = t => Replay(lines)[t] = {}
  PROVE  Replay(Append(lines, l))[t] =
           IF l.thread = t THEN Grown(Replay(lines)[t], l) ELSE Replay(lines)[t]
<1> DEFINE more == Append(lines, l)
           n == Len(lines) + 1
<1>1. /\ more \in Seq(Line) /\ n \in Nat /\ n \in DOMAIN more /\ more[n] = l
      /\ DOMAIN lines = 1..Len(lines) /\ DOMAIN more = 1..n /\ n \notin DOMAIN lines
      /\ \A k \in DOMAIN lines : k \in DOMAIN more /\ more[k] = lines[k] /\ k < n
      /\ \A k \in DOMAIN more : k = n \/ k \in DOMAIN lines
  BY AppendLines
<1>2. /\ Replay(lines)[t] = UNION {lines[k].body : k \in Kept(lines, t)}
      /\ Replay(more)[t] = UNION {more[k].body : k \in Kept(more, t)}
  BY ReplayIs
<1> HIDE DEF more, n
<1>3. ASSUME NEW b \in DOMAIN lines
      PROVE  Begins(more, t, b) <=> Begins(lines, t, b) /\ (l.thread = t => l.kind = "event")
  BY <1>1 DEF Begins
<1>4. Begins(more, t, n) <=> l.thread = t /\ l.kind \in {"created", "snapshot"}
  BY <1>1 DEF Begins
<1>5. \A k \in DOMAIN more : 1..k \subseteq DOMAIN more
  BY <1>1
<1>6. \A k \in DOMAIN lines : 1..k \subseteq DOMAIN lines
  BY <1>1
<1>7. CASE l.thread # t
  <2>1. Kept(more, t) = Kept(lines, t)
    BY <1>1, <1>3, <1>4, <1>5, <1>6, <1>7 DEF Kept
  <2>2. \A k \in Kept(lines, t) : more[k].body = lines[k].body
    BY <1>1 DEF Kept
  <2> QED
    BY <1>2, <1>7, <2>1, <2>2 DEF more
<1>8. CASE l.thread = t /\ l.kind = "created"
  <2>1. \A b \in DOMAIN more : Begins(more, t, b) <=> b = n
    BY <1>1, <1>3, <1>4, <1>8
  <2>2. Kept(more, t) = {n}
    <3>1. n \in 1..n
      BY <1>1
    <3>2. \A k \in DOMAIN lines : n \notin 1..k
      BY <1>1
    <3> QED
      BY <1>1, <1>5, <1>8, <2>1, <3>1, <3>2 DEF Kept
  <2> QED
    BY <1>1, <1>2, <1>8, <2>2 DEF more, Grown
<1>9. CASE l.thread = t /\ l.kind = "deleted"
  <2>1. \A b \in DOMAIN more : ~Begins(more, t, b)
    BY <1>1, <1>3, <1>4, <1>9
  <2>2. Kept(more, t) = {}
    BY <1>5, <2>1 DEF Kept
  <2> QED
    BY <1>2, <1>9, <2>2 DEF more, Grown
<1>10. CASE l.thread = t /\ l.kind = "event"
  <2>1. \A b \in DOMAIN lines : Begins(more, t, b) <=> Begins(lines, t, b)
    BY <1>3, <1>10
  <2>2. ~Begins(more, t, n)
    BY <1>4, <1>10
  <2>3. \A k \in DOMAIN lines : k \in Kept(more, t) <=> k \in Kept(lines, t)
    BY <1>1, <1>6, <2>1 DEF Kept
  <2>4. n \in Kept(more, t) <=> \E b \in DOMAIN lines : Begins(lines, t, b)
    BY <1>1, <1>10, <2>1, <2>2 DEF Kept
  <2>5. \A b \in DOMAIN lines : Begins(lines, t, b) => b \in Kept(lines, t) /\ lines[b].body # {}
    BY <1>1 DEF Kept, Begins, Full
  <2>6. Kept(lines, t) # {} => \E b \in DOMAIN lines : Begins(lines, t, b)
    BY <1>6 DEF Kept
  <2>7. Kept(lines, t) \subseteq DOMAIN lines /\ Kept(more, t) \subseteq DOMAIN more
    BY DEF Kept
  <2>8. CASE \E b \in DOMAIN lines : Begins(lines, t, b)
    <3>1. Kept(more, t) = Kept(lines, t) \cup {n}
      BY <1>1, <2>3, <2>4, <2>7, <2>8
    <3>2. Replay(lines)[t] # {}
      <4>1. PICK b \in Kept(lines, t) : lines[b].body # {}
        BY <2>5, <2>8
      <4> QED
        BY <1>2, <4>1
    <3>3. \A k \in Kept(lines, t) : more[k].body = lines[k].body
      BY <1>1, <2>7
    <3>4. Replay(more)[t] = Replay(lines)[t] \cup l.body
      BY <1>1, <1>2, <3>1, <3>3
    <3> QED
      BY <1>10, <3>2, <3>4 DEF more, Grown
  <2>9. CASE ~\E b \in DOMAIN lines : Begins(lines, t, b)
    <3>1. Kept(lines, t) = {} /\ Kept(more, t) = {}
      BY <1>1, <2>3, <2>4, <2>6, <2>7, <2>9
    <3> QED
      BY <1>2, <1>10, <3>1 DEF more, Grown
  <2> QED
    BY <2>8, <2>9
<1> QED
  BY <1>7, <1>8, <1>9, <1>10

\* The order the snapshots are written in has every thread once.
LEMMA OrderIs ==
  ASSUME NEW S, IsFiniteSet(S)
  PROVE  LET f == SetToSeq(S) IN
         /\ f \in Seq(S) /\ DOMAIN f = 1..Cardinality(S)
         /\ \A j, k \in DOMAIN f : f[j] = f[k] => j = k
         /\ \A x \in S : \E k \in DOMAIN f : f[k] = x
         /\ \A k \in DOMAIN f : f[k] \in S
<1> DEFINE n == Cardinality(S)
           f == SetToSeq(S)
<1>1. n \in Nat /\ ExistsBijection(1..n, S)
  BY FS_CardinalityType
<1>2. PICK g \in [1..n -> S] : IsInjective(g)
  BY <1>1 DEF ExistsBijection, Bijection, Injection, IsInjective
<1>3. f \in [1..n -> S] /\ IsInjective(f)
  BY <1>2 DEF SetToSeq
<1> HIDE DEF f
<1>4. IsFiniteSet(1..n) /\ Cardinality(1..n) = n
  BY <1>1, FS_Interval
<1>5. f \in Injection(1..n, S)
  BY <1>3 DEF Injection, IsInjective
<1>6. f \in Surjection(1..n, S)
  BY <1>4, <1>5, FS_Injection
<1>7. f \in Seq(S)
  BY <1>1, <1>3
<1> QED
  BY <1>3, <1>6, <1>7 DEF IsInjective, Surjection, f

\* A compacted log says what the server shows.
LEMMA CompactedIs ==
  ASSUME TypeOK, IsFiniteSet(Threads),
         \A t \in Threads : threads[t] # {} => seq[t] # 0
  PROVE  /\ Compacted.lines \in Seq(Line) /\ Full(Compacted.lines)
         /\ Compacted.tail = "line" /\ Compacted.readable = TRUE /\ Compacted \in File
         /\ \A t \in Threads : /\ Replay(Compacted.lines)[t] = threads[t]
                               /\ IsLast(Compacted.lines, t, IF threads[t] # {} THEN seq[t] ELSE 0)
<1> DEFINE order == SetToSeq(Live)
           lines == [k \in DOMAIN order |-> Snapshot(order[k])]
<1>1. Live \subseteq Threads /\ IsFiniteSet(Live)
  BY FS_Subset DEF Live
<1>2. /\ order \in Seq(Live) /\ DOMAIN order = 1..Cardinality(Live)
      /\ \A j, k \in DOMAIN order : order[j] = order[k] => j = k
      /\ \A x \in Live : \E k \in DOMAIN order : order[k] = x
      /\ \A k \in DOMAIN order : order[k] \in Live
  BY <1>1, OrderIs
<1> HIDE DEF order
<1>3. \A k \in DOMAIN order : order[k] \in Live /\ order[k] \in Threads
  BY <1>1, <1>2
<1>4. ASSUME NEW t \in Live
      PROVE  /\ Snapshot(t) \in Line /\ Snapshot(t).thread = t /\ Snapshot(t).seq = seq[t]
             /\ Snapshot(t).kind = "snapshot" /\ Snapshot(t).body = threads[t]
             /\ threads[t] # {} /\ seq[t] \in Nat
  BY <1>1, <1>4 DEF Snapshot, Line, LineKind, Live, TypeOK
<1>5. Compacted = [lines |-> lines, tail |-> "line", readable |-> TRUE]
  BY DEF Compacted, order
<1>6. Cardinality(Live) \in Nat /\ DOMAIN lines = DOMAIN order
  BY <1>1, FS_CardinalityType
<1>7. lines \in Seq(Line)
  <2>1. ASSUME NEW k \in DOMAIN order
        PROVE  Snapshot(order[k]) \in Line
    BY <1>3, <1>4
  <2>2. lines \in [1..Cardinality(Live) -> Line]
    BY <1>2, <2>1
  <2> HIDE DEF lines
  <2>3. QED
    BY <1>6, <2>2
<1>8. \A k \in DOMAIN order : lines[k] = Snapshot(order[k])
  OBVIOUS
<1> HIDE DEF lines
<1>9. Full(lines)
  BY <1>3, <1>4, <1>6, <1>8 DEF Full
<1>10. ASSUME NEW t \in Threads
       PROVE  /\ Replay(lines)[t] = threads[t]
              /\ IsLast(lines, t, IF threads[t] # {} THEN seq[t] ELSE 0)
  <2>1. \A k \in DOMAIN lines : lines[k].thread = order[k] /\ lines[k].kind = "snapshot"
                               /\ lines[k].seq = seq[order[k]] /\ lines[k].body = threads[order[k]]
    BY <1>3, <1>4, <1>6, <1>8
  <2>2. Replay(lines)[t] = UNION {lines[k].body : k \in Kept(lines, t)}
    BY ReplayIs
  <2>3. CASE t \in Live
    <3>1. PICK n \in DOMAIN lines : order[n] = t
      BY <1>2, <1>6, <2>3
    <3>2. \A k \in DOMAIN lines : lines[k].thread = t => k = n
      BY <1>2, <1>6, <2>1, <3>1
    <3>3. n \in 1..n /\ Begins(lines, t, n)
      BY <1>2, <1>6, <2>1, <3>1, <3>2 DEF Begins
    <3>4. Kept(lines, t) = {n}
      BY <2>1, <3>1, <3>2, <3>3 DEF Kept
    <3>5. Replay(lines)[t] = threads[t]
      BY <2>1, <2>2, <3>1, <3>4
    <3>6. threads[t] # {} /\ seq[t] \in Nat
      BY <1>4, <2>3
    <3>7. IsLast(lines, t, seq[t])
      BY <2>1, <3>1, <3>2, <3>6 DEF IsLast
    <3> QED
      BY <3>5, <3>6, <3>7
  <2>4. CASE t \notin Live
    <3>1. threads[t] = {}
      BY <2>4 DEF Live
    <3>2. \A k \in DOMAIN lines : lines[k].thread # t
      BY <1>3, <1>6, <2>1, <2>4
    <3>3. Kept(lines, t) = {}
      BY <3>2 DEF Kept
    <3> QED
      BY <2>2, <3>1, <3>2, <3>3 DEF IsLast
  <2> QED
    BY <2>3, <2>4
<1> QED
  BY <1>5, <1>7, <1>9, <1>10 DEF File
-----------------------------------------------------------------------------
(* The invariant *)

\* The bounds are numbers; an append fails whole and the backup can be moved back.
Assumed ==
  /\ IsFiniteSet(Threads) /\ MaxFaults \in Nat /\ MaxCrashes \in Nat
  /\ MaxTorn = 0 /\ ~RestoreFails

\* The log a restart would read.
Cur == IF path # Absent THEN path ELSE bak

\* The number of a thread's last event is the number of its events, unless it was deleted.
Fits(r, s, t) ==
  /\ s \in Nat /\ IsFiniteSet(r) /\ \A e \in r : e.seq \in Nat /\ e.seq <= s
  /\ r # {} => Cardinality(r) = s
  /\ r = {} /\ ~Deleted(t) => s = 0

\* The lines number every thread without gaps.
LinesFit(lines) ==
  /\ Full(lines)
  /\ \A t \in Threads : /\ IsLast(lines, t, LastSeq(lines)[t])
                        /\ Fits(Replay(lines)[t], LastSeq(lines)[t], t)

\* So does the memory of the server.
MemoryFits == Running => \A t \in Threads : Fits(threads[t], seq[t], t)

\* What the operation that is under way has written and not yet applied.
InFile == op.stage \in {"whole", "stored"}
Now(t) == IF InFile /\ t = op.line.thread THEN Grown(threads[t], op.line) ELSE threads[t]
NowSeq(t) == IF InFile /\ t = op.line.thread THEN op.line.seq ELSE seq[t]

\* A restart would read what is shown, and the record that is whole on the disk.
FileIsShown ==
  Running => \A t \in Threads : /\ Replay(Cur.lines)[t] = Now(t)
                                /\ LastSeq(Cur.lines)[t] <= NowSeq(t)

\* The record that is being appended continues its thread.
LineFits ==
  op.stage \in {"append", "torn", "whole", "stored"} =>
    LET l == op.line IN
    /\ l \in Line /\ l.seq = seq[l.thread] + 1 /\ l.kind \in {"created", "event", "deleted"}
    /\ l.kind = "deleted" => l.body = {} /\ Deleted(l.thread)
    /\ l.kind # "deleted" => \E e \in Events : l.body = {[seq |-> l.seq, event |-> e]}
    /\ l.kind = "created" => threads[l.thread] = {} /\ seq[l.thread] = 0
    /\ l.kind = "event" => threads[l.thread] # {} \/ Deleted(l.thread)

\* Where the log is at each step.
Places ==
  /\ ~Running => op.stage = "idle"
  /\ Running /\ op.stage \notin {"swap", "restore"} /\ path = Absent => bak = Absent
  /\ op.stage \in {"torn", "whole", "stored", "clean"} => path # Absent
  /\ op.stage \in {"swap", "restore"} => path = Absent /\ (op.parked <=> bak # Absent)
  /\ op.stage = "restore" => op.parked
  /\ op.stage = "park" => bak = Absent
  /\ op.stage = "clean" => path = Compacted
  /\ server \in {"tail", "replay"} => bak = Absent

\* The inductive invariant.
IInv ==
  /\ TypeOK /\ LinesFit(Cur.lines) /\ MemoryFits /\ FileIsShown /\ LineFits /\ Places /\ torn = 0

\* What lines say of the threads.
LEMMA ReplayType ==
  ASSUME NEW lines \in Seq(Line) PROVE Replay(lines) \in [Threads -> SUBSET Entry]
<1>1. \A t \in Threads : UNION {lines[k].body : k \in Kept(lines, t)} \subseteq Entry
  BY LineTypes DEF Kept
<1> QED
  BY <1>1, ReplayIs DEF Replay

\* The log a restart reads has lines.
LEMMA CurType ==
  ASSUME TypeOK PROVE Cur \in File \cup {Absent} /\ Cur.lines \in Seq(Line)
<1>1. \A f \in File : f.lines \in Seq(Line)
  BY DEF File
<1>2. Absent.lines \in Seq(Line)
  BY DEF Absent
<1>3. Cur \in File \cup {Absent}
  BY DEF TypeOK, Cur
<1> QED
  BY <1>1, <1>2, <1>3

\* The record that is written makes its thread what it will be.
LEMMA Grows ==
  ASSUME NEW l \in Line, NEW r \in SUBSET Entry, Fits(r, l.seq - 1, l.thread),
         l.kind \in {"created", "event", "deleted"},
         l.kind = "deleted" => l.body = {} /\ Deleted(l.thread),
         l.kind # "deleted" => \E e \in Events : l.body = {[seq |-> l.seq, event |-> e]},
         l.kind = "created" => r = {} /\ l.seq = 1,
         l.kind = "event" => r # {} \/ Deleted(l.thread)
  PROVE  Fits(Grown(r, l), l.seq, l.thread) /\ Grown(r, l) \subseteq Entry
<1>1. l.seq \in Nat \ {0} /\ l.body \subseteq Entry
  BY DEF Line
<1>2. CASE Grown(r, l) = {} /\ Deleted(l.thread)
  BY <1>1, <1>2, FS_EmptySet DEF Fits
<1>3. CASE l.kind # "deleted" /\ (l.kind = "created" \/ r # {})
  <2>1. PICK e \in Events : l.body = {[seq |-> l.seq, event |-> e]}
    BY <1>3
  <2> DEFINE new == [seq |-> l.seq, event |-> e]
  <2>2. Grown(r, l) = r \cup {new} /\ new.seq = l.seq
    BY <1>3, <2>1 DEF Grown
  <2>3. new \notin r
    BY <1>1, <2>2 DEF Fits
  <2>4. IsFiniteSet(r) /\ Cardinality(r) = l.seq - 1
    BY <1>1, <1>3, FS_EmptySet DEF Fits
  <2> HIDE DEF new
  <2>5. IsFiniteSet(r \cup {new}) /\ Cardinality(r \cup {new}) = l.seq
    <3>1. IsFiniteSet(r \cup {new}) /\ Cardinality(r \cup {new}) = Cardinality(r) + 1
      BY <2>3, <2>4, FS_AddElement
    <3> QED
      BY <1>1, <2>4, <3>1
  <2>6. \A x \in r \cup {new} : x.seq \in Nat /\ x.seq <= l.seq
    BY <1>1, <2>2 DEF Fits
  <2> QED
    BY <1>1, <2>1, <2>2, <2>5, <2>6 DEF Fits, new
<1> QED
  BY <1>2, <1>3 DEF Grown

\* What the log says does not change with the file that has it.
LEMMA SameLines ==
  ASSUME LinesFit(Cur.lines), Cur'.lines = Cur.lines, \A t \in Threads : Deleted(t) => Deleted(t)'
  PROVE  LinesFit(Cur.lines)'
<1>1. Cur'.lines = Cur.lines
  OBVIOUS
<1> QED
  BY <1>1 DEF LinesFit, Fits

\* A deletion is not taken back.
LEMMA SameUsed ==
  ASSUME used \subseteq used' PROVE \A t \in Threads : Deleted(t) => Deleted(t)'
BY DEF Deleted

\* It holds at first.
LEMMA InitInv == ASSUME Assumed PROVE Init => IInv
<1> SUFFICES ASSUME Init PROVE IInv
  OBVIOUS
<1>1. Cur = Absent /\ Absent.lines = <<>>
  BY DEF Init, Cur, Absent
<1>2. TypeOK
  <2>1. Quiet \in Op
    BY DEF Quiet, Doing, Op, Stage
  <2> QED
    BY <2>1 DEF Init, TypeOK, Assumed
<1>3. LinesFit(Cur.lines)
  <2>1. /\ \A t \in Threads : Replay(<<>>)[t] = {} /\ LastSeq(<<>>)[t] = 0
        /\ IsFiniteSet({})
    BY NoLines, FS_EmptySet
  <2>2. Full(<<>>) /\ \A t \in Threads : IsLast(<<>>, t, 0)
    BY DEF Full, IsLast
  <2>3. \A t \in Threads : Fits({}, 0, t)
    BY <2>1 DEF Fits
  <2> QED
    BY <1>1, <2>1, <2>2, <2>3 DEF LinesFit
<1>4. MemoryFits /\ FileIsShown /\ LineFits /\ Places /\ torn = 0
  BY DEF Init, MemoryFits, FileIsShown, LineFits, Places, Running, Quiet, Doing
<1> QED
  BY <1>2, <1>3, <1>4 DEF IInv

-----------------------------------------------------------------------------
(* Appends *)

\* An append begins: a new thread has no number yet.
LEMMA BeginStep ==
  ASSUME Assumed, IInv, NEW t \in Threads, NEW e \in Events, NEW ending \in BOOLEAN,
         NEW kind \in {"created", "event", "deleted"}, Begin(t, e, kind, ending)
  PROVE  IInv'
<1> DEFINE entry == [seq |-> Numbered(t), event |-> e]
           l == [thread |-> t, seq |-> Numbered(t), kind |-> kind,
                 body |-> IF kind = "deleted" THEN {} ELSE {entry}]
<1>1. /\ Running /\ op.stage = "idle"
      /\ IF kind = "created" THEN threads[t] = {} /\ ~Deleted(t) ELSE threads[t] # {} \/ Deleted(t)
      /\ used' = used \cup {[thread |-> t, event |-> e, kind |-> kind]}
      /\ UNCHANGED <<path, bak, server, seq, threads, faults, torn, crashes>>
  BY DEF Begin, disk, budget
<1>2. op' = Doing("append", l, ending)
  BY DEF Begin
<1>3. seq[t] \in Nat /\ Numbered(t) = seq[t] + 1
  BY DEF IInv, TypeOK, Numbered
<1>4. l \in Line
  BY <1>3 DEF Line, LineKind, Entry
<1> HIDE DEF l
<1>5. op'.stage = "append" /\ op'.line = l /\ op' \in Op
  BY <1>2, <1>4 DEF Quiet, Doing, Op, Stage
<1>6. \A u \in Threads : Deleted(u) => Deleted(u)'
  BY <1>1, SameUsed
<1>7. Cur' = Cur /\ UNCHANGED Running
  BY <1>1 DEF Cur, Running
<1>8. TypeOK'
  BY <1>1, <1>5 DEF IInv, TypeOK, LineKind
<1>9. LinesFit(Cur.lines)'
  BY <1>6, <1>7, SameLines DEF IInv
<1>10. MemoryFits'
  BY <1>1, <1>6, <1>7 DEF IInv, MemoryFits, Fits
<1>11. FileIsShown'
  BY <1>1, <1>5, <1>7 DEF IInv, FileIsShown, InFile, Now, NowSeq
<1>12. kind = "deleted" => Deleted(t)'
  <2> DEFINE u == [thread |-> t, event |-> e, kind |-> kind]
  <2>1. u \in used' /\ u.thread = t /\ u.kind = kind
    BY <1>1
  <2> QED
    BY <2>1 DEF Deleted
<1>13. kind = "created" => threads[t] = {} /\ seq[t] = 0
  BY <1>1 DEF IInv, MemoryFits, Fits
<1>14. LineFits'
  <2>1. /\ l.thread = t /\ l.seq = seq[t] + 1 /\ l.kind = kind
        /\ l.body = IF kind = "deleted" THEN {} ELSE {[seq |-> l.seq, event |-> e]}
    BY <1>3 DEF l
  <2> QED
    BY <1>1, <1>4, <1>5, <1>6, <1>12, <1>13, <2>1 DEF LineFits
<1>15. Places'
  BY <1>1, <1>5, <1>7 DEF IInv, Places
<1> QED
  BY <1>1, <1>8, <1>9, <1>10, <1>11, <1>14, <1>15 DEF IInv

\* A step of the operation that leaves what the log says and what is shown.
LEMMA FileStep ==
  ASSUME IInv, TypeOK', Cur'.lines = Cur.lines, UNCHANGED <<server, seq, threads, used, torn>>,
         op'.line = op.line,
         op'.stage \in {"append", "torn", "whole", "stored"} =>
           op.stage \in {"append", "torn", "whole", "stored"},
         InFile' <=> InFile, Places'
  PROVE  IInv'
<1>1. \A t \in Threads : Deleted(t) <=> Deleted(t)'
  BY DEF Deleted
<1>2. LinesFit(Cur.lines)'
  BY <1>1, SameLines DEF IInv
<1>3. UNCHANGED Running
  BY DEF Running
<1>4. MemoryFits'
  BY <1>1, <1>3 DEF IInv, MemoryFits, Fits
<1>5. FileIsShown'
  BY <1>3 DEF IInv, FileIsShown, Now, NowSeq
<1>6. LineFits'
  BY <1>1 DEF IInv, LineFits, Line
<1> QED
  BY <1>2, <1>4, <1>5, <1>6 DEF IInv

\* A part of the record is written.
LEMMA TornStep == ASSUME Assumed, IInv, Torn PROVE IInv' /\ Cur'.lines = Cur.lines
<1>1. op.stage = "append" /\ Running /\ op \in Op
  BY DEF Torn, IInv, Places, TypeOK
<1>2. op' = [op EXCEPT !.stage = "torn"]
  BY DEF Torn
<1>3. op'.stage = "torn" /\ op'.line = op.line /\ op' \in Op
  BY <1>1, <1>2 DEF Op, Stage
<1>4. UNCHANGED <<bak, server, seq, threads, used, faults, torn, crashes>>
  BY DEF Torn, budget
<1>5. path' \in File /\ path'.lines = Cur.lines /\ path' # Absent
  <2>1. CASE path = Absent
    <3>1. path' = [lines |-> <<>>, tail |-> "torn", readable |-> TRUE] /\ Cur.lines = <<>>
      BY <1>1, <2>1 DEF Torn, IInv, Places, Cur, Absent
    <3>2. <<>> \in Seq(Line)
      OBVIOUS
    <3> QED
      BY <3>1, <3>2 DEF File, Absent
  <2>2. CASE path # Absent
    <3>1. path' = [path EXCEPT !.tail = "torn", !.readable = @ /\ path.tail = "line"] /\ path \in File
      BY <2>2 DEF Torn, IInv, TypeOK
    <3> QED
      BY <2>2, <3>1 DEF File, Absent, Cur
  <2> QED
    BY <2>1, <2>2
<1>6. Cur'.lines = Cur.lines /\ UNCHANGED Running
  BY <1>4, <1>5 DEF Cur, Running
<1>7. TypeOK'
  BY <1>3, <1>4, <1>5 DEF IInv, TypeOK
<1>8. Places'
  BY <1>1, <1>3, <1>4, <1>5, <1>6 DEF IInv, Places
<1>9. InFile' <=> InFile
  BY <1>1, <1>3 DEF InFile
<1> QED
  BY <1>1, <1>3, <1>4, <1>6, <1>7, <1>8, <1>9, FileStep

\* The record gets its newline.
LEMMA NewlineStep == ASSUME Assumed, IInv, Newline PROVE IInv' /\ Cur'.lines = Cur.lines
<1>1. op.stage = "whole" /\ Running /\ op \in Op /\ path # Absent /\ path \in File
  BY DEF Newline, IInv, Places, TypeOK
<1>2. op' = [op EXCEPT !.stage = "stored"] /\ path' = [path EXCEPT !.tail = "line"]
  BY DEF Newline
<1>3. op'.stage = "stored" /\ op'.line = op.line /\ op' \in Op
  BY <1>1, <1>2 DEF Op, Stage
<1>4. UNCHANGED <<bak, server, seq, threads, used, faults, torn, crashes>>
  BY DEF Newline, budget
<1>5. path' \in File /\ path'.lines = path.lines /\ path' # Absent
  BY <1>1, <1>2 DEF File, Absent
<1>6. Cur'.lines = Cur.lines /\ UNCHANGED Running
  BY <1>1, <1>4, <1>5 DEF Cur, Running
<1>7. TypeOK'
  BY <1>3, <1>4, <1>5 DEF IInv, TypeOK
<1>8. Places'
  BY <1>1, <1>3, <1>4, <1>5, <1>6 DEF IInv, Places
<1>9. InFile' <=> InFile
  BY <1>1, <1>3 DEF InFile
<1> QED
  BY <1>1, <1>3, <1>4, <1>6, <1>7, <1>8, <1>9, FileStep

\* The record is whole: the log says more than the server shows.
LEMMA WholeStep == ASSUME Assumed, IInv, Whole PROVE IInv'
<1> DEFINE l == op.line
<1>1. op.stage = "torn" /\ Running /\ op \in Op /\ path # Absent /\ path \in File
  BY DEF Whole, IInv, Places, TypeOK
<1>2. op' = [op EXCEPT !.stage = "whole"]
      /\ path' = [path EXCEPT !.lines = Append(@, op.line), !.tail = "whole"]
  BY DEF Whole
<1>3. op'.stage = "whole" /\ op'.line = l /\ op' \in Op
  BY <1>1, <1>2 DEF Op, Stage
<1>4. UNCHANGED <<bak, server, seq, threads, used, faults, torn, crashes>>
  BY DEF Whole, budget
<1>5. /\ l \in Line /\ l.seq = seq[l.thread] + 1 /\ l.kind \in {"created", "event", "deleted"}
      /\ l.kind = "deleted" => l.body = {} /\ Deleted(l.thread)
      /\ l.kind # "deleted" => \E e \in Events : l.body = {[seq |-> l.seq, event |-> e]}
      /\ l.kind = "created" => threads[l.thread] = {} /\ seq[l.thread] = 0
      /\ l.kind = "event" => threads[l.thread] # {} \/ Deleted(l.thread)
      /\ l.thread \in Threads
  BY <1>1 DEF IInv, LineFits, Line
<1> HIDE DEF l
<1>6. path.lines \in Seq(Line) /\ Append(path.lines, l) \in Seq(Line)
  BY <1>1, <1>5 DEF File
<1>7. path' \in File /\ path'.lines = Append(path.lines, l) /\ path' # Absent
  BY <1>1, <1>2, <1>6 DEF File, Absent, l
<1>8. Cur = path /\ Cur' = path' /\ UNCHANGED Running
  BY <1>1, <1>4, <1>7 DEF Cur, Running
<1>9. TypeOK'
  BY <1>3, <1>4, <1>7 DEF IInv, TypeOK
<1>10. Places'
  BY <1>1, <1>3, <1>4, <1>7, <1>8 DEF IInv, Places
<1>11. \A t \in Threads : Deleted(t) <=> Deleted(t)'
  BY <1>4 DEF Deleted
<1>12. MemoryFits'
  BY <1>4, <1>8, <1>11 DEF IInv, MemoryFits, Fits
<1>13. LineFits'
  BY <1>3, <1>4, <1>5, <1>11 DEF LineFits
<1>14. /\ Full(path.lines)
       /\ \A t \in Threads : /\ IsLast(path.lines, t, LastSeq(path.lines)[t])
                             /\ Fits(Replay(path.lines)[t], LastSeq(path.lines)[t], t)
                             /\ Replay(path.lines)[t] = threads[t] /\ LastSeq(path.lines)[t] <= seq[t]
                             /\ Fits(threads[t], seq[t], t) /\ threads[t] \in SUBSET Entry
  BY <1>1, <1>8 DEF IInv, LinesFit, FileIsShown, MemoryFits, Now, NowSeq, InFile, TypeOK
<1> DEFINE more == Append(path.lines, l)
<1>15. Full(more)
  <2>1. l.kind \in {"created", "snapshot"} => l.body # {}
    BY <1>5
  <2> DEFINE n == Len(path.lines) + 1
  <2>2. /\ more[n] = l
        /\ \A k \in DOMAIN path.lines : more[k] = path.lines[k]
        /\ \A k \in DOMAIN more : k = n \/ k \in DOMAIN path.lines
    BY <1>5, <1>6, AppendLines
  <2> HIDE DEF more, n
  <2> QED
    BY <1>14, <2>1, <2>2 DEF Full
<1>16. ASSUME NEW t \in Threads
       PROVE  /\ IsLast(more, t, LastSeq(more)[t]) /\ Fits(Replay(more)[t], LastSeq(more)[t], t)
              /\ Replay(more)[t] = (IF t = l.thread THEN Grown(threads[t], l) ELSE threads[t])
              /\ LastSeq(more)[t] <= (IF t = l.thread THEN l.seq ELSE seq[t])
  <2>1. t = l.thread => LastSeq(path.lines)[t] < l.seq
    BY <1>5, <1>14 DEF Fits
  <2>2. IsLast(more, t, IF t = l.thread THEN l.seq ELSE LastSeq(path.lines)[t])
    BY <1>5, <1>6, <1>14, <2>1, AppendLast
  <2>3. LastSeq(more)[t] = IF t = l.thread THEN l.seq ELSE LastSeq(path.lines)[t]
    BY <1>6, <2>2, LastIs
  <2>4. Replay(more)[t] = IF t = l.thread THEN Grown(threads[t], l) ELSE threads[t]
    <3>1. /\ Full(path.lines) /\ Replay(path.lines)[t] = threads[t]
          /\ path.lines \in Seq(Line) /\ l \in Line
      BY <1>5, <1>6, <1>14
    <3>2. Replay(more)[t] = IF l.thread = t THEN Grown(Replay(path.lines)[t], l) ELSE Replay(path.lines)[t]
      BY <1>5, <3>1, AppendReplay
    <3> QED
      BY <3>1, <3>2
  <2>5. t = l.thread => Fits(Grown(threads[t], l), l.seq, t)
    <3>1. l.seq - 1 = seq[l.thread] /\ (seq[l.thread] = 0 => l.seq = 1)
      BY <1>5, <1>14 DEF Fits
    <3> QED
      BY <1>5, <1>14, <3>1, Grows
  <2>6. l.seq <= l.seq
    BY <1>5 DEF Line
  <2> QED
    BY <1>14, <2>2, <2>3, <2>4, <2>5, <2>6
<1>17. LinesFit(more)
  BY <1>15, <1>16 DEF LinesFit
<1>18. LinesFit(Cur.lines)'
  <2>1. Cur'.lines = more
    BY <1>7, <1>8
  <2> HIDE DEF more
  <2> QED
    BY <1>11, <1>17, <2>1 DEF LinesFit, Fits
<1>19. FileIsShown'
  BY <1>3, <1>4, <1>7, <1>8, <1>16 DEF FileIsShown, Now, NowSeq, InFile
<1> QED
  BY <1>4, <1>7, <1>8, <1>9, <1>10, <1>12, <1>13, <1>18, <1>19 DEF IInv

\* An operation that fails leaves the log as it was; one that fails at the start of
\* the server ends it.
LEMMA RejectStep ==
  ASSUME IInv, Running, ~InFile, Reject, Cur'.lines = Cur.lines, UNCHANGED <<used, torn, crashes>>,
         path' \in File \cup {Absent}, bak' \in File \cup {Absent}, faults' \in 0..MaxFaults,
         path' = Absent => bak' = Absent
  PROVE  IInv'
<1>1. op' = Quiet /\ op'.stage = "idle" /\ Quiet \in Op
  BY DEF Reject, Quiet, Doing, Op, Stage
<1>2. /\ server' \in {server, "down"} /\ server \in {"opening", "up"}
      /\ server' = server => UNCHANGED <<seq, threads>>
      /\ seq' \in {seq, [t \in Threads |-> 0]} /\ threads' \in {threads, [t \in Threads |-> {}]}
  BY DEF Reject, Running
<1>3. \A t \in Threads : Deleted(t) <=> Deleted(t)'
  BY DEF Deleted
<1>4. TypeOK'
  BY <1>1, <1>2 DEF IInv, TypeOK
<1>5. LinesFit(Cur.lines)'
  BY <1>3, SameLines DEF IInv
<1>6. CASE server' = server
  <2>1. UNCHANGED <<Running, seq, threads>> /\ ~InFile'
    BY <1>1, <1>2, <1>6 DEF Running, InFile
  <2>2. MemoryFits'
    BY <1>3, <2>1 DEF IInv, MemoryFits, Fits
  <2>3. FileIsShown'
    BY <2>1 DEF IInv, FileIsShown, Now, NowSeq
  <2>4. LineFits' /\ Places'
    BY <1>1, <1>2, <1>6 DEF LineFits, Places
  <2> QED
    BY <1>4, <1>5, <2>2, <2>3, <2>4 DEF IInv
<1>7. CASE server' = "down"
  <2>1. ~Running'
    BY <1>7 DEF Running
  <2>2. MemoryFits' /\ FileIsShown' /\ LineFits' /\ Places'
    BY <1>1, <1>7, <2>1 DEF MemoryFits, FileIsShown, LineFits, Places
  <2> QED
    BY <1>4, <1>5, <2>2 DEF IInv
<1> QED
  BY <1>2, <1>6, <1>7

\* A failed step counts.
LEMMA FaultType == ASSUME Assumed, TypeOK, Fault PROVE faults' \in 0..MaxFaults
BY DEF Assumed, TypeOK, Fault

\* An append fails with nothing written.
LEMMA AppendFailsStep == ASSUME Assumed, IInv, AppendFails PROVE IInv'
<1>1. op.stage = "append" /\ Fault
  BY DEF AppendFails, Assumed, IInv
<1>2. Running /\ ~InFile /\ (path = Absent => bak = Absent)
  BY <1>1 DEF IInv, Places, InFile
<1>3. Reject /\ UNCHANGED <<path, bak, used, torn, crashes>> /\ faults' \in 0..MaxFaults
  BY <1>1, FaultType DEF AppendFails, Fault, disk, IInv
<1>4. Cur' = Cur
  BY <1>3 DEF Cur
<1> QED
  BY <1>2, <1>3, <1>4, RejectStep DEF IInv, TypeOK

\* The record is shown.
LEMMA AppliedStep == ASSUME Assumed, IInv, Applied PROVE IInv'
<1> DEFINE l == op.line
<1>1. op.stage = "stored" /\ Running /\ op \in Op /\ path # Absent
  BY DEF Applied, IInv, Places, TypeOK
<1>2. /\ l \in Line /\ l.seq = seq[l.thread] + 1 /\ l.kind \in {"created", "event", "deleted"}
      /\ l.kind = "deleted" => l.body = {} /\ Deleted(l.thread)
      /\ l.kind # "deleted" => \E e \in Events : l.body = {[seq |-> l.seq, event |-> e]}
      /\ l.kind = "created" => threads[l.thread] = {} /\ seq[l.thread] = 0
      /\ l.kind = "event" => threads[l.thread] # {} \/ Deleted(l.thread)
      /\ l.thread \in Threads
  BY <1>1 DEF IInv, LineFits, Line
<1>3. /\ UNCHANGED <<path, bak, server, used, faults, torn, crashes>>
      /\ seq' = [seq EXCEPT ![l.thread] = l.seq]
      /\ threads' = [threads EXCEPT ![l.thread] = Grown(threads[l.thread], l)]
  BY DEF Applied, disk, budget, Grown
<1>4. op' \in Op /\ op'.stage \in {"idle", "tmp"}
  <2>1. op' = Quiet \/ op' = Doing("tmp", None, TRUE)
    BY DEF Applied
  <2>2. Quiet \in Op /\ Quiet.stage = "idle"
    BY DEF Quiet, Doing, Op, Stage
  <2>3. Doing("tmp", None, TRUE) \in Op /\ Doing("tmp", None, TRUE).stage = "tmp"
    BY DEF Doing, Op, Stage
  <2> QED
    BY <2>1, <2>2, <2>3
<1> HIDE DEF l
<1>5. \A t \in Threads : Deleted(t) <=> Deleted(t)'
  BY <1>3 DEF Deleted
<1>6. Fits(threads[l.thread], l.seq - 1, l.thread) /\ (seq[l.thread] = 0 => l.seq = 1)
  <2>1. Fits(threads[l.thread], seq[l.thread], l.thread)
    BY <1>1, <1>2 DEF IInv, MemoryFits
  <2>2. l.seq - 1 = seq[l.thread] /\ (seq[l.thread] = 0 => l.seq = 1)
    BY <1>2, <2>1 DEF Fits
  <2> QED
    BY <2>1, <2>2
<1>7. threads \in [Threads -> SUBSET Entry] /\ seq \in [Threads -> Nat] /\ l.seq \in Nat
  BY <1>2 DEF IInv, TypeOK, Line
<1>8. Fits(Grown(threads[l.thread], l), l.seq, l.thread) /\ Grown(threads[l.thread], l) \subseteq Entry
  BY <1>2, <1>6, <1>7, Grows
<1>9. TypeOK'
  BY <1>2, <1>3, <1>4, <1>7, <1>8 DEF IInv, TypeOK
<1>10. Cur' = Cur /\ UNCHANGED Running /\ ~InFile'
  BY <1>3, <1>4 DEF Cur, Running, InFile
<1>11. LinesFit(Cur.lines)'
  BY <1>5, <1>10, SameLines DEF IInv
<1>12. \A t \in Threads : Fits(threads'[t], seq'[t], t)
  BY <1>1, <1>2, <1>3, <1>7, <1>8 DEF IInv, MemoryFits
<1>13. MemoryFits'
  BY <1>5, <1>12 DEF MemoryFits, Fits
<1>14. FileIsShown'
  <2>1. \A t \in Threads : threads'[t] = Now(t) /\ seq'[t] = NowSeq(t)
    BY <1>1, <1>2, <1>3, <1>7 DEF Now, NowSeq, InFile, l
  <2> QED
    BY <1>1, <1>10, <2>1 DEF IInv, FileIsShown, Now, NowSeq
<1>15. LineFits' /\ Places'
  BY <1>1, <1>3, <1>4, <1>10 DEF IInv, LineFits, Places
<1> QED
  BY <1>3, <1>9, <1>11, <1>13, <1>14, <1>15 DEF IInv

-----------------------------------------------------------------------------
(* Compaction *)

\* A compaction begins.
LEMMA CompactStep == ASSUME Assumed, IInv, Compact PROVE IInv'
<1>1. op.stage = "idle" /\ server = "opening"
  BY DEF Compact
<1>2. UNCHANGED <<path, bak, server, seq, threads, used, faults, torn, crashes>>
  BY DEF Compact, disk, budget
<1>3. op' = Doing("tmp", None, FALSE)
  BY DEF Compact
<1>4. op'.stage = "tmp" /\ op' \in Op
  BY <1>3 DEF Quiet, Doing, Op, Stage
<1>5. Cur' = Cur /\ UNCHANGED Running /\ Running /\ ~InFile /\ ~InFile'
  BY <1>1, <1>2, <1>4 DEF Cur, Running, InFile
<1>6. \A t \in Threads : Deleted(t) <=> Deleted(t)'
  BY <1>2 DEF Deleted
<1>7. TypeOK'
  BY <1>2, <1>4 DEF IInv, TypeOK
<1>8. LinesFit(Cur.lines)'
  BY <1>5, <1>6, SameLines DEF IInv
<1>9. MemoryFits' /\ FileIsShown'
  BY <1>2, <1>5, <1>6 DEF IInv, MemoryFits, FileIsShown, Fits, Now, NowSeq
<1>10. LineFits' /\ Places'
  BY <1>1, <1>2, <1>4, <1>5 DEF IInv, LineFits, Places
<1> QED
  BY <1>2, <1>7, <1>8, <1>9, <1>10 DEF IInv

\* A step of replace that moves files.
LEMMA ReplaceStep ==
  ASSUME Assumed, IInv, Written \/ Unlinked \/ Parked PROVE IInv' /\ Cur'.lines = Cur.lines
<1>1. /\ op \in Op /\ op.stage \in {"tmp", "unlink", "park"} /\ Running
      /\ path = Absent => bak = Absent
      /\ op.stage = "park" => bak = Absent
      /\ path \in File \cup {Absent} /\ bak \in File \cup {Absent}
  BY DEF Written, Unlinked, Parked, Goes, IInv, TypeOK, Places
<1>2. UNCHANGED <<server, seq, threads, used, faults, torn, crashes>>
  BY DEF Written, Unlinked, Parked, Goes, budget
<1>3. /\ op' \in Op /\ op'.line = op.line
      /\ \/ op.stage = "tmp" /\ op'.stage = "unlink" /\ UNCHANGED <<path, bak>>
         \/ op.stage = "unlink" /\ op'.stage = "park" /\ path' = path /\ bak' = Absent
         \/ /\ op.stage = "park" /\ op'.stage = "swap" /\ op'.parked = (path # Absent)
            /\ path' = Absent /\ bak' = path
  <2>1. CASE Written
    <3>1. op' = [op EXCEPT !.stage = "unlink"] /\ op.stage = "tmp" /\ UNCHANGED <<path, bak>>
      BY <2>1 DEF Written, Goes, disk
    <3>2. op' \in Op /\ op'.line = op.line /\ op'.stage = "unlink"
      BY <1>1, <3>1 DEF Op, Stage
    <3> QED
      BY <3>1, <3>2
  <2>2. CASE Unlinked
    <3>1. op' = [op EXCEPT !.stage = "park"] /\ op.stage = "unlink" /\ path' = path /\ bak' = Absent
      BY <2>2 DEF Unlinked, Goes
    <3>2. op' \in Op /\ op'.line = op.line /\ op'.stage = "park"
      BY <1>1, <3>1 DEF Op, Stage
    <3> QED
      BY <3>1, <3>2
  <2>3. CASE Parked
    <3>1. op' = [op EXCEPT !.stage = "swap", !.parked = path # Absent] /\ op.stage = "park"
          /\ path' = Absent /\ bak' = path
      BY <2>3 DEF Parked
    <3> QED
      BY <1>1, <3>1 DEF Op, Stage
  <2> QED
    BY <2>1, <2>2, <2>3
<1>4. Cur'.lines = Cur.lines /\ UNCHANGED Running
  BY <1>1, <1>2, <1>3 DEF Cur, Running
<1>5. TypeOK'
  <2>1. path' \in File \cup {Absent} /\ bak' \in File \cup {Absent}
    BY <1>1, <1>3
  <2>2. op' \in Op
    BY <1>3
  <2>3. TypeOK
    BY DEF IInv
  <2> QED
    BY <1>2, <2>1, <2>2, <2>3 DEF TypeOK
<1>6. Places'
  <2>1. server \notin {"tail", "replay"} /\ Running'
    BY <1>1, <1>4 DEF Running
  <2>2. CASE op'.stage = "swap"
    BY <1>2, <1>3, <2>1, <2>2 DEF Places
  <2>3. CASE op'.stage \in {"unlink", "park"}
    BY <1>1, <1>2, <1>3, <2>1, <2>3 DEF Places
  <2> QED
    BY <1>3, <2>2, <2>3
<1>7. ~InFile /\ ~InFile' /\ op'.stage \notin {"append", "torn", "whole", "stored"}
  BY <1>1, <1>3 DEF InFile
<1> QED
  BY <1>2, <1>3, <1>4, <1>5, <1>6, <1>7, FileStep

\* While the log is compacted, the threads are what the file or its backup has.
LEMMA CompactingIs ==
  ASSUME Assumed, IInv, Running, ~InFile
  PROVE  /\ Compacted \in File /\ Compacted # Absent /\ LinesFit(Compacted.lines)
         /\ \A t \in Threads : /\ Replay(Compacted.lines)[t] = threads[t]
                               /\ LastSeq(Compacted.lines)[t] <= seq[t]
                               /\ Fits(threads[t], LastSeq(Compacted.lines)[t], t)
<1>1. \A t \in Threads : Fits(threads[t], seq[t], t)
  BY DEF IInv, MemoryFits
<1>2. \A t \in Threads : threads[t] # {} => seq[t] # 0
  BY <1>1, FS_EmptySet DEF Fits
<1>3. /\ Compacted.lines \in Seq(Line) /\ Full(Compacted.lines)
      /\ Compacted.tail = "line" /\ Compacted \in File
      /\ \A t \in Threads : /\ Replay(Compacted.lines)[t] = threads[t]
                            /\ IsLast(Compacted.lines, t, IF threads[t] # {} THEN seq[t] ELSE 0)
  BY <1>2, CompactedIs DEF Assumed, IInv
<1>4. Compacted # Absent
  BY <1>3 DEF Absent
<1> DEFINE lines == Compacted.lines
<1> HIDE DEF lines
<1>5. ASSUME NEW t \in Threads
      PROVE  LastSeq(Compacted.lines)[t] = IF threads[t] # {} THEN seq[t] ELSE 0
  BY <1>3, LastIs
<1>6. \A t \in Threads : Fits(threads[t], IF threads[t] # {} THEN seq[t] ELSE 0, t)
  BY <1>1 DEF Fits
<1>7. \A t \in Threads : seq[t] \in Nat
  BY <1>1 DEF Fits
<1>8. LinesFit(Compacted.lines)
  BY <1>3, <1>5, <1>6 DEF LinesFit
<1> QED
  BY <1>3, <1>4, <1>5, <1>6, <1>7, <1>8

\* The snapshots become the log: the old one is the backup, or there was none.
LEMMA SwappedStep == ASSUME Assumed, IInv, Swapped PROVE IInv' /\ Cur' = Compacted
<1>1. op.stage = "swap" /\ op \in Op /\ Running /\ ~InFile /\ op' = [op EXCEPT !.stage = "clean"]
  BY DEF Swapped, Goes, IInv, TypeOK, Places, InFile
<1>2. path' = Compacted /\ UNCHANGED <<bak, server, seq, threads, used, faults, torn, crashes>>
  BY DEF Swapped, Goes, budget
<1>3. op' \in Op /\ op'.stage = "clean"
  BY <1>1 DEF Op, Stage
<1>4. /\ Compacted \in File /\ Compacted # Absent /\ LinesFit(Compacted.lines)
      /\ \A t \in Threads : /\ Replay(Compacted.lines)[t] = threads[t]
                            /\ LastSeq(Compacted.lines)[t] <= seq[t]
  BY <1>1, CompactingIs
<1>5. Cur' = Compacted /\ UNCHANGED Running /\ ~InFile'
  BY <1>2, <1>3, <1>4 DEF Cur, Running, InFile
<1>6. UNCHANGED Compacted
  BY <1>2 DEF Compacted, Live, Snapshot
<1>7. \A t \in Threads : Deleted(t) <=> Deleted(t)'
  BY <1>2 DEF Deleted
<1>8. TypeOK'
  BY <1>2, <1>3, <1>4 DEF IInv, TypeOK
<1>9. LinesFit(Cur.lines)'
  BY <1>4, <1>5, <1>7 DEF LinesFit, Fits
<1>10. MemoryFits'
  BY <1>2, <1>5, <1>7 DEF IInv, MemoryFits, Fits
<1>11. FileIsShown'
  <2>1. ASSUME NEW t \in Threads
        PROVE  Now(t)' = threads[t] /\ NowSeq(t)' = seq[t]
    BY <1>2, <1>5 DEF Now, NowSeq
  <2>2. ASSUME NEW t \in Threads
        PROVE  (Replay(Cur.lines)[t] = Now(t) /\ LastSeq(Cur.lines)[t] <= NowSeq(t))'
    BY <1>4, <1>5, <2>1
  <2> QED
    BY <2>2 DEF FileIsShown
<1>12. LineFits'
  BY <1>3 DEF LineFits
<1>13. Places'
  <2>1. server \notin {"tail", "replay"} /\ Running'
    BY <1>1, <1>5 DEF Running
  <2>2. path' = Compacted' /\ path' # Absent
    BY <1>2, <1>4, <1>6
  <2> QED
    BY <1>2, <1>3, <2>1, <2>2 DEF Places
<1> QED
  BY <1>2, <1>5, <1>8, <1>9, <1>10, <1>11, <1>12, <1>13 DEF IInv

\* The snapshots do not become the log.
LEMMA SwapFailsStep == ASSUME Assumed, IInv, SwapFails PROVE IInv'
<1>1. /\ op.stage = "swap" /\ op \in Op /\ Running /\ ~InFile
      /\ path = Absent /\ (op.parked <=> bak # Absent)
  BY DEF SwapFails, IInv, TypeOK, Places, InFile
<1>2. UNCHANGED <<path, bak, used, torn, crashes>> /\ faults' \in 0..MaxFaults
  BY FaultType DEF SwapFails, Fault, disk, IInv
<1>3. Cur' = Cur
  BY <1>2 DEF Cur
<1>4. CASE op.parked
  <2>1. op' = [op EXCEPT !.stage = "restore"] /\ UNCHANGED <<server, seq, threads>>
    BY <1>4 DEF SwapFails
  <2>2. op' \in Op /\ op'.stage = "restore" /\ op'.line = op.line /\ op'.parked = op.parked
    BY <1>1, <2>1 DEF Op, Stage
  <2>3. TypeOK'
    BY <1>2, <2>1, <2>2 DEF IInv, TypeOK
  <2>4. Places'
    BY <1>1, <1>2, <1>4, <2>1, <2>2 DEF IInv, Places, Running
  <2>5. ~InFile'
    BY <2>2 DEF InFile
  <2> QED
    BY <1>1, <1>2, <1>3, <2>1, <2>2, <2>3, <2>4, <2>5, FileStep
<1>5. CASE ~op.parked
  BY <1>1, <1>2, <1>3, <1>5, RejectStep DEF SwapFails, IInv, TypeOK
<1> QED
  BY <1>4, <1>5

\* The backup becomes the log again.
LEMMA RestoredStep == ASSUME Assumed, IInv, Restored PROVE IInv' /\ Cur'.lines = Cur.lines
<1>1. /\ op.stage = "restore" /\ Running /\ ~InFile /\ path = Absent /\ bak # Absent
      /\ bak \in File \cup {Absent}
  BY DEF Restored, IInv, TypeOK, Places, InFile
<1>2. path' = bak /\ bak' = Absent /\ UNCHANGED <<used, faults, torn, crashes>> /\ Reject
  BY DEF Restored, budget
<1>3. Cur' = Cur
  BY <1>1, <1>2 DEF Cur
<1>4. faults' \in 0..MaxFaults
  BY <1>2 DEF IInv, TypeOK
<1> QED
  BY <1>1, <1>2, <1>3, <1>4, RejectStep

\* Another step of a compaction fails.
LEMMA CompactFailsStep == ASSUME Assumed, IInv, CompactFails PROVE IInv'
<1>1. PICK from \in {"tmp", "unlink", "park", "clean"} : Fails(from)
  BY DEF CompactFails, Assumed
<1>2. op.stage = from /\ UNCHANGED <<path, bak, used, torn, crashes>> /\ faults' \in 0..MaxFaults
      /\ Reject
  BY <1>1, FaultType DEF Fails, Fault, disk, IInv
<1>3. Running /\ ~InFile /\ (path = Absent => bak = Absent)
  BY <1>2 DEF IInv, Places, InFile
<1>4. Cur' = Cur
  BY <1>2 DEF Cur
<1> QED
  BY <1>2, <1>3, <1>4, RejectStep DEF IInv, TypeOK

\* The compaction ends, and the numbers of deleted threads with it.
LEMMA CleanedStep == ASSUME Assumed, IInv, Cleaned PROVE IInv'
<1>1. op.stage = "clean" /\ Running /\ ~InFile /\ path = Compacted
  BY DEF Cleaned, IInv, Places, InFile
<1>2. /\ bak' = Absent /\ seq' = LastSeq(Compacted.lines) /\ op' = Quiet
      /\ server' \in {server, "up"} /\ UNCHANGED <<path, threads, used, faults, torn, crashes>>
  BY DEF Cleaned, budget
<1>3. /\ Compacted \in File /\ Compacted # Absent /\ LinesFit(Compacted.lines)
      /\ \A t \in Threads : /\ Replay(Compacted.lines)[t] = threads[t]
                            /\ LastSeq(Compacted.lines)[t] \in Nat
                            /\ Fits(threads[t], LastSeq(Compacted.lines)[t], t)
  BY <1>1, CompactingIs DEF Fits
<1>4. Quiet \in Op /\ op'.stage = "idle"
  BY <1>2 DEF Quiet, Doing, Op, Stage
<1>5. Cur' = Compacted /\ Cur = Compacted /\ Running' /\ ~InFile'
  BY <1>1, <1>2, <1>3, <1>4 DEF Cur, Running, InFile
<1>6. \A t \in Threads : Deleted(t) <=> Deleted(t)'
  BY <1>2 DEF Deleted
<1>7. TypeOK'
  <2>1. seq' \in [Threads -> Nat]
    BY <1>2, <1>3 DEF LastSeq
  <2> QED
    BY <1>2, <1>4, <2>1 DEF IInv, TypeOK
<1>8. LinesFit(Cur.lines)'
  BY <1>3, <1>5, <1>6 DEF LinesFit, Fits
<1>9. MemoryFits'
  BY <1>2, <1>3, <1>6 DEF MemoryFits, Fits
<1>10. FileIsShown'
  <2>1. \A t \in Threads : LastSeq(Compacted.lines)[t] <= LastSeq(Compacted.lines)[t]
    BY <1>3
  <2> QED
    BY <1>2, <1>3, <1>5, <2>1 DEF FileIsShown, Now, NowSeq
<1>11. LineFits' /\ Places'
  BY <1>1, <1>2, <1>3, <1>4, <1>5 DEF IInv, LineFits, Places, Running
<1> QED
  BY <1>2, <1>7, <1>8, <1>9, <1>10, <1>11 DEF IInv

-----------------------------------------------------------------------------
(* Crashes and starts *)

\* A server that is down shows nothing.
LEMMA DownStep ==
  ASSUME IInv, TypeOK', ~Running', Cur'.lines = Cur.lines, UNCHANGED <<used, torn>>, op'.stage = "idle",
         server' \in {"tail", "replay"} => bak' = Absent
  PROVE  IInv'
<1>1. \A t \in Threads : Deleted(t) => Deleted(t)'
  BY DEF Deleted
<1>2. LinesFit(Cur.lines)'
  BY <1>1, SameLines DEF IInv
<1> QED
  BY <1>2 DEF IInv, MemoryFits, FileIsShown, LineFits, Places

\* The server crashes, or recovers the files.
LEMMA StartStep ==
  ASSUME Assumed, IInv, Crash \/ RecoverBackup \/ RecoverTail PROVE IInv' /\ Cur'.lines = Cur.lines
<1>1. Quiet \in Op /\ Quiet.stage = "idle"
  BY DEF Quiet, Doing, Op, Stage
<1>2. CASE Crash
  <2>1. /\ server' = "down" /\ op' = Quiet /\ UNCHANGED <<path, bak, used, faults, torn>>
        /\ crashes' = crashes + 1 /\ crashes < MaxCrashes
        /\ seq' = [t \in Threads |-> 0] /\ threads' = [t \in Threads |-> {}]
    BY <1>2 DEF Crash, disk
  <2>2. TypeOK' /\ ~Running' /\ Cur' = Cur
    BY <1>1, <2>1 DEF Assumed, IInv, TypeOK, Running, Cur
  <2> QED
    BY <1>1, <2>1, <2>2, DownStep
<1>3. CASE RecoverBackup
  <2>1. /\ server = "down" /\ server' = "tail" /\ path' = Cur /\ bak' = Absent
        /\ UNCHANGED <<seq, threads, op, used, faults, torn, crashes>>
    BY <1>3 DEF RecoverBackup, Cur, budget
  <2>2. Cur \in File \cup {Absent} /\ Cur' = Cur
    BY <2>1, CurType DEF IInv, Cur
  <2>3. TypeOK' /\ ~Running' /\ op'.stage = "idle"
    BY <2>1, <2>2 DEF IInv, TypeOK, Running, Places
  <2> QED
    BY <2>1, <2>2, <2>3, DownStep
<1>4. CASE RecoverTail
  <2>1. /\ server = "tail" /\ server' = "replay" /\ bak = Absent
        /\ path' = IF path = Absent THEN path ELSE [path EXCEPT !.tail = "line"]
        /\ UNCHANGED <<bak, seq, threads, op, used, faults, torn, crashes>>
    BY <1>4 DEF RecoverTail, budget, IInv, Places
  <2>2. path \in File \cup {Absent}
    BY DEF IInv, TypeOK
  <2>3. path' \in File \cup {Absent} /\ Cur'.lines = Cur.lines
    <3>1. CASE path = Absent
      BY <2>1, <2>2, <3>1 DEF Cur
    <3>2. CASE path # Absent
      <4>1. path' = [path EXCEPT !.tail = "line"] /\ path \in File
        BY <2>1, <2>2, <3>2
      <4>2. path' \in File /\ path'.lines = path.lines /\ path' # Absent
        BY <4>1 DEF File, Absent
      <4> QED
        BY <3>2, <4>2 DEF Cur
    <3> QED
      BY <3>1, <3>2
  <2>4. TypeOK' /\ ~Running' /\ op'.stage = "idle"
    BY <2>1, <2>3 DEF IInv, TypeOK, Running, Places
  <2> QED
    BY <2>1, <2>3, <2>4, DownStep
<1> QED
  BY <1>2, <1>3, <1>4

\* The server replays the log.
LEMMA OpenStep == ASSUME Assumed, IInv, Open PROVE IInv' /\ Cur'.lines = Cur.lines
<1>1. /\ server = "replay" /\ bak = Absent /\ op.stage = "idle"
      /\ UNCHANGED <<path, bak, op, used, faults, torn, crashes>>
  BY DEF Open, disk, budget, IInv, Places, Running
<1>2. Cur' = Cur /\ Cur.lines = path.lines /\ Cur.lines \in Seq(Line)
  BY <1>1, CurType DEF Cur, IInv
<1>3. CASE ~path.readable
  <2>1. server' = "down" /\ UNCHANGED <<seq, threads>>
    BY <1>3 DEF Open
  <2>2. TypeOK' /\ ~Running'
    BY <1>1, <2>1 DEF IInv, TypeOK, Running
  <2> QED
    BY <1>1, <1>2, <2>1, <2>2, DownStep
<1>4. CASE path.readable
  <2>1. server' = "opening" /\ seq' = LastSeq(Cur.lines) /\ threads' = Replay(Cur.lines)
    BY <1>2, <1>4 DEF Open
  <2>2. \A t \in Threads : Deleted(t) <=> Deleted(t)'
    BY <1>1 DEF Deleted
  <2>3. \A t \in Threads : Fits(Replay(Cur.lines)[t], LastSeq(Cur.lines)[t], t)
    BY DEF IInv, LinesFit
  <2>4. \A t \in Threads : LastSeq(Cur.lines)[t] \in Nat
    BY <2>3 DEF Fits
  <2>5. TypeOK'
    <3>1. threads' \in [Threads -> SUBSET Entry]
      BY <1>2, <2>1, ReplayType
    <3>2. seq' \in [Threads -> Nat]
      BY <2>1, <2>4 DEF LastSeq
    <3> QED
      BY <1>1, <2>1, <3>1, <3>2 DEF IInv, TypeOK
  <2>6. LinesFit(Cur.lines)'
    BY <1>2, <2>2, SameLines DEF IInv
  <2>7. MemoryFits'
    BY <2>1, <2>2, <2>3 DEF MemoryFits, Fits
  <2>8. FileIsShown'
    <3>1. \A t \in Threads : LastSeq(Cur.lines)[t] <= LastSeq(Cur.lines)[t]
      BY <2>4
    <3> QED
      BY <1>1, <1>2, <2>1, <3>1 DEF FileIsShown, Now, NowSeq, InFile
  <2>9. LineFits' /\ Places'
    BY <1>1, <2>1 DEF IInv, LineFits, Places, Running
  <2> QED
    BY <1>1, <1>2, <2>5, <2>6, <2>7, <2>8, <2>9 DEF IInv
<1> QED
  BY <1>2, <1>3, <1>4

-----------------------------------------------------------------------------
(* The invariant holds *)

\* Every step keeps it.
LEMMA Inductive == ASSUME Assumed, IInv, [Next]_vars PROVE IInv'
<1>1. CASE UNCHANGED vars
  <2>1. UNCHANGED <<path, bak, server, seq, threads, op, used, faults, torn, crashes>>
    BY <1>1 DEF vars, disk, memory, budget
  <2>2. \A t \in Threads : Deleted(t) <=> Deleted(t)'
    BY <2>1 DEF Deleted
  <2>3. UNCHANGED Cur /\ UNCHANGED Running
    BY <2>1 DEF Cur, Running
  <2>4. TypeOK'
    BY <2>1 DEF IInv, TypeOK
  <2>5. (InFile' <=> InFile) /\ Places'
    BY <2>1, <2>3 DEF IInv, Places, InFile, Compacted, Live, Snapshot
  <2> QED
    BY <2>1, <2>3, <2>4, <2>5, FileStep
<1>2. CASE \E t \in Threads, e \in Events, ending \in BOOLEAN :
             \E kind \in {"created", "event", "deleted"} : Begin(t, e, kind, ending)
  BY <1>2, BeginStep
<1>3. CASE Torn \/ Whole \/ Newline \/ AppendFails \/ Applied
  BY <1>3, TornStep, WholeStep, NewlineStep, AppendFailsStep, AppliedStep
<1>4. CASE Compact \/ Written \/ Unlinked \/ Parked \/ Swapped \/ SwapFails
  BY <1>4, CompactStep, ReplaceStep, SwappedStep, SwapFailsStep
<1>5. CASE Restored \/ Cleaned \/ CompactFails
  BY <1>5, RestoredStep, CleanedStep, CompactFailsStep
<1>6. CASE Crash \/ RecoverBackup \/ RecoverTail \/ Open
  BY <1>6, StartStep, OpenStep
<1> QED
  BY <1>1, <1>2, <1>3, <1>4, <1>5, <1>6 DEF Next

\* The invariant holds in every state.
LEMMA Invariant == ASSUME Assumed PROVE Spec => []IInv
<1>1. Init => IInv
  BY InitInv
<1>2. IInv /\ [Next]_vars => IInv'
  BY Inductive
<1> QED
  BY <1>1, <1>2, PTL DEF Spec

\* Stored is what the log a restart reads says.
LEMMA StoredIs ==
  TypeOK => Stored = Replay(Cur.lines) /\ Stored \in [Threads -> SUBSET Entry]
<1> SUFFICES ASSUME TypeOK
             PROVE  Stored = Replay(Cur.lines) /\ Stored \in [Threads -> SUBSET Entry]
  OBVIOUS
<1>1. Stored = Replay(Cur.lines)
  BY DEF Stored, Cur
<1> QED
  BY <1>1, CurType, ReplayType

\* With no record on its way, it is what is shown.
LEMMA ShownNow == IInv /\ Running /\ ~InFile => Stored = threads
<1> SUFFICES ASSUME IInv, Running, ~InFile PROVE Stored = threads
  OBVIOUS
<1>1. \A t \in Threads : Stored[t] = threads[t]
  BY StoredIs DEF IInv, FileIsShown, Now
<1>2. Stored \in [Threads -> SUBSET Entry] /\ threads \in [Threads -> SUBSET Entry]
  BY StoredIs DEF IInv, TypeOK
<1> QED
  BY <1>1, <1>2

\* Both hold in the next state.
LEMMA ShownNext ==
  /\ IInv' /\ Running' /\ ~InFile' => (Stored = threads)'
  /\ TypeOK' => (Stored = Replay(Cur.lines) /\ Stored \in [Threads -> SUBSET Entry])'
BY ShownNow, StoredIs, PTL

\* Between operations a restart would bring back exactly the threads the server
\* shows (OrchestrationEngine and EventStore.replace), whatever failed before.
THEOREM ShownStaysStored == ASSUME Assumed PROVE Spec => []ShownIsStored
<1>1. IInv => ShownIsStored
  BY ShownNow DEF ShownIsStored, InFile
<1> QED
  BY <1>1, Invariant, PTL

-----------------------------------------------------------------------------
(* The refinement *)

\* What the abstract log shows.
Seen == IF Running THEN threads ELSE Stored

\* Steps that change neither what a restart reads nor what is shown.
LEMMA Stutters ==
  ASSUME UNCHANGED Stored, UNCHANGED Running, Running => UNCHANGED threads
  PROVE  UNCHANGED Promise!vars
<1>1. UNCHANGED Seen
  BY DEF Seen
<1> QED
  BY <1>1 DEF Promise!vars, Seen

\* The end of a server: all that was stored comes back.
LEMMA Ends ==
  ASSUME UNCHANGED Stored, Running, ~Running' PROVE Promise!Next
BY DEF Promise!Next, Promise!Crash

\* An operation that fails changes nothing, or ends the server that starts.
LEMMA Rejects ==
  ASSUME UNCHANGED Stored, Running, Reject PROVE [Promise!Next]_(Promise!vars)
<1>1. CASE server = "opening"
  <2>1. ~Running'
    BY <1>1 DEF Reject, Running
  <2> QED
    BY <2>1, Ends
<1>2. CASE server # "opening"
  <2>1. UNCHANGED <<server, threads>>
    BY <1>2 DEF Reject
  <2>2. UNCHANGED Running
    BY <2>1 DEF Running
  <2> QED
    BY <2>1, <2>2, Stutters
<1> QED
  BY <1>1, <1>2

\* A record that is whole on the disk is stored.
LEMMA WholeStores ==
  ASSUME Assumed, IInv, Whole PROVE [Promise!Next]_(Promise!vars)
<1> DEFINE l == op.line
           t == l.thread
<1>1. op.stage = "torn" /\ Running /\ ~InFile /\ op \in Op
  BY DEF Whole, IInv, Places, InFile, TypeOK
<1>2. op' = [op EXCEPT !.stage = "whole"] /\ UNCHANGED <<server, seq, threads>>
  BY DEF Whole
<1>3. op'.line = l /\ InFile'
  BY <1>1, <1>2 DEF InFile, Op
<1>4. Running' /\ IInv'
  BY <1>1, <1>2, WholeStep DEF Running
<1>5. /\ l \in Line /\ l.seq = seq[t] + 1 /\ t \in Threads
      /\ l.kind \in {"created", "event", "deleted"}
      /\ l.kind # "deleted" => \E e \in Events : l.body = {[seq |-> l.seq, event |-> e]}
      /\ l.kind = "created" => threads[t] = {} /\ seq[t] = 0
  BY <1>1 DEF IInv, LineFits, Line
<1>6. Fits(threads[t], seq[t], t)
  BY <1>1, <1>5 DEF IInv, MemoryFits
<1>7. Stored = threads /\ threads \in [Threads -> SUBSET Entry]
  BY <1>1, ShownNow DEF IInv, TypeOK
<1> HIDE DEF l, t
<1>8. Stored' = [Stored EXCEPT ![t] = Grown(Stored[t], l)]
  <2>1. \A u \in Threads : Stored'[u] = IF u = t THEN Grown(threads[u], l) ELSE threads[u]
    <3> SUFFICES ASSUME NEW u \in Threads
                 PROVE  Stored'[u] = IF u = t THEN Grown(threads[u], l) ELSE threads[u]
      OBVIOUS
    <3>1. (Stored[u] = Now(u))'
      <4>1. (Stored = Replay(Cur.lines))'
        BY <1>4, ShownNext DEF IInv
      <4> QED
        BY <1>4, <4>1 DEF IInv, FileIsShown
    <3> QED
      BY <1>2, <1>3, <3>1 DEF Now, t
  <2>2. Stored' \in [Threads -> SUBSET Entry]
    <3>1. TypeOK'
      BY <1>4 DEF IInv
    <3> QED
      BY <3>1, ShownNext
  <2> QED
    BY <1>5, <1>7, <2>1, <2>2
<1>9. UNCHANGED Seen /\ UNCHANGED Running /\ Seen = Stored
  BY <1>1, <1>2, <1>4, <1>7 DEF Seen
<1>10. CASE l.kind = "deleted"
  <2>1. Promise!Delete(t)
    BY <1>1, <1>5, <1>8, <1>9, <1>10 DEF Promise!Delete, Grown, Seen
  <2> QED
    BY <1>5, <2>1 DEF Promise!Next
<1>11. CASE l.kind = "created" \/ (l.kind = "event" /\ Stored[t] # {})
  <2>1. PICK e \in Events : l.body = {[seq |-> l.seq, event |-> e]}
    BY <1>5, <1>11
  <2>2. l.seq = Cardinality(Stored[t]) + 1
    BY <1>5, <1>6, <1>7, <1>11, FS_EmptySet DEF Fits
  <2>3. Stored' = [Stored EXCEPT ![t] = @ \cup {[seq |-> Cardinality(@) + 1, event |-> e]}]
    BY <1>8, <1>11, <2>1, <2>2 DEF Grown
  <2>4. Promise!Cardinality(Stored[t]) = Cardinality(Stored[t])
    BY DEF Promise!Cardinality, Cardinality
  <2>5. Promise!Store(t, e)
    BY <1>1, <1>9, <2>3, <2>4 DEF Promise!Store, Seen
  <2> QED
    BY <1>5, <2>5 DEF Promise!Next
<1>12. CASE l.kind = "event" /\ Stored[t] = {}
  <2>1. Stored' = Stored
    BY <1>5, <1>7, <1>8, <1>12 DEF Grown
  <2> QED
    BY <1>1, <1>2, <1>9, <2>1, Stutters
<1> QED
  BY <1>5, <1>10, <1>11, <1>12

\* A record that is applied is shown.
LEMMA AppliedShows ==
  ASSUME Assumed, IInv, Applied PROVE [Promise!Next]_(Promise!vars)
<1>1. Running /\ UNCHANGED <<path, bak, server>> /\ op'.stage \in {"idle", "tmp"}
  BY DEF Applied, IInv, Places, disk, Quiet, Doing
<1>2. Running' /\ ~InFile' /\ UNCHANGED Stored /\ IInv'
  BY <1>1, AppliedStep DEF Running, InFile, Stored
<1>3. (Stored = threads)'
  BY <1>2, ShownNext
<1> QED
  BY <1>1, <1>2, <1>3 DEF Promise!Next, Promise!Show

\* Every step is a step of the abstract log, or none.
LEMMA StepsRefine ==
  ASSUME Assumed, IInv, [Next]_vars PROVE [Promise!Next]_(Promise!vars)
<1>1. (Cur'.lines = Cur.lines) => UNCHANGED Stored
  BY DEF Stored, Cur
<1>2. UNCHANGED <<path, bak>> => UNCHANGED Stored
  BY DEF Stored
<1>3. UNCHANGED server => UNCHANGED Running
  BY DEF Running
<1>4. CASE UNCHANGED vars
  BY <1>2, <1>3, <1>4, Stutters DEF vars, disk, memory
<1>5. CASE \E t \in Threads, e \in Events, ending \in BOOLEAN :
             \E kind \in {"created", "event", "deleted"} : Begin(t, e, kind, ending)
  <2>1. UNCHANGED <<path, bak, server, threads>>
    BY <1>5 DEF Begin, disk
  <2> QED
    BY <1>2, <1>3, <2>1, Stutters
<1>6. CASE Torn \/ Newline \/ Written \/ Unlinked \/ Parked
  <2>1. Cur'.lines = Cur.lines
    BY <1>6, TornStep, NewlineStep, ReplaceStep
  <2>2. UNCHANGED <<server, threads>>
    BY <1>6 DEF Torn, Newline, Written, Unlinked, Parked, Goes
  <2> QED
    BY <1>1, <1>3, <2>1, <2>2, Stutters
<1>7. CASE Whole \/ Applied
  BY <1>7, WholeStores, AppliedShows
<1>8. CASE Compact
  BY <1>2, <1>3, <1>8, Stutters DEF Compact, disk
<1>9. CASE Swapped
  <2>1. Running /\ ~InFile /\ UNCHANGED <<server, threads>> /\ op'.stage = "clean"
    BY <1>9 DEF Swapped, Goes, IInv, Places, InFile, TypeOK, Op
  <2>2. Running' /\ ~InFile' /\ IInv'
    BY <1>9, <2>1, SwappedStep DEF Running, InFile
  <2>3. Stored = threads /\ (Stored = threads)'
    BY <2>1, <2>2, ShownNow, ShownNext
  <2> QED
    BY <1>3, <2>1, <2>3, Stutters
<1>10. CASE AppendFails \/ CompactFails
  <2>1. Running /\ Reject /\ UNCHANGED <<path, bak>>
    BY <1>10 DEF AppendFails, CompactFails, Fails, disk, IInv, Places, Assumed
  <2> QED
    BY <1>2, <2>1, Rejects
<1>11. CASE SwapFails
  <2>1. Running /\ UNCHANGED <<path, bak>> /\ (Reject \/ UNCHANGED <<server, threads>>)
    BY <1>11 DEF SwapFails, disk, IInv, Places
  <2> QED
    BY <1>2, <1>3, <2>1, Rejects, Stutters
<1>12. CASE Restored
  <2>1. Running /\ Reject /\ Cur'.lines = Cur.lines
    BY <1>12, RestoredStep DEF Restored, IInv, Places
  <2> QED
    BY <1>1, <2>1, Rejects
<1>13. CASE Cleaned
  <2>1. /\ path # Absent /\ UNCHANGED <<path, threads>> /\ Running
        /\ server' \in {server, "up"}
    BY <1>13 DEF Cleaned, IInv, Places
  <2>2. UNCHANGED Stored /\ UNCHANGED Running
    BY <2>1 DEF Stored, Running
  <2> QED
    BY <2>1, <2>2, Stutters
<1>14. CASE Crash \/ RecoverBackup \/ RecoverTail
  <2>1. Cur'.lines = Cur.lines /\ ~Running'
    BY <1>14, StartStep DEF Crash, RecoverBackup, RecoverTail, Running
  <2>2. UNCHANGED Stored
    BY <1>1, <2>1
  <2>3. CASE Running
    BY <2>1, <2>2, <2>3, Ends
  <2>4. CASE ~Running
    <3>1. UNCHANGED Running
      BY <2>1, <2>4 DEF Running
    <3> QED
      BY <2>2, <2>4, <3>1, Stutters
  <2> QED
    BY <2>3, <2>4
<1>15. CASE Open
  <2>1. ~Running /\ UNCHANGED <<path, bak>> /\ bak = Absent
    BY <1>15 DEF Open, disk, Running, IInv, Places
  <2>2. CASE path.readable
    <3>1. Running' /\ threads' = Replay(path.lines)
      BY <1>15, <2>2 DEF Open, Running
    <3>2. Stored = Replay(path.lines)
      BY <2>1 DEF Stored
    <3> QED
      BY <1>2, <2>1, <3>1, <3>2 DEF Promise!Next, Promise!Reopen
  <2>3. CASE ~path.readable
    <3>1. UNCHANGED Running
      BY <1>15, <2>3 DEF Open, Running
    <3> QED
      BY <1>2, <2>1, <3>1, Stutters
  <2> QED
    BY <2>2, <2>3
<1> QED
  BY <1>4, <1>5, <1>6, <1>7, <1>8, <1>9, <1>10, <1>11, <1>12, <1>13, <1>14, <1>15 DEF Next

\* Appends, compactions, crashes and restarts (EventStore.append, replace and
\* open) implement the durable log.
THEOREM IsTheLog == ASSUME Assumed PROVE Spec => IsDurableLog
<1>1. Init => Promise!Init
  <2> SUFFICES ASSUME Init PROVE Promise!Init
    OBVIOUS
  <2>1. Stored = [t \in Threads |-> {}]
    BY NoLines DEF Init, Stored, Absent
  <2>2. Running = FALSE
    BY DEF Init, Running
  <2> QED
    BY <2>1, <2>2 DEF Promise!Init
<1>2. IInv /\ [Next]_vars => [Promise!Next]_(Promise!vars)
  BY StepsRefine
<1> QED
  BY <1>1, <1>2, Invariant, PTL DEF Spec, IsDurableLog, Promise!Spec

-----------------------------------------------------------------------------
(* The log stays readable *)

\* While the server runs, only the record that is being written lacks its newline.
Tails ==
  /\ LogReadable
  /\ Running => bak.tail \in {"line", "absent"}
  /\ Running \/ server = "replay" =>
       path.tail \in {"line", "absent"} \/ op.stage \in {"torn", "whole"}

\* A step that leaves the files, or that leaves them to a server that does not run.
LEMMA SameFiles ==
  ASSUME Tails, UNCHANGED <<path, bak>>,
         \/ server' \in {server, "down"}
         \/ server = "replay" /\ server' = "opening" /\ bak = Absent,
         op.stage \in {"torn", "whole"} => server' = "down" \/ op'.stage \in {"torn", "whole"}
  PROVE  Tails'
<1>1. Absent.tail = "absent"
  BY DEF Absent
<1> QED
  BY <1>1 DEF Tails, LogReadable, Running

\* Every step keeps the tails.
LEMMA TailsStep == ASSUME Assumed, IInv, Tails, [Next]_vars PROVE Tails'
<1>1. Absent.tail = "absent" /\ Absent.readable = TRUE
  BY DEF Absent
<1>2. \A f \in File : f.tail \in {"line", "whole", "torn"} /\ f # Absent
  BY DEF File, Absent
<1>3. path \in File \cup {Absent} /\ bak \in File \cup {Absent} /\ op \in Op
  BY DEF IInv, TypeOK
<1>4. CASE UNCHANGED vars
  BY <1>4, SameFiles DEF vars, disk, memory
<1>5. CASE \E t \in Threads, e \in Events, ending \in BOOLEAN :
             \E kind \in {"created", "event", "deleted"} : Begin(t, e, kind, ending)
  <2>1. UNCHANGED <<path, bak, server>> /\ op.stage = "idle"
    BY <1>5 DEF Begin, disk
  <2> QED
    BY <2>1, SameFiles
<1>6. CASE Torn
  <2>1. op.stage = "append" /\ Running /\ UNCHANGED <<bak, server>> /\ op'.stage = "torn"
    BY <1>3, <1>6 DEF Torn, IInv, Places, Op
  <2>2. path'.readable
    <3>1. CASE path = Absent
      BY <1>6, <3>1 DEF Torn
    <3>2. CASE path # Absent
      <4>1. path \in File /\ path.readable /\ path.tail = "line"
        BY <1>2, <1>3, <2>1, <3>2 DEF Tails, LogReadable
      <4>2. path' = [path EXCEPT !.tail = "torn", !.readable = @ /\ path.tail = "line"]
        BY <1>6, <3>2 DEF Torn
      <4> QED
        BY <4>1, <4>2 DEF File
    <3> QED
      BY <3>1, <3>2
  <2> QED
    BY <2>1, <2>2 DEF Tails, LogReadable, Running
<1>7. CASE Whole
  <2>1. op.stage = "torn" /\ UNCHANGED <<bak, server>> /\ op'.stage = "whole" /\ path \in File
    BY <1>3, <1>7 DEF Whole, IInv, Places, Op
  <2>2. path'.readable
    BY <1>7, <2>1 DEF Whole, Tails, LogReadable, File
  <2> QED
    BY <2>1, <2>2 DEF Tails, LogReadable, Running
<1>8. CASE Newline
  <2>1. UNCHANGED <<bak, server>> /\ path \in File /\ path' = [path EXCEPT !.tail = "line"]
    BY <1>3, <1>8 DEF Newline, IInv, Places
  <2>2. path'.readable /\ path'.tail = "line"
    BY <2>1 DEF Tails, LogReadable, File
  <2> QED
    BY <2>1, <2>2 DEF Tails, LogReadable, Running
<1>9. CASE AppendFails \/ CompactFails \/ SwapFails
  <2>1. UNCHANGED <<path, bak>> /\ server' \in {server, "down"} /\ op.stage \notin {"torn", "whole"}
    BY <1>9 DEF AppendFails, CompactFails, Fails, SwapFails, Reject, disk, Assumed, IInv
  <2> QED
    BY <2>1, SameFiles
<1>10. CASE Applied \/ Compact \/ Written
  <2>1. UNCHANGED <<path, bak, server>> /\ op.stage \notin {"torn", "whole"}
    BY <1>10 DEF Applied, Compact, Written, Goes, disk
  <2> QED
    BY <2>1, SameFiles
<1>11. CASE Unlinked
  <2>1. UNCHANGED <<path, server>> /\ bak' = Absent /\ op.stage = "unlink"
    BY <1>11 DEF Unlinked, Goes
  <2> QED
    BY <1>1, <2>1 DEF Tails, LogReadable, Running
<1>12. CASE Parked
  <2>1. UNCHANGED server /\ path' = Absent /\ bak' = path /\ op.stage = "park" /\ Running
    BY <1>12 DEF Parked, IInv, Places
  <2> QED
    BY <1>1, <2>1 DEF Tails, LogReadable, Running
<1>13. CASE Swapped
  <2>1. UNCHANGED <<bak, server>> /\ path' = Compacted
    BY <1>13 DEF Swapped, Goes
  <2> QED
    BY <2>1 DEF Tails, LogReadable, Running, Compacted
<1>14. CASE Restored
  <2>1. path' = bak /\ bak' = Absent /\ server' \in {server, "down"} /\ Running
    BY <1>14 DEF Restored, Reject, IInv, Places
  <2> QED
    BY <1>1, <2>1 DEF Tails, LogReadable, Running
<1>15. CASE Cleaned
  <2>1. UNCHANGED path /\ bak' = Absent /\ server' \in {server, "up"} /\ Running /\ op.stage = "clean"
    BY <1>15 DEF Cleaned, IInv, Places
  <2> QED
    BY <1>1, <2>1 DEF Tails, LogReadable, Running
<1>16. CASE Crash
  <2>1. UNCHANGED <<path, bak>> /\ server' = "down"
    BY <1>16 DEF Crash, disk
  <2> QED
    BY <2>1, SameFiles
<1>17. CASE RecoverBackup
  <2>1. path' \in {path, bak} /\ bak' = Absent /\ server' = "tail"
    BY <1>17 DEF RecoverBackup
  <2> QED
    BY <1>1, <2>1 DEF Tails, LogReadable, Running
<1>18. CASE RecoverTail
  <2>1. UNCHANGED bak /\ server' = "replay"
        /\ path' = IF path = Absent THEN path ELSE [path EXCEPT !.tail = "line"]
    BY <1>18 DEF RecoverTail
  <2>2. path'.readable /\ path'.tail \in {"line", "absent"}
    BY <1>1, <1>3, <2>1 DEF Tails, LogReadable, File
  <2> QED
    BY <2>1, <2>2 DEF Tails, LogReadable, Running
<1>19. CASE Open
  <2>1. /\ UNCHANGED <<path, bak>> /\ server = "replay" /\ bak = Absent /\ op.stage = "idle"
        /\ server' \in {"down", "opening"}
    BY <1>19 DEF Open, disk, IInv, Places, Running
  <2> QED
    BY <2>1, SameFiles
<1> QED
  BY <1>4, <1>5, <1>6, <1>7, <1>8, <1>9, <1>10, <1>11, <1>12, <1>13, <1>14, <1>15, <1>16,
     <1>17, <1>18, <1>19 DEF Next

\* A record that a crash cut off never ends up in front of another
\* (EventStore.#recoverTornTail): the server can always start again.
THEOREM LogStaysReadable == ASSUME Assumed PROVE Spec => []LogReadable
<1>1. Init => Tails
  BY DEF Init, Tails, LogReadable, Absent, Running
<1>2. IInv /\ Tails /\ [Next]_vars => Tails'
  BY TailsStep
<1>3. Tails => LogReadable
  BY DEF Tails
<1> QED
  BY <1>1, <1>2, <1>3, Invariant, PTL DEF Spec
=============================================================================
