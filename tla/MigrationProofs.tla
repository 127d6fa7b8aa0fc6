--------------------------- MODULE MigrationProofs --------------------------
(***************************************************************************)
(* Proofs about the executor of the migration, for any runs, manifests,    *)
(* crashes, lost answers and changes by others: that two runs never        *)
(* execute at once, and that no step takes effect twice or out of order,   *)
(* unless two runs recovered one stale lock.                               *)
(***************************************************************************)
EXTENDS Migration, FiniteSetTheorems, TLAPS

(* The lock. *)

\* No run is NoRun.
Named == NoRun \notin Runs

\* Where runs may overlap at most one of them recovers a lock.
OneRecovers == Concurrent => \A r, s \in Recoverers : r = s

\* Where a run may be.
Places == {"idle", "open", "stale", "evidence", "rename", "reread", "reopen", "stopped"} \cup Executing

\* A run's fields, of which the lock depends on its place and its hash.
Entry(v, p, h) ==
  /\ v = [pc |-> v.pc, hash |-> v.hash, records |-> v.records, seen |-> v.seen, event |-> v.event]
  /\ v.pc = p /\ v.hash = h

\* What is about to be renamed was the lock of a dead run, which is still in place
\* unless another run renamed it; nothing brings a renamed lock back.  While every
\* renamed file is the lock it is named for, the lock is that of the run that executes.
KeepInv ==
  /\ run = [r \in Runs |-> run[r]]
  /\ \A r \in Runs :
       /\ Entry(run[r], run[r].pc, run[r].hash)
       /\ run[r].pc \in Places /\ run[r].hash \in Runs \cup {NoRun}
       /\ run[r].hash # NoRun => r \in Recoverers
       /\ Intact /\ run[r].pc \in Executing => lock = r
       /\ run[r].pc \in {"evidence", "rename"} =>
            /\ run[r].hash # NoRun /\ run[run[r].hash].pc = "stopped"
            /\ Intact => lock = run[r].hash \/ evidence[run[r].hash] # NoRun
       /\ evidence[r] # NoRun => run[r].pc = "stopped" /\ lock # r
  /\ lock \in Runs \cup {NoRun} /\ written \subseteq Runs
  /\ evidence \in [Runs -> Runs \cup {NoRun}]
  /\ lock # NoRun => run[lock].pc \in Executing \cup {"stopped"}

\* The same while that is so.
LockInv == KeepInv /\ Intact

\* A run that may not overlap others is alone.
Alone == ~Concurrent => \A r, s \in Runs : Alive(r) /\ Alive(s) => r = s

\* Initially there is no lock, and nothing runs.
LEMMA InitLock == ASSUME Named, Init PROVE KeepInv /\ Intact /\ Alone
<1>1. /\ run = [r \in Runs |-> Fresh] /\ lock = NoRun /\ written = {}
      /\ evidence = [r \in Runs |-> NoRun]
  BY DEF Init
<1>2. Entry(Fresh, "idle", NoRun)
  BY DEF Fresh, Entry
<1>3. \A r \in Runs : run[r] = Fresh /\ run[r].pc = "idle" /\ run[r].hash = NoRun
  BY <1>1, <1>2 DEF Entry
<1>4. KeepInv
  BY <1>1, <1>2, <1>3 DEF KeepInv, Places, Executing
<1> QED BY <1>1, <1>3, <1>4 DEF Alone, Alive, Intact

\* A step of one run changes its own place and, of its other fields, none that the
\* lock depends on.
LEMMA Moves ==
  ASSUME Named, KeepInv, NEW r \in Runs, NEW v, NEW p \in Places, NEW h \in {run[r].hash, NoRun},
         run' = [run EXCEPT ![r] = v], Entry(v, p, h), UNCHANGED <<lock, evidence>>,
         written' \subseteq Runs,
         p \in Executing => run[r].pc \in Executing,
         run[r].pc \in Executing => p \in Executing \cup {"stopped"},
         p \in {"evidence", "rename"} =>
           /\ h # NoRun /\ h # r /\ run[h].pc = "stopped"
           /\ Intact => lock = h \/ evidence[h] # NoRun,
         run[r].pc # "stopped"
  PROVE  KeepInv'
<1>1. /\ run' = [x \in Runs |-> run'[x]] /\ \A x \in Runs : run'[x] = IF x = r THEN v ELSE run[x]
      /\ v.pc = p /\ v.hash = h
  BY DEF KeepInv, Entry
<1>2. lock' = lock /\ lock \in Runs \cup {NoRun} /\ evidence' = evidence /\ Intact' = Intact
  BY DEF KeepInv, Intact
<1>3. ASSUME NEW x \in Runs
      PROVE  /\ Entry(run'[x], run'[x].pc, run'[x].hash)
             /\ run'[x].pc \in Places /\ run'[x].hash \in Runs \cup {NoRun}
             /\ run'[x].hash # NoRun => x \in Recoverers
             /\ Intact /\ run'[x].pc \in Executing => lock' = x
             /\ evidence[x] # NoRun => run'[x].pc = "stopped" /\ lock # x
  BY <1>1, <1>2 DEF KeepInv
<1>4. ASSUME NEW x \in Runs, run'[x].pc \in {"evidence", "rename"}
      PROVE  /\ run'[x].hash # NoRun /\ run'[run'[x].hash].pc = "stopped"
             /\ Intact => lock = run'[x].hash \/ evidence[run'[x].hash] # NoRun
  <2>1. CASE x = r
    <3>1. h \in Runs /\ h # r
      BY <1>1, <1>4, <2>1 DEF KeepInv
    <3> QED BY <1>1, <1>4, <2>1, <3>1
  <2>2. CASE x # r
    <3>1. PICK y \in Runs : y = run[x].hash /\ run[y].pc = "stopped"
                            /\ (Intact => lock = y \/ evidence[y] # NoRun)
      BY <1>1, <1>4, <2>2 DEF KeepInv
    <3>2. y # r
      BY <3>1
    <3> QED BY <1>1, <2>2, <3>1, <3>2 DEF Named
  <2> QED BY <2>1, <2>2
<1>5. lock' # NoRun => run'[lock].pc \in Executing \cup {"stopped"}
  BY <1>1, <1>2 DEF KeepInv
<1> QED BY <1>1, <1>2, <1>3, <1>4, <1>5 DEF KeepInv

\* What such a record is.
LEMMA EntryIs ==
  ASSUME NEW p, NEW h, NEW a, NEW b, NEW c,
         NEW v \in [pc : {p}, hash : {h}, records : {a}, seen : {b}, event : {c}]
  PROVE  Entry(v, p, h)
BY DEF Entry

\* What an update of some of a run's fields makes of it.
LEMMA EntryOf ==
  ASSUME KeepInv, NEW r \in Runs
  PROVE  /\ run = [x \in Runs |-> run[x]]
         /\ run[r] \in [pc : {run[r].pc}, hash : {run[r].hash}, records : {run[r].records},
                        seen : {run[r].seen}, event : {run[r].event}]
<1>1. /\ run = [x \in Runs |-> run[x]]
      /\ run[r] = [pc |-> run[r].pc, hash |-> run[r].hash, records |-> run[r].records,
                   seen |-> run[r].seen, event |-> run[r].event]
  BY DEF KeepInv, Entry
<1>2. ASSUME NEW w, w = [pc |-> w.pc, hash |-> w.hash, records |-> w.records, seen |-> w.seen, event |-> w.event]
      PROVE  w \in [pc : {w.pc}, hash : {w.hash}, records : {w.records}, seen : {w.seen}, event : {w.event}]
  BY <1>2
<1> QED BY <1>1, <1>2

\* A step to another place.
LEMMA ToDoes ==
  ASSUME KeepInv, NEW r \in Runs, NEW p,
         run' = [run EXCEPT ![r].pc = p]
  PROVE  \E v : run' = [run EXCEPT ![r] = v] /\ Entry(v, p, run[r].hash)
<1>1. PICK w : w = run[r]
  OBVIOUS
<1>2. PICK v : v = [w EXCEPT !.pc = p]
  OBVIOUS
<1>3. v \in [pc : {p}, hash : {w.hash}, records : {w.records}, seen : {w.seen}, event : {w.event}]
  BY <1>1, <1>2, EntryOf
<1>4. run' = [run EXCEPT ![r] = v]
  BY <1>1, <1>2, EntryOf
<1> QED BY <1>1, <1>3, <1>4, EntryIs

\* A step that also reads or extends the records.
LEMMA ReadsDoes ==
  ASSUME KeepInv, NEW r \in Runs, NEW p, NEW q,
         run' = [run EXCEPT ![r].pc = p, ![r].records = q]
  PROVE  \E v : run' = [run EXCEPT ![r] = v] /\ Entry(v, p, run[r].hash)
<1>1. PICK w : w = run[r]
  OBVIOUS
<1>2. PICK v : v = [w EXCEPT !.pc = p, !.records = q]
  OBVIOUS
<1>3. v \in [pc : {p}, hash : {w.hash}, records : {q}, seen : {w.seen}, event : {w.event}]
  BY <1>1, <1>2, EntryOf
<1>4. run' = [run EXCEPT ![r] = v]
  BY <1>1, <1>2, EntryOf
<1> QED BY <1>1, <1>3, <1>4, EntryIs

\* A step that also looks at the remote.
LEMMA SeesDoes ==
  ASSUME KeepInv, NEW r \in Runs, NEW p, NEW s,
         run' = [run EXCEPT ![r].pc = p, ![r].seen = s]
  PROVE  \E v : run' = [run EXCEPT ![r] = v] /\ Entry(v, p, run[r].hash)
<1>1. PICK w : w = run[r]
  OBVIOUS
<1>2. PICK v : v = [w EXCEPT !.pc = p, !.seen = s]
  OBVIOUS
<1>3. v \in [pc : {p}, hash : {w.hash}, records : {w.records}, seen : {s}, event : {w.event}]
  BY <1>1, <1>2, EntryOf
<1>4. run' = [run EXCEPT ![r] = v]
  BY <1>1, <1>2, EntryOf
<1> QED BY <1>1, <1>3, <1>4, EntryIs

\* A step that goes on to append a record.
LEMMA AppendsDoes ==
  ASSUME KeepInv, NEW r \in Runs, NEW p, NEW s, NEW e,
         run' = [run EXCEPT ![r].pc = p, ![r].event = e, ![r].seen = s]
  PROVE  \E v : run' = [run EXCEPT ![r] = v] /\ Entry(v, p, run[r].hash)
<1>1. PICK w : w = run[r]
  OBVIOUS
<1>2. PICK v : v = [w EXCEPT !.pc = p, !.event = e, !.seen = s]
  OBVIOUS
<1>3. v \in [pc : {p}, hash : {w.hash}, records : {w.records}, seen : {s}, event : {e}]
  BY <1>1, <1>2, EntryOf
<1>4. run' = [run EXCEPT ![r] = v]
  BY <1>1, <1>2, EntryOf
<1> QED BY <1>1, <1>3, <1>4, EntryIs

\* A start, which is given a hash.
LEMMA StartDoes ==
  ASSUME KeepInv, NEW r \in Runs, NEW p, NEW h,
         run' = [run EXCEPT ![r].hash = h, ![r].pc = p]
  PROVE  \E v : run' = [run EXCEPT ![r] = v] /\ Entry(v, p, h)
<1>1. PICK w : w = run[r]
  OBVIOUS
<1>2. PICK v : v = [w EXCEPT !.hash = h, !.pc = p]
  OBVIOUS
<1>3. v \in [pc : {p}, hash : {h}, records : {w.records}, seen : {w.seen}, event : {w.event}]
  BY <1>1, <1>2, EntryOf
<1>4. run' = [run EXCEPT ![r] = v]
  BY <1>1, <1>2, EntryOf
<1> QED BY <1>1, <1>3, <1>4, EntryIs

\* A run goes on where the lock does not depend on it, or stays with its lock.
LEMMA GoesOn ==
  ASSUME Named, KeepInv, NEW r \in Runs, NEW p \in Places \ {"evidence", "rename"},
         UNCHANGED <<lock, evidence>>, written' \subseteq Runs, p \in Executing => run[r].pc \in Executing,
         run[r].pc \in Executing => p \in Executing \cup {"stopped"}, run[r].pc # "stopped",
         \/ run' = [run EXCEPT ![r].pc = p]
         \/ \E q : run' = [run EXCEPT ![r].pc = p, ![r].records = q]
         \/ \E s : run' = [run EXCEPT ![r].pc = p, ![r].seen = s]
         \/ \E s, e : run' = [run EXCEPT ![r].pc = p, ![r].event = e, ![r].seen = s]
  PROVE  KeepInv'
<1>1. PICK v : run' = [run EXCEPT ![r] = v] /\ Entry(v, p, run[r].hash)
  BY ToDoes, ReadsDoes, SeesDoes, AppendsDoes
<1> QED BY <1>1, Moves

\* The end of a life, with its lock or without.
LEMMA Stops ==
  ASSUME Named, KeepInv, NEW r \in Runs, run[r].pc # "stopped",
         run' = [run EXCEPT ![r] = [Fresh EXCEPT !.pc = "stopped"]],
         lock' = lock \/ (run[r].pc \in Executing /\ lock' = NoRun),
         UNCHANGED <<written, evidence>>
  PROVE  KeepInv'
<1> DEFINE v == [Fresh EXCEPT !.pc = "stopped"]
<1>1. v \in [pc : {"stopped"}, hash : {NoRun}, records : {<<>>}, seen : {ApprovedOld}, event : {"none"}]
  BY DEF Fresh
<1>2. Entry(v, "stopped", NoRun)
  <2> HIDE DEF v
  <2> QED BY <1>1, EntryIs
<1>3. run' = [run EXCEPT ![r] = v]
  OBVIOUS
<1> HIDE DEF v
<1>4. CASE lock' = lock
  BY <1>2, <1>3, <1>4, Moves DEF Places, Executing, KeepInv
<1>5. CASE run[r].pc \in Executing /\ lock' = NoRun
  <2>1. run' = [x \in Runs |-> run'[x]] /\ \A x \in Runs : run'[x] = IF x = r THEN v ELSE run[x]
    BY <1>3 DEF KeepInv
  <2>2. v.pc = "stopped" /\ v.hash = NoRun /\ evidence' = evidence /\ Intact' = Intact
    BY <1>2 DEF Entry, Intact
  <2>3. \A x \in Runs : Intact /\ x # r => run[x].pc \notin Executing
    BY <1>5 DEF KeepInv
  <2>4. /\ "stopped" \in Places /\ "stopped" \notin Executing \cup {"evidence", "rename"}
        /\ run[r].pc \notin {"evidence", "rename"}
    BY <1>5 DEF Places, Executing
  <2>5. ASSUME NEW x \in Runs
        PROVE  /\ Entry(run'[x], run'[x].pc, run'[x].hash)
               /\ run'[x].pc \in Places /\ run'[x].hash \in Runs \cup {NoRun}
               /\ run'[x].hash # NoRun => x \in Recoverers
               /\ Intact => run'[x].pc \notin Executing
               /\ evidence[x] # NoRun => run'[x].pc = "stopped" /\ lock' # x
    BY <1>2, <1>5, <2>1, <2>2, <2>3, <2>4 DEF KeepInv, Named
  <2>6. ASSUME NEW x \in Runs, run'[x].pc \in {"evidence", "rename"}
        PROVE  /\ run'[x].hash # NoRun /\ run'[run'[x].hash].pc = "stopped"
               /\ Intact => evidence[run'[x].hash] # NoRun
    <3>1. x # r /\ run'[x] = run[x]
      BY <2>1, <2>2, <2>4, <2>6
    <3>2. PICK y \in Runs : y = run[x].hash /\ run[y].pc = "stopped"
                            /\ (Intact => lock = y \/ evidence[y] # NoRun)
      BY <2>6, <3>1 DEF KeepInv
    <3>3. y # r /\ (Intact => lock = r)
      BY <1>5, <3>2 DEF KeepInv
    <3> QED BY <2>1, <3>1, <3>2, <3>3 DEF Named
  <2> QED BY <1>5, <2>1, <2>2, <2>5, <2>6 DEF KeepInv
<1> QED BY <1>4, <1>5

\* A run starts outside of the lock.
LEMMA StartStep ==
  ASSUME Named, KeepInv, NEW r \in Runs, Start(r)
  PROVE  KeepInv'
<1>1. PICK h, p : /\ h \in Runs \cup {NoRun} /\ (h # NoRun => r \in Recoverers) /\ p \in {"open", "stopped"}
                  /\ run' = [run EXCEPT ![r].hash = h, ![r].pc = p]
                  /\ run[r].pc = "idle" /\ UNCHANGED <<lock, written, evidence>>
  BY DEF Start, At, Durables, KeepInv
<1>2. PICK v : run' = [run EXCEPT ![r] = v] /\ Entry(v, p, h)
  BY <1>1, StartDoes
<1>3. /\ run' = [x \in Runs |-> run'[x]] /\ \A x \in Runs : run'[x] = IF x = r THEN v ELSE run[x]
      /\ v.pc = p /\ v.hash = h
  BY <1>2 DEF KeepInv, Entry
<1>4. \A x \in Runs : run[x].pc = "stopped" => run'[x] = run[x]
  BY <1>1, <1>3
<1>5. Intact' = Intact
  BY <1>1 DEF Intact
<1>6. p \in Places /\ p \notin Executing \cup {"evidence", "rename"}
  BY <1>1 DEF Places, Executing
<1>7. ASSUME NEW x \in Runs
      PROVE  /\ Entry(run'[x], run'[x].pc, run'[x].hash)
             /\ run'[x].pc \in Places /\ run'[x].hash \in Runs \cup {NoRun}
             /\ run'[x].hash # NoRun => x \in Recoverers
             /\ Intact /\ run'[x].pc \in Executing => lock = x
             /\ evidence[x] # NoRun => run'[x].pc = "stopped" /\ lock # x
  BY <1>1, <1>2, <1>3, <1>4, <1>6 DEF KeepInv
<1>8. ASSUME NEW x \in Runs, run'[x].pc \in {"evidence", "rename"}
      PROVE  /\ run'[x].hash # NoRun /\ run'[run'[x].hash].pc = "stopped"
             /\ Intact => lock = run'[x].hash \/ evidence[run'[x].hash] # NoRun
  <2>1. x # r /\ run'[x] = run[x]
    BY <1>3, <1>6, <1>8
  <2> QED BY <1>4, <1>8, <2>1 DEF KeepInv
<1>9. lock # NoRun => run'[lock].pc \in Executing \cup {"stopped"}
  BY <1>1, <1>3, <1>4 DEF KeepInv, Executing
<1> QED BY <1>1, <1>3, <1>5, <1>7, <1>8, <1>9 DEF KeepInv

\* The lock is created by nobody while it names a file.
LEMMA OpenStep ==
  ASSUME Named, KeepInv, NEW r \in Runs, Open(r) \/ Reopen(r)
  PROVE  KeepInv'
<1>1. PICK refused \in {"stale", "stopped"} : OpenLock(r, "open", refused) \/ OpenLock(r, "reopen", refused)
  BY DEF Open, Reopen
<1>2. CASE lock = NoRun
  <2>1. /\ lock' = r /\ run' = [run EXCEPT ![r].pc = "write"] /\ UNCHANGED <<written, evidence>>
        /\ run[r].pc \in {"open", "reopen"}
    BY <1>1, <1>2 DEF OpenLock, To, At
  <2>2. PICK v : run' = [run EXCEPT ![r] = v] /\ Entry(v, "write", run[r].hash)
    BY <2>1, ToDoes
  <2>3. /\ run' = [x \in Runs |-> run'[x]] /\ \A x \in Runs : run'[x] = IF x = r THEN v ELSE run[x]
        /\ v.pc = "write" /\ v.hash = run[r].hash /\ Intact' = Intact
    BY <2>1, <2>2 DEF KeepInv, Entry, Intact
  <2>4. \A x \in Runs : Intact => run[x].pc \notin Executing
    BY <1>2 DEF KeepInv, Named
  <2>5. "write" \in Places \cap Executing /\ "write" \notin {"evidence", "rename"}
    BY DEF Places, Executing
  <2>6. ASSUME NEW x \in Runs
        PROVE  /\ Entry(run'[x], run'[x].pc, run'[x].hash)
               /\ run'[x].pc \in Places /\ run'[x].hash \in Runs \cup {NoRun}
               /\ run'[x].hash # NoRun => x \in Recoverers
               /\ Intact /\ run'[x].pc \in Executing => x = r
               /\ evidence[x] # NoRun => run'[x].pc = "stopped" /\ r # x
    BY <2>1, <2>2, <2>3, <2>4, <2>5 DEF KeepInv
  <2>7. ASSUME NEW x \in Runs, run'[x].pc \in {"evidence", "rename"}
        PROVE  /\ run'[x].hash # NoRun /\ run'[run'[x].hash].pc = "stopped"
               /\ Intact => evidence[run'[x].hash] # NoRun
    <3>1. x # r /\ run'[x] = run[x]
      BY <2>3, <2>5, <2>7
    <3>2. PICK y \in Runs : y = run[x].hash /\ run[y].pc = "stopped"
                            /\ (Intact => lock = y \/ evidence[y] # NoRun)
      BY <2>7, <3>1 DEF KeepInv
    <3>3. y # r /\ y # NoRun
      BY <2>1, <3>2 DEF Named
    <3> QED BY <1>2, <2>3, <3>1, <3>2, <3>3
  <2> QED BY <2>1, <2>3, <2>5, <2>6, <2>7 DEF KeepInv
<1>3. CASE lock # NoRun
  <2>1. /\ lock' = lock /\ run' = [run EXCEPT ![r].pc = refused] /\ UNCHANGED <<written, evidence>>
        /\ run[r].pc \in {"open", "reopen"}
    BY <1>1, <1>3 DEF OpenLock, To, At
  <2> QED BY <2>1, GoesOn DEF Places, Executing, KeepInv
<1> QED BY <1>2, <1>3

\* A stale lock is that of a dead run ...
LEMMA StaleStep ==
  ASSUME Named, KeepInv, NEW r \in Runs, ReadStale(r) \/ CheckEvidence(r) \/ Reread(r)
  PROVE  KeepInv'
<1>1. PICK p \in {"evidence", "rename", "reopen", "stopped"} :
        /\ run' = [run EXCEPT ![r].pc = p] /\ UNCHANGED <<lock, written, evidence>>
        /\ run[r].pc \in {"stale", "evidence", "reread"}
        /\ p = "evidence" => lock \in written /\ lock = run[r].hash /\ ~Alive(lock) /\ run[r].pc = "stale"
        /\ p = "rename" => run[r].pc = "evidence"
  BY DEF ReadStale, CheckEvidence, Reread, To, At, Durables
<1>2. CASE p \in {"evidence", "rename"}
  <2>1. PICK v : run' = [run EXCEPT ![r] = v] /\ Entry(v, p, run[r].hash)
    BY <1>1, ToDoes
  <2>2. p = "evidence" => lock \in Runs /\ run[lock].pc = "stopped"
    BY <1>1 DEF KeepInv, Alive, Named, Executing
  <2>3. /\ run[r].hash # NoRun /\ run[r].hash \in Runs /\ run[run[r].hash].pc = "stopped"
        /\ Intact => lock = run[r].hash \/ evidence[run[r].hash] # NoRun
    BY <1>1, <1>2, <2>2 DEF KeepInv, Named
  <2>4. p \in Places /\ p \notin Executing /\ run[r].pc # "stopped" /\ written' \subseteq Runs
    BY <1>1, <1>2 DEF Places, Executing, KeepInv
  <2>5. run[r].pc \notin Executing /\ run[r].hash # r
    BY <1>1, <2>3, <2>4 DEF Executing
  <2> QED BY <1>1, <2>1, <2>3, <2>4, <2>5, Moves
<1>3. CASE p \notin {"evidence", "rename"}
  BY <1>1, <1>3, GoesOn DEF Places, Executing, KeepInv
<1> QED BY <1>2, <1>3

\* ... which its renaming takes away, or the lock that was created since, and then
\* the renamed file is not the one it is named for.
LEMMA RenameStep ==
  ASSUME Named, KeepInv, NEW r \in Runs, RenameLock(r)
  PROVE  KeepInv' /\ (Intact' => Intact)
<1>1. CASE lock = NoRun
  <2>1. /\ run' = [run EXCEPT ![r].pc = "stopped"] /\ UNCHANGED <<lock, evidence, written>>
        /\ run[r].pc = "rename"
    BY <1>1 DEF RenameLock, To, At
  <2>2. Intact' = Intact
    BY <2>1 DEF Intact
  <2> QED BY <2>1, <2>2, GoesOn DEF Places, Executing, KeepInv
<1>2. CASE lock # NoRun
  <2>1. PICK h \in Runs : /\ h = run[r].hash /\ run[h].pc = "stopped"
                          /\ Intact => lock = h \/ evidence[h] # NoRun
    BY DEF RenameLock, At, KeepInv
  <2>2. /\ run[r].pc = "rename" /\ lock' = NoRun /\ run' = [run EXCEPT ![r].pc = "reread"]
        /\ evidence' = [evidence EXCEPT ![h] = lock] /\ UNCHANGED written /\ lock \in Runs
    BY <1>2, <2>1 DEF RenameLock, To, At, KeepInv
  <2>3. PICK v : run' = [run EXCEPT ![r] = v] /\ Entry(v, "reread", run[r].hash)
    BY <2>2, ToDoes
  <2>4. /\ run' = [x \in Runs |-> run'[x]] /\ \A x \in Runs : run'[x] = IF x = r THEN v ELSE run[x]
        /\ v.pc = "reread" /\ v.hash = run[r].hash
    BY <2>3 DEF KeepInv, Entry
  <2>5. /\ evidence' \in [Runs -> Runs \cup {NoRun}] /\ evidence'[h] = lock
        /\ \A x \in Runs : x # h => evidence'[x] = evidence[x]
    BY <2>2 DEF KeepInv
  <2>6. Intact' => lock = h /\ Intact
    <3>1. ASSUME Intact' PROVE lock = h
      BY <1>2, <2>5, <3>1 DEF Intact
    <3>2. lock = h => evidence[h] = NoRun
      BY DEF KeepInv
    <3> QED BY <2>5, <3>1, <3>2 DEF Intact
  <2>7. "reread" \in Places /\ "reread" \notin Executing \cup {"evidence", "rename"}
    BY DEF Places, Executing
  <2>8. ASSUME Intact', NEW x \in Runs PROVE run[x].pc \notin Executing
    BY <2>1, <2>6, <2>8 DEF KeepInv, Executing
  <2>9. ASSUME NEW x \in Runs
        PROVE  /\ Entry(run'[x], run'[x].pc, run'[x].hash)
               /\ run'[x].pc \in Places /\ run'[x].hash \in Runs \cup {NoRun}
               /\ run'[x].hash # NoRun => x \in Recoverers
               /\ Intact' => run'[x].pc \notin Executing
               /\ evidence'[x] # NoRun => run'[x].pc = "stopped"
    BY <2>1, <2>2, <2>3, <2>4, <2>5, <2>7, <2>8 DEF KeepInv
  <2>10. ASSUME NEW x \in Runs, run'[x].pc \in {"evidence", "rename"}
         PROVE  /\ run'[x].hash # NoRun /\ run'[run'[x].hash].pc = "stopped"
                /\ Intact' => evidence'[run'[x].hash] # NoRun
    <3>1. x # r /\ run'[x] = run[x]
      BY <2>4, <2>7, <2>10
    <3>2. PICK y \in Runs : y = run[x].hash /\ run[y].pc = "stopped"
                            /\ (Intact => lock = y \/ evidence[y] # NoRun)
      BY <2>10, <3>1 DEF KeepInv
    <3>3. y # r
      BY <2>2, <3>2
    <3> QED BY <1>2, <2>4, <2>5, <2>6, <3>1, <3>2, <3>3 DEF Named
  <2> QED BY <2>2, <2>4, <2>5, <2>6, <2>9, <2>10 DEF KeepInv, Named
<1> QED BY <1>1, <1>2

\* Where the steps under the lock go.
LEMMA WorkMoves ==
  ASSUME NEW r \in Runs,
         \/ WriteLock(r) \/ LoadJournal(r) \/ Validate(r) \/ Inspect(r) \/ Decide(r) \/ Execute(r)
         \/ After(r) \/ AppendRecord(r) \/ VerifyPages(r) \/ Final(r) \/ Reject(r) \/ AppendFails(r)
  PROVE  \E p \in Executing :
           \/ run' = [run EXCEPT ![r].pc = p]
           \/ \E q : run' = [run EXCEPT ![r].pc = p, ![r].records = q]
           \/ \E s : run' = [run EXCEPT ![r].pc = p, ![r].seen = s]
           \/ \E s, e : run' = [run EXCEPT ![r].pc = p, ![r].event = e, ![r].seen = s]
<1>1. CASE WriteLock(r) \/ Decide(r) \/ Execute(r) \/ VerifyPages(r) \/ Reject(r) \/ AppendFails(r)
  BY <1>1 DEF WriteLock, Decide, Execute, VerifyPages, Reject, AppendFails, To, Appends, Executing
<1>2. CASE LoadJournal(r)
  BY <1>2 DEF LoadJournal, Executing
<1>3. CASE AppendRecord(r)
  <2>1. PICK p, q : /\ run' = [run EXCEPT ![r].pc = p, ![r].records = q]
                    /\ p \in {"unlink", "decide", NextStep(Proof(q))}
    <3> DEFINE event == run[r].event
               id == IF event = "run-verified" THEN "none" ELSE StepOf(r)
               records == Append(run[r].records, Record(Len(run[r].records), event, id, run[r].seen))
               exists == Len(records) = 1 /\ (journal # <<>> \/ torn)
               next == IF exists \/ event = "run-verified" THEN "unlink"
                       ELSE IF event = "step-started" THEN "decide" ELSE NextStep(Proof(records))
    <3>1. run' = [run EXCEPT ![r].pc = next, ![r].records = records]
      BY <1>3 DEF AppendRecord
    <3> HIDE DEF records, exists, event
    <3>2. next \in {"unlink", "decide", NextStep(Proof(records))}
      OBVIOUS
    <3> HIDE DEF next
    <3> QED BY <3>1, <3>2
  <2>2. p \in Executing
    BY <2>1 DEF NextStep, Executing
  <2> QED BY <2>1, <2>2
<1>4. CASE Validate(r)
  BY <1>4 DEF Validate, Appends, GoTo, To, NextStep, Executing
<1>5. CASE Inspect(r)
  BY <1>5 DEF Inspect, Appends, To, Executing
<1>6. CASE After(r) \/ Final(r)
  BY <1>6 DEF After, Final, Appends, To, Executing
<1> QED BY <1>1, <1>2, <1>3, <1>4, <1>5, <1>6

\* The steps under the lock.
LEMMA WorkStep ==
  ASSUME Named, KeepInv, NEW r \in Runs,
         \/ WriteLock(r) \/ LoadJournal(r) \/ Validate(r) \/ Inspect(r) \/ Decide(r) \/ Execute(r)
         \/ After(r) \/ AppendRecord(r) \/ VerifyPages(r) \/ Final(r) \/ Reject(r) \/ AppendFails(r)
  PROVE  KeepInv'
<1>1. run[r].pc \in Executing /\ UNCHANGED <<lock, evidence>>
  BY DEF WriteLock, LoadJournal, Validate, Inspect, Decide, Execute, After, AppendRecord, VerifyPages,
     Final, Reject, AppendFails, At, Durables, Executing
<1>2. written' \subseteq Runs
  BY DEF WriteLock, LoadJournal, Validate, Inspect, Decide, Execute, After, AppendRecord, VerifyPages,
     Final, Reject, AppendFails, Durables, KeepInv
<1>3. \E p \in Executing :
        \/ run' = [run EXCEPT ![r].pc = p]
        \/ \E q : run' = [run EXCEPT ![r].pc = p, ![r].records = q]
        \/ \E s : run' = [run EXCEPT ![r].pc = p, ![r].seen = s]
        \/ \E s, e : run' = [run EXCEPT ![r].pc = p, ![r].event = e, ![r].seen = s]
  BY WorkMoves
<1> QED BY <1>1, <1>2, <1>3, GoesOn DEF Places, Executing

\* A step of one run changes no other.
LEMMA OneMoves ==
  ASSUME KeepInv, NEW r \in Runs, Start(r) \/ Acquire(r) \/ Work(r) \/ Fail(r)
  PROVE  \A x \in Runs : x # r => run'[x] = run[x]
<1>1. \E v : run' = [run EXCEPT ![r] = v]
  <2>1. CASE Start(r)
    BY <2>1, EntryOf DEF Start
  <2>2. CASE Acquire(r)
    BY <2>2 DEF Acquire, Open, ReadStale, CheckEvidence, RenameLock, Reread, Reopen, OpenLock, WriteLock, To
  <2>3. CASE Work(r)
    BY <2>3 DEF Work, LoadJournal, Validate, Inspect, Decide, Execute, After, AppendRecord, VerifyPages, Final, Unlink, To, GoTo, Appends
  <2>4. CASE Fail(r)
    BY <2>4 DEF Fail, Reject, AppendFails, Crash, To
  <2> QED BY <2>1, <2>2, <2>3, <2>4
<1> QED BY <1>1 DEF KeepInv

\* A run is about to rename a lock only when it has found no file of that name.
LEMMA RenamesNext ==
  ASSUME Named, KeepInv, NEW r \in Runs, Start(r) \/ Acquire(r) \/ Work(r) \/ Fail(r),
         run'[r].pc = "rename"
  PROVE  run'[r].hash = run[r].hash /\ evidence[run[r].hash] = NoRun
<1>1. CASE CheckEvidence(r)
  <2>1. PICK p \in {"rename", "stopped"} :
          run' = [run EXCEPT ![r].pc = p] /\ (p = "rename" => evidence[run[r].hash] = NoRun)
    BY <1>1 DEF CheckEvidence, To
  <2>2. PICK v : run' = [run EXCEPT ![r] = v] /\ Entry(v, p, run[r].hash)
    BY <2>1, ToDoes
  <2>3. run'[r].pc = p /\ run'[r].hash = run[r].hash
    BY <2>2 DEF KeepInv, Entry
  <2> QED BY <2>1, <2>3
<1>2. CASE Start(r)
  <2>1. PICK h, p : p \in {"open", "stopped"} /\ run' = [run EXCEPT ![r].hash = h, ![r].pc = p]
    BY <1>2 DEF Start
  <2>2. PICK v : run' = [run EXCEPT ![r] = v] /\ Entry(v, p, h)
    BY <2>1, StartDoes
  <2>3. run'[r].pc = p
    BY <2>2 DEF KeepInv, Entry
  <2> QED BY <2>1, <2>3
<1>3. CASE Open(r) \/ Reopen(r) \/ ReadStale(r) \/ RenameLock(r) \/ Reread(r)
  <2>1. PICK p : p # "rename" /\ run' = [run EXCEPT ![r].pc = p]
    BY <1>3 DEF Open, Reopen, OpenLock, ReadStale, RenameLock, Reread, To
  <2>2. PICK v : run' = [run EXCEPT ![r] = v] /\ Entry(v, p, run[r].hash)
    BY <2>1, ToDoes
  <2>3. run'[r].pc = p
    BY <2>2 DEF KeepInv, Entry
  <2> QED BY <2>1, <2>3
<1>4. CASE \/ WriteLock(r) \/ LoadJournal(r) \/ Validate(r) \/ Inspect(r) \/ Decide(r) \/ Execute(r)
           \/ After(r) \/ AppendRecord(r) \/ VerifyPages(r) \/ Final(r) \/ Reject(r) \/ AppendFails(r)
  <2>1. PICK p \in Executing :
          \/ run' = [run EXCEPT ![r].pc = p]
          \/ \E q : run' = [run EXCEPT ![r].pc = p, ![r].records = q]
          \/ \E s : run' = [run EXCEPT ![r].pc = p, ![r].seen = s]
          \/ \E s, e : run' = [run EXCEPT ![r].pc = p, ![r].event = e, ![r].seen = s]
    BY <1>4, WorkMoves
  <2>2. PICK v : run' = [run EXCEPT ![r] = v] /\ Entry(v, p, run[r].hash)
    BY <2>1, ToDoes, ReadsDoes, SeesDoes, AppendsDoes
  <2>3. run'[r].pc = p
    BY <2>2 DEF KeepInv, Entry
  <2> QED BY <2>1, <2>3 DEF Executing
<1>5. CASE Unlink(r) \/ Crash(r)
  <2>1. run'[r] = [Fresh EXCEPT !.pc = "stopped"]
    BY <1>5 DEF Unlink, Crash, KeepInv
  <2> QED BY <2>1 DEF Fresh
<1> QED BY <1>1, <1>2, <1>3, <1>4, <1>5 DEF Acquire, Work, Fail

\* A run starts where no other lives, if it may not overlap one; no other step
\* begins a life.
LEMMA AloneStays ==
  ASSUME Named, KeepInv, Alone, NEW r \in Runs, Start(r) \/ Acquire(r) \/ Work(r) \/ Fail(r)
  PROVE  Alone'
<1>1. \A x \in Runs : x # r => run'[x] = run[x]
  BY OneMoves
<1>2. Alive(r) \/ (Start(r) /\ ~Alive(r) /\ (Concurrent \/ \A o \in Runs : ~Alive(o)))
  <2>1. CASE Start(r)
    BY <2>1 DEF Start, At, Alive
  <2>2. CASE Acquire(r)
    BY <2>2 DEF Acquire, Open, ReadStale, CheckEvidence, RenameLock, Reread, Reopen, OpenLock, WriteLock, At, Alive
  <2>3. CASE Work(r)
    BY <2>3 DEF Work, LoadJournal, Validate, Inspect, Decide, Execute, After, AppendRecord, VerifyPages, Final, Unlink, At, Alive
  <2>4. CASE Fail(r)
    BY <2>4 DEF Fail, Reject, AppendFails, Crash, At, Alive
  <2> QED BY <2>1, <2>2, <2>3, <2>4
<1> QED BY <1>1, <1>2 DEF Alone, Alive

\* Every step keeps the invariant, and none makes good a lock that was renamed for
\* another.
LEMMA KeepStep ==
  ASSUME Named, KeepInv, [Next]_vars PROVE KeepInv' /\ (Intact' => Intact)
<1>1. CASE UNCHANGED <<run, lock, written, evidence>>
  BY <1>1 DEF KeepInv, Intact
<1>2. ASSUME NEW r \in Runs, Unlink(r) \/ Crash(r) PROVE KeepInv'
  BY <1>2, Stops DEF Unlink, Crash, Alive, At, Executing
<1>3. ASSUME NEW r \in Runs, Start(r) \/ Acquire(r) \/ Work(r) \/ Fail(r)
      PROVE  KeepInv' /\ (Intact' => Intact)
  <2>1. CASE RenameLock(r)
    BY <2>1, RenameStep
  <2>2. CASE ~RenameLock(r)
    <3>1. KeepInv'
      BY <1>2, <1>3, <2>2, StartStep, OpenStep, StaleStep, WorkStep DEF Acquire, Work, Fail
    <3>2. UNCHANGED evidence
      BY <1>3, <2>2 DEF Start, Acquire, Open, OpenLock, ReadStale, CheckEvidence, Reread, Reopen, WriteLock, Work, LoadJournal,
         Validate, Inspect, Decide, Execute, After, AppendRecord, VerifyPages, Final, Unlink, Fail,
         Reject, AppendFails, Crash, Durables
    <3> QED BY <3>1, <3>2 DEF Intact
  <2> QED BY <2>1, <2>2
<1> QED BY <1>1, <1>3 DEF Next, AutoClose, Publish, Interfere, vars

\* So the invariant holds.
LEMMA LockInvariance == ASSUME Named PROVE Spec => []KeepInv
<1>1. Init => KeepInv
  BY InitLock
<1>2. KeepInv /\ [Next]_vars => KeepInv'
  BY KeepStep
<1> QED BY <1>1, <1>2, PTL DEF Spec

\* Two runs never execute at once, whatever crashes and whoever recovers a stale lock,
\* unless two runs recovered the same one (withExclusive).
THEOREM OneExecutes == ASSUME Named PROVE Spec => []ExclusiveWhileIntact
<1>1. KeepInv => ExclusiveWhileIntact
  <2> SUFFICES ASSUME KeepInv, Intact PROVE ExclusiveExecutor
    BY DEF ExclusiveWhileIntact
  <2>1. Executors \subseteq {lock}
    BY DEF KeepInv, Executors
  <2>2. IsFiniteSet({lock}) /\ Cardinality({lock}) = 1
    BY FS_Singleton
  <2> QED BY <2>1, <2>2, FS_Subset DEF ExclusiveExecutor
<1> QED BY <1>1, LockInvariance, PTL

\* Who is about to rename a lock has found no file of that name, and only it makes one.
Unrenamed == \A r \in Runs : run[r].pc = "rename" => evidence[run[r].hash] = NoRun

\* Runs that do not overlap, or of which one recovers locks, never rename another's.
LEMMA LocksStayIntact == ASSUME Named, OneRecovers PROVE Spec => []Intact
<1>1. Init => Intact /\ Alone /\ Unrenamed
  <2>1. Init => \A r \in Runs : run[r].pc # "rename"
    BY DEF Init, Fresh
  <2> QED BY <2>1, InitLock DEF Unrenamed
<1>2. ASSUME KeepInv, Intact, Alone, Unrenamed, [Next]_vars PROVE Intact' /\ Alone' /\ Unrenamed'
  <2>1. CASE UNCHANGED <<run, lock, evidence>>
    BY <1>2, <2>1 DEF Intact, Alone, Alive, Unrenamed
  <2>2. ASSUME NEW r \in Runs, Start(r) \/ Acquire(r) \/ Work(r) \/ Fail(r)
        PROVE  Intact' /\ Alone' /\ Unrenamed'
    <3>1. Alone'
      BY <1>2, <2>2, AloneStays
    <3>2. CASE RenameLock(r)
      <4>1. PICK h \in Runs : h = run[r].hash /\ evidence[h] = NoRun /\ (lock = h \/ lock = NoRun)
        BY <1>2, <3>2 DEF RenameLock, At, KeepInv, Unrenamed
      <4>2. evidence' = [evidence EXCEPT ![h] = h] \/ evidence' = evidence
        BY <1>2, <3>2, <4>1 DEF RenameLock
      <4>3. \A x \in Runs : x # r => run[x].pc # "rename"
        <5>1. run[r].pc = "rename" /\ r \in Recoverers
          BY <1>2, <3>2, <4>1 DEF RenameLock, At, KeepInv, Named
        <5>2. \A x \in Runs : run[x].pc = "rename" => x \in Recoverers
          BY <1>2 DEF KeepInv
        <5> QED BY <1>2, <5>1, <5>2 DEF OneRecovers, Alone, Alive
      <4>4. /\ \A x \in Runs : x # r => run'[x] = run[x]
            /\ run'[r].pc # "rename"
        <5>1. PICK p \in {"stopped", "reread"} : run' = [run EXCEPT ![r].pc = p]
          BY <3>2 DEF RenameLock, To
        <5>2. PICK v : run' = [run EXCEPT ![r] = v] /\ Entry(v, p, run[r].hash)
          BY <1>2, <5>1, ToDoes
        <5> QED BY <1>2, <5>2 DEF KeepInv, Entry
      <4>5. Unrenamed'
        BY <4>3, <4>4 DEF Unrenamed
      <4> QED BY <1>2, <3>1, <4>1, <4>2, <4>5 DEF Intact, KeepInv
    <3>3. CASE ~RenameLock(r)
      <4>1. UNCHANGED evidence
        BY <2>2, <3>3 DEF Start, Acquire, Open, OpenLock, ReadStale, CheckEvidence, Reread, Reopen, WriteLock, Work,
           LoadJournal, Validate, Inspect, Decide, Execute, After, AppendRecord, VerifyPages, Final,
           Unlink, Fail, Reject, AppendFails, Crash, Durables
      <4>2. /\ \A x \in Runs : x # r => run'[x] = run[x]
            /\ run'[r].pc = "rename" => run'[r].hash = run[r].hash /\ evidence[run[r].hash] = NoRun
        BY <1>2, <2>2, OneMoves, RenamesNext
      <4>3. Unrenamed'
        BY <1>2, <4>1, <4>2 DEF Unrenamed
      <4> QED BY <1>2, <3>1, <4>1, <4>3 DEF Intact
    <3> QED BY <3>2, <3>3
  <2> QED BY <1>2, <2>1, <2>2 DEF Next, AutoClose, Publish, Interfere, vars
<1> QED BY <1>1, <1>2, LockInvariance, PTL DEF Spec

-----------------------------------------------------------------------------
(* The order of the steps. *)

\* The manifest lists pull requests and settings, and no pull request has the name of a push.
Listed == /\ Pulls \in Seq(PullSet) /\ Components \in Seq(ComponentSet)
          /\ PullSet \cap {"user-site-main", "source-refs", "rename"} = {}

\* What may take effect.
StepSet == {"user-site-main", "source-refs", "rename"} \cup PullSet \cup ComponentSet

\* The steps that the journal says are done, and whether one is under way.
Done == Proof(journal).done
Pending == Proof(journal).pending

\* What took effect are steps in the approved order, the last of them at most the
\* one of this number.
Ordered(b) ==
  \E h \in [DOMAIN applied -> DOMAIN Steps] :
    /\ \A i \in DOMAIN applied : h[i] <= b /\ applied[i] = Steps[h[i]]
    /\ \A i, j \in DOMAIN applied : i < j => h[i] < h[j]

\* Somebody else has changed what no run accepts.
Spoiled ==
  remote.userSite = "other" \/ remote.sourceRefs = "other" \/ \E c \in ComponentSet : remote.component[c] = "other"

\* The step under way has taken effect, or the remote is no longer acceptable.
Touched == Satisfied(Steps[Done + 1], Classified(remote)) \/ Spoiled

\* Whatever took effect is done, or it is the step under way and the remote shows it.
AppliedOK == Ordered(Done) \/ (Pending /\ Touched /\ Ordered(Done + 1))

\* Records are appended, and a step is under way only while one is left.
JournalOK ==
  /\ journal \in Seq(ToSet(journal)) /\ applied \in Seq(StepSet)
  /\ Pending => Done < Len(Steps)

\* The places past the journal's loading.
Working == {"validate", "inspect", "decide", "execute", "after", "append", "pages", "final"}

\* What a run is about to append follows from the journal.
AppendOK(e) ==
  \/ e = "step-started" /\ ~Pending /\ Done < Len(Steps)
  \/ e \in {"step-completed", "step-recovered"} /\ Pending
  \/ e = "run-verified" /\ Done >= Len(Steps)

\* A run that works knows the journal; it executes only what has not taken effect.
RunOK(v) ==
  /\ v.pc \in Working => v.records = journal
  /\ v.pc \in {"inspect", "decide", "execute", "after"} => Done < Len(Steps)
  /\ v.pc \in {"decide", "execute", "after"} => Pending
  /\ v.pc \in {"pages", "final"} => Done >= Len(Steps)
  /\ v.pc = "append" => AppendOK(v.event)
  /\ v.pc = "decide" => Satisfied(Steps[Done + 1], v.seen) \/ Ordered(Done)
  /\ v.pc = "execute" => Ordered(Done)

\* The inductive invariant of the order.
OrderInv == AppliedOK /\ remote \in Remote /\ JournalOK /\ \A r \in Runs : RunOK(run[r])

-----------------------------------------------------------------------------
(* What a record adds to the journal, and what the steps are. *)

\* The steps are numbered: three pushes, the pull requests, the settings.
LEMMA StepsAre == ASSUME Listed PROVE Steps \in Seq(StepSet)
<1>1. /\ <<"user-site-main", "source-refs", "rename">> \in Seq(StepSet)
      /\ Pulls \in Seq(StepSet) /\ Components \in Seq(StepSet)
  BY DEF Listed, StepSet
<1> QED BY <1>1 DEF Steps

\* A record that says that a step is done counts one more.
LEMMA ProofGrows ==
  ASSUME NEW S, NEW s \in Seq(S), NEW x
  PROVE  /\ Proof(s).done \in Nat
         /\ Proof(Append(s, x)).pending <=> x.event = "step-started"
         /\ Proof(Append(s, x)).done =
              Proof(s).done + IF x.event \in {"step-completed", "step-recovered"} THEN 1 ELSE 0
<1> DEFINE t == Append(s, x)
           new == Len(s) + 1
<1>1. /\ Len(s) \in Nat /\ DOMAIN s = 1..Len(s) /\ DOMAIN t = 1..new
      /\ t[new] = x /\ \A i \in 1..Len(s) : t[i] = s[i]
      /\ Len(t) = new /\ t # <<>>
  OBVIOUS
<1> HIDE DEF t
<1>2. Finished(t) = IF x.event \in {"step-completed", "step-recovered"} THEN Finished(s) \cup {new} ELSE Finished(s)
  BY <1>1 DEF Finished
<1>3. IsFiniteSet(Finished(s)) /\ new \notin Finished(s)
  <2>1. Finished(s) \subseteq 1..Len(s) /\ IsFiniteSet(1..Len(s))
    BY <1>1, FS_Interval DEF Finished
  <2> QED BY <1>1, <2>1, FS_Subset
<1>4. Cardinality(Finished(s)) \in Nat /\ Cardinality(Finished(s) \cup {new}) = Cardinality(Finished(s)) + 1
  BY <1>3, FS_CardinalityType, FS_AddElement
<1>5. Last(t) = x
  BY <1>1 DEF Last
<1>6. Proof(t).done = Cardinality(Finished(t)) /\ Proof(s).done = Cardinality(Finished(s))
      /\ (Proof(t).pending <=> Ends(t, "step-started"))
  BY DEF Proof
<1>7. Ends(t, "step-started") <=> x.event = "step-started"
  BY <1>1, <1>5 DEF Ends
<1> QED BY <1>2, <1>4, <1>6, <1>7 DEF t

\* How many steps are done is a number.
LEMMA DoneIsNat == ASSUME JournalOK PROVE Done \in Nat
BY ProofGrows DEF JournalOK, Done

\* What took effect up to a step took effect up to the next.
LEMMA OrderedOn == ASSUME Listed, NEW b \in Nat, Ordered(b) PROVE Ordered(b + 1)
<1>1. \A h \in [DOMAIN applied -> DOMAIN Steps] : \A i \in DOMAIN applied : h[i] <= b => h[i] <= b + 1
  <2>1. DOMAIN Steps \subseteq Nat
    BY StepsAre
  <2> QED BY <2>1
<1> QED BY <1>1 DEF Ordered

-----------------------------------------------------------------------------
(* What the actions change. *)

\* A run goes to another place ...
LEMMA Goes ==
  ASSUME LockInv, NEW r \in Runs, NEW p,
         run' = [run EXCEPT ![r].pc = p]
  PROVE  /\ run'[r].pc = p /\ run'[r].records = run[r].records /\ run'[r].seen = run[r].seen /\ run'[r].event = run[r].event
         /\ \A x \in Runs : x # r => run'[x] = run[x]
<1>1. PICK w : w = run[r]
  OBVIOUS
<1>2. w \in [pc : {w.pc}, hash : {w.hash}, records : {w.records}, seen : {w.seen}, event : {w.event}]
  BY <1>1, EntryOf DEF LockInv
<1>3. run = [x \in Runs |-> run[x]]
  BY EntryOf DEF LockInv
<1>4. PICK v : v = [w EXCEPT !.pc = p]
  OBVIOUS
<1>5. run'[r] = v /\ \A x \in Runs : x # r => run'[x] = run[x]
  BY <1>1, <1>3, <1>4
<1>6. v.pc = p /\ v.records = w.records /\ v.seen = w.seen /\ v.event = w.event
  BY <1>2, <1>4
<1> QED BY <1>1, <1>5, <1>6

\* ... with other records ...
Reading(r, p, q) == run' = [run EXCEPT ![r].pc = p, ![r].records = q]
LEMMA Reads ==
  ASSUME LockInv, NEW r \in Runs, NEW p, NEW q, Reading(r, p, q)
  PROVE  /\ run'[r].pc = p /\ run'[r].records = q /\ run'[r].seen = run[r].seen /\ run'[r].event = run[r].event
         /\ \A x \in Runs : x # r => run'[x] = run[x]
<1>1. PICK w : w = run[r]
  OBVIOUS
<1>2. w \in [pc : {w.pc}, hash : {w.hash}, records : {w.records}, seen : {w.seen}, event : {w.event}]
  BY <1>1, EntryOf DEF LockInv
<1>3. run = [x \in Runs |-> run[x]]
  BY EntryOf DEF LockInv
<1>4. PICK v : v = [w EXCEPT !.pc = p, !.records = q]
  OBVIOUS
<1>5. run'[r] = v /\ \A x \in Runs : x # r => run'[x] = run[x]
  BY <1>1, <1>3, <1>4 DEF Reading
<1>6. v.pc = p /\ v.records = q /\ v.seen = w.seen /\ v.event = w.event
  BY <1>2, <1>4
<1> QED BY <1>1, <1>5, <1>6

\* ... with what it saw of the remote ...
LEMMA Sees ==
  ASSUME LockInv, NEW r \in Runs, NEW p, NEW s,
         run' = [run EXCEPT ![r].pc = p, ![r].seen = s]
  PROVE  /\ run'[r].pc = p /\ run'[r].records = run[r].records /\ run'[r].seen = s /\ run'[r].event = run[r].event
         /\ \A x \in Runs : x # r => run'[x] = run[x]
<1>1. PICK w : w = run[r]
  OBVIOUS
<1>2. w \in [pc : {w.pc}, hash : {w.hash}, records : {w.records}, seen : {w.seen}, event : {w.event}]
  BY <1>1, EntryOf DEF LockInv
<1>3. run = [x \in Runs |-> run[x]]
  BY EntryOf DEF LockInv
<1>4. PICK v : v = [w EXCEPT !.pc = p, !.seen = s]
  OBVIOUS
<1>5. run'[r] = v /\ \A x \in Runs : x # r => run'[x] = run[x]
  BY <1>1, <1>3, <1>4
<1>6. v.pc = p /\ v.records = w.records /\ v.seen = s /\ v.event = w.event
  BY <1>2, <1>4
<1> QED BY <1>1, <1>5, <1>6

\* ... or with a record that it will append.
Planning(r, p, e, s) == run' = [run EXCEPT ![r].pc = p, ![r].event = e, ![r].seen = s]
LEMMA Plans ==
  ASSUME LockInv, NEW r \in Runs, NEW p, NEW e, NEW s, Planning(r, p, e, s)
  PROVE  /\ run'[r].pc = p /\ run'[r].records = run[r].records /\ run'[r].seen = s /\ run'[r].event = e
         /\ \A x \in Runs : x # r => run'[x] = run[x]
<1>1. PICK w : w = run[r]
  OBVIOUS
<1>2. w \in [pc : {w.pc}, hash : {w.hash}, records : {w.records}, seen : {w.seen}, event : {w.event}]
  BY <1>1, EntryOf DEF LockInv
<1>3. run = [x \in Runs |-> run[x]]
  BY EntryOf DEF LockInv
<1>4. PICK v : v = [w EXCEPT !.pc = p, !.event = e, !.seen = s]
  OBVIOUS
<1>5. run'[r] = v /\ \A x \in Runs : x # r => run'[x] = run[x]
  BY <1>1, <1>3, <1>4 DEF Planning
<1>6. v.pc = p /\ v.records = w.records /\ v.seen = s /\ v.event = e
  BY <1>2, <1>4
<1> QED BY <1>1, <1>5, <1>6

\* Only one run works at a time.
LEMMA OthersWait ==
  ASSUME LockInv, NEW r \in Runs, run[r].pc \in Executing, NEW x \in Runs, x # r
  PROVE  run[x].pc \notin Executing /\ run[x].pc \notin Working
BY DEF LockInv, KeepInv, Executing, Working

\* A step after which nobody works on, or one run does with what it knows.
LEMMA RunsStay ==
  ASSUME LockInv, OrderInv, NEW r \in Runs, run[r].pc \in Executing \/ UNCHANGED <<journal, applied>>,
         \A x \in Runs : x # r => run'[x] = run[x], RunOK(run[r])'
  PROVE  \A x \in Runs : RunOK(run[x])'
<1> SUFFICES ASSUME NEW x \in Runs, x # r PROVE RunOK(run[x])'
  OBVIOUS
<1>1. CASE run[r].pc \in Executing
  <2>1. run'[x].pc \notin Working
    BY <1>1, OthersWait
  <2> QED BY <2>1 DEF RunOK, Working
<1>2. CASE UNCHANGED <<journal, applied>>
  <2>1. /\ run'[x] = run[x] /\ RunOK(run[x])
        /\ Done' = Done /\ Pending' = Pending /\ \A b : Ordered(b)' = Ordered(b)
    BY <1>2 DEF OrderInv, Done, Pending, Ordered
  <2> QED BY <1>2, <2>1 DEF RunOK, AppendOK
<1> QED BY <1>1, <1>2

\* A step that leaves the journal and the remote alone.
LEMMA QuietStep ==
  ASSUME LockInv, OrderInv, NEW r \in Runs, UNCHANGED <<journal, applied, remote>>,
         \A x \in Runs : x # r => run'[x] = run[x], RunOK(run[r])'
  PROVE  OrderInv'
<1>1. \A x \in Runs : RunOK(run[x])'
  BY RunsStay
<1>2. /\ Done' = Done /\ Pending' = Pending /\ Touched' = Touched
      /\ Ordered(Done)' = Ordered(Done) /\ Ordered(Done + 1)' = Ordered(Done + 1)
  BY DEF Done, Pending, Ordered, Touched, Spoiled
<1>3. AppliedOK' /\ remote' \in Remote /\ JournalOK'
  BY <1>2 DEF OrderInv, AppliedOK, JournalOK
<1> QED BY <1>1, <1>3 DEF OrderInv

\* A run that does not work knows nothing.
LEMMA IdleOK == ASSUME NEW v, v.pc \notin Working PROVE RunOK(v)
BY DEF RunOK, Working

\* The end of a run, and the steps to the lock.
LEMMA IdleStep ==
  ASSUME LockInv, OrderInv, NEW r \in Runs,
         Start(r) \/ Acquire(r) \/ Unlink(r) \/ Crash(r) \/ AppendFails(r) \/ Reject(r)
  PROVE  OrderInv'
<1>1. UNCHANGED <<journal, applied, remote>>
  BY DEF Start, Acquire, Unlink, Crash, AppendFails, Reject, Open, Reopen, OpenLock, ReadStale, CheckEvidence, RenameLock,
     Reread, WriteLock, Durables
<1>2. run'[r].pc \notin Working /\ \A x \in Runs : x # r => run'[x] = run[x]
  <2>1. ASSUME NEW p, run' = [run EXCEPT ![r].pc = p], p \notin Working
        PROVE  run'[r].pc \notin Working /\ \A x \in Runs : x # r => run'[x] = run[x]
    BY <2>1, Goes
  <2>2. CASE Start(r)
    <3>1. PICK h, p : run' = [run EXCEPT ![r].hash = h, ![r].pc = p] /\ p \in {"open", "stopped"}
      BY <2>2 DEF Start
    <3>2. PICK v : run' = [run EXCEPT ![r] = v] /\ Entry(v, p, h)
      BY <3>1, StartDoes DEF LockInv
    <3> QED BY <3>1, <3>2 DEF LockInv, KeepInv, Entry, Working
  <2>3. CASE Acquire(r)
    BY <2>1, <2>3 DEF Acquire, Open, Reopen, OpenLock, ReadStale, CheckEvidence, RenameLock, Reread, WriteLock, To, Working
  <2>4. CASE AppendFails(r) \/ Reject(r)
    BY <2>1, <2>4 DEF AppendFails, Reject, To, Working
  <2>5. CASE Unlink(r) \/ Crash(r)
    <3>1. run' = [run EXCEPT ![r] = [Fresh EXCEPT !.pc = "stopped"]]
      BY <2>5 DEF Unlink, Crash
    <3>2. [Fresh EXCEPT !.pc = "stopped"].pc = "stopped"
      BY DEF Fresh
    <3> QED BY <3>1, <3>2 DEF LockInv, KeepInv, Working
  <2> QED BY <2>2, <2>3, <2>4, <2>5
<1>3. RunOK(run[r])'
  BY <1>2 DEF RunOK, Working
<1> QED BY <1>1, <1>2, <1>3, QuietStep

\* What a run knows when nothing that it knows changes.
LEMMA SameFacts ==
  ASSUME UNCHANGED <<journal, applied>>
  PROVE  Done' = Done /\ Pending' = Pending /\ Ordered(Done)' = Ordered(Done)
BY DEF Done, Pending, Ordered

\* The journal is read, and validated, and recovered only while a step is under way.
LEMMA LoadStep ==
  ASSUME Listed, LockInv, OrderInv, NEW r \in Runs, LoadJournal(r) \/ Validate(r)
  PROVE  OrderInv'
<1>1. UNCHANGED <<journal, applied, remote>>
  BY DEF LoadJournal, Validate, Durables
<1>2. Done' = Done /\ Pending' = Pending /\ Ordered(Done)' = Ordered(Done)
  BY <1>1, SameFacts
<1>3. CASE LoadJournal(r)
  <2>1. PICK p, q : /\ Reading(r, p, q)
                    /\ (p = "validate" /\ q = journal) \/ p = "unlink"
    BY <1>3 DEF LoadJournal, Reading
  <2>2. run'[r].pc = p /\ run'[r].records = q /\ \A x \in Runs : x # r => run'[x] = run[x]
    BY <2>1, Reads
  <2> QED BY <1>1, <2>1, <2>2, QuietStep DEF RunOK, Working
<1>4. CASE Validate(r)
  <2>1. run[r].pc = "validate" /\ run[r].records = journal
    BY <1>4 DEF Validate, At, OrderInv, RunOK, Working
  <2>2. KnownTo(r).done = Done /\ KnownTo(r).pending = Pending
    BY <2>1 DEF KnownTo, Done, Pending
  <2>3. \/ \E s : Planning(r, "append", "step-recovered", s) /\ Pending
        \/ \E p : run' = [run EXCEPT ![r].pc = p] /\ p \in {NextStep(KnownTo(r)), "unlink"}
    BY <1>4, <2>2 DEF Validate, Recovers, Appends, GoTo, To, Planning
  <2>4. CASE \E s : Planning(r, "append", "step-recovered", s) /\ Pending
    <3>1. PICK s : Planning(r, "append", "step-recovered", s)
      BY <2>4
    <3>2. /\ run'[r].pc = "append" /\ run'[r].records = journal /\ run'[r].event = "step-recovered"
          /\ \A x \in Runs : x # r => run'[x] = run[x]
      BY <2>1, <3>1, Plans
    <3> QED BY <1>1, <1>2, <2>4, <3>2, QuietStep DEF RunOK, Working, AppendOK
  <2>5. CASE \E p : run' = [run EXCEPT ![r].pc = p] /\ p \in {NextStep(KnownTo(r)), "unlink"}
    <3>1. PICK p \in {NextStep(KnownTo(r)), "unlink"} : run' = [run EXCEPT ![r].pc = p]
      BY <2>5
    <3>2. run'[r].pc = p /\ run'[r].records = journal /\ \A x \in Runs : x # r => run'[x] = run[x]
      BY <2>1, <3>1, Goes
    <3>3. (p = "inspect" /\ Done < Len(Steps)) \/ (p = "pages" /\ ~(Done < Len(Steps))) \/ p = "unlink"
      BY <2>2, <3>1 DEF NextStep
    <3>4. Done \in Nat /\ Len(Steps) \in Nat
      BY DoneIsNat, StepsAre DEF OrderInv
    <3>5. ~(Done < Len(Steps)) => Done >= Len(Steps)
      BY <3>4
    <3> QED BY <1>1, <1>2, <3>2, <3>3, <3>5, QuietStep DEF RunOK, Working
  <2> QED BY <2>3, <2>4, <2>5
<1> QED BY <1>3, <1>4

\* A step is recorded as started, or, if it is under way, looked at ...
LEMMA InspectStep ==
  ASSUME Listed, LockInv, OrderInv, NEW r \in Runs, Inspect(r)
  PROVE  OrderInv'
<1>1. UNCHANGED <<journal, applied, remote>>
  BY DEF Inspect, Durables
<1>2. Done' = Done /\ Pending' = Pending /\ Ordered(Done)' = Ordered(Done)
  BY <1>1, SameFacts
<1>3. run[r].pc = "inspect" /\ run[r].records = journal /\ Done < Len(Steps)
  BY DEF Inspect, At, OrderInv, RunOK, Working
<1>4. KnownTo(r).done = Done /\ KnownTo(r).pending = Pending
  BY <1>3 DEF KnownTo, Done, Pending
<1>5. \/ run' = [run EXCEPT ![r].pc = "unlink"]
      \/ /\ Pending /\ Acceptable(remote)
         /\ run' = [run EXCEPT ![r].pc = "decide", ![r].seen = Classified(remote)]
      \/ /\ ~Pending
         /\ Planning(r, "append", "step-started", Classified(remote))
  BY <1>4 DEF Inspect, Appends, To, Planning
<1>6. CASE run' = [run EXCEPT ![r].pc = "unlink"]
  <2>1. run'[r].pc = "unlink" /\ \A x \in Runs : x # r => run'[x] = run[x]
    BY <1>6, Goes
  <2> QED BY <1>1, <2>1, QuietStep DEF RunOK, Working
<1>7. CASE /\ Pending /\ Acceptable(remote)
           /\ run' = [run EXCEPT ![r].pc = "decide", ![r].seen = Classified(remote)]
  <2>1. /\ run'[r].pc = "decide" /\ run'[r].records = journal /\ run'[r].seen = Classified(remote)
        /\ \A x \in Runs : x # r => run'[x] = run[x]
    BY <1>3, <1>7, Sees
  <2>2. ~Spoiled
    BY <1>7 DEF Acceptable, Spoiled
  <2>3. Satisfied(Steps[Done + 1], Classified(remote)) \/ Ordered(Done)
    BY <2>2 DEF OrderInv, AppliedOK, Touched
  <2>4. Satisfied(Steps[Done + 1], run[r].seen)' = Satisfied(Steps[Done + 1], Classified(remote))
    BY <1>1, <1>2, <2>1 DEF Satisfied
  <2> QED BY <1>1, <1>2, <1>3, <1>7, <2>1, <2>3, <2>4, QuietStep DEF RunOK, Working
<1>8. CASE /\ ~Pending
           /\ Planning(r, "append", "step-started", Classified(remote))
  <2>1. /\ run'[r].pc = "append" /\ run'[r].records = journal /\ run'[r].event = "step-started"
        /\ \A x \in Runs : x # r => run'[x] = run[x]
    BY <1>3, <1>8, Plans
  <2> QED BY <1>1, <1>2, <1>3, <1>8, <2>1, QuietStep DEF RunOK, Working, AppendOK
<1> QED BY <1>5, <1>6, <1>7, <1>8

\* ... and executed if the remote does not show it.
LEMMA DecideStep ==
  ASSUME Listed, LockInv, OrderInv, NEW r \in Runs, Decide(r)
  PROVE  OrderInv'
<1>1. UNCHANGED <<journal, applied, remote>>
  BY DEF Decide, Durables
<1>2. Done' = Done /\ Pending' = Pending /\ Ordered(Done)' = Ordered(Done)
  BY <1>1, SameFacts
<1>3. /\ run[r].pc = "decide" /\ run[r].records = journal /\ Done < Len(Steps) /\ Pending
      /\ Satisfied(Steps[Done + 1], run[r].seen) \/ Ordered(Done)
  BY DEF Decide, At, OrderInv, RunOK, Working
<1>4. StepOf(r) = Steps[Done + 1]
  BY <1>3 DEF StepOf, KnownTo, Done
<1>5. CASE Satisfied(StepOf(r), run[r].seen)
  <2>1. Planning(r, "append", "step-recovered", run[r].seen)
    BY <1>5 DEF Decide, Appends, Planning
  <2>2. /\ run'[r].pc = "append" /\ run'[r].records = journal /\ run'[r].event = "step-recovered"
        /\ \A x \in Runs : x # r => run'[x] = run[x]
    BY <1>3, <2>1, Plans
  <2> QED BY <1>1, <1>2, <1>3, <2>2, QuietStep DEF RunOK, Working, AppendOK
<1>6. CASE ~Satisfied(StepOf(r), run[r].seen)
  <2>1. run' = [run EXCEPT ![r].pc = "execute"]
    BY <1>6 DEF Decide, To
  <2>2. /\ run'[r].pc = "execute" /\ run'[r].records = journal
        /\ \A x \in Runs : x # r => run'[x] = run[x]
    BY <1>3, <2>1, Goes
  <2> QED BY <1>1, <1>2, <1>3, <1>4, <1>6, <2>2, QuietStep DEF RunOK, Working
<1> QED BY <1>5, <1>6

\* The checks after a step and at the end.
LEMMA CheckStep ==
  ASSUME Listed, LockInv, OrderInv, NEW r \in Runs, After(r) \/ VerifyPages(r) \/ Final(r)
  PROVE  OrderInv'
<1>1. UNCHANGED <<journal, applied, remote>>
  BY DEF After, VerifyPages, Final, Durables
<1>2. Done' = Done /\ Pending' = Pending /\ Ordered(Done)' = Ordered(Done)
  BY <1>1, SameFacts
<1>3. /\ run[r].records = journal
      /\ After(r) => Pending
      /\ VerifyPages(r) \/ Final(r) => Done >= Len(Steps)
  BY DEF After, VerifyPages, Final, At, OrderInv, RunOK, Working
<1>4. ASSUME NEW p \in {"unlink", "final"}, run' = [run EXCEPT ![r].pc = p], p = "final" => Done >= Len(Steps)
      PROVE  OrderInv'
  <2>1. run'[r].pc = p /\ run'[r].records = journal /\ \A x \in Runs : x # r => run'[x] = run[x]
    BY <1>3, <1>4, Goes
  <2> QED BY <1>1, <1>2, <1>4, <2>1, QuietStep DEF RunOK, Working
<1>5. ASSUME NEW e, NEW s, run' = Appends(r, e, s), AppendOK(e)
      PROVE  OrderInv'
  <2>1. Planning(r, "append", e, s)
    BY <1>5 DEF Appends, Planning
  <2>2. /\ run'[r].pc = "append" /\ run'[r].records = journal /\ run'[r].event = e
        /\ \A x \in Runs : x # r => run'[x] = run[x]
    BY <1>3, <2>1, Plans
  <2> QED BY <1>1, <1>2, <1>5, <2>2, QuietStep DEF RunOK, Working, AppendOK
<1>6. CASE After(r)
  <2>1. AppendOK("step-completed")
    BY <1>3, <1>6 DEF AppendOK
  <2> QED BY <1>4, <1>5, <1>6, <2>1 DEF After, To
<1>7. CASE VerifyPages(r)
  BY <1>3, <1>4, <1>7 DEF VerifyPages, To
<1>8. CASE Final(r)
  <2>1. AppendOK("run-verified")
    BY <1>3, <1>8 DEF AppendOK
  <2> QED BY <1>4, <1>5, <1>8, <2>1 DEF Final, To
<1> QED BY <1>6, <1>7, <1>8

\* A record that is written says what the run knew: a step that took effect is done
\* when its end is recorded.
LEMMA AppendStep ==
  ASSUME Listed, LockInv, OrderInv, NEW r \in Runs, AppendRecord(r)
  PROVE  OrderInv'
<1> DEFINE event == run[r].event
           id == IF event = "run-verified" THEN "none" ELSE StepOf(r)
           rec == Record(Len(run[r].records), event, id, run[r].seen)
           records == Append(run[r].records, rec)
           exists == Len(records) = 1 /\ (journal # <<>> \/ torn)
           next == IF exists \/ event = "run-verified" THEN "unlink"
                   ELSE IF event = "step-started" THEN "decide" ELSE NextStep(Proof(records))
<1>1. /\ UNCHANGED <<remote, applied>> /\ run[r].pc = "append"
      /\ journal' = IF exists THEN journal ELSE Append(journal, Last(records))
      /\ run' = [run EXCEPT ![r].pc = next, ![r].records = records]
  BY DEF AppendRecord, At
<1>2. run[r].records = journal /\ AppendOK(event) /\ journal \in Seq(ToSet(journal))
  BY <1>1 DEF OrderInv, RunOK, JournalOK, Working
<1>3. rec.event = event
  BY DEF Record
<1> HIDE DEF rec
<1>4. Last(records) = rec
  BY <1>2 DEF Last
<1>5. /\ run'[r].pc = next /\ run'[r].records = records
      /\ \A x \in Runs : x # r => run'[x] = run[x]
  <2>1. Reading(r, next, records)
    BY <1>1 DEF Reading
  <2> HIDE DEF next, records
  <2> QED BY <2>1, Reads
<1>6. CASE exists
  <2>1. next = "unlink" /\ UNCHANGED journal
    BY <1>1, <1>6
  <2> QED BY <1>1, <1>5, <2>1, QuietStep DEF RunOK, Working
<1>7. CASE ~exists
  <2>1. journal' = records /\ records = Append(journal, rec)
    BY <1>1, <1>2, <1>4, <1>7
  <2>2. /\ Done \in Nat
        /\ Pending' <=> event = "step-started"
        /\ Done' = Done + IF event \in {"step-completed", "step-recovered"} THEN 1 ELSE 0
    BY <1>2, <1>3, <2>1, ProofGrows DEF Done, Pending
  <2>3. \A b : Ordered(b)' = Ordered(b)
    BY <1>1 DEF Ordered
  <2>4. /\ journal' \in Seq(ToSet(journal'))
        /\ Pending' => Done' < Len(Steps)
    <3>1. \A i \in 1..Len(records) : records[i] \in ToSet(records)
      BY <1>2, <2>1 DEF ToSet
    <3>2. records \in Seq(ToSet(records))
      BY <1>2, <2>1, <3>1
    <3> QED BY <1>2, <2>1, <2>2, <3>2 DEF AppendOK
  <2>5. Ordered(Done)' /\ (event # "run-verified" => Done' \in Nat)
    <3>1. CASE event \in {"step-completed", "step-recovered"}
      BY <2>2, <2>3, <3>1, OrderedOn DEF OrderInv, AppliedOK
    <3>2. CASE event = "step-started"
      BY <1>2, <2>2, <2>3, <3>2 DEF OrderInv, AppliedOK, AppendOK
    <3>3. CASE event = "run-verified"
      <4>1. UNCHANGED <<applied, Done>>
        BY <1>1, <2>2, <3>3
      <4>2. CASE Ordered(Done)
        BY <3>3, <4>1, <4>2 DEF Ordered
      <4>3. CASE Pending
        BY <1>2, <2>2, <3>3, <4>3 DEF OrderInv, JournalOK, AppendOK
      <4> QED BY <4>2, <4>3 DEF OrderInv, AppliedOK
    <3> QED BY <1>2, <2>2, <3>1, <3>2, <3>3 DEF AppendOK
  <2>6. RunOK(run[r])'
    <3>1. CASE next = "unlink"
      BY <1>5, <3>1 DEF RunOK, Working
    <3>2. CASE event = "step-started" /\ next = "decide"
      BY <1>5, <2>1, <2>2, <2>4, <2>5, <3>2 DEF RunOK, Working
    <3>3. CASE event \in {"step-completed", "step-recovered"} /\ next = NextStep(Proof(records))
      <4>1. Proof(records).done = Done'
        BY <2>1 DEF Done
      <4>2. (next = "inspect" /\ Done' < Len(Steps)) \/ (next = "pages" /\ ~(Done' < Len(Steps)))
        BY <3>3, <4>1 DEF NextStep
      <4>3. Done' \in Nat /\ Len(Steps) \in Nat
        BY <2>5, <3>3, StepsAre
      <4>4. ~(Done' < Len(Steps)) => Done' >= Len(Steps)
        BY <4>3
      <4> QED BY <1>5, <2>1, <4>2, <4>4 DEF RunOK, Working
    <3> QED BY <1>2, <1>7, <3>1, <3>2, <3>3 DEF AppendOK
  <2>7. \A x \in Runs : RunOK(run[x])'
    BY <1>1, <1>5, <2>6, RunsStay DEF Executing
  <2>8. AppliedOK'
    BY <2>5 DEF AppliedOK
  <2> QED BY <1>1, <2>4, <2>7, <2>8 DEF OrderInv, JournalOK
<1> QED BY <1>6, <1>7

\* What a step's effect shows on the remote.
LEMMA EffectShows ==
  ASSUME Listed, remote \in Remote, NEW step \in StepSet, remote' \in Effect(step)
  PROVE  remote' \in Remote /\ Satisfied(step, Classified(remote'))
<1>1. CASE step = "user-site-main"
  <2>1. remote' = [remote EXCEPT !.userSite = "new"]
    BY <1>1 DEF Effect, Listed
  <2>2. remote' \in Remote /\ remote'.userSite = "new"
    BY <2>1 DEF Remote, ComponentPhase, Phase
  <2> QED BY <1>1, <2>2 DEF Satisfied, Classified
<1>2. CASE step = "source-refs"
  <2>1. PICK closed \in SUBSET remote.open : remote' = [remote EXCEPT !.sourceRefs = "new", !.open = @ \ closed]
    BY <1>2 DEF Effect, Listed
  <2>2. remote' \in Remote /\ remote'.sourceRefs = "new"
    BY <2>1 DEF Remote, ComponentPhase, Phase
  <2> QED BY <1>2, <2>2 DEF Satisfied, Classified
<1>3. CASE step = "rename"
  <2>1. remote' = [remote EXCEPT !.rename = "new"]
    BY <1>3 DEF Effect, Listed
  <2>2. remote' \in Remote /\ remote'.rename = "new"
    BY <2>1 DEF Remote, Phase
  <2> QED BY <1>3, <2>2 DEF Satisfied, Classified
<1>4. CASE step \notin {"user-site-main", "source-refs", "rename"} /\ step \in PullSet
  <2>1. remote' = [remote EXCEPT !.open = @ \ {step}]
    BY <1>4 DEF Effect
  <2>2. remote' \in Remote /\ step \notin remote'.open
    BY <2>1 DEF Remote
  <2> QED BY <1>4, <2>2 DEF Satisfied, Classified
<1>5. CASE step \notin {"user-site-main", "source-refs", "rename"} /\ step \notin PullSet
  <2>1. step \in ComponentSet
    BY <1>5 DEF StepSet
  <2>2. remote' = [remote EXCEPT !.component[step] = "new"]
    BY <1>5 DEF Effect
  <2>3. remote' \in Remote /\ remote'.component[step] = "new"
    BY <2>1, <2>2 DEF Remote, ComponentPhase, Phase
  <2> QED BY <2>1, <2>3 DEF Satisfied, Classified
<1> QED BY <1>1, <1>2, <1>3, <1>4, <1>5

\* A step that takes effect is the one under way, and the remote shows it from then on.
LEMMA ExecuteStep ==
  ASSUME Listed, LockInv, OrderInv, NEW r \in Runs, Execute(r)
  PROVE  OrderInv'
<1>1. UNCHANGED journal /\ run[r].pc = "execute"
  BY DEF Execute, At
<1>2. run[r].records = journal /\ Done < Len(Steps) /\ Pending /\ Ordered(Done)
  BY <1>1 DEF OrderInv, RunOK, Working
<1>3. Done' = Done /\ Pending' = Pending
  BY <1>1 DEF Done, Pending
<1>4. StepOf(r) = Steps[Done + 1]
  BY <1>2 DEF StepOf, KnownTo, Done
<1>5. Done \in Nat /\ Len(Steps) \in Nat /\ Steps[Done + 1] \in StepSet /\ DOMAIN Steps = 1..Len(Steps)
      /\ Done + 1 \in DOMAIN Steps
  <2>1. Steps \in Seq(StepSet) /\ Done \in Nat
    BY DoneIsNat, StepsAre DEF OrderInv
  <2> HIDE DEF Steps
  <2> QED BY <1>2, <2>1
<1>6. remote' \in Effect(Steps[Done + 1]) /\ applied' = Append(applied, Steps[Done + 1])
  BY <1>4 DEF Execute
<1>7. remote' \in Remote /\ Satisfied(Steps[Done + 1], Classified(remote'))
  BY <1>5, <1>6, EffectShows DEF OrderInv
<1>8. Ordered(Done + 1)'
  <2>1. applied \in Seq(StepSet)
    BY DEF OrderInv, JournalOK
  <2>2. PICK h \in [DOMAIN applied -> DOMAIN Steps] :
          /\ \A i \in DOMAIN applied : h[i] <= Done /\ applied[i] = Steps[h[i]]
          /\ \A i, j \in DOMAIN applied : i < j => h[i] < h[j]
    BY <1>2 DEF Ordered
  <2> DEFINE g == [i \in DOMAIN applied' |-> IF i \in DOMAIN applied THEN h[i] ELSE Done + 1]
  <2>3. /\ DOMAIN applied = 1..Len(applied) /\ Len(applied) \in Nat
        /\ DOMAIN applied' = 1..Len(applied) + 1
        /\ applied'[Len(applied) + 1] = Steps[Done + 1]
        /\ \A i \in DOMAIN applied : applied'[i] = applied[i]
    BY <1>5, <1>6, <2>1
  <2>4. g \in [DOMAIN applied' -> DOMAIN Steps]
    BY <1>5, <2>2
  <2>5. \A i \in DOMAIN applied' : g[i] <= Done + 1 /\ applied'[i] = Steps[g[i]]
    <3> SUFFICES ASSUME NEW i \in DOMAIN applied' PROVE g[i] <= Done + 1 /\ applied'[i] = Steps[g[i]]
      OBVIOUS
    <3>1. CASE i \in DOMAIN applied
      <4>1. g[i] = h[i] /\ h[i] \in DOMAIN Steps /\ h[i] <= Done
        BY <2>2, <3>1
      <4> QED BY <1>5, <2>2, <2>3, <3>1, <4>1
    <3>2. CASE i \notin DOMAIN applied
      BY <1>5, <2>3, <3>2
    <3> QED BY <3>1, <3>2
  <2>6. ASSUME NEW i \in DOMAIN applied', NEW j \in DOMAIN applied', i < j PROVE g[i] < g[j]
    <3>1. i \in DOMAIN applied
      BY <2>3, <2>6
    <3>2. h[i] \in DOMAIN Steps /\ h[i] <= Done /\ g[i] = h[i]
      BY <2>2, <3>1
    <3>3. CASE j \in DOMAIN applied
      BY <2>2, <2>6, <3>1, <3>2, <3>3
    <3>4. CASE j \notin DOMAIN applied
      BY <1>5, <3>2, <3>4
    <3> QED BY <3>3, <3>4
  <2>7. \E k \in [DOMAIN applied' -> DOMAIN Steps] :
          /\ \A i \in DOMAIN applied' : k[i] <= Done + 1 /\ applied'[i] = Steps[k[i]]
          /\ \A i, j \in DOMAIN applied' : i < j => k[i] < k[j]
    <3> HIDE DEF g
    <3> QED BY <2>4, <2>5, <2>6
  <2> QED BY <1>3, <2>7 DEF Ordered
<1>9. run'[r].pc \notin Working \/ run'[r].pc = "after"
  <2>1. PICK p \in {"after", "unlink"} : run' = [run EXCEPT ![r].pc = p]
    BY DEF Execute, To
  <2> QED BY <2>1, Goes DEF Working
<1>10. run'[r].records = journal /\ \A x \in Runs : x # r => run'[x] = run[x]
  <2>1. PICK p : run' = [run EXCEPT ![r].pc = p]
    BY DEF Execute, To
  <2> QED BY <1>2, <2>1, Goes
<1>11. RunOK(run[r])'
  BY <1>1, <1>2, <1>3, <1>9, <1>10 DEF RunOK, Working
<1>12. \A x \in Runs : RunOK(run[x])'
  BY <1>1, <1>10, <1>11, RunsStay DEF Executing
<1>13. AppliedOK'
  <2>1. Touched'
    BY <1>3, <1>7 DEF Touched
  <2> QED BY <1>2, <1>3, <1>8, <2>1 DEF AppliedOK, Ordered
<1>14. JournalOK'
  <2>1. applied' \in Seq(StepSet)
    BY <1>5, <1>6 DEF OrderInv, JournalOK
  <2> QED BY <1>1, <1>3, <2>1 DEF OrderInv, JournalOK
<1> QED BY <1>7, <1>12, <1>13, <1>14 DEF OrderInv

\* What the remote shows of a step stays, or is seen to be spoiled.
LEMMA StaysTouched ==
  ASSUME remote \in Remote, remote' \in Remote, Touched, Done' = Done,
         remote'.userSite \in {remote.userSite, "other"}, remote'.sourceRefs \in {remote.sourceRefs, "other"},
         remote'.rename = remote.rename, remote'.open \subseteq remote.open,
         \A c \in ComponentSet : remote'.component[c] \in {remote.component[c], "other"}
  PROVE  Touched'
<1>1. CASE Spoiled'
  BY <1>1 DEF Touched
<1>2. CASE ~Spoiled'
  <2>1. /\ remote'.userSite = remote.userSite /\ remote'.sourceRefs = remote.sourceRefs
        /\ \A c \in ComponentSet : remote'.component[c] = remote.component[c]
    BY <1>2 DEF Spoiled
  <2>2. ~Spoiled
    BY <1>2, <2>1 DEF Spoiled
  <2>3. PICK s : s = Classified(remote)
    OBVIOUS
  <2>4. PICK t : t = Classified(remote')
    OBVIOUS
  <2>5. t.userSite = s.userSite /\ t.sourceRefs = s.sourceRefs /\ t.rename = s.rename /\ t.open \subseteq s.open
        /\ t.desired = s.desired
    BY <2>1, <2>3, <2>4 DEF Classified
  <2>6. PICK step : step = Steps[Done + 1]
    OBVIOUS
  <2>7. Satisfied(step, s)
    BY <2>2, <2>3, <2>6 DEF Touched
  <2>8. Satisfied(step, t)
    BY <2>5, <2>7 DEF Satisfied
  <2> QED BY <2>4, <2>6, <2>8 DEF Touched
<1> QED BY <1>1, <1>2

\* What others do to the remote does not undo a step unnoticed.
LEMMA ExternalStep ==
  ASSUME Listed, LockInv, OrderInv, AutoClose \/ Publish \/ Interfere
  PROVE  OrderInv'
<1>1. UNCHANGED <<journal, applied, run>> /\ remote \in Remote
  BY DEF AutoClose, Publish, Interfere, OrderInv
<1>2. /\ remote' \in Remote
      /\ remote'.userSite \in {remote.userSite, "other"} /\ remote'.sourceRefs \in {remote.sourceRefs, "other"}
      /\ remote'.rename = remote.rename /\ remote'.open \subseteq remote.open
      /\ \A c \in ComponentSet : remote'.component[c] \in {remote.component[c], "other"}
  <2>1. CASE AutoClose
    BY <1>1, <2>1 DEF AutoClose, Remote
  <2>2. CASE Publish
    BY <1>1, <2>2 DEF Publish, Remote
  <2>3. CASE Interfere
    <3>1. PICK c : \/ remote' = [remote EXCEPT !.userSite = "other"]
                   \/ remote' = [remote EXCEPT !.sourceRefs = "other"]
                   \/ c \in ComponentSet /\ remote' = [remote EXCEPT !.component[c] = "other"]
                   \/ remote' = [remote EXCEPT !.workflows = ~@]
      BY <2>3 DEF Interfere
    <3>2. CASE remote' = [remote EXCEPT !.userSite = "other"]
      BY <1>1, <3>2 DEF Remote, ComponentPhase
    <3>3. CASE remote' = [remote EXCEPT !.sourceRefs = "other"]
      BY <1>1, <3>3 DEF Remote, ComponentPhase
    <3>4. CASE c \in ComponentSet /\ remote' = [remote EXCEPT !.component[c] = "other"]
      BY <1>1, <3>4 DEF Remote, ComponentPhase
    <3>5. CASE remote' = [remote EXCEPT !.workflows = ~@]
      BY <1>1, <3>5 DEF Remote
    <3> QED BY <3>1, <3>2, <3>3, <3>4, <3>5
  <2> QED BY <2>1, <2>2, <2>3
<1>3. Done' = Done /\ Pending' = Pending /\ \A b : Ordered(b)' = Ordered(b)
  BY <1>1 DEF Done, Pending, Ordered
<1>4. Touched => Touched'
  BY <1>1, <1>2, <1>3, StaysTouched
<1>5. AppliedOK'
  BY <1>3, <1>4 DEF OrderInv, AppliedOK
<1>6. JournalOK'
  BY <1>1, <1>3 DEF OrderInv, JournalOK
<1>7. ASSUME NEW r \in Runs PROVE RunOK(run[r])'
  BY <1>1, <1>3 DEF OrderInv, RunOK, AppendOK
<1> QED BY <1>2, <1>5, <1>6, <1>7 DEF OrderInv

\* Initially nothing is recorded and nothing took effect.
LEMMA OrderInit == ASSUME Listed, Init PROVE OrderInv
<1>1. journal = <<>> /\ applied = <<>> /\ \A r \in Runs : run[r] = Fresh
  BY DEF Init
<1>2. Done \in Nat /\ ~Pending /\ JournalOK
  <2>1. <<>> \in Seq(ToSet(journal)) /\ <<>> \in Seq(StepSet)
    OBVIOUS
  <2>2. ~Pending
    BY <1>1 DEF Pending, Proof, Ends
  <2> QED BY <1>1, <2>1, <2>2, ProofGrows DEF JournalOK, Done
<1>3. Ordered(Done)
  <2>1. DOMAIN applied = {}
    BY <1>1
  <2>2. [i \in {} |-> 1] \in [DOMAIN applied -> DOMAIN Steps]
    BY <2>1
  <2> QED BY <2>1, <2>2 DEF Ordered
<1>4. remote \in Remote
  BY DEF Init, Remote, Phase, ComponentPhase
<1>5. \A r \in Runs : RunOK(run[r])
  <2>1. Fresh.pc \notin Working
    BY DEF Fresh, Working
  <2> QED BY <1>1, <2>1, IdleOK
<1> QED BY <1>2, <1>3, <1>4, <1>5 DEF OrderInv, AppliedOK

\* No step takes effect twice, and none before one that precedes it in the approved
\* order, whatever crashes, is lost or fails to be written and whoever interferes,
\* unless two runs recovered one stale lock (withExclusive).
THEOREM StepsTakeEffectOnce == ASSUME Named, Listed PROVE Spec => [](Intact => AppliedOnceInOrder)
<1> DEFINE Inv == KeepInv /\ (Intact => OrderInv)
<1>1. Init => Inv
  BY InitLock, OrderInit
<1>2. LockInv /\ OrderInv /\ [Next]_vars => OrderInv'
  <2> SUFFICES ASSUME LockInv, OrderInv, [Next]_vars PROVE OrderInv'
    OBVIOUS
  <2>1. CASE UNCHANGED vars
    <3>1. UNCHANGED <<journal, applied, run, remote>>
      BY <2>1 DEF vars
    <3>2. Done' = Done /\ Pending' = Pending /\ Touched' = Touched /\ \A b : Ordered(b)' = Ordered(b)
      BY <3>1 DEF Done, Pending, Ordered, Touched, Spoiled
    <3> QED BY <3>1, <3>2 DEF OrderInv, AppliedOK, JournalOK, RunOK, AppendOK
  <2>2. ASSUME NEW r \in Runs, Start(r) \/ Acquire(r) \/ Work(r) \/ Fail(r) PROVE OrderInv'
    BY <2>2, IdleStep, LoadStep, InspectStep, DecideStep, CheckStep, AppendStep, ExecuteStep DEF Work, Fail
  <2> QED BY <2>1, <2>2, ExternalStep DEF Next
<1>3. Inv /\ [Next]_vars => Inv'
  BY <1>2, KeepStep DEF LockInv
<1>4. OrderInv => AppliedOnceInOrder
  <2> SUFFICES ASSUME OrderInv, NEW i \in DOMAIN applied, NEW j \in DOMAIN applied, i < j
               PROVE  \E m, n \in DOMAIN Steps : m < n /\ applied[i] = Steps[m] /\ applied[j] = Steps[n]
    BY DEF AppliedOnceInOrder
  <2>1. PICK h \in [DOMAIN applied -> DOMAIN Steps] :
          /\ \A x \in DOMAIN applied : applied[x] = Steps[h[x]]
          /\ \A x, y \in DOMAIN applied : x < y => h[x] < h[y]
    BY DEF OrderInv, AppliedOK, Ordered
  <2> QED BY <2>1
<1>5. Inv => (Intact => AppliedOnceInOrder)
  BY <1>4
<1> QED BY <1>1, <1>3, <1>5, PTL DEF Spec

=============================================================================
