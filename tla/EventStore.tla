------------------------------ MODULE EventStore ------------------------------
(***************************************************************************)
(* The event log of the server (apps/server/src/event-store.ts) under the  *)
(* engine that appends to it and compacts it (orchestration.ts): the file, *)
(* its backup, torn records, failed steps and restarts.                    *)
(*                                                                         *)
(* The engine's and the store's tails run one operation at a time, so op   *)
(* is the one that runs; callers that wait are not modelled.  A file is    *)
(* what a process crash leaves of it: no file system cache is lost.        *)
(***************************************************************************)
EXTENDS Integers, FiniteSets, SequencesExt

CONSTANTS
  Threads, Events,   \* every event is appended at most once
  None,
  MaxFaults,         \* failed steps that change nothing on the disk
  RestoreFails,      \* may moving the backup back be one of them?
  MaxTorn,           \* appends that fail after writing a part of the record
  MaxCrashes

VARIABLES
  path, bak,    \* events.jsonl and its backup
  server,       \* "down", "tail", "replay", "opening" or "up"
  seq,          \* EventStore.#seq; 0 is no entry
  threads,      \* OrchestrationEngine.#threads: {} is no thread
  op,           \* the operation under way
  used,         \* the appends asked for so far
  faults, torn, crashes

disk == <<path, bak>>
memory == <<server, seq, threads, op>>
budget == <<faults, torn, crashes>>
vars == <<disk, memory, used, budget>>

-----------------------------------------------------------------------------
(* Files *)

Entry == [seq : Nat \ {0}, event : Events]
LineKind == {"created", "event", "deleted", "snapshot"}
\* A record: what it says of its thread.
Line == [thread : Threads, seq : Nat \ {0}, kind : LineKind, body : SUBSET Entry]
\* How the file ends: after a newline, in a record without one, in a part of a
\* record.  A file is readable unless something follows such a part.
File == [lines : Seq(Line), tail : {"line", "whole", "torn"}, readable : BOOLEAN]
Absent == [lines |-> <<>>, tail |-> "absent", readable |-> TRUE]

Stage == {"idle", "append", "torn", "whole", "stored",
          "tmp", "unlink", "park", "swap", "restore", "clean"}
Op == [stage : Stage, line : Line \cup {None}, ending : BOOLEAN, parked : BOOLEAN]
Doing(stage, line, ending) == [stage |-> stage, line |-> line, ending |-> ending, parked |-> FALSE]
Quiet == Doing("idle", None, FALSE)

\* The engine's #apply over the lines: a creation or snapshot begins a thread,
\* events extend it, a deletion ends it, events of no thread are ignored.
Begins(lines, t, b) ==
  /\ lines[b].thread = t /\ lines[b].kind \in {"created", "snapshot"}
  /\ \A j \in DOMAIN lines : j > b /\ lines[j].thread = t => lines[j].kind = "event"
Replay(lines) ==
  [t \in Threads |->
     UNION {lines[k].body : k \in {k \in DOMAIN lines :
       lines[k].thread = t /\ \E b \in 1..k : Begins(lines, t, b)}}]

\* The seq each thread goes on from.
LastSeq(lines) ==
  [t \in Threads |->
     LET seqs == {lines[k].seq : k \in {k \in DOMAIN lines : lines[k].thread = t}}
     IN  IF seqs = {} THEN 0 ELSE Max(seqs)]

Live == {t \in Threads : threads[t] # {}}
\* #compactNow and replace: a snapshot of each thread with its last seq.
Snapshot(t) == [thread |-> t, seq |-> IF seq[t] = 0 THEN 1 ELSE seq[t],
                kind |-> "snapshot", body |-> threads[t]]
Compacted ==
  LET order == SetToSeq(Live)
  IN  [lines |-> [k \in DOMAIN order |-> Snapshot(order[k])], tail |-> "line", readable |-> TRUE]

\* What a restart would read now.
Stored == Replay((IF path # Absent THEN path ELSE bak).lines)

Running == server \in {"opening", "up"}
Fault == faults < MaxFaults /\ faults' = faults + 1 /\ UNCHANGED <<torn, crashes>>

Init ==
  /\ path = Absent /\ bak = Absent
  /\ server = "down" /\ seq = [t \in Threads |-> 0] /\ threads = [t \in Threads |-> {}]
  /\ op = Quiet
  /\ used = {}
  /\ faults = 0 /\ torn = 0 /\ crashes = 0

-----------------------------------------------------------------------------
(* OrchestrationEngine.append and EventStore.append *)

\* The ids of deleted threads are not used again.
Deleted(t) == \E u \in used : u.thread = t /\ u.kind = "deleted"

\* The number of the next event.
Numbered(t) == seq[t] + 1

\* An append becomes the operation.  Only what comes late for a deleted thread
\* is of no thread; it is stored like any other event.  Start ends what ran.
Begin(t, e, kind, ending) ==
  /\ Running /\ op.stage = "idle" /\ \A u \in used : u.event # e
  /\ IF kind = "created" THEN threads[t] = {} /\ ~Deleted(t) ELSE threads[t] # {} \/ Deleted(t)
  /\ server = "opening" => kind = "event" /\ threads[t] # {}
  /\ LET entry == [seq |-> Numbered(t), event |-> e]
         line == [thread |-> t, seq |-> Numbered(t), kind |-> kind,
                  body |-> IF kind = "deleted" THEN {} ELSE {entry}]
     IN  op' = Doing("append", line, ending)
  /\ used' = used \cup {[thread |-> t, event |-> e, kind |-> kind]}
  /\ UNCHANGED <<disk, server, seq, threads, budget>>

\* Mutant: the event is shown before it is stored.
ShownFirst ==
  /\ op.stage = "append"
  /\ path' = IF path = Absent THEN [lines |-> <<>>, tail |-> "torn", readable |-> TRUE]
             ELSE [path EXCEPT !.tail = "torn", !.readable = @ /\ path.tail = "line"]
  /\ threads' = [threads EXCEPT ![op.line.thread] = @ \cup op.line.body]
  /\ op' = [op EXCEPT !.stage = "torn"]
  /\ UNCHANGED <<bak, server, seq, used, budget>>

\* appendFile: some of the record, the record, its newline.  What is written
\* after a record that has no newline makes the file unreadable.
Torn ==
  /\ op.stage = "append"
  /\ path' = IF path = Absent THEN [lines |-> <<>>, tail |-> "torn", readable |-> TRUE]
             ELSE [path EXCEPT !.tail = "torn", !.readable = @ /\ path.tail = "line"]
  /\ op' = [op EXCEPT !.stage = "torn"]
  /\ UNCHANGED <<bak, server, seq, threads, used, budget>>

Whole ==
  /\ op.stage = "torn"
  /\ path' = [path EXCEPT !.lines = Append(@, op.line), !.tail = "whole"]
  /\ op' = [op EXCEPT !.stage = "whole"]
  /\ UNCHANGED <<bak, server, seq, threads, used, budget>>

Newline ==
  /\ op.stage = "whole"
  /\ path' = [path EXCEPT !.tail = "line"]
  /\ op' = [op EXCEPT !.stage = "stored"]
  /\ UNCHANGED <<bak, server, seq, threads, used, budget>>

\* A failure during start ends the server, any other only the operation.
Reject ==
  /\ op' = Quiet
  /\ server' = IF server = "opening" THEN "down" ELSE server
  /\ IF server = "opening"
     THEN seq' = [t \in Threads |-> 0] /\ threads' = [t \in Threads |-> {}]
     ELSE UNCHANGED <<seq, threads>>

\* The append fails with nothing written, or with a part (no space is left).
AppendFails ==
  /\ \/ op.stage = "append" /\ Fault
     \/ /\ op.stage \in {"torn", "whole"} /\ torn < MaxTorn
        /\ torn' = torn + 1 /\ UNCHANGED <<faults, crashes>>
  /\ Reject
  /\ UNCHANGED <<disk, used>>

\* The record is applied and published; the end of a turn or of a thread
\* compacts the log.
Applied ==
  /\ op.stage = "stored"
  /\ LET t == op.line.thread
         new == IF op.line.kind = "deleted" THEN {}
                ELSE IF op.line.kind = "created" \/ threads[t] # {}
                     THEN threads[t] \cup op.line.body ELSE {}
     IN  /\ seq' = [seq EXCEPT ![t] = op.line.seq]
         /\ threads' = [threads EXCEPT ![t] = new]
  /\ op' = IF op.ending \/ op.line.kind = "deleted"
           THEN Doing("tmp", None, TRUE) ELSE Quiet
  /\ UNCHANGED <<disk, server, used, budget>>

-----------------------------------------------------------------------------
(* OrchestrationEngine.#compactNow and EventStore.replace *)

\* engine.open compacts the log at last.
Compact ==
  /\ server = "opening" /\ op.stage = "idle"
  /\ op' = Doing("tmp", None, FALSE)
  /\ UNCHANGED <<disk, server, seq, threads, used, budget>>

\* A step of replace that succeeds, or fails and changes nothing.
Goes(from, to) ==
  /\ op.stage = from /\ op' = [op EXCEPT !.stage = to]
  /\ UNCHANGED <<server, seq, threads, used, budget>>
Fails(from) ==
  /\ op.stage = from /\ Fault /\ Reject /\ UNCHANGED <<disk, used>>

\* The snapshots are written beside the log.
Written == Goes("tmp", "unlink") /\ UNCHANGED disk

\* An old backup is removed.
Unlinked == Goes("unlink", "park") /\ bak' = Absent /\ UNCHANGED path

\* The log becomes the backup, if there is a log.
Parked ==
  /\ op.stage = "park" /\ op' = [op EXCEPT !.stage = "swap", !.parked = path # Absent]
  /\ path' = Absent /\ bak' = path
  /\ UNCHANGED <<server, seq, threads, used, budget>>

\* The snapshots become the log.
Swapped == Goes("swap", "clean") /\ path' = Compacted /\ UNCHANGED bak

SwapFails ==
  /\ op.stage = "swap" /\ Fault
  /\ IF op.parked
     THEN op' = [op EXCEPT !.stage = "restore"] /\ UNCHANGED <<server, seq, threads>>
     ELSE Reject
  /\ UNCHANGED <<disk, used>>

\* The backup becomes the log again.
Restored ==
  /\ op.stage = "restore"
  /\ path' = bak /\ bak' = Absent
  /\ Reject /\ UNCHANGED <<used, budget>>

\* The backup is removed; the numbers of deleted threads are forgotten.  Start
\* ends with a compaction.
Cleaned ==
  /\ op.stage = "clean" /\ bak' = Absent
  /\ seq' = LastSeq(Compacted.lines)
  /\ op' = Quiet
  /\ server' = IF op.ending THEN server ELSE "up"
  /\ UNCHANGED <<path, threads, used, budget>>

CompactFails ==
  \E from \in {"tmp", "unlink", "park", "clean"} \cup IF RestoreFails THEN {"restore"} ELSE {} :
    Fails(from)

-----------------------------------------------------------------------------
(* Crash and EventStore.open *)

Crash ==
  /\ server # "down" /\ crashes < MaxCrashes
  /\ crashes' = crashes + 1 /\ server' = "down" /\ op' = Quiet
  /\ seq' = [t \in Threads |-> 0] /\ threads' = [t \in Threads |-> {}]
  /\ UNCHANGED <<disk, used, faults, torn>>

\* #recoverBackup: a backup beside a log is a leftover.
RecoverBackup ==
  /\ server = "down" /\ server' = "tail"
  /\ path' = IF path # Absent THEN path ELSE bak
  /\ bak' = Absent
  /\ UNCHANGED <<seq, threads, op, used, budget>>

\* #recoverTornTail: a part of a record is cut off, a record gets its newline.
RecoverTail ==
  /\ server = "tail" /\ server' = "replay"
  /\ path' = IF path = Absent THEN path ELSE [path EXCEPT !.tail = "line"]
  /\ UNCHANGED <<bak, seq, threads, op, used, budget>>

\* The lines are replayed.  An unreadable line ends the server.
Open ==
  /\ server = "replay"
  /\ IF path.readable
     THEN /\ server' = "opening"
          /\ seq' = LastSeq(path.lines) /\ threads' = Replay(path.lines)
     ELSE server' = "down" /\ UNCHANGED <<seq, threads>>
  /\ UNCHANGED <<disk, op, used, budget>>

Next ==
  \/ \E t \in Threads, e \in Events, ending \in BOOLEAN :
       \E kind \in {"created", "event", "deleted"} : Begin(t, e, kind, ending)
  \/ Torn \/ Whole \/ Newline \/ AppendFails \/ Applied
  \/ Compact \/ Written \/ Unlinked \/ Parked \/ Swapped \/ SwapFails \/ Restored
  \/ Cleaned \/ CompactFails
  \/ Crash \/ RecoverBackup \/ RecoverTail \/ Open

Spec == Init /\ [][Next]_vars

-----------------------------------------------------------------------------
(* Properties *)

\* Every variable has its type.
TypeOK ==
  /\ path \in File \cup {Absent} /\ bak \in File \cup {Absent}
  /\ server \in {"down", "tail", "replay", "opening", "up"}
  /\ seq \in [Threads -> Nat]
  /\ threads \in [Threads -> SUBSET Entry]
  /\ op \in Op
  /\ used \subseteq [thread : Threads, event : Events, kind : LineKind]
  /\ faults \in 0..MaxFaults /\ torn \in 0..MaxTorn /\ crashes \in 0..MaxCrashes

\* The server can start again: a record cut off by a crash never ends up in
\* front of another one.
LogReadable == path.readable /\ bak.readable

\* Between operations a restart would bring back exactly the threads the server
\* shows, whatever step of a compaction failed before.
ShownIsStored == Running /\ op.stage = "idle" => Stored = threads

\* Appends, compactions, crashes and restarts together are a durable log: what
\* was shown is kept, in order, and nothing else appears; an append that fails
\* within its record (MaxTorn > 0) and a backup that cannot be moved back
\* (RestoreFails) can break it.
Promise == INSTANCE DurableLog WITH
  log <- Stored, shown <- IF Running THEN threads ELSE Stored, up <- Running
IsDurableLog == Promise!Spec
=============================================================================
