----------------------------- MODULE ThreadCreation -----------------------------
(***************************************************************************)
(* How the server creates a thread once for each creation id               *)
(* (apps/server/src/server.ts): a journal of reservations and receipts, a  *)
(* session that is asked of the runtime at most once, and the recovery of  *)
(* a session whose answer was lost.                                        *)
(*                                                                         *)
(* The journal is a recoverable JSON file (module RecoverableJson): a      *)
(* write happens or not. Losing power may also damage the file after it    *)
(* was written, so that it reads its backup, the value before.             *)
(*                                                                         *)
(* A session is a pair: the id whose request made it and its number.       *)
(***************************************************************************)
EXTENDS Integers, FiniteSets

CONSTANTS
  Ids, None,
  Foreign,       \* the maker of other sessions
  Config,        \* the fingerprint of the parameters that each id comes with
  Isolated,      \* ids that ask for a worktree of their own; the others share a folder
  Side,          \* shared ids that ask for a side chat
  PowerLoss,     \* TRUE: a restart may read the value before the last one
  CrashesInLoad, \* TRUE: the server may also end while it loads the journal
  MaxCrashes, MaxFailures   \* bounds

VARIABLES
  phase,      \* "up", "restored" (a backup was written back) or "down"
  journal,    \* in memory: [held: the reservation of each id or None, receipts]
  disk,       \* the journal file: its value and the value before
  writer,     \* the id that writes the journal, and what it replaces, or None
  op,         \* where the creation of each id is
  threads,    \* the event log: the session of each id's thread, or None
  asked,      \* session/new requests that the runtime has
  sessions,   \* the runtime's sessions
  crashes, failures

parts == <<phase, journal, disk, writer, op>>
world == <<threads, asked, sessions>>
vars == <<parts, world, crashes, failures>>

NoJournal == [held |-> [i \in Ids |-> None], receipts |-> {}]
Idle == [at |-> "idle", next |-> None]

Init ==
  /\ phase = "up" /\ journal = NoJournal /\ writer = None
  /\ disk = [now |-> NoJournal, before |-> NoJournal]
  /\ op = [i \in Ids |-> Idle]
  /\ threads = [i \in Ids |-> None] /\ asked = {} /\ sessions = {}
  /\ crashes = 0 /\ failures = 0

Held(i) == journal.held[i]
At(i, place) == phase = "up" /\ op[i].at = place
Go(i, place) == op' = [op EXCEPT ![i] = [at |-> place, next |-> None]]

\* The folder of an id's session: its worktree, or the shared folder.
Folder(i) == IF i \in Isolated THEN i ELSE None

-----------------------------------------------------------------------------
(* The journal: one write at a time, in memory first *)

\* An operation asks to save a reservation (None: removes it), and goes on at `then'.
Wants(i, reservation, then) ==
  op' = [op EXCEPT ![i] = [at |-> "save", next |-> [reservation |-> reservation, then |-> then]]]

\* saveThreadCreationReservation, removeThreadCreationReservation and
\* persistThreadCreationReceipt, when the writes before them are done
BeginWrite ==
  /\ phase = "up" /\ writer = None
  /\ \E i \in Ids :
       /\ op[i].at = "save"
       /\ writer' = [id |-> i, previous |-> journal]
       /\ journal' = [held |-> [journal.held EXCEPT ![i] = op[i].next.reservation],
                      receipts |-> IF op[i].next.then \in {"created", "ended"}
                                   THEN journal.receipts \cup {i} ELSE journal.receipts]
       /\ op' = [op EXCEPT ![i].at = "writing"]
  /\ UNCHANGED <<phase, disk, world, crashes, failures>>

Written == [now |-> journal, before |-> disk.now]

EndWrite ==
  /\ phase = "up" /\ writer # None /\ writer' = None
  /\ disk' = Written
  /\ Go(writer.id, op[writer.id].next.then)
  /\ UNCHANGED <<phase, journal, world, crashes, failures>>

\* A failed write puts back what was in memory; the operation fails, which does
\* not matter to one that only cleans up.
WriteFails ==
  /\ phase = "up" /\ writer # None /\ writer' = None
  /\ failures < MaxFailures /\ failures' = failures + 1
  /\ journal' = writer.previous
  /\ Go(writer.id, IF op[writer.id].next.then = "idle" THEN "idle" ELSE "failed")
  /\ UNCHANGED <<phase, disk, world, crashes>>

-----------------------------------------------------------------------------
(* threads.create and threads.createSide *)

Ending(i) == op[i].at = "ended" \/ (op[i].next # None /\ op[i].next.then = "ended")
Unresolved(i) == Held(i) # None \/ (op[i].at # "idle" /\ ~Ending(i))

\* conflictingThreadCreationReservation, creationTargetAdmissions and
\* creationFingerprintAdmissions: an unresolved creation for the same folder or
\* with the same parameters.
Rival(i, j) ==
  /\ j # i /\ Unresolved(j)
  /\ Folder(i) = Folder(j) \/ Config[i] = Config[j]

Reservation(stage) == [stage |-> stage, baseline |-> None, session |-> None]

\* A request of an id that no creation is under way for, that has no thread yet
\* and no receipt.
Request(i) ==
  /\ At(i, "idle") /\ threads[i] = None /\ i \notin journal.receipts
  /\ ~ \E j \in Ids : Rival(i, j)
  /\ IF Held(i) = None THEN Wants(i, Reservation("reserved"), "reserved") ELSE Go(i, "reserved")
  /\ UNCHANGED <<phase, journal, disk, writer, world, crashes, failures>>

\* A request of an id whose thread is there ends the reservation it still has.
RequestAgain(i) ==
  /\ At(i, "idle") /\ threads[i] # None /\ Held(i) # None
  /\ Wants(i, None, "ended")
  /\ UNCHANGED <<phase, journal, disk, writer, world, crashes, failures>>

\* continueReservedThreadCreation: the sessions that are there before
Baseline(i) ==
  /\ At(i, "reserved")
  /\ IF Held(i).baseline = None
     THEN Wants(i, [Held(i) EXCEPT !.baseline = sessions, !.stage = "ready"], "prepared")
     ELSE Go(i, "prepared")
  /\ UNCHANGED <<phase, journal, disk, writer, world, crashes, failures>>

\* Mutant: a reservation that was asking already asks again.
AskAgain(i) ==
  /\ At(i, "prepared") /\ Held(i).session = None
  /\ Wants(i, [Held(i) EXCEPT !.stage = "requesting"], "asking")
  /\ UNCHANGED <<phase, journal, disk, writer, world, crashes, failures>>

\* The request for a session is journaled before it is sent.
Ask(i) ==
  /\ At(i, "prepared") /\ Held(i).session = None /\ Held(i).stage # "requesting"
  /\ Wants(i, [Held(i) EXCEPT !.stage = "requesting"], "asking")
  /\ UNCHANGED <<phase, journal, disk, writer, world, crashes, failures>>

\* A session that is bound is resumed.
Resume(i) ==
  /\ At(i, "prepared") /\ Held(i).session # None
  /\ Go(i, "configuring")
  /\ UNCHANGED <<phase, journal, disk, writer, world, crashes, failures>>

Owned == {threads[j] : j \in Ids} \cup {Held(j).session : j \in {k \in Ids : Held(k) # None}}
Candidates(i) ==
  {s \in sessions : Folder(s[1]) = Folder(i) /\ s \notin Held(i).baseline /\ s \notin Owned}

\* One that asked before looks for the one session that may be its own.
Adopt(i) ==
  /\ At(i, "prepared") /\ Held(i).session = None /\ Held(i).stage = "requesting"
  /\ IF (i \in Isolated \/ i \in Side) /\ Held(i).baseline # None
        /\ Cardinality(Candidates(i)) = 1
     THEN \E s \in Candidates(i) :
            Wants(i, [Held(i) EXCEPT !.stage = "bound", !.session = s], "configuring")
     ELSE Go(i, "failed")
  /\ UNCHANGED <<phase, journal, disk, writer, world, crashes, failures>>

SendNew(i) ==
  /\ At(i, "asking") /\ Go(i, "waiting") /\ asked' = asked \cup {i}
  /\ UNCHANGED <<phase, journal, disk, writer, threads, sessions, crashes, failures>>

\* The answer: a session; a rejection, after which the id may ask again; or none
\* in time, or of a session that the runtime has made or will.
Bind(i) ==
  /\ At(i, "waiting") /\ i \notin asked
  /\ \E s \in sessions :
       /\ s[1] = i /\ Cardinality({x \in sessions : x[1] = i}) = s[2]
       /\ Wants(i, [Held(i) EXCEPT !.stage = "bound", !.session = s], "configuring")
  /\ UNCHANGED <<phase, journal, disk, writer, world, crashes, failures>>
Rejected(i) ==
  /\ At(i, "waiting") /\ i \in asked /\ asked' = asked \ {i}
  /\ Wants(i, [Held(i) EXCEPT !.stage = "ready"], "failed")
  /\ UNCHANGED <<phase, journal, disk, writer, threads, sessions, crashes, failures>>
Unanswered(i) ==
  /\ At(i, "waiting") /\ Go(i, "failed")
  /\ UNCHANGED <<phase, journal, disk, writer, world, crashes, failures>>

\* The runtime makes a session for a request, also one nobody waits for.
Make(by) == <<by, Cardinality({s \in sessions : s[1] = by}) + 1>>
MakeSession ==
  /\ \E i \in asked :
       /\ asked' = asked \ {i}
       /\ sessions' = sessions \cup {Make(i)}
  /\ UNCHANGED <<parts, threads, crashes, failures>>

\* Another program makes one in the shared folder.
ForeignSession ==
  /\ ~ \E s \in sessions : s[1] = Foreign
  /\ sessions' = sessions \cup {Make(Foreign)}
  /\ UNCHANGED <<parts, threads, asked, crashes, failures>>

\* The session is configured and the thread stored, then the reservation becomes
\* a receipt. Without a model or with a session that has a thread it fails.
Store(i) ==
  /\ At(i, "configuring")
  /\ \/ /\ \A j \in Ids : threads[j] # Held(i).session
        /\ threads' = [threads EXCEPT ![i] = Held(i).session]
        /\ Wants(i, None, "created")
     \/ Go(i, "failed") /\ UNCHANGED threads
  /\ UNCHANGED <<phase, journal, disk, writer, asked, sessions, crashes, failures>>
Created(i) ==
  /\ At(i, "created") \/ At(i, "ended")
  /\ Go(i, "idle")
  /\ UNCHANGED <<phase, journal, disk, writer, world, crashes, failures>>

\* A failed creation that has not asked for a session removes its reservation,
\* unless its worktree cannot be discarded.
Fail(i) ==
  /\ At(i, "failed")
  /\ \/ Held(i) # None /\ Held(i).stage \notin {"requesting", "bound"} /\ Wants(i, None, "idle")
     \/ /\ Held(i) # None /\ Held(i).stage \notin {"requesting", "bound"} => i \in Isolated
        /\ Go(i, "idle")
  /\ UNCHANGED <<phase, journal, disk, writer, world, crashes, failures>>

\* The runtime is not ready, or a step before the session fails.
Unready(i) ==
  /\ \E place \in {"reserved", "prepared"} : At(i, place)
  /\ Go(i, "failed")
  /\ UNCHANGED <<phase, journal, disk, writer, world, crashes, failures>>

\* threads.delete, which makes sure of the receipt first
Delete(i) ==
  /\ phase = "up" /\ threads[i] # None
  /\ Held(i) = None /\ i \in journal.receipts /\ (writer # None => writer.id # i)
  /\ threads' = [threads EXCEPT ![i] = None]
  /\ UNCHANGED <<parts, asked, sessions, crashes, failures>>

-----------------------------------------------------------------------------
(* Ends and starts of the server *)

\* A write under way happened or not; or the file is missing and its backup not.
Crash ==
  /\ crashes < MaxCrashes /\ crashes' = crashes + 1
  /\ phase = "up" \/ (phase = "restored" /\ CrashesInLoad)
  /\ phase' = "down" /\ writer' = None /\ op' = [i \in Ids |-> Idle]
  /\ disk' \in {disk} \cup IF writer = None THEN {} ELSE {Written}
  /\ journal' = NoJournal
  /\ UNCHANGED <<world, failures>>

\* loadThreadCreationJournal. A recovered reservation without a session may have
\* asked for one since; a thread that is there is a receipt.
Loaded(value, recovered) ==
  LET there == {i \in Ids : threads[i] # None}
      Held2(r) == IF r # None /\ recovered /\ r.session = None
                  THEN [r EXCEPT !.stage = "requesting"] ELSE r
  IN [held |-> [i \in Ids |-> IF i \in there THEN None ELSE Held2(value.held[i])],
      receipts |-> value.receipts \cup there]

Load(value, recovered) ==
  /\ phase' = "up" /\ journal' = Loaded(value, recovered)
  /\ disk' = IF journal' = value THEN disk ELSE [now |-> journal', before |-> value]
  /\ UNCHANGED <<writer, op, world, crashes, failures>>

Open == phase = "down" /\ Load(disk.now, FALSE)

\* The file is damaged: the value before is written back, and then loaded.
Restore ==
  /\ phase = "down" /\ PowerLoss /\ disk.before # disk.now
  /\ phase' = "restored" /\ disk' = [now |-> disk.before, before |-> disk.before]
  /\ UNCHANGED <<journal, writer, op, world, crashes, failures>>
OpenRestored == phase = "restored" /\ Load(disk.now, TRUE)

Next ==
  \/ BeginWrite \/ EndWrite \/ WriteFails \/ MakeSession \/ ForeignSession
  \/ \E i \in Ids :
       \/ Request(i) \/ RequestAgain(i) \/ Baseline(i) \/ Ask(i) \/ Resume(i) \/ Adopt(i)
       \/ SendNew(i) \/ Bind(i) \/ Rejected(i) \/ Unanswered(i)
       \/ Store(i) \/ Created(i) \/ Fail(i) \/ Unready(i) \/ Delete(i)
  \/ Crash \/ Open \/ Restore \/ OpenRestored

Spec == Init /\ [][Next]_vars

-----------------------------------------------------------------------------
(* Properties *)

Stages == {"reserved", "ready", "requesting", "bound"}
TypeOK ==
  /\ phase \in {"up", "restored", "down"}
  /\ \A i \in Ids : Held(i) # None =>
       /\ Held(i).stage \in Stages
       /\ Held(i).stage = "bound" <=> Held(i).session # None
       /\ Held(i).session # None => Held(i).session \in sessions
  /\ \A i \in Ids : threads[i] # None => threads[i] \in sessions
  /\ writer # None => op[writer.id].at = "writing"

\* However often a creation is tried again, over lost answers, failed writes,
\* crashes and a journal that reads an older value: the runtime makes at most one
\* session for its id; with CrashesInLoad a crash of the load can lose the mark
\* that the journal may be old, and there may be two.
OneSessionEach ==
  \A i \in Ids :
    Cardinality({s \in sessions : s[1] = i}) + (IF i \in asked THEN 1 ELSE 0) <= 1
=============================================================================
