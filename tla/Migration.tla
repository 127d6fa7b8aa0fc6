------------------------------- MODULE Migration -------------------------------
(***************************************************************************)
(* The executor of the approved repository migration (scripts/execute-     *)
(* approved-migration.mjs): a fixed sequence of irreversible remote steps, *)
(* each recorded in a hash-chained journal before and after it happens,    *)
(* under a lock file that a later run may recover from a dead one.         *)
(*                                                                         *)
(* A run is one life of the script.  An action is what a run does between  *)
(* two awaits that another run, GitHub or a crash can come between; a      *)
(* snapshot of the remote is one action.                                   *)
(***************************************************************************)
EXTENDS Integers, FiniteSets, Sequences, SequencesExt

CONSTANTS
  Runs,              \* lives of the script
  NoRun,
  Pulls,             \* manifest: pull requests to close, in order
  Components,        \* manifest: settings to configure, in order
  CapturedDesired,   \* those already as desired when the manifest was captured
  Concurrent,        \* runs may be started while another lives
  Recoverers,        \* runs whose operator passes the hash of a stale lock
  LateClose,         \* GitHub closes the pulls of deleted branches at leisure
  TornWrites,        \* a crash or a full disk may leave part of a write
  MaxFaults,         \* crashes, lost answers, failed writes
  MaxInterference    \* changes to the remote by someone else

VARIABLES
  remote,            \* what GitHub holds
  journal, torn,     \* complete records of the journal; part of one behind them
  lock, written,     \* the run whose file the lock path names; those with content
  evidence,          \* the file each recovered stale lock was renamed to
  run,               \* each run's place and locals
  applied,           \* history: the steps that took effect on the remote
  faults, interference

vars == <<remote, journal, torn, lock, written, evidence, run, applied, faults, interference>>

\* buildMutationSteps
Steps == <<"user-site-main", "source-refs", "rename">> \o Pulls \o Components
PullSet == ToSet(Pulls)
ComponentSet == ToSet(Components)

Phase == {"old", "new"}
Durable == [userSite : Phase, sourceRefs : Phase, rename : Phase,
            open : SUBSET PullSet, desired : SUBSET ComponentSet]

\* approvedOldDurableState
ApprovedOld == [userSite |-> "old", sourceRefs |-> "old", rename |-> "old",
                open |-> PullSet, desired |-> CapturedDesired]

\* exactOldOrNew, exactComponentPhase: "other" is neither the old nor the new value.
ComponentPhase == Phase \cup {"other"}

\* What a snapshot shows.
Remote == [userSite : ComponentPhase, sourceRefs : ComponentPhase, rename : Phase,
           open : SUBSET PullSet, component : [ComponentSet -> ComponentPhase],
           workflows : BOOLEAN, pages : BOOLEAN]

\* durableState(classifyState(...))
Classified(r) ==
  [userSite |-> r.userSite, sourceRefs |-> r.sourceRefs, rename |-> r.rename, open |-> r.open,
   desired |-> {c \in ComponentSet : r.component[c] = "new"}]

\* classifyState and assertRemotePrerequisites do not throw.
Acceptable(r) ==
  /\ r.userSite # "other" /\ r.sourceRefs # "other"
  /\ \A c \in ComponentSet : r.component[c] # "other"
  /\ r.sourceRefs = "new" => r.userSite = "new"
  /\ r.rename = "new" => r.sourceRefs = "new"
  /\ r.open # PullSet => r.sourceRefs = "new"
  /\ ~r.workflows

Complete(s) == /\ s.userSite = "new" /\ s.sourceRefs = "new" /\ s.rename = "new"
               /\ s.open = {} /\ s.desired = ComponentSet

\* Mutant: a pull request closed by the push is a change outside of the step.
StepMayClosing(step, before, after) ==
  \/ step = "user-site-main" /\ after = [before EXCEPT !.userSite = "new"]
  \/ step = "source-refs" /\ after = [before EXCEPT !.sourceRefs = "new"]
  \/ step = "rename" /\ after = [before EXCEPT !.rename = "new"]
  \/ step \in PullSet /\ after = [before EXCEPT !.open = @ \ {step}]
  \/ step \in ComponentSet /\ after = [before EXCEPT !.desired = @ \cup {step}]

\* assertStepTransition: the state after the step, and nothing else changed.
StepMay(step, before, after) ==
  \/ /\ step = "user-site-main" /\ before.userSite = "old"
     /\ after = [before EXCEPT !.userSite = "new"]
  \/ /\ step = "source-refs" /\ before.sourceRefs = "old"
     /\ after.open \subseteq before.open
     /\ after = [before EXCEPT !.sourceRefs = "new", !.open = after.open]
  \/ /\ step = "rename" /\ before.rename = "old"
     /\ after = [before EXCEPT !.rename = "new"]
  \/ step \in PullSet /\ after = [before EXCEPT !.open = @ \ {step}]
  \/ step \in ComponentSet /\ after = [before EXCEPT !.desired = @ \cup {step}]

\* stepPostconditionSatisfied
Satisfied(step, s) ==
  \/ step = "user-site-main" /\ s.userSite = "new"
  \/ step = "source-refs" /\ s.sourceRefs = "new"
  \/ step = "rename" /\ s.rename = "new"
  \/ step \in PullSet \ s.open
  \/ step \in s.desired

Record(seq, event, id, s) == [seq |-> seq, event |-> event, id |-> id, state |-> s]

\* What validateJournalPrefix knows of the records so far.
Finished(records) ==
  {i \in DOMAIN records : records[i].event \in {"step-completed", "step-recovered"}}
Ends(records, event) == records # <<>> /\ Last(records).event = event
Proof(records) ==
  [done |-> Cardinality(Finished(records)),
   proven |-> IF Finished(records) = {} THEN ApprovedOld
              ELSE records[Max(Finished(records))].state,
   pending |-> Ends(records, "step-started"), verified |-> Ends(records, "run-verified")]

\* It does not throw at the next record.
Follows(p, rec) ==
  /\ ~p.verified
  /\ \/ rec.event = "step-started" /\ ~p.pending /\ p.done < Len(Steps) /\ rec.id = Steps[p.done + 1]
     \/ /\ rec.event \in {"step-completed", "step-recovered"} /\ p.pending
        /\ rec.id = Steps[p.done + 1] /\ StepMay(rec.id, p.proven, rec.state)
     \/ /\ rec.event = "run-verified" /\ ~p.pending /\ p.done = Len(Steps)
        /\ rec.state = p.proven

\* The terminal step is recovered if the remote shows it.
Recovers(p, live) == p.pending /\ live # p.proven
ValidPrefix(records, live) ==
  /\ \A i \in DOMAIN records : Follows(Proof(SubSeq(records, 1, i - 1)), records[i])
  /\ LET p == Proof(records)
     IN live # p.proven => p.pending /\ StepMay(Steps[p.done + 1], p.proven, live)

\* loadJournal: complete lines that form one hash chain.
Readable == ~torn /\ \A i \in DOMAIN journal : journal[i].seq = i - 1

Fresh == [pc |-> "idle", hash |-> NoRun, records |-> <<>>, seen |-> ApprovedOld, event |-> "none"]
Alive(r) == run[r].pc \notin {"idle", "stopped"}
\* The lock is acquired and the finally block has not run.
Executing == {"write", "load", "validate", "append", "inspect", "decide", "execute", "after",
              "pages", "final", "unlink"}
Executors == {r \in Runs : run[r].pc \in Executing}

Init ==
  /\ remote = [userSite |-> "old", sourceRefs |-> "old", rename |-> "old", open |-> PullSet,
               component |-> [c \in ComponentSet |-> IF c \in CapturedDesired THEN "new" ELSE "old"],
               workflows |-> FALSE, pages |-> FALSE]
  /\ journal = <<>> /\ torn = FALSE
  /\ lock = NoRun /\ written = {} /\ evidence = [r \in Runs |-> NoRun]
  /\ run = [r \in Runs |-> Fresh]
  /\ applied = <<>> /\ faults = 0 /\ interference = 0

At(r, pc) == run[r].pc = pc
To(r, pc) == run' = [run EXCEPT ![r].pc = pc]
\* A throw inside the callback of withExclusive runs its finally block.
GoTo(r, ok, pc) == To(r, IF ok THEN pc ELSE "unlink")
Fault == faults < MaxFaults /\ faults' = faults + 1
Durables == <<remote, journal, torn, lock, written, evidence, applied, faults, interference>>

\* run: the operator starts it, with the hash that an earlier refusal printed;
\* the remote is classified once before the lock is taken.
Start(r) ==
  /\ At(r, "idle") /\ (Concurrent \/ \A o \in Runs : ~Alive(o))
  /\ LET hash == IF r \in Recoverers /\ lock \in written THEN lock ELSE NoRun
     IN run' = [run EXCEPT ![r].hash = hash,
                           ![r].pc = IF Acceptable(remote) THEN "open" ELSE "stopped"]
  /\ UNCHANGED Durables

\* withExclusive: open(lockPath, "wx")
OpenLock(r, pc, refused) ==
  /\ At(r, pc)
  /\ IF lock = NoRun THEN lock' = r /\ To(r, "write") ELSE lock' = lock /\ To(r, refused)
  /\ UNCHANGED <<remote, journal, torn, written, evidence, applied, faults, interference>>
Open(r) == OpenLock(r, "open", "stale")
Reopen(r) == OpenLock(r, "reopen", "stopped")

\* Mutant: the owner's process is not looked for.
ReadStaleAlive(r) ==
  /\ At(r, "stale")
  /\ To(r, IF lock \in written /\ lock = run[r].hash THEN "evidence" ELSE "stopped")
  /\ UNCHANGED Durables

\* The lock's bytes are those of the hash, and their process is dead.
ReadStale(r) ==
  /\ At(r, "stale")
  /\ To(r, IF lock \in written /\ lock = run[r].hash /\ ~Alive(lock) THEN "evidence" ELSE "stopped")
  /\ UNCHANGED Durables

CheckEvidence(r) ==
  /\ At(r, "evidence") /\ To(r, IF evidence[run[r].hash] = NoRun THEN "rename" ELSE "stopped")
  /\ UNCHANGED Durables

\* rename(lockPath, recoveredPath) moves whatever file the path names by now.
RenameLock(r) ==
  /\ At(r, "rename")
  /\ IF lock = NoRun
     THEN To(r, "stopped") /\ UNCHANGED <<lock, evidence>>
     ELSE lock' = NoRun /\ evidence' = [evidence EXCEPT ![run[r].hash] = lock] /\ To(r, "reread")
  /\ UNCHANGED <<remote, journal, torn, written, applied, faults, interference>>

Reread(r) ==
  /\ At(r, "reread")
  /\ To(r, IF evidence[run[r].hash] = run[r].hash THEN "reopen" ELSE "stopped")
  /\ UNCHANGED Durables

WriteLock(r) ==
  /\ At(r, "write") /\ To(r, "load") /\ written' = written \cup {r}
  /\ UNCHANGED <<remote, journal, torn, lock, evidence, applied, faults, interference>>

LoadJournal(r) ==
  /\ At(r, "load")
  /\ run' = [run EXCEPT ![r].pc = IF Readable THEN "validate" ELSE "unlink",
                        ![r].records = IF Readable THEN journal ELSE <<>>]
  /\ UNCHANGED Durables

KnownTo(r) == Proof(run[r].records)
StepOf(r) == Steps[KnownTo(r).done + 1]
NextStep(p) == IF p.done < Len(Steps) THEN "inspect" ELSE "pages"
\* The run goes on to append a record of this event in state s.
Appends(r, event, s) == [run EXCEPT ![r].pc = "append", ![r].event = event, ![r].seen = s]

\* Mutant: a terminal step-started is executed again without a look at the remote.
ValidateReplaying(r) ==
  /\ At(r, "validate")
  /\ To(r, IF KnownTo(r).pending THEN "execute" ELSE NextStep(KnownTo(r)))
  /\ UNCHANGED Durables

\* Inspect under the lock, validateJournalPrefix, recovery of the terminal step.
Validate(r) ==
  /\ At(r, "validate")
  /\ LET live == Classified(remote)
         valid == Acceptable(remote) /\ ValidPrefix(run[r].records, live)
     IN IF valid /\ Recovers(KnownTo(r), live) THEN run' = Appends(r, "step-recovered", live)
        ELSE GoTo(r, valid, NextStep(KnownTo(r)))
  /\ UNCHANGED Durables

\* The head of the loop: nothing but the journal's steps has changed the remote.
Inspect(r) ==
  /\ At(r, "inspect")
  /\ LET live == Classified(remote)
         next == IF KnownTo(r).pending THEN [run EXCEPT ![r].pc = "decide", ![r].seen = live]
                 ELSE Appends(r, "step-started", live)
     IN IF Acceptable(remote) /\ live = KnownTo(r).proven THEN run' = next ELSE To(r, "unlink")
  /\ UNCHANGED Durables

Decide(r) ==
  /\ At(r, "decide")
  /\ IF Satisfied(StepOf(r), run[r].seen) THEN run' = Appends(r, "step-recovered", run[r].seen)
     ELSE To(r, "execute")
  /\ UNCHANGED Durables

\* The pushes carry a lease on every ref they change; GitHub closes the pulls of
\* the branches that the atomic push deletes.
Effect(step) ==
  CASE step = "user-site-main" ->
         {x \in {[remote EXCEPT !.userSite = "new"]} : remote.userSite = "old"}
    [] step = "source-refs" ->
         {x \in {[remote EXCEPT !.sourceRefs = "new", !.open = @ \ closed] :
                   closed \in SUBSET remote.open} : remote.sourceRefs = "old"}
    [] step = "rename" -> {[remote EXCEPT !.rename = "new"]}
    [] step \in PullSet -> {[remote EXCEPT !.open = @ \ {step}]}
    [] OTHER -> {[remote EXCEPT !.component[step] = "new"]}

\* executeStep: the request takes effect, and its answer may be lost.
Execute(r) ==
  /\ At(r, "execute")
  /\ remote' \in Effect(StepOf(r)) /\ applied' = Append(applied, StepOf(r))
  /\ \/ To(r, "after") /\ faults' = faults
     \/ To(r, "unlink") /\ Fault
  /\ UNCHANGED <<journal, torn, lock, written, evidence, interference>>

\* It is rejected by a lease, or fails.
Reject(r) ==
  /\ At(r, "execute") /\ To(r, "unlink")
  /\ IF Effect(StepOf(r)) = {} THEN faults' = faults ELSE Fault
  /\ UNCHANGED <<remote, journal, torn, lock, written, evidence, applied, interference>>

\* Inspect after the mutation, assertStepAdvanced.
After(r) ==
  /\ At(r, "after")
  /\ LET live == Classified(remote)
     IN IF Acceptable(remote) /\ StepMay(StepOf(r), run[r].seen, live)
        THEN run' = Appends(r, "step-completed", live)
        ELSE To(r, "unlink")
  /\ UNCHANGED Durables

\* append; the first record creates the file.
AppendRecord(r) ==
  /\ At(r, "append")
  /\ LET event == run[r].event
         id == IF event = "run-verified" THEN "none" ELSE StepOf(r)
         records == Append(run[r].records, Record(Len(run[r].records), event, id, run[r].seen))
         exists == Len(records) = 1 /\ (journal # <<>> \/ torn)
         next == IF exists \/ event = "run-verified" THEN "unlink"
                 ELSE IF event = "step-started" THEN "decide" ELSE NextStep(Proof(records))
     IN /\ journal' = IF exists THEN journal ELSE Append(journal, Last(records))
        /\ run' = [run EXCEPT ![r].pc = next, ![r].records = records]
  /\ UNCHANGED <<remote, torn, lock, written, evidence, applied, faults, interference>>

\* The write fails, within the record or before it.
AppendFails(r) ==
  /\ At(r, "append") /\ Fault /\ To(r, "unlink")
  /\ torn' \in {torn, TornWrites \/ torn}
  /\ UNCHANGED <<remote, journal, lock, written, evidence, applied, interference>>

\* verifyPages: six attempts, or a throw.
VerifyPages(r) ==
  /\ At(r, "pages")
  /\ IF remote.pages THEN To(r, "final") /\ faults' = faults ELSE To(r, "unlink") /\ Fault
  /\ UNCHANGED <<remote, journal, torn, lock, written, evidence, applied, interference>>

Final(r) ==
  /\ At(r, "final")
  /\ LET live == Classified(remote)
     IN IF Acceptable(remote) /\ Complete(live) /\ ~KnownTo(r).verified
        THEN run' = Appends(r, "run-verified", live)
        ELSE To(r, "unlink")
  /\ UNCHANGED Durables

\* The finally block: unlink(lockPath), whoever's file it names by now.
Unlink(r) ==
  /\ At(r, "unlink") /\ lock' = NoRun
  /\ run' = [run EXCEPT ![r] = [Fresh EXCEPT !.pc = "stopped"]]
  /\ UNCHANGED <<remote, journal, torn, written, evidence, applied, faults, interference>>

\* A process dies; of what it was writing, part may be in the file.
Crash(r) ==
  /\ Alive(r) /\ Fault /\ (TornWrites \/ ~At(r, "write"))
  /\ torn' \in IF At(r, "append") THEN {torn, TornWrites \/ torn} ELSE {torn}
  /\ run' = [run EXCEPT ![r] = [Fresh EXCEPT !.pc = "stopped"]]
  /\ UNCHANGED <<remote, journal, lock, written, evidence, applied, interference>>

\* External: GitHub closes a pull whose branch is gone; Pages are published.
AutoClose ==
  /\ LateClose /\ remote.sourceRefs = "new"
  /\ \E p \in remote.open : remote' = [remote EXCEPT !.open = @ \ {p}]
  /\ UNCHANGED <<journal, torn, lock, written, evidence, run, applied, faults, interference>>

Publish ==
  /\ ~remote.pages /\ remote.rename = "new" /\ \A c \in ComponentSet : remote.component[c] = "new"
  /\ remote' = [remote EXCEPT !.pages = TRUE]
  /\ UNCHANGED <<journal, torn, lock, written, evidence, run, applied, faults, interference>>

\* External: someone else pushes, changes a setting, or a workflow runs.
Interfere ==
  /\ interference < MaxInterference /\ interference' = interference + 1
  /\ \/ remote' \in {[remote EXCEPT !.userSite = "other"], [remote EXCEPT !.sourceRefs = "other"]}
     \/ remote' \in {[remote EXCEPT !.component[c] = "other"] : c \in ComponentSet}
     \/ remote' = [remote EXCEPT !.workflows = ~@]
  /\ UNCHANGED <<journal, torn, lock, written, evidence, run, applied, faults>>

Acquire(r) == Open(r) \/ ReadStale(r) \/ CheckEvidence(r) \/ RenameLock(r) \/ Reread(r)
              \/ Reopen(r) \/ WriteLock(r)
Work(r) == LoadJournal(r) \/ Validate(r) \/ Inspect(r) \/ Decide(r) \/ Execute(r) \/ After(r)
           \/ AppendRecord(r) \/ VerifyPages(r) \/ Final(r) \/ Unlink(r)
Fail(r) == Reject(r) \/ AppendFails(r) \/ Crash(r)

Next == \/ \E r \in Runs : Start(r) \/ Acquire(r) \/ Work(r) \/ Fail(r)
        \/ AutoClose \/ Publish \/ Interfere

Spec == Init /\ [][Next]_vars
\* The event loop runs a run's next step; the operator starts a run after one
\* that stopped; GitHub publishes the pages.
LiveSpec == /\ Spec /\ WF_vars(Publish)
            /\ \A r \in Runs : WF_vars(Start(r)) /\ WF_vars(Acquire(r)) /\ WF_vars(Work(r))

TypeOK ==
  /\ remote \in Remote /\ torn \in BOOLEAN
  /\ \A i \in DOMAIN journal : journal[i].state \in Durable
  /\ lock \in Runs \cup {NoRun} /\ written \subseteq Runs
  /\ evidence \in [Runs -> Runs \cup {NoRun}]
  /\ \A r \in Runs : run[r].seen \in Durable

\* Two runs never execute at once (execute-approved-migration.test.mjs:883).
ExclusiveExecutor == Cardinality(Executors) <= 1

\* Every file that keeps a recovered lock holds the lock it is named for.
Intact == \A h \in Runs : evidence[h] \in {NoRun, h}

\* Two runs execute at once only after two have recovered one stale lock: both had
\* passed its checks, the second's rename took the lock that the first had created
\* since, and the file of the stale lock shows it (withExclusive).  Otherwise the lock
\* is one run's from its creation to its removal, whoever crashes or recovers.
ExclusiveWhileIntact == Intact => ExclusiveExecutor

\* No step takes effect twice, and none before one that precedes it in the
\* approved order, whatever crashed or whose answer was lost (unless two runs that
\* overlap recovered one stale lock).
AppliedOnceInOrder ==
  \A i, j \in DOMAIN applied : i < j =>
    \E m, n \in DOMAIN Steps : m < n /\ applied[i] = Steps[m] /\ applied[j] = Steps[n]

\* While no run executes and nobody interfered, the journal can be read and it
\* accounts for the remote, so that the next run resumes.
Resumable == (Executors = {} /\ interference = 0) =>
               Readable /\ ValidPrefix(journal, Classified(remote))

\* A crash leaves every record complete (docs/UPDATER_FEEDS.md:138).
RecordsAreAtomic == Readable

\* A lock whose run is dead can be recovered with its hash.
StaleLockRecoverable == lock # NoRun /\ ~Alive(lock) => lock \in written

\* The migration ends verified: whatever step a run fails or dies in, a later
\* one finishes.
Completes == <>(\E i \in DOMAIN journal : journal[i].event = "run-verified")
=============================================================================
