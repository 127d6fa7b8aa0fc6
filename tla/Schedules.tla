------------------------------- MODULE Schedules -------------------------------
(***************************************************************************)
(* Scheduled prompts: the store (apps/server/src/schedule-store.ts), whose *)
(* mutations are chained and written before they count, and the server's   *)
(* timer that claims what is due and queues it (runDueSchedules,           *)
(* enqueueScheduledTurn). Time is counted in days; an edit starts a new    *)
(* life of a schedule (edit), in which a slot may come again.              *)
(***************************************************************************)
EXTENDS Integers, FiniteSets, SequencesExt

CONSTANTS Ids, None, MaxDay, MaxEdits, MaxOps, MaxCrashes, MaxFailures

VARIABLES
  schedules,  \* #schedules, as written
  chain,      \* #mutation: the operations asked for and not yet carried out
  checker,    \* runDueSchedules: "idle", "asked" (takeDue) or "queueing"
  claims,     \* what takeDue returned and is not yet queued
  runs,       \* the claims that were queued (history)
  twice,      \* a claim was queued that had been before (history)
  gone,       \* schedules whose deletion was acknowledged (history)
  day, crashes, failures

vars == <<schedules, chain, checker, claims, runs, twice, gone, day, crashes, failures>>

Init ==
  /\ schedules = [i \in Ids |-> None] /\ chain = <<>> /\ checker = "idle"
  /\ claims = {} /\ runs = {} /\ twice = FALSE /\ gone = {}
  /\ day = 0 /\ crashes = 0 /\ failures = 0

-----------------------------------------------------------------------------
(* What each operation makes of the schedules.                             *)

Due(s) == s # None /\ s.on /\ s.next <= day

\* Mutant: a claim advances a recurring schedule from its slot, into the past too.
ClaimedNext(s) == IF s.once THEN s ELSE [s EXCEPT !.next = @ + 1]

\* A one-time schedule is done; the next slot of another lies ahead of now.
Claimed(s) == IF s.once THEN [s EXCEPT !.on = FALSE] ELSE [s EXCEPT !.next = day + 1]

Changed(op, on) ==
  CASE op.kind = "create" -> [on EXCEPT ![op.id] = op.with]
    [] op.kind = "update" -> [on EXCEPT ![op.id] = IF @ = None THEN None
                                 ELSE [on |-> op.with.on, next |-> op.with.next,
                                       once |-> @.once, edit |-> @.edit + 1]]
    [] op.kind = "delete" -> [on EXCEPT ![op.id] = None]
    [] op.kind = "take"   -> [i \in Ids |-> IF Due(on[i]) THEN Claimed(on[i]) ELSE on[i]]
    [] op.kind = "record" -> on

Ask(op) == chain' = Append(chain, op)
Op(kind, id, with) == [kind |-> kind, id |-> id, with |-> with]

\* The requests of a window (schedules.create, update, delete).
Create(i) ==
  /\ Len(chain) < MaxOps /\ schedules[i] = None /\ i \notin gone
  /\ ~\E j \in DOMAIN chain : chain[j].kind = "create" /\ chain[j].id = i
  /\ \E once \in BOOLEAN, next \in day..MaxDay :
       Ask(Op("create", i, [on |-> TRUE, next |-> next, once |-> once, edit |-> 0]))
  /\ UNCHANGED <<schedules, checker, claims, runs, twice, gone, day, crashes, failures>>

Update(i) ==
  /\ Len(chain) < MaxOps /\ schedules[i] # None /\ schedules[i].edit < MaxEdits
  /\ \E on \in BOOLEAN, next \in 0..MaxDay :
       Ask(Op("update", i, [on |-> on, next |-> next]))
  /\ UNCHANGED <<schedules, checker, claims, runs, twice, gone, day, crashes, failures>>

Delete(i) ==
  /\ Len(chain) < MaxOps /\ schedules[i] # None /\ Ask(Op("delete", i, None))
  /\ UNCHANGED <<schedules, checker, claims, runs, twice, gone, day, crashes, failures>>

\* The first operation of the chain is written and then counts.
Mutate ==
  /\ chain # <<>>
  /\ LET op == Head(chain)  next == Changed(op, schedules) IN
     /\ schedules' = next /\ chain' = Tail(chain)
     /\ gone' = IF op.kind = "delete" THEN gone \cup {op.id} ELSE gone
     /\ IF op.kind = "take"
        THEN /\ checker' = "queueing"
             /\ claims' = {[id |-> i, edit |-> schedules[i].edit, slot |-> schedules[i].next] :
                             i \in {j \in Ids : Due(schedules[j])}}
        ELSE UNCHANGED <<checker, claims>>
  /\ UNCHANGED <<runs, twice, day, crashes, failures>>

\* Its write fails: nothing changed, and the scan that asked is over.
MutateFails ==
  /\ chain # <<>> /\ failures < MaxFailures /\ failures' = failures + 1
  /\ chain' = Tail(chain)
  /\ checker' = IF Head(chain).kind = "take" THEN "idle" ELSE checker
  /\ UNCHANGED <<schedules, claims, runs, twice, gone, day, crashes>>

-----------------------------------------------------------------------------
(* The timer of the server.                                                *)

RunDue ==
  /\ checker = "idle" /\ \E i \in Ids : Due(schedules[i])
  /\ Len(chain) < MaxOps
  /\ checker' = "asked" /\ Ask(Op("take", None, None))
  /\ UNCHANGED <<schedules, claims, runs, twice, gone, day, crashes, failures>>

\* The claim is queued, or refused because its chat or its permission changed;
\* either is recorded.
Enqueue(c) ==
  /\ checker = "queueing" /\ c \in claims /\ Len(chain) < MaxOps
  /\ claims' = claims \ {c} /\ Ask(Op("record", c.id, None))
  /\ \/ runs' = runs \cup {c} /\ twice' = (twice \/ c \in runs)
     \/ UNCHANGED <<runs, twice>>
  /\ UNCHANGED <<schedules, checker, gone, day, crashes, failures>>

Checked ==
  /\ checker = "queueing" /\ claims = {} /\ checker' = "idle"
  /\ UNCHANGED <<schedules, chain, claims, runs, twice, gone, day, crashes, failures>>

Tick ==
  /\ day < MaxDay /\ day' = day + 1
  /\ UNCHANGED <<schedules, chain, checker, claims, runs, twice, gone, crashes, failures>>

\* A crash: what was claimed and not yet queued is lost.
Crash ==
  /\ crashes < MaxCrashes /\ crashes' = crashes + 1
  /\ chain' = <<>> /\ checker' = "idle" /\ claims' = {}
  /\ UNCHANGED <<schedules, runs, twice, gone, day, failures>>

Next ==
  \/ \E i \in Ids : Create(i) \/ Update(i) \/ Delete(i)
  \/ Mutate \/ MutateFails \/ RunDue \/ Checked \/ Tick \/ Crash
  \/ \E c \in claims : Enqueue(c)

Spec == Init /\ [][Next]_vars

TypeOK ==
  /\ \A i \in Ids : schedules[i] # None => schedules[i].next \in 0..MaxDay + 1
  /\ checker \in {"idle", "asked", "queueing"} /\ gone \subseteq Ids

(* No slot of a schedule is queued twice, however scans, edits, failed     *)
(* writes and crashes fall together, so that missed slots are not made up  *)
(* for; and neither a scan nor a result brings a deleted schedule back.    *)
SlotsRunOnce == ~twice /\ \A i \in gone : schedules[i] = None
=============================================================================
