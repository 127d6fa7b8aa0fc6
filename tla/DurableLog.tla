------------------------------ MODULE DurableLog ------------------------------
(***************************************************************************)
(* What the event store promises the server: a log per thread that loses   *)
(* nothing it has shown, over crashes and compactions.  A thread is there  *)
(* while its log is not empty; its events are numbered from 1 on.           *)
(***************************************************************************)
EXTENDS Integers, FiniteSets

CONSTANTS Threads, Events

VARIABLES
  log,    \* the durable events of each thread
  shown,  \* the events the running server has applied and published
  up      \* the server runs

vars == <<log, shown, up>>

Entry == [seq : Nat \ {0}, event : Events]

TypeOK ==
  /\ log \in [Threads -> SUBSET Entry]
  /\ shown \in [Threads -> SUBSET Entry]
  /\ up \in BOOLEAN

Init ==
  /\ log = [t \in Threads |-> {}]
  /\ shown = log
  /\ up = FALSE

\* A thread begins, or goes on: its events are numbered without gaps.
Store(t, e) ==
  /\ up /\ shown = log
  /\ log' = [log EXCEPT ![t] = @ \cup {[seq |-> Cardinality(@) + 1, event |-> e]}]
  /\ UNCHANGED <<shown, up>>

\* A thread is deleted.
Delete(t) ==
  /\ up /\ shown = log
  /\ log' = [log EXCEPT ![t] = {}]
  /\ UNCHANGED <<shown, up>>

\* What is shown is durable.
Show ==
  /\ up /\ shown' = log
  /\ UNCHANGED <<log, up>>

\* Only what was shown is lost in a crash, and all of the log comes back.
Crash == up /\ up' = FALSE /\ shown' = log /\ UNCHANGED log
Reopen == ~up /\ up' = TRUE /\ UNCHANGED <<log, shown>>

Next ==
  \/ \E t \in Threads : Delete(t) \/ \E e \in Events : Store(t, e)
  \/ Show \/ Crash \/ Reopen

Spec == Init /\ [][Next]_vars

=============================================================================
