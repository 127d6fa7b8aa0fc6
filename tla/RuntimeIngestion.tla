--------------------------- MODULE RuntimeIngestion ---------------------------
(***************************************************************************)
(* The way of a thread's runtime output into its log                       *)
(* (apps/server/src/runtime-ingestion.ts): the chain of events received,   *)
(* the buffer of text and tool updates with its timer, and the chain of    *)
(* writes; with the server's turn that waits for it (startQueuedTurn,      *)
(* interruptTurn) and the runtime that may be replaced meanwhile.          *)
(*                                                                         *)
(* Text and tool updates differ in nothing here but what they merge with:  *)
(* a chunk has a key, and consecutive chunks of one key become one event.  *)
(* The events of a write go one by one into the queue of the engine        *)
(* (orchestration.ts), where the turn's own events wait in their order;    *)
(* what the engine does with them is module EventStore.                    *)
(***************************************************************************)
EXTENDS Integers, FiniteSets, SequencesExt

CONSTANTS
  Turns, Keys,     \* turns, and what chunks merge by
  None,
  Limit,           \* chunks buffered before they are written at once
  MaxChunks, MaxRestarts, MaxFailures

VARIABLES
  runtime,    \* the generation of the current runtime
  received,   \* the chunks that arrived so far
  ingress,    \* #ingressTails: chunks not yet taken in, in order
  taking,     \* how the first of them is written: the event and what it awaits
  pending,    \* #pending, the buffered events
  timer,      \* #timers
  tail,       \* #tails: writes, each a sequence of events
  engine,     \* the engine's #tail: the appends of this thread, in order
  log,        \* what is stored: events and ends of turns
  lost,       \* chunks dropped as stale or by a failed write
  turn,       \* the thread's activeTurnId
  settling,   \* what the owner of the turn does
  failures

buffers == <<ingress, taking, pending, timer, tail>>
owner == <<turn, settling>>
vars == <<runtime, received, buffers, engine, log, lost, owner, failures>>

-----------------------------------------------------------------------------

Direct == "direct"    \* what is not buffered: plans, new tools, approvals, modes
NoEvents == <<>>
Chunks(events) == FlattenSeq([i \in DOMAIN events |-> events[i].chunks])
Of(events) == ToSet(Chunks(events))

\* The chunks within each event, and from one event to the next, ascend.
Ascending(s) == \A i, j \in DOMAIN s : i < j => s[i] < s[j]
InOrder(events) ==
  /\ \A i \in DOMAIN events : Ascending(events[i].chunks)
  /\ \A i, j \in DOMAIN events : i < j =>
       \A m \in ToSet(events[i].chunks), n \in ToSet(events[j].chunks) : m < n

Init ==
  /\ runtime = 1 /\ received = 0
  /\ ingress = <<>> /\ taking = None
  /\ pending = NoEvents /\ timer = FALSE /\ tail = <<>> /\ engine = <<>>
  /\ log = <<>> /\ lost = {}
  /\ turn = None /\ settling = "idle"
  /\ failures = 0

\* A chunk of the current runtime arrives; from is the turn that was at work, neither
\* answered nor stopped (history).
Receive ==
  /\ received < MaxChunks /\ received' = received + 1
  /\ \E key \in Keys \cup {Direct} :
       ingress' = Append(ingress, [n |-> received', key |-> key, gen |-> runtime,
                                   from |-> IF settling = "idle" THEN turn ELSE None])
  /\ UNCHANGED <<runtime, taking, pending, timer, tail, engine, log, lost, owner, failures>>

\* Mutant: the buffer is put before other writes.
FlushFirst ==
  /\ tail' = IF pending = NoEvents THEN tail ELSE <<pending>> \o tail
  /\ pending' = NoEvents /\ timer' = FALSE

\* #flushNow: the buffer becomes a write.
Flush ==
  /\ tail' = IF pending = NoEvents THEN tail ELSE Append(tail, pending)
  /\ pending' = NoEvents /\ timer' = FALSE

\* #queue: merged into the last event when both are of one runtime, turn and key.
Queued(event) ==
  IF /\ pending # NoEvents
     /\ LET last == Last(pending) IN
        last.gen = event.gen /\ last.key = event.key /\ last.turn = event.turn
  THEN ReplaceAt(pending, Len(pending), [Last(pending) EXCEPT !.chunks = @ \o event.chunks])
  ELSE Append(pending, event)

\* The first of the chain is dropped as stale, buffered, or waits for the buffer
\* to be written.
Take ==
  /\ ingress # <<>> /\ taking = None
  /\ LET chunk == Head(ingress)
         event == [key |-> chunk.key, turn |-> turn, gen |-> chunk.gen,
                   from |-> chunk.from, chunks |-> <<chunk.n>>]
         buffer == Queued(event)
     IN  \/ /\ chunk.gen # runtime
            /\ ingress' = Tail(ingress) /\ lost' = lost \cup {chunk.n}
            /\ UNCHANGED <<taking, pending, timer, tail>>
         \/ /\ chunk.gen = runtime /\ chunk.key = Direct
            /\ Flush
            /\ taking' = [event |-> event,
                          awaits |-> IF pending = NoEvents THEN "tail" ELSE "flush"]
            /\ UNCHANGED <<ingress, lost>>
         \/ /\ chunk.gen = runtime /\ chunk.key # Direct
            /\ Len(Chunks(buffer)) < Limit
            /\ pending' = buffer /\ timer' = TRUE
            /\ ingress' = Tail(ingress)
            /\ UNCHANGED <<taking, tail, lost>>
         \/ /\ chunk.gen = runtime /\ chunk.key # Direct
            /\ Len(Chunks(buffer)) >= Limit
            /\ tail' = Append(tail, buffer) /\ pending' = NoEvents /\ timer' = FALSE
            /\ taking' = [event |-> event, awaits |-> "write"]
            /\ UNCHANGED <<ingress, lost>>
  /\ UNCHANGED <<runtime, received, engine, log, owner, failures>>

\* The buffer is written: a chunk that is not buffered is written behind it.
WriteDirect ==
  /\ taking # None /\ tail = <<>> /\ taking.awaits \in {"tail", "flush"}
  /\ tail' = <<<<taking.event>>>>
  /\ taking' = [taking EXCEPT !.awaits = "write"]
  /\ UNCHANGED <<runtime, received, ingress, pending, timer, engine, log, lost, owner,
                 failures>>
Taken ==
  /\ taking # None /\ tail = <<>> /\ taking.awaits = "write"
  /\ ingress' = Tail(ingress) /\ taking' = None
  /\ UNCHANGED <<runtime, received, pending, timer, tail, engine, log, lost, owner, failures>>

\* What an append is for: an event of the first write, or the turn's own event.
Op(o, t) == [op |-> o, turn |-> t]
Writing == \E i \in DOMAIN engine : engine[i].op = "write"
Rest ==
  IF Len(Head(tail)) = 1 THEN Tail(tail) ELSE <<Tail(Head(tail))>> \o Tail(tail)

\* The next event of the first write is appended, or skipped as stale.
Submit ==
  /\ tail # <<>> /\ ~Writing
  /\ LET event == Head(Head(tail)) IN
     \/ /\ event.gen = runtime
        /\ engine' = Append(engine, Op("write", None))
        /\ UNCHANGED <<tail, lost>>
     \/ /\ event.gen # runtime
        /\ tail' = Rest /\ lost' = lost \cup Of(<<event>>)
        /\ UNCHANGED engine
  /\ UNCHANGED <<runtime, received, ingress, taking, pending, timer, log, owner, failures>>

\* Promise callbacks run before a timer fires or a write is done.
CallbacksRan ==
  /\ ingress # <<>> => taking # None
  /\ taking # None => tail # <<>>
  /\ tail # <<>> => Writing

\* Mutant: the timer is gone and the buffer stays.
TimerForgets ==
  /\ timer /\ CallbacksRan
  /\ timer' = FALSE
  /\ UNCHANGED <<runtime, received, ingress, taking, pending, tail, engine, log, lost,
                 owner, failures>>

TimerFires ==
  /\ timer /\ CallbacksRan
  /\ Flush
  /\ UNCHANGED <<runtime, received, ingress, taking, engine, log, lost, owner, failures>>

Next1(o) == engine # <<>> /\ Head(engine).op = o /\ engine' = Tail(engine) /\ CallbacksRan

\* The event is stored.
Written ==
  /\ Next1("write")
  /\ log' = Append(log, Head(Head(tail))) /\ tail' = Rest
  /\ UNCHANGED <<runtime, received, ingress, taking, pending, timer, lost, owner, failures>>

\* A failed append takes the rest of the buffer with it, and the chunk that waits
\* for it to be flushed.  If it was flushed for an answer, the error path flushes
\* again; if for that or for a stop, the turn stays.
WriteFails ==
  /\ Next1("write")
  /\ failures < MaxFailures /\ failures' = failures + 1
  /\ tail' = Tail(tail)
  /\ LET dropped == taking # None /\ Len(tail) = 1 /\ taking.awaits = "flush" IN
     /\ lost' = lost \cup Of(Head(tail)) \cup IF dropped THEN Of(<<taking.event>>) ELSE {}
     /\ taking' = IF dropped THEN None ELSE taking
     /\ ingress' = IF dropped THEN Tail(ingress) ELSE ingress
  /\ settling' \in CASE settling = "answered" -> {settling, "erred"}
                     [] settling \in {"erred", "stopped"} -> {settling, "idle"}
                     [] OTHER -> {settling}
  /\ UNCHANGED <<runtime, received, pending, timer, log, turn>>

\* The runtime is closed and another one started (startRuntime).
Restart ==
  /\ runtime <= MaxRestarts /\ runtime' = runtime + 1
  /\ UNCHANGED <<received, buffers, engine, log, lost, owner, failures>>

-----------------------------------------------------------------------------
(* The turn *)

End(of) == [key |-> "end", turn |-> of, gen |-> runtime, from |-> of, chunks |-> <<>>]
ended == {log[i].turn : i \in {j \in DOMAIN log : log[j].key = "end"}}

Outside == <<runtime, received, buffers, lost, failures>>
Appends(o, t, s) ==
  /\ engine' = Append(engine, Op(o, t)) /\ settling' = s
  /\ UNCHANGED <<Outside, log, turn>>

\* TurnStarted is appended, and stored.
StartTurn ==
  /\ turn = None /\ settling = "idle" /\ CallbacksRan
  /\ \E t \in Turns \ ended : Appends("start", t, "starting")
Started ==
  /\ Next1("start")
  /\ turn' = Head(engine).turn /\ settling' = "idle"
  /\ UNCHANGED <<Outside, log>>

\* The prompt is answered, or the turn is stopped, which is stored first.
Answer ==
  /\ turn # None /\ settling = "idle" /\ settling' = "answered"
  /\ UNCHANGED <<Outside, engine, log, turn>>
Stop == turn # None /\ settling = "idle" /\ CallbacksRan /\ Appends("phase", turn, "stopping")
Stopping ==
  /\ Next1("phase") /\ settling' = "stopped"
  /\ UNCHANGED <<Outside, log, turn>>

\* flush: it writes the buffer and waits, until nothing is left.
Flushing == settling \in {"answered", "erred", "stopped"}
Drained == ingress = <<>> /\ pending = NoEvents /\ tail = <<>>
FlushRound ==
  /\ Flushing /\ pending # NoEvents /\ Flush
  /\ UNCHANGED <<runtime, received, ingress, taking, engine, log, lost, owner, failures>>
FlushDone ==
  /\ Flushing /\ Drained /\ settling' = "flushed"
  /\ UNCHANGED <<Outside, engine, log, turn>>

\* TurnCompleted or TurnCancelled is appended; a stop waits for 250 ms only.
EndTurn == settling = "flushed" /\ CallbacksRan /\ Appends("end", turn, "ending")
FlushTimesOut ==
  /\ settling = "stopped" /\ ~Drained /\ CallbacksRan /\ Appends("end", turn, "ending")
Ended ==
  /\ Next1("end") /\ log' = Append(log, End(turn))
  /\ turn' = None /\ settling' = "idle"
  /\ UNCHANGED Outside

Stored == Written \/ Started \/ Stopping \/ Ended

Next ==
  \/ Receive \/ Take \/ WriteDirect \/ Taken \/ TimerFires \/ Submit \/ WriteFails
  \/ Restart
  \/ StartTurn \/ Answer \/ Stop \/ FlushRound \/ FlushDone \/ FlushTimesOut \/ EndTurn
  \/ Stored

Spec == Init /\ [][Next]_vars

\* Promise chains, timers and writes go on; nobody has to stop a turn.
FairSpec ==
  /\ Spec
  /\ WF_vars(Take) /\ WF_vars(WriteDirect) /\ WF_vars(Taken)
  /\ WF_vars(TimerFires) /\ WF_vars(Submit) /\ WF_vars(Stored)
  /\ WF_vars(FlushDone) /\ WF_vars(EndTurn)

-----------------------------------------------------------------------------
(* Properties *)

stored == ToSet(Chunks(log))

TypeOK ==
  /\ runtime \in 1..MaxRestarts + 1 /\ received \in 0..MaxChunks
  /\ \A i \in DOMAIN ingress : ingress[i].n \in 1..received /\ ingress[i].gen \in 1..runtime
  /\ taking # None => ingress # <<>> /\ taking.event.chunks = <<Head(ingress).n>>
  /\ timer <=> pending # NoEvents
  /\ stored \cap lost = {} /\ stored \cup lost \subseteq 1..received
  /\ turn \in Turns \cup {None}
  /\ settling \notin {"idle", "starting"} => turn # None
  /\ Writing => tail # <<>>

\* What is stored is stored in the order of arrival and once, across merging,
\* timers, flushes and runtimes: nothing of a replaced runtime follows output of
\* its successor.
StoredInOrder == InOrder(log)

\* Every chunk is stored or lost, and a turn that was answered ends, unless the
\* write of its output fails and what its error path writes does, too.
IsSettled ==
  /\ \A n \in 1..MaxChunks : received >= n ~> n \in stored \cup lost
  /\ settling = "answered" ~> turn = None \/ failures > 1

\* What arrives while a turn is at work, before it is answered or stopped, is stored
\* under it.
StaysInTurn ==
  \A i \in DOMAIN log : log[i].from # None => log[i].turn = log[i].from
=============================================================================
