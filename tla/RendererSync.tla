----------------------------- MODULE RendererSync -----------------------------
(***************************************************************************)
(* How the renderer keeps its copy of the threads (apps/web/src/App.tsx):  *)
(* a list requested on every connection, pushed events applied once per    *)
(* frame, and threads that come with the answers of other requests.        *)
(*                                                                         *)
(* A thread is the sequence of the numbers of its events that cannot be    *)
(* applied twice, such as text. What events do to a thread is module       *)
(* TurnView's.                                                             *)
(***************************************************************************)
EXTENDS Integers, SequencesExt

CONSTANTS
  Threads,
  None,
  MaxEvents, MaxLists, MaxDrops, MaxAnswers    \* bounds of what happens

VARIABLES
  server,      \* the projection of each thread, None for no thread
  count,       \* events so far
  socket,      \* messages sent and not yet received, in order
  asked,       \* list requests the server has: id and, once read, the threads
  connected,
  view,        \* threadsRef
  batch,       \* domainEvents: events received and not yet applied
  recovered,   \* the keys of locallyRecoveredThreads
  list,        \* the list effect: what it waits for
  disturbed,   \* threadMutationGeneration moved since the attempt began
  listed,      \* a list was installed on this connection (history)
  overwritten, \* threads that an answer replaced since then (history)
  drops, answers

client == <<view, batch, recovered, list, disturbed, listed, overwritten>>
vars == <<server, count, socket, asked, connected, client, drops, answers>>

NoList == [state |-> "off", id |-> 0, attempt |-> 0]
Empty == [t \in Threads |-> None]
Present(threads) == {t \in Threads : threads[t] # None}

Init ==
  /\ server = Empty /\ count = 0
  /\ socket = <<>> /\ asked = {} /\ connected = FALSE
  /\ view = Empty /\ batch = <<>> /\ recovered = {}
  /\ list = NoList /\ disturbed = FALSE
  /\ listed = FALSE /\ overwritten = {}
  /\ drops = 0 /\ answers = 0

-----------------------------------------------------------------------------
(* The server *)

\* applyEvents of one event: an event of a thread that is not there is ignored.
Apply(threads, e) ==
  CASE e.kind = "created" -> [threads EXCEPT ![e.thread] = <<e.n>>]
    [] e.kind = "deleted" -> [threads EXCEPT ![e.thread] = None]
    [] OTHER -> IF threads[e.thread] = None \/ e.kind = "goal" THEN threads
                ELSE [threads EXCEPT ![e.thread] = Append(@, e.n)]

Send(messages) == socket' = IF connected THEN socket \o messages ELSE socket

\* An event is stored and pushed.
Publish ==
  /\ count < MaxEvents /\ count' = count + 1
  /\ \E t \in Threads, kind \in {"created", "updated", "deleted"} :
       /\ (kind = "created") <=> (server[t] = None)
       /\ LET e == [type |-> "event", kind |-> kind, thread |-> t, n |-> count'] IN
          /\ server' = Apply(server, e)
          /\ Send(<<e>>)
  /\ UNCHANGED <<asked, connected, client, drops, answers>>

\* threads.list: the runtime's sessions are awaited before the threads are read,
\* and their usage before the answer.
ReadThreads ==
  /\ \E r \in asked : r.threads = None /\ asked' = (asked \ {r}) \cup {[r EXCEPT !.threads = server]}
  /\ UNCHANGED <<server, count, socket, connected, client, drops, answers>>
AnswerList ==
  /\ \E r \in asked :
       /\ r.threads # None /\ asked' = asked \ {r}
       /\ Send(<<[type |-> "list", id |-> r.id, threads |-> r.threads]>>)
  /\ UNCHANGED <<server, count, connected, client, drops, answers>>

\* The thread in the answer to a creation or a resumption, which may be asked for
\* again on a later connection.
AnswerThread ==
  /\ connected /\ answers < MaxAnswers /\ answers' = answers + 1
  /\ \E t \in Present(server) :
       Send(<<[type |-> "thread", thread |-> t, value |-> server[t]]>>)
  /\ UNCHANGED <<server, count, asked, connected, client, drops>>

\* threads.setGoal and threads.clearGoal: the event, and the thread with it.
SetGoal ==
  /\ connected /\ answers < MaxAnswers /\ answers' = answers + 1
  /\ count < MaxEvents /\ count' = count + 1
  /\ \E t \in Present(server) :
       Send(<<[type |-> "event", kind |-> "goal", thread |-> t, n |-> count'],
              [type |-> "goal", thread |-> t, value |-> server[t]]>>)
  /\ UNCHANGED <<server, asked, connected, client, drops>>

-----------------------------------------------------------------------------
(* The renderer *)

\* applyEvents, which skips lists and answers.
Arrive(threads, m) == IF m.type = "event" THEN Apply(threads, m) ELSE threads
Applied(threads, messages) ==
  LET after[i \in 0..Len(messages)] ==
        IF i = 0 THEN threads ELSE Arrive(after[i - 1], messages[i])
  IN  after[Len(messages)]

\* publishThreads: threads that are gone are no longer recovered.
Show(threads, kept) == view' = threads /\ recovered' = kept \cap Present(threads)

\* The frame or its timer flushes the batch.
Frame ==
  /\ batch # <<>> /\ batch' = <<>>
  /\ Show(Applied(view, batch), recovered)
  /\ UNCHANGED <<server, count, socket, asked, connected, list, disturbed, listed, overwritten,
                 drops, answers>>

\* An attempt of the list effect: it applies the batch and asks.
Ask(attempt) ==
  /\ list.id < MaxLists
  /\ list' = [state |-> "waiting", id |-> list.id + 1, attempt |-> attempt]
  /\ disturbed' = FALSE
  /\ batch' = <<>> /\ Show(Applied(view, batch), recovered)

Connect ==
  /\ ~connected /\ connected' = TRUE
  /\ Ask(1)
  /\ asked' = {[id |-> list'.id, threads |-> None]}
  /\ UNCHANGED <<server, count, socket, listed, overwritten, drops, answers>>

\* Another instance is selected: the effect starts anew.
AskAgain ==
  /\ connected
  /\ Ask(1)
  /\ asked' = asked \cup {[id |-> list'.id, threads |-> None]}
  /\ UNCHANGED <<server, count, socket, connected, listed, overwritten, drops, answers>>

\* The socket is lost with what was on its way.
Disconnect ==
  /\ connected /\ drops < MaxDrops /\ drops' = drops + 1
  /\ connected' = FALSE /\ socket' = <<>> /\ asked' = {}
  /\ list' = [list EXCEPT !.state = "off"] /\ listed' = FALSE
  /\ UNCHANGED <<server, count, view, batch, recovered, disturbed, overwritten, answers>>

\* The request is bounded: its answer is then nobody's.
ListTimesOut ==
  /\ list.state = "waiting" /\ list' = [list EXCEPT !.state = "off"]
  /\ UNCHANGED <<server, count, socket, asked, connected, view, batch, recovered, disturbed,
                 listed, overwritten, drops, answers>>

\* Mutant: a list is installed whatever came in the meantime.
StableAlways == TRUE

\* threadListSnapshotIsStable, rebaseThreadListSnapshot
Stable == ~disturbed
Rebase(threads) ==
  [t \in Threads |-> IF threads[t] = None /\ t \in recovered THEN view[t] ELSE threads[t]]

Message(type) == socket # <<>> /\ Head(socket).type = type /\ socket' = Tail(socket)

ReceiveEvent ==
  /\ Message("event")
  /\ batch' = Append(batch, Head(socket)) /\ disturbed' = TRUE
  /\ recovered' = IF Head(socket).kind = "deleted" THEN recovered \ {Head(socket).thread}
                  ELSE recovered
  /\ UNCHANGED <<server, count, asked, connected, view, list, listed, overwritten, drops, answers>>

\* A thread that was created or resumed is shown unless it is there already.
ReceiveThread ==
  /\ Message("thread")
  /\ LET t == Head(socket).thread IN
     /\ Show(IF view[t] = None THEN [view EXCEPT ![t] = Head(socket).value] ELSE view,
             recovered \cup {t})
     /\ overwritten' = IF view[t] = None THEN overwritten \cup {t} ELSE overwritten
  /\ disturbed' = TRUE
  /\ UNCHANGED <<server, count, asked, connected, batch, list, listed, drops, answers>>

\* A goal was set or cleared: the answer replaces the thread.
ReceiveGoal ==
  /\ Message("goal")
  /\ LET t == Head(socket).thread IN
     /\ Show([view EXCEPT ![t] = Head(socket).value], recovered)
     /\ overwritten' = overwritten \cup {t}
  /\ disturbed' = TRUE
  /\ UNCHANGED <<server, count, asked, connected, batch, list, listed, drops, answers>>

\* The list is installed; one that is not stable is requested again, three times
\* in all; the answer to an older request is dropped.
ReceiveList ==
  /\ Message("list")
  /\ LET current == list.state = "waiting" /\ Head(socket).id = list.id IN
     \/ /\ current /\ Stable
        /\ Show(Rebase(Head(socket).threads), recovered \ Present(Head(socket).threads))
        /\ list' = [list EXCEPT !.state = "off"]
        /\ listed' = TRUE /\ overwritten' = {}
        /\ UNCHANGED <<asked, batch, disturbed>>
     \/ /\ current /\ ~Stable /\ list.attempt < 3
        /\ Ask(list.attempt + 1)
        /\ asked' = asked \cup {[id |-> list'.id, threads |-> None]}
        /\ UNCHANGED <<listed, overwritten>>
     \/ /\ current /\ ~Stable /\ list.attempt = 3
        /\ list' = [list EXCEPT !.state = "off"]
        /\ UNCHANGED <<asked, batch, view, recovered, disturbed, listed, overwritten>>
     \/ /\ ~current
        /\ UNCHANGED <<asked, batch, view, recovered, list, disturbed, listed, overwritten>>
  /\ UNCHANGED <<server, count, connected, drops, answers>>

Next ==
  \/ Publish \/ ReadThreads \/ AnswerList \/ AnswerThread \/ SetGoal
  \/ Frame \/ Connect \/ AskAgain \/ Disconnect \/ ListTimesOut
  \/ ReceiveEvent \/ ReceiveThread \/ ReceiveGoal \/ ReceiveList

Spec == Init /\ [][Next]_vars

-----------------------------------------------------------------------------
(* Properties *)

\* What the renderer will show once everything on its way has arrived.
Settled == Applied(view, batch \o socket)

TypeOK ==
  /\ \A t \in Present(view) : view[t] # <<>> /\ ToSet(view[t]) \subseteq 1..count
  /\ \A i \in DOMAIN batch : batch[i].thread \in Threads /\ batch[i].n \in 1..count
  /\ recovered \subseteq Present(view)
  /\ list.attempt \in 0..3 /\ list.id \in 0..MaxLists
  /\ ~connected => socket = <<>> /\ asked = {} /\ list.state = "off"

\* Once a list was installed, every event is shown exactly once and in order,
\* however lists, events, frames and other answers interleave; but for threads
\* an answer put there, and a thread that was deleted while the connection was
\* down and is kept as one the renderer created.
ShowsEachEventOnce ==
  listed => \A t \in Threads \ overwritten :
    Settled[t] = server[t] \/ (server[t] = None /\ t \in recovered)

\* An answer shows what the events show.
AnswersAreCurrent ==
  listed => \A t \in Threads \ recovered : Settled[t] = server[t]
=============================================================================
