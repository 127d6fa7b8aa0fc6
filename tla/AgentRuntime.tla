----------------------------- MODULE AgentRuntime -----------------------------
(***************************************************************************)
(* The agent process behind the chats of one runtime key: AcpClient        *)
(* (apps/server/src/acp-client.ts) with its ApprovalBroker, and the server *)
(* that starts clients, ends them, stops turns and passes the user's       *)
(* answers on (ensureRuntime, startRuntime, cancelThreadTurn,              *)
(* threads.respondToRequest in server.ts).                                 *)
(*                                                                         *)
(* A client has one process and is never started twice.  What a turn, a    *)
(* queue and a Git action do besides is TurnQueue's; a policy change, which *)
(* closes runtimes while nothing works, is RuntimePolicy's.                *)
(***************************************************************************)
EXTENDS Naturals, FiniteSets, SequencesExt

CONSTANTS
  Chats,
  Answers,       \* threads.respondToRequest handlers
  MaxClients, MaxRequests, MaxStops, MaxTurns,
  MaxFaults,     \* agents that die, requests that time out or fail
  KillFails      \* a process may outlive its termination

Clients == 1..MaxClients

VARIABLES
  client,      \* AcpClient: process, #connection, #closing, and who else terminates it
  requests,    \* by client: what agents asked, by permission number; claimed (history)
               \* is what is asked while a stop is to resolve that number for another
  runtimes, source,   \* runtimes, runtimeEventSources; 0 is none
  start,       \* runtimeStarts: the client being closed or started
  due,         \* promises settled in this turn of the event loop: they go first
  ingress,     \* permission events on their way to the log
  appends,     \* the engine's queue
  approvals,   \* by chat, what its projection shows
  admission,   \* by chat, the prompt that is being started
  turn,        \* by chat: turns begun, and whether one is active
  work,        \* by chat, the client that works on its prompt
  stop,        \* by chat, an interruptTurn
  cancel,      \* turnCancellations
  answer,      \* by handler, the answer it passes on
  faults, stops

agents == <<client, start, due, runtimes, source>>
prompts == <<admission, turn, work>>
chats == <<approvals, prompts, stop, cancel>>
vars == <<agents, requests, ingress, appends, chats, answer, faults, stops>>

-----------------------------------------------------------------------------
(* Helpers *)

NoStart == [stage |-> "none", client |-> 0]
NoAnswer == [stage |-> "none", client |-> 0, chat |-> "", id |-> 0]
NoStop == [stage |-> "none", left |-> {}, turn |-> 0, client |-> 0]
NoAdmission == [stage |-> "none", client |-> 0, cancelled |-> FALSE]
NoCancel == [stage |-> "none", client |-> 0]

Init ==
  /\ client = [c \in Clients |->
       [process |-> "none", open |-> FALSE, closing |-> FALSE, ending |-> {}]]
  /\ requests = [c \in Clients |-> <<>>]
  /\ runtimes = 0 /\ source = 0 /\ start = NoStart /\ due = {}
  /\ ingress = [t \in Chats |-> <<>>] /\ appends = <<>>
  /\ approvals = [t \in Chats |-> {}]
  /\ admission = [t \in Chats |-> NoAdmission]
  /\ turn = [t \in Chats |-> [n |-> 0, active |-> FALSE]]
  /\ work = [t \in Chats |-> 0]
  /\ stop = [t \in Chats |-> NoStop] /\ cancel = [t \in Chats |-> NoCancel]
  /\ answer = [h \in Answers |-> NoAnswer]
  /\ faults = 0 /\ stops = 0

Fault == faults < MaxFaults /\ faults' = faults + 1
Alive(c) == client[c].process = "alive"
Open(c) == c # 0 /\ client[c].open
Terminated(c) == client[c].closing \/ client[c].ending # {}
Made == {c \in Clients : client[c].process # "none"}

\* ApprovalBroker: what is pending is not answered; every pending request among ids is answered.
Pending(rs, i) == rs[i].answer = "none"
Cancelled(rs, ids) ==
  [i \in DOMAIN rs |-> IF i \in ids /\ Pending(rs, i)
     THEN [rs[i] EXCEPT !.awaited = FALSE, !.answer = "cancelled"]
     ELSE rs[i]]
Abandoned(rs) == [i \in DOMAIN rs |-> [rs[i] EXCEPT !.awaited = FALSE]]
OfChat(c, t) == {i \in DOMAIN requests[c] : requests[c][i].chat = t}

\* Events a handler appends: the log takes them one at a time, in order.
Event(kind, t, n, by) == [kind |-> kind, chat |-> t, id |-> n, by |-> by]

\* A promise of owner on client c settles.
Due(owner, c, ok) == [owner |-> owner, client |-> c, ok |-> ok]

\* Mutant: the end of the process is not awaited.
CloseAtOnce(c, others) ==
  /\ client' = [client EXCEPT ![c].open = FALSE, ![c].closing = TRUE]
  /\ requests' = IF client[c].closing THEN requests
                 ELSE [requests EXCEPT ![c] = Cancelled(@, DOMAIN @)]
  /\ due' = others \cup {Due("close", c, TRUE)}

\* close: the broker answers everything, the connection goes, the process is to end.
\* A second close shares the first one's promise.
Close(c, others) ==
  /\ client' = [client EXCEPT ![c].open = FALSE, ![c].closing = TRUE]
  /\ requests' = IF client[c].closing THEN requests
                 ELSE [requests EXCEPT ![c] = Cancelled(@, DOMAIN @)]
  /\ due' = IF client[c].closing \/ Alive(c) THEN others
            ELSE others \cup {Due("close", c, TRUE)}

\* #invalidateConnection, by the owner of a control request that timed out.
Invalidate(c, owner) ==
  /\ client' = [client EXCEPT ![c].open = FALSE,
                              ![c].ending = IF Alive(c) THEN @ \cup {owner} ELSE @]
  /\ requests' = [requests EXCEPT ![c] = Cancelled(@, DOMAIN @)]
  /\ due' = IF Alive(c) THEN {} ELSE {Due(owner, c, TRUE)}

\* Mutant: onClose does not ask whose events are heard by then.
OnCloseOfAny(c, ok) ==
  IF ok /\ ~client[c].closing
  THEN source' = 0 /\ runtimes' = IF runtimes = c THEN 0 ELSE runtimes
  ELSE UNCHANGED <<source, runtimes>>

\* onClose, which nobody hears while the client is being closed.
OnClose(c, ok) ==
  IF ok /\ ~client[c].closing
  THEN /\ source' = IF source = c THEN 0 ELSE source
       /\ runtimes' = IF runtimes = c THEN 0 ELSE runtimes
  ELSE UNCHANGED <<source, runtimes>>

\* Who awaits the close of c.
Closers(c) ==
  (IF start.stage \in {"closing", "undoing"} /\ start.client = c THEN {"start"} ELSE {})
  \cup {t \in Chats : cancel[t] = [stage |-> "closing", client |-> c]}

-----------------------------------------------------------------------------
(* The process and its connection *)

\* The process exits, and with it whatever awaited that goes on.
Exits(c) ==
  /\ Alive(c) /\ IF Terminated(c) THEN UNCHANGED faults ELSE Fault
  /\ client' = [client EXCEPT ![c].process = "exited", ![c].ending = {}]
  /\ requests' = [requests EXCEPT ![c] = Abandoned(@)]
  /\ due' = {Due(o, c, TRUE) : o \in client[c].ending}
            \cup (IF client[c].closing THEN {Due("close", c, TRUE)} ELSE {})
  /\ UNCHANGED <<start, runtimes, source, ingress, appends, chats, answer, stops>>

\* One of those who terminate it gives up: the process outlived its time.
Survives(c) ==
  /\ KillFails /\ Alive(c)
  /\ \/ \E o \in client[c].ending :
          /\ client' = [client EXCEPT ![c].ending = @ \ {o}]
          /\ due' = {Due(o, c, FALSE)}
     \/ client[c].closing /\ due' = {Due("close", c, FALSE)} /\ UNCHANGED client
  /\ UNCHANGED <<requests, start, runtimes, source, ingress, appends, chats,
                 answer, faults, stops>>

\* #handleConnectionClosed
StreamEnds(c) ==
  /\ Open(c) /\ IF Alive(c) THEN Fault ELSE UNCHANGED faults
  /\ client' = [client EXCEPT ![c].open = FALSE,
                              ![c].ending = IF Alive(c) THEN @ \cup {"stream"} ELSE @]
  /\ due' = IF Alive(c) THEN {} ELSE {Due("stream", c, TRUE)}
  /\ UNCHANGED <<requests, start, runtimes, source, ingress, appends, chats,
                 answer, stops>>
StreamGone(d) ==
  /\ d.owner = "stream" /\ OnClose(d.client, d.ok) /\ due' = due \ {d}
  /\ UNCHANGED <<client, start, requests, ingress, appends, chats, answer,
                 faults, stops>>

\* close settles, and those who await it go on.
CloseSettles(d) ==
  /\ d.owner = "close"
  /\ client' = [client EXCEPT ![d.client].closing = FALSE]
  /\ due' = (due \ {d}) \cup {Due(o, d.client, d.ok) : o \in Closers(d.client)}
  /\ UNCHANGED <<start, runtimes, source, requests, ingress, appends, chats,
                 answer, faults, stops>>

-----------------------------------------------------------------------------
(* ensureRuntime and startRuntime *)

\* new AcpClient and start
NewClient ==
  LET c == Cardinality(Made) + 1 IN
  /\ client' = [client EXCEPT ![c].process = "alive", ![c].open = TRUE]
  /\ source' = c /\ start' = [stage |-> "initializing", client |-> c]

\* There is no open runtime: it is started, or the start under way is awaited.
Await ==
  /\ ~Open(runtimes)
  /\ \/ start # NoStart /\ UNCHANGED <<client, requests, due, runtimes, source, start>>
     \/ /\ start = NoStart /\ Cardinality(Made) < MaxClients
        /\ \/ /\ runtimes # 0 /\ Close(runtimes, {})
              /\ start' = [stage |-> "closing", client |-> runtimes]
              /\ UNCHANGED <<runtimes, source>>
           \/ runtimes = 0 /\ NewClient /\ UNCHANGED <<requests, due, runtimes>>

Waiting == {t \in Chats : admission[t].stage = "runtime"}
           \cup {h \in Answers : answer[h].stage = "runtime"}

\* What who waits for the runtime does with client c: a prompt records its turn, an
\* answer is recorded before it is passed on.
Goes(who) ==
  IF who \in Chats THEN Event("started", who, turn[who].n + 1, "prompt")
  ELSE Event("resolved", answer[who].chat, answer[who].id, who)
StartEnds(c) ==
  /\ start' = NoStart
  /\ admission' = [t \in Chats |-> IF t \notin Waiting THEN admission[t]
       ELSE IF c = 0 THEN NoAdmission ELSE [admission[t] EXCEPT !.stage = "starting", !.client = c]]
  /\ answer' = [h \in Answers |-> IF h \notin Waiting THEN answer[h]
       ELSE IF c = 0 THEN NoAnswer ELSE [answer[h] EXCEPT !.stage = "recording", !.client = c]]
  /\ \E order \in SetToSeqs(Waiting) :
       appends' = IF c = 0 THEN appends ELSE appends \o [i \in DOMAIN order |-> Goes(order[i])]

\* The stale client is closed, or cannot be; a new one that cannot be is left behind:
\* nothing refers to it any more.
StaleClosed(d) ==
  /\ d.owner = "start" /\ start.stage = "closing" /\ d.ok
  /\ NewClient
  /\ runtimes' = IF runtimes = d.client THEN 0 ELSE runtimes
  /\ due' = due \ {d}
  /\ UNCHANGED <<requests, ingress, appends, chats, answer, faults, stops>>
StartFails(d) ==
  /\ d.owner = "start" /\ \/ start.stage = "closing" /\ ~d.ok
                          \/ start.stage = "undoing"
  /\ StartEnds(0) /\ due' = due \ {d}
  /\ client' = IF d.ok \/ start.stage = "closing" THEN client
               ELSE [client EXCEPT ![d.client].process = "left", ![d.client].ending = {}]
  /\ UNCHANGED <<runtimes, source, requests, ingress, approvals, turn, work, stop,
                 cancel, faults, stops>>

Initialized ==
  /\ start.stage = "initializing" /\ Open(start.client) /\ Alive(start.client)
  /\ runtimes' = start.client /\ StartEnds(start.client)
  /\ UNCHANGED <<client, due, source, requests, ingress, approvals, turn, work, stop,
                 cancel, faults, stops>>
\* The catch: the new client is not heard any more and is closed.
Undo(c, others) ==
  /\ source' = IF source = c THEN 0 ELSE source
  /\ Close(c, others) /\ start' = [stage |-> "undoing", client |-> c]
InitializeFails ==
  /\ start.stage = "initializing" /\ IF Open(start.client) THEN Fault ELSE UNCHANGED faults
  /\ Undo(start.client, {})
  /\ UNCHANGED <<runtimes, ingress, appends, chats, answer, stops>>
InitializeTimesOut ==
  /\ start.stage = "initializing" /\ Fault
  /\ Invalidate(start.client, "start") /\ start' = [start EXCEPT !.stage = "invalidating"]
  /\ UNCHANGED <<runtimes, source, ingress, appends, chats, answer, stops>>
StartInvalidated(d) ==
  /\ d.owner = "start" /\ start.stage = "invalidating"
  /\ Undo(d.client, due \ {d})
  /\ UNCHANGED <<runtimes, ingress, appends, chats, answer, faults, stops>>

-----------------------------------------------------------------------------
(* Prompts and what the agent asks *)

\* startQueuedTurn: the chat's next prompt is admitted.
Prompt(t) ==
  /\ ~turn[t].active /\ cancel[t] = NoCancel /\ admission[t] = NoAdmission
  /\ turn[t].n < MaxTurns
  /\ \/ /\ Open(runtimes) /\ UNCHANGED <<agents, requests>>
        /\ admission' = [admission EXCEPT ![t] =
             [stage |-> "starting", client |-> runtimes, cancelled |-> FALSE]]
        /\ appends' = Append(appends, Event("started", t, turn[t].n + 1, "prompt"))
     \/ /\ Await /\ UNCHANGED appends
        /\ admission' = [admission EXCEPT ![t] = [NoAdmission EXCEPT !.stage = "runtime"]]
  /\ UNCHANGED <<ingress, approvals, turn, work, stop, cancel, answer, faults, stops>>

\* The prompt is answered, or fails with its client; the turn is to end.
PromptEnds(t) ==
  /\ work[t] # 0
  /\ \/ ~Open(work[t]) \/ ~Alive(work[t])
     \/ \A i \in OfChat(work[t], t) : ~requests[work[t]][i].awaited
  /\ work' = [work EXCEPT ![t] = 0]
  /\ appends' = IF turn[t].active THEN Append(appends, Event("ended", t, turn[t].n, "prompt"))
                ELSE appends
  /\ UNCHANGED <<agents, requests, ingress, approvals, admission, turn, stop, cancel, answer,
                 faults, stops>>

\* request: the agent asks, under the next number of its client's broker.
Ask(t) ==
  LET c == work[t] IN
  /\ Open(c) /\ Alive(c) /\ Len(requests[c]) < MaxRequests
  /\ requests' = [requests EXCEPT ![c] = Append(@,
       [chat |-> t, awaited |-> TRUE, answer |-> "none",
        claimed |-> Len(@) + 1 \in stop[t].left])]
  /\ ingress' = [ingress EXCEPT ![t] = Append(@, [client |-> c, id |-> Len(requests'[c])])]
  /\ UNCHANGED <<agents, appends, chats, answer, faults, stops>>

\* ingest: the event is appended unless its runtime was replaced meanwhile.
Ingest(t) ==
  /\ ingress[t] # <<>>
  /\ LET event == Head(ingress[t]) IN
     appends' = IF source = event.client
                THEN Append(appends, Event("asked", t, event.id, "agent")) ELSE appends
  /\ ingress' = [ingress EXCEPT ![t] = Tail(@)]
  /\ UNCHANGED <<agents, requests, chats, answer, faults, stops>>

-----------------------------------------------------------------------------
(* Answers *)

\* threads.respondToRequest: the user picks an option of what the chat shows.
Answer(h) ==
  /\ answer[h] = NoAnswer
  /\ \E t \in Chats : \E id \in approvals[t] :
       \/ /\ Open(runtimes)
          /\ answer' = [answer EXCEPT ![h] =
               [stage |-> "recording", client |-> runtimes, chat |-> t, id |-> id]]
          /\ appends' = Append(appends, Event("resolved", t, id, h))
          /\ UNCHANGED <<agents, requests>>
       \/ /\ Await
          /\ answer' = [answer EXCEPT ![h] =
               [stage |-> "runtime", client |-> 0, chat |-> t, id |-> id]]
          /\ UNCHANGED appends
  /\ UNCHANGED <<ingress, chats, faults, stops>>

\* respond: the request under that number gets the answer; nothing pending is an error.
Respond(rs, a) ==
  IF a.id \in DOMAIN rs /\ Pending(rs, a.id)
  THEN [rs EXCEPT ![a.id] = [@ EXCEPT !.awaited = FALSE, !.answer = a.chat]]
  ELSE rs

\* interruptTurn from here: the approvals it saw are resolved one after the other, then
\* cancelThreadTurn begins if it saw a turn.
StopGoesOn(t, s, queue) ==
  IF s.left # {}
  THEN LET id == CHOOSE i \in s.left : \A j \in s.left : i <= j IN
       /\ stop' = [stop EXCEPT ![t] = [s EXCEPT !.stage = "resolving", !.left = @ \ {id}]]
       /\ appends' = Append(queue, Event("resolved", t, id, "stop"))
  ELSE IF s.turn = 0
  THEN stop' = [stop EXCEPT ![t] = NoStop] /\ appends' = queue
  ELSE /\ stop' = [stop EXCEPT ![t] =
            [s EXCEPT !.stage = "stopping", !.client = IF Open(runtimes) THEN runtimes ELSE 0]]
       /\ appends' = Append(queue, Event("stopping", t, s.turn, "stop"))

\* interruptTurn: a prompt that is being started is cancelled.
Stop(t) ==
  /\ stops < MaxStops /\ stops' = stops + 1
  /\ stop[t] = NoStop /\ (turn[t].active => cancel[t] = NoCancel)
  /\ turn[t].active \/ approvals[t] # {} \/ admission[t] # NoAdmission
  /\ admission' = [admission EXCEPT ![t] =
       IF @.stage = "starting" THEN [@ EXCEPT !.cancelled = TRUE] ELSE NoAdmission]
  /\ StopGoesOn(t, [NoStop EXCEPT !.left = approvals[t],
                                  !.turn = IF turn[t].active THEN turn[t].n ELSE 0], appends)
  /\ UNCHANGED <<agents, requests, ingress, approvals, turn, work, cancel, answer, faults>>

-----------------------------------------------------------------------------
(* The log takes the next event; whoever appended it goes on. *)

Stored(kind, by) ==
  appends # <<>> /\ Head(appends).kind = kind /\ Head(appends).by \in by

\* TurnStarted: the prompt is sent, or the turn ends at once.
TurnStarted ==
  /\ Stored("started", {"prompt"})
  /\ LET e == Head(appends)
         t == e.chat
         a == admission[t] IN
     /\ turn' = [turn EXCEPT ![t] = [n |-> e.id, active |-> TRUE]]
     /\ admission' = [admission EXCEPT ![t] = NoAdmission]
     /\ work' = IF a.cancelled THEN work ELSE [work EXCEPT ![t] = a.client]
     /\ appends' = IF a.cancelled
                   THEN Append(Tail(appends), Event("ended", t, e.id, "prompt"))
                   ELSE Tail(appends)
  /\ UNCHANGED <<agents, requests, ingress, approvals, stop, cancel, answer, faults, stops>>

\* ApprovalRequested
Asked ==
  /\ Stored("asked", {"agent"}) /\ appends' = Tail(appends)
  /\ LET e == Head(appends) IN
     approvals' = [approvals EXCEPT ![e.chat] = @ \cup {e.id}]
  /\ UNCHANGED <<agents, requests, ingress, prompts, stop, cancel, answer, faults, stops>>

\* ApprovalResolved of an answer, which then reaches the broker.
Answered ==
  /\ Stored("resolved", Answers) /\ appends' = Tail(appends)
  /\ LET e == Head(appends)
         a == answer[e.by] IN
     /\ approvals' = [approvals EXCEPT ![e.chat] = @ \ {e.id}]
     /\ requests' = [requests EXCEPT ![a.client] = Respond(@, a)]
     /\ answer' = [answer EXCEPT ![e.by] = NoAnswer]
  /\ UNCHANGED <<agents, ingress, prompts, stop, cancel, faults, stops>>

\* ApprovalResolved of a stop
StopResolved ==
  /\ Stored("resolved", {"stop"})
  /\ LET e == Head(appends) IN
     /\ approvals' = [approvals EXCEPT ![e.chat] = @ \ {e.id}]
     /\ StopGoesOn(e.chat, stop[e.chat], Tail(appends))
  /\ UNCHANGED <<agents, requests, ingress, prompts, cancel, answer, faults, stops>>

\* TurnPhaseChanged: cancel answers what the session asked and is then delivered.
Stopping ==
  /\ Stored("stopping", {"stop"}) /\ appends' = Tail(appends)
  /\ LET t == Head(appends).chat
         c == stop[t].client IN
     /\ IF c = 0
        THEN cancel' = [cancel EXCEPT ![t].stage = "sent"] /\ UNCHANGED requests
        ELSE /\ requests' = [requests EXCEPT ![c] = Cancelled(@, OfChat(c, t))]
             /\ cancel' = [cancel EXCEPT ![t] = [stage |-> "delivering", client |-> c]]
     /\ stop' = [stop EXCEPT ![t].stage = "flushing"]
  /\ UNCHANGED <<agents, ingress, approvals, prompts, answer, faults, stops>>

\* flushWithin ends; TurnCancelled if the turn is still active.
Flushed(t) ==
  /\ stop[t].stage = "flushing"
  /\ IF turn[t].active /\ turn[t].n = stop[t].turn
     THEN /\ appends' = Append(appends, Event("ended", t, stop[t].turn, "stop"))
          /\ stop' = [stop EXCEPT ![t].stage = "ending"]
     ELSE stop' = [stop EXCEPT ![t] = NoStop] /\ UNCHANGED appends
  /\ UNCHANGED <<agents, requests, ingress, approvals, prompts, cancel, answer,
                 faults, stops>>

\* TurnCompleted, TurnFailed or TurnCancelled
Ended ==
  /\ Stored("ended", {"prompt", "stop"}) /\ appends' = Tail(appends)
  /\ LET e == Head(appends) IN
     /\ turn' = [turn EXCEPT ![e.chat].active = @ /\ turn[e.chat].n # e.id]
     /\ stop' = IF e.by = "stop" THEN [stop EXCEPT ![e.chat] = NoStop] ELSE stop
  /\ UNCHANGED <<agents, requests, ingress, approvals, admission, work, cancel, answer, faults, stops>>

-----------------------------------------------------------------------------
(* The cancellation of a turn *)

\* session/cancel reaches the agent: it stops working and asks nothing more.
Delivered(t) ==
  LET c == cancel[t].client IN
  /\ cancel[t].stage = "delivering" /\ Open(c)
  /\ requests' = [requests EXCEPT ![c] =
       [i \in DOMAIN @ |-> IF @[i].chat = t THEN [@[i] EXCEPT !.awaited = FALSE] ELSE @[i]]]
  /\ work' = [work EXCEPT ![t] = IF @ = c THEN 0 ELSE @]
  /\ cancel' = [cancel EXCEPT ![t].stage = "sent"]
  /\ UNCHANGED <<agents, ingress, appends, approvals, admission, turn, stop, answer, faults, stops>>

\* It cannot be sent: the runtime is not heard any more, and is closed.
DeliveryFails(t) ==
  LET c == cancel[t].client IN
  /\ cancel[t].stage = "delivering" /\ IF Open(c) THEN Fault ELSE UNCHANGED faults
  /\ source' = IF source = c THEN 0 ELSE source
  /\ Close(c, {}) /\ cancel' = [cancel EXCEPT ![t].stage = "closing"]
  /\ UNCHANGED <<start, runtimes, ingress, appends, approvals, prompts, stop,
                 answer, stops>>
DeliveryTimesOut(t) ==
  /\ cancel[t].stage = "delivering" /\ Fault
  /\ Invalidate(cancel[t].client, t) /\ cancel' = [cancel EXCEPT ![t].stage = "invalidating"]
  /\ UNCHANGED <<start, runtimes, source, ingress, appends, approvals, prompts,
                 stop, answer, stops>>
DeliveryInvalidated(d) ==
  LET t == d.owner
      c == d.client IN
  /\ t \in Chats /\ cancel[t].stage = "invalidating"
  /\ source' = IF source = c THEN 0 ELSE source
  /\ runtimes' = IF d.ok /\ ~client[c].closing /\ runtimes = c THEN 0 ELSE runtimes
  /\ Close(c, due \ {d}) /\ cancel' = [cancel EXCEPT ![t].stage = "closing"]
  /\ UNCHANGED <<start, ingress, appends, approvals, prompts, stop, answer,
                 faults, stops>>

\* The runtime is closed, or nobody knows whether its process ended: then the chat
\* stays blocked.
RuntimeClosed(d) ==
  LET t == d.owner IN
  /\ t \in Chats /\ cancel[t].stage = "closing"
  /\ runtimes' = IF d.ok /\ runtimes = d.client THEN 0 ELSE runtimes
  /\ cancel' = [cancel EXCEPT ![t].stage = IF d.ok THEN "sent" ELSE "unsafe"]
  /\ due' = due \ {d}
  /\ UNCHANGED <<client, start, source, requests, ingress, appends, approvals,
                 prompts, stop, answer, faults, stops>>

\* Once the turn is over too, the queue goes on.
CancelSettles(t) ==
  /\ cancel[t].stage = "sent" /\ stop[t] = NoStop
  /\ cancel' = [cancel EXCEPT ![t] = NoCancel]
  /\ UNCHANGED <<agents, requests, ingress, appends, approvals, prompts, stop, answer,
                 faults, stops>>

-----------------------------------------------------------------------------

Resumed(d) ==
  \/ StreamGone(d) \/ CloseSettles(d)
  \/ StaleClosed(d) \/ StartFails(d) \/ StartInvalidated(d)
  \/ DeliveryInvalidated(d) \/ RuntimeClosed(d)
NextOfClient(c) == Exits(c) \/ Survives(c) \/ StreamEnds(c)
NextOfChat(t) ==
  \/ Prompt(t) \/ PromptEnds(t) \/ Ask(t) \/ Ingest(t)
  \/ Stop(t) \/ Flushed(t)
  \/ Delivered(t) \/ DeliveryFails(t) \/ DeliveryTimesOut(t) \/ CancelSettles(t)
NextOfLog == TurnStarted \/ Asked \/ Answered \/ StopResolved \/ Stopping \/ Ended

\* Promises that settled go on before the event loop takes anything else.
Next ==
  \/ \E d \in due : Resumed(d)
  \/ due = {} /\ \E c \in Clients : NextOfClient(c)
  \/ due = {} /\ \E t \in Chats : NextOfChat(t)
  \/ due = {} /\ \E h \in Answers : Answer(h)
  \/ due = {} /\ (Initialized \/ InitializeFails \/ InitializeTimesOut \/ NextOfLog)

Spec == Init /\ [][Next]_vars

-----------------------------------------------------------------------------
(* Properties *)

\* A chat's runtime is one process: another is started only when the last one is gone,
\* whatever fails or survives; but a process that a failed start could not end is left
\* behind, and does not count (server.ts:800-804).
OneAgent == Cardinality({c \in Clients : Alive(c)}) <= 1

\* No agent waits for an answer that nobody is asked for: what it asks in a chat that is
\* not being stopped is shown there, or on its way, unless it was asked while a stop was
\* still to resolve its number for a runtime that is gone (resolveThreadApprovals).
AskedIsShown ==
  \A c \in Clients : \A i \in DOMAIN requests[c] :
    LET r == requests[c][i]
        t == r.chat IN
    r.awaited /\ ~r.claimed /\ Open(c) /\ stop[t] = NoStop /\ cancel[t] = NoCancel =>
      \/ i \in approvals[t]
      \/ [client |-> c, id |-> i] \in ToSet(ingress[t])
      \/ Event("asked", t, i, "agent") \in ToSet(appends)

\* Refuted: what the user answers in one chat is never taken for an answer to another.
AnswersAreTheirs ==
  \A c \in Clients : \A i \in DOMAIN requests[c] :
    requests[c][i].answer \in {"none", "cancelled", requests[c][i].chat}

=============================================================================
