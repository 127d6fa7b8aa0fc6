-------------------------------- MODULE Delivery --------------------------------
(***************************************************************************)
(* How a new chat is created over a connection that fails: the connection  *)
(* with its reconnects and its one replay (apps/web/src/connection.ts),    *)
(* the renderer's receipts of creations whose outcome it does not know     *)
(* (apps/web/src/App.tsx), and the server, which creates a chat once for   *)
(* each creation id, but refuses a request before it looks at the id while *)
(* an update lease is held or a runtime policy is applied.                 *)
(*                                                                         *)
(* One draft, whose configuration the user may change between attempts. A  *)
(* creation id is a number.                                                *)
(***************************************************************************)
EXTENDS Integers, Sequences, FiniteSets

CONSTANTS
  Configs,       \* configurations of the draft: the fingerprints of the parameters
  None,
  MaxKeys, MaxRequests, MaxDrops, MaxFlips, MaxReloads, MaxLostSaves   \* bounds

VARIABLES
  online,      \* navigator.onLine
  news,        \* browser events of it that are not handled yet
  socket, connection, timer,   \* #socket, #generation, #timer
  req,         \* #pending: the one creation request, or None
  wire,        \* requests on their way, in order
  operation,   \* requests that wait for the creation of each id
  created,     \* ids whose chat the server has created
  replies,     \* answers on their way
  receipts,    \* restoredThreadCreations: the id kept for each configuration, or 0
  stored,      \* receipts in localStorage
  refusing,    \* the server refuses requests before it looks at their id
  known,       \* ids whose creation was acknowledged (history)
  refused,     \* ids the server refused without a look at them (history)
  keys, requests, drops, flips, reloads, lostSaves   \* counted for the bounds

link == <<online, news, socket, connection, timer>>
server == <<operation, created, refusing, refused>>
caller == <<receipts, stored, known>>
bounds == <<keys, requests, drops, flips, reloads, lostSaves>>
vars == <<link, req, wire, server, replies, caller, bounds>>

Keys == 1..MaxKeys

Init ==
  /\ online = TRUE /\ news = <<>> /\ socket = "connecting" /\ connection = 1 /\ timer = FALSE
  /\ req = None /\ wire = <<>> /\ replies = {}
  /\ operation = [k \in Keys |-> {}] /\ created = {} /\ refusing = FALSE
  /\ receipts = [c \in Configs |-> 0] /\ stored = receipts /\ known = {} /\ refused = {}
  /\ keys = 0 /\ requests = 0 /\ drops = 0 /\ flips = 0 /\ reloads = 0 /\ lostSaves = 0

-----------------------------------------------------------------------------
(* The caller's receipts *)

\* saveDraftCreationRecovery, which may fail
Save ==
  \/ stored' = receipts' /\ UNCHANGED lostSaves
  \/ stored' = stored /\ lostSaves < MaxLostSaves /\ lostSaves' = lostSaves + 1

\* Mutant: the receipt of an uncertain creation is forgotten.
KeptNever(outcome) == 0

\* threadCreationAfterFailure and the receipt that success deletes: the id that is
\* kept for the configuration of the request.
Kept(outcome) == IF outcome = "uncertain" THEN req.key ELSE 0

\* The request's promise is settled.
Settle(outcome) ==
  /\ receipts' = [receipts EXCEPT ![req.config] = Kept(outcome)] /\ Save
  /\ known' = IF outcome = "ok" THEN known \cup {req.key} ELSE known
  /\ req' = None
Untouched == UNCHANGED <<req, caller, lostSaves>>

\* #rejectPending: a creation that was sent may have happened.
Reject == IF req # None THEN Settle("uncertain") ELSE Untouched

\* #retainReplayablePending: a request that was sent once is sent again.
Retain == IF req # None /\ req.sends >= 2 THEN Settle("uncertain") ELSE Untouched

-----------------------------------------------------------------------------
(* The connection *)

Handled(event) == news # <<>> /\ Head(news) = event /\ news' = Tail(news)
Counted == UNCHANGED <<keys, requests, reloads>>

Flip ==
  /\ flips < MaxFlips /\ flips' = flips + 1
  /\ online' = ~online /\ news' = Append(news, IF online THEN "offline" ELSE "online")
  /\ UNCHANGED <<socket, connection, timer, req, wire, server, replies, caller, lostSaves, drops>>
  /\ Counted

\* Mutant: the event of being online does not connect.
WakeNever == UNCHANGED <<socket, connection, timer>>

\* #scheduleReconnect
Schedule == timer' = online

\* #connect of a socket that is not there, or not for long
Dial == IF online THEN socket' = "connecting" /\ connection' = connection + 1
        ELSE socket' = "none" /\ UNCHANGED connection

\* #online: it connects unless a connection is there.
Wake ==
  IF socket \in {"connecting", "open"} THEN UNCHANGED <<socket, connection, timer>>
  ELSE timer' = FALSE /\ Dial

OnlineEvent ==
  /\ Handled("online") /\ Wake
  /\ UNCHANGED <<online, req, wire, server, replies, caller, lostSaves, drops, flips>> /\ Counted

\* #offline
OfflineEvent ==
  /\ Handled("offline")
  /\ timer' = FALSE /\ socket' = "none" /\ connection' = connection + 1
  /\ Retain
  /\ UNCHANGED <<online, wire, server, replies, drops, flips>> /\ Counted

TimerFires ==
  /\ timer /\ timer' = FALSE
  /\ Dial
  /\ UNCHANGED <<online, news, req, wire, server, replies, caller, lostSaves, drops, flips>>
  /\ Counted

\* The "open" event: #replayPending sends what is pending.
Opens ==
  /\ socket = "connecting" /\ socket' = "open"
  /\ IF req = None THEN UNCHANGED <<req, wire>>
     ELSE /\ req' = [req EXCEPT !.sends = @ + 1]
          /\ wire' = Append(wire, [connection |-> connection, id |-> req.id, key |-> req.key])
  /\ UNCHANGED <<online, news, connection, timer, server, replies, caller, lostSaves, drops, flips>>
  /\ Counted

ConnectTimesOut ==
  /\ socket = "connecting" /\ drops < MaxDrops /\ drops' = drops + 1
  /\ socket' = "none" /\ connection' = connection + 1 /\ Schedule
  /\ UNCHANGED <<online, news, req, wire, server, replies, caller, lostSaves, flips>> /\ Counted

\* The server or the network closes: the last of what the socket held may be lost.
Drop ==
  /\ socket \in {"connecting", "open"} /\ drops < MaxDrops /\ drops' = drops + 1
  /\ socket' = "closing"
  /\ \E kept \in 0..Len(wire) :
       /\ \A i \in kept + 1..Len(wire) : wire[i].connection = connection
       /\ wire' = SubSeq(wire, 1, kept)
  /\ UNCHANGED <<online, news, connection, timer, req, server, replies, caller, lostSaves, flips>>
  /\ Counted

\* An answer that is not one: everything is rejected and the socket closed.
Garbled ==
  /\ socket = "open" /\ drops < MaxDrops /\ drops' = drops + 1
  /\ socket' = "closing" /\ Reject
  /\ UNCHANGED <<online, news, connection, timer, wire, server, replies, flips>> /\ Counted

\* The "close" event: a code of the server's own rejects, any other retains.
CloseEvent ==
  /\ socket = "closing" /\ socket' = "none" /\ Schedule
  /\ Retain \/ Reject
  /\ UNCHANGED <<online, news, connection, wire, server, replies, drops, flips>> /\ Counted

\* retry, after the local server was recovered
Retry ==
  /\ drops < MaxDrops /\ drops' = drops + 1
  /\ timer' = FALSE /\ Reject /\ Dial
  /\ UNCHANGED <<online, news, wire, server, replies, flips>> /\ Counted

-----------------------------------------------------------------------------
(* Requests *)

\* threadCreationAttempt: the id of the receipt, or a new one
Attempt(c) == IF receipts[c] # 0 THEN receipts[c] ELSE keys + 1

\* A creation is sent, once its receipt is stored. One that is not sent leaves
\* the receipts as they were, but for one that could not be stored: its id is
\* kept, although it was never sent.
Create ==
  /\ req = None /\ requests < MaxRequests /\ requests' = requests + 1
  /\ \E c \in Configs :
       LET key == Attempt(c) IN
       /\ key \in Keys
       /\ keys' = IF key > keys THEN key ELSE keys
       /\ \/ /\ socket = "open"
             /\ receipts' = [receipts EXCEPT ![c] = key] /\ stored' = receipts'
             /\ req' = [id |-> requests', key |-> key, config |-> c, sends |-> 1]
             /\ wire' = Append(wire, [connection |-> connection, id |-> requests', key |-> key])
             /\ UNCHANGED lostSaves
          \/ /\ socket # "open" /\ UNCHANGED <<receipts, req, wire>> /\ Save
          \/ /\ lostSaves < MaxLostSaves /\ lostSaves' = lostSaves + 1
             /\ receipts' = [receipts EXCEPT ![c] = key] /\ UNCHANGED <<stored, req, wire>>
  /\ UNCHANGED <<link, server, replies, known, drops, flips, reloads>>

RequestTimesOut ==
  /\ req # None /\ Settle("uncertain")
  /\ UNCHANGED <<link, wire, server, replies, drops, flips>> /\ Counted

\* An answer that arrives on the current connection, to the request that waits.
Answer ==
  /\ \E r \in replies :
       /\ replies' = replies \ {r}
       /\ IF socket = "open" /\ r.connection = connection
             /\ req # None /\ req.id = r.id
          THEN Settle(r.outcome) ELSE Untouched
  /\ UNCHANGED <<link, wire, server, drops, flips>> /\ Counted

\* The page is loaded again.
Reload ==
  /\ reloads < MaxReloads /\ reloads' = reloads + 1
  /\ req' = None /\ receipts' = stored
  /\ timer' = FALSE /\ news' = <<>> /\ Dial
  /\ UNCHANGED <<online, wire, server, replies, stored, known, keys, requests, drops, flips, lostSaves>>

-----------------------------------------------------------------------------
(* The server *)

Reply(m, outcome) == [connection |-> m.connection, id |-> m.id, outcome |-> outcome]

\* A request arrives: it is refused, answered at once, or waits for the creation
\* of its id, which it starts unless it goes on already.
Receive ==
  /\ wire # <<>> /\ wire' = Tail(wire)
  /\ LET m == Head(wire) IN
     CASE refusing -> /\ replies' = replies \cup {Reply(m, "error")} /\ UNCHANGED operation
                      /\ refused' = refused \cup {m.key}
       [] ~refusing /\ m.key \in created ->
            replies' = replies \cup {Reply(m, "ok")} /\ UNCHANGED <<operation, refused>>
       [] OTHER -> /\ operation' = [operation EXCEPT ![m.key] = @ \cup {m}]
                   /\ UNCHANGED <<replies, refused>>
  /\ UNCHANGED <<link, req, created, refusing, caller, bounds>>

\* The creation ends for everyone who waits for it.
Finish ==
  /\ \E k \in Keys, outcome \in {"ok", "error"} :
       /\ operation[k] # {} /\ operation' = [operation EXCEPT ![k] = {}]
       /\ created' = IF outcome = "ok" THEN created \cup {k} ELSE created
       /\ replies' = replies \cup {Reply(m, outcome) : m \in operation[k]}
  /\ UNCHANGED <<link, req, wire, refusing, refused, caller, bounds>>

\* An update lease is taken or a runtime policy applied, for which no creation may
\* be under way, or that ends.
RefuseRequests ==
  /\ refusing' = ~refusing
  /\ refusing' => \A k \in Keys : operation[k] = {}
  /\ UNCHANGED <<link, req, wire, operation, created, refused, replies, caller, bounds>>

Next ==
  \/ Flip \/ OnlineEvent \/ OfflineEvent \/ TimerFires \/ Opens \/ ConnectTimesOut
  \/ Drop \/ Garbled \/ CloseEvent \/ Retry
  \/ Create \/ RequestTimesOut \/ Answer \/ Reload
  \/ Receive \/ Finish \/ RefuseRequests

\* Browser events, timers and sockets of the renderer's host happen.
Fairness ==
  /\ WF_vars(OnlineEvent) /\ WF_vars(OfflineEvent) /\ WF_vars(TimerFires)
  /\ WF_vars(Opens) /\ WF_vars(CloseEvent) /\ WF_vars(RequestTimesOut)

Spec == Init /\ [][Next]_vars
LiveSpec == Spec /\ Fairness

-----------------------------------------------------------------------------
(* Properties *)

TypeOK ==
  /\ socket \in {"none", "connecting", "open", "closing"} /\ timer \in BOOLEAN
  /\ timer => socket = "none"
  /\ req = None \/ (req.key \in 1..keys /\ req.sends \in 1..3)
  /\ \A c \in Configs : receipts[c] \in 0..keys /\ stored[c] \in 0..keys
  /\ known \subseteq created /\ created \subseteq 1..keys /\ refused \subseteq 1..keys

\* The ids that a receipt keeps, and that of the request that waits
Remembered == {receipts[c] : c \in Configs} \cup (IF req = None THEN {} ELSE {req.key})

\* A chat that was created and not acknowledged is found again: its id is pending
\* or in a receipt, so that the next attempt does not create a second one; unless
\* the server refused a request of that id without a look at it.
FoundAgain == created \ (known \cup refused) \subseteq Remembered

\* The same of every chat, as apps/web/src/App.test.ts has it: "persists ambiguous
\* creation IDs across reload and clears them after resolution".  The code forgets
\* the id of a chat that is there when its replay is refused.
NeverTwice == created \ known \subseteq Remembered

\* Once it stays online, the renderer is connected for good.
Reconnects == <>[]online => <>[](socket = "open")
=============================================================================
