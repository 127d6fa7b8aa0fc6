------------------------------ MODULE MCClient ------------------------------
(***************************************************************************)
(* The parts of the renderer (apps/web) and of the desktop shell            *)
(* (apps/desktop), for TLC.  They share no state: `part` says which of them *)
(* a behaviour is about, and the others stay as they began.                 *)
(***************************************************************************)
EXTENDS Sidecar

\* Model values.
CONSTANTS t1, t2, r1, k1, a1

\* The instances of the parts that ClientProofs is about.
CONSTANTS
  SyncThreads, SyncMaxEvents, SyncMaxLists, SyncMaxDrops, SyncMaxAnswers,
  ListsMaxEvents, ListsMaxLists, ListsMaxDrops, ListsMaxAnswers,
  ChatConfigs, ChatMaxKeys, ChatMaxRequests, ChatMaxDrops,
  ChatMaxFlips, ChatMaxReloads, ChatMaxLostSaves,
  UpdateWindows, UpdateMaxDrops, UpdateMaxAttempts

VARIABLES
  part,
  viewServer, viewThread, viewShown, viewSeq, viewReloads,
  syncServer, syncCount, syncSocket, syncAsked, syncConnected, syncView, syncBatch,
  syncRecovered, syncList, syncDisturbed, syncListed, syncOverwritten, syncDrops,
  syncAnswers,
  chatOnline, chatNews, chatSocket, chatConnection, chatTimer,
  chatReq, chatWire, chatOperation, chatCreated, chatReplies,
  chatReceipts, chatStored, chatRefusing, chatKnown, chatRefused, chatKeys,
  chatRequests, chatDrops, chatFlips, chatReloads, chatLostSaves,
  updateServer, updateLease, updateWork, updateConn, updateStep, updateAttempt,
  updateCancel, updateDrops, updateAttempts

viewVars ==
  <<viewServer, viewThread, viewShown, viewSeq, viewReloads>>
syncVars ==
  <<syncServer, syncCount, syncSocket, syncAsked, syncConnected, syncView, syncBatch,
  syncRecovered, syncList, syncDisturbed, syncListed, syncOverwritten, syncDrops,
  syncAnswers>>
chatVars ==
  <<chatOnline, chatNews, chatSocket, chatConnection, chatTimer,
  chatReq, chatWire, chatOperation, chatCreated, chatReplies,
  chatReceipts, chatStored, chatRefusing, chatKnown, chatRefused, chatKeys,
  chatRequests, chatDrops, chatFlips, chatReloads, chatLostSaves>>
updateVars ==
  <<updateServer, updateLease, updateWork, updateConn, updateStep, updateAttempt,
  updateCancel, updateDrops, updateAttempts>>

\* Two turns and one outside of them, one tool, one reload.
View == INSTANCE TurnView WITH
  Turns <- {t1, t2}, Replays <- {r1}, Tools <- {k1}, Approvals <- {}, MaxEvents <- 6,
  MaxReloads <- 1,
  server <- viewServer, thread <- viewThread, shown <- viewShown, seq <- viewSeq,
  reloads <- viewReloads

Sync == INSTANCE RendererSync WITH
  Threads <- SyncThreads, MaxEvents <- SyncMaxEvents, MaxLists <- SyncMaxLists,
  MaxDrops <- SyncMaxDrops, MaxAnswers <- SyncMaxAnswers,
  server <- syncServer, count <- syncCount, socket <- syncSocket, asked <- syncAsked,
  connected <- syncConnected, view <- syncView, batch <- syncBatch,
  recovered <- syncRecovered, list <- syncList, disturbed <- syncDisturbed,
  listed <- syncListed, overwritten <- syncOverwritten, drops <- syncDrops,
  answers <- syncAnswers

Chat == INSTANCE Delivery WITH
  Configs <- ChatConfigs, MaxKeys <- ChatMaxKeys,
  MaxRequests <- ChatMaxRequests, MaxDrops <- ChatMaxDrops,
  MaxFlips <- ChatMaxFlips, MaxReloads <- ChatMaxReloads,
  MaxLostSaves <- ChatMaxLostSaves,
  online <- chatOnline, news <- chatNews, socket <- chatSocket,
  connection <- chatConnection, timer <- chatTimer, req <- chatReq,
  wire <- chatWire, operation <- chatOperation, created <- chatCreated,
  replies <- chatReplies, receipts <- chatReceipts, stored <- chatStored,
  refusing <- chatRefusing, known <- chatKnown, refused <- chatRefused, keys <- chatKeys,
  requests <- chatRequests, drops <- chatDrops, flips <- chatFlips,
  reloads <- chatReloads, lostSaves <- chatLostSaves

Update == INSTANCE AppUpdate WITH
  Windows <- UpdateWindows, MaxDrops <- UpdateMaxDrops, MaxAttempts <- UpdateMaxAttempts,
  server <- updateServer, lease <- updateLease, work <- updateWork, conn <- updateConn,
  step <- updateStep, attempt <- updateAttempt, cancel <- updateCancel,
  drops <- updateDrops, attempts <- updateAttempts

\* Longer histories of snapshots, their undoing and approvals, without tools.
Undo == INSTANCE TurnView WITH
  Turns <- {t1, t2}, Replays <- {}, Tools <- {}, Approvals <- {a1}, MaxEvents <- 7,
  MaxReloads <- 1,
  server <- viewServer, thread <- viewThread, shown <- viewShown, seq <- viewSeq,
  reloads <- viewReloads

\* Lists that events disturb until they are given up.
Lists == INSTANCE RendererSync WITH
  Threads <- SyncThreads, MaxEvents <- ListsMaxEvents, MaxLists <- ListsMaxLists,
  MaxDrops <- ListsMaxDrops, MaxAnswers <- ListsMaxAnswers,
  server <- syncServer, count <- syncCount, socket <- syncSocket, asked <- syncAsked,
  connected <- syncConnected, view <- syncView, batch <- syncBatch,
  recovered <- syncRecovered, list <- syncList, disturbed <- syncDisturbed,
  listed <- syncListed, overwritten <- syncOverwritten, drops <- syncDrops,
  answers <- syncAnswers

-----------------------------------------------------------------------------

Parts == {"shell", "view", "sync", "delivery", "update", "undo", "lists"}

\* Only this part moves.
Only(p) ==
  /\ part = p /\ UNCHANGED part
  /\ IF p = "shell" THEN TRUE ELSE UNCHANGED vars
  /\ IF p \in {"view", "undo"} THEN TRUE ELSE UNCHANGED viewVars
  /\ IF p \in {"sync", "lists"} THEN TRUE ELSE UNCHANGED syncVars
  /\ IF p = "delivery" THEN TRUE ELSE UNCHANGED chatVars
  /\ IF p = "update" THEN TRUE ELSE UNCHANGED updateVars

ClientInit ==
  /\ part \in Parts /\ Init
  /\ View!Init /\ Sync!Init /\ Chat!Init /\ Update!Init

ClientNext ==
  \/ part = "shell" /\ Next /\ Only("shell")
  \/ part = "view" /\ View!Next /\ Only("view")
  \/ part = "sync" /\ Sync!Next /\ Only("sync")
  \/ part = "delivery" /\ Chat!Next /\ Only("delivery")
  \/ part = "update" /\ Update!Next /\ Only("update")
  \/ part = "undo" /\ Undo!Next /\ Only("undo")
  \/ part = "lists" /\ Lists!Next /\ Only("lists")

ClientVars ==
  <<part, vars, viewVars, syncVars, chatVars, updateVars>>
ClientSpec == ClientInit /\ [][ClientNext]_ClientVars

-----------------------------------------------------------------------------
(* Properties, besides those of Sidecar *)

\* What is shown was maintained event by event and is, turn by turn, what a
\* rebuild from the renderer's thread gives: no cached index, mark or number of
\* applyTurnProjectionEvent goes stale.
ShownIsRebuilt == View!ShownIsRebuilt

\* The renderer's thread is the server's but for the activity of ended turns, of
\* which ShowsProjection says more.
SameThread == View!SameThread

\* Undo is offered for what the server has both snapshots of and has not undone.
UndoIsAccepted == View!UndoIsAccepted

\* Once a list was installed, every event is shown exactly once and in order,
\* however lists, events, frames and other answers interleave; but for threads an
\* answer put there, and a thread that was deleted while the connection was down
\* and is kept as one the renderer created.
ShowsEachEventOnce == Sync!ShowsEachEventOnce

\* A chat that was created and not acknowledged is found again: its id is pending
\* or in a receipt, so that the next attempt does not create a second one; unless
\* the server refused a request of that id without a look at it (DeliveryReplay
\* shows what becomes of those).
FoundAgain == Chat!FoundAgain

\* A window that is done with its attempt holds no update lease, which would keep
\* every prompt, schedule and sign-in waiting: whether it was refused, failed,
\* was cancelled at any point or lost its connection, and whatever part of the
\* cleanup failed (installUpdate, releaseUpdateAttempt, the close handler of the
\* server's sockets).
LeaseIsGivenBack == Update!LeaseIsGivenBack

=============================================================================
