------------------------------- MODULE TurnView -------------------------------
(***************************************************************************)
(* One thread as the server projects it from its events (#apply in         *)
(* apps/server/src/orchestration.ts), as the renderer does (mutateThread   *)
(* in apps/web/src/App.tsx), and as the turns on the screen, which the     *)
(* renderer maintains event by event (applyTurnProjectionEvent) and also   *)
(* knows how to build from nothing (buildTurnProjection).                  *)
(*                                                                         *)
(* A text is the sequence of the numbers of the events it was put together *)
(* from.  Events reach the renderer in order (module RendererSync says     *)
(* when); what neither turn nor status depends on is left out.             *)
(***************************************************************************)
EXTENDS Integers, FiniteSets, SequencesExt

CONSTANTS
  Turns,      \* turns started from the queue
  Replays,    \* turn ids made up for output that arrives outside of a turn
  Tools, Approvals,
  None,
  MaxEvents, MaxReloads

VARIABLES
  server,     \* ThreadProjection
  thread,     \* the renderer's Thread
  shown,      \* its TurnProjection
  seq,        \* of the last event
  reloads

vars == <<server, thread, shown, seq, reloads>>

-----------------------------------------------------------------------------
(* Threads *)

TurnIds == Turns \cup Replays
Status == {"pending", "in_progress", "completed", "failed"}
NewThread == [active |-> None, phase |-> "idle", phaseTurn |-> None,
              turns |-> <<>>, messages |-> <<>>, activity |-> <<>>, tools |-> <<>>,
              approvals |-> <<>>, checkpoints |-> <<>>, parts |-> {}]

Latest(S) == CHOOSE n \in S \cup {-1} : \A k \in S : k <= n
LatestActivity(activity, turn) ==
  Latest({activity[i].last : i \in {j \in DOMAIN activity : activity[j].turn = turn}})
\* findIndex; 0 is not found.
First(s, Test(_)) == SelectInSeq(s, Test)
\* filter: the elements of s that are in S, in their order.
Keep(s, S) ==
  LET kept[i \in 0..Len(s)] ==
        IF i = 0 THEN <<>>
        ELSE IF s[i] \in S THEN Append(kept[i - 1], s[i]) ELSE kept[i - 1]
  IN  kept[Len(s)]
Of(s, turn) == Keep(s, {x \in ToSet(s) : x.turn = turn})
Without(approvals, id) == Keep(approvals, {a \in ToSet(approvals) : a.id # id})
Open(entry) == entry.status \in {"pending", "in_progress"}

AppendMessage(messages, latest, e, n) ==
  LET last == messages[Len(messages)] IN
  IF /\ messages # <<>> /\ last.turn = e.turn /\ last.role = e.role
     /\ last.text[Len(last.text)] > latest
  THEN ReplaceAt(messages, Len(messages), [last EXCEPT !.text = Append(@, n)])
  ELSE Append(messages, [turn |-> e.turn, role |-> e.role, text |-> <<n>>])

FinishThought(activity, turn) ==
  LET i == SelectLastInSeq(activity, LAMBDA a :
             a.turn = turn /\ a.tool = None /\ a.status = "in_progress")
  IN  IF i = 0 THEN activity ELSE [activity EXCEPT ![i].status = "completed"]

FinishActivity(activity, turn, status) ==
  [i \in DOMAIN activity |->
     IF activity[i].turn = turn /\ Open(activity[i])
     THEN [activity[i] EXCEPT !.status = status] ELSE activity[i]]

Extends(activity, turn) ==
  /\ activity # <<>>
  /\ LET last == activity[Len(activity)] IN
     last.tool = None /\ last.turn = turn /\ last.status = "in_progress"

\* A thought with the status a new entry of its turn has.
AppendThought(activity, turn, status, n) ==
  IF Extends(activity, turn)
  THEN [activity EXCEPT ![Len(activity)].last = n]
  ELSE Append(FinishThought(activity, turn),
              [turn |-> turn, tool |-> None, status |-> status, seq |-> n, last |-> n])

\* A tool at entry i; 0 makes one.
UpsertTool(activity, i, tool, status, n) ==
  IF i # 0
  THEN [activity EXCEPT ![i].status = status, ![i].last = n]
  ELSE Append(FinishThought(activity, tool.turn),
         [turn |-> tool.turn, tool |-> tool.id, status |-> status, seq |-> n, last |-> n])

\* A patch without a status leaves the old one; a tool without any is in progress.
Patched(tools, i, e, active) ==
  IF i = 0
  THEN Append(tools, [id |-> e.tool, turn |-> active,
                      status |-> IF e.status = None THEN "in_progress" ELSE e.status])
  ELSE [tools EXCEPT
          ![i].turn = IF @ = None THEN active ELSE @,
          ![i].status = IF e.status = None THEN @ ELSE e.status]
Added(tools, e, active) ==
  Append(tools, [id |-> e.tool, turn |-> active, status |-> e.status])

WithPhase(th, e) == [th EXCEPT !.phase = e.phase, !.phaseTurn = e.turn]
Terminal(e) == e.phase \in {"idle", "blocked"}
Ended(th, e, activity) ==
  LET i == SelectLastInSeq(th.turns, LAMBDA r : r.turn = e.turn)
      closed == [th EXCEPT
        !.turns = IF i = 0 THEN @ ELSE [@ EXCEPT ![i].stop = e.stop],
        !.activity = activity]
  IN  IF th.active = e.turn
      THEN [closed EXCEPT !.active = None, !.phaseTurn = None,
              !.phase = IF e.stop = "error" THEN "failed" ELSE "idle"]
      ELSE closed
EndStatus(e) == IF e.stop = "end_turn" THEN "completed" ELSE "failed"

\* What both do alike.
Common(th, e, n) ==
  CASE e.type = "TurnStarted" ->
         [th EXCEPT !.active = e.turn, !.phase = "running", !.phaseTurn = e.turn,
            !.turns = Append(@, [turn |-> e.turn, stop |-> None]),
            !.messages = Append(@, [turn |-> e.turn, role |-> "user", text |-> <<n>>])]
    [] e.type = "ApprovalRequested" ->
         [th EXCEPT !.approvals = Append(@, [id |-> e.id, turn |-> th.active])]
    [] e.type = "ApprovalResolved" ->
         [th EXCEPT !.approvals = Without(@, e.id)]
    [] e.type = "Ended" -> Ended(th, e, FinishActivity(th.activity, e.turn, EndStatus(e)))
    [] e.type \in {"CheckpointCaptured", "CheckpointReverted"} ->
         [th EXCEPT !.checkpoints = Append(@, [turn |-> e.turn, phase |-> e.phase])]
    [] e.type = "CheckpointPartReverted" ->
         [th EXCEPT !.checkpoints = Append(@, [turn |-> e.turn, phase |-> e.phase]),
                    !.parts = @ \cup {e.turn}]

-----------------------------------------------------------------------------
(* The server *)

ServerStatus(th, tool) ==
  IF th.active = tool.turn \/ tool.status = "failed" THEN tool.status ELSE "completed"

ServerTool(th, tools, id, n) ==
  LET tool == tools[First(tools, LAMBDA t : t.id = id)]
      i == First(th.activity, LAMBDA a : a.tool = id /\ a.turn = tool.turn)
  IN  [th EXCEPT !.tools = tools,
         !.activity = IF tool.turn = None THEN @
                      ELSE UpsertTool(@, i, tool, ServerStatus(th, tool), n)]

Apply(th, e, n) ==
  CASE e.type = "TurnPhaseChanged" ->
         IF \/ e.phase # "preparing" /\ ~Terminal(e) /\ e.turn # None /\ th.active # e.turn
            \/ Terminal(e) /\ None \notin {th.phaseTurn, e.turn} /\ th.phaseTurn # e.turn
         THEN th ELSE WithPhase(th, e)
    [] e.type = "MessageDelta" /\ e.role = "thought" ->
         [th EXCEPT !.activity = AppendThought(@, e.turn,
            IF th.active = e.turn THEN "in_progress" ELSE "completed", n)]
    [] e.type \in {"MessageAppended", "MessageDelta"} /\ e.role # "thought" ->
         [th EXCEPT !.messages =
            AppendMessage(@, LatestActivity(th.activity, e.turn), e, n)]
    [] e.type = "ToolCallCreated" -> ServerTool(th, Added(th.tools, e, th.active), e.tool, n)
    [] e.type = "ToolCallPatched" ->
         ServerTool(th, Patched(th.tools, First(th.tools, LAMBDA t : t.id = e.tool), e,
                                th.active), e.tool, n)
    [] OTHER -> Common(th, e, n)

-----------------------------------------------------------------------------
(* The renderer's thread *)

\* Mutant: a tool is settled whatever its status.
RendererToolSettled(th, tools, id, n) ==
  LET tool == tools[First(tools, LAMBDA t : t.id = id)]
      i == First(th.activity, LAMBDA a : a.tool = id)
  IN  [th EXCEPT !.tools = tools,
         !.activity = IF tool.turn = None THEN @ ELSE UpsertTool(@, i, tool, "completed", n)]

RendererTool(th, tools, id, n) ==
  LET tool == tools[First(tools, LAMBDA t : t.id = id)]
      i == First(th.activity, LAMBDA a : a.tool = id)
  IN  [th EXCEPT !.tools = tools,
         !.activity = IF tool.turn = None THEN @ ELSE UpsertTool(@, i, tool, tool.status, n)]

\* latest is what the projection caches of the turn.
Mutate(th, e, n, latest) ==
  CASE e.type = "TurnPhaseChanged" ->
         IF /\ e.phase = "preparing" \/ Terminal(e) \/ e.turn = None \/ th.active = e.turn
            /\ ~Terminal(e) \/ None \in {th.phaseTurn, e.turn} \/ th.phaseTurn = e.turn
         THEN WithPhase(th, e) ELSE th
    [] e.type = "MessageDelta" /\ e.role = "thought" ->
         [th EXCEPT !.activity = AppendThought(@, e.turn, "in_progress", n)]
    [] e.type \in {"MessageAppended", "MessageDelta"} /\ e.role # "thought" ->
         [th EXCEPT !.messages = AppendMessage(@, latest, e, n)]
    [] e.type = "ToolCallCreated" -> RendererTool(th, Added(th.tools, e, th.active), e.tool, n)
    [] e.type = "ToolCallPatched" ->
         RendererTool(th, Patched(th.tools, First(th.tools, LAMBDA t : t.id = e.tool), e,
                                  th.active), e.tool, n)
    [] OTHER -> Common(th, e, n)

-----------------------------------------------------------------------------
(* The turns shown.  A view without a record is of a turn that was not     *)
(* started, and what looks a turn up finds its view by turn.               *)

ids(s) == [i \in DOMAIN s |-> s[i].turn]
PhaseOf(th, turn) == IF th.active = turn THEN th.phase ELSE "idle"
Reached(th, phase) == {c.turn : c \in {d \in ToSet(th.checkpoints) : d.phase = phase}}
Revertible(p, turn) ==
  turn \in p.before \cap p.after /\ turn \notin p.reverted \cup p.parts

Record(th, turn) ==
  LET i == SelectLastInSeq(th.turns, LAMBDA r : r.turn = turn)
  IN  IF i = 0 THEN "none" ELSE th.turns[i].stop
BlankView(p, th, turn, record) ==
  [turn |-> turn, record |-> record, messages |-> <<>>, activity |-> <<>>, tools |-> <<>>,
   approvals |-> Of(th.approvals, turn), checkpoint |-> turn \in p.after,
   canRevert |-> Revertible(p, turn),
   running |-> th.active = turn, phase |-> PhaseOf(th, turn)]

Marks(th) ==
  [before |-> Reached(th, "before"), after |-> Reached(th, "after"),
   reverted |-> Reached(th, "reverted"), parts |-> th.parts,
   approvalTurn |-> {a \in ToSet(th.approvals) : a.turn # None}]

Build(th) ==
  LET order == ids(th.turns) \o ids(th.messages) \o ids(th.activity)
                 \o Keep(ids(th.tools), TurnIds)
      firsts == Keep([i \in DOMAIN order |-> i],
                     {i \in DOMAIN order : \A j \in 1..i - 1 : order[j] # order[i]})
      marks == Marks(th)
      View(turn) == [BlankView(marks, th, turn, Record(th, turn)) EXCEPT
                       !.messages = Of(th.messages, turn),
                       !.activity = Of(th.activity, turn),
                       !.tools = Of(th.tools, turn)]
  IN  [views |-> [k \in DOMAIN firsts |-> View(order[firsts[k]])],
       before |-> marks.before, after |-> marks.after, reverted |-> marks.reverted,
       parts |-> marks.parts, approvalTurn |-> marks.approvalTurn]

At(p, turn) == First(p.views, LAMBDA v : v.turn = turn)
Ensure(p, th, turn) ==
  IF At(p, turn) # 0 THEN p
  ELSE [p EXCEPT !.views = Append(@, BlankView(p, th, turn, "none"))]

\* An entry replaced in a turn's activity, or appended behind its last thought.
Entered(activity, entry, Same(_)) ==
  LET i == First(activity, Same)
  IN  IF i # 0 THEN ReplaceAt(activity, i, entry)
      ELSE Append(FinishThought(activity, entry.turn), entry)

MessageStep(p, th, e) ==
  LET q == Ensure(p, th, e.turn)
      i == At(q, e.turn)
      message == Last(th.messages)
      entry == Last(th.activity)
      shownLast == q.views[i].messages
  IN  IF e.role = "thought"
      THEN [q EXCEPT !.views[i].activity =
              Entered(@, entry, LAMBDA a : a.tool = None /\ a.seq = entry.seq)]
      ELSE [q EXCEPT !.views[i].messages =
              IF shownLast # <<>> /\ Head(Last(shownLast).text) = Head(message.text)
              THEN ReplaceAt(@, Len(@), message) ELSE Append(@, message)]

ToolStep(p, th, e) ==
  LET tool == th.tools[First(th.tools, LAMBDA t : t.id = e.tool)]
      entry == th.activity[First(th.activity, LAMBDA a : a.tool = e.tool)]
      q == Ensure(p, th, tool.turn)
      i == At(q, tool.turn)
      j == First(q.views[i].tools, LAMBDA t : t.id = tool.id)
  IN  [q EXCEPT
         !.views[i].tools = IF j = 0 THEN Append(@, tool) ELSE ReplaceAt(@, j, tool),
         !.views[i].activity = Entered(@, entry, LAMBDA a : a.tool = e.tool)]

StartStep(p, th, e, previous) ==
  LET i == At(p, previous)
      q == IF previous \in {None, e.turn} \/ i = 0 THEN p
           ELSE [p EXCEPT !.views[i].running = FALSE, !.views[i].phase = "idle"]
  IN  [q EXCEPT !.views = Append(@,
         [BlankView(q, th, e.turn, None) EXCEPT !.messages = <<Last(th.messages)>>])]

\* Mutant: the activity of the view is not finished.
EndStepOpen(p, th, e) ==
  LET i == At(p, e.turn) IN
  IF i = 0 THEN p
  ELSE [p EXCEPT !.views[i].record = Record(th, e.turn),
          !.views[i].running = th.active = e.turn,
          !.views[i].phase = PhaseOf(th, e.turn)]

EndStep(p, th, e) ==
  LET i == At(p, e.turn) IN
  IF i = 0 THEN p
  ELSE [p EXCEPT !.views[i].record = Record(th, e.turn),
          !.views[i].activity = FinishActivity(@, e.turn, EndStatus(e)),
          !.views[i].running = th.active = e.turn,
          !.views[i].phase = PhaseOf(th, e.turn)]

PhaseStep(p, th, e) ==
  LET turn == IF e.turn = None THEN th.active ELSE e.turn
      i == At(p, turn)
  IN  IF turn = None \/ i = 0 THEN p
      ELSE [p EXCEPT !.views[i].running = th.active = turn,
                     !.views[i].phase = PhaseOf(th, turn)]

ApprovalStep(p, th, e) ==
  LET turn == th.active
      approval == [id |-> e.id, turn |-> turn]
      i == At(p, turn)
      q == [p EXCEPT !.approvalTurn = @ \cup {approval}]
  IN  IF turn = None THEN p
      ELSE IF i = 0 THEN q ELSE [q EXCEPT !.views[i].approvals = Append(@, approval)]

ResolveStep(p, e) ==
  LET mine == {a \in p.approvalTurn : a.id = e.id}
      i == At(p, (CHOOSE a \in mine : TRUE).turn)
      q == [p EXCEPT !.approvalTurn = @ \ mine]
  IN  IF i = 0 THEN q
      ELSE [q EXCEPT !.views[i].approvals = Without(@, e.id)]

\* Mutant: the view keeps its undo.
CheckpointStepUndo(p, e) ==
  LET q == [p EXCEPT
              !.before = IF e.phase = "before" THEN @ \cup {e.turn} ELSE @,
              !.after = IF e.phase = "after" THEN @ \cup {e.turn} ELSE @]
      i == At(q, e.turn)
  IN  IF i = 0 THEN q
      ELSE [q EXCEPT !.views[i].checkpoint = @ \/ e.phase = "after",
                     !.views[i].canRevert = Revertible(q, e.turn)]

CheckpointStep(p, e) ==
  LET q == [p EXCEPT
              !.before = IF e.phase = "before" THEN @ \cup {e.turn} ELSE @,
              !.after = IF e.phase = "after" THEN @ \cup {e.turn} ELSE @,
              !.reverted = IF e.phase = "reverted" THEN @ \cup {e.turn} ELSE @,
              !.parts = IF e.type = "CheckpointPartReverted" THEN @ \cup {e.turn} ELSE @]
      i == At(q, e.turn)
  IN  IF i = 0 THEN q
      ELSE [q EXCEPT !.views[i].checkpoint = @ \/ e.phase = "after",
                     !.views[i].canRevert = Revertible(q, e.turn)]

\* The events the incremental step leaves to a rebuild.
Rebuilds(p, th, e) ==
  \/ e.type = "TurnStarted" /\ At(p, e.turn) # 0
  \/ /\ e.type \in {"ToolCallCreated", "ToolCallPatched"}
     /\ th.tools[First(th.tools, LAMBDA t : t.id = e.tool)].turn = None
  \/ e.type = "ApprovalResolved" /\ \A a \in p.approvalTurn : a.id # e.id
  \/ /\ e.type = "Ended" /\ At(p, e.turn) # 0
     /\ Record(th, e.turn) = "none"

Project(p, th, e, previous) ==
  IF Rebuilds(p, th, e) THEN Build(th)
  ELSE CASE e.type = "TurnPhaseChanged" -> PhaseStep(p, th, e)
         [] e.type = "TurnStarted" -> StartStep(p, th, e, previous)
         [] e.type \in {"MessageAppended", "MessageDelta"} -> MessageStep(p, th, e)
         [] e.type \in {"ToolCallCreated", "ToolCallPatched"} -> ToolStep(p, th, e)
         [] e.type = "ApprovalRequested" -> ApprovalStep(p, th, e)
         [] e.type = "ApprovalResolved" -> ResolveStep(p, e)
         [] e.type = "Ended" -> EndStep(p, th, e)
         [] OTHER -> CheckpointStep(p, e)

-----------------------------------------------------------------------------
(* The events the server stores, in the orders its handlers store them *)

Init ==
  /\ server = NewThread /\ thread = NewThread
  /\ shown = Build(NewThread)
  /\ seq = 0 /\ reloads = 0

Emit(e) ==
  LET n == seq + 1
      i == IF "turn" \in DOMAIN e THEN At(shown, e.turn) ELSE 0
      latest == IF i = 0 THEN -1 ELSE LatestActivity(shown.views[i].activity, e.turn)
      mutated == Mutate(thread, e, n, latest)
  IN  /\ n <= MaxEvents
      /\ seq' = n
      /\ server' = Apply(server, e, n)
      /\ thread' = mutated
      /\ shown' = Project(shown, mutated, e, thread.active)
      /\ UNCHANGED reloads

started == {r.turn : r \in ToSet(server.turns)}
captured(turn) == {c.phase : c \in {d \in ToSet(server.checkpoints) : d.turn = turn}}
Phase(phase, turn) == Emit([type |-> "TurnPhaseChanged", phase |-> phase, turn |-> turn])
Capture(phase, turn) ==
  Emit([type |-> "CheckpointCaptured", phase |-> phase, turn |-> turn])

\* A queued prompt: its turn is prepared, started or given up.
Prepare ==
  \E turn \in Turns \ started :
    /\ server.active = None /\ server.phase # "preparing"
    /\ captured(turn) = {}
    /\ Phase("preparing", turn)
Preparing(turn) == server.active = None /\ server.phase = "preparing" /\ server.phaseTurn = turn
CaptureBefore ==
  \E turn \in Turns :
    Preparing(turn) /\ captured(turn) = {} /\ Capture("before", turn)
GiveUp ==
  \E turn \in Turns, phase \in {"idle", "blocked"} : Preparing(turn) /\ Phase(phase, turn)
StartTurn ==
  \E turn \in Turns : Preparing(turn) /\ Emit([type |-> "TurnStarted", turn |-> turn])

\* What the runtime says of the turn it works on, of one that was ended while
\* the output was buffered, or outside of a turn.
Source(turn) ==
  IF server.active = None THEN turn \in Replays \cup started
  ELSE turn \in {server.active} \cup started
Delta ==
  \E turn \in TurnIds, role \in {"assistant", "thought"} :
    Source(turn) /\ Emit([type |-> "MessageDelta", turn |-> turn, role |-> role])
UserChunk ==
  \E turn \in TurnIds :
    /\ turn \in IF server.active = None THEN Replays ELSE {server.active}
    /\ Emit([type |-> "MessageAppended", turn |-> turn, role |-> "user"])
known == {t.id : t \in ToSet(server.tools)}
CreateTool ==
  \E tool \in Tools \ known :
    Emit([type |-> "ToolCallCreated", tool |-> tool, status |-> "in_progress"])
PatchTool ==
  \E tool \in Tools, status \in {"completed", "failed", None} :
    Emit([type |-> "ToolCallPatched", tool |-> tool, status |-> status])

RequestApproval ==
  \E id \in Approvals :
    /\ \A a \in ToSet(server.approvals) : a.id # id
    /\ Emit([type |-> "ApprovalRequested", id |-> id])
ResolveApproval ==
  \E id \in Approvals : Emit([type |-> "ApprovalResolved", id |-> id])

\* The ways a turn ends, with the snapshot of the workspace, which may be late.
Stopping == server.active # None /\ Phase("stopping", server.active)
Checkpointing ==
  /\ server.active # None /\ server.phase # "checkpointing"
  /\ Phase("checkpointing", server.active)
CaptureAfter ==
  \E turn \in started :
    "before" \in captured(turn) /\ "after" \notin captured(turn) /\ Capture("after", turn)
EndTurn ==
  /\ server.active # None
  /\ \E stop \in {"end_turn", "error", "cancelled"} :
       Emit([type |-> "Ended", turn |-> server.active, stop |-> stop])
CancelFailed ==
  \E turn \in started :
    /\ server.active = None /\ server.phase = "idle"
    /\ Record(server, turn) = "cancelled"
    /\ Phase("blocked", turn)

\* checkpoints.revert and revertPart, as their handlers accept them.
Accepts(turn) ==
  /\ {"before", "after"} \subseteq captured(turn)
  /\ server.active = None /\ server.phase # "preparing"
FullyReverts(turn) == Accepts(turn) /\ turn \notin server.parts
Revert ==
  \E turn \in started :
    /\ FullyReverts(turn) /\ "reverted" \notin captured(turn)
    /\ Emit([type |-> "CheckpointReverted", turn |-> turn, phase |-> "reverted"])
RevertPart ==
  \E turn \in started :
    /\ Accepts(turn)
    /\ Emit([type |-> "CheckpointPartReverted", turn |-> turn, phase |-> "reverted"])

\* The renderer installs the thread list of a new connection.
Reload ==
  /\ reloads < MaxReloads /\ reloads' = reloads + 1
  /\ thread' = server /\ shown' = Build(server)
  /\ UNCHANGED <<server, seq>>

Next ==
  \/ Prepare \/ CaptureBefore \/ GiveUp \/ StartTurn
  \/ Delta \/ UserChunk \/ CreateTool \/ PatchTool
  \/ RequestApproval \/ ResolveApproval
  \/ Stopping \/ Checkpointing \/ CaptureAfter \/ EndTurn \/ CancelFailed
  \/ Revert \/ RevertPart
  \/ Reload

Spec == Init /\ [][Next]_vars

-----------------------------------------------------------------------------
(* Properties *)

\* What is shown was maintained event by event and is, turn by turn, what a
\* rebuild from the renderer's thread gives: no cached index, mark or number of
\* applyTurnProjectionEvent goes stale.
ShownIsRebuilt == ToSet(shown.views) = ToSet(Build(thread).views)

\* Also in the order of a rebuild.  (Output outside of a turn gets a turn of its
\* own, which the incremental step keeps before the next turn and a rebuild puts
\* behind all started ones.)
ShownInOrder == shown.views = Build(thread).views

\* The renderer's thread is the server's but for the activity of ended turns,
\* of which ShowsProjection says more.
SameThread ==
  /\ [thread EXCEPT !.activity = <<>>] = [server EXCEPT !.activity = <<>>]
  /\ Of(thread.activity, server.active) = Of(server.activity, server.active)

\* The renderer's thread is the server's projection.
ShowsProjection == thread = server

\* Undo is offered for what the server has both snapshots of and has not undone.
UndoIsAccepted ==
  \A v \in ToSet(shown.views) : v.canRevert =>
    /\ {"before", "after"} \subseteq captured(v.turn)
    /\ "reverted" \notin captured(v.turn) /\ v.turn \notin server.parts

TypeOK ==
  /\ {server.active, thread.active} \subseteq Turns \cup {None}
  /\ \A a \in ToSet(thread.activity) \cup ToSet(server.activity) :
       a.status \in Status /\ a.turn \in TurnIds /\ a.seq <= a.last /\ a.last <= seq
  /\ \A th \in {server, thread} : \A m \in ToSet(th.messages) :
       m.turn \in TurnIds /\ m.text # <<>> /\ ToSet(m.text) \subseteq 1..seq
  /\ \A v \in ToSet(shown.views) : v.turn \in TurnIds
=============================================================================
