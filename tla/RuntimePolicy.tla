----------------------------- MODULE RuntimePolicy -----------------------------
(***************************************************************************)
(* The two gates of the server's runtimes (apps/server/src/server.ts): the *)
(* update lease, held by the window that prepares an app update, and the   *)
(* policy keys, held while project MCP access or the sign-in changes what  *)
(* a runtime may do. Work is admitted when neither is held; a gate is      *)
(* taken when no work is. Every await between the two is a step here.      *)
(*                                                                         *)
(* A runtime key has one chat; allKnownKimiRuntimeTargets are all keys.    *)
(* Work outside the gates (Git, terminals, background tasks) is in modules *)
(* of its own.                                                             *)
(***************************************************************************)
EXTENDS Integers, FiniteSets

CONSTANTS Keys, Windows, Requests, None, MaxDeaths

VARIABLES
  lease,      \* updateLease: the window that holds it
  confirmed,  \* that window was told that the update may be installed
  policy,     \* runtimePolicyMutations
  change,     \* the handler that holds the policy keys
  login,      \* the sign-in process runs (authPolicyKeys are held)
  ops,        \* the runtime each admitted request is counted for
  runtime,    \* runtimes and runtimeStarts
  turn,       \* the prompt of each chat: its way from the queue to the end
  checking,   \* checkingSchedules
  recording,  \* scheduleMutationAdmissions: a result is being written
  deaths

vars == <<lease, confirmed, policy, change, login, ops, runtime, turn, checking,
          recording, deaths>>

OpsOn(k) == {r \in Requests : ops[r] = k}
Admitted == {"admitted", "ready"}       \* queueAdmissions
Going == {"ready", "running"}           \* it uses the runtime

NoChange == [kind |-> "none", step |-> "none", left |-> {}, closing |-> None]

Init ==
  /\ lease = None /\ confirmed = FALSE /\ policy = {} /\ change = NoChange
  /\ login = FALSE /\ ops = [r \in Requests |-> None]
  /\ runtime = [k \in Keys |-> "none"] /\ turn = [k \in Keys |-> "idle"]
  /\ checking = FALSE /\ recording = FALSE /\ deaths = 0

-----------------------------------------------------------------------------
(* Requests that use a runtime (beginRuntimeOperation, ensureRuntime).     *)

Available(k) == k \notin policy

\* Mutant: an operation does not ask whether the policy is changing.
CanOperateAnyPolicy(k) == lease = None

CanOperate(k) == lease = None /\ Available(k)

Begin(r, k) ==
  /\ ops[r] = None /\ CanOperate(k)
  /\ ops' = [ops EXCEPT ![r] = k]
  /\ UNCHANGED <<lease, confirmed, policy, change, login, runtime, turn, checking, recording, deaths>>

\* It starts its runtime, or its prompt is put into the queue.
Ensure(k) ==
  /\ OpsOn(k) # {} /\ Available(k) /\ runtime[k] = "none"
  /\ runtime' = [runtime EXCEPT ![k] = "starting"]
  /\ UNCHANGED <<lease, confirmed, policy, change, login, ops, turn, checking, recording, deaths>>

Send(k) ==
  /\ OpsOn(k) # {} /\ turn[k] = "idle" /\ turn' = [turn EXCEPT ![k] = "queued"]
  /\ UNCHANGED <<lease, confirmed, policy, change, login, ops, runtime, checking, recording, deaths>>

End(r) ==
  /\ ops[r] # None /\ ops' = [ops EXCEPT ![r] = None]
  /\ UNCHANGED <<lease, confirmed, policy, change, login, runtime, turn, checking, recording, deaths>>

\* client.start() ends; a start that fails leaves no runtime.
Started(k) ==
  /\ runtime[k] = "starting"
  /\ \E s \in {"open", "none"} : runtime' = [runtime EXCEPT ![k] = s]
  /\ UNCHANGED <<lease, confirmed, policy, change, login, ops, turn, checking, recording, deaths>>

Dies(k) ==
  /\ runtime[k] = "open" /\ deaths < MaxDeaths /\ deaths' = deaths + 1
  /\ runtime' = [runtime EXCEPT ![k] = "none"]
  /\ UNCHANGED <<lease, confirmed, policy, change, login, ops, turn, checking, recording>>

-----------------------------------------------------------------------------
(* Queued prompts (runNextQueued, startQueuedTurn).                        *)

RunNext(k) ==
  /\ turn[k] = "queued" /\ lease = None /\ k \notin policy
  /\ turn' = [turn EXCEPT ![k] = "admitted"]
  /\ UNCHANGED <<lease, confirmed, policy, change, login, ops, runtime, checking, recording, deaths>>

\* The admitted prompt waits for its runtime; a policy taken meanwhile, or a
\* failed start, leaves it blocked in the queue.
EnsureTurn(k) ==
  /\ turn[k] = "admitted"
  /\ \/ /\ Available(k) /\ runtime[k] = "none"
        /\ runtime' = [runtime EXCEPT ![k] = "starting"] /\ UNCHANGED turn
     \/ /\ Available(k) /\ runtime[k] = "open"
        /\ turn' = [turn EXCEPT ![k] = "ready"] /\ UNCHANGED runtime
     \/ /\ ~Available(k) \/ runtime[k] = "none"
        /\ turn' = [turn EXCEPT ![k] = "queued"] /\ UNCHANGED runtime
  /\ UNCHANGED <<lease, confirmed, policy, change, login, ops, checking, recording, deaths>>

StartTurn(k) ==
  /\ turn[k] = "ready"
  /\ \E s \in {"running", "queued"} : turn' = [turn EXCEPT ![k] = s]
  /\ UNCHANGED <<lease, confirmed, policy, change, login, ops, runtime, checking, recording, deaths>>

TurnEnds(k) ==
  /\ turn[k] = "running" /\ turn' = [turn EXCEPT ![k] = "idle"]
  /\ UNCHANGED <<lease, confirmed, policy, change, login, ops, runtime, checking, recording, deaths>>

\* Scheduled prompts: claimed under checkingSchedules, queued if the gates allow.
\* Mutant: due schedules are taken although an update is prepared.
MayCheckLeased == policy = {}

MayCheck == lease = None /\ policy = {}

CheckSchedules ==
  /\ ~checking /\ MayCheck /\ checking' = TRUE
  /\ UNCHANGED <<lease, confirmed, policy, change, login, ops, runtime, turn, recording, deaths>>

RunSchedule(k) ==
  /\ checking /\ lease = None /\ Available(k) /\ turn[k] = "idle"
  /\ turn' = [turn EXCEPT ![k] = "queued"] /\ recording' = TRUE
  /\ UNCHANGED <<lease, confirmed, policy, change, login, ops, runtime, checking, deaths>>

SchedulesChecked ==
  /\ checking /\ checking' = FALSE
  /\ UNCHANGED <<lease, confirmed, policy, change, login, ops, runtime, turn, recording, deaths>>

Recorded ==
  /\ recording /\ recording' = FALSE
  /\ UNCHANGED <<lease, confirmed, policy, change, login, ops, runtime, turn, checking, deaths>>

-----------------------------------------------------------------------------
(* Changes of policy: acquireRuntimePolicyMutations counts what is at work *)
(* and takes every key, in one step.                                       *)

HasWork(k) == turn[k] # "idle"          \* threadHasWorkspaceWork

Busy(withWork) ==
  \/ lease # None \/ checking
  \/ \E k \in Keys : OpsOn(k) # {} \/ runtime[k] = "starting" \/ (withWork /\ HasWork(k))

\* Approving and revoking look at the affected chats only, once they are known.
Acquire(kind) ==
  /\ policy = {} /\ ~Busy(kind # "mcp")
  /\ policy' = Keys
  /\ change' = [NoChange EXCEPT !.kind = kind, !.step = IF kind = "mcp" THEN "read" ELSE "reset",
                                !.left = IF kind = "mcp" THEN {} ELSE Keys]
  /\ UNCHANGED <<lease, confirmed, login, ops, runtime, turn, checking, recording, deaths>>

\* affectedRuntimeTargets and assertAffectedRuntimesIdle, after the project was read.
Affected(targets) ==
  /\ change.step = "read" /\ \A k \in targets : ~HasWork(k)
  /\ change' = [change EXCEPT !.step = "reset", !.left = targets]
  /\ UNCHANGED <<lease, confirmed, policy, login, ops, runtime, turn, checking, recording, deaths>>

\* resetRuntimeInstance, one target after the other.
Close(k) ==
  /\ change.step = "reset" /\ k \in change.left /\ change.closing = None
  /\ change' = [change EXCEPT !.closing = k, !.left = @ \ {k}]
  /\ UNCHANGED <<lease, confirmed, policy, login, ops, runtime, turn, checking, recording, deaths>>

Closed(k) ==
  /\ change.closing = k /\ change' = [change EXCEPT !.closing = None]
  /\ runtime' = [runtime EXCEPT ![k] = "none"]
  /\ UNCHANGED <<lease, confirmed, policy, login, ops, turn, checking, recording, deaths>>

\* The keys are given back and the work that waited is woken.
GiveBack == policy' = {} /\ change' = NoChange

\* The change ends, or failed before; a sign-in keeps the keys for its process.
Release ==
  /\ change.step \in {"read", "reset"} /\ change.closing = None
  /\ GiveBack
  /\ UNCHANGED <<lease, confirmed, login, ops, runtime, turn, checking, recording, deaths>>

StartLogin ==
  /\ change.kind = "login" /\ change.step = "reset" /\ change.left = {} /\ change.closing = None
  /\ login' = TRUE /\ change' = [change EXCEPT !.step = "login"]
  /\ UNCHANGED <<lease, confirmed, policy, ops, runtime, turn, checking, recording, deaths>>

\* The process ends, by itself or cancelled.
LoginEnds ==
  /\ login /\ login' = FALSE /\ GiveBack
  /\ UNCHANGED <<lease, confirmed, ops, runtime, turn, checking, recording, deaths>>

-----------------------------------------------------------------------------
(* The update lease.                                                       *)

Blocked ==   \* updateBlockers
  \/ \E r \in Requests : ops[r] # None
  \/ \E k \in Keys : runtime[k] = "starting" \/ turn[k] # "idle"
  \/ policy # {} \/ checking \/ recording \/ login

Prepare(w) ==
  /\ lease = None /\ ~Blocked /\ lease' = w
  /\ UNCHANGED <<confirmed, policy, change, login, ops, runtime, turn, checking, recording, deaths>>

Confirm(w) ==
  /\ lease = w /\ ~Blocked /\ confirmed' = TRUE
  /\ UNCHANGED <<lease, policy, change, login, ops, runtime, turn, checking, recording, deaths>>

\* env.cancelUpdate, or its window is gone.
ReleaseLease(w) ==
  /\ lease = w /\ lease' = None /\ confirmed' = FALSE
  /\ UNCHANGED <<policy, change, login, ops, runtime, turn, checking, recording, deaths>>

-----------------------------------------------------------------------------

Next ==
  \/ \E k \in Keys :
       \/ \E r \in Requests : Begin(r, k)
       \/ Ensure(k) \/ Send(k) \/ Started(k) \/ Dies(k)
       \/ RunNext(k) \/ EnsureTurn(k) \/ StartTurn(k) \/ TurnEnds(k) \/ RunSchedule(k)
       \/ Close(k) \/ Closed(k)
  \/ \E r \in Requests : End(r)
  \/ CheckSchedules \/ SchedulesChecked \/ Recorded
  \/ \E kind \in {"mcp", "login", "logout"} : Acquire(kind)
  \/ \E targets \in (SUBSET Keys) \ {{}} : Affected(targets)
  \/ Release \/ StartLogin \/ LoginEnds
  \/ \E w \in Windows : Prepare(w) \/ Confirm(w) \/ ReleaseLease(w)

Spec == Init /\ [][Next]_vars

TypeOK ==
  /\ lease \in Windows \cup {None} /\ policy \subseteq Keys
  /\ ops \in [Requests -> Keys \cup {None}]
  /\ runtime \in [Keys -> {"none", "starting", "open"}]
  /\ turn \in [Keys -> {"idle", "queued", "admitted", "ready", "running"}]

(* A policy change, a sign-in or a sign-out never closes a runtime that a  *)
(* request or a turn uses or that is still starting, although approving a  *)
(* project looks at the work of the affected chats alone and every close   *)
(* is awaited.                                                             *)
NothingIsCutOff ==
  LET k == change.closing IN
  k # None => OpsOn(k) = {} /\ turn[k] \notin Admitted \cup Going /\ runtime[k] # "starting"

(* Once a window was told that its update may be installed, and until it   *)
(* gives the lease back, no request, turn, start, policy change, schedule  *)
(* or sign-in is at work, whatever was admitted or timed before.           *)
UpdateIsQuiet == confirmed => lease # None /\ ~Blocked
=============================================================================
