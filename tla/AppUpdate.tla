------------------------------ MODULE AppUpdate -------------------------------
(***************************************************************************)
(* The installation of an app update, as the windows, the server and the   *)
(* native shell share it (App.tsx installUpdate, cancelUpdateDownload and  *)
(* releaseUpdateResources; server.ts env.prepareUpdate, env.confirmUpdate  *)
(* and env.cancelUpdate; lib.rs stop_server_for_update): a window takes    *)
(* the server's update lease, downloads under it, asks once more whether   *)
(* work is active, and has the shell stop the server. The user may cancel, *)
(* the connection may drop, and windows without one have the shell restart *)
(* the server.                                                             *)
(*                                                                         *)
(* Requests of the update are answered at once by the server; what lies    *)
(* between an answer and the window's next step is a step boundary.        *)
(***************************************************************************)
EXTENDS Integers, FiniteSets

CONSTANTS Windows, None, MaxDrops, MaxAttempts

VARIABLES
  server,   \* "up", "down", or "gone" with the app
  lease,    \* updateLease: the window whose socket owns it
  work,     \* the server has active work
  conn,     \* the windows with a connection
  step,     \* where installUpdate of a window is
  attempt,  \* UpdateAttempt: prepared, cancelled, resourceClosed
  cancel,   \* tries left of releaseUpdateAttempt in cancelUpdateDownload
  drops, attempts

vars == <<server, lease, work, conn, step, attempt, cancel, drops, attempts>>

NoAttempt == [prepared |-> FALSE, cancelled |-> FALSE, closed |-> FALSE]
Tries == 2

TypeOK ==
  /\ server \in {"up", "down", "gone"} /\ lease \in Windows \cup {None}
  /\ work \in BOOLEAN /\ conn \subseteq Windows
  /\ step \in [Windows -> {"idle", "prepare", "download", "confirm", "stop", "install",
                           "recover", "release", "retry"}]
  /\ attempt \in [Windows -> [prepared : BOOLEAN, cancelled : BOOLEAN, closed : BOOLEAN]]
  /\ cancel \in [Windows -> 0..Tries] /\ drops \in 0..MaxDrops /\ attempts \in 0..MaxAttempts

Init ==
  /\ server = "up" /\ lease = None /\ work = FALSE /\ conn = Windows
  /\ step = [w \in Windows |-> "idle"] /\ attempt = [w \in Windows |-> NoAttempt]
  /\ cancel = [w \in Windows |-> 0] /\ drops = 0 /\ attempts = 0

To(w, s) == step' = [step EXCEPT ![w] = s]

-----------------------------------------------------------------------------
(* The server.                                                             *)

\* Admissions are refused under the lease.
WorkBegins ==
  /\ server = "up" /\ ~work /\ lease = None /\ work' = TRUE
  /\ UNCHANGED <<server, lease, conn, step, attempt, cancel, drops, attempts>>

WorkEnds ==
  /\ work /\ work' = FALSE
  /\ UNCHANGED <<server, lease, conn, step, attempt, cancel, drops, attempts>>

\* env.prepareUpdate takes the lease, or refuses because of another or of work.
Prepares(w) == w \in conn /\ lease \in {None, w} /\ ~work

Confirms(w) == w \in conn /\ lease = w /\ ~work

\* env.cancelUpdate is answered, unless another window prepares an update.
Cancels(w) == w \in conn /\ lease \in {None, w}

\* A socket that closes gives its lease back.
Without(sockets) ==
  /\ conn' = conn \ sockets
  /\ lease' = IF lease \in sockets THEN None ELSE lease

Drop(w) ==
  /\ w \in conn /\ drops < MaxDrops /\ drops' = drops + 1 /\ Without({w})
  /\ UNCHANGED <<server, work, step, attempt, cancel, attempts>>

Connect(w) ==
  /\ server = "up" /\ w \notin conn /\ conn' = conn \cup {w}
  /\ UNCHANGED <<server, lease, work, step, attempt, cancel, drops, attempts>>

-----------------------------------------------------------------------------
(* The resources of an attempt.                                            *)

\* Mutant: the lease is only given back once the download's resource is closed.
CleanupInTurn(w, ok) ==
  LET closed == attempt[w].closed \/ ok
      given == attempt[w].prepared /\ closed /\ Cancels(w) IN
  /\ attempt' = [attempt EXCEPT ![w].closed = closed, ![w].prepared = @ /\ ~given]
  /\ lease' = IF given /\ lease = w THEN None ELSE lease

\* releaseUpdateResources: both are given back, whatever becomes of the other.
Cleanup(w, ok) ==
  LET given == attempt[w].prepared /\ Cancels(w) IN
  /\ attempt' = [attempt EXCEPT ![w].closed = @ \/ ok, ![w].prepared = @ /\ ~given]
  /\ lease' = IF given /\ lease = w THEN None ELSE lease

\* releaseUpdateAttempt, from installUpdate: a failure is tried once more.
Release(w, ok) ==
  /\ step[w] \in {"release", "retry"} /\ Cleanup(w, ok)
  /\ LET free == attempt'[w].closed /\ ~attempt'[w].prepared IN
     To(w, IF free \/ step[w] = "retry" THEN "idle" ELSE "retry")
  /\ UNCHANGED <<server, work, conn, cancel, drops, attempts>>

\* cancelUpdateDownload, and its cleanup.
Cancel(w) ==
  /\ step[w] \in {"download", "confirm"} /\ cancel[w] = 0
  /\ attempt' = [attempt EXCEPT ![w].cancelled = TRUE]
  /\ cancel' = [cancel EXCEPT ![w] = Tries]
  /\ UNCHANGED <<server, lease, work, conn, step, drops, attempts>>

CancelCleanup(w, ok) ==
  /\ cancel[w] > 0 /\ Cleanup(w, ok)
  /\ LET free == attempt'[w].closed /\ ~attempt'[w].prepared IN
     cancel' = [cancel EXCEPT ![w] = IF free THEN 0 ELSE @ - 1]
  /\ UNCHANGED <<server, work, conn, step, drops, attempts>>

-----------------------------------------------------------------------------
(* installUpdate.                                                          *)

Install(w) ==
  /\ server # "gone" /\ step[w] = "idle" /\ cancel[w] = 0 /\ attempts < MaxAttempts
  /\ attempts' = attempts + 1
  /\ attempt' = [attempt EXCEPT ![w] = NoAttempt] /\ To(w, "prepare")
  /\ UNCHANGED <<server, lease, work, conn, cancel, drops>>

Prepare(w) ==
  /\ step[w] = "prepare"
  /\ IF Prepares(w)
     THEN /\ lease' = w /\ attempt' = [attempt EXCEPT ![w].prepared = TRUE] /\ To(w, "download")
     ELSE To(w, "release") /\ UNCHANGED <<lease, attempt>>
  /\ UNCHANGED <<server, work, conn, cancel, drops, attempts>>

\* The download ends, or fails; a cancelled one goes no further.
Downloaded(w, ok) ==
  /\ step[w] = "download"
  /\ To(w, IF ok /\ ~attempt[w].cancelled THEN "confirm" ELSE "release")
  /\ UNCHANGED <<server, lease, work, conn, attempt, cancel, drops, attempts>>

Confirm(w) ==
  /\ step[w] = "confirm" /\ To(w, IF Confirms(w) THEN "stop" ELSE "release")
  /\ UNCHANGED <<server, lease, work, conn, attempt, cancel, drops, attempts>>

\* stop_server_for_update.
StopServer(w) ==
  /\ step[w] = "stop" /\ To(w, "install")
  /\ server' = "down" /\ work' = FALSE /\ Without(Windows)
  /\ UNCHANGED <<attempt, cancel, drops, attempts>>

\* The installer takes the app over, and all of it goes; or it fails.
Installs(w, ok) ==
  /\ step[w] = "install"
  /\ IF ok
     THEN /\ server' = "gone" /\ work' = FALSE /\ Without(Windows)
          /\ step' = [v \in Windows |-> "idle"] /\ cancel' = [v \in Windows |-> 0]
     ELSE /\ To(w, "recover") /\ UNCHANGED <<server, work, conn, lease, cancel>>
  /\ UNCHANGED <<attempt, drops, attempts>>

\* recover_server, of a failed installation or of a window long without a server.
Recover(w) ==
  /\ \/ step[w] = "recover" /\ To(w, "release")
     \/ w \notin conn /\ server = "down" /\ UNCHANGED step
  /\ server' = "up"
  /\ UNCHANGED <<lease, work, conn, attempt, cancel, drops, attempts>>

Next ==
  \/ WorkBegins \/ WorkEnds
  \/ \E w \in Windows :
       \/ Drop(w) \/ Connect(w) \/ Install(w) \/ Prepare(w) \/ Confirm(w)
       \/ StopServer(w) \/ Recover(w) \/ Cancel(w)
       \/ \E ok \in BOOLEAN :
            Release(w, ok) \/ CancelCleanup(w, ok) \/ Downloaded(w, ok) \/ Installs(w, ok)

Spec == Init /\ [][Next]_vars

-----------------------------------------------------------------------------
(* A window that is done with its attempt holds no update lease, which     *)
(* would keep every prompt, schedule and sign-in waiting: whether it was   *)
(* refused, failed, was cancelled at any point or lost its connection, and *)
(* whatever part of the cleanup failed (installUpdate, releaseUpdateAttempt,*)
(* the close handler of the server's sockets).                             *)
LeaseIsGivenBack == \A w \in Windows : step[w] = "idle" /\ cancel[w] = 0 => lease # w

(* An update never ends a server that has work: what was confirmed is      *)
(* still so when the server is stopped (env.confirmUpdate, installUpdate). *)
CutsNothingOff == [][server = "up" /\ server' # "up" => ~work]_vars
=============================================================================
