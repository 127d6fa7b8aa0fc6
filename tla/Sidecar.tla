-------------------------------- MODULE Sidecar --------------------------------
(***************************************************************************)
(* The native shell and the server process it owns                         *)
(* (apps/desktop/src-tauri/src/lib.rs): the single-instance mutex, the     *)
(* start with its retries, recovery, the stop for an update, the exit, and *)
(* crashes of either. The commands of an instance exclude each other by    *)
(* the lock on its child; waiting for a process is a step of its own and   *)
(* may time out. A killed process runs no more, but may linger with its    *)
(* port; between the shell's reservation of the port and the server's use  *)
(* of it, another program may take it.                                     *)
(***************************************************************************)
EXTENDS Integers, FiniteSets

CONSTANTS
  Apps,       \* launches of the app
  Procs,      \* server processes, each started at most once
  None,
  Other,      \* a program that is not the app's
  Attempts,   \* SERVER_START_ATTEMPTS
  DiesUnattached, \* may the shell die between a server's start and its job?
  MaxCrashes

VARIABLES
  mutex,      \* the launch that holds the instance mutex
  app,        \* "off", "setup", "up"
  child,      \* ServerRuntime.child
  failed,     \* startup_error is set
  command,    \* what holds the lock on the child, and how far it is
  proc,       \* "unused", "running", "killed", "dead"
  port,       \* what listens on the port of the connection
  crashes

vars == <<mutex, app, child, failed, command, proc, port, crashes>>

NoCommand == [name |-> "none", step |-> "none", of |-> None, attempt |-> 0]
Alive(p) == p # None /\ proc[p] = "running"

TypeOK ==
  /\ mutex \in Apps \cup {None} /\ app \in [Apps -> {"off", "setup", "up"}]
  /\ child \in [Apps -> Procs \cup {None}] /\ failed \in [Apps -> BOOLEAN]
  /\ command \in [Apps -> [name : {"none", "setup", "recover", "stop", "exit"},
                           step : {"none", "spawn", "attach", "wait", "probe", "reap"},
                           of : Procs \cup {None}, attempt : 0..Attempts]]
  /\ proc \in [Procs -> {"unused", "running", "killed", "dead"}]
  /\ port \in Procs \cup {None, Other}
  /\ crashes \in 0..MaxCrashes

Init ==
  /\ mutex = None /\ app = [a \in Apps |-> "off"]
  /\ child = [a \in Apps |-> None] /\ failed = [a \in Apps |-> FALSE]
  /\ command = [a \in Apps |-> NoCommand]
  /\ proc = [p \in Procs |-> "unused"] /\ port = None /\ crashes = 0

-----------------------------------------------------------------------------
(* The processes.                                                          *)

Kill(p) == proc' = IF Alive(p) THEN [proc EXCEPT ![p] = "killed"] ELSE proc

Listens(p) ==
  /\ proc[p] = "running" /\ port = None /\ port' = p
  /\ UNCHANGED <<mutex, app, child, failed, command, proc, crashes>>

\* It ends, by itself (without its port it does) or because it was killed.
Exits(p) ==
  /\ proc[p] \in {"running", "killed"} /\ proc' = [proc EXCEPT ![p] = "dead"]
  /\ port' = IF port = p THEN None ELSE port
  /\ UNCHANGED <<mutex, app, child, failed, command, crashes>>

OtherListens ==
  /\ port = None /\ port' = Other
  /\ UNCHANGED <<mutex, app, child, failed, command, proc, crashes>>

OtherLeaves ==
  /\ port = Other /\ port' = None
  /\ UNCHANGED <<mutex, app, child, failed, command, proc, crashes>>

-----------------------------------------------------------------------------
(* The end of a start: of the launch, or of a recovery.                    *)

Step(a, step, p) == command' = [command EXCEPT ![a].step = step, ![a].of = p]
Over(a) == command' = [command EXCEPT ![a] = NoCommand]

Started(a, p) ==
  /\ child' = [child EXCEPT ![a] = p] /\ failed' = [failed EXCEPT ![a] = FALSE]
  /\ app' = [app EXCEPT ![a] = "up"] /\ Over(a) /\ UNCHANGED mutex

\* recoverable_server_start: the failure is shown in place of a connection.
StartFailed(a) ==
  /\ child' = [child EXCEPT ![a] = None] /\ failed' = [failed EXCEPT ![a] = TRUE]
  /\ app' = [app EXCEPT ![a] = "up"] /\ Over(a) /\ UNCHANGED mutex

\* The launch tries an early exit again; it gives up on a process it cannot end.
Retries(a) == command[a].name = "setup" /\ command[a].attempt < Attempts

Again(a) ==
  /\ command' = [command EXCEPT ![a].step = "spawn", ![a].attempt = @ + 1]
  /\ UNCHANGED <<child, failed, app, mutex>>

Stuck(a) ==
  IF command[a].name = "setup"
  THEN /\ app' = [app EXCEPT ![a] = "off"] /\ mutex' = None /\ Over(a)
       /\ UNCHANGED <<child, failed>>
  ELSE StartFailed(a)

-----------------------------------------------------------------------------
(* The start of a server.                                                  *)

\* spawn_server_reserved: a launch reserves any free port, a recovery needs its own.
Spawn(a) ==
  LET reserved == command[a].name = "setup" \/ port = None IN
  /\ command[a].step = "spawn"
  /\ \/ \E p \in Procs :
          /\ reserved /\ proc[p] = "unused" /\ proc' = [proc EXCEPT ![p] = "running"]
          /\ port' = None /\ Step(a, "attach", p) /\ UNCHANGED <<mutex, app, child, failed>>
     \/ StartFailed(a) /\ UNCHANGED <<proc, port>>
  /\ UNCHANGED crashes

\* ServerProcess::attach: the process is in its job, or it is ended.
Attach(a) ==
  LET p == command[a].of IN
  /\ command[a].step = "attach"
  /\ \/ Step(a, "wait", p) /\ UNCHANGED <<mutex, app, child, failed, proc>>
     \/ Kill(p) /\ (StartFailed(a) \/ Stuck(a))
  /\ UNCHANGED <<port, crashes>>

\* Mutant: whatever listens on the port is taken for the server.
ListenerAny(p) == port # None

\* verify_listener_owner.
Listener(p) == port = p

\* wait_for_server_ready: a server that exited is started again at a launch; one
\* that is not ready in time is ended with terminate_server_tree.
WaitReady(a) ==
  LET p == command[a].of IN
  /\ command[a].step = "wait"
  /\ \/ Listener(p) /\ Step(a, "probe", p) /\ UNCHANGED <<mutex, app, child, failed, proc>>
     \/ /\ proc[p] = "dead" /\ UNCHANGED proc
        /\ IF Retries(a) THEN Again(a) ELSE StartFailed(a)
     \/ Alive(p) /\ Kill(p) /\ (StartFailed(a) \/ Stuck(a))
  /\ UNCHANGED <<port, crashes>>

\* authenticated_server_probe: a welcome counts if the listener is still the
\* server, and the server still runs.
Probe(a) ==
  LET p == command[a].of IN
  /\ command[a].step = "probe"
  /\ IF Listener(p) /\ proc[p] # "dead" THEN Started(a, p)
     ELSE Step(a, "wait", p) /\ UNCHANGED <<mutex, app, child, failed>>
  /\ UNCHANGED <<proc, port, crashes>>

-----------------------------------------------------------------------------
(* The launch and the commands of its windows.                             *)

\* Mutant: a launch does not ask for the mutex of an earlier one.
InstanceFreeAlways == TRUE

InstanceFree == mutex = None

Launch(a) ==
  /\ app[a] = "off" /\ InstanceFree /\ mutex' = a
  /\ app' = [app EXCEPT ![a] = "setup"]
  /\ command' = [command EXCEPT ![a] = [name |-> "setup", step |-> "spawn", of |-> None, attempt |-> 1]]
  /\ UNCHANGED <<child, failed, proc, port, crashes>>

Idle(a) == app[a] = "up" /\ command[a] = NoCommand

\* recover_server: a server that runs is kept unless the recovery is forced.
Recover(a, force) ==
  /\ Idle(a) /\ (Alive(child[a]) => force)
  /\ failed' = [failed EXCEPT ![a] = TRUE] /\ Kill(child[a])
  /\ command' = [command EXCEPT ![a] =
       [name |-> "recover", step |-> IF Alive(child[a]) THEN "reap" ELSE "spawn",
        of |-> child[a], attempt |-> 0]]
  /\ UNCHANGED <<mutex, app, child, port, crashes>>

\* stop_server_for_update, and RunEvent::Exit.
Stop(a, name) ==
  /\ Idle(a) /\ (name = "stop" => child[a] # None)
  /\ failed' = [failed EXCEPT ![a] = @ \/ name = "stop"] /\ Kill(child[a])
  /\ command' = [command EXCEPT ![a] =
       [name |-> name, step |-> "reap", of |-> child[a], attempt |-> 0]]
  /\ UNCHANGED <<mutex, app, child, port, crashes>>

\* terminate_server_tree returns: the process has ended, or it is waited for no
\* longer. A recovery then starts the next server, or leaves all as it is.
Reaped(a) ==
  LET c == command[a]
      gone == c.of = None \/ proc[c.of] = "dead" IN
  /\ c.step = "reap"
  /\ CASE c.name = "recover" ->
            /\ IF gone THEN Step(a, "spawn", None) ELSE Over(a)
            /\ child' = IF gone THEN [child EXCEPT ![a] = None] ELSE child
            /\ UNCHANGED <<mutex, app>>
       [] c.name = "stop" ->
            /\ Over(a) /\ child' = IF gone THEN [child EXCEPT ![a] = None] ELSE child
            /\ UNCHANGED <<mutex, app>>
       [] c.name = "exit" ->
            /\ Over(a) /\ child' = [child EXCEPT ![a] = None]
            /\ app' = [app EXCEPT ![a] = "off"] /\ mutex' = None
  /\ UNCHANGED <<failed, proc, port, crashes>>

\* The shell dies: its mutex is free, and its job ends every process in it.
ShellDies(a) ==
  /\ app[a] # "off" /\ crashes < MaxCrashes /\ crashes' = crashes + 1
  /\ DiesUnattached \/ command[a].step # "attach"
  /\ app' = [app EXCEPT ![a] = "off"] /\ mutex' = None
  /\ LET jobs == {child[a]} \cup (IF command[a].step = "attach" THEN {} ELSE {command[a].of}) IN
     proc' = [p \in Procs |-> IF Alive(p) /\ p \in jobs THEN "killed" ELSE proc[p]]
  /\ child' = [child EXCEPT ![a] = None] /\ Over(a)
  /\ UNCHANGED <<failed, port>>

Next ==
  \/ \E a \in Apps :
       \/ Launch(a) \/ Spawn(a) \/ Attach(a) \/ WaitReady(a) \/ Probe(a) \/ Reaped(a) \/ ShellDies(a)
       \/ \E force \in BOOLEAN : Recover(a, force)
       \/ \E name \in {"stop", "exit"} : Stop(a, name)
  \/ \E p \in Procs : Listens(p) \/ Exits(p)
  \/ OtherListens \/ OtherLeaves

Spec == Init /\ [][Next]_vars

-----------------------------------------------------------------------------
(* Every server that runs is the one of the launch that holds the mutex:   *)
(* the app's log and settings have one writer, through recoveries, updates *)
(* and exits that give up on a process, and crashes and second launches    *)
(* (the mutex of run, kill-on-close of JobHandle, recover_server); with    *)
(* DiesUnattached a shell that dies between the start of its server and    *)
(* the job that would end it leaves the server behind.                     *)
OneServer ==
  \A p \in Procs : Alive(p) =>
    /\ mutex # None /\ p \in {child[mutex], command[mutex].of}
    /\ \A q \in Procs : Alive(q) => q = p

(* The connection is only shown once the server behind it is the process   *)
(* the shell started: no other program that got the port in between is     *)
(* handed the app's token and prompts (authenticated_server_probe).        *)
ShownIsOurs ==
  [][\A a \in Apps : child'[a] \notin {child[a], None} => port = child'[a]]_vars
=============================================================================
