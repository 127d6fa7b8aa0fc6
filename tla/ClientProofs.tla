---------------------------- MODULE ClientProofs ----------------------------
(***************************************************************************)
(* What the client run checks on a small instance, for every instance: one *)
(* server runs and is the one shown, for any number of launches, processes,*)
(* attempts and crashes (Sidecar), an update lease is given back           *)
(* (AppUpdate), a chat whose creation was not acknowledged is found again  *)
(* for any drafts, attempts, lost connections, timeouts, failed writes and *)
(* reloads (Delivery), every event is shown once (RendererSync) and the    *)
(* turns on the screen are right (TurnView), which have modules of their   *)
(* own.                                                                    *)
(***************************************************************************)
EXTENDS MCClient, SequenceTheorems, TLAPS

Commands ==
  [name : {"none", "setup", "recover", "stop", "exit"},
   step : {"none", "spawn", "attach", "wait", "probe", "reap"},
   of : Procs \cup {None}, attempt : Int]

Typed ==
  /\ mutex \in Apps \cup {None} /\ app \in [Apps -> {"off", "setup", "up"}]
  /\ child \in [Apps -> Procs \cup {None}] /\ command \in [Apps -> Commands]
  /\ proc \in [Procs -> {"unused", "running", "killed", "dead"}]

\* The launch that holds the mutex is the only one that has anything.
HolderHasAll ==
  \A a \in Apps : /\ app[a] # "off" <=> mutex = a
                  /\ mutex # a => child[a] = None /\ command[a].step = "none"

\* What runs is its child or the process of its command.
RunningIsHeld ==
  \A p \in Procs : Alive(p) =>
    mutex \in Apps /\ (p = child[mutex] \/ p = command[mutex].of)

\* Nothing runs before a start and after an end; while a server starts, no child
\* runs, and the first start has no child.
OneAtATime ==
  \A a \in Apps :
    /\ command[a].step = "none" => command[a].of = None
    /\ command[a].step \in {"spawn", "reap"} => \A p \in Procs : ~Alive(p)
    /\ command[a].step \in {"attach", "wait", "probe"} =>
         ~Alive(child[a]) /\ command[a].of \in Procs
    /\ command[a].step = "reap" => command[a].name \in {"recover", "stop", "exit"}
    /\ command[a].name = "setup" => child[a] = None

\* A process is started once.
StartedOnce ==
  \A a \in Apps : \A p \in Procs :
    p = child[a] \/ p = command[a].of => proc[p] # "unused"

IInv == Typed /\ HolderHasAll /\ RunningIsHeld /\ OneAtATime /\ StartedOnce

Named == None \notin Procs /\ None \notin Apps

-----------------------------------------------------------------------------

\* Initially nothing runs.
LEMMA InitInv == ASSUME Named PROVE Init => IInv
<1> SUFFICES ASSUME Init PROVE IInv
  OBVIOUS
<1>1. NoCommand \in Commands /\ NoCommand.step = "none" /\ NoCommand.of = None /\ NoCommand.name = "none"
  BY DEF NoCommand, Commands
<1> QED
  BY <1>1 DEF Init, Named, IInv, Typed, HolderHasAll, RunningIsHeld, OneAtATime,
     StartedOnce, Alive

\* Processes that begin to listen or end, and other programs.
LEMMA ProcessStep ==
  ASSUME Named, IInv,
         (\E p \in Procs : Listens(p) \/ Exits(p)) \/ OtherListens \/ OtherLeaves
  PROVE  IInv'
BY DEF Named, IInv, Typed, HolderHasAll, RunningIsHeld, OneAtATime, StartedOnce, Alive,
   Listens, Exits,
       OtherListens, OtherLeaves

\* What a command that is over leaves.
LEMMA Overs ==
  ASSUME Typed, NEW a \in Apps, Over(a)
  PROVE  /\ command' \in [Apps -> Commands]
         /\ command'[a].step = "none" /\ command'[a].of = None /\ command'[a].name = "none"
         /\ \A b \in Apps \ {a} : command'[b] = command[b]
<1>1. NoCommand \in Commands /\ NoCommand.step = "none" /\ NoCommand.of = None /\ NoCommand.name = "none"
  BY DEF NoCommand, Commands
<1> QED
  BY <1>1 DEF Typed, Over

\* What a step of a command leaves.
LEMMA Steps ==
  ASSUME Typed, NEW a \in Apps, NEW p \in Procs \cup {None},
         NEW s \in {"none", "spawn", "attach", "wait", "probe", "reap"}, Step(a, s, p)
  PROVE  /\ command' \in [Apps -> Commands]
         /\ command'[a].step = s /\ command'[a].of = p /\ command'[a].name = command[a].name
         /\ \A b \in Apps \ {a} : command'[b] = command[b]
<1>1. command[a] \in Commands
  BY DEF Typed
<1>2. command' = [command EXCEPT ![a] = [[command[a] EXCEPT !.step = s] EXCEPT !.of = p]]
  BY DEF Step
<1>3. [[command[a] EXCEPT !.step = s] EXCEPT !.of = p] \in Commands
  BY <1>1 DEF Commands
<1> QED
  BY <1>1, <1>2, <1>3 DEF Typed, Commands

\* A kill leaves nothing running of a process, and starts none.
LEMMA Kills ==
  ASSUME Typed, NEW p \in Procs \cup {None}, Kill(p)
  PROVE  /\ proc' \in [Procs -> {"unused", "running", "killed", "dead"}]
         /\ \A q \in Procs : Alive(q)' => Alive(q) /\ q # p
         /\ \A q \in Procs : proc'[q] = "unused" => proc[q] = "unused"
BY DEF Typed, Kill, Alive

\* A start ends: with this server, or with none when none runs.
LEMMA StartEnds ==
  ASSUME Named, IInv, NEW a \in Apps, mutex = a,
         proc' \in [Procs -> {"unused", "running", "killed", "dead"}],
         \A q \in Procs : Alive(q)' => Alive(q),
         \A q \in Procs : proc'[q] = "unused" => proc[q] = "unused",
         \/ StartFailed(a) /\ \A q \in Procs : ~Alive(q)'
         \/ Stuck(a) /\ \A q \in Procs : ~Alive(q)'
         \/ command[a].step = "probe" /\ Started(a, command[a].of)
  PROVE  IInv'
<1> USE DEF Named, IInv, Typed, HolderHasAll, RunningIsHeld, OneAtATime, StartedOnce
<1>1. StartFailed(a) \/ (command[a].name = "setup" /\ Stuck(a)) \/ Started(a, command[a].of)
  BY DEF Stuck
<1>2. Over(a)
  BY <1>1 DEF StartFailed, Stuck, Started
<1>3. /\ command' \in [Apps -> Commands]
      /\ command'[a].step = "none" /\ command'[a].of = None /\ command'[a].name = "none"
      /\ \A b \in Apps \ {a} : command'[b] = command[b]
  BY <1>2, Overs
<1>4. command[a].of \in Procs \cup {None}
  BY DEF Commands
<1>5. CASE StartFailed(a) /\ \A q \in Procs : ~Alive(q)'
  BY <1>3, <1>5 DEF StartFailed, Alive
<1>6. CASE command[a].name = "setup" /\ Stuck(a) /\ \A q \in Procs : ~Alive(q)'
  <2>1. mutex' = None /\ app' = [app EXCEPT ![a] = "off"] /\ child' = child
    BY <1>6 DEF Stuck
  <2>2. \A b \in Apps : app'[b] = "off" /\ child'[b] = None /\ command'[b].step = "none"
                       /\ command'[b].of = None
    BY <1>3, <1>6, <2>1
  <2>3. Typed' /\ HolderHasAll' /\ RunningIsHeld'
    BY <1>3, <1>6, <2>1, <2>2
  <2>4. OneAtATime' /\ StartedOnce'
    BY <2>2
  <2> QED
    BY <2>3, <2>4
<1>7. CASE command[a].step = "probe" /\ Started(a, command[a].of)
  BY <1>3, <1>4, <1>7 DEF Started, Alive
<1> QED
  BY <1>1, <1>5, <1>6, <1>7 DEF Stuck

-----------------------------------------------------------------------------
(* The start of a server *)

\* A server is started while none runs.
LEMMA SpawnStep == ASSUME Named, IInv, NEW a \in Apps, Spawn(a) PROVE IInv'
<1> USE DEF Named, IInv, Typed, HolderHasAll, RunningIsHeld, OneAtATime, StartedOnce
<1>1. mutex = a /\ \A p \in Procs : ~Alive(p)
  BY DEF Spawn
<1>2. CASE StartFailed(a) /\ UNCHANGED proc
  BY <1>1, <1>2, StartEnds DEF Alive
<1>3. ASSUME NEW p \in Procs, proc[p] = "unused", proc' = [proc EXCEPT ![p] = "running"],
             Step(a, "attach", p), UNCHANGED <<mutex, app, child>>
      PROVE  IInv'
  <2>1. /\ command' \in [Apps -> Commands]
        /\ command'[a].step = "attach" /\ command'[a].of = p /\ command'[a].name = command[a].name
        /\ \A b \in Apps \ {a} : command'[b] = command[b]
    BY <1>3, Steps
  <2>2. \A q \in Procs : Alive(q)' => q = p
    BY <1>1, <1>3 DEF Alive
  <2>3. ~Alive(child[a])
    BY <1>1 DEF Alive
  <2>4. child[a] # p /\ \A q \in Procs \ {p} : proc'[q] = proc[q]
    BY <1>3
  <2> QED
    BY <1>1, <1>3, <2>1, <2>2, <2>3, <2>4 DEF Alive
<1> QED
  BY <1>2, <1>3 DEF Spawn

\* The process that was started is put in its job, or the start fails and it is reaped.
LEMMA AttachStep == ASSUME Named, IInv, NEW a \in Apps, Attach(a) PROVE IInv'
<1> USE DEF Named, IInv, Typed, HolderHasAll, RunningIsHeld, OneAtATime, StartedOnce
<1> DEFINE p == command[a].of
<1>0. p \in Procs /\ command[a].step = "attach"
  BY DEF Attach
<1>1. mutex = a /\ p \in Procs /\ ~Alive(child[a])
  BY <1>0
<1>2. CASE Step(a, "wait", p) /\ UNCHANGED <<mutex, app, child, proc>>
  <2>1. /\ command' \in [Apps -> Commands]
        /\ command'[a].step = "wait" /\ command'[a].of = p /\ command'[a].name = command[a].name
        /\ \A b \in Apps \ {a} : command'[b] = command[b]
    BY <1>1, <1>2, Steps
  <2> QED
    BY <1>1, <1>2, <2>1 DEF Alive
<1>3. CASE Kill(p) /\ (StartFailed(a) \/ Stuck(a))
  <2>1. /\ proc' \in [Procs -> {"unused", "running", "killed", "dead"}]
        /\ \A q \in Procs : Alive(q)' => Alive(q) /\ q # p
        /\ \A q \in Procs : proc'[q] = "unused" => proc[q] = "unused"
    BY <1>1, <1>3, Kills
  <2>2. \A q \in Procs : ~Alive(q)'
    BY <1>1, <2>1
  <2> HIDE DEF IInv
  <2> QED
    BY <1>1, <1>3, <2>1, <2>2, StartEnds
<1> QED
  BY <1>2, <1>3 DEF Attach

\* The shell waits for the process that it started, which may be replaced.
LEMMA WaitStep == ASSUME Named, IInv, NEW a \in Apps, WaitReady(a) PROVE IInv'
<1> USE DEF Named, IInv, Typed, HolderHasAll, RunningIsHeld, OneAtATime, StartedOnce
<1> DEFINE p == command[a].of
<1>0. p \in Procs /\ command[a].step = "wait"
  BY DEF WaitReady
<1>1. mutex = a /\ p \in Procs /\ ~Alive(child[a])
  BY <1>0
<1>2. CASE Step(a, "probe", p) /\ UNCHANGED <<mutex, app, child, proc>>
  <2>1. /\ command' \in [Apps -> Commands]
        /\ command'[a].step = "probe" /\ command'[a].of = p /\ command'[a].name = command[a].name
        /\ \A b \in Apps \ {a} : command'[b] = command[b]
    BY <1>1, <1>2, Steps
  <2> QED
    BY <1>1, <1>2, <2>1 DEF Alive
<1>3. CASE proc[p] = "dead" /\ UNCHANGED proc /\ StartFailed(a)
  <2>1. \A q \in Procs : ~Alive(q)'
    BY <1>1, <1>3 DEF Alive
  <2>2. \A q \in Procs : Alive(q)' => Alive(q)
    BY <2>1
  <2> QED
    BY <1>1, <1>3, <2>1, <2>2, StartEnds
<1>4. CASE proc[p] = "dead" /\ UNCHANGED proc /\ Again(a)
  <2>1. \A q \in Procs : ~Alive(q) /\ ~Alive(q)'
    BY <1>1, <1>4 DEF Alive
  <2>2. command[a] \in Commands
    OBVIOUS
  <2>3. command' = [command EXCEPT ![a] = [[command[a] EXCEPT !.step = "spawn"]
                                            EXCEPT !.attempt = command[a].attempt + 1]]
    BY <1>4 DEF Again
  <2>6. command[a].attempt + 1 \in Int
    BY <2>2 DEF Commands
  <2>4. /\ [[command[a] EXCEPT !.step = "spawn"]
              EXCEPT !.attempt = command[a].attempt + 1] \in Commands
        /\ command'[a].step = "spawn" /\ command'[a].name = command[a].name
    BY <2>2, <2>3, <2>6 DEF Commands
  <2>5. /\ command' \in [Apps -> Commands]
        /\ \A b \in Apps \ {a} : command'[b] = command[b]
    BY <2>3, <2>4
  <2> QED
    BY <1>1, <1>4, <2>1, <2>4, <2>5 DEF Again, Alive
<1>5. CASE Kill(p) /\ (StartFailed(a) \/ Stuck(a))
  <2>1. /\ proc' \in [Procs -> {"unused", "running", "killed", "dead"}]
        /\ \A q \in Procs : Alive(q)' => Alive(q) /\ q # p
        /\ \A q \in Procs : proc'[q] = "unused" => proc[q] = "unused"
    BY <1>1, <1>5, Kills
  <2>2. \A q \in Procs : ~Alive(q)'
    BY <1>1, <2>1
  <2> HIDE DEF IInv
  <2> QED
    BY <1>1, <1>5, <2>1, <2>2, StartEnds
<1> QED
  BY <1>2, <1>3, <1>4, <1>5 DEF WaitReady

\* The process that answers becomes the child, whose place is free.
LEMMA ProbeStep == ASSUME Named, IInv, NEW a \in Apps, Probe(a) PROVE IInv'
<1> USE DEF Named, IInv, Typed, HolderHasAll, RunningIsHeld, OneAtATime, StartedOnce
<1> DEFINE p == command[a].of
<1>1. mutex = a /\ p \in Procs \cup {None} /\ UNCHANGED proc
  BY DEF Probe, Commands
<1>2. CASE Step(a, "wait", p) /\ UNCHANGED <<mutex, app, child>>
  <2>1. /\ command' \in [Apps -> Commands]
        /\ command'[a].step = "wait" /\ command'[a].of = p /\ command'[a].name = command[a].name
        /\ \A b \in Apps \ {a} : command'[b] = command[b]
    BY <1>1, <1>2, Steps
  <2> QED
    BY <1>1, <1>2, <2>1 DEF Alive, Probe
<1>3. CASE Started(a, p)
  <2>1. proc' \in [Procs -> {"unused", "running", "killed", "dead"}] /\ command[a].step = "probe"
    BY <1>1 DEF Probe
  <2>2. \A q \in Procs : Alive(q)' => Alive(q)
    BY <1>1 DEF Alive
  <2> HIDE DEF IInv
  <2> QED
    BY <1>1, <1>3, <2>1, <2>2, StartEnds
<1> QED
  BY <1>2, <1>3 DEF Probe

-----------------------------------------------------------------------------
(* Launches, recoveries and ends *)

\* Only the launch that gets the mutex goes on.
LEMMA LaunchStep == ASSUME Named, IInv, NEW a \in Apps, Launch(a) PROVE IInv'
<1> USE DEF Named, IInv, Typed, HolderHasAll, RunningIsHeld, OneAtATime, StartedOnce
<1>1. mutex = None /\ \A p \in Procs : ~Alive(p)
  BY DEF Launch, InstanceFree
<1>2. [name |-> "setup", step |-> "spawn", of |-> None, attempt |-> 1] \in Commands
  BY DEF Commands
<1> QED
  BY <1>1, <1>2 DEF Launch, Alive

\* A command of the window that kills its child.
LEMMA CommandStep ==
  ASSUME Named, IInv, NEW a \in Apps, NEW name \in {"recover", "stop", "exit"},
         NEW s \in {"spawn", "reap"}, Idle(a), Kill(child[a]), UNCHANGED <<mutex, app, child>>,
         command' = [command EXCEPT ![a] =
           [name |-> name, step |-> s, of |-> child[a], attempt |-> 0]]
  PROVE  IInv'
<1> USE DEF Named, IInv, Typed, HolderHasAll, RunningIsHeld, OneAtATime, StartedOnce
<1>1. mutex = a /\ command[a].of = None /\ child[a] \in Procs \cup {None}
  BY DEF Idle, NoCommand
<1>2. /\ proc' \in [Procs -> {"unused", "running", "killed", "dead"}]
      /\ \A q \in Procs : Alive(q)' => Alive(q) /\ q # child[a]
      /\ \A q \in Procs : proc'[q] = "unused" => proc[q] = "unused"
  BY <1>1, Kills
<1>3. \A q \in Procs : ~Alive(q)'
  BY <1>1, <1>2 DEF Alive
<1>4. [name |-> name, step |-> s, of |-> child[a], attempt |-> 0] \in Commands
  BY <1>1 DEF Commands
<1> QED
  BY <1>1, <1>2, <1>3, <1>4 DEF Alive

\* A recovery terminates the child that runs, or starts at once.
LEMMA RecoverStep ==
  ASSUME Named, IInv, NEW a \in Apps, NEW force \in BOOLEAN, Recover(a, force) PROVE IInv'
<1>2. CASE Alive(child[a])
  BY <1>2, CommandStep DEF Recover
<1>3. CASE ~Alive(child[a])
  BY <1>3, CommandStep DEF Recover
<1> QED
  BY <1>2, <1>3

\* A stop terminates the child.
LEMMA StopStep ==
  ASSUME Named, IInv, NEW a \in Apps, NEW name \in {"stop", "exit"}, Stop(a, name) PROVE IInv'
BY CommandStep DEF Stop

\* Nothing runs when a command is done waiting for the end of its processes.
LEMMA ReapedStep == ASSUME Named, IInv, NEW a \in Apps, Reaped(a) PROVE IInv'
<1> USE DEF Named, IInv, Typed, HolderHasAll, RunningIsHeld, OneAtATime, StartedOnce
<1>1. mutex = a /\ \A p \in Procs : ~Alive(p)
  BY DEF Reaped
<1>2. UNCHANGED proc /\ \A p \in Procs : ~Alive(p)'
  BY <1>1 DEF Reaped, Alive
<1>3. CASE Step(a, "spawn", None) /\ child' \in {child, [child EXCEPT ![a] = None]}
             /\ UNCHANGED <<mutex, app>>
  <2>1. /\ command' \in [Apps -> Commands]
        /\ command'[a].step = "spawn" /\ command'[a].of = None /\ command'[a].name = command[a].name
        /\ \A b \in Apps \ {a} : command'[b] = command[b]
    BY <1>3, Steps
  <2> QED
    BY <1>1, <1>2, <1>3, <2>1
<1>4. CASE Over(a)
  <2>1. /\ command' \in [Apps -> Commands]
        /\ command'[a].step = "none" /\ command'[a].of = None /\ command'[a].name = "none"
        /\ \A b \in Apps \ {a} : command'[b] = command[b]
    BY <1>4, Overs
  <2>2. CASE UNCHANGED <<mutex, app>> /\ child' \in {child, [child EXCEPT ![a] = None]}
    BY <1>1, <1>2, <2>1, <2>2
  <2>3. CASE /\ child' = [child EXCEPT ![a] = None] /\ app' = [app EXCEPT ![a] = "off"]
             /\ mutex' = None
    BY <1>1, <1>2, <2>1, <2>3
  <2>4. command[a].name \in {"recover", "stop", "exit"}
    BY DEF Reaped
  <2> QED
    BY <2>2, <2>3, <2>4 DEF Reaped
<1> QED
  BY <1>3, <1>4 DEF Reaped

\* The job of a shell that dies ends its server, if the server is in it.
LEMMA DiesStep ==
  ASSUME Named, IInv, ~DiesUnattached, NEW a \in Apps, ShellDies(a) PROVE IInv'
<1> USE DEF Named, IInv, Typed, HolderHasAll, RunningIsHeld, OneAtATime, StartedOnce
<1>1. mutex = a /\ command[a].step # "attach"
  BY DEF ShellDies
<1>2. /\ command' \in [Apps -> Commands]
      /\ command'[a].step = "none" /\ command'[a].of = None /\ command'[a].name = "none"
      /\ \A b \in Apps \ {a} : command'[b] = command[b]
  BY Overs DEF ShellDies
<1>3. proc' = [p \in Procs |-> IF Alive(p) /\ p \in {child[a]} \cup {command[a].of}
                               THEN "killed" ELSE proc[p]]
  BY <1>1 DEF ShellDies
<1>4. /\ proc' \in [Procs -> {"unused", "running", "killed", "dead"}]
      /\ \A p \in Procs : ~Alive(p)'
  BY <1>1, <1>3 DEF Alive
<1>5. mutex' = None /\ app' = [app EXCEPT ![a] = "off"] /\ child' = [child EXCEPT ![a] = None]
  BY DEF ShellDies
<1>6. \A b \in Apps : app'[b] = "off" /\ child'[b] = None /\ command'[b].step = "none"
                     /\ command'[b].of = None
  BY <1>1, <1>2, <1>5
<1>7. Typed' /\ HolderHasAll' /\ RunningIsHeld'
  BY <1>2, <1>4, <1>5, <1>6
<1>8. OneAtATime' /\ StartedOnce'
  BY <1>6
<1> QED
  BY <1>7, <1>8

-----------------------------------------------------------------------------

\* The invariant holds in every reachable state.
LEMMA Inductive == ASSUME Named, ~DiesUnattached PROVE Spec => []IInv
<1>1. Init => IInv
  BY InitInv
<1>2. IInv /\ [Next]_vars => IInv'
  <2> SUFFICES ASSUME IInv, [Next]_vars PROVE IInv'
    OBVIOUS
  <2>1. CASE UNCHANGED vars
    BY <2>1 DEF vars, IInv, Typed, HolderHasAll, RunningIsHeld, OneAtATime, StartedOnce,
       Alive
  <2> QED
    BY <2>1, ProcessStep, SpawnStep, AttachStep, WaitStep, ProbeStep, LaunchStep,
       RecoverStep,
       StopStep, ReapedStep, DiesStep DEF Next
<1> QED
  BY <1>1, <1>2, PTL DEF Spec

\* At most one server runs, and the launch that holds the mutex has it, if the
\* shell does not die between starting a server and putting it in its job
\* (recover_server, stop_server_for_update, JobHandle).
THEOREM OneServerRuns == ASSUME Named, ~DiesUnattached PROVE Spec => []OneServer
<1>1. IInv => OneServer
  BY DEF Named, IInv, Typed, HolderHasAll, RunningIsHeld, OneAtATime, StartedOnce,
     OneServer, Alive, Commands
<1> QED
  BY <1>1, Inductive, PTL

\* A connection is shown only while the server behind it is the process the shell
\* started (authenticated_server_probe).
THEOREM ShownServerIsOurs == ASSUME Named, ~DiesUnattached PROVE Spec => ShownIsOurs
<1>1. IInv /\ [Next]_vars =>
        [\A a \in Apps : child'[a] \notin {child[a], None} => port = child'[a]]_vars
  <2> SUFFICES ASSUME IInv, Next, NEW b \in Apps, child'[b] \notin {child[b], None}
               PROVE  port = child'[b]
    BY DEF vars
  <2>1. child \in [Apps -> Procs \cup {None}]
    BY DEF IInv, Typed
  <2>2. PICK a \in Apps :
          \/ Launch(a) \/ Spawn(a) \/ Attach(a) \/ WaitReady(a) \/ Probe(a) \/ Reaped(a)
          \/ ShellDies(a) \/ (\E force \in BOOLEAN : Recover(a, force))
          \/ \E name \in {"stop", "exit"} : Stop(a, name)
    BY DEF Next, Listens, Exits, OtherListens, OtherLeaves
  <2>3. \/ Probe(a) /\ Started(a, command[a].of)
        \/ child' = child \/ child' = [child EXCEPT ![a] = None]
    <3>1. CASE Launch(a) \/ Spawn(a) \/ ShellDies(a)
      BY <3>1 DEF Launch, Spawn, ShellDies, StartFailed
    <3>2. CASE Attach(a) \/ WaitReady(a)
      BY <3>2 DEF Attach, WaitReady, StartFailed, Stuck, Again
    <3>3. CASE Probe(a)
      BY <3>3 DEF Probe
    <3>4. CASE Reaped(a)
      <4>1. command[a].name \in {"recover", "stop", "exit"}
        BY <3>4 DEF Reaped, IInv, OneAtATime
      <4> QED
        BY <3>4, <4>1 DEF Reaped
    <3>5. CASE \/ \E force \in BOOLEAN : Recover(a, force)
               \/ \E name \in {"stop", "exit"} : Stop(a, name)
      BY <3>5 DEF Recover, Stop
    <3> QED
      BY <2>2, <3>1, <3>2, <3>3, <3>4, <3>5
  <2> QED
    BY <2>1, <2>3 DEF Probe, Started, Listener
<1> QED
  BY <1>1, Inductive, PTL DEF Spec, ShownIsOurs

-----------------------------------------------------------------------------
(* The update lease: module AppUpdate. *)

\* Who holds the lease is connected and knows that it has prepared an update.
HolderKnows == updateLease # None => updateLease \in updateConn /\ updateAttempt[updateLease].prepared

UpdateTyped ==
  /\ updateLease \in UpdateWindows \cup {None} /\ updateConn \subseteq UpdateWindows
  /\ updateStep \in [UpdateWindows -> {"idle", "prepare", "download", "confirm", "stop", "install",
                           "recover", "release", "retry"}]
  /\ updateCancel \in [UpdateWindows -> 0..2]
  /\ updateAttempt \in [UpdateWindows -> [prepared : BOOLEAN, cancelled : BOOLEAN, closed : BOOLEAN]]

UpdateInv == UpdateTyped /\ HolderKnows /\ Update!LeaseIsGivenBack

-----------------------------------------------------------------------------

\* Initially nobody holds the lease.
LEMMA UpdateInit == ASSUME None \notin UpdateWindows PROVE Update!Init => UpdateInv
BY DEF Update!Init, UpdateInv, UpdateTyped, HolderKnows, Update!LeaseIsGivenBack,
   Update!NoAttempt, Update!Tries

\* A cleanup gives the lease back, or the window has lost it with its socket.
LEMMA CleanupGives ==
  ASSUME None \notin UpdateWindows, UpdateInv, NEW w \in UpdateWindows, NEW ok \in BOOLEAN,
         Update!Cleanup(w, ok), UNCHANGED updateConn
  PROVE  /\ updateLease' # w /\ (updateLease' = updateLease \/ (updateLease = w /\ updateLease' = None))
         /\ updateAttempt' \in [UpdateWindows -> [prepared : BOOLEAN, cancelled : BOOLEAN, closed : BOOLEAN]]
         /\ \A v \in UpdateWindows \ {w} : updateAttempt'[v] = updateAttempt[v]
<1> USE DEF UpdateInv, UpdateTyped, HolderKnows
<1>1. updateLease' # w /\ (updateLease' = updateLease \/ (updateLease = w /\ updateLease' = None))
  BY DEF Update!Cleanup, Update!Cancels
<1>2. updateAttempt[w] \in [prepared : BOOLEAN, cancelled : BOOLEAN, closed : BOOLEAN]
  OBVIOUS
<1>3. updateAttempt' = [updateAttempt EXCEPT ![w] = [[updateAttempt[w] EXCEPT !.closed = @ \/ ok]
                    EXCEPT !.prepared = @ /\ ~(updateAttempt[w].prepared /\ Update!Cancels(w))]]
  BY DEF Update!Cleanup
<1> QED
  BY <1>1, <1>2, <1>3

\* A release or a cancelled update that cleans up gives the lease back, or keeps what
\* says that it is still to be given back.
LEMMA CleanupStep ==
  ASSUME None \notin UpdateWindows, UpdateInv, NEW w \in UpdateWindows, NEW ok \in BOOLEAN,
         Update!Release(w, ok) \/ Update!CancelCleanup(w, ok)
  PROVE  UpdateInv'
<1>1. UNCHANGED updateConn /\ Update!Cleanup(w, ok)
  BY DEF Update!Release, Update!CancelCleanup
<1>2. /\ updateLease' # w /\ (updateLease' = updateLease \/ (updateLease = w /\ updateLease' = None))
      /\ updateAttempt' \in [UpdateWindows -> [prepared : BOOLEAN, cancelled : BOOLEAN, closed : BOOLEAN]]
      /\ \A v \in UpdateWindows \ {w} : updateAttempt'[v] = updateAttempt[v]
  BY <1>1, CleanupGives
<1>3. HolderKnows' /\ updateLease' \in UpdateWindows \cup {None}
  BY <1>1, <1>2 DEF UpdateInv, UpdateTyped, HolderKnows
<1>4. CASE Update!Release(w, ok)
  BY <1>1, <1>2, <1>3, <1>4 DEF Update!Release, Update!To, UpdateInv, UpdateTyped,
     Update!LeaseIsGivenBack
<1>5. CASE Update!CancelCleanup(w, ok)
  <2>1. updateCancel' \in [UpdateWindows -> 0..2] /\ \A v \in UpdateWindows \ {w} : updateCancel'[v] = updateCancel[v]
    BY <1>5 DEF Update!CancelCleanup, UpdateInv, UpdateTyped, Update!Tries
  <2> QED
    BY <1>1, <1>2, <1>3, <1>5, <2>1 DEF Update!CancelCleanup, UpdateInv, UpdateTyped,
       Update!LeaseIsGivenBack
<1> QED
  BY <1>4, <1>5

\* The connections and what the server does.
LEMMA ServerStep ==
  ASSUME None \notin UpdateWindows, UpdateInv, NEW w \in UpdateWindows,
         Update!Drop(w) \/ Update!Connect(w) \/ Update!WorkBegins \/ Update!WorkEnds
  PROVE  UpdateInv'
BY DEF UpdateInv, UpdateTyped, HolderKnows, Update!LeaseIsGivenBack, Update!Drop,
   Update!Without, Update!Connect, Update!WorkBegins, Update!WorkEnds

\* An attempt, from its begin to the end of the installation.
LEMMA InstallStep ==
  ASSUME None \notin UpdateWindows, UpdateInv, NEW w \in UpdateWindows, NEW ok \in BOOLEAN,
         \/ Update!Install(w) \/ Update!Prepare(w) \/ Update!Downloaded(w, ok) \/ Update!Confirm(w) \/ Update!StopServer(w)
         \/ Update!Installs(w, ok) \/ Update!Recover(w) \/ Update!Cancel(w)
  PROVE  UpdateInv'
<1> USE DEF UpdateInv, UpdateTyped, HolderKnows, Update!LeaseIsGivenBack, Update!To,
   Update!Tries
<1>1. CASE Update!Install(w)
  <2>1. updateLease # w
    BY <1>1 DEF Update!Install
  <2>2. Update!NoAttempt \in [prepared : BOOLEAN, cancelled : BOOLEAN, closed : BOOLEAN]
    BY DEF Update!NoAttempt
  <2> QED
    BY <1>1, <2>1, <2>2 DEF Update!Install
<1>2. CASE Update!Prepare(w)
  <2>1. CASE Update!Prepares(w)
    <3>1. updateLease' = w /\ w \in updateConn /\ updateStep' = [updateStep EXCEPT ![w] = "download"]
      BY <1>2, <2>1 DEF Update!Prepare, Update!Prepares
    <3>2. updateAttempt[w] \in [prepared : BOOLEAN, cancelled : BOOLEAN, closed : BOOLEAN]
      OBVIOUS
    <3>3. updateAttempt' = [updateAttempt EXCEPT ![w] = [updateAttempt[w] EXCEPT !.prepared = TRUE]]
      BY <1>2, <2>1 DEF Update!Prepare
    <3>4. /\ updateAttempt' \in [UpdateWindows -> [prepared : BOOLEAN, cancelled : BOOLEAN, closed : BOOLEAN]]
          /\ updateAttempt'[w].prepared
      BY <3>2, <3>3
    <3> QED
      BY <1>2, <3>1, <3>4 DEF Update!Prepare
  <2>2. CASE ~Update!Prepares(w)
    BY <1>2, <2>2 DEF Update!Prepare
  <2> QED
    BY <2>1, <2>2
<1>3. CASE Update!Downloaded(w, ok)
  BY <1>3 DEF Update!Downloaded
<1>4. CASE Update!Confirm(w)
  BY <1>4 DEF Update!Confirm
<1>5. CASE Update!StopServer(w)
  BY <1>5 DEF Update!StopServer, Update!Without
<1>6. CASE Update!Installs(w, ok)
  BY <1>6 DEF Update!Installs, Update!Without
<1>7. CASE Update!Recover(w)
  <2>1. CASE updateStep[w] = "recover" /\ Update!To(w, "release")
    BY <1>7, <2>1 DEF Update!Recover
  <2>2. CASE UNCHANGED updateStep
    BY <1>7, <2>2 DEF Update!Recover
  <2> QED
    BY <1>7, <2>1, <2>2 DEF Update!Recover
<1>8. CASE Update!Cancel(w)
  <2>1. updateAttempt[w] \in [prepared : BOOLEAN, cancelled : BOOLEAN, closed : BOOLEAN]
    OBVIOUS
  <2>2. updateAttempt' = [updateAttempt EXCEPT ![w] = [updateAttempt[w] EXCEPT !.cancelled = TRUE]]
    BY <1>8 DEF Update!Cancel
  <2>3. /\ updateAttempt' \in [UpdateWindows -> [prepared : BOOLEAN, cancelled : BOOLEAN, closed : BOOLEAN]]
        /\ \A v \in UpdateWindows : updateAttempt'[v].prepared = updateAttempt[v].prepared
    BY <2>1, <2>2
  <2> QED
    BY <1>8, <2>3 DEF Update!Cancel
<1> QED
  BY <1>1, <1>2, <1>3, <1>4, <1>5, <1>6, <1>7, <1>8

\* A window that is done with its update holds no lease, whatever of its cleanup
\* failed (releaseUpdateResources, releaseUpdateAttempt).
THEOREM LeaseComesBack ==
  ASSUME None \notin UpdateWindows
  PROVE  Update!Spec => []LeaseIsGivenBack
<1>1. Update!Init => UpdateInv
  BY UpdateInit
<1>2. UpdateInv /\ [Update!Next]_(Update!vars) => UpdateInv'
  <2> SUFFICES ASSUME UpdateInv, [Update!Next]_(Update!vars) PROVE UpdateInv'
    OBVIOUS
  <2>1. CASE UNCHANGED Update!vars
    BY <2>1 DEF Update!vars, UpdateInv, UpdateTyped, HolderKnows, Update!LeaseIsGivenBack
  <2>2. CASE Update!WorkBegins \/ Update!WorkEnds
    BY <2>2 DEF UpdateInv, UpdateTyped, HolderKnows, Update!LeaseIsGivenBack,
       Update!WorkBegins, Update!WorkEnds
  <2> QED
    BY <2>1, <2>2, CleanupStep, ServerStep, InstallStep DEF Update!Next
<1>3. UpdateInv => LeaseIsGivenBack
  BY DEF UpdateInv, LeaseIsGivenBack
<1> QED
  BY <1>1, <1>2, <1>3, PTL DEF Update!Spec

-----------------------------------------------------------------------------
(* The creation of a chat (Delivery): the message that the waiting request   *)
(* sent last is the last one of its id, so that only its answer decides      *)
(* about the receipt; whatever is told before that leaves it in place.       *)

\* None is no request.
DeliveryNamed ==
  /\ ChatMaxKeys \in Nat
  /\ None \notin [id : Nat, key : Chat!Keys, config : ChatConfigs, sends : Nat]

Messages == [connection : Nat, id : Nat, key : Chat!Keys]

DeliveryTyped ==
  /\ chatConnection \in Nat /\ chatKeys \in Nat /\ chatRequests \in Nat
  /\ chatSocket \in {"none", "connecting", "open", "closing"}
  /\ chatReq \in [id : Nat, key : Chat!Keys, config : ChatConfigs, sends : Nat] \cup {None}
  /\ chatWire \in Seq(Messages) /\ chatOperation \in [Chat!Keys -> SUBSET Messages]
  /\ chatReplies \subseteq [connection : Nat, id : Nat, outcome : {"ok", "error"}]
  /\ chatReceipts \in [ChatConfigs -> 0..chatKeys]
  /\ chatStored \in [ChatConfigs -> 0..chatKeys]

\* A creation id is one configuration's.
Distinct ==
  \A c, d \in ChatConfigs : c # d =>
    /\ chatReceipts[c] # 0 =>
         chatReceipts[c] # chatReceipts[d] /\ chatReceipts[c] # chatStored[d]
    /\ chatStored[c] # 0 => chatStored[c] # chatStored[d]

\* The request that waits has its receipt, also on disk.
Receipted ==
  chatReq # None =>
    chatReceipts[chatReq.config] = chatReq.key /\ chatStored[chatReq.config] = chatReq.key

\* Numbers of requests and connections grow.
Old(m) == /\ m.id <= chatRequests /\ m.connection <= chatConnection
          /\ chatSocket = "connecting" => m.connection < chatConnection
AllOld ==
  /\ chatReq # None => chatReq.id <= chatRequests
  /\ \A i \in 1..Len(chatWire) : Old(chatWire[i])
  /\ \A k \in Chat!Keys : \A m \in chatOperation[k] : Old(m) /\ m.key = k
  /\ \A r \in chatReplies : Old(r)

\* m is, or answers, the last message of the request that waits.
Current(m) == chatReq # None /\ m.id = chatReq.id /\ m.connection = chatConnection
OnWire(k) == \E i \in 1..Len(chatWire) : chatWire[i].key = k

\* The current message is the last one of its id, so that its answer is the last
\* word on it, unless the server refused it without a look.
InTurn ==
  /\ \A i, j \in 1..Len(chatWire) : Current(chatWire[i]) =>
       chatWire[i].key = chatReq.key /\ (i < j => chatWire[j].key # chatReq.key)
  /\ \A k \in Chat!Keys : \A m \in chatOperation[k] :
       Current(m) => m.key = chatReq.key /\ ~OnWire(k)
  /\ \A r \in chatReplies : Current(r) /\ r.outcome = "error" =>
       \/ chatReq.key \in chatRefused
       \/ /\ ~OnWire(chatReq.key)
          /\ chatOperation[chatReq.key] = {} /\ chatReq.key \notin chatCreated

\* No chat is created that exists.
NoneTwice == \A k \in Chat!Keys : chatOperation[k] # {} => k \notin chatCreated

\* What was created, or may be, is found again, also after a reload.
Live(k) ==
  k \notin chatKnown \cup chatRefused /\ (k \in chatCreated \/ OnWire(k) \/ chatOperation[k] # {})
Found(k) == \E c \in ChatConfigs : chatReceipts[c] = k /\ chatStored[c] = k
Recoverable == \A k \in Chat!Keys : Live(k) => Found(k)

DeliveryInv ==
  /\ DeliveryTyped /\ Distinct /\ Receipted /\ AllOld /\ InTurn /\ NoneTwice /\ Recoverable
  /\ chatCreated \subseteq Chat!Keys

\* Initially nothing was asked for.
LEMMA DeliveryInit == ASSUME DeliveryNamed PROVE Chat!Init => DeliveryInv
<1> SUFFICES ASSUME Chat!Init PROVE DeliveryInv
  OBVIOUS
<1>1. DeliveryTyped
  BY DEF Chat!Init, DeliveryTyped, DeliveryNamed
<1>2. Len(chatWire) = 0 /\ chatReplies = {} /\ chatReq = None /\ chatCreated = {}
  BY DEF Chat!Init
<1>3. \A k \in Chat!Keys : chatOperation[k] = {}
  BY DEF Chat!Init
<1>4. \A c \in ChatConfigs : chatReceipts[c] = 0 /\ chatStored[c] = 0
  BY DEF Chat!Init
<1> QED BY <1>1, <1>2, <1>3, <1>4 DEF DeliveryInv, Distinct, Receipted, AllOld, InTurn,
                                   NoneTwice, Recoverable, Live, OnWire

\* A message that was sent may be lost with the last of its socket's.
LEMMA Prefix ==
  ASSUME DeliveryTyped, NEW kept \in 0..Len(chatWire), chatWire' = SubSeq(chatWire, 1, kept)
  PROVE  /\ chatWire' \in Seq(Messages) /\ Len(chatWire') = kept
         /\ \A i \in 1..Len(chatWire') : i \in 1..Len(chatWire) /\ chatWire'[i] = chatWire[i]
<1>1. chatWire \in Seq(Messages) /\ Len(chatWire) \in Nat
  BY DEF DeliveryTyped
<1> QED BY <1>1, SubSeqProperties

\* A step of the connection or of who waits: nothing is sent, a new connection has
\* a new number, and what is live is found again.
LEMMA Hop ==
  ASSUME DeliveryNamed, DeliveryInv, NEW kept \in 0..Len(chatWire),
         chatWire' = SubSeq(chatWire, 1, kept),
         UNCHANGED <<chatOperation, chatCreated, chatRefused, chatKeys, chatRequests>>,
         chatReplies' \subseteq chatReplies,
         chatSocket' \in {"none", "connecting", "open", "closing"},
         chatConnection' \in Nat, chatConnection' >= chatConnection,
         chatSocket' = "connecting" =>
           \/ chatConnection' > chatConnection
           \/ chatSocket = "connecting" /\ chatConnection' = chatConnection,
         chatReceipts' \in [ChatConfigs -> 0..chatKeys],
         chatStored' \in [ChatConfigs -> 0..chatKeys],
         chatReq' \in {chatReq, None}, chatKnown \subseteq chatKnown', Distinct', Receipted',
         \A k \in Chat!Keys : Live(k) /\ k \notin chatKnown' => Found(k)'
  PROVE  DeliveryInv'
<1>0. DeliveryTyped /\ AllOld /\ InTurn /\ NoneTwice /\ chatCreated \subseteq Chat!Keys
  BY DEF DeliveryInv
<1>1. /\ chatWire' \in Seq(Messages) /\ Len(chatWire') = kept
      /\ \A i \in 1..Len(chatWire') : i \in 1..Len(chatWire) /\ chatWire'[i] = chatWire[i]
  BY <1>0, Prefix
<1>2. DeliveryTyped'
  BY <1>0, <1>1 DEF DeliveryTyped
<1>3. \A k \in Chat!Keys : OnWire(k)' => OnWire(k)
  BY <1>1 DEF OnWire
<1>4. ASSUME NEW m, Old(m), m.id \in Nat, m.connection \in Nat
      PROVE  Old(m)' /\ (Current(m)' => Current(m) /\ chatReq' = chatReq)
  BY <1>0, <1>4 DEF Old, Current, DeliveryTyped
<1>5. \A i \in 1..Len(chatWire) : Old(chatWire[i]) /\ chatWire[i] \in Messages
  <2>1. chatWire \in Seq(Messages)
    BY <1>0 DEF DeliveryTyped
  <2>2. \A i \in 1..Len(chatWire) : Old(chatWire[i])
    BY <1>0 DEF AllOld
  <2> QED BY <2>1, <2>2
<1>6. \A k \in Chat!Keys : \A m \in chatOperation[k] : Old(m) /\ m.key = k /\ m \in Messages
  BY <1>0 DEF AllOld, DeliveryTyped
<1>7. \A r \in chatReplies :
        Old(r) /\ r \in [connection : Nat, id : Nat, outcome : {"ok", "error"}]
  BY <1>0 DEF AllOld, DeliveryTyped
<1>8. AllOld'
  BY <1>0, <1>1, <1>4, <1>5, <1>6, <1>7 DEF AllOld, Messages
<1>9. ASSUME NEW i \in 1..Len(chatWire'), NEW j \in 1..Len(chatWire'), Current(chatWire[i])'
      PROVE  chatWire'[i].key = chatReq'.key /\ (i < j => chatWire'[j].key # chatReq'.key)
  <2>1. /\ i \in 1..Len(chatWire)
        /\ j \in 1..Len(chatWire)
        /\ chatWire'[i] = chatWire[i]
        /\ chatWire'[j] = chatWire[j]
    BY <1>1
  <2>2. PICK m \in Messages : m = chatWire[i]
    BY <1>5, <2>1
  <2>3. Current(m)'
    BY <1>9, <2>1, <2>2 DEF Current
  <2>4. Current(m) /\ chatReq' = chatReq
    BY <1>4, <1>5, <2>1, <2>2, <2>3 DEF Messages
  <2> QED BY <1>0, <2>1, <2>2, <2>4 DEF InTurn
<1>10. ASSUME NEW k \in Chat!Keys, NEW m \in chatOperation[k], Current(m)'
       PROVE  m.key = chatReq'.key /\ ~OnWire(k)'
  BY <1>0, <1>3, <1>4, <1>6, <1>10 DEF InTurn, Messages
<1>11. ASSUME NEW r \in chatReplies', Current(r)', r.outcome = "error"
       PROVE  /\ chatReq' = chatReq
              /\ \/ chatReq.key \in chatRefused
                 \/ /\ ~OnWire(chatReq.key)'
                    /\ chatOperation[chatReq.key] = {} /\ chatReq.key \notin chatCreated
  <2>1. Current(r) /\ chatReq' = chatReq
    BY <1>4, <1>7, <1>11
  <2>2. chatReq.key \in Chat!Keys
    BY <2>1, <1>0 DEF Current, DeliveryTyped
  <2> QED BY <1>0, <1>3, <1>11, <2>1, <2>2 DEF InTurn
<1>12. InTurn'
  BY <1>9, <1>10, <1>11 DEF InTurn, OnWire
<1>13. Recoverable'
  BY <1>3 DEF Recoverable, Live
<1> QED BY <1>0, <1>2, <1>8, <1>12, <1>13 DEF DeliveryInv, NoneTwice

-----------------------------------------------------------------------------
(* What becomes of the receipts. *)

\* When the request is settled its receipt goes, unless its chat may be there.
LEMMA SettleKeeps ==
  ASSUME DeliveryNamed, DeliveryInv, chatReq # None,
         NEW outcome \in {"ok", "error", "uncertain"}, Chat!Settle(outcome),
         outcome = "error" => ~Live(chatReq.key)
  PROVE  /\ chatReceipts' \in [ChatConfigs -> 0..chatKeys]
         /\ chatStored' \in [ChatConfigs -> 0..chatKeys]
         /\ chatReq' = None /\ chatKnown \subseteq chatKnown' /\ Distinct' /\ Receipted'
         /\ \A k \in Chat!Keys : Live(k) /\ k \notin chatKnown' => Found(k)'
<1>1. /\ chatReceipts \in [ChatConfigs -> 0..chatKeys]
      /\ chatStored \in [ChatConfigs -> 0..chatKeys]
      /\ chatKeys \in Nat
      /\ chatReq.config \in ChatConfigs /\ chatReq.key \in Chat!Keys
      /\ chatReceipts[chatReq.config] = chatReq.key /\ chatStored[chatReq.config] = chatReq.key
  BY DEF DeliveryInv, DeliveryTyped, Receipted
<1>2. PICK k0 \in 0..chatKeys :
        /\ k0 = Chat!Kept(outcome)
        /\ chatReceipts' = [chatReceipts EXCEPT ![chatReq.config] = k0]
        /\ k0 = 0 \/ k0 = chatReq.key
        /\ (outcome = "uncertain" => k0 = chatReq.key)
  <2>1. /\ Chat!Kept(outcome) \in {0, chatReq.key}
        /\ (outcome = "uncertain" => Chat!Kept(outcome) = chatReq.key)
    BY DEF Chat!Kept
  <2>2. Chat!Kept(outcome) \in 0..chatKeys
    BY <1>1, <2>1
  <2>3. chatReceipts' = [chatReceipts EXCEPT ![chatReq.config] = Chat!Kept(outcome)]
    BY DEF Chat!Settle
  <2> QED BY <2>1, <2>2, <2>3
<1>3. /\ chatReceipts' \in [ChatConfigs -> 0..chatKeys] /\ chatReceipts'[chatReq.config] = k0
      /\ \A c \in ChatConfigs : c # chatReq.config => chatReceipts'[c] = chatReceipts[c]
  BY <1>1, <1>2
<1>4. chatStored' = chatReceipts' \/ chatStored' = chatStored
  BY DEF Chat!Settle, Chat!Save
<1>5. \A c \in ChatConfigs : chatReceipts'[c] = chatReceipts[c] \/ chatReceipts'[c] = 0
  BY <1>1, <1>2, <1>3
<1>6. Distinct'
  BY <1>4, <1>5 DEF DeliveryInv, Distinct
<1>7. /\ chatReq' = None
      /\ chatKnown \subseteq chatKnown'
      /\ (outcome = "ok" => chatReq.key \in chatKnown')
  BY DEF Chat!Settle
<1>8. ASSUME NEW k \in Chat!Keys, Live(k), k \notin chatKnown' PROVE Found(k)'
  <2>1. PICK c \in ChatConfigs : chatReceipts[c] = k /\ chatStored[c] = k
    BY <1>8 DEF DeliveryInv, Recoverable, Found
  <2>2. outcome = "uncertain" \/ k # chatReq.key
    BY <1>7, <1>8
  <2>3. chatReceipts'[c] = k
    BY <1>1, <1>2, <1>3, <2>1, <2>2
  <2> QED BY <1>4, <2>1, <2>3 DEF Found
<1> QED BY <1>1, <1>3, <1>4, <1>6, <1>7, <1>8 DEF Receipted

\* #rejectPending and #retainReplayablePending forget no receipt.
LEMMA UncertainKeeps ==
  ASSUME DeliveryNamed, DeliveryInv, Chat!Retain \/ Chat!Reject \/ Chat!Untouched
  PROVE  /\ chatReceipts' \in [ChatConfigs -> 0..chatKeys]
         /\ chatStored' \in [ChatConfigs -> 0..chatKeys]
         /\ chatReq' \in {chatReq, None}
         /\ chatKnown \subseteq chatKnown'
         /\ Distinct'
         /\ Receipted'
         /\ \A k \in Chat!Keys : Live(k) /\ k \notin chatKnown' => Found(k)'
<1>1. CASE chatReq # None /\ Chat!Settle("uncertain")
  BY <1>1, SettleKeeps
<1>2. CASE Chat!Untouched
  BY <1>2 DEF Chat!Untouched, Chat!caller, DeliveryInv, DeliveryTyped, Distinct, Receipted,
     Recoverable, Found
<1> QED BY <1>1, <1>2 DEF Chat!Retain, Chat!Reject

\* Nothing of what was sent is lost.
LEMMA AllOfWire ==
  ASSUME DeliveryTyped, UNCHANGED chatWire
  PROVE  Len(chatWire) \in 0..Len(chatWire) /\ chatWire' = SubSeq(chatWire, 1, Len(chatWire))
<1>1. chatWire \in Seq(Messages) /\ Len(chatWire) \in Nat
  BY DEF DeliveryTyped
<1>2. SubSeq(chatWire, 1, Len(chatWire)) = chatWire
  BY <1>1
<1> QED BY <1>1, <1>2

-----------------------------------------------------------------------------
(* The steps of the connection. *)

\* What happens to the connection sends nothing: the request that waits is settled
\* as uncertain, or kept.
LEMMA LinkStep ==
  ASSUME DeliveryNamed, DeliveryInv,
         \/ Chat!Flip \/ Chat!OnlineEvent \/ Chat!OfflineEvent \/ Chat!TimerFires
         \/ Chat!ConnectTimesOut
         \/ Chat!Garbled \/ Chat!CloseEvent \/ Chat!Retry \/ Chat!RequestTimesOut
  PROVE  DeliveryInv'
<1>1. /\ DeliveryTyped
      /\ chatConnection \in Nat
      /\ chatSocket \in {"none", "connecting", "open", "closing"}
  BY DEF DeliveryInv, DeliveryTyped
<1>2. UNCHANGED <<chatWire, chatOperation, chatCreated, chatRefused, chatKeys, chatRequests,
                  chatReplies>>
  BY DEF Chat!Flip, Chat!OnlineEvent, Chat!OfflineEvent, Chat!TimerFires, Chat!ConnectTimesOut,
     Chat!Garbled, Chat!CloseEvent,
     Chat!Retry,
         Chat!RequestTimesOut, Chat!Counted, Chat!server, Chat!link
<1>3. \/ chatReq # None /\ Chat!Settle("uncertain")
      \/ Chat!Untouched \/ Chat!Retain \/ Chat!Reject
  BY DEF Chat!Flip, Chat!OnlineEvent, Chat!OfflineEvent, Chat!TimerFires, Chat!ConnectTimesOut,
     Chat!Garbled, Chat!CloseEvent,
     Chat!Retry,
         Chat!RequestTimesOut, Chat!Untouched
<1>4. /\ chatReceipts' \in [ChatConfigs -> 0..chatKeys]
      /\ chatStored' \in [ChatConfigs -> 0..chatKeys]
      /\ chatReq' \in {chatReq, None}
      /\ chatKnown \subseteq chatKnown'
      /\ Distinct'
      /\ Receipted'
      /\ \A k \in Chat!Keys : Live(k) /\ k \notin chatKnown' => Found(k)'
  BY <1>3, UncertainKeeps, SettleKeeps
<1>5. /\ chatConnection' \in Nat /\ chatConnection' >= chatConnection
      /\ chatSocket' \in {"none", "connecting", "open", "closing"}
      /\ chatSocket' = "connecting" =>
           \/ chatConnection' > chatConnection
           \/ chatSocket = "connecting" /\ chatConnection' = chatConnection
  BY <1>1 DEF Chat!Flip, Chat!OnlineEvent, Chat!OfflineEvent, Chat!TimerFires,
     Chat!ConnectTimesOut, Chat!Garbled,
     Chat!CloseEvent,
              Chat!Retry, Chat!RequestTimesOut, Chat!link, Chat!Wake, Chat!Dial
<1> QED BY <1>1, <1>2, <1>4, <1>5, AllOfWire, Hop

\* What a lost connection held may be lost from some message on.
LEMMA DropStep == ASSUME DeliveryNamed, DeliveryInv, Chat!Drop PROVE DeliveryInv'
<1>1. PICK kept \in 0..Len(chatWire) : chatWire' = SubSeq(chatWire, 1, kept)
  BY DEF Chat!Drop
<1>2. /\ Chat!Untouched
      /\ UNCHANGED <<chatConnection, chatOperation, chatCreated, chatRefused, chatKeys,
                     chatRequests, chatReplies>>
  BY DEF Chat!Drop, Chat!Untouched, Chat!Counted, Chat!server
<1>3. /\ chatReceipts' \in [ChatConfigs -> 0..chatKeys]
      /\ chatStored' \in [ChatConfigs -> 0..chatKeys]
      /\ chatReq' \in {chatReq, None}
      /\ chatKnown \subseteq chatKnown'
      /\ Distinct'
      /\ Receipted'
      /\ \A k \in Chat!Keys : Live(k) /\ k \notin chatKnown' => Found(k)'
  BY <1>2, UncertainKeeps
<1>4. chatConnection \in Nat /\ chatSocket' = "closing"
  BY DEF Chat!Drop, DeliveryInv, DeliveryTyped
<1> QED BY <1>1, <1>2, <1>3, <1>4, Hop

\* After a reload the receipts are those on disk.
LEMMA ReloadStep == ASSUME DeliveryNamed, DeliveryInv, Chat!Reload PROVE DeliveryInv'
<1>1. /\ UNCHANGED <<chatWire, chatOperation, chatCreated, chatRefused, chatKeys,
                     chatRequests, chatReplies, chatKnown, chatStored>>
      /\ chatReq' = None /\ chatReceipts' = chatStored
  BY DEF Chat!Reload, Chat!server
<1>2. /\ DeliveryTyped
      /\ chatConnection \in Nat
      /\ chatSocket \in {"none", "connecting", "open", "closing"}
      /\ chatStored \in [ChatConfigs -> 0..chatKeys]
  BY DEF DeliveryInv, DeliveryTyped
<1>3. /\ chatConnection' \in Nat /\ chatConnection' >= chatConnection
      /\ chatSocket' \in {"none", "connecting", "open", "closing"}
      /\ chatSocket' = "connecting" => chatConnection' > chatConnection
  BY <1>2 DEF Chat!Reload, Chat!Dial
<1>4. Distinct' /\ Receipted'
  BY <1>1 DEF DeliveryInv, Distinct, Receipted
<1>5. \A k \in Chat!Keys : Live(k) /\ k \notin chatKnown' => Found(k)'
  BY <1>1 DEF DeliveryInv, Recoverable, Found
<1> QED BY <1>1, <1>2, <1>3, <1>4, <1>5, AllOfWire, Hop

\* An answer that is not the last word on its id settles nothing.
LEMMA AnswerStep == ASSUME DeliveryNamed, DeliveryInv, Chat!Answer PROVE DeliveryInv'
<1>1. PICK r \in chatReplies :
        /\ chatReplies' = chatReplies \ {r}
        /\ \/ /\ chatSocket = "open" /\ r.connection = chatConnection
              /\ chatReq # None /\ chatReq.id = r.id
              /\ Chat!Settle(r.outcome)
           \/ Chat!Untouched
  BY DEF Chat!Answer
<1>2. UNCHANGED <<chatSocket, chatConnection, chatWire, chatOperation, chatCreated,
                  chatRefused, chatKeys, chatRequests>>
  BY DEF Chat!Answer, Chat!link, Chat!server, Chat!Counted
<1>3. /\ DeliveryTyped
      /\ chatConnection \in Nat
      /\ chatSocket \in {"none", "connecting", "open", "closing"}
      /\ r.outcome \in {"ok", "error"}
  BY DEF DeliveryInv, DeliveryTyped
<1>4. ASSUME Current(r), r.outcome = "error" PROVE ~Live(chatReq.key)
  BY <1>4 DEF DeliveryInv, InTurn, Live
<1>5. /\ chatReceipts' \in [ChatConfigs -> 0..chatKeys]
      /\ chatStored' \in [ChatConfigs -> 0..chatKeys]
      /\ chatReq' \in {chatReq, None}
      /\ chatKnown \subseteq chatKnown'
      /\ Distinct'
      /\ Receipted'
      /\ \A k \in Chat!Keys : Live(k) /\ k \notin chatKnown' => Found(k)'
  <2>1. CASE chatReq # None /\ Chat!Settle(r.outcome) /\ Current(r)
    BY <1>3, <1>4, <2>1, SettleKeeps
  <2>2. CASE Chat!Untouched
    BY <2>2, UncertainKeeps
  <2> QED BY <1>1, <2>1, <2>2 DEF Current
<1>6. /\ chatConnection' \in Nat
      /\ chatConnection' >= chatConnection
      /\ chatReplies' \subseteq chatReplies
  BY <1>1, <1>2, <1>3
<1> QED BY <1>2, <1>3, <1>5, <1>6, AllOfWire, Hop

-----------------------------------------------------------------------------
(* The steps that send. *)

\* What was sent before stays older than what is sent now.
LEMMA OldStays ==
  ASSUME DeliveryNamed, DeliveryInv, chatRequests' \in Nat, chatRequests' >= chatRequests,
         UNCHANGED chatConnection,
         chatSocket' = "connecting" => chatSocket = "connecting",
         NEW m, m.id \in Nat, Old(m)
  PROVE  Old(m)'
BY DEF DeliveryInv, DeliveryTyped, Old

\* Everything that was sent is a message, an answer or waits, and is old.
LEMMA AllAreOld ==
  ASSUME DeliveryInv
  PROVE  /\ \A i \in 1..Len(chatWire) : Old(chatWire[i]) /\ chatWire[i] \in Messages
         /\ \A k \in Chat!Keys : \A m \in chatOperation[k] :
              Old(m) /\ m.key = k /\ m \in Messages
         /\ \A r \in chatReplies :
              Old(r) /\ r \in [connection : Nat, id : Nat, outcome : {"ok", "error"}]
BY DEF DeliveryInv, AllOld, DeliveryTyped

\* One more message at the end of what was sent.
LEMMA OneMore ==
  ASSUME DeliveryTyped, NEW m \in Messages, chatWire' = Append(chatWire, m)
  PROVE  /\ chatWire' \in Seq(Messages)
         /\ Len(chatWire') = Len(chatWire) + 1
         /\ Len(chatWire) \in Nat
         /\ chatWire'[Len(chatWire')] = m
         /\ \A i \in 1..Len(chatWire') :
              i = Len(chatWire') \/ (i \in 1..Len(chatWire) /\ chatWire'[i] = chatWire[i])
         /\ \A k \in Chat!Keys : OnWire(k)' <=> OnWire(k) \/ k = m.key
<1>1. chatWire \in Seq(Messages) /\ Len(chatWire) \in Nat
  BY DEF DeliveryTyped
<1>2. /\ chatWire' \in Seq(Messages)
      /\ Len(chatWire') = Len(chatWire) + 1
      /\ chatWire'[Len(chatWire')] = m
      /\ \A i \in 1..Len(chatWire) : chatWire'[i] = chatWire[i]
  BY <1>1
<1>3. \A i \in 1..Len(chatWire') : i = Len(chatWire') \/ i \in 1..Len(chatWire)
  BY <1>1, <1>2
<1>4. 1..Len(chatWire) \subseteq 1..Len(chatWire') /\ Len(chatWire') \in 1..Len(chatWire')
  BY <1>1, <1>2
<1> QED BY <1>1, <1>2, <1>3, <1>4 DEF OnWire

\* When what is new on the wire is the only message of the request that waits,
\* everything else that was sent may be older.
LEMMA NewIsLast ==
  ASSUME DeliveryNamed, DeliveryInv, NEW m \in Messages, chatWire' = Append(chatWire, m),
         UNCHANGED <<chatOperation, chatReplies, chatCreated>>,
         \A x : x.id \in Nat /\ x.connection \in Nat /\ Old(x) => Old(x)' /\ ~Current(x)',
         Old(m)', chatReq' # None, chatReq'.key = m.key, chatReq'.id <= chatRequests'
  PROVE  AllOld' /\ InTurn'
<1>1. DeliveryTyped
  BY DEF DeliveryInv
<1>2. /\ chatWire' \in Seq(Messages)
      /\ Len(chatWire') = Len(chatWire) + 1
      /\ Len(chatWire) \in Nat
      /\ chatWire'[Len(chatWire')] = m
      /\ \A i \in 1..Len(chatWire') :
           i = Len(chatWire') \/ (i \in 1..Len(chatWire) /\ chatWire'[i] = chatWire[i])
  BY <1>1, OneMore
<1>3. ASSUME NEW i \in 1..Len(chatWire'), i # Len(chatWire')
      PROVE  Old(chatWire[i])' /\ ~Current(chatWire[i])'
  <2>1. PICK x \in Messages : x = chatWire'[i] /\ Old(x)
    BY <1>2, <1>3, AllAreOld
  <2> QED BY <2>1 DEF Messages
<1>4. \A k \in Chat!Keys : \A x \in chatOperation[k] : Old(x)' /\ x.key = k /\ ~Current(x)'
  BY AllAreOld DEF Messages
<1>5. \A r \in chatReplies : Old(r)' /\ ~Current(r)'
  BY AllAreOld
<1>6. ASSUME NEW i \in 1..Len(chatWire') PROVE Old(chatWire[i])'
  BY <1>2, <1>3, <1>6 DEF Old
<1>7. AllOld'
  BY <1>4, <1>5, <1>6 DEF AllOld
<1>8. ASSUME NEW i \in 1..Len(chatWire'), NEW j \in 1..Len(chatWire'), Current(chatWire[i])'
      PROVE  chatWire'[i].key = chatReq'.key /\ (i < j => chatWire'[j].key # chatReq'.key)
  BY <1>2, <1>3, <1>8
<1> QED BY <1>4, <1>5, <1>7, <1>8 DEF InTurn

\* A connection that opens sends the request that waits again: it is the only
\* message of it on this connection.
LEMMA OpensStep == ASSUME DeliveryNamed, DeliveryInv, Chat!Opens PROVE DeliveryInv'
<1>1. /\ DeliveryTyped /\ chatConnection \in Nat /\ chatRequests \in Nat /\ chatKeys \in Nat
      /\ chatReceipts \in [ChatConfigs -> 0..chatKeys]
      /\ chatStored \in [ChatConfigs -> 0..chatKeys]
  BY DEF DeliveryInv, DeliveryTyped
<1>2. /\ chatSocket = "connecting" /\ chatSocket' = "open"
      /\ UNCHANGED <<chatConnection, chatOperation, chatCreated, chatRefused, chatKeys,
                     chatRequests, chatReplies, chatReceipts, chatStored, chatKnown>>
  BY DEF Chat!Opens, Chat!server, Chat!caller, Chat!Counted
<1>3. CASE chatReq = None
  <2>1. UNCHANGED <<chatReq, chatWire>> /\ Chat!Untouched
    BY <1>3 DEF Chat!Opens, Chat!Untouched
  <2>2. /\ chatReceipts' \in [ChatConfigs -> 0..chatKeys]
        /\ chatStored' \in [ChatConfigs -> 0..chatKeys]
        /\ chatReq' \in {chatReq, None}
        /\ chatKnown \subseteq chatKnown'
        /\ Distinct'
        /\ Receipted'
        /\ \A k \in Chat!Keys : Live(k) /\ k \notin chatKnown' => Found(k)'
    BY <2>1, UncertainKeeps
  <2>3. /\ chatConnection' \in Nat
        /\ chatConnection' >= chatConnection
        /\ chatReplies' \subseteq chatReplies
        /\ chatSocket' = "open"
        /\ UNCHANGED <<chatWire, chatOperation, chatCreated, chatRefused, chatKeys,
                       chatRequests>>
    BY <1>1, <1>2, <2>1
  <2> QED BY <1>1, <2>2, <2>3, AllOfWire, Hop
<1>4. CASE chatReq # None
  <2> DEFINE m == [connection |-> chatConnection, id |-> chatReq.id, key |-> chatReq.key]
  <2>1. /\ chatReq \in [id : Nat, key : Chat!Keys, config : ChatConfigs, sends : Nat]
        /\ chatReq.id \in Nat
        /\ chatReq.key \in Chat!Keys
        /\ chatReq.config \in ChatConfigs
        /\ chatReq.sends \in Nat
        /\ chatReq.id <= chatRequests
    BY <1>4 DEF DeliveryInv, DeliveryTyped, AllOld
  <2>2. /\ chatReq' = [chatReq EXCEPT !.sends = @ + 1] /\ chatWire' = Append(chatWire, m)
    BY <1>4 DEF Chat!Opens
  <2>3. /\ chatReq' \in [id : Nat, key : Chat!Keys, config : ChatConfigs, sends : Nat]
        /\ chatReq' # None
        /\ chatReq'.id = chatReq.id
        /\ chatReq'.key = chatReq.key
        /\ chatReq'.config = chatReq.config
    <3>1. /\ chatReq' \in [id : Nat, key : Chat!Keys, config : ChatConfigs, sends : Nat]
          /\ chatReq'.id = chatReq.id
          /\ chatReq'.key = chatReq.key
          /\ chatReq'.config = chatReq.config
      BY <2>1, <2>2
    <3> QED BY <3>1 DEF DeliveryNamed
  <2>4. PICK n \in Messages : n = m
    BY <1>1, <2>1 DEF Messages
  <2>5. n.id = chatReq.id /\ n.connection = chatConnection /\ n.key = chatReq.key
    BY <2>4
  <2>6. ASSUME NEW x, x.id \in Nat, x.connection \in Nat, Old(x)
        PROVE  Old(x)' /\ ~Current(x)'
    <3>1. x.connection < chatConnection
      BY <1>2, <2>6 DEF Old
    <3> QED BY <1>1, <1>2, <2>6, <3>1 DEF Old, Current
  <2>7. Old(n)'
    BY <1>1, <1>2, <2>1, <2>5 DEF Old
  <2>8. chatWire' = Append(chatWire, n)
    BY <2>2, <2>4
  <2>9. AllOld' /\ InTurn'
    BY <1>2, <2>1, <2>3, <2>5, <2>6, <2>7, <2>8, NewIsLast
  <2>10. /\ chatWire' \in Seq(Messages)
         /\ \A k \in Chat!Keys : OnWire(k)' <=> OnWire(k) \/ k = chatReq.key
    BY <1>1, <2>5, <2>8, OneMore
  <2>11. DeliveryTyped'
    BY <1>1, <1>2, <2>3, <2>10 DEF DeliveryTyped
  <2>12. Distinct' /\ Receipted' /\ NoneTwice' /\ chatCreated' \subseteq Chat!Keys
    BY <1>2, <1>4, <2>3 DEF DeliveryInv, Distinct, Receipted, NoneTwice
  <2>13. Found(chatReq.key)
    BY <1>4, <2>1 DEF DeliveryInv, Receipted, Found
  <2>14. Recoverable'
    BY <1>2, <2>10, <2>13 DEF DeliveryInv, Recoverable, Live, Found
  <2> QED BY <2>9, <2>11, <2>12, <2>14 DEF DeliveryInv
<1> QED BY <1>3, <1>4

\* The receipts of the configurations are different ids, also with a new one.
LEMMA AttemptIsOwn ==
  ASSUME DeliveryNamed, DeliveryInv, NEW c \in ChatConfigs, Chat!Attempt(c) \in Chat!Keys,
         chatKeys' = IF Chat!Attempt(c) > chatKeys THEN Chat!Attempt(c) ELSE chatKeys
  PROVE  /\ chatKeys' \in Nat /\ chatKeys' >= chatKeys /\ Chat!Attempt(c) \in 1..chatKeys'
         /\ chatReceipts \in [ChatConfigs -> 0..chatKeys']
         /\ chatStored \in [ChatConfigs -> 0..chatKeys']
         /\ [chatReceipts EXCEPT ![c] = Chat!Attempt(c)] \in [ChatConfigs -> 0..chatKeys']
         /\ chatReceipts[c] # 0 => Chat!Attempt(c) = chatReceipts[c]
         /\ \A d \in ChatConfigs : c # d =>
              chatReceipts[d] # Chat!Attempt(c) /\ chatStored[d] # Chat!Attempt(c)
<1>1. /\ chatKeys \in Nat
      /\ chatReceipts \in [ChatConfigs -> 0..chatKeys]
      /\ chatStored \in [ChatConfigs -> 0..chatKeys]
      /\ ChatMaxKeys \in Nat
  BY DEF DeliveryInv, DeliveryTyped, DeliveryNamed
<1>2. Chat!Attempt(c) \in Nat /\ Chat!Attempt(c) >= 1
  BY <1>1 DEF Chat!Keys
<1>3. chatKeys' \in Nat /\ chatKeys' >= chatKeys /\ Chat!Attempt(c) \in 1..chatKeys'
  BY <1>1, <1>2
<1>4. 0..chatKeys \subseteq 0..chatKeys' /\ Chat!Attempt(c) \in 0..chatKeys'
  BY <1>1, <1>3
<1>5. /\ chatReceipts \in [ChatConfigs -> 0..chatKeys']
      /\ chatStored \in [ChatConfigs -> 0..chatKeys']
      /\ [chatReceipts EXCEPT ![c] = Chat!Attempt(c)] \in [ChatConfigs -> 0..chatKeys']
  BY <1>1, <1>4
<1>6. ASSUME NEW d \in ChatConfigs, c # d
      PROVE  chatReceipts[d] # Chat!Attempt(c) /\ chatStored[d] # Chat!Attempt(c)
  <2>1. CASE chatReceipts[c] # 0
    BY <1>6, <2>1 DEF DeliveryInv, Distinct, Chat!Attempt
  <2>2. CASE chatReceipts[c] = 0
    <3>1. /\ Chat!Attempt(c) = chatKeys + 1
          /\ chatReceipts[d] \in 0..chatKeys
          /\ chatStored[d] \in 0..chatKeys
      BY <1>1, <2>2 DEF Chat!Attempt
    <3> QED BY <1>1, <3>1
  <2> QED BY <2>1, <2>2
<1> QED BY <1>3, <1>5, <1>6 DEF Chat!Attempt

\* A request is created, or is not sent; the receipt of a new id is its own.
LEMMA CreateStep == ASSUME DeliveryNamed, DeliveryInv, Chat!Create PROVE DeliveryInv'
<1>1. /\ DeliveryTyped /\ chatConnection \in Nat /\ chatRequests \in Nat /\ chatKeys \in Nat
      /\ chatSocket \in {"none", "connecting", "open", "closing"}
      /\ chatReceipts \in [ChatConfigs -> 0..chatKeys]
      /\ chatStored \in [ChatConfigs -> 0..chatKeys]
  BY DEF DeliveryInv, DeliveryTyped
<1>2. PICK c \in ChatConfigs :
        /\ Chat!Attempt(c) \in Chat!Keys
        /\ chatKeys' = IF Chat!Attempt(c) > chatKeys THEN Chat!Attempt(c) ELSE chatKeys
        /\ \/ /\ chatSocket = "open"
              /\ chatReceipts' = [chatReceipts EXCEPT ![c] = Chat!Attempt(c)]
              /\ chatStored' = chatReceipts'
              /\ chatReq' = [id |-> chatRequests', key |-> Chat!Attempt(c), config |-> c,
                             sends |-> 1]
              /\ chatWire' = Append(chatWire, [connection |-> chatConnection,
                                               id |-> chatRequests',
                                               key |-> Chat!Attempt(c)])
           \/ /\ UNCHANGED <<chatReceipts, chatReq, chatWire>>
              /\ chatStored' = chatReceipts' \/ chatStored' = chatStored
           \/ /\ chatReceipts' = [chatReceipts EXCEPT ![c] = Chat!Attempt(c)]
              /\ UNCHANGED <<chatStored, chatReq, chatWire>>
  BY DEF Chat!Create, Chat!Save
<1>3. PICK key \in Chat!Keys : key = Chat!Attempt(c)
  BY <1>2
<1>4. /\ chatReq = None
      /\ chatRequests' = chatRequests + 1
      /\ chatRequests' \in Nat
      /\ chatRequests' >= chatRequests
      /\ UNCHANGED <<chatSocket, chatConnection, chatOperation, chatCreated, chatRefused,
                     chatReplies, chatKnown>>
  BY <1>1 DEF Chat!Create, Chat!link, Chat!server
<1>5. /\ chatKeys' \in Nat /\ chatKeys' >= chatKeys /\ key \in 1..chatKeys'
      /\ chatReceipts \in [ChatConfigs -> 0..chatKeys']
      /\ chatStored \in [ChatConfigs -> 0..chatKeys']
      /\ [chatReceipts EXCEPT ![c] = key] \in [ChatConfigs -> 0..chatKeys']
      /\ chatReceipts[c] # 0 => key = chatReceipts[c]
      /\ \A d \in ChatConfigs : c # d => chatReceipts[d] # key /\ chatStored[d] # key
  BY <1>2, <1>3, AttemptIsOwn
<1>6. /\ chatReceipts' \in [ChatConfigs -> 0..chatKeys']
      /\ chatStored' \in [ChatConfigs -> 0..chatKeys']
      /\ \/ chatReceipts' = chatReceipts
         \/ /\ chatReceipts'[c] = key
            /\ \A d \in ChatConfigs : d # c => chatReceipts'[d] = chatReceipts[d]
      /\ chatStored' = chatReceipts' \/ chatStored' = chatStored
  BY <1>2, <1>3, <1>5
<1>7. Distinct'
  <2>1. \A d, e \in ChatConfigs : d # e =>
          /\ chatReceipts'[d] # 0 =>
               chatReceipts'[d] # chatReceipts'[e] /\ chatReceipts'[d] # chatStored[e]
          /\ chatStored[d] # 0 => chatStored[d] # chatStored[e]
    BY <1>5, <1>6 DEF DeliveryInv, Distinct
  <2> QED BY <1>6, <2>1 DEF Distinct
<1>8. ASSUME NEW k \in Chat!Keys, Found(k) PROVE Found(k)'
  <2>1. PICK d \in ChatConfigs : chatReceipts[d] = k /\ chatStored[d] = k
    BY <1>8 DEF Found
  <2>2. k # 0
    BY <1>5 DEF Chat!Keys, DeliveryNamed
  <2>3. chatReceipts'[d] = k
    BY <1>5, <1>6, <2>1, <2>2
  <2> QED BY <1>6, <2>1, <2>3 DEF Found
<1>9. NoneTwice' /\ chatCreated' \subseteq Chat!Keys
  BY <1>4 DEF DeliveryInv, NoneTwice
<1>10. CASE UNCHANGED <<chatReq, chatWire>>
  <2>1. DeliveryTyped'
    BY <1>1, <1>4, <1>5, <1>6, <1>10 DEF DeliveryTyped
  <2>2. \A x : x.id \in Nat /\ Old(x) => Old(x)'
    BY <1>4, OldStays
  <2>3. AllOld'
    BY <1>4, <1>10, <2>2, AllAreOld DEF AllOld, Messages
  <2>4. chatReq' = None
    BY <1>4, <1>10
  <2>5. Receipted' /\ InTurn'
    BY <2>4 DEF Receipted, InTurn, Current
  <2>6. Recoverable'
    BY <1>4, <1>8, <1>10 DEF DeliveryInv, Recoverable, Live, OnWire
  <2> QED BY <1>7, <1>9, <2>1, <2>3, <2>5, <2>6 DEF DeliveryInv
<1>11. CASE /\ chatReceipts' = [chatReceipts EXCEPT ![c] = key] /\ chatStored' = chatReceipts'
            /\ chatReq' = [id |-> chatRequests', key |-> key, config |-> c, sends |-> 1]
            /\ chatWire' = Append(chatWire, [connection |-> chatConnection,
                                             id |-> chatRequests', key |-> key])
            /\ chatSocket = "open"
  <2>1. PICK m \in Messages :
          m = [connection |-> chatConnection, id |-> chatRequests', key |-> key]
    BY <1>1, <1>4 DEF Messages
  <2>2. /\ m.connection = chatConnection
        /\ m.id = chatRequests'
        /\ m.key = key
        /\ chatWire' = Append(chatWire, m)
    BY <1>11, <2>1
  <2>3. /\ chatReq' \in [id : Nat, key : Chat!Keys, config : ChatConfigs, sends : Nat]
        /\ chatReq'.id = chatRequests' /\ chatReq'.key = key /\ chatReq'.config = c
    BY <1>4, <1>11
  <2>4. chatReq' # None
    BY <2>3 DEF DeliveryNamed
  <2>5. \A x : x.id \in Nat /\ x.connection \in Nat /\ Old(x) => Old(x)' /\ ~Current(x)'
    <3> SUFFICES ASSUME NEW x, x.id \in Nat, Old(x) PROVE Old(x)' /\ ~Current(x)'
      OBVIOUS
    <3>1. x.id <= chatRequests
      BY DEF Old
    <3> QED BY <1>1, <1>4, <2>3, <3>1, OldStays DEF Current
  <2>6. Old(m)'
    BY <1>1, <1>4, <1>11, <2>2 DEF Old
  <2>7. AllOld' /\ InTurn'
    <3>1. /\ chatReq'.key = m.key
          /\ chatReq'.id <= chatRequests'
          /\ UNCHANGED <<chatOperation, chatReplies, chatCreated>>
      BY <1>4, <2>2, <2>3
    <3> QED BY <2>2, <2>4, <2>5, <2>6, <3>1, NewIsLast
  <2>8. chatWire' \in Seq(Messages) /\ \A k \in Chat!Keys : OnWire(k)' <=> OnWire(k) \/ k = key
    BY <1>1, <2>2, OneMore
  <2>9. DeliveryTyped'
    BY <1>1, <1>4, <1>5, <1>6, <2>3, <2>8 DEF DeliveryTyped
  <2>10. chatReceipts'[c] = key /\ chatStored'[c] = key
    BY <1>5, <1>11
  <2>11. Receipted' /\ Found(key)'
    BY <2>3, <2>10 DEF Receipted, Found
  <2>12. Recoverable'
    BY <1>4, <1>8, <2>8, <2>11 DEF DeliveryInv, Recoverable, Live
  <2> QED BY <1>7, <1>9, <2>7, <2>9, <2>11, <2>12 DEF DeliveryInv
<1> QED BY <1>2, <1>3, <1>10, <1>11

-----------------------------------------------------------------------------
(* The steps of the server. *)

\* The head of what was sent is a message, and the rest is what was behind it.
LEMMA TailOf ==
  ASSUME DeliveryTyped, chatWire # <<>>, chatWire' = Tail(chatWire)
  PROVE  /\ Head(chatWire) \in Messages
         /\ Head(chatWire) = chatWire[1]
         /\ 1 \in 1..Len(chatWire)
         /\ chatWire' \in Seq(Messages)
         /\ \A i \in 1..Len(chatWire') :
              i + 1 \in 2..Len(chatWire) /\ chatWire'[i] = chatWire[i + 1]
BY DEF DeliveryTyped

\* What arrives was the first of what was sent; only what comes after it is still
\* on the way.
LEMMA ReceiveStep == ASSUME DeliveryNamed, DeliveryInv, Chat!Receive PROVE DeliveryInv'
<1>1. /\ DeliveryTyped
      /\ chatOperation \in [Chat!Keys -> SUBSET Messages]
      /\ chatConnection \in Nat
  BY DEF DeliveryInv, DeliveryTyped
<1>2. PICK m \in Messages : m = Head(chatWire) /\ m = chatWire[1] /\ 1 \in 1..Len(chatWire)
  BY <1>1, TailOf DEF Chat!Receive
<1>3. /\ UNCHANGED <<chatOnline, chatSocket, chatConnection, chatReq, chatCreated,
                     chatReceipts, chatStored, chatKnown, chatKeys, chatRequests>>
      /\ chatWire' = Tail(chatWire) /\ chatWire # <<>>
  BY DEF Chat!Receive, Chat!link, Chat!caller, Chat!bounds
<1>4. /\ chatWire' \in Seq(Messages)
      /\ \A i \in 1..Len(chatWire') :
           i + 1 \in 2..Len(chatWire) /\ i + 1 \in 1..Len(chatWire) /\ i \in Nat
           /\ chatWire'[i] = chatWire[i + 1]
  BY <1>1, <1>3, TailOf
<1>5. /\ \A k \in Chat!Keys : OnWire(k)' => OnWire(k)
      /\ OnWire(m.key) /\ m.key \in Chat!Keys
  BY <1>2, <1>4 DEF OnWire, Messages
<1>6. /\ chatRefused \subseteq chatRefused'
      /\ \/ /\ m.key \in chatRefused' /\ UNCHANGED chatOperation
            /\ chatReplies' = chatReplies \cup {Chat!Reply(m, "error")}
         \/ /\ m.key \in chatCreated /\ UNCHANGED chatOperation
            /\ chatReplies' = chatReplies \cup {Chat!Reply(m, "ok")}
         \/ /\ m.key \notin chatCreated /\ UNCHANGED chatReplies
            /\ chatOperation' = [chatOperation EXCEPT ![m.key] = @ \cup {m}]
  BY <1>2 DEF Chat!Receive
<1>7. /\ chatOperation' \in [Chat!Keys -> SUBSET Messages]
      /\ \A k \in Chat!Keys : \A x \in chatOperation'[k] :
           x \in chatOperation[k] \/ (x = m /\ k = m.key /\ m.key \notin chatCreated)
      /\ \A k \in Chat!Keys :
           chatOperation'[k] = chatOperation[k] \/ (k = m.key /\ m.key \notin chatCreated)
  BY <1>1, <1>5, <1>6
<1>8. \A outcome \in {"ok", "error"} :
        Chat!Reply(m, outcome) \in [connection : Nat, id : Nat, outcome : {"ok", "error"}]
  BY DEF Chat!Reply, Messages
<1>9. /\ \A r \in chatReplies' : \/ r \in chatReplies \/ r = Chat!Reply(m, "ok")
                                 \/ r = Chat!Reply(m, "error") /\ m.key \in chatRefused'
      /\ chatReplies' \subseteq [connection : Nat, id : Nat, outcome : {"ok", "error"}]
  BY <1>1, <1>6, <1>8 DEF DeliveryTyped
<1>10. DeliveryTyped'
  BY <1>1, <1>3, <1>4, <1>7, <1>9 DEF DeliveryTyped
<1>11. \A x : (Old(x) => Old(x)') /\ (Current(x)' <=> Current(x))
  BY <1>3 DEF Old, Current
<1>12. /\ Old(m) /\ Old(Chat!Reply(m, "ok")) /\ Chat!Reply(m, "ok").outcome = "ok"
       /\ Old(Chat!Reply(m, "error"))
       /\ Current(Chat!Reply(m, "error")) => Current(m)
  BY <1>2, AllAreOld DEF Old, Current, Chat!Reply
<1>13. AllOld'
  <2>1. chatReq' # None => chatReq'.id <= chatRequests'
    BY <1>3 DEF DeliveryInv, AllOld
  <2>2. ASSUME NEW i \in 1..Len(chatWire') PROVE Old(chatWire[i])'
    <3>1. PICK x \in Messages : x = chatWire'[i] /\ Old(x)
      BY <1>4, AllAreOld
    <3> QED BY <1>11, <3>1
  <2> QED BY <1>7, <1>9, <1>11, <1>12, <2>1, <2>2, AllAreOld DEF AllOld
<1>14. InTurn'
  <2>1. ASSUME NEW i \in 1..Len(chatWire'), NEW j \in 1..Len(chatWire'), Current(chatWire[i])'
        PROVE  chatWire'[i].key = chatReq'.key /\ (i < j => chatWire'[j].key # chatReq'.key)
    <3>1. PICK x \in Messages : x = chatWire'[i] /\ x = chatWire[i + 1]
      BY <1>4
    <3>2. Current(x)'
      BY <2>1, <3>1 DEF Current
    <3>3. Current(chatWire[i + 1]) /\ i + 1 \in 1..Len(chatWire) /\ j + 1 \in 1..Len(chatWire)
      BY <1>4, <1>11, <3>1, <3>2
    <3>4. /\ chatWire[i + 1].key = chatReq.key
          /\ (i + 1 < j + 1 => chatWire[j + 1].key # chatReq.key)
      BY <3>3 DEF DeliveryInv, InTurn
    <3> QED BY <1>3, <1>4, <3>4
  <2>2. ASSUME NEW k \in Chat!Keys, NEW x \in chatOperation'[k], Current(x)'
        PROVE  x.key = chatReq'.key /\ ~OnWire(k)'
    <3>1. CASE x \in chatOperation[k]
      BY <1>3, <1>5, <1>11, <2>2, <3>1 DEF DeliveryInv, InTurn
    <3>2. CASE x = m /\ k = m.key
      <4>1. Current(chatWire[1])
        BY <1>2, <1>11, <2>2, <3>2
      <4>2. /\ m.key = chatReq.key
            /\ \A j \in 1..Len(chatWire) : 1 < j => chatWire[j].key # chatReq.key
        BY <1>2, <4>1 DEF DeliveryInv, InTurn
      <4>3. \A j \in 1..Len(chatWire') : chatWire'[j].key # chatReq.key
        BY <1>4, <4>2
      <4> QED BY <1>3, <3>2, <4>2, <4>3 DEF OnWire
    <3> QED BY <1>7, <3>1, <3>2
  <2>3. ASSUME NEW r \in chatReplies', Current(r)', r.outcome = "error"
        PROVE  \/ chatReq'.key \in chatRefused'
               \/ /\ ~OnWire(chatReq.key)'
                  /\ chatOperation'[chatReq'.key] = {} /\ chatReq'.key \notin chatCreated'
    <3>1. Current(r) /\ chatReq.key \in Chat!Keys
      BY <1>1, <1>11, <2>3 DEF Current, DeliveryTyped
    <3>2. CASE r \in chatReplies
      <4>1. \/ chatReq.key \in chatRefused
            \/ /\ ~OnWire(chatReq.key)
               /\ chatOperation[chatReq.key] = {} /\ chatReq.key \notin chatCreated
        BY <2>3, <3>1, <3>2 DEF DeliveryInv, InTurn
      <4> QED BY <1>3, <1>5, <1>6, <1>7, <3>1, <4>1
    <3>3. CASE r = Chat!Reply(m, "error") /\ m.key \in chatRefused'
      <4>1. Current(chatWire[1]) /\ 1 \in 1..Len(chatWire)
        BY <1>2, <1>12, <3>1, <3>3
      <4>2. m.key = chatReq.key
        BY <1>2, <4>1 DEF DeliveryInv, InTurn
      <4> QED BY <1>3, <3>3, <4>2
    <3> QED BY <1>9, <1>12, <2>3, <3>2, <3>3
  <2> QED BY <2>1, <2>2, <2>3 DEF InTurn
<1>15. NoneTwice'
  BY <1>3, <1>7 DEF DeliveryInv, NoneTwice
<1>16. \A k \in Chat!Keys : Live(k)' => Live(k)
  BY <1>3, <1>5, <1>6, <1>7 DEF Live
<1>17. Recoverable' /\ Distinct' /\ Receipted' /\ chatCreated' \subseteq Chat!Keys
  BY <1>3, <1>16 DEF DeliveryInv, Recoverable, Found, Distinct, Receipted
<1> QED BY <1>10, <1>13, <1>14, <1>15, <1>17 DEF DeliveryInv

\* A creation ends for everyone who waits for it: an error is the last word on its
\* id when nobody waits and nothing is on its way.
LEMMA FinishStep == ASSUME DeliveryNamed, DeliveryInv, Chat!Finish PROVE DeliveryInv'
<1>1. /\ DeliveryTyped
      /\ chatOperation \in [Chat!Keys -> SUBSET Messages]
      /\ chatConnection \in Nat
      /\ chatCreated \subseteq Chat!Keys
  BY DEF DeliveryInv, DeliveryTyped
<1>2. PICK k \in Chat!Keys, outcome \in {"ok", "error"} :
        /\ chatOperation[k] # {} /\ chatOperation' = [chatOperation EXCEPT ![k] = {}]
        /\ chatCreated' = IF outcome = "ok" THEN chatCreated \cup {k} ELSE chatCreated
        /\ chatReplies' = chatReplies \cup {Chat!Reply(m, outcome) : m \in chatOperation[k]}
  BY DEF Chat!Finish
<1>3. UNCHANGED <<chatSocket, chatConnection, chatReq, chatWire, chatRefused, chatReceipts,
                  chatStored, chatKnown, chatKeys, chatRequests>>
  BY DEF Chat!Finish, Chat!link, Chat!caller, Chat!bounds
<1>4. /\ chatOperation' \in [Chat!Keys -> SUBSET Messages] /\ chatOperation'[k] = {}
      /\ \A j \in Chat!Keys : j # k => chatOperation'[j] = chatOperation[j]
  BY <1>1, <1>2
<1>5. ASSUME NEW m \in chatOperation[k]
      PROVE  /\ Chat!Reply(m, outcome) \in
                  [connection : Nat, id : Nat, outcome : {"ok", "error"}]
             /\ Old(Chat!Reply(m, outcome)) /\ Chat!Reply(m, outcome).outcome = outcome
             /\ Current(Chat!Reply(m, outcome)) => Current(m)
             /\ m.key = k
  <2>1. Old(m) /\ m.key = k /\ m \in Messages
    BY AllAreOld
  <2>2. m.connection \in Nat /\ m.id \in Nat
    BY <2>1 DEF Messages
  <2> QED BY <2>1, <2>2 DEF Chat!Reply, Old, Current
<1>6. \A r \in chatReplies' :
        r \in chatReplies \/ \E m \in chatOperation[k] : r = Chat!Reply(m, outcome)
  BY <1>2
<1>7. DeliveryTyped'
  <2>1. chatReplies' \subseteq [connection : Nat, id : Nat, outcome : {"ok", "error"}]
    BY <1>5, <1>6, AllAreOld
  <2> QED BY <1>1, <1>3, <1>4, <2>1 DEF DeliveryTyped
<1>8. \A x : (Old(x) => Old(x)') /\ (Current(x)' <=> Current(x))
  BY <1>3 DEF Old, Current
<1>9. AllOld'
  <2>1. chatReq' # None => chatReq'.id <= chatRequests'
    BY <1>3 DEF DeliveryInv, AllOld
  <2>2. \A i \in 1..Len(chatWire') : Old(chatWire[i])'
    BY <1>3 DEF DeliveryInv, AllOld, Old
  <2>3. \A j \in Chat!Keys : \A m \in chatOperation'[j] : Old(m)' /\ m.key = j
    BY <1>4, <1>8, AllAreOld
  <2>4. \A r \in chatReplies' : Old(r)'
    BY <1>5, <1>6, <1>8, AllAreOld
  <2> QED BY <2>1, <2>2, <2>3, <2>4 DEF AllOld
<1>10. \A j \in Chat!Keys : OnWire(j)' <=> OnWire(j)
  BY <1>3 DEF OnWire
<1>11. /\ chatCreated' \subseteq Chat!Keys /\ chatCreated \subseteq chatCreated'
       /\ \A j \in Chat!Keys : j \in chatCreated' /\ j # k => j \in chatCreated
       /\ outcome = "error" => chatCreated' = chatCreated
  BY <1>1, <1>2
<1>12. NoneTwice'
  BY <1>4, <1>11 DEF DeliveryInv, NoneTwice
<1>13. k \notin chatCreated
  BY <1>2 DEF DeliveryInv, NoneTwice
<1>14. InTurn'
  <2>1. \A i, j \in 1..Len(chatWire') : Current(chatWire[i])' =>
          chatWire'[i].key = chatReq'.key /\ (i < j => chatWire'[j].key # chatReq'.key)
    BY <1>3 DEF DeliveryInv, InTurn, Current
  <2>2. ASSUME NEW j \in Chat!Keys, NEW m \in chatOperation'[j], Current(m)'
        PROVE  m.key = chatReq'.key /\ ~OnWire(j)'
    BY <1>3, <1>4, <1>8, <1>10, <2>2 DEF DeliveryInv, InTurn
  <2>3. ASSUME NEW r \in chatReplies', Current(r)', r.outcome = "error"
        PROVE  \/ chatReq'.key \in chatRefused'
               \/ /\ ~OnWire(chatReq.key)'
                  /\ chatOperation'[chatReq'.key] = {} /\ chatReq'.key \notin chatCreated'
    <3>1. Current(r) /\ chatReq.key \in Chat!Keys
      BY <1>1, <1>8, <2>3 DEF Current, DeliveryTyped
    <3>2. CASE r \in chatReplies
      <4>1. \/ chatReq.key \in chatRefused
            \/ /\ ~OnWire(chatReq.key)
               /\ chatOperation[chatReq.key] = {} /\ chatReq.key \notin chatCreated
        BY <2>3, <3>1, <3>2 DEF DeliveryInv, InTurn
      <4> QED BY <1>2, <1>3, <1>4, <1>10, <1>11, <3>1, <4>1
    <3>3. CASE r \notin chatReplies
      <4>1. PICK m \in chatOperation[k] : r = Chat!Reply(m, outcome)
        BY <1>6, <3>3
      <4>2. Current(m) /\ m.key = k /\ outcome = "error"
        BY <1>5, <2>3, <3>1, <4>1
      <4>3. k = chatReq.key /\ ~OnWire(k)
        BY <4>2 DEF DeliveryInv, InTurn
      <4> QED BY <1>3, <1>4, <1>10, <1>11, <1>13, <4>2, <4>3
    <3> QED BY <3>2, <3>3
  <2> QED BY <2>1, <2>2, <2>3 DEF InTurn
<1>15. \A j \in Chat!Keys : Live(j)' => Live(j)
  BY <1>2, <1>3, <1>4, <1>10, <1>11 DEF Live
<1>16. Recoverable' /\ Distinct' /\ Receipted'
  BY <1>3, <1>15 DEF DeliveryInv, Recoverable, Found, Distinct, Receipted
<1> QED BY <1>7, <1>9, <1>11, <1>12, <1>14, <1>16 DEF DeliveryInv

-----------------------------------------------------------------------------
(* The invariant, and what it says of the chats. *)

\* The invariant is about these variables only.
LEMMA StillFound ==
  ASSUME DeliveryInv,
         UNCHANGED <<chatSocket, chatConnection, chatReq, chatWire, chatOperation, chatCreated,
                    chatReplies, chatReceipts, chatStored, chatRefused, chatKnown, chatKeys,
                    chatRequests>>
  PROVE  DeliveryInv'
<1>1. DeliveryTyped' /\ Distinct' /\ Receipted' /\ NoneTwice'
  BY DEF DeliveryInv, DeliveryTyped, Distinct, Receipted, NoneTwice
<1>2. AllOld'
  BY DEF DeliveryInv, AllOld, Old
<1>3. InTurn'
  BY DEF DeliveryInv, InTurn, Current, OnWire
<1>4. Recoverable'
  BY DEF DeliveryInv, Recoverable, Live, Found, OnWire
<1> QED BY <1>1, <1>2, <1>3, <1>4 DEF DeliveryInv

\* Each step keeps the invariant.
LEMMA DeliveryStep ==
  ASSUME DeliveryNamed, DeliveryInv, [Chat!Next]_(Chat!vars)
  PROVE  DeliveryInv'
<1>1. CASE \/ Chat!Flip \/ Chat!OnlineEvent \/ Chat!OfflineEvent \/ Chat!TimerFires
           \/ Chat!ConnectTimesOut
           \/ Chat!Garbled \/ Chat!CloseEvent \/ Chat!Retry \/ Chat!RequestTimesOut
  BY <1>1, LinkStep
<1>2. CASE Chat!Opens
  BY <1>2, OpensStep
<1>3. CASE Chat!Drop
  BY <1>3, DropStep
<1>4. CASE Chat!Reload
  BY <1>4, ReloadStep
<1>5. CASE Chat!Answer
  BY <1>5, AnswerStep
<1>6. CASE Chat!Create
  BY <1>6, CreateStep
<1>7. CASE Chat!Receive
  BY <1>7, ReceiveStep
<1>8. CASE Chat!Finish
  BY <1>8, FinishStep
<1>9. CASE Chat!RefuseRequests
  BY <1>9, StillFound DEF Chat!RefuseRequests, Chat!link, Chat!caller, Chat!bounds
<1>10. CASE UNCHANGED Chat!vars
  BY <1>10, StillFound DEF Chat!vars, Chat!link, Chat!server, Chat!caller, Chat!bounds
<1> QED BY <1>1, <1>2, <1>3, <1>4, <1>5, <1>6, <1>7, <1>8, <1>9, <1>10 DEF Chat!Next

\* A chat that was created and not acknowledged has its id in a receipt, so that the
\* next attempt asks for the same one: also when a socket loses what it held, a
\* request is sent twice, a receipt is not stored or the page is loaded again; unless
\* the server refused a request of that id without a look at it.
THEOREM ChatIsFoundAgain == ASSUME DeliveryNamed PROVE Chat!Spec => []FoundAgain
<1>1. Chat!Init => DeliveryInv
  BY DeliveryInit
<1>2. DeliveryInv /\ [Chat!Next]_(Chat!vars) => DeliveryInv'
  BY DeliveryStep
<1>3. DeliveryInv => FoundAgain
  <2> SUFFICES ASSUME DeliveryInv, NEW k \in chatCreated \ (chatKnown \cup chatRefused)
               PROVE  k \in {chatReceipts[c] : c \in ChatConfigs}
    BY DEF FoundAgain, Chat!FoundAgain, Chat!Remembered
  <2>1. k \in Chat!Keys /\ Live(k)
    BY DEF DeliveryInv, Live
  <2> QED BY <2>1 DEF DeliveryInv, Recoverable, Found
<1> QED BY <1>1, <1>2, <1>3, PTL DEF Chat!Spec

-----------------------------------------------------------------------------
(* The renderer's copy of the threads: module RendererSync, proved in        *)
(* RendererSyncProofs.                                                      *)

SyncFacts == INSTANCE RendererSyncProofs WITH
  Threads <- SyncThreads, MaxEvents <- SyncMaxEvents, MaxLists <- SyncMaxLists,
  MaxDrops <- SyncMaxDrops, MaxAnswers <- SyncMaxAnswers,
  server <- syncServer, count <- syncCount, socket <- syncSocket, asked <- syncAsked,
  connected <- syncConnected, view <- syncView, batch <- syncBatch,
  recovered <- syncRecovered, list <- syncList, disturbed <- syncDisturbed,
  listed <- syncListed, overwritten <- syncOverwritten, drops <- syncDrops,
  answers <- syncAnswers

ListsFacts == INSTANCE RendererSyncProofs WITH
  Threads <- SyncThreads, MaxEvents <- ListsMaxEvents, MaxLists <- ListsMaxLists,
  MaxDrops <- ListsMaxDrops, MaxAnswers <- ListsMaxAnswers,
  server <- syncServer, count <- syncCount, socket <- syncSocket, asked <- syncAsked,
  connected <- syncConnected, view <- syncView, batch <- syncBatch,
  recovered <- syncRecovered, list <- syncList, disturbed <- syncDisturbed,
  listed <- syncListed, overwritten <- syncOverwritten, drops <- syncDrops,
  answers <- syncAnswers

\* The behaviours of the run are those that RendererSyncProofs is about.
LEMMA SyncBehaviours == Sync!Spec => SyncFacts!Spec
<1>1. Sync!Init => SyncFacts!Init
  BY Zenon DEF Sync!Init, SyncFacts!Init, Sync!Empty, SyncFacts!Empty, Sync!NoList, SyncFacts!NoList
<1>2. Sync!Next <=> SyncFacts!Next
  BY Zenon DEF
     Sync!Apply, SyncFacts!Apply, Sync!Send, SyncFacts!Send, Sync!Publish, SyncFacts!Publish,
     Sync!ReadThreads, SyncFacts!ReadThreads, Sync!AnswerList, SyncFacts!AnswerList,
     Sync!AnswerThread, SyncFacts!AnswerThread, Sync!SetGoal, SyncFacts!SetGoal, Sync!Arrive,
     SyncFacts!Arrive, Sync!Applied, SyncFacts!Applied, Sync!Show, SyncFacts!Show,
     Sync!Frame, SyncFacts!Frame, Sync!Ask, SyncFacts!Ask, Sync!Connect, SyncFacts!Connect,
     Sync!AskAgain, SyncFacts!AskAgain, Sync!Disconnect, SyncFacts!Disconnect,
     Sync!ListTimesOut, SyncFacts!ListTimesOut, Sync!Stable, SyncFacts!Stable, Sync!Rebase,
     SyncFacts!Rebase, Sync!Message, SyncFacts!Message, Sync!ReceiveEvent,
     SyncFacts!ReceiveEvent, Sync!ReceiveThread, SyncFacts!ReceiveThread, Sync!ReceiveGoal,
     SyncFacts!ReceiveGoal, Sync!ReceiveList, SyncFacts!ReceiveList, Sync!Next,
     SyncFacts!Next, Sync!Present, SyncFacts!Present, Sync!client, SyncFacts!client
<1>3. UNCHANGED Sync!vars <=> UNCHANGED SyncFacts!vars
  BY DEF Sync!vars, SyncFacts!vars, Sync!client, SyncFacts!client
<1>4. [Sync!Next]_(Sync!vars) => [SyncFacts!Next]_(SyncFacts!vars)
  BY <1>2, <1>3
<1> QED BY <1>1, <1>4, PTL DEF Sync!Spec, SyncFacts!Spec

\* ... and so are those in which lists are given up.
LEMMA ListsBehaviours == Lists!Spec => ListsFacts!Spec
<1>1. Lists!Init => ListsFacts!Init
  BY Zenon DEF Lists!Init, ListsFacts!Init, Lists!Empty, ListsFacts!Empty, Lists!NoList, ListsFacts!NoList
<1>2. Lists!Next <=> ListsFacts!Next
  BY Zenon DEF
     Lists!Apply, ListsFacts!Apply, Lists!Send, ListsFacts!Send, Lists!Publish,
     ListsFacts!Publish, Lists!ReadThreads, ListsFacts!ReadThreads, Lists!AnswerList,
     ListsFacts!AnswerList, Lists!AnswerThread, ListsFacts!AnswerThread, Lists!SetGoal,
     ListsFacts!SetGoal, Lists!Arrive, ListsFacts!Arrive, Lists!Applied, ListsFacts!Applied,
     Lists!Show, ListsFacts!Show, Lists!Frame, ListsFacts!Frame, Lists!Ask, ListsFacts!Ask,
     Lists!Connect, ListsFacts!Connect, Lists!AskAgain, ListsFacts!AskAgain,
     Lists!Disconnect, ListsFacts!Disconnect, Lists!ListTimesOut, ListsFacts!ListTimesOut,
     Lists!Stable, ListsFacts!Stable, Lists!Rebase, ListsFacts!Rebase, Lists!Message,
     ListsFacts!Message, Lists!ReceiveEvent, ListsFacts!ReceiveEvent, Lists!ReceiveThread,
     ListsFacts!ReceiveThread, Lists!ReceiveGoal, ListsFacts!ReceiveGoal, Lists!ReceiveList,
     ListsFacts!ReceiveList, Lists!Next, ListsFacts!Next, Lists!Present, ListsFacts!Present,
     Lists!client, ListsFacts!client
<1>3. UNCHANGED Lists!vars <=> UNCHANGED ListsFacts!vars
  BY DEF Lists!vars, ListsFacts!vars, Lists!client, ListsFacts!client
<1>4. [Lists!Next]_(Lists!vars) => [ListsFacts!Next]_(ListsFacts!vars)
  BY <1>2, <1>3
<1> QED BY <1>1, <1>4, PTL DEF Lists!Spec, ListsFacts!Spec

\* Once a list was installed, every event is shown exactly once and in order, for any
\* threads, events, requests, lost connections and other answers.
THEOREM ShownOnce ==
  ASSUME SyncFacts!SyncNamed
  PROVE  (Sync!Spec => []ShowsEachEventOnce) /\ (Lists!Spec => []ShowsEachEventOnce)
<1>1. SyncFacts!ShowsEachEventOnce => ShowsEachEventOnce
  BY Zenon DEF ShowsEachEventOnce, Sync!ShowsEachEventOnce, SyncFacts!ShowsEachEventOnce,
               Sync!Settled, SyncFacts!Settled, Sync!Applied, SyncFacts!Applied,
               Sync!Arrive, SyncFacts!Arrive, Sync!Apply, SyncFacts!Apply
<1>2. ListsFacts!ShowsEachEventOnce => ShowsEachEventOnce
  BY Zenon DEF ShowsEachEventOnce, Sync!ShowsEachEventOnce, ListsFacts!ShowsEachEventOnce,
               Sync!Settled, ListsFacts!Settled, Sync!Applied, ListsFacts!Applied,
               Sync!Arrive, ListsFacts!Arrive, Sync!Apply, ListsFacts!Apply
<1>3. ListsFacts!SyncNamed
  BY DEF SyncFacts!SyncNamed, ListsFacts!SyncNamed
<1>4. Sync!Spec => []ShowsEachEventOnce
  BY <1>1, SyncBehaviours, SyncFacts!EventsAreShownOnce, PTL
<1>5. Lists!Spec => []ShowsEachEventOnce
  BY <1>2, <1>3, ListsBehaviours, ListsFacts!EventsAreShownOnce, PTL
<1> QED BY <1>4, <1>5

-----------------------------------------------------------------------------
(* The turns on the screen: module TurnView, proved in TurnViewProofs.  The  *)
(* run has two instances of it, each of which has the definitions of the     *)
(* theorems' own instance.                                                   *)

ViewFacts == INSTANCE TurnViewProofs WITH
  Turns <- {t1, t2}, Replays <- {r1}, Tools <- {k1}, Approvals <- {}, MaxEvents <- 6,
  MaxReloads <- 1,
  server <- viewServer, thread <- viewThread, shown <- viewShown, seq <- viewSeq,
  reloads <- viewReloads

\* Both copies of a thread are kept alike, and what is built from them is the same.
LEMMA ViewThreads ==
  /\ \A th, e, n : View!Apply(th, e, n) = ViewFacts!Apply(th, e, n)
  /\ \A th, e, n, l : View!Mutate(th, e, n, l) = ViewFacts!Mutate(th, e, n, l)
  /\ \A th : View!Build(th) = ViewFacts!Build(th)
  /\ \A p, t : View!At(p, t) = ViewFacts!At(p, t)
  /\ \A s, t : View!LatestActivity(s, t) = ViewFacts!LatestActivity(s, t)
<1>1. ASSUME NEW th, NEW e, NEW n
      PROVE  View!Apply(th, e, n) = ViewFacts!Apply(th, e, n)
  <2>1. View!Common(th, e, n) = ViewFacts!Common(th, e, n)
    BY Zenon DEF
       View!Keep, ViewFacts!Keep, View!Without, ViewFacts!Without, View!Open, ViewFacts!Open,
       View!FinishActivity, ViewFacts!FinishActivity, View!Ended, ViewFacts!Ended,
       View!EndStatus, ViewFacts!EndStatus, View!Common, ViewFacts!Common, View!ToSet,
       ViewFacts!ToSet, View!SelectLastInSeq, ViewFacts!SelectLastInSeq, View!Max, ViewFacts!Max
  <2>2. ASSUME NEW tools
        PROVE  View!ServerTool(th, tools, e.tool, n) = ViewFacts!ServerTool(th, tools, e.tool, n)
    BY Zenon DEF
       View!First, ViewFacts!First, View!FinishThought, ViewFacts!FinishThought,
       View!UpsertTool, ViewFacts!UpsertTool, View!ServerStatus, ViewFacts!ServerStatus,
       View!ServerTool, ViewFacts!ServerTool, View!SelectInSeq, ViewFacts!SelectInSeq,
       View!SelectLastInSeq, ViewFacts!SelectLastInSeq, View!Max, ViewFacts!Max, View!Min,
       ViewFacts!Min
  <2>3. View!Patched(th.tools, View!First(th.tools, LAMBDA t : t.id = e.tool), e, th.active)
          = ViewFacts!Patched(th.tools, ViewFacts!First(th.tools, LAMBDA t : t.id = e.tool), e, th.active)
    BY Zenon DEF
       View!First, ViewFacts!First, View!Patched, ViewFacts!Patched, View!SelectInSeq,
       ViewFacts!SelectInSeq, View!Min, ViewFacts!Min
  <2> QED BY Zenon, <2>1, <2>2, <2>3 DEF
       View!Latest, ViewFacts!Latest, View!LatestActivity, ViewFacts!LatestActivity,
       View!AppendMessage, ViewFacts!AppendMessage, View!FinishThought, ViewFacts!FinishThought,
       View!Extends, ViewFacts!Extends, View!AppendThought, ViewFacts!AppendThought, View!Added,
       ViewFacts!Added, View!WithPhase, ViewFacts!WithPhase, View!Terminal, ViewFacts!Terminal,
       View!Apply, ViewFacts!Apply, View!SelectLastInSeq, ViewFacts!SelectLastInSeq,
       View!ReplaceAt, ViewFacts!ReplaceAt, View!Max, ViewFacts!Max
<1>2. ASSUME NEW th, NEW e, NEW n, NEW l
      PROVE  View!Mutate(th, e, n, l) = ViewFacts!Mutate(th, e, n, l)
  <2>1. View!Common(th, e, n) = ViewFacts!Common(th, e, n)
    BY Zenon DEF
       View!Keep, ViewFacts!Keep, View!Without, ViewFacts!Without, View!Open, ViewFacts!Open,
       View!FinishActivity, ViewFacts!FinishActivity, View!Ended, ViewFacts!Ended,
       View!EndStatus, ViewFacts!EndStatus, View!Common, ViewFacts!Common, View!ToSet,
       ViewFacts!ToSet, View!SelectLastInSeq, ViewFacts!SelectLastInSeq, View!Max, ViewFacts!Max
  <2>2. ASSUME NEW tools
        PROVE  View!RendererTool(th, tools, e.tool, n) = ViewFacts!RendererTool(th, tools, e.tool, n)
    BY Zenon DEF
       View!First, ViewFacts!First, View!FinishThought, ViewFacts!FinishThought,
       View!UpsertTool, ViewFacts!UpsertTool, View!RendererTool, ViewFacts!RendererTool,
       View!SelectInSeq, ViewFacts!SelectInSeq, View!SelectLastInSeq, ViewFacts!SelectLastInSeq,
       View!Max, ViewFacts!Max, View!Min, ViewFacts!Min
  <2>3. View!Patched(th.tools, View!First(th.tools, LAMBDA t : t.id = e.tool), e, th.active)
          = ViewFacts!Patched(th.tools, ViewFacts!First(th.tools, LAMBDA t : t.id = e.tool), e, th.active)
    BY Zenon DEF
       View!First, ViewFacts!First, View!Patched, ViewFacts!Patched, View!SelectInSeq,
       ViewFacts!SelectInSeq, View!Min, ViewFacts!Min
  <2> QED BY Zenon, <2>1, <2>2, <2>3 DEF
       View!AppendMessage, ViewFacts!AppendMessage, View!FinishThought, ViewFacts!FinishThought,
       View!Extends, ViewFacts!Extends, View!AppendThought, ViewFacts!AppendThought, View!Added,
       ViewFacts!Added, View!WithPhase, ViewFacts!WithPhase, View!Terminal, ViewFacts!Terminal,
       View!Mutate, ViewFacts!Mutate, View!SelectLastInSeq, ViewFacts!SelectLastInSeq,
       View!ReplaceAt, ViewFacts!ReplaceAt, View!Max, ViewFacts!Max
<1>3. ASSUME NEW th
      PROVE  View!Build(th) = ViewFacts!Build(th)
  BY Zenon DEF
     View!Build, ViewFacts!Build, View!ids, ViewFacts!ids, View!Keep, ViewFacts!Keep,
     View!TurnIds, ViewFacts!TurnIds, View!Marks, ViewFacts!Marks, View!Reached,
     ViewFacts!Reached, View!ToSet, ViewFacts!ToSet, View!BlankView, ViewFacts!BlankView,
     View!Of, ViewFacts!Of, View!Revertible, ViewFacts!Revertible, View!PhaseOf,
     ViewFacts!PhaseOf, View!Record, ViewFacts!Record, View!SelectLastInSeq,
     ViewFacts!SelectLastInSeq, View!Max, ViewFacts!Max
<1>4. ASSUME NEW p, NEW t
      PROVE  View!At(p, t) = ViewFacts!At(p, t)
  BY Zenon DEF
     View!At, ViewFacts!At, View!First, ViewFacts!First, View!SelectInSeq,
     ViewFacts!SelectInSeq, View!Min, ViewFacts!Min
<1>5. ASSUME NEW s, NEW t
      PROVE  View!LatestActivity(s, t) = ViewFacts!LatestActivity(s, t)
  BY Zenon DEF
     View!LatestActivity, ViewFacts!LatestActivity, View!Latest, ViewFacts!Latest
<1> QED BY <1>1, <1>2, <1>3, <1>4, <1>5

\* A tool is shown alike
LEMMA ViewToolStep ==
  ASSUME NEW p, NEW th, NEW e
  PROVE  View!ToolStep(p, th, e) = ViewFacts!ToolStep(p, th, e)
<1> DEFINE x == th.tools[ViewFacts!IdAt(th.tools, e.tool)]
<1>1. ASSUME NEW t PROVE View!At(p, t) = ViewFacts!At(p, t)
  BY ViewThreads
<1>2. ASSUME NEW t PROVE View!Ensure(p, th, t) = ViewFacts!Ensure(p, th, t)
  BY Zenon DEF
     View!Ensure, ViewFacts!Ensure, View!At, ViewFacts!At, View!First, ViewFacts!First,
     View!SelectInSeq, ViewFacts!SelectInSeq, View!Min, ViewFacts!Min, View!BlankView,
     ViewFacts!BlankView, View!Of, ViewFacts!Of, View!Keep, ViewFacts!Keep, View!ToSet,
     ViewFacts!ToSet, View!Revertible, ViewFacts!Revertible, View!PhaseOf, ViewFacts!PhaseOf
<1>3. ASSUME NEW q, NEW t PROVE View!At(q, t) = ViewFacts!At(q, t)
  BY ViewThreads
<1>4. View!ToolStep(p, th, e)
        = ViewFacts!ToolIn(View!Ensure(p, th, x.turn), View!At(View!Ensure(p, th, x.turn), x.turn), x,
                   e.tool, th.activity[ViewFacts!ToolAt(th.activity, e.tool)])
  BY Zenon DEF ViewFacts!ToolIn, ViewFacts!EntryPut, ViewFacts!ToolAt, ViewFacts!IdAt,
     View!ToolStep, ViewFacts!ToolStep, View!First, ViewFacts!First, View!SelectInSeq,
     ViewFacts!SelectInSeq, View!Min, ViewFacts!Min, View!ReplaceAt, ViewFacts!ReplaceAt,
     View!Entered, ViewFacts!Entered, View!FinishThought, ViewFacts!FinishThought,
     View!SelectLastInSeq, ViewFacts!SelectLastInSeq, View!Max, ViewFacts!Max
<1>5. ViewFacts!ToolStep(p, th, e)
        = ViewFacts!ToolIn(ViewFacts!Ensure(p, th, x.turn), ViewFacts!At(ViewFacts!Ensure(p, th, x.turn), x.turn), x,
                   e.tool, th.activity[ViewFacts!ToolAt(th.activity, e.tool)])
  BY Zenon, ViewFacts!ToolEntered DEF ViewFacts!ToolFrom
<1> QED BY <1>2, <1>3, <1>4, <1>5

\* ... and so is every other event.
LEMMA ViewProject ==
  ASSUME NEW p, NEW th, NEW e, NEW o
  PROVE  View!Project(p, th, e, o) = ViewFacts!Project(p, th, e, o)
<1>1. View!Rebuilds(p, th, e) <=> ViewFacts!Rebuilds(p, th, e)
  BY Zenon DEF
     View!Rebuilds, ViewFacts!Rebuilds, View!At, ViewFacts!At, View!First, ViewFacts!First,
     View!SelectInSeq, ViewFacts!SelectInSeq, View!Min, ViewFacts!Min, View!Record,
     ViewFacts!Record, View!SelectLastInSeq, ViewFacts!SelectLastInSeq, View!Max, ViewFacts!Max
<1>2. View!MessageStep(p, th, e) = ViewFacts!MessageStep(p, th, e)
  BY Zenon DEF
     View!MessageStep, ViewFacts!MessageStep, View!Ensure, ViewFacts!Ensure, View!At,
     ViewFacts!At, View!First, ViewFacts!First, View!SelectInSeq, ViewFacts!SelectInSeq,
     View!Min, ViewFacts!Min, View!BlankView, ViewFacts!BlankView, View!Of, ViewFacts!Of,
     View!Keep, ViewFacts!Keep, View!ToSet, ViewFacts!ToSet, View!Revertible,
     ViewFacts!Revertible, View!PhaseOf, ViewFacts!PhaseOf, View!Last, ViewFacts!Last,
     View!Entered, ViewFacts!Entered, View!ReplaceAt, ViewFacts!ReplaceAt, View!FinishThought,
     ViewFacts!FinishThought, View!SelectLastInSeq, ViewFacts!SelectLastInSeq, View!Max,
     ViewFacts!Max
<1>3. View!StartStep(p, th, e, o) = ViewFacts!StartStep(p, th, e, o)
  BY Zenon DEF
     View!StartStep, ViewFacts!StartStep, View!At, ViewFacts!At, View!First, ViewFacts!First,
     View!SelectInSeq, ViewFacts!SelectInSeq, View!Min, ViewFacts!Min, View!BlankView,
     ViewFacts!BlankView, View!Of, ViewFacts!Of, View!Keep, ViewFacts!Keep, View!ToSet,
     ViewFacts!ToSet, View!Revertible, ViewFacts!Revertible, View!PhaseOf, ViewFacts!PhaseOf,
     View!Last, ViewFacts!Last
<1>4. View!EndStep(p, th, e) = ViewFacts!EndStep(p, th, e)
  BY Zenon DEF
     View!EndStep, ViewFacts!EndStep, View!At, ViewFacts!At, View!First, ViewFacts!First,
     View!SelectInSeq, ViewFacts!SelectInSeq, View!Min, ViewFacts!Min, View!Record,
     ViewFacts!Record, View!SelectLastInSeq, ViewFacts!SelectLastInSeq, View!Max, ViewFacts!Max,
     View!FinishActivity, ViewFacts!FinishActivity, View!Open, ViewFacts!Open, View!EndStatus,
     ViewFacts!EndStatus, View!PhaseOf, ViewFacts!PhaseOf
<1>5. View!PhaseStep(p, th, e) = ViewFacts!PhaseStep(p, th, e)
  BY Zenon DEF
     View!PhaseStep, ViewFacts!PhaseStep, View!At, ViewFacts!At, View!First, ViewFacts!First,
     View!SelectInSeq, ViewFacts!SelectInSeq, View!Min, ViewFacts!Min, View!PhaseOf,
     ViewFacts!PhaseOf
<1>6. View!ApprovalStep(p, th, e) = ViewFacts!ApprovalStep(p, th, e)
  BY Zenon DEF
     View!ApprovalStep, ViewFacts!ApprovalStep, View!At, ViewFacts!At, View!First,
     ViewFacts!First, View!SelectInSeq, ViewFacts!SelectInSeq, View!Min, ViewFacts!Min
<1>7. View!ResolveStep(p, e) = ViewFacts!ResolveStep(p, e)
  BY Zenon DEF
     View!ResolveStep, ViewFacts!ResolveStep, View!At, ViewFacts!At, View!First,
     ViewFacts!First, View!SelectInSeq, ViewFacts!SelectInSeq, View!Min, ViewFacts!Min,
     View!Without, ViewFacts!Without, View!Keep, ViewFacts!Keep, View!ToSet, ViewFacts!ToSet
<1>8. View!CheckpointStep(p, e) = ViewFacts!CheckpointStep(p, e)
  BY Zenon DEF
     View!CheckpointStep, ViewFacts!CheckpointStep, View!At, ViewFacts!At, View!First,
     ViewFacts!First, View!SelectInSeq, ViewFacts!SelectInSeq, View!Min, ViewFacts!Min,
     View!Revertible, ViewFacts!Revertible
<1> QED BY <1>1, <1>2, <1>3, <1>4, <1>5, <1>6, <1>7, <1>8, ViewThreads, ViewToolStep
     DEF View!Project, ViewFacts!Project

\* An event does the same.
LEMMA ViewEmit == ASSUME NEW e PROVE View!Emit(e) <=> ViewFacts!Emit(e)
BY ViewThreads, ViewProject DEF View!Emit, ViewFacts!Emit

\* The behaviours of the run are those that TurnViewProofs is about.
LEMMA ViewBehaviours == View!Spec => ViewFacts!Spec
<1>1. View!Init => ViewFacts!Init
  BY ViewThreads DEF View!Init, ViewFacts!Init, View!NewThread, ViewFacts!NewThread
<1>2. View!Next <=> ViewFacts!Next
  BY ViewThreads, ViewEmit DEF
     View!Next, ViewFacts!Next, View!Prepare, ViewFacts!Prepare, View!started,
     ViewFacts!started, View!ToSet, ViewFacts!ToSet, View!captured, ViewFacts!captured,
     View!Phase, ViewFacts!Phase, View!CaptureBefore, ViewFacts!CaptureBefore, View!Preparing,
     ViewFacts!Preparing, View!Capture, ViewFacts!Capture, View!GiveUp, ViewFacts!GiveUp,
     View!StartTurn, ViewFacts!StartTurn, View!Delta, ViewFacts!Delta, View!TurnIds,
     ViewFacts!TurnIds, View!Source, ViewFacts!Source, View!UserChunk, ViewFacts!UserChunk,
     View!CreateTool, ViewFacts!CreateTool, View!known, ViewFacts!known, View!PatchTool,
     ViewFacts!PatchTool, View!RequestApproval, ViewFacts!RequestApproval, View!ResolveApproval,
     ViewFacts!ResolveApproval, View!Stopping, ViewFacts!Stopping, View!Checkpointing,
     ViewFacts!Checkpointing, View!CaptureAfter, ViewFacts!CaptureAfter, View!EndTurn,
     ViewFacts!EndTurn, View!CancelFailed, ViewFacts!CancelFailed, View!Record,
     ViewFacts!Record, View!SelectLastInSeq, ViewFacts!SelectLastInSeq, View!Max, ViewFacts!Max,
     View!Revert, ViewFacts!Revert, View!FullyReverts, ViewFacts!FullyReverts, View!Accepts,
     ViewFacts!Accepts, View!RevertPart, ViewFacts!RevertPart, View!Reload, ViewFacts!Reload,
     View!Build, ViewFacts!Build, View!ids, ViewFacts!ids, View!Keep, ViewFacts!Keep,
     View!Marks, ViewFacts!Marks, View!Reached, ViewFacts!Reached, View!BlankView,
     ViewFacts!BlankView, View!Of, ViewFacts!Of, View!Revertible, ViewFacts!Revertible,
     View!PhaseOf, ViewFacts!PhaseOf
<1>3. UNCHANGED View!vars <=> UNCHANGED ViewFacts!vars
  BY DEF View!vars, ViewFacts!vars
<1>4. [View!Next]_(View!vars) => [ViewFacts!Next]_(ViewFacts!vars)
  BY <1>2, <1>3
<1> QED BY <1>1, <1>4, PTL DEF View!Spec, ViewFacts!Spec

UndoFacts == INSTANCE TurnViewProofs WITH
  Turns <- {t1, t2}, Replays <- {}, Tools <- {}, Approvals <- {a1}, MaxEvents <- 7,
  MaxReloads <- 1,
  server <- viewServer, thread <- viewThread, shown <- viewShown, seq <- viewSeq,
  reloads <- viewReloads

\* ... as they are in the longer histories without tools.
LEMMA UndoThreads ==
  /\ \A th, e, n : Undo!Apply(th, e, n) = UndoFacts!Apply(th, e, n)
  /\ \A th, e, n, l : Undo!Mutate(th, e, n, l) = UndoFacts!Mutate(th, e, n, l)
  /\ \A th : Undo!Build(th) = UndoFacts!Build(th)
  /\ \A p, t : Undo!At(p, t) = UndoFacts!At(p, t)
  /\ \A s, t : Undo!LatestActivity(s, t) = UndoFacts!LatestActivity(s, t)
<1>1. ASSUME NEW th, NEW e, NEW n
      PROVE  Undo!Apply(th, e, n) = UndoFacts!Apply(th, e, n)
  <2>1. Undo!Common(th, e, n) = UndoFacts!Common(th, e, n)
    BY Zenon DEF
       Undo!Keep, UndoFacts!Keep, Undo!Without, UndoFacts!Without, Undo!Open, UndoFacts!Open,
       Undo!FinishActivity, UndoFacts!FinishActivity, Undo!Ended, UndoFacts!Ended,
       Undo!EndStatus, UndoFacts!EndStatus, Undo!Common, UndoFacts!Common, Undo!ToSet,
       UndoFacts!ToSet, Undo!SelectLastInSeq, UndoFacts!SelectLastInSeq, Undo!Max, UndoFacts!Max
  <2>2. ASSUME NEW tools
        PROVE  Undo!ServerTool(th, tools, e.tool, n) = UndoFacts!ServerTool(th, tools, e.tool, n)
    BY Zenon DEF
       Undo!First, UndoFacts!First, Undo!FinishThought, UndoFacts!FinishThought,
       Undo!UpsertTool, UndoFacts!UpsertTool, Undo!ServerStatus, UndoFacts!ServerStatus,
       Undo!ServerTool, UndoFacts!ServerTool, Undo!SelectInSeq, UndoFacts!SelectInSeq,
       Undo!SelectLastInSeq, UndoFacts!SelectLastInSeq, Undo!Max, UndoFacts!Max, Undo!Min,
       UndoFacts!Min
  <2>3. Undo!Patched(th.tools, Undo!First(th.tools, LAMBDA t : t.id = e.tool), e, th.active)
          = UndoFacts!Patched(th.tools, UndoFacts!First(th.tools, LAMBDA t : t.id = e.tool), e, th.active)
    BY Zenon DEF
       Undo!First, UndoFacts!First, Undo!Patched, UndoFacts!Patched, Undo!SelectInSeq,
       UndoFacts!SelectInSeq, Undo!Min, UndoFacts!Min
  <2> QED BY Zenon, <2>1, <2>2, <2>3 DEF
       Undo!Latest, UndoFacts!Latest, Undo!LatestActivity, UndoFacts!LatestActivity,
       Undo!AppendMessage, UndoFacts!AppendMessage, Undo!FinishThought, UndoFacts!FinishThought,
       Undo!Extends, UndoFacts!Extends, Undo!AppendThought, UndoFacts!AppendThought, Undo!Added,
       UndoFacts!Added, Undo!WithPhase, UndoFacts!WithPhase, Undo!Terminal, UndoFacts!Terminal,
       Undo!Apply, UndoFacts!Apply, Undo!SelectLastInSeq, UndoFacts!SelectLastInSeq,
       Undo!ReplaceAt, UndoFacts!ReplaceAt, Undo!Max, UndoFacts!Max
<1>2. ASSUME NEW th, NEW e, NEW n, NEW l
      PROVE  Undo!Mutate(th, e, n, l) = UndoFacts!Mutate(th, e, n, l)
  <2>1. Undo!Common(th, e, n) = UndoFacts!Common(th, e, n)
    BY Zenon DEF
       Undo!Keep, UndoFacts!Keep, Undo!Without, UndoFacts!Without, Undo!Open, UndoFacts!Open,
       Undo!FinishActivity, UndoFacts!FinishActivity, Undo!Ended, UndoFacts!Ended,
       Undo!EndStatus, UndoFacts!EndStatus, Undo!Common, UndoFacts!Common, Undo!ToSet,
       UndoFacts!ToSet, Undo!SelectLastInSeq, UndoFacts!SelectLastInSeq, Undo!Max, UndoFacts!Max
  <2>2. ASSUME NEW tools
        PROVE  Undo!RendererTool(th, tools, e.tool, n) = UndoFacts!RendererTool(th, tools, e.tool, n)
    BY Zenon DEF
       Undo!First, UndoFacts!First, Undo!FinishThought, UndoFacts!FinishThought,
       Undo!UpsertTool, UndoFacts!UpsertTool, Undo!RendererTool, UndoFacts!RendererTool,
       Undo!SelectInSeq, UndoFacts!SelectInSeq, Undo!SelectLastInSeq, UndoFacts!SelectLastInSeq,
       Undo!Max, UndoFacts!Max, Undo!Min, UndoFacts!Min
  <2>3. Undo!Patched(th.tools, Undo!First(th.tools, LAMBDA t : t.id = e.tool), e, th.active)
          = UndoFacts!Patched(th.tools, UndoFacts!First(th.tools, LAMBDA t : t.id = e.tool), e, th.active)
    BY Zenon DEF
       Undo!First, UndoFacts!First, Undo!Patched, UndoFacts!Patched, Undo!SelectInSeq,
       UndoFacts!SelectInSeq, Undo!Min, UndoFacts!Min
  <2> QED BY Zenon, <2>1, <2>2, <2>3 DEF
       Undo!AppendMessage, UndoFacts!AppendMessage, Undo!FinishThought, UndoFacts!FinishThought,
       Undo!Extends, UndoFacts!Extends, Undo!AppendThought, UndoFacts!AppendThought, Undo!Added,
       UndoFacts!Added, Undo!WithPhase, UndoFacts!WithPhase, Undo!Terminal, UndoFacts!Terminal,
       Undo!Mutate, UndoFacts!Mutate, Undo!SelectLastInSeq, UndoFacts!SelectLastInSeq,
       Undo!ReplaceAt, UndoFacts!ReplaceAt, Undo!Max, UndoFacts!Max
<1>3. ASSUME NEW th
      PROVE  Undo!Build(th) = UndoFacts!Build(th)
  BY Zenon DEF
     Undo!Build, UndoFacts!Build, Undo!ids, UndoFacts!ids, Undo!Keep, UndoFacts!Keep,
     Undo!TurnIds, UndoFacts!TurnIds, Undo!Marks, UndoFacts!Marks, Undo!Reached,
     UndoFacts!Reached, Undo!ToSet, UndoFacts!ToSet, Undo!BlankView, UndoFacts!BlankView,
     Undo!Of, UndoFacts!Of, Undo!Revertible, UndoFacts!Revertible, Undo!PhaseOf,
     UndoFacts!PhaseOf, Undo!Record, UndoFacts!Record, Undo!SelectLastInSeq,
     UndoFacts!SelectLastInSeq, Undo!Max, UndoFacts!Max
<1>4. ASSUME NEW p, NEW t
      PROVE  Undo!At(p, t) = UndoFacts!At(p, t)
  BY Zenon DEF
     Undo!At, UndoFacts!At, Undo!First, UndoFacts!First, Undo!SelectInSeq,
     UndoFacts!SelectInSeq, Undo!Min, UndoFacts!Min
<1>5. ASSUME NEW s, NEW t
      PROVE  Undo!LatestActivity(s, t) = UndoFacts!LatestActivity(s, t)
  BY Zenon DEF
     Undo!LatestActivity, UndoFacts!LatestActivity, Undo!Latest, UndoFacts!Latest
<1> QED BY <1>1, <1>2, <1>3, <1>4, <1>5

\* A tool is shown alike
LEMMA UndoToolStep ==
  ASSUME NEW p, NEW th, NEW e
  PROVE  Undo!ToolStep(p, th, e) = UndoFacts!ToolStep(p, th, e)
<1> DEFINE x == th.tools[UndoFacts!IdAt(th.tools, e.tool)]
<1>1. ASSUME NEW t PROVE Undo!At(p, t) = UndoFacts!At(p, t)
  BY UndoThreads
<1>2. ASSUME NEW t PROVE Undo!Ensure(p, th, t) = UndoFacts!Ensure(p, th, t)
  BY Zenon DEF
     Undo!Ensure, UndoFacts!Ensure, Undo!At, UndoFacts!At, Undo!First, UndoFacts!First,
     Undo!SelectInSeq, UndoFacts!SelectInSeq, Undo!Min, UndoFacts!Min, Undo!BlankView,
     UndoFacts!BlankView, Undo!Of, UndoFacts!Of, Undo!Keep, UndoFacts!Keep, Undo!ToSet,
     UndoFacts!ToSet, Undo!Revertible, UndoFacts!Revertible, Undo!PhaseOf, UndoFacts!PhaseOf
<1>3. ASSUME NEW q, NEW t PROVE Undo!At(q, t) = UndoFacts!At(q, t)
  BY UndoThreads
<1>4. Undo!ToolStep(p, th, e)
        = UndoFacts!ToolIn(Undo!Ensure(p, th, x.turn), Undo!At(Undo!Ensure(p, th, x.turn), x.turn), x,
                   e.tool, th.activity[UndoFacts!ToolAt(th.activity, e.tool)])
  BY Zenon DEF UndoFacts!ToolIn, UndoFacts!EntryPut, UndoFacts!ToolAt, UndoFacts!IdAt,
     Undo!ToolStep, UndoFacts!ToolStep, Undo!First, UndoFacts!First, Undo!SelectInSeq,
     UndoFacts!SelectInSeq, Undo!Min, UndoFacts!Min, Undo!ReplaceAt, UndoFacts!ReplaceAt,
     Undo!Entered, UndoFacts!Entered, Undo!FinishThought, UndoFacts!FinishThought,
     Undo!SelectLastInSeq, UndoFacts!SelectLastInSeq, Undo!Max, UndoFacts!Max
<1>5. UndoFacts!ToolStep(p, th, e)
        = UndoFacts!ToolIn(UndoFacts!Ensure(p, th, x.turn), UndoFacts!At(UndoFacts!Ensure(p, th, x.turn), x.turn), x,
                   e.tool, th.activity[UndoFacts!ToolAt(th.activity, e.tool)])
  BY Zenon, UndoFacts!ToolEntered DEF UndoFacts!ToolFrom
<1> QED BY <1>2, <1>3, <1>4, <1>5

\* ... and so is every other event.
LEMMA UndoProject ==
  ASSUME NEW p, NEW th, NEW e, NEW o
  PROVE  Undo!Project(p, th, e, o) = UndoFacts!Project(p, th, e, o)
<1>1. Undo!Rebuilds(p, th, e) <=> UndoFacts!Rebuilds(p, th, e)
  BY Zenon DEF
     Undo!Rebuilds, UndoFacts!Rebuilds, Undo!At, UndoFacts!At, Undo!First, UndoFacts!First,
     Undo!SelectInSeq, UndoFacts!SelectInSeq, Undo!Min, UndoFacts!Min, Undo!Record,
     UndoFacts!Record, Undo!SelectLastInSeq, UndoFacts!SelectLastInSeq, Undo!Max, UndoFacts!Max
<1>2. Undo!MessageStep(p, th, e) = UndoFacts!MessageStep(p, th, e)
  BY Zenon DEF
     Undo!MessageStep, UndoFacts!MessageStep, Undo!Ensure, UndoFacts!Ensure, Undo!At,
     UndoFacts!At, Undo!First, UndoFacts!First, Undo!SelectInSeq, UndoFacts!SelectInSeq,
     Undo!Min, UndoFacts!Min, Undo!BlankView, UndoFacts!BlankView, Undo!Of, UndoFacts!Of,
     Undo!Keep, UndoFacts!Keep, Undo!ToSet, UndoFacts!ToSet, Undo!Revertible,
     UndoFacts!Revertible, Undo!PhaseOf, UndoFacts!PhaseOf, Undo!Last, UndoFacts!Last,
     Undo!Entered, UndoFacts!Entered, Undo!ReplaceAt, UndoFacts!ReplaceAt, Undo!FinishThought,
     UndoFacts!FinishThought, Undo!SelectLastInSeq, UndoFacts!SelectLastInSeq, Undo!Max,
     UndoFacts!Max
<1>3. Undo!StartStep(p, th, e, o) = UndoFacts!StartStep(p, th, e, o)
  BY Zenon DEF
     Undo!StartStep, UndoFacts!StartStep, Undo!At, UndoFacts!At, Undo!First, UndoFacts!First,
     Undo!SelectInSeq, UndoFacts!SelectInSeq, Undo!Min, UndoFacts!Min, Undo!BlankView,
     UndoFacts!BlankView, Undo!Of, UndoFacts!Of, Undo!Keep, UndoFacts!Keep, Undo!ToSet,
     UndoFacts!ToSet, Undo!Revertible, UndoFacts!Revertible, Undo!PhaseOf, UndoFacts!PhaseOf,
     Undo!Last, UndoFacts!Last
<1>4. Undo!EndStep(p, th, e) = UndoFacts!EndStep(p, th, e)
  BY Zenon DEF
     Undo!EndStep, UndoFacts!EndStep, Undo!At, UndoFacts!At, Undo!First, UndoFacts!First,
     Undo!SelectInSeq, UndoFacts!SelectInSeq, Undo!Min, UndoFacts!Min, Undo!Record,
     UndoFacts!Record, Undo!SelectLastInSeq, UndoFacts!SelectLastInSeq, Undo!Max, UndoFacts!Max,
     Undo!FinishActivity, UndoFacts!FinishActivity, Undo!Open, UndoFacts!Open, Undo!EndStatus,
     UndoFacts!EndStatus, Undo!PhaseOf, UndoFacts!PhaseOf
<1>5. Undo!PhaseStep(p, th, e) = UndoFacts!PhaseStep(p, th, e)
  BY Zenon DEF
     Undo!PhaseStep, UndoFacts!PhaseStep, Undo!At, UndoFacts!At, Undo!First, UndoFacts!First,
     Undo!SelectInSeq, UndoFacts!SelectInSeq, Undo!Min, UndoFacts!Min, Undo!PhaseOf,
     UndoFacts!PhaseOf
<1>6. Undo!ApprovalStep(p, th, e) = UndoFacts!ApprovalStep(p, th, e)
  BY Zenon DEF
     Undo!ApprovalStep, UndoFacts!ApprovalStep, Undo!At, UndoFacts!At, Undo!First,
     UndoFacts!First, Undo!SelectInSeq, UndoFacts!SelectInSeq, Undo!Min, UndoFacts!Min
<1>7. Undo!ResolveStep(p, e) = UndoFacts!ResolveStep(p, e)
  BY Zenon DEF
     Undo!ResolveStep, UndoFacts!ResolveStep, Undo!At, UndoFacts!At, Undo!First,
     UndoFacts!First, Undo!SelectInSeq, UndoFacts!SelectInSeq, Undo!Min, UndoFacts!Min,
     Undo!Without, UndoFacts!Without, Undo!Keep, UndoFacts!Keep, Undo!ToSet, UndoFacts!ToSet
<1>8. Undo!CheckpointStep(p, e) = UndoFacts!CheckpointStep(p, e)
  BY Zenon DEF
     Undo!CheckpointStep, UndoFacts!CheckpointStep, Undo!At, UndoFacts!At, Undo!First,
     UndoFacts!First, Undo!SelectInSeq, UndoFacts!SelectInSeq, Undo!Min, UndoFacts!Min,
     Undo!Revertible, UndoFacts!Revertible
<1> QED BY <1>1, <1>2, <1>3, <1>4, <1>5, <1>6, <1>7, <1>8, UndoThreads, UndoToolStep
     DEF Undo!Project, UndoFacts!Project

\* An event does the same.
LEMMA UndoEmit == ASSUME NEW e PROVE Undo!Emit(e) <=> UndoFacts!Emit(e)
BY UndoThreads, UndoProject DEF Undo!Emit, UndoFacts!Emit

\* The behaviours of the run are those that TurnViewProofs is about.
LEMMA UndoBehaviours == Undo!Spec => UndoFacts!Spec
<1>1. Undo!Init => UndoFacts!Init
  BY UndoThreads DEF Undo!Init, UndoFacts!Init, Undo!NewThread, UndoFacts!NewThread
<1>2. Undo!Next <=> UndoFacts!Next
  BY UndoThreads, UndoEmit DEF
     Undo!Next, UndoFacts!Next, Undo!Prepare, UndoFacts!Prepare, Undo!started,
     UndoFacts!started, Undo!ToSet, UndoFacts!ToSet, Undo!captured, UndoFacts!captured,
     Undo!Phase, UndoFacts!Phase, Undo!CaptureBefore, UndoFacts!CaptureBefore, Undo!Preparing,
     UndoFacts!Preparing, Undo!Capture, UndoFacts!Capture, Undo!GiveUp, UndoFacts!GiveUp,
     Undo!StartTurn, UndoFacts!StartTurn, Undo!Delta, UndoFacts!Delta, Undo!TurnIds,
     UndoFacts!TurnIds, Undo!Source, UndoFacts!Source, Undo!UserChunk, UndoFacts!UserChunk,
     Undo!CreateTool, UndoFacts!CreateTool, Undo!known, UndoFacts!known, Undo!PatchTool,
     UndoFacts!PatchTool, Undo!RequestApproval, UndoFacts!RequestApproval, Undo!ResolveApproval,
     UndoFacts!ResolveApproval, Undo!Stopping, UndoFacts!Stopping, Undo!Checkpointing,
     UndoFacts!Checkpointing, Undo!CaptureAfter, UndoFacts!CaptureAfter, Undo!EndTurn,
     UndoFacts!EndTurn, Undo!CancelFailed, UndoFacts!CancelFailed, Undo!Record,
     UndoFacts!Record, Undo!SelectLastInSeq, UndoFacts!SelectLastInSeq, Undo!Max, UndoFacts!Max,
     Undo!Revert, UndoFacts!Revert, Undo!FullyReverts, UndoFacts!FullyReverts, Undo!Accepts,
     UndoFacts!Accepts, Undo!RevertPart, UndoFacts!RevertPart, Undo!Reload, UndoFacts!Reload,
     Undo!Build, UndoFacts!Build, Undo!ids, UndoFacts!ids, Undo!Keep, UndoFacts!Keep,
     Undo!Marks, UndoFacts!Marks, Undo!Reached, UndoFacts!Reached, Undo!BlankView,
     UndoFacts!BlankView, Undo!Of, UndoFacts!Of, Undo!Revertible, UndoFacts!Revertible,
     Undo!PhaseOf, UndoFacts!PhaseOf
<1>3. UNCHANGED Undo!vars <=> UNCHANGED UndoFacts!vars
  BY DEF Undo!vars, UndoFacts!vars
<1>4. [Undo!Next]_(Undo!vars) => [UndoFacts!Next]_(UndoFacts!vars)
  BY <1>2, <1>3
<1> QED BY <1>1, <1>4, PTL DEF Undo!Spec, UndoFacts!Spec

\* What a rebuild makes of the turns in order o.
UndoBuilt(th, o) ==
  [views |-> [k \in DOMAIN UndoFacts!Firsts(o) |->
                UndoFacts!ViewOf(th, o[UndoFacts!Firsts(o)[k]])],
   before |-> UndoFacts!Marks(th).before, after |-> UndoFacts!Marks(th).after,
   reverted |-> UndoFacts!Marks(th).reverted, parts |-> UndoFacts!Marks(th).parts,
   approvalTurn |-> UndoFacts!Marks(th).approvalTurn]

\* Without tools the two instances build the same.
LEMMA BuildWithoutTools ==
  ASSUME NEW th, th.tools = <<>>
  PROVE  View!Build(th) = UndoFacts!Build(th)
<1>1. View!Build(th) = UndoBuilt(th, ViewFacts!Order(th))
  BY Zenon DEF UndoBuilt, ViewFacts!Order, UndoFacts!Firsts, UndoFacts!FirstMet, UndoFacts!ViewOf,
     View!Build, UndoFacts!Build, View!ids, UndoFacts!ids, View!Keep, UndoFacts!Keep,
     View!TurnIds, UndoFacts!TurnIds, View!Marks, UndoFacts!Marks, View!Reached,
     UndoFacts!Reached, View!ToSet, UndoFacts!ToSet, View!BlankView, UndoFacts!BlankView,
     View!Of, UndoFacts!Of, View!Revertible, UndoFacts!Revertible, View!PhaseOf,
     UndoFacts!PhaseOf, View!Record, UndoFacts!Record, View!SelectLastInSeq,
     UndoFacts!SelectLastInSeq, View!Max, UndoFacts!Max,
     ViewFacts!ids, ViewFacts!Keep, ViewFacts!TurnIds, ViewFacts!ToSet
<1>2. UndoFacts!Build(th) = UndoBuilt(th, UndoFacts!Order(th))
  BY Zenon DEF UndoBuilt, UndoFacts!Build, UndoFacts!Order, UndoFacts!Firsts,
               UndoFacts!FirstMet, UndoFacts!ViewOf
<1>3. ViewFacts!Order(th) = UndoFacts!Order(th)
  <2>1. \A s : ViewFacts!ids(s) = UndoFacts!ids(s)
    BY Zenon DEF ViewFacts!ids, UndoFacts!ids
  <2>2. ViewFacts!ids(th.tools) = <<>> /\ UndoFacts!ids(th.tools) = <<>>
    BY DEF ViewFacts!ids, UndoFacts!ids
  <2>3. /\ ViewFacts!Keep(<<>>, ViewFacts!TurnIds) = <<>>
        /\ UndoFacts!Keep(<<>>, UndoFacts!TurnIds) = <<>>
    BY ViewFacts!KeepNone, UndoFacts!KeepNone
  <2> QED BY <2>1, <2>2, <2>3 DEF ViewFacts!Order, UndoFacts!Order
<1> QED BY <1>1, <1>2, <1>3

\* Without a tool's name there is no tool.
LEMMA UndoHasNoTools == ASSUME UndoFacts!IInv PROVE viewThread.tools = <<>>
<1>1. viewThread \in UndoFacts!Threads
  BY DEF UndoFacts!IInv, UndoFacts!Good, UndoFacts!Pair, UndoFacts!ThreadOK
<1>2. viewThread.tools \in Seq(UndoFacts!ToolRecs)
  BY <1>1 DEF UndoFacts!Threads
<1>3. UndoFacts!ToolRecs = {}
  BY DEF UndoFacts!ToolRecs
<1> QED BY <1>2, <1>3

\* What the instances say of the same variables is the same.
LEMMA ViewSays ==
  /\ ViewFacts!ShownIsRebuilt => ShownIsRebuilt
  /\ UndoFacts!IInv /\ UndoFacts!ShownIsRebuilt => ShownIsRebuilt
  /\ (ViewFacts!SameThread => SameThread) /\ (UndoFacts!SameThread => SameThread)
  /\ (ViewFacts!UndoIsAccepted => UndoIsAccepted) /\ (UndoFacts!UndoIsAccepted => UndoIsAccepted)
<1>1. \A s : View!ToSet(s) = ViewFacts!ToSet(s) /\ View!ToSet(s) = UndoFacts!ToSet(s)
  BY Zenon DEF View!ToSet, ViewFacts!ToSet, UndoFacts!ToSet
<1>2. ViewFacts!ShownIsRebuilt => ShownIsRebuilt
  BY <1>1, ViewThreads DEF ShownIsRebuilt, View!ShownIsRebuilt, ViewFacts!ShownIsRebuilt
<1>3. UndoFacts!IInv /\ UndoFacts!ShownIsRebuilt => ShownIsRebuilt
  BY <1>1, UndoHasNoTools, BuildWithoutTools
     DEF ShownIsRebuilt, View!ShownIsRebuilt, UndoFacts!ShownIsRebuilt
<1>4. ViewFacts!SameThread => SameThread
  BY Zenon DEF SameThread, View!SameThread, ViewFacts!SameThread,
     View!Of, ViewFacts!Of, View!Keep, ViewFacts!Keep, View!ToSet, ViewFacts!ToSet
<1>5. UndoFacts!SameThread => SameThread
  BY Zenon DEF SameThread, View!SameThread, UndoFacts!SameThread,
     View!Of, UndoFacts!Of, View!Keep, UndoFacts!Keep, View!ToSet, UndoFacts!ToSet
<1>6. ViewFacts!UndoIsAccepted => UndoIsAccepted
  BY Zenon DEF UndoIsAccepted, View!UndoIsAccepted, ViewFacts!UndoIsAccepted, View!captured,
     ViewFacts!captured, View!ToSet, ViewFacts!ToSet
<1>7. UndoFacts!UndoIsAccepted => UndoIsAccepted
  BY Zenon DEF UndoIsAccepted, View!UndoIsAccepted, UndoFacts!UndoIsAccepted, View!captured,
     UndoFacts!captured, View!ToSet, UndoFacts!ToSet
<1> QED BY <1>2, <1>3, <1>4, <1>5, <1>6, <1>7

\* The turns on the screen are what a rebuild shows, the renderer's thread is the
\* server's, and undo is offered only where the server accepts it, in both instances
\* of TurnView and whatever the names of their turns and tools are.
LEMMA ViewIsRight ==
  ASSUME ViewFacts!NamesOK
  PROVE  /\ View!Spec => []ShownIsRebuilt /\ []SameThread /\ []UndoIsAccepted
         /\ Undo!Spec => []ShownIsRebuilt /\ []SameThread /\ []UndoIsAccepted
<1>1. UndoFacts!NamesOK
  BY DEF ViewFacts!NamesOK, UndoFacts!NamesOK, ViewFacts!TurnIds, UndoFacts!TurnIds
<1>2. View!Spec => []ViewFacts!ShownIsRebuilt
  <2>1. \A a, b \in {k1} : a = b
    OBVIOUS
  <2>2. ViewFacts!Spec => []ViewFacts!ShownIsRebuilt
    BY <2>1, ViewFacts!IncrementalIsRebuilt
  <2> QED BY <2>2, ViewBehaviours, PTL
<1>3. Undo!Spec => []UndoFacts!ShownIsRebuilt
  <2>1. \A a, b \in {} : a = b
    OBVIOUS
  <2>2. UndoFacts!Spec => []UndoFacts!ShownIsRebuilt
    BY <1>1, <2>1, UndoFacts!IncrementalIsRebuilt
  <2> QED BY <2>2, UndoBehaviours, PTL
<1>4. View!Spec => []ViewFacts!SameThread /\ []ViewFacts!UndoIsAccepted
  BY ViewBehaviours, ViewFacts!RendererAgrees, ViewFacts!OfferedUndoIsAccepted, PTL
<1>5. Undo!Spec => []UndoFacts!SameThread /\ []UndoFacts!UndoIsAccepted /\ []UndoFacts!IInv
  BY <1>1, UndoBehaviours, UndoFacts!RendererAgrees, UndoFacts!OfferedUndoIsAccepted,
     UndoFacts!Invariant, PTL
<1>6. View!Spec => []ShownIsRebuilt /\ []SameThread /\ []UndoIsAccepted
  BY <1>2, <1>4, ViewSays, PTL
<1>7. Undo!Spec => []ShownIsRebuilt /\ []SameThread /\ []UndoIsAccepted
  BY <1>3, <1>5, ViewSays, PTL
<1> QED BY <1>6, <1>7

\* No cached index or mark of the incremental projection goes stale (App.tsx,
\* applyTurnProjectionEvent).
THEOREM ShownAsRebuilt ==
  ASSUME ViewFacts!NamesOK
  PROVE  (View!Spec => []ShownIsRebuilt) /\ (Undo!Spec => []ShownIsRebuilt)
BY ViewIsRight, PTL

\* The renderer's thread agrees with the server's (mutateThread against #apply).
THEOREM ThreadsAgree ==
  ASSUME ViewFacts!NamesOK
  PROVE  (View!Spec => []SameThread) /\ (Undo!Spec => []SameThread)
BY ViewIsRight, PTL

\* Undo is offered only for what has both snapshots and was not undone
\* (projectedCanRevert).
THEOREM UndoIsOffered ==
  ASSUME ViewFacts!NamesOK
  PROVE  (View!Spec => []UndoIsAccepted) /\ (Undo!Spec => []UndoIsAccepted)
BY ViewIsRight, PTL

-----------------------------------------------------------------------------
(* The run: each of its parts is a behaviour of that part's specification.  *)

\* A behaviour is about one part.
LEMMA PartStays ==
  ClientSpec => /\ [](part = "lists") \/ [](part # "lists")
                /\ [](part = "undo") \/ [](part # "undo")
<1>1. (part = "lists" \/ part # "lists") /\ (part = "undo" \/ part # "undo")
  OBVIOUS
<1>2. /\ part = "lists" /\ [ClientNext]_ClientVars => (part = "lists")'
      /\ part # "lists" /\ [ClientNext]_ClientVars => (part # "lists")'
      /\ part = "undo" /\ [ClientNext]_ClientVars => (part = "undo")'
      /\ part # "undo" /\ [ClientNext]_ClientVars => (part # "undo")'
  BY DEF ClientNext, ClientVars, Only
<1> QED BY <1>1, <1>2, PTL DEF ClientSpec

\* The two instances of RendererSync share their variables.
LEMMA SharedBehaviours ==
  ClientSpec => /\ [](part = "lists") => Lists!Spec
                /\ [](part # "lists") => Sync!Spec
<1>1. ClientInit => Sync!Init /\ Lists!Init
  BY DEF ClientInit, Sync!Init, Lists!Init, Sync!Empty, Lists!Empty, Sync!NoList, Lists!NoList
<1>2. part = "lists" /\ [ClientNext]_ClientVars => [Lists!Next]_(Lists!vars)
  <2>1. ASSUME UNCHANGED syncVars PROVE UNCHANGED Lists!vars
    BY <2>1 DEF syncVars, Lists!vars, Lists!client
  <2> QED BY <2>1 DEF ClientNext, ClientVars
<1>3. part # "lists" /\ [ClientNext]_ClientVars => [Sync!Next]_(Sync!vars)
  <2>1. ASSUME UNCHANGED syncVars PROVE UNCHANGED Sync!vars
    BY <2>1 DEF syncVars, Sync!vars, Sync!client
  <2> QED BY <2>1 DEF ClientNext, ClientVars, Only
<1> QED BY <1>1, <1>2, <1>3, PTL DEF ClientSpec, Lists!Spec, Sync!Spec

\* The two instances of TurnView do so too.
LEMMA SharedViews ==
  ClientSpec => /\ [](part = "undo") => Undo!Spec
                /\ [](part # "undo") => View!Spec
<1>1. ClientInit => View!Init /\ Undo!Init
  <2>1. /\ View!NewThread = UndoFacts!NewThread /\ Undo!NewThread = UndoFacts!NewThread
        /\ UndoFacts!NewThread.tools = <<>>
    BY DEF View!NewThread, UndoFacts!NewThread, Undo!NewThread
  <2>2. View!Build(View!NewThread) = Undo!Build(Undo!NewThread)
    BY <2>1, BuildWithoutTools, UndoThreads
  <2> QED BY <2>1, <2>2 DEF ClientInit, View!Init, Undo!Init
<1>2. part = "undo" /\ [ClientNext]_ClientVars => [Undo!Next]_(Undo!vars)
  <2>1. ASSUME UNCHANGED viewVars PROVE UNCHANGED Undo!vars
    BY <2>1 DEF viewVars, Undo!vars
  <2> QED BY <2>1 DEF ClientNext, ClientVars
<1>3. part # "undo" /\ [ClientNext]_ClientVars => [View!Next]_(View!vars)
  <2>1. ASSUME UNCHANGED viewVars PROVE UNCHANGED View!vars
    BY <2>1 DEF viewVars, View!vars
  <2> QED BY <2>1 DEF ClientNext, ClientVars, Only
<1> QED BY <1>1, <1>2, <1>3, PTL DEF ClientSpec, Undo!Spec, View!Spec

\* A part that is not the run's own stays as it began, which its specification
\* allows.
LEMMA ClientBehaviours == ClientSpec => Spec /\ Chat!Spec /\ Update!Spec
<1>1. ClientInit => Init /\ Chat!Init /\ Update!Init
  BY DEF ClientInit
<1>2. ASSUME [ClientNext]_ClientVars
      PROVE  [Next]_vars /\ [Chat!Next]_(Chat!vars) /\ [Update!Next]_(Update!vars)
  <2>1. /\ UNCHANGED chatVars => UNCHANGED Chat!vars
        /\ UNCHANGED updateVars => UNCHANGED Update!vars
    BY DEF chatVars, Chat!vars, Chat!link, Chat!server, Chat!caller,
           Chat!bounds, updateVars, Update!vars
  <2>2. CASE UNCHANGED ClientVars
    BY <2>1, <2>2 DEF ClientVars
  <2>3. CASE ClientNext
    <3>1. [Next]_vars
      BY <2>3 DEF ClientNext, Only
    <3>2. [Chat!Next]_(Chat!vars)
      BY <2>1, <2>3 DEF ClientNext, Only
    <3>3. [Update!Next]_(Update!vars)
      BY <2>1, <2>3 DEF ClientNext, Only
    <3> QED BY <3>1, <3>2, <3>3
  <2> QED BY <1>2, <2>2, <2>3
<1> QED BY <1>1, <1>2, PTL DEF ClientSpec, Spec, Chat!Spec, Update!Spec

\* What the run checks holds for every value of its constants.
THEOREM ClientIsSafe ==
  ASSUME Named, ~DiesUnattached, None \notin UpdateWindows, DeliveryNamed,
         SyncFacts!SyncNamed, ViewFacts!NamesOK
  PROVE  ClientSpec => /\ []OneServer /\ ShownIsOurs /\ []LeaseIsGivenBack
                       /\ []FoundAgain /\ []ShowsEachEventOnce
                       /\ []ShownIsRebuilt /\ []SameThread /\ []UndoIsAccepted
<1>1. ClientSpec => []OneServer /\ ShownIsOurs /\ []LeaseIsGivenBack /\ []FoundAgain
  BY ClientBehaviours, OneServerRuns, ShownServerIsOurs, LeaseComesBack, ChatIsFoundAgain, PTL
<1>2. ClientSpec => []ShowsEachEventOnce
  BY PartStays, SharedBehaviours, ShownOnce, PTL
<1>3. ClientSpec => []ShownIsRebuilt /\ []SameThread /\ []UndoIsAccepted
  BY PartStays, SharedViews, ViewIsRight, PTL
<1> QED BY <1>1, <1>2, <1>3

=============================================================================
