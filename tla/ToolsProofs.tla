----------------------------- MODULE ToolsProofs ----------------------------
(***************************************************************************)
(* What the tools run checks on a small instance, for every instance: that *)
(* a JSON file loses nothing (RecoverableJson), that the update feeds never*)
(* go back and offer what was released (FeedPublication), that what was    *)
(* prepared for them is complete (FeedPreparation), that the executor of   *)
(* the migration runs only with a manifest that was checked whole          *)
(* (MigrationApproval), one at a time and each step once (Migration), and  *)
(* that a runtime has one process of the agent (AgentRuntime).             *)
(***************************************************************************)
EXTENDS MCTools, Integers, Sequences, FiniteSetTheorems, TLAPS

\* Which files hold what at each step: a file that is missing has its backup, and
\* a step that leaves neither in place has the value in the temporary file.
FilesAt ==
  /\ primary \in {last, Missing}
  /\ step = "idle" => primary = last
  /\ step \in {"write", "remove", "move"} => primary = last /\ moved = FALSE
  /\ step = "move" => backup = Missing
  /\ step \in {"remove", "move"} => temporary = value
  /\ step \in {"write", "remove", "move", "install"} => value \in Values
  /\ step = "install" => /\ primary = Missing /\ temporary = value
                         /\ moved <=> last \in Values
                         /\ backup = last
  /\ step \in {"restore", "restore-remove", "restore-rename"} =>
       last \in Values /\ value = last /\ backup = last
  /\ step \in {"restore-remove", "restore-rename"} => temporary = value
  /\ primary = Missing => backup = last

IInv == TypeOK /\ FilesAt

\* Initially there is no file.
LEMMA InitInv == Init => IInv
BY ContentsAssumption DEF Init, IInv, TypeOK, FilesAt

\* An opening read keeps the files apart from what the restoration replaces.
LEMMA ReadInv ==
  IInv /\ (Open \/ RestoreTemporary \/ RestoreRemove \/ RestoreRename) => IInv'
<1> SUFFICES ASSUME IInv, Open \/ RestoreTemporary \/ RestoreRemove \/ RestoreRename
             PROVE  IInv'
  OBVIOUS
<1> USE ContentsAssumption DEF IInv, TypeOK, FilesAt
<1>1. CASE Open
  BY <1>1 DEF Open, Readable, files
<1>2. CASE RestoreTemporary
  BY <1>2 DEF RestoreTemporary
<1>3. CASE RestoreRemove
  BY <1>3 DEF RestoreRemove
<1>4. CASE RestoreRename
  BY <1>4 DEF RestoreRename
<1> QED
  BY <1>1, <1>2, <1>3, <1>4

\* Each step of a write leaves the old value in the file or in its backup.
LEMMA WriteInv ==
  IInv /\ ((\E v \in Values : Write(v)) \/ WriteTemporary \/ RemoveBackup \/ Move \/ Install)
  => IInv'
<1> SUFFICES ASSUME IInv,
                    (\E v \in Values : Write(v)) \/ WriteTemporary \/ RemoveBackup \/ Move \/ Install
             PROVE  IInv'
  OBVIOUS
<1> USE ContentsAssumption DEF IInv, TypeOK, FilesAt
<1>1. ASSUME NEW v \in Values, Write(v) PROVE IInv'
  BY <1>1 DEF Write, files
<1>2. CASE WriteTemporary
  BY <1>2 DEF WriteTemporary
<1>3. CASE RemoveBackup
  BY <1>3 DEF RemoveBackup
<1>4. CASE Move
  <2>1. CASE primary = Missing
    BY <1>4, <2>1 DEF Move
  <2>2. CASE primary # Missing
    BY <1>4, <2>2 DEF Move
  <2> QED
    BY <2>1, <2>2
<1>5. CASE Install
  BY <1>5 DEF Install
<1> QED
  BY <1>1, <1>2, <1>3, <1>4, <1>5

\* So does a step that fails, if the backup can be moved back, and a crash.
LEMMA FaultInv ==
  ASSUME ~UndoFails
  PROVE  IInv /\ (Fails \/ InstallFails \/ Crash) => IInv'
<1> SUFFICES ASSUME IInv, Fails \/ InstallFails \/ Crash
             PROVE  IInv'
  OBVIOUS
<1> USE ContentsAssumption DEF IInv, TypeOK, FilesAt
<1>1. CASE Fails
  BY <1>1 DEF Fails
<1>2. CASE InstallFails
  BY <1>2 DEF InstallFails
<1>3. CASE Crash
  BY <1>3 DEF Crash
<1> QED
  BY <1>1, <1>2, <1>3

\* The file can be read as it was last written, at every moment, unless a failing
\* write fails to move the backup back, too.
THEOREM FileIsNeverLost == ASSUME ~UndoFails PROVE Spec => []NeverLost
<1>1. Init => IInv
  BY InitInv
<1>2. IInv /\ [Next]_vars => IInv'
  <2> SUFFICES ASSUME IInv, [Next]_vars PROVE IInv'
    OBVIOUS
  <2>1. CASE Next
    BY <2>1, ReadInv, WriteInv, FaultInv DEF Next
  <2>2. CASE UNCHANGED vars
    BY <2>2 DEF vars, files, IInv, TypeOK, FilesAt
  <2> QED
    BY <2>1, <2>2
<1>3. IInv => NeverLost
  BY ContentsAssumption DEF IInv, TypeOK, FilesAt, NeverLost, Readable
<1> QED
  BY <1>1, <1>2, <1>3, PTL DEF Spec

-----------------------------------------------------------------------------
(* The update feeds: module FeedPublication. *)

\* What the numbers and names of an instance have to be.
FeedNamed ==
  /\ {FeedMaxVersion, FeedMaxMain, FeedMaxTags, FeedMaxOthers} \subseteq Nat
  /\ None \notin Feeds!Payloads /\ None \notin Feeds!Branches
  /\ None \notin [of : 0..FeedMaxMain, object : 1..FeedMaxTags]

\* A run that has staged or fetched its files has those of its version; past the
\* Release they are the Release's.
DirOK(r) ==
  LET me == feedRun[r] IN
  /\ me.job # "authorize" /\ me.job # "failed" => me.ver \in Feeds!Versions
  /\ me.job \in {"preflight", "release", "current", "legacy", "verify", "completed"} =>
       me.dir \in Feeds!Payloads /\ me.dir.ver = me.ver
  /\ me.job \in {"current", "legacy", "verify", "completed"} => feedRelease[me.ver] = me.dir

\* The checkout a run compares with is a past of the branch, and the branch itself
\* while their heads agree; a run that is about to push may advance it.
BaseOK(r) ==
  LET me == feedRun[r] IN
  me.step \in {"checkout", "commit"} =>
    /\ me.job \in Feeds!Feeds /\ me.base \in Feeds!Branches
    /\ me.base.head <= feedFeed[me.job].head
    /\ me.base.head = feedFeed[me.job].head => me.base = feedFeed[me.job]
    /\ me.step = "commit" => Feeds!MayAdvance(me.base, me.dir) = "advance"

\* Pushes use up versions, so that they and the other commits bound the heads.
HeadsOK == \A f \in Feeds!Feeds : feedFeed[f].head <= FeedMaxOthers + feedFeed[f].shows.ver

\* A Release is of its own version.
ReleasesOK == \A v \in Feeds!Versions : feedRelease[v] # None => feedRelease[v].ver = v

FeedInv ==
  /\ Feeds!TypeOK /\ HeadsOK /\ ReleasesOK /\ Feeds!OffersTheRelease
  /\ \A r \in FeedRuns : DirOK(r) /\ BaseOK(r)

-----------------------------------------------------------------------------

\* At first both feeds show their seed and no run has begun.
LEMMA FeedInit == ASSUME FeedNamed PROVE Feeds!Init => FeedInv
<1> SUFFICES ASSUME Feeds!Init PROVE FeedInv
  OBVIOUS
<1>1. Feeds!Seed \in Feeds!Payloads /\ Feeds!Seed.ver = 0
  BY DEF FeedNamed, Feeds!Seed, Feeds!Payloads
<1>2. [head |-> 0, shows |-> Feeds!Seed, installers |-> {Feeds!Seed}] \in Feeds!Branches
  BY <1>1 DEF FeedNamed, Feeds!Branches, Feeds!Heads
<1>3. Feeds!TypeOK
  BY <1>1, <1>2 DEF Feeds!Init, Feeds!TypeOK, FeedNamed, Feeds!Idle, Feeds!Jobs
<1> QED BY <1>1, <1>3 DEF Feeds!Init, FeedInv, HeadsOK, ReleasesOK, Feeds!OffersTheRelease, DirOK,
   BaseOK, Feeds!Idle, FeedNamed

\* The record of a run.
RunStates == [job : Feeds!Jobs, step : {"start", "authorized", "checkout", "commit"},
              ver : 0..FeedMaxVersion, tag : [of : 0..FeedMaxMain, object : 0..FeedMaxTags],
              dir : Feeds!Payloads \cup {None}, base : Feeds!Branches \cup {None}]

\* A step of one run that leaves the feeds and the Releases alone.
LEMMA RunKeeps ==
  ASSUME FeedNamed, FeedInv, NEW r \in FeedRuns, feedRun'[r] \in RunStates,
         feedRun' = [feedRun EXCEPT ![r] = feedRun'[r]],
         UNCHANGED <<feedMain, feedTags, feedRelease, feedFeed, feedPages>>, DirOK(r)', BaseOK(r)'
  PROVE  FeedInv'
<1>1. feedRun' \in [FeedRuns -> RunStates] /\ \A s \in FeedRuns : s # r => feedRun'[s] = feedRun[s]
  BY DEF FeedInv, Feeds!TypeOK, RunStates
<1>2. Feeds!TypeOK' /\ HeadsOK' /\ ReleasesOK' /\ Feeds!OffersTheRelease'
  BY <1>1 DEF FeedInv, Feeds!TypeOK, RunStates, HeadsOK, ReleasesOK, Feeds!OffersTheRelease
<1>3. ASSUME NEW s \in FeedRuns, s # r PROVE DirOK(s)' /\ BaseOK(s)'
  BY <1>1, <1>3 DEF FeedInv, DirOK, BaseOK
<1> QED BY <1>2, <1>3 DEF FeedInv

\* The world moves: main, the tags, another commit on a feed, Pages.
LEMMA WorldKeeps ==
  ASSUME FeedNamed, FeedInv,
         \/ Feeds!MainAdvances \/ (\E v \in Feeds!Versions : Feeds!Tag(v))
         \/ (\E f \in Feeds!Feeds : Feeds!OtherCommit(f) \/ Feeds!Deploy(f))
  PROVE  FeedInv'
<1> USE DEF FeedNamed
<1>1. CASE Feeds!MainAdvances
  BY <1>1 DEF Feeds!MainAdvances, FeedInv, Feeds!TypeOK, HeadsOK, ReleasesOK, Feeds!OffersTheRelease,
     DirOK, BaseOK
<1>2. ASSUME NEW v \in Feeds!Versions, Feeds!Tag(v) PROVE FeedInv'
  <2>1. Feeds!TypeOK'
    BY <1>2 DEF Feeds!Tag, FeedInv, Feeds!TypeOK
  <2> QED BY <1>2, <2>1 DEF Feeds!Tag, FeedInv, HeadsOK, ReleasesOK, Feeds!OffersTheRelease, DirOK,
     BaseOK
<1>3. ASSUME NEW f \in Feeds!Feeds, Feeds!OtherCommit(f) PROVE FeedInv'
  <2>1. feedFeed[f] \in Feeds!Branches
    BY DEF FeedInv, Feeds!TypeOK
  <2>2. /\ feedFeed' = [feedFeed EXCEPT ![f] = feedFeed'[f]]
        /\ feedFeed'[f] \in Feeds!Branches /\ feedFeed'[f].shows = feedFeed[f].shows
        /\ feedFeed'[f].head = feedFeed[f].head + 1 /\ feedFeed'[f].head <= FeedMaxOthers
    BY <1>3, <2>1 DEF Feeds!OtherCommit, Feeds!Branches, Feeds!Heads, FeedInv, Feeds!TypeOK
  <2>3. Feeds!TypeOK' /\ HeadsOK' /\ ReleasesOK' /\ Feeds!OffersTheRelease'
    <3>1. Feeds!TypeOK'
      BY <1>3, <2>2 DEF Feeds!OtherCommit, FeedInv, Feeds!TypeOK
    <3>2. \A g \in Feeds!Feeds : feedFeed'[g].shows = feedFeed[g].shows /\ feedFeed[g].shows.ver \in Nat
      <4>1. \A g \in Feeds!Feeds : feedFeed[g].shows.ver \in Nat
        BY DEF FeedInv, Feeds!TypeOK, Feeds!Branches, Feeds!Payloads
      <4>2. \A g \in Feeds!Feeds : g # f => feedFeed'[g] = feedFeed[g]
        BY <2>2 DEF FeedInv, Feeds!TypeOK
      <4> QED BY <2>2, <4>1, <4>2
    <3>3. \A g \in Feeds!Feeds : g # f => feedFeed'[g] = feedFeed[g]
      BY <2>2 DEF FeedInv, Feeds!TypeOK
    <3>4. HeadsOK'
      BY <2>1, <2>2, <3>2, <3>3 DEF FeedInv, HeadsOK, Feeds!Branches, Feeds!Heads
    <3>5. ReleasesOK' /\ Feeds!OffersTheRelease'
      BY <1>3, <3>2 DEF Feeds!OtherCommit, FeedInv, ReleasesOK, Feeds!OffersTheRelease
    <3> QED BY <3>1, <3>4, <3>5
  <2>4. ASSUME NEW r \in FeedRuns PROVE DirOK(r)' /\ BaseOK(r)'
    <3>1. DirOK(r)'
      BY <1>3 DEF Feeds!OtherCommit, FeedInv, DirOK
    <3>2. BaseOK(r)'
      BY <1>3, <2>1, <2>2 DEF Feeds!OtherCommit, FeedInv, Feeds!TypeOK, BaseOK,
         Feeds!Branches, Feeds!Heads
    <3> QED BY <3>1, <3>2
  <2> QED BY <2>3, <2>4 DEF FeedInv
<1>4. ASSUME NEW f \in Feeds!Feeds, Feeds!Deploy(f) PROVE FeedInv'
  BY <1>4 DEF Feeds!Deploy, FeedInv, Feeds!TypeOK, HeadsOK, ReleasesOK, Feeds!OffersTheRelease, DirOK,
     BaseOK, Feeds!Branches
<1> QED BY <1>1, <1>2, <1>3, <1>4

\* The jobs of a run up to the Release, and its ends.
LEMMA JobsKeep ==
  ASSUME FeedNamed, FeedInv, NEW r \in FeedRuns, NEW v \in Feeds!Versions,
         \/ Feeds!Authorize(r, v) \/ Feeds!Build(r) \/ Feeds!Preflight(r) \/ Feeds!AuthorizeLegacy(r) \/ Feeds!Verify(r) \/ Feeds!Stop(r)
  PROVE  FeedInv'
<1>0. feedRun[r] \in RunStates /\ DirOK(r) /\ BaseOK(r)
  BY DEF FeedInv, Feeds!TypeOK, RunStates
<1>1. CASE Feeds!Authorize(r, v)
  <2>1. feedTags[v] \in [of : 0..FeedMaxMain, object : 1..FeedMaxTags]
    BY <1>1 DEF Feeds!Authorize, Feeds!Authorizes, FeedInv, Feeds!TypeOK
  <2>2. feedRun'[r] = [feedRun[r] EXCEPT !.job = "build", !.ver = v, !.tag = feedTags[v]]
    BY <1>1 DEF Feeds!Authorize, FeedInv, Feeds!TypeOK
  <2>3. feedRun'[r] \in RunStates
    <3>1. feedTags[v] \in [of : 0..FeedMaxMain, object : 0..FeedMaxTags] /\ v \in 0..FeedMaxVersion
      BY <2>1 DEF Feeds!Versions, FeedNamed
    <3> QED BY <1>0, <2>2, <3>1 DEF RunStates, Feeds!Jobs
  <2>4. DirOK(r)' /\ BaseOK(r)'
    <3>1. feedRun'[r].job = "build" /\ feedRun'[r].ver = v /\ feedRun'[r].step = "start"
      BY <1>0, <1>1, <2>2 DEF Feeds!Authorize, Feeds!At, RunStates
    <3> QED BY <3>1 DEF DirOK, BaseOK
  <2>5. feedRun' = [feedRun EXCEPT ![r] = feedRun'[r]] /\ UNCHANGED <<feedMain, feedTags, feedRelease, feedFeed, feedPages>>
    BY <1>1 DEF Feeds!Authorize, FeedInv, Feeds!TypeOK
  <2> QED BY <2>3, <2>4, <2>5, RunKeeps
<1>2. CASE Feeds!Build(r)
  <2>1. PICK dir \in Feeds!Payloads : /\ feedRun'[r] = [feedRun[r] EXCEPT !.job = "preflight", !.dir = dir]
                                      /\ dir.ver = feedRun[r].ver
    <3>1. feedRun[r].ver \in Feeds!Versions /\ feedRun[r].tag.of \in 0..FeedMaxMain
      BY <1>0, <1>2 DEF Feeds!Build, Feeds!At, DirOK, RunStates
    <3>2. [ver |-> feedRun[r].ver, of |-> feedRun[r].tag.of, by |-> r] \in Feeds!Payloads
      BY <1>0, <3>1 DEF Feeds!Payloads, RunStates
    <3>3. feedRelease[feedRun[r].ver] \in Feeds!Payloads \cup {None}
      BY <3>1 DEF FeedInv, Feeds!TypeOK
    <3> QED BY <1>2, <3>1, <3>2, <3>3 DEF Feeds!Build, FeedInv, Feeds!TypeOK, ReleasesOK
  <2>2. feedRun'[r] \in RunStates
    BY <1>0, <2>1 DEF RunStates, Feeds!Jobs
  <2>3. DirOK(r)' /\ BaseOK(r)'
    <3>1. /\ feedRun'[r].job = "preflight" /\ feedRun'[r].ver = feedRun[r].ver /\ feedRun'[r].step = "start"
          /\ feedRun'[r].dir = dir /\ feedRun[r].ver \in Feeds!Versions
      <4>1. feedRun[r].job = "build" /\ feedRun[r].step = "start"
        BY <1>2 DEF Feeds!Build, Feeds!At
      <4> QED BY <1>0, <2>1, <4>1 DEF RunStates, DirOK
    <3> QED BY <2>1, <3>1 DEF DirOK, BaseOK
  <2>4. feedRun' = [feedRun EXCEPT ![r] = feedRun'[r]] /\ UNCHANGED <<feedMain, feedTags, feedRelease, feedFeed, feedPages>>
    BY <1>2 DEF Feeds!Build, FeedInv, Feeds!TypeOK
  <2> QED BY <2>2, <2>3, <2>4, RunKeeps
<1>3. CASE Feeds!Preflight(r)
  <2>1. feedRun'[r] = [feedRun[r] EXCEPT !.job = "release", !.step = "start"]
    BY <1>3 DEF Feeds!Preflight, Feeds!Goes, FeedInv, Feeds!TypeOK
  <2>2. feedRun'[r] \in RunStates
    BY <1>0, <2>1 DEF RunStates, Feeds!Jobs
  <2>3. DirOK(r)' /\ BaseOK(r)'
    BY <1>0, <1>3, <2>1 DEF Feeds!Preflight, Feeds!At, DirOK, BaseOK, RunStates
  <2>4. feedRun' = [feedRun EXCEPT ![r] = feedRun'[r]] /\ UNCHANGED <<feedMain, feedTags, feedRelease, feedFeed, feedPages>>
    BY <1>3 DEF Feeds!Preflight, Feeds!Goes, FeedInv, Feeds!TypeOK
  <2> QED BY <2>2, <2>3, <2>4, RunKeeps
<1>4. CASE Feeds!AuthorizeLegacy(r)
  <2>1. feedRun'[r] = [feedRun[r] EXCEPT !.job = "legacy", !.step = "authorized"]
    BY <1>4 DEF Feeds!AuthorizeLegacy, Feeds!Goes, FeedInv, Feeds!TypeOK
  <2>2. feedRun'[r] \in RunStates
    BY <1>0, <2>1 DEF RunStates, Feeds!Jobs
  <2>3. DirOK(r)' /\ BaseOK(r)'
    BY <1>0, <1>4, <2>1 DEF Feeds!AuthorizeLegacy, Feeds!At, DirOK, BaseOK, RunStates
  <2>4. feedRun' = [feedRun EXCEPT ![r] = feedRun'[r]] /\ UNCHANGED <<feedMain, feedTags, feedRelease, feedFeed, feedPages>>
    BY <1>4 DEF Feeds!AuthorizeLegacy, Feeds!Goes, FeedInv, Feeds!TypeOK
  <2> QED BY <2>2, <2>3, <2>4, RunKeeps
<1>5. CASE Feeds!Verify(r)
  <2>1. feedRun'[r] = [feedRun[r] EXCEPT !.job = "completed", !.step = "start"]
    BY <1>5 DEF Feeds!Verify, Feeds!Goes, FeedInv, Feeds!TypeOK
  <2>2. feedRun'[r] \in RunStates
    BY <1>0, <2>1 DEF RunStates, Feeds!Jobs
  <2>3. DirOK(r)' /\ BaseOK(r)'
    BY <1>0, <1>5, <2>1 DEF Feeds!Verify, Feeds!At, DirOK, BaseOK, RunStates
  <2>4. feedRun' = [feedRun EXCEPT ![r] = feedRun'[r]] /\ UNCHANGED <<feedMain, feedTags, feedRelease, feedFeed, feedPages>>
    BY <1>5 DEF Feeds!Verify, Feeds!Goes, FeedInv, Feeds!TypeOK
  <2> QED BY <2>2, <2>3, <2>4, RunKeeps
<1>6. CASE Feeds!Stop(r)
  <2>1. feedRun'[r] = [Feeds!Idle EXCEPT !.job = "failed"]
    BY <1>6 DEF Feeds!Stop, FeedInv, Feeds!TypeOK
  <2>2. feedRun'[r] \in RunStates /\ DirOK(r)' /\ BaseOK(r)'
    BY <2>1 DEF RunStates, Feeds!Jobs, Feeds!Idle, DirOK, BaseOK, FeedNamed
  <2>3. feedRun' = [feedRun EXCEPT ![r] = feedRun'[r]] /\ UNCHANGED <<feedMain, feedTags, feedRelease, feedFeed, feedPages>>
    BY <1>6 DEF Feeds!Stop, FeedInv, Feeds!TypeOK
  <2> QED BY <2>2, <2>3, RunKeeps
<1> QED BY <1>1, <1>2, <1>3, <1>4, <1>5, <1>6

\* A Release that is there stays as it is.
LEMMA ReleaseKeeps ==
  ASSUME FeedNamed, FeedInv, NEW r \in FeedRuns, Feeds!Release(r)
  PROVE  FeedInv'
<1>0. /\ feedRun[r] \in RunStates /\ DirOK(r) /\ BaseOK(r)
      /\ feedRun[r].ver \in Feeds!Versions /\ feedRun[r].dir \in Feeds!Payloads /\ feedRun[r].dir.ver = feedRun[r].ver
  BY DEF FeedInv, Feeds!TypeOK, RunStates, Feeds!Release, Feeds!At, DirOK
<1>1. /\ feedRun'[r] = [feedRun[r] EXCEPT !.job = "current", !.step = "start"]
      /\ \A s \in FeedRuns : s # r => feedRun'[s] = feedRun[s]
      /\ UNCHANGED <<feedMain, feedTags, feedFeed, feedPages>>
  BY DEF Feeds!Release, Feeds!Goes, FeedInv, Feeds!TypeOK
<1>2. feedRun'[r] \in RunStates /\ feedRun' \in [FeedRuns -> RunStates]
  BY <1>0, <1>1 DEF RunStates, Feeds!Jobs, Feeds!Release, Feeds!Goes, FeedInv, Feeds!TypeOK
<1>3. /\ feedRelease' \in [Feeds!Versions -> Feeds!Payloads \cup {None}] /\ feedRelease'[feedRun[r].ver] = feedRun[r].dir
      /\ \A v \in Feeds!Versions : feedRelease[v] # None => feedRelease'[v] = feedRelease[v]
  BY <1>0 DEF Feeds!Release, FeedInv, Feeds!TypeOK
<1>4. Feeds!TypeOK' /\ HeadsOK' /\ ReleasesOK'
  <2>1. \A v \in Feeds!Versions : v # feedRun[r].ver => feedRelease'[v] = feedRelease[v]
    BY DEF Feeds!Release, FeedInv, Feeds!TypeOK
  <2>2. ReleasesOK'
    BY <1>0, <1>3, <2>1 DEF FeedInv, ReleasesOK
  <2> QED BY <1>1, <1>2, <1>3, <2>2 DEF FeedInv, Feeds!TypeOK, RunStates, HeadsOK
<1>5. Feeds!OffersTheRelease'
  <2>1. ASSUME NEW f \in Feeds!Feeds, feedFeed[f].shows # Feeds!Seed
        PROVE  feedFeed[f].shows = feedRelease'[feedFeed[f].shows.ver]
    <3>1. feedFeed[f].shows = feedRelease[feedFeed[f].shows.ver] /\ feedFeed[f].shows \in Feeds!Payloads
      BY <2>1 DEF FeedInv, Feeds!OffersTheRelease, Feeds!TypeOK, Feeds!Branches
    <3>2. CASE feedFeed[f].shows.ver = 0
      <4>1. feedFeed[f].shows.ver = feedRun[r].ver \/ feedRelease'[feedFeed[f].shows.ver] = feedRelease[feedFeed[f].shows.ver]
        BY <3>2 DEF Feeds!Release, FeedInv, Feeds!TypeOK
      <4> QED BY <1>0, <3>1, <3>2, <4>1 DEF Feeds!Versions, FeedNamed
    <3>3. CASE feedFeed[f].shows.ver \in Feeds!Versions
      BY <1>3, <3>1, <3>3 DEF FeedNamed
    <3> QED BY <3>1, <3>2, <3>3 DEF Feeds!Payloads, Feeds!Versions, FeedNamed
  <2> QED BY <1>1, <2>1 DEF Feeds!OffersTheRelease
<1>6. ASSUME NEW s \in FeedRuns PROVE DirOK(s)' /\ BaseOK(s)'
  <2>1. CASE s = r
    BY <1>0, <1>1, <1>3, <2>1 DEF DirOK, BaseOK, RunStates
  <2>2. CASE s # r
    <3>1. DirOK(s) /\ BaseOK(s) /\ feedRun'[s] = feedRun[s]
      BY <1>1, <2>2 DEF FeedInv
    <3>2. DirOK(s)'
      BY <1>3, <3>1 DEF DirOK, FeedNamed
    <3>3. BaseOK(s)'
      BY <1>1, <3>1 DEF BaseOK
    <3> QED BY <3>2, <3>3
  <2> QED BY <2>1, <2>2
<1> QED BY <1>4, <1>5, <1>6 DEF FeedInv

\* The comparison of a checkout with the branch, and what it says.
LEMMA CompareKeeps ==
  ASSUME FeedNamed, FeedInv, NEW r \in FeedRuns, NEW f \in Feeds!Feeds,
         Feeds!Checkout(r, f) \/ Feeds!Compare(r, f)
  PROVE  FeedInv'
<1>0. /\ feedRun[r] \in RunStates /\ DirOK(r) /\ BaseOK(r) /\ feedFeed[f] \in Feeds!Branches /\ f \in Feeds!Jobs
      /\ Feeds!JobAfter(f) \in Feeds!Jobs
  BY DEF FeedInv, Feeds!TypeOK, RunStates, Feeds!Feeds, Feeds!Jobs, Feeds!JobAfter
<1>1. CASE Feeds!Checkout(r, f)
  <2>1. feedRun'[r] = [feedRun[r] EXCEPT !.step = "checkout", !.base = feedFeed[f]] /\ feedRun[r].job = f
    BY <1>1 DEF Feeds!Checkout, Feeds!Ready, Feeds!At, FeedInv, Feeds!TypeOK
  <2>2. feedRun'[r] \in RunStates
    BY <1>0, <2>1 DEF RunStates
  <2>3. DirOK(r)' /\ BaseOK(r)'
    <3>1. /\ feedRun'[r].job = f /\ feedRun'[r].ver = feedRun[r].ver /\ feedRun'[r].step = "checkout"
          /\ feedRun'[r].dir = feedRun[r].dir /\ feedRun'[r].base = feedFeed[f]
      BY <1>0, <2>1 DEF RunStates
    <3>2. feedFeed' = feedFeed /\ feedRelease' = feedRelease /\ feedFeed[f].head <= feedFeed[f].head
      BY <1>0, <1>1 DEF Feeds!Checkout, Feeds!Branches, Feeds!Heads
    <3>3. DirOK(r)'
      BY <1>0, <2>1, <3>1, <3>2 DEF DirOK
    <3> QED BY <1>0, <3>1, <3>2, <3>3 DEF BaseOK
  <2>4. feedRun' = [feedRun EXCEPT ![r] = feedRun'[r]] /\ UNCHANGED <<feedMain, feedTags, feedRelease, feedFeed, feedPages>>
    BY <1>1 DEF Feeds!Checkout, FeedInv, Feeds!TypeOK
  <2> QED BY <2>2, <2>3, <2>4, RunKeeps
<1>2. CASE Feeds!Compare(r, f)
  <2>0. feedRun[r].job = f /\ feedRun[r].step = "checkout" /\ UNCHANGED <<feedMain, feedTags, feedRelease, feedFeed, feedPages>>
    BY <1>2 DEF Feeds!Compare, Feeds!At
  <2>1. CASE Feeds!MayAdvance(feedRun[r].base, feedRun[r].dir) = "advance" /\ Feeds!Goes(r, f, "commit")
    <3>1. feedRun'[r] = [feedRun[r] EXCEPT !.job = f, !.step = "commit"] /\ feedRun' = [feedRun EXCEPT ![r] = feedRun'[r]]
      BY <2>1 DEF Feeds!Goes, FeedInv, Feeds!TypeOK
    <3>2. feedRun'[r] \in RunStates
      BY <1>0, <3>1 DEF RunStates
    <3>3. DirOK(r)' /\ BaseOK(r)'
      BY <1>0, <2>0, <2>1, <3>1 DEF DirOK, BaseOK, RunStates, Feeds!MayAdvance
    <3> QED BY <2>0, <3>1, <3>2, <3>3, RunKeeps
  <2>2. CASE Feeds!Published(r, f)
    <3>1. /\ feedRun'[r] = [feedRun[r] EXCEPT !.job = Feeds!JobAfter(f), !.step = "start", !.base = None]
          /\ feedRun' = [feedRun EXCEPT ![r] = feedRun'[r]]
      BY <2>2 DEF Feeds!Published, FeedInv, Feeds!TypeOK
    <3>2. feedRun'[r] \in RunStates
      BY <1>0, <3>1 DEF RunStates
    <3>3. DirOK(r)' /\ BaseOK(r)'
      BY <1>0, <2>0, <3>1 DEF DirOK, BaseOK, RunStates, Feeds!JobAfter, Feeds!Feeds
    <3> QED BY <2>0, <3>1, <3>2, <3>3, RunKeeps
  <2> QED BY <1>2, <2>1, <2>2 DEF Feeds!Compare
<1> QED BY <1>1, <1>2

\* A push advances the branch that the comparison saw, to the files of a Release.
LEMMA PushAdvances ==
  ASSUME FeedNamed, FeedInv, NEW r \in FeedRuns, NEW f \in Feeds!Feeds, Feeds!Push(r, f)
  PROVE  /\ feedFeed'[f].shows = feedRun[r].dir /\ feedFeed'[f].head = feedFeed[f].head + 1
         /\ feedRun[r].dir \in Feeds!Payloads /\ feedFeed[f].shows \in Feeds!Payloads /\ feedRun[r].dir.ver > feedFeed[f].shows.ver
         /\ feedRelease[feedRun[r].dir.ver] = feedRun[r].dir
         /\ feedFeed'[f] \in Feeds!Branches
         /\ \A g \in Feeds!Feeds : g # f => feedFeed'[g] = feedFeed[g]
<1>0. /\ feedRun[r] \in RunStates /\ DirOK(r) /\ BaseOK(r) /\ feedFeed[f] \in Feeds!Branches
      /\ feedRun[r].job = f /\ feedRun[r].step = "commit"
  BY DEF FeedInv, Feeds!TypeOK, RunStates, Feeds!Push, Feeds!At
<1>1. /\ feedRun[r].base = feedFeed[f] /\ feedRun[r].dir \in Feeds!Payloads /\ feedRelease[feedRun[r].dir.ver] = feedRun[r].dir
      /\ Feeds!MayAdvance(feedFeed[f], feedRun[r].dir) = "advance"
  BY <1>0 DEF Feeds!Push, BaseOK, DirOK, Feeds!Feeds
<1>2. feedRun[r].dir.ver > feedFeed[f].shows.ver /\ feedFeed[f].shows \in Feeds!Payloads
  BY <1>0, <1>1 DEF Feeds!MayAdvance, Feeds!Branches
<1>3. feedFeed'[f] = [head |-> feedFeed[f].head + 1, shows |-> feedRun[r].dir,
                  installers |-> feedFeed[f].installers \cup {feedRun[r].dir}]
  BY <1>1 DEF Feeds!Push, FeedInv, Feeds!TypeOK
<1>4. feedFeed[f].head + 1 \in Feeds!Heads
  BY <1>0, <1>1, <1>2 DEF FeedInv, HeadsOK, Feeds!Heads, Feeds!Branches, Feeds!Payloads,
     FeedNamed
<1>5. feedFeed'[f] \in Feeds!Branches
  BY <1>0, <1>1, <1>3, <1>4 DEF Feeds!Branches
<1>6. \A g \in Feeds!Feeds : g # f => feedFeed'[g] = feedFeed[g]
  BY DEF Feeds!Push, FeedInv, Feeds!TypeOK
<1> QED BY <1>1, <1>2, <1>3, <1>5, <1>6

\* So does the invariant survive it: a checkout that was of this branch is now of its past.
LEMMA PushKeeps ==
  ASSUME FeedNamed, FeedInv, NEW r \in FeedRuns, NEW f \in Feeds!Feeds, Feeds!Push(r, f)
  PROVE  FeedInv'
<1>0. /\ feedRun[r] \in RunStates /\ DirOK(r) /\ feedRun[r].job = f /\ feedFeed[f] \in Feeds!Branches
      /\ Feeds!JobAfter(f) \in Feeds!Jobs
  BY DEF FeedInv, Feeds!TypeOK, RunStates, Feeds!Push, Feeds!At, Feeds!Feeds, Feeds!Jobs,
     Feeds!JobAfter
<1>1. /\ feedRun'[r] = [feedRun[r] EXCEPT !.job = Feeds!JobAfter(f), !.step = "start", !.base = None]
      /\ feedRun' \in [FeedRuns -> RunStates] /\ UNCHANGED <<feedMain, feedTags, feedRelease, feedPages>>
      /\ \A s \in FeedRuns : s # r => feedRun'[s] = feedRun[s]
  BY <1>0 DEF Feeds!Push, Feeds!Published, FeedInv, Feeds!TypeOK, RunStates
<1>2. Feeds!TypeOK'
  BY <1>1, PushAdvances DEF Feeds!Push, FeedInv, Feeds!TypeOK, RunStates
<1>3. HeadsOK' /\ ReleasesOK' /\ Feeds!OffersTheRelease'
  BY <1>0, <1>1, PushAdvances DEF FeedInv, HeadsOK, ReleasesOK, Feeds!OffersTheRelease, Feeds!Branches,
     Feeds!Heads, Feeds!Payloads, FeedNamed
<1>4. ASSUME NEW s \in FeedRuns PROVE DirOK(s)' /\ BaseOK(s)'
  <2>1. CASE s = r
    BY <1>0, <1>1, <2>1 DEF DirOK, BaseOK, RunStates, Feeds!JobAfter, Feeds!Feeds
  <2>2. CASE s # r
    <3>1. DirOK(s) /\ BaseOK(s) /\ feedRun'[s] = feedRun[s]
      BY <1>1, <2>2 DEF FeedInv
    <3>2. DirOK(s)'
      BY <1>1, <3>1 DEF DirOK
    <3>3. BaseOK(s)'
      BY <1>0, <3>1, PushAdvances DEF BaseOK, Feeds!Branches, Feeds!Heads
    <3> QED BY <3>2, <3>3
  <2> QED BY <2>1, <2>2
<1> QED BY <1>2, <1>3, <1>4 DEF FeedInv

\* Every step keeps the invariant.
LEMMA NextKeeps == ASSUME FeedNamed, FeedInv, [Feeds!Next]_(Feeds!vars) PROVE FeedInv'
<1>1. CASE UNCHANGED Feeds!vars
  BY <1>1 DEF Feeds!vars, FeedInv, Feeds!TypeOK, HeadsOK, ReleasesOK, Feeds!OffersTheRelease, DirOK,
     BaseOK
<1>2. ASSUME NEW r \in FeedRuns, Feeds!Stop(r) \/ Feeds!Build(r) \/ Feeds!Preflight(r) \/ Feeds!AuthorizeLegacy(r) \/ Feeds!Verify(r)
      PROVE  FeedInv'
  <2>1. CASE Feeds!Versions = {}
    BY <1>2, <2>1 DEF Feeds!Stop, Feeds!Build, Feeds!Preflight, Feeds!AuthorizeLegacy,
       Feeds!Verify, Feeds!At, FeedInv, DirOK
  <2>2. CASE Feeds!Versions # {}
    BY <1>2, <2>2, JobsKeep
  <2> QED BY <2>1, <2>2
<1> QED BY <1>1, <1>2, WorldKeeps, JobsKeep, ReleaseKeeps, CompareKeeps, PushKeeps DEF
   Feeds!Next

\* Only a push changes what a feed shows, and it shows a newer version.
LEMMA FeedsAdvance ==
  ASSUME FeedNamed, FeedInv, [Feeds!Next]_(Feeds!vars), NEW f \in Feeds!Feeds,
         feedFeed'[f].shows # feedFeed[f].shows
  PROVE  feedFeed'[f].shows.ver > feedFeed[f].shows.ver
<1>1. ASSUME NEW g \in Feeds!Feeds, Feeds!OtherCommit(g) PROVE FALSE
  BY <1>1 DEF Feeds!OtherCommit, FeedInv, Feeds!TypeOK, Feeds!Branches
<1>2. PICK r \in FeedRuns, g \in Feeds!Feeds : Feeds!Push(r, g)
  BY <1>1 DEF Feeds!Next, Feeds!vars, Feeds!MainAdvances, Feeds!Tag, Feeds!Deploy,
     Feeds!Authorize, Feeds!Build, Feeds!Preflight, Feeds!Release,
     Feeds!AuthorizeLegacy, Feeds!Verify, Feeds!Stop, Feeds!Checkout, Feeds!Compare
<1> QED BY <1>2, PushAdvances

\* The invariant holds in every reachable state.
LEMMA FeedInvariance == ASSUME FeedNamed PROVE Feeds!Spec => []FeedInv
<1>1. Feeds!Init => FeedInv
  BY FeedInit
<1>2. FeedInv /\ [Feeds!Next]_(Feeds!vars) => FeedInv'
  BY NextKeeps
<1> QED BY <1>1, <1>2, PTL DEF Feeds!Spec

\* Types; the pushes and other commits stay within the heads of the model.
THEOREM FeedsAreTyped == ASSUME FeedNamed PROVE Feeds!Spec => []Feeds!TypeOK
<1>1. FeedInv => Feeds!TypeOK
  BY DEF FeedInv
<1> QED BY <1>1, FeedInvariance, PTL

\* An app is only ever offered the files of an immutable Release.
THEOREM FeedsOfferReleases == ASSUME FeedNamed PROVE Feeds!Spec => []OffersTheRelease
<1>1. FeedInv => OffersTheRelease
  BY DEF FeedInv, OffersTheRelease
<1> QED BY <1>1, FeedInvariance, PTL

\* No feed goes back to an older version or changes the files of the one it offers.
THEOREM FeedsNeverRollBack == ASSUME FeedNamed PROVE Feeds!Spec => NoRollback
<1>1. FeedInv /\ [Feeds!Next]_(Feeds!vars) =>
        [\A f \in Feeds!Feeds : \/ feedFeed'[f].shows = feedFeed[f].shows
                                \/ feedFeed'[f].shows.ver > feedFeed[f].shows.ver]_(Feeds!vars)
  <2> SUFFICES ASSUME FeedInv, [Feeds!Next]_(Feeds!vars)
               PROVE  \A f \in Feeds!Feeds : \/ feedFeed'[f].shows = feedFeed[f].shows
                                             \/ feedFeed'[f].shows.ver > feedFeed[f].shows.ver
    OBVIOUS
  <2> QED BY FeedsAdvance
<1> QED BY <1>1, FeedInvariance, PTL DEF Feeds!Spec, NoRollback, Feeds!NoRollback

-----------------------------------------------------------------------------
(* The approval of the migration: module MigrationApproval. *)

\* There is something to prepare, and None is no manifest.
Prepared == ApprovalRepositories # {} /\ None \notin Approval!Manifests

\* A manifest that the checker accepts whole.
Sound(m) == m.wrong = {} /\ m.ready /\ m.to = m.evidence /\ m.captured = m.snapshot

\* Only sound manifests get a phrase; who reads has read a manifest; and the
\* executor's is one whose phrase was signed.
ApprovalInv ==
  /\ approvalFile \in Approval!Manifests
  /\ approvalChecker \in [read : Approval!Manifests \cup {None}, verified : SUBSET ApprovalRepositories, pinned : BOOLEAN, runs : Nat]
  /\ approvalExecutor \in [read : Approval!Manifests \cup {None}, verified : SUBSET ApprovalRepositories, runs : BOOLEAN]
  /\ approvalChecker.read # None => approvalChecker.read.wrong = {}
  /\ approvalChecker.pinned => approvalChecker.read # None /\ approvalChecker.read.captured = approvalChecker.read.snapshot
  /\ approvalPrinted \subseteq Approval!Manifests /\ \A m \in approvalPrinted : Sound(m)
  /\ approvalSigned \in approvalPrinted \cup {None}
  /\ approvalExecutor.read \in approvalPrinted \cup {None}
  /\ approvalExecutor.read = None => approvalExecutor.verified = {} /\ ~approvalExecutor.runs

\* What is prepared at first is a manifest, and nobody has read one.
LEMMA ApprovalInit == ASSUME Prepared PROVE Approval!Init => ApprovalInv
<1> SUFFICES ASSUME Approval!Init PROVE ApprovalInv
  OBVIOUS
<1>1. Approval!Draft \in Approval!Manifests
  BY DEF Approval!Draft, Approval!Manifests, Approval!Versions, Approval!Sections
<1> QED BY <1>1 DEF Approval!Init, ApprovalInv, Approval!Unread

\* Whatever is edited, a manifest remains a manifest.
LEMMA EditKeeps == ASSUME Prepared, ApprovalInv, Approval!EditManifest PROVE ApprovalInv'
<1>1. ASSUME NEW ready \in BOOLEAN, approvalFile' = [approvalFile EXCEPT !.ready = ready]
      PROVE  approvalFile' \in Approval!Manifests
  BY <1>1 DEF ApprovalInv, Approval!Manifests
<1>2. ASSUME NEW s \in Approval!Sections, approvalFile' = [approvalFile EXCEPT !.wrong = {s}]
      PROVE  approvalFile' \in Approval!Manifests
  BY <1>2 DEF ApprovalInv, Approval!Manifests
<1>3. ASSUME NEW v \in Approval!Versions, approvalFile' = [approvalFile EXCEPT !.captured = v]
      PROVE  approvalFile' \in Approval!Manifests
  BY <1>3 DEF ApprovalInv, Approval!Manifests
<1>4. ASSUME NEW r \in ApprovalRepositories, NEW v \in Approval!Versions,
             approvalFile' \in {[approvalFile EXCEPT !.to[r] = v], [approvalFile EXCEPT !.evidence[r] = v],
                               [approvalFile EXCEPT !.to[r] = v, !.evidence[r] = v]}
      PROVE  approvalFile' \in Approval!Manifests
  <2>1. /\ [approvalFile.to EXCEPT ![r] = v] \in [ApprovalRepositories -> Approval!Versions]
        /\ [approvalFile.evidence EXCEPT ![r] = v] \in [ApprovalRepositories -> Approval!Versions]
    BY DEF ApprovalInv, Approval!Manifests
  <2>2. CASE approvalFile' = [approvalFile EXCEPT !.to[r] = v]
    BY <2>1, <2>2 DEF ApprovalInv, Approval!Manifests
  <2>3. CASE approvalFile' = [approvalFile EXCEPT !.evidence[r] = v]
    BY <2>1, <2>3 DEF ApprovalInv, Approval!Manifests
  <2>4. CASE approvalFile' = [approvalFile EXCEPT !.to[r] = v, !.evidence[r] = v]
    BY <2>1, <2>4 DEF ApprovalInv, Approval!Manifests
  <2> QED BY <1>4, <2>2, <2>3, <2>4
<1>5. approvalFile' \in Approval!Manifests
  BY <1>1, <1>2, <1>3, <1>4 DEF Approval!EditManifest
<1> QED BY <1>5 DEF Approval!EditManifest, ApprovalInv

\* The checker goes on only with a manifest none of whose sections is wrong.
LEMMA CheckerKeeps ==
  ASSUME Prepared, ApprovalInv, NEW r \in ApprovalRepositories,
         Approval!ReadManifest \/ Approval!VerifySnapshot \/ Approval!VerifyRepository(r) \/ Approval!Refuse
  PROVE  ApprovalInv'
<1>1. CASE Approval!ReadManifest
  <2>1. approvalFile.wrong = {}
    BY <1>1 DEF Approval!ReadManifest, Approval!StateIsPinned, Approval!PolicyIsPinned,
       ApprovalInv, Approval!Manifests, Approval!Sections
  <2>2. approvalChecker' = [approvalChecker EXCEPT !.read = approvalFile, !.runs = approvalChecker.runs + 1] /\ ~approvalChecker.pinned
    BY <1>1 DEF Approval!ReadManifest, ApprovalInv
  <2>3. approvalChecker \in [read : Approval!Manifests \cup {None}, verified : SUBSET ApprovalRepositories, pinned : BOOLEAN, runs : Nat]
    BY DEF ApprovalInv
  <2>4. approvalChecker.runs + 1 \in Nat /\ approvalFile \in Approval!Manifests
    BY <2>3 DEF ApprovalInv
  <2>5. /\ approvalChecker' \in [read : Approval!Manifests \cup {None}, verified : SUBSET ApprovalRepositories, pinned : BOOLEAN, runs : Nat]
        /\ approvalChecker'.read = approvalFile /\ ~approvalChecker'.pinned
    BY <2>2, <2>3, <2>4
  <2> QED BY <1>1, <2>1, <2>5 DEF Approval!ReadManifest, ApprovalInv
<1>2. CASE Approval!VerifySnapshot
  BY <1>2 DEF Approval!VerifySnapshot, Approval!MatchesSnapshot, ApprovalInv
<1>3. CASE Approval!VerifyRepository(r)
  BY <1>3 DEF Approval!VerifyRepository, ApprovalInv
<1>4. CASE Approval!Refuse
  BY <1>4 DEF Approval!Refuse, Approval!Unread, ApprovalInv
<1> QED BY <1>1, <1>2, <1>3, <1>4

\* What is printed was read, checked and pinned as one value.
LEMMA PhraseKeeps ==
  ASSUME Prepared, ApprovalInv, Approval!PrintPhrase \/ Approval!Sign
  PROVE  ApprovalInv'
<1>1. CASE Approval!PrintPhrase
  <2>1. approvalChecker.read \in Approval!Manifests /\ Sound(approvalChecker.read)
    BY <1>1 DEF Approval!PrintPhrase, Approval!Checked, Approval!Eligible, ApprovalInv,
       Sound
  <2> QED BY <1>1, <2>1 DEF Approval!PrintPhrase, Approval!Checked, Approval!Unread,
     ApprovalInv
<1>2. CASE Approval!Sign
  BY <1>2 DEF Approval!Sign, ApprovalInv
<1> QED BY <1>1, <1>2

\* The executor takes the manifest whose phrase was signed.
LEMMA ExecutorKeeps ==
  ASSUME Prepared, ApprovalInv, NEW r \in ApprovalRepositories,
         Approval!ReadApproved \/ Approval!VerifyEvidence(r) \/ Approval!Execute \/ Approval!GiveUp
  PROVE  ApprovalInv'
<1>1. CASE Approval!ReadApproved
  BY <1>1 DEF Approval!ReadApproved, ApprovalInv, Prepared
<1>2. CASE Approval!VerifyEvidence(r)
  BY <1>2 DEF Approval!VerifyEvidence, ApprovalInv
<1>3. CASE Approval!Execute
  BY <1>3 DEF Approval!Execute, ApprovalInv, Prepared
<1>4. CASE Approval!GiveUp
  BY <1>4 DEF Approval!GiveUp, ApprovalInv
<1> QED BY <1>1, <1>2, <1>3, <1>4

\* Every step keeps the invariant.
LEMMA ApprovalInvariance == ASSUME Prepared PROVE Approval!Spec => []ApprovalInv
<1>1. Approval!Init => ApprovalInv
  BY ApprovalInit
<1>2. ApprovalInv /\ [Approval!Next]_(Approval!vars) => ApprovalInv'
  <2> SUFFICES ASSUME ApprovalInv, [Approval!Next]_(Approval!vars) PROVE ApprovalInv'
    OBVIOUS
  <2>1. CASE Approval!Recommit \/ Approval!Recapture \/ UNCHANGED Approval!vars
    BY <2>1 DEF Approval!Recommit, Approval!Recapture, Approval!vars, ApprovalInv
  <2>2. PICK r \in ApprovalRepositories : TRUE
    BY DEF Prepared
  <2> QED BY <2>1, <2>2, EditKeeps, CheckerKeeps, PhraseKeeps, ExecutorKeeps DEF
     Approval!Next
<1> QED BY <1>1, <1>2, PTL DEF Approval!Spec

\* The executor runs only a manifest that the checker accepted whole.
THEOREM OnlySoundRuns == ASSUME Prepared PROVE Approval!Spec => []OnlyCheckedRuns
<1>1. ApprovalInv => OnlyCheckedRuns
  BY DEF OnlyCheckedRuns, ApprovalInv, Approval!OnlyCheckedRuns, Sound
<1> QED BY <1>1, ApprovalInvariance, PTL

-----------------------------------------------------------------------------
(* The preparation of the feeds: module FeedPreparation. *)

\* No preparation is None.
PrepNamed == None \notin PrepRuns

\* A capture has the four files of the Release and the first page of the user site.
Captured(s) ==
  /\ s = [release |-> s.release, product |-> s.product, legacy |-> s.legacy, root |-> s.root]
  /\ s.release = [f \in Prep!Current |-> s.release[f]]
  /\ "index.html" \in DOMAIN s.root

PrepStages == {"start", "fresh", "loaded", "canonical", "site", "written", "recorded", "done",
           "cleanup", "failed"}

PrepTyped ==
  /\ prepAt \in [PrepRuns -> PrepStages]
  /\ prepMade \in [PrepRuns -> SUBSET Prep!Outputs]
  /\ prepLoaded = [p \in PrepRuns |-> prepLoaded[p]]
  /\ prepOut = [o \in Prep!Outputs |-> [by |-> prepOut[o].by, holds |-> prepOut[o].holds]]

\* What was read, now or before, is a capture.
SourcesOK ==
  /\ prepSources = Prep!Empty \/ Captured(prepSources)
  /\ \A p \in PrepRuns : prepAt[p] # "start" => Captured(prepSources)

\* A preparation remembers what it made: what is there under its name, and what its
\* place says.
OutputsOK ==
  \A p \in PrepRuns :
    /\ \A o \in Prep!Outputs : o \in prepMade[p] <=> prepOut[o].by = p
    /\ prepAt[p] \in {"start", "fresh", "loaded", "failed"} => prepMade[p] = {}
    /\ prepAt[p] = "canonical" => prepMade[p] = {"canonical"}
    /\ prepAt[p] \in {"site", "written"} => prepMade[p] = {"canonical", "site"}
    /\ prepAt[p] \in {"recorded", "done"} => prepMade[p] = Prep!Outputs

\* The evidence is of the repositories that are there; after the verification these
\* are of the sources that were read last.
EvidenceOK(p) ==
  /\ prepAt[p] \in {"recorded", "done"} =>
       /\ prepOut["evidence"].holds.canonical = prepOut["canonical"].holds
       /\ prepOut["evidence"].holds.site = prepOut["site"].holds
  /\ prepAt[p] = "done" =>
       /\ Captured(prepLoaded[p])
       /\ prepOut["canonical"].holds = Prep!Canonical(prepLoaded[p])
       /\ prepOut["site"].holds = Prep!Site(prepLoaded[p])

PrepInv == PrepTyped /\ SourcesOK /\ OutputsOK /\ \A p \in PrepRuns : EvidenceOK(p)

-----------------------------------------------------------------------------

\* Initially nothing is captured and nothing made.
LEMMA PrepInit == ASSUME PrepNamed, Prep!Init PROVE PrepInv
<1>1. \A o \in Prep!Outputs : prepOut[o].by = None
  BY DEF Prep!Init, Prep!Absent
<1>2. PrepTyped
  BY DEF Prep!Init, Prep!Absent, PrepTyped, PrepStages
<1> QED BY <1>1, <1>2 DEF Prep!Init, PrepNamed, PrepInv, SourcesOK, OutputsOK, EvidenceOK

\* A step that touches no output and nobody's place keeps what is about them.
LEMMA CaptureKeeps == ASSUME PrepInv, Prep!Capture PROVE PrepInv'
<1>1. /\ UNCHANGED <<prepEdits, prepOut, prepAt, prepLoaded, prepMade>>
      /\ prepSources = Prep!Empty /\ prepSources' \in Prep!Captures
  BY DEF Prep!Capture
<1>2. ASSUME NEW s \in Prep!Captures PROVE Captured(s)
  <2>1. /\ s = [release |-> s.release, product |-> s.product, legacy |-> s.legacy, root |-> s.root]
        /\ s.release = Prep!Tree(Prep!Current, 1)
        /\ s.root \in {Prep!Tree({"index.html"} \cup name, 1) : name \in {{}, {"CNAME"}}}
    BY <1>2 DEF Prep!Captures
  <2> QED BY <2>1 DEF Prep!Tree, Captured
<1>3. Captured(prepSources') /\ (prepSources = Prep!Empty \/ Captured(prepSources))'
  BY <1>1, <1>2 DEF Captured
<1>4. SourcesOK'
  BY <1>1, <1>3 DEF SourcesOK, Captured
<1> QED BY <1>1, <1>4 DEF PrepInv, PrepTyped, OutputsOK, EvidenceOK

\* The edited Release still has its files.
LEMMA ReleaseEdited == ASSUME PrepInv, Prep!EditRelease PROVE PrepInv'
<1>1. UNCHANGED <<prepOut, prepAt, prepLoaded, prepMade>> /\ Captured(prepSources)
  BY DEF Prep!EditRelease, PrepInv, SourcesOK
<1>2. PICK f \in Prep!Current, b \in Prep!Bytes : prepSources' = [prepSources EXCEPT !.release[f] = b]
  BY DEF Prep!EditRelease, Prep!Current
<1>3. Captured(prepSources')
  <2>1. prepSources' = [release |-> [prepSources.release EXCEPT ![f] = b], product |-> prepSources.product,
                    legacy |-> prepSources.legacy, root |-> prepSources.root]
    BY <1>1, <1>2 DEF Captured
  <2>2. /\ prepSources'.release = [prepSources.release EXCEPT ![f] = b]
        /\ prepSources'.root = prepSources.root
        /\ prepSources' = [release |-> prepSources'.release, product |-> prepSources'.product,
                       legacy |-> prepSources'.legacy, root |-> prepSources'.root]
    BY <2>1
  <2> QED BY <1>1, <2>2 DEF Captured
<1>4. SourcesOK'
  BY <1>3 DEF SourcesOK, Captured
<1> QED BY <1>1, <1>4 DEF PrepInv, PrepTyped, OutputsOK, EvidenceOK

\* The beginning reads and makes nothing.
LEMMA BeginKeeps ==
  ASSUME PrepInv, NEW p \in PrepRuns, Prep!AssertFresh(p) \/ Prep!Load(p)
  PROVE  PrepInv'
<1>1. /\ UNCHANGED <<prepSources, prepEdits, prepOut, prepMade>>
      /\ Captured(prepSources)
  BY DEF Prep!AssertFresh, Prep!Load, PrepInv, SourcesOK
<1>2. PICK w \in {"fresh", "loaded"} :
            prepAt' = [prepAt EXCEPT ![p] = w] /\ prepAt[p] \in {"start", "fresh"}
  BY DEF Prep!AssertFresh, Prep!Load, Prep!Goes
<1>3. \A q \in PrepRuns : prepAt'[q] = IF q = p THEN w ELSE prepAt[q]
  BY <1>2 DEF PrepInv, PrepTyped
<1>4. \A q \in PrepRuns : q # p => prepLoaded'[q] = prepLoaded[q]
  BY DEF Prep!AssertFresh, Prep!Load, PrepInv, PrepTyped
<1>5. PrepTyped'
  BY <1>1, <1>2 DEF PrepInv, PrepTyped, PrepStages, Prep!AssertFresh, Prep!Load
<1>6. SourcesOK'
  BY <1>1, <1>3 DEF SourcesOK, PrepInv, Captured
<1>7. OutputsOK'
  BY <1>1, <1>2, <1>3 DEF PrepInv, OutputsOK
<1>8. ASSUME NEW q \in PrepRuns PROVE EvidenceOK(q)'
  BY <1>1, <1>3, <1>4 DEF PrepInv, EvidenceOK, Captured
<1> QED BY <1>5, <1>6, <1>7, <1>8 DEF PrepInv

\* What is created was not there, and is its maker's.
LEMMA CreateKeeps ==
  ASSUME PrepNamed, PrepInv, NEW p \in PrepRuns, NEW o \in Prep!Outputs, NEW content, NEW w,
         NEW old \in SUBSET Prep!Outputs, 
         Prep!Create(p, o, content), Prep!Goes(p, w),
         UNCHANGED <<prepSources, prepEdits, prepLoaded>>,
         \/ prepAt[p] = "loaded" /\ w = "canonical" /\ o = "canonical"
         \/ prepAt[p] = "canonical" /\ w = "site" /\ o = "site"
         \/ /\ prepAt[p] = "written" /\ w = "recorded" /\ o = "evidence"
            /\ content.canonical = prepOut["canonical"].holds
            /\ content.site = prepOut["site"].holds
  PROVE  PrepInv'
<1>1. prepAt' = [prepAt EXCEPT ![p] = w] /\ w \in {"canonical", "site", "recorded"}
  BY DEF Prep!Goes
<1>2. /\ prepOut[o].by = None
      /\ prepOut' = [prepOut EXCEPT ![o] = [by |-> p, holds |-> content]]
      /\ prepMade' = [prepMade EXCEPT ![p] = prepMade[p] \cup {o}]
  BY DEF Prep!Create, Prep!Absent
<1>3. \A q \in PrepRuns : prepAt'[q] = IF q = p THEN w ELSE prepAt[q]
  BY <1>1 DEF PrepInv, PrepTyped
<1>4. \A q \in PrepRuns : prepMade'[q] = IF q = p THEN prepMade[p] \cup {o} ELSE prepMade[q]
  BY <1>2 DEF PrepInv, PrepTyped
<1>5. /\ \A x \in Prep!Outputs : x # o => prepOut'[x] = prepOut[x]
      /\ prepOut'[o].by = p /\ prepOut'[o].holds = content
  BY <1>2 DEF PrepInv, PrepTyped
<1>6. PrepTyped'
  <2>1. \A e : e = [by |-> p, holds |-> content] => e = [by |-> e.by, holds |-> e.holds]
    OBVIOUS
  <2>2. prepOut' = [x \in Prep!Outputs |-> [by |-> prepOut'[x].by, holds |-> prepOut'[x].holds]]
    BY <1>2, <2>1 DEF PrepInv, PrepTyped
  <2> QED BY <1>1, <1>2, <2>2 DEF PrepInv, PrepTyped, PrepStages
<1>7. SourcesOK'
  BY <1>3 DEF SourcesOK, PrepInv, Captured
<1>8. OutputsOK'
  BY <1>2, <1>3, <1>4, <1>5 DEF PrepInv, OutputsOK, Prep!Outputs, PrepNamed
<1>9. ASSUME NEW q \in PrepRuns PROVE EvidenceOK(q)'
  <2>1. CASE q = p
    BY <1>3, <1>5, <2>1 DEF PrepInv, EvidenceOK, Prep!Outputs
  <2>2. CASE q # p
    <3>1. prepAt[q] \notin {"recorded", "done"}
      BY <1>2, <2>2 DEF PrepInv, OutputsOK, PrepNamed
    <3> QED BY <1>3, <2>2, <3>1 DEF EvidenceOK
  <2> QED BY <2>1, <2>2
<1> QED BY <1>6, <1>7, <1>8, <1>9 DEF PrepInv

\* Who writes the repositories made both.
LEMMA WriteKeeps ==
  ASSUME PrepNamed, PrepInv, NEW p \in PrepRuns, Prep!WriteRepositories(p)
  PROVE  PrepInv'
<1>1. /\ prepAt[p] = "site" /\ prepAt' = [prepAt EXCEPT ![p] = "written"]
      /\ UNCHANGED <<prepSources, prepEdits, prepLoaded, prepMade>>
  BY DEF Prep!WriteRepositories, Prep!Goes
<1>2. \A q \in PrepRuns : prepAt'[q] = IF q = p THEN "written" ELSE prepAt[q]
  BY <1>1 DEF PrepInv, PrepTyped
<1>3. PICK a, b : prepOut' = [prepOut EXCEPT !["canonical"].holds = a, !["site"].holds = b]
  BY DEF Prep!WriteRepositories
<1>4. /\ \A o \in Prep!Outputs : prepOut'[o].by = prepOut[o].by
      /\ prepOut' = [o \in Prep!Outputs |-> [by |-> prepOut'[o].by, holds |-> prepOut'[o].holds]]
  <2>1. /\ prepOut["canonical"] = [by |-> prepOut["canonical"].by, holds |-> prepOut["canonical"].holds]
        /\ prepOut["site"] = [by |-> prepOut["site"].by, holds |-> prepOut["site"].holds]
        /\ prepOut = [o \in Prep!Outputs |-> prepOut[o]]
        /\ {"canonical", "site"} \subseteq Prep!Outputs
    BY DEF PrepInv, PrepTyped, Prep!Outputs
  <2>2. /\ [prepOut["canonical"] EXCEPT !.holds = a] = [by |-> prepOut["canonical"].by, holds |-> a]
        /\ [prepOut["site"] EXCEPT !.holds = b] = [by |-> prepOut["site"].by, holds |-> b]
    BY <2>1
  <2>3. \A o \in Prep!Outputs :
          prepOut'[o] = IF o = "canonical" THEN [by |-> prepOut["canonical"].by, holds |-> a]
                    ELSE IF o = "site" THEN [by |-> prepOut["site"].by, holds |-> b] ELSE prepOut[o]
    BY <1>3, <2>1, <2>2
  <2>4. \A o \in Prep!Outputs : prepOut[o] = [by |-> prepOut[o].by, holds |-> prepOut[o].holds]
    BY DEF PrepInv, PrepTyped
  <2>5. \A o \in Prep!Outputs :
          /\ prepOut'[o].by = prepOut[o].by
          /\ prepOut'[o] = [by |-> prepOut'[o].by, holds |-> prepOut'[o].holds]
    BY <2>3, <2>4
  <2>6. prepOut' = [o \in Prep!Outputs |-> prepOut'[o]]
    BY <1>3, <2>1
  <2> QED BY <2>5, <2>6
<1>5. PrepTyped'
  BY <1>1, <1>4 DEF PrepInv, PrepTyped, PrepStages
<1>6. SourcesOK'
  BY <1>1, <1>2 DEF SourcesOK, PrepInv, Captured
<1>7. OutputsOK'
  BY <1>1, <1>2, <1>4 DEF PrepInv, OutputsOK
<1>8. ASSUME NEW q \in PrepRuns PROVE EvidenceOK(q)'
  <2>1. prepAt'[q] \notin {"recorded", "done"}
    <3>1. CASE q = p
      BY <1>2, <3>1
    <3>2. CASE q # p
      <4>1. prepOut["site"].by = p
        BY <1>1 DEF PrepInv, OutputsOK, Prep!Outputs
      <4>2. "site" \notin prepMade[q]
        BY <3>2, <4>1 DEF PrepInv, OutputsOK, Prep!Outputs
      <4> QED BY <1>2, <3>2, <4>2 DEF PrepInv, OutputsOK, Prep!Outputs
    <3> QED BY <3>1, <3>2
  <2> QED BY <2>1 DEF EvidenceOK
<1> QED BY <1>5, <1>6, <1>7, <1>8 DEF PrepInv

\* The verification compares the evidence with what the sources give now.
LEMMA VerifyKeeps == ASSUME PrepInv, NEW p \in PrepRuns, Prep!Verify(p) PROVE PrepInv'
<1>1. /\ prepAt[p] = "recorded" /\ prepAt' = [prepAt EXCEPT ![p] = "done"]
      /\ prepLoaded' = [prepLoaded EXCEPT ![p] = prepSources]
      /\ UNCHANGED <<prepSources, prepEdits, prepOut, prepMade>>
      /\ prepOut["evidence"].holds = Prep!Evidence(prepSources, Prep!Canonical(prepSources), Prep!Site(prepSources))
  BY DEF Prep!Verify, Prep!Goes
<1>2. \A q \in PrepRuns : prepAt'[q] = IF q = p THEN "done" ELSE prepAt[q]
  BY <1>1 DEF PrepInv, PrepTyped
<1>3. \A q \in PrepRuns : prepLoaded'[q] = IF q = p THEN prepSources ELSE prepLoaded[q]
  BY <1>1 DEF PrepInv, PrepTyped
<1>4. /\ prepOut["canonical"].holds = Prep!Canonical(prepSources)
      /\ prepOut["site"].holds = Prep!Site(prepSources)
  <2>1. \A c, s : Prep!Evidence(prepSources, c, s).canonical = c /\ Prep!Evidence(prepSources, c, s).site = s
    BY DEF Prep!Evidence
  <2> QED BY <1>1, <2>1 DEF PrepInv, EvidenceOK
<1>5. PrepTyped'
  BY <1>1 DEF PrepInv, PrepTyped, PrepStages
<1>6. SourcesOK'
  BY <1>1, <1>2 DEF SourcesOK, PrepInv, Captured
<1>7. OutputsOK'
  BY <1>1, <1>2 DEF PrepInv, OutputsOK
<1>8. Captured(prepSources)
  BY <1>1 DEF PrepInv, SourcesOK
<1>9. ASSUME NEW q \in PrepRuns PROVE EvidenceOK(q)'
  <2>1. CASE q = p
    <3>1. /\ Prep!Canonical(prepLoaded[q])' = Prep!Canonical(prepSources)
          /\ Prep!Site(prepLoaded[q])' = Prep!Site(prepSources)
      BY <1>3, <2>1 DEF Prep!Canonical, Prep!Site
    <3> QED BY <1>1, <1>3, <1>4, <1>8, <2>1, <3>1 DEF PrepInv, EvidenceOK, Captured
  <2>2. CASE q # p
    <3>1. /\ Prep!Canonical(prepLoaded[q])' = Prep!Canonical(prepLoaded[q])
          /\ Prep!Site(prepLoaded[q])' = Prep!Site(prepLoaded[q])
      BY <1>3, <2>2 DEF Prep!Canonical, Prep!Site
    <3> QED BY <1>1, <1>2, <1>3, <2>2, <3>1 DEF PrepInv, EvidenceOK, Captured
  <2> QED BY <2>1, <2>2
<1> QED BY <1>5, <1>6, <1>7, <1>9 DEF PrepInv

\* Who failed removes what is its own.
LEMMA EndKeeps ==
  ASSUME PrepNamed, PrepInv, NEW p \in PrepRuns, Prep!Fail(p) \/ Prep!Cleanup(p)
  PROVE  PrepInv'
<1>1. UNCHANGED <<prepSources, prepEdits, prepLoaded>> /\ prepAt[p] \notin {"start", "done"}
  BY DEF Prep!Fail, Prep!Cleanup
<1>2. ASSUME NEW w \in {"failed", "cleanup"}, prepAt' = [prepAt EXCEPT ![p] = w],
             UNCHANGED <<prepOut, prepMade>>, 
             w = "failed" => prepMade[p] = {}
      PROVE  PrepInv'
  <2>1. \A q \in PrepRuns : prepAt'[q] = IF q = p THEN w ELSE prepAt[q]
    BY <1>2 DEF PrepInv, PrepTyped
  <2>2. PrepTyped'
    BY <1>1, <1>2 DEF PrepInv, PrepTyped, PrepStages
  <2>3. SourcesOK'
    BY <1>1, <2>1 DEF SourcesOK, PrepInv, Captured
  <2>4. OutputsOK'
    BY <1>2, <2>1 DEF PrepInv, OutputsOK
  <2>5. ASSUME NEW q \in PrepRuns PROVE EvidenceOK(q)'
    <3>1. /\ Prep!Canonical(prepLoaded[q])' = Prep!Canonical(prepLoaded[q])
          /\ Prep!Site(prepLoaded[q])' = Prep!Site(prepLoaded[q])
      BY <1>1 DEF Prep!Canonical, Prep!Site
    <3> QED BY <1>1, <1>2, <2>1, <3>1 DEF PrepInv, EvidenceOK, Captured
  <2> QED BY <2>2, <2>3, <2>4, <2>5 DEF PrepInv
<1>3. CASE Prep!Fail(p)
  <2>1. prepAt[p] = "fresh" => prepMade[p] = {}
    BY DEF PrepInv, OutputsOK
  <2> QED BY <1>2, <1>3, <2>1 DEF Prep!Fail, Prep!Goes
<1>4. CASE Prep!Cleanup(p) /\ prepMade[p] = {}
  BY <1>2, <1>4 DEF Prep!Cleanup, Prep!Goes
<1>5. CASE Prep!Cleanup(p) /\ prepMade[p] # {}
  <2>1. PICK gone \in prepMade[p] :
              /\ prepOut' = [prepOut EXCEPT ![gone] = Prep!Absent]
              /\ prepMade' = [prepMade EXCEPT ![p] = prepMade[p] \ {gone}]
    BY <1>5 DEF Prep!Cleanup
  <2>2. UNCHANGED prepAt /\ prepAt[p] = "cleanup"
    BY <1>5 DEF Prep!Cleanup
  <2>3. gone \in Prep!Outputs /\ prepOut[gone].by = p
    BY <2>1 DEF PrepInv, PrepTyped, OutputsOK
  <2>4. \A q \in PrepRuns : prepMade'[q] = IF q = p THEN prepMade[p] \ {gone} ELSE prepMade[q]
    BY <2>1 DEF PrepInv, PrepTyped
  <2>5. \A x \in Prep!Outputs : IF x = gone THEN prepOut'[x].by = None ELSE prepOut'[x] = prepOut[x]
    BY <2>1, <2>3 DEF PrepInv, PrepTyped, Prep!Absent
  <2>6. PrepTyped'
    <3>1. prepOut' = [o \in Prep!Outputs |-> [by |-> prepOut'[o].by, holds |-> prepOut'[o].holds]]
      BY <2>1, <2>3 DEF PrepInv, PrepTyped, Prep!Absent
    <3> QED BY <1>1, <2>1, <2>2, <3>1 DEF PrepInv, PrepTyped
  <2>7. SourcesOK'
    BY <1>1, <2>2 DEF SourcesOK, PrepInv, Captured
  <2>8. OutputsOK'
    BY <2>2, <2>3, <2>4, <2>5 DEF PrepInv, OutputsOK, PrepNamed
  <2>9. ASSUME NEW q \in PrepRuns PROVE EvidenceOK(q)'
    <3>1. prepAt[q] \notin {"recorded", "done"}
      <4>1. q = p \/ gone \notin prepMade[q]
        BY <2>3 DEF PrepInv, OutputsOK
      <4> QED BY <2>2, <2>3, <4>1 DEF PrepInv, OutputsOK
    <3> QED BY <2>2, <3>1 DEF EvidenceOK
  <2> QED BY <2>6, <2>7, <2>8, <2>9 DEF PrepInv
<1> QED BY <1>3, <1>4, <1>5

\* What both functions give of a capture has the Release, and every asset of either feed.
LEMMA CanonicalHasAll ==
  ASSUME NEW s, Captured(s), NEW feed, feed \in {Prep!Canonical(s), Prep!Site(s).feed}
  PROVE  /\ Prep!Only(feed, Prep!Current) = s.release
         /\ Prep!Only(feed, Prep!History) = Prep!Only(Prep!Over(s.product, s.legacy), Prep!History)
<1> DEFINE c == Prep!Canonical(s)
           old == Prep!History \cup {".nojekyll"}
           assets == Prep!Over(Prep!Only(s.product, old), s.legacy)
<1>1. DOMAIN s.release = Prep!Current /\ s.release = [f \in Prep!Current |-> s.release[f]]
  BY DEF Captured
<1>2. /\ DOMAIN Prep!Only(s.product, old) = DOMAIN s.product \cap old
      /\ \A f \in DOMAIN s.product \cap old : Prep!Only(s.product, old)[f] = s.product[f]
  BY DEF Prep!Only
<1>3. /\ DOMAIN assets = (DOMAIN s.product \cap old) \cup DOMAIN s.legacy
      /\ \A f \in DOMAIN assets :
           assets[f] = IF f \in DOMAIN s.product \cap old THEN s.product[f] ELSE s.legacy[f]
  BY <1>2 DEF Prep!Over
<1>4. /\ DOMAIN c = Prep!Current \cup DOMAIN assets
      /\ \A f \in DOMAIN c : c[f] = IF f \in Prep!Current THEN s.release[f] ELSE assets[f]
  BY <1>1 DEF Prep!Canonical, Prep!Over
<1> HIDE DEF assets, c
<1>5. /\ DOMAIN feed \cap (Prep!Current \cup Prep!History) = DOMAIN c \cap (Prep!Current \cup Prep!History)
      /\ \A f \in DOMAIN feed : feed[f] = c[f]
  <2>1. CASE feed = c
    BY <2>1
  <2>2. CASE feed = Prep!Site(s).feed
    <3>1. feed = Prep!Only(c, DOMAIN c \ {".nojekyll"})
      BY <2>2 DEF Prep!Site, c
    <3>2. ".nojekyll" \notin Prep!Current \cup Prep!History
      BY DEF Prep!Current, Prep!History
    <3> QED BY <3>1, <3>2 DEF Prep!Only
  <2> QED BY <2>1, <2>2 DEF c
<1>6. Prep!Current \cap Prep!History = {}
  BY DEF Prep!Current, Prep!History
<1>7. Prep!Only(feed, Prep!Current) = [f \in Prep!Current |-> s.release[f]]
  <2>1. DOMAIN feed \cap Prep!Current = Prep!Current
    BY <1>4, <1>5
  <2>2. \A f \in Prep!Current : feed[f] = s.release[f]
    BY <1>4, <1>5, <2>1
  <2> QED BY <2>1, <2>2 DEF Prep!Only
<1>8. Prep!Only(feed, Prep!History) = Prep!Only(Prep!Over(s.product, s.legacy), Prep!History)
  <2>1. DOMAIN feed \cap Prep!History = (DOMAIN s.product \cup DOMAIN s.legacy) \cap Prep!History
    BY <1>3, <1>4, <1>5, <1>6
  <2>2. \A f \in DOMAIN feed \cap Prep!History :
          feed[f] = IF f \in DOMAIN s.product THEN s.product[f] ELSE s.legacy[f]
    BY <1>3, <1>4, <1>5, <1>6, <2>1
  <2>3. /\ DOMAIN Prep!Over(s.product, s.legacy) = DOMAIN s.product \cup DOMAIN s.legacy
        /\ \A f \in DOMAIN s.product \cup DOMAIN s.legacy :
             Prep!Over(s.product, s.legacy)[f] = IF f \in DOMAIN s.product THEN s.product[f] ELSE s.legacy[f]
    BY DEF Prep!Over
  <2> QED BY <2>1, <2>2, <2>3 DEF Prep!Only
<1> QED BY <1>1, <1>7, <1>8

\* No page of the user site is lost.
LEMMA SiteHasPages ==
  ASSUME NEW s, Captured(s)
  PROVE  Prep!Site(s).root["index.html"] = s.root["index.html"]
<1>1. Prep!Site(s).root = Prep!Only(s.root, DOMAIN s.root \ {"CNAME"})
  BY DEF Prep!Site
<1> QED BY <1>1 DEF Captured, Prep!Only

\* What a preparation that succeeded leaves offers the Release as it was read last,
\* has every asset of both feeds and is its own alone, however many preparations share
\* the outputs, fail at any step and clean up (prepareFeedMigration,
\* verifyFeedMigration).
THEOREM PreparationsAreComplete == ASSUME PrepNamed PROVE Prep!Spec => []PreparedIsComplete
<1>1. Prep!Init => PrepInv
  BY PrepInit
<1>2. PrepInv /\ [Prep!Next]_(Prep!vars) => PrepInv'
  <2> SUFFICES ASSUME PrepInv, [Prep!Next]_(Prep!vars) PROVE PrepInv'
    OBVIOUS
  <2>1. CASE Prep!Capture \/ Prep!EditRelease
    BY <2>1, CaptureKeeps, ReleaseEdited
  <2>2. ASSUME NEW p \in PrepRuns,
               \/ Prep!AssertFresh(p) \/ Prep!Load(p) \/ Prep!WriteRepositories(p)
               \/ Prep!Verify(p) \/ Prep!Fail(p) \/ Prep!Cleanup(p)
        PROVE  PrepInv'
    BY <2>2, BeginKeeps, WriteKeeps, VerifyKeeps, EndKeeps
  <2>3. ASSUME NEW p \in PrepRuns, Prep!WriteEvidence(p) PROVE PrepInv'
    <3> DEFINE e == Prep!Evidence(prepLoaded[p], prepOut["canonical"].holds, prepOut["site"].holds)
    <3>1. /\ e.canonical = prepOut["canonical"].holds
          /\ e.site = prepOut["site"].holds
      BY DEF Prep!Evidence
    <3>2. /\ prepAt[p] = "written" /\ Prep!Create(p, "evidence", e) /\ Prep!Goes(p, "recorded")
          /\ UNCHANGED <<prepSources, prepEdits, prepLoaded>>
      BY <2>3 DEF Prep!WriteEvidence
    <3> HIDE DEF e
    <3> QED BY <3>1, <3>2, CreateKeeps DEF Prep!Outputs
  <2>4. ASSUME NEW p \in PrepRuns,
               \/ Prep!Claim(p, "canonical", "loaded", "canonical")
               \/ Prep!Claim(p, "site", "canonical", "site")
        PROVE  PrepInv'
    BY <2>4, CreateKeeps DEF Prep!Claim, Prep!Outputs
  <2>5. CASE UNCHANGED Prep!vars
    <3>1. UNCHANGED <<prepSources, prepOut, prepAt, prepLoaded, prepMade>>
      BY <2>5 DEF Prep!vars
    <3>2. ASSUME NEW p \in PrepRuns PROVE EvidenceOK(p)'
      <4>1. /\ Prep!Canonical(prepLoaded[p])' = Prep!Canonical(prepLoaded[p])
            /\ Prep!Site(prepLoaded[p])' = Prep!Site(prepLoaded[p])
        BY <3>1 DEF Prep!Canonical, Prep!Site
      <4> QED BY <3>1, <4>1 DEF PrepInv, EvidenceOK, Captured
    <3> QED BY <3>1, <3>2 DEF PrepInv, PrepTyped, SourcesOK, OutputsOK, Captured
  <2> QED BY <2>1, <2>2, <2>3, <2>4, <2>5 DEF Prep!Next
<1>3. PrepInv => PreparedIsComplete
  <2> SUFFICES ASSUME PrepInv, NEW p \in PrepRuns, prepAt[p] = "done"
               PROVE  LET s == prepLoaded[p]
                          feeds == {prepOut["canonical"].holds, prepOut["site"].holds.feed} IN
                      /\ \A o \in Prep!Outputs : prepOut[o].by = p
                      /\ \A feed \in feeds :
                           /\ Prep!Only(feed, Prep!Current) = s.release
                           /\ Prep!Only(feed, Prep!History) = Prep!Only(Prep!Over(s.product, s.legacy), Prep!History)
                      /\ prepOut["site"].holds.root["index.html"] = s.root["index.html"]
    BY DEF PreparedIsComplete, Prep!PreparedIsComplete
  <2>1. \A o \in Prep!Outputs : prepOut[o].by = p
    BY DEF PrepInv, OutputsOK
  <2>2. /\ Captured(prepLoaded[p])
        /\ prepOut["canonical"].holds = Prep!Canonical(prepLoaded[p])
        /\ prepOut["site"].holds = Prep!Site(prepLoaded[p])
    BY DEF PrepInv, EvidenceOK
  <2> QED BY <2>1, <2>2, CanonicalHasAll, SiteHasPages
<1> QED BY <1>1, <1>2, <1>3, PTL DEF Prep!Spec

-----------------------------------------------------------------------------
(* The agent's processes: module AgentRuntime. *)

\* The cardinality that the instance means is the one of the library.
LEMMA AgentCounts == \A S : Agent!Cardinality(S) = Cardinality(S)
BY DEF Agent!Cardinality, Cardinality

\* No chat has the name of an owner of the server.
AgentNamed == AgentMaxClients \in Nat /\ {"start", "stream", "close"} \cap AgentChats = {}

Owners == AgentChats \cup {"start", "stream", "close"}
ClientStates ==
  [process : {"none", "alive", "exited", "left"}, open : BOOLEAN, closing : BOOLEAN, ending : SUBSET Owners]
StartStates == [stage : {"none", "closing", "initializing", "invalidating", "undoing"}, client : 0..AgentMaxClients]
PromiseStates == [owner : Owners, client : Agent!Clients, ok : BOOLEAN]

AgentTyped ==
  /\ agentClient \in [Agent!Clients -> ClientStates]
  /\ agentRuntimes \in 0..AgentMaxClients
  /\ agentStart \in StartStates
  /\ agentDue \subseteq PromiseStates

\* The stages at which a start has a process of its own.
NewStages == {"initializing", "invalidating", "undoing"}

\* Clients are made one after the other, and there is room for what a start is to make.
MadeOK == \E n \in 0..AgentMaxClients : Agent!Made = 1..n

\* A process that runs is the runtime's or that of the start, and a start that has
\* one begins without a runtime.
AgentHolds ==
  /\ \A c \in Agent!Clients : Agent!Alive(c) => c = agentRuntimes \/ (agentStart.stage \in NewStages /\ c = agentStart.client)
  /\ \A c \in Agent!Clients : agentClient[c].open => c \in Agent!Made
  /\ agentRuntimes # 0 => agentRuntimes \in Agent!Made /\ agentClient[agentRuntimes].process # "left"
  /\ agentStart.stage = "none" => agentStart = Agent!NoStart
  /\ agentStart.stage # "none" => agentStart.client \in Agent!Made /\ agentClient[agentStart.client].process # "left"
  /\ agentStart.stage = "closing" => agentRuntimes \in {0, agentStart.client} /\ Agent!Made # Agent!Clients
  /\ agentStart.stage \in NewStages => agentRuntimes = 0

\* Who is told that a process is gone is told the truth, and the start is told of its
\* own client.
ToldTruly(d) ==
  /\ d.client \in Agent!Made
  /\ IF d.ok THEN ~Agent!Alive(d.client) ELSE agentClient[d.client].process \in {"alive", "left"}
  /\ d.owner = "start" =>
       /\ agentStart.stage \in {"closing", "invalidating", "undoing"}
       /\ agentStart.client = d.client
DueOK == \A d \in agentDue : ToldTruly(d)
EndingOK ==
  \A c \in Agent!Clients :
    /\ agentClient[c].ending # {} => Agent!Alive(c)
    /\ "start" \in agentClient[c].ending =>
         agentStart.stage \in {"invalidating", "undoing"} /\ agentStart.client = c

CancelStates ==
  [stage : {"none", "delivering", "invalidating", "closing", "sent", "unsafe"}, client : 0..AgentMaxClients]

\* A cancellation is of a client that was made.
StopOK ==
  \A t \in AgentChats :
    /\ agentStop[t] = [stage |-> agentStop[t].stage, left |-> agentStop[t].left, turn |-> agentStop[t].turn,
                  client |-> agentStop[t].client]
    /\ agentStop[t].client \in Agent!Made \cup {0}
CancelOK ==
  \A t \in AgentChats :
    agentCancel[t].stage \in {"delivering", "invalidating", "closing"} => agentCancel[t].client \in Agent!Made
Cancels == /\ agentStop = [t \in AgentChats |-> agentStop[t]] /\ StopOK
           /\ agentCancel \in [AgentChats -> CancelStates] /\ CancelOK

Agents == AgentTyped /\ MadeOK /\ AgentHolds /\ DueOK /\ EndingOK
AgentInv == Agents /\ Cancels

-----------------------------------------------------------------------------

\* Initially nothing is made.
LEMMA AgentInit == ASSUME AgentNamed PROVE Agent!Init => AgentInv
<1> SUFFICES ASSUME Agent!Init PROVE AgentInv
  OBVIOUS
<1>1. /\ agentClient \in [Agent!Clients -> ClientStates]
      /\ \A c \in Agent!Clients : agentClient[c].process = "none" /\ agentClient[c].ending = {} /\ ~agentClient[c].open
  BY DEF Agent!Init, ClientStates
<1>2. Agent!Made = 1..0
  BY <1>1 DEF Agent!Made
<1>3. MadeOK
  BY <1>2 DEF MadeOK, AgentNamed
<1>0. Agent!NoStart \in StartStates /\ 0 \in 0..AgentMaxClients
  BY DEF StartStates, Agent!NoStart, AgentNamed
<1>4. AgentTyped
  BY <1>0, <1>1 DEF Agent!Init, AgentTyped
<1>5. AgentHolds /\ DueOK /\ EndingOK
  BY <1>1 DEF Agent!Init, AgentHolds, DueOK, EndingOK, Agent!NoStart, NewStages, Agent!Alive,
     Agent!Made
<1>6. Cancels
  BY <1>0 DEF Agent!Init, Cancels, StopOK, CancelOK, CancelStates, Agent!NoStop, Agent!NoCancel
<1> QED BY <1>3, <1>4, <1>5, <1>6 DEF AgentInv, Agents

-----------------------------------------------------------------------------
(* What the actions do to a client *)

\* Closing a client leaves its process alone; who closes one that is gone is told so.
LEMMA CloseDoes ==
  ASSUME AgentTyped, NEW c \in Agent!Clients, NEW others, Agent!Close(c, others)
  PROVE  /\ agentClient' \in [Agent!Clients -> ClientStates] /\ Agent!Made' = Agent!Made
         /\ \A x \in Agent!Clients : /\ agentClient'[x].process = agentClient[x].process
                                     /\ agentClient'[x].ending = agentClient[x].ending
                                     /\ agentClient'[x].open => agentClient[x].open
         /\ agentDue' = others \/ (~Agent!Alive(c) /\ agentDue' = others \cup {Agent!Due("close", c, TRUE)})
<1>1. /\ agentClient \in [Agent!Clients -> ClientStates]
      /\ agentClient' = [agentClient EXCEPT ![c].open = FALSE, ![c].closing = TRUE]
  BY DEF AgentTyped, Agent!Close
<1>2. /\ agentClient' \in [Agent!Clients -> ClientStates]
      /\ \A x \in Agent!Clients : /\ agentClient'[x].process = agentClient[x].process
                                  /\ agentClient'[x].ending = agentClient[x].ending
                                  /\ agentClient'[x].open => agentClient[x].open
  BY <1>1 DEF ClientStates
<1> QED BY <1>2 DEF Agent!Made, Agent!Close

\* So does invalidating its connection, which the owner is told when the process is gone.
LEMMA InvalidateDoes ==
  ASSUME AgentTyped, NEW c \in Agent!Clients, NEW owner \in Owners, Agent!Invalidate(c, owner)
  PROVE  /\ agentClient' \in [Agent!Clients -> ClientStates] /\ Agent!Made' = Agent!Made
         /\ \A x \in Agent!Clients : /\ agentClient'[x].process = agentClient[x].process
                                     /\ x # c => agentClient'[x].ending = agentClient[x].ending
                                     /\ agentClient'[x].open => agentClient[x].open
         /\ \/ Agent!Alive(c) /\ agentDue' = {} /\ agentClient'[c].ending = agentClient[c].ending \cup {owner}
            \/ ~Agent!Alive(c) /\ agentDue' = {Agent!Due(owner, c, TRUE)} /\ agentClient'[c].ending = agentClient[c].ending
<1> DEFINE ending == IF Agent!Alive(c) THEN agentClient[c].ending \cup {owner} ELSE agentClient[c].ending
<1>1. agentClient \in [Agent!Clients -> ClientStates] /\ ending \in SUBSET Owners
  BY DEF AgentTyped, ClientStates
<1>2. agentClient' = [agentClient EXCEPT ![c].open = FALSE, ![c].ending = ending]
  BY DEF Agent!Invalidate
<1>4. /\ agentClient' \in [Agent!Clients -> ClientStates] /\ agentClient'[c].ending = ending
      /\ \A x \in Agent!Clients : /\ agentClient'[x].process = agentClient[x].process
                                  /\ x # c => agentClient'[x].ending = agentClient[x].ending
                                  /\ agentClient'[x].open => agentClient[x].open
  <2> HIDE DEF ending
  <2> QED BY <1>1, <1>2 DEF ClientStates
<1> QED BY <1>4 DEF Agent!Made, Agent!Invalidate

\* The next client is made, whose number no other has.
LEMMA NewDoes ==
  ASSUME AgentNamed, AgentTyped, MadeOK, EndingOK, Agent!Made # Agent!Clients, Agent!NewClient
  PROVE  \E c \in Agent!Clients \ Agent!Made :
           /\ Agent!Made' = Agent!Made \cup {c}
           /\ MadeOK'
           /\ agentStart' = [stage |-> "initializing", client |-> c]
           /\ agentClient' \in [Agent!Clients -> ClientStates]
           /\ agentClient'[c].process = "alive"
           /\ \A x \in Agent!Clients : /\ agentClient'[x].ending = agentClient[x].ending
                                       /\ x # c => /\ agentClient'[x].process = agentClient[x].process
                                                   /\ agentClient'[x].open = agentClient[x].open
<1>1. PICK n \in 0..AgentMaxClients : Agent!Made = 1..n
  BY DEF MadeOK
<1>2. Cardinality(1..n) = n /\ n < AgentMaxClients
  BY <1>1, FS_Interval DEF Agent!Clients, AgentNamed
<1> DEFINE c == n + 1
<1>3. /\ c \in Agent!Clients \ Agent!Made
      /\ c \in 0..AgentMaxClients
      /\ c = Cardinality(Agent!Made) + 1
  BY <1>1, <1>2 DEF Agent!Clients, AgentNamed
<1>4. /\ agentClient' = [agentClient EXCEPT ![c].process = "alive", ![c].open = TRUE]
      /\ agentStart' = [stage |-> "initializing", client |-> c]
  BY <1>3, AgentCounts DEF Agent!NewClient
<1>5. /\ agentClient' \in [Agent!Clients -> ClientStates] /\ agentClient'[c].process = "alive"
      /\ \A x \in Agent!Clients : /\ agentClient'[x].ending = agentClient[x].ending
                                  /\ x # c => /\ agentClient'[x].process = agentClient[x].process
                                              /\ agentClient'[x].open = agentClient[x].open
  <2> HIDE DEF c
  <2> DEFINE made == [agentClient[c] EXCEPT !.process = "alive", !.open = TRUE]
  <2>1. agentClient \in [Agent!Clients -> ClientStates] /\ c \in Agent!Clients
    BY <1>3 DEF AgentTyped
  <2>2. made \in ClientStates /\ made.process = "alive" /\ made.ending = agentClient[c].ending
    BY <2>1 DEF ClientStates
  <2>3. agentClient' = [agentClient EXCEPT ![c] = made]
    BY <1>4, <2>1
  <2> HIDE DEF made
  <2> QED BY <2>1, <2>2, <2>3
<1>6. Agent!Made' = Agent!Made \cup {c}
  BY <1>3, <1>5 DEF Agent!Made
<1>7. Agent!Made' = 1..c
  BY <1>1, <1>6, <1>3 DEF AgentNamed
<1>8. MadeOK'
  BY <1>3, <1>7 DEF MadeOK
<1> HIDE DEF c
<1> QED BY <1>3, <1>4, <1>5, <1>6, <1>8

\* The runtime's client and that of a start were made.
LEMMA HeldAreClients ==
  ASSUME AgentHolds
  PROVE  /\ agentRuntimes # 0 => agentRuntimes \in Agent!Clients
         /\ agentStart.stage # "none" => agentStart.client \in Agent!Clients
BY DEF AgentHolds, Agent!Made

\* Two promises of the start are one.
LEMMA OneStart ==
  ASSUME AgentTyped, AgentHolds, DueOK, NEW d \in agentDue, NEW e \in agentDue, d.owner = "start",
         e.owner = "start"
  PROVE  d = e
<1>1. /\ d \in PromiseStates
      /\ e \in PromiseStates
  BY DEF AgentTyped
<1>2. d.client = e.client /\ (d.ok <=> e.ok)
  BY DEF DueOK, ToldTruly, AgentHolds, Agent!Alive
<1> QED BY <1>1, <1>2 DEF PromiseStates

\* What a cancellation relies on stays when clients are only added.
LEMMA CancelsStay ==
  ASSUME Cancels, Agent!Made \subseteq Agent!Made', UNCHANGED <<agentStop, agentCancel>>
  PROVE  Cancels'
BY DEF Cancels, StopOK, CancelOK

\* A new client is the only one that runs when none ran.
LEMMA NewClientKeeps ==
  ASSUME AgentNamed, Agents, Agent!Made # Agent!Clients, Agent!NewClient,
         \A c \in Agent!Clients : ~Agent!Alive(c), 
         agentRuntimes' = 0, agentDue' \subseteq agentDue, \A d \in agentDue' : d.owner # "start",
         agentStart.stage \in {"none", "closing"}
  PROVE  Agents' /\ Agent!Made \subseteq Agent!Made'
<1>1. PICK c \in Agent!Clients \ Agent!Made :
        /\ Agent!Made' = Agent!Made \cup {c}
        /\ MadeOK'
        /\ agentStart' = [stage |-> "initializing", client |-> c]
        /\ agentClient' \in [Agent!Clients -> ClientStates] /\ agentClient'[c].process = "alive"
        /\ \A x \in Agent!Clients : /\ agentClient'[x].ending = agentClient[x].ending
                                    /\ x # c => /\ agentClient'[x].process = agentClient[x].process
                                                /\ agentClient'[x].open = agentClient[x].open
  BY NewDoes DEF Agents
<1>2. /\ agentStart'.stage = "initializing"
      /\ agentStart'.client = c
      /\ c \in 0..AgentMaxClients
      /\ agentStart' \in StartStates
  BY <1>1 DEF StartStates, Agent!Clients, AgentNamed
<1>3. AgentTyped'
  BY <1>1, <1>2 DEF Agents, AgentTyped, AgentNamed
<1>4. AgentHolds'
  BY <1>1, <1>2 DEF Agents, AgentHolds, Agent!Alive, NewStages
<1>5. DueOK'
  <2> SUFFICES ASSUME NEW d \in agentDue' PROVE ToldTruly(d)'
    BY DEF DueOK
  <2>1. ToldTruly(d) /\ d.owner # "start" /\ d.client # c /\ d.client \in Agent!Clients
    BY <1>1 DEF Agents, DueOK, ToldTruly, Agent!Made
  <2> QED BY <1>1, <1>2, <2>1 DEF ToldTruly, Agent!Alive, Agents, AgentHolds, Agent!Made
<1>6. EndingOK'
  BY <1>1, <1>2 DEF Agents, EndingOK, Agent!Alive
<1> QED BY <1>1, <1>3, <1>4, <1>5, <1>6 DEF Agents

\* A step that leaves the processes and the start alone keeps the rest when whom it
\* tells is told the truth.
LEMMA AgentsKeep ==
  ASSUME AgentNamed, Agents, UNCHANGED agentStart,
         agentClient' \in [Agent!Clients -> ClientStates], 
         \A x \in Agent!Clients : /\ agentClient'[x].process = agentClient[x].process
                                  /\ agentClient'[x].open => agentClient[x].open,
         agentRuntimes' = agentRuntimes \/ (agentRuntimes' = 0 /\ (agentRuntimes # 0 => ~Agent!Alive(agentRuntimes))),
         agentDue' \subseteq PromiseStates, \A d \in agentDue' : d \in agentDue \/ ToldTruly(d), EndingOK'
  PROVE  Agents' /\ Agent!Made \subseteq Agent!Made'
<1>1. Agent!Made' = Agent!Made /\ \A x \in Agent!Clients : Agent!Alive(x)' <=> Agent!Alive(x)
  BY DEF Agent!Made, Agent!Alive
<1>2. AgentTyped' /\ MadeOK'
  <2>1. agentRuntimes' \in 0..AgentMaxClients /\ agentStart' \in StartStates
    BY DEF Agents, AgentTyped, AgentNamed
  <2> QED BY <1>1, <2>1 DEF Agents, AgentTyped, MadeOK
<1>3. AgentHolds'
  BY <1>1, HeldAreClients DEF Agents, AgentTyped, AgentHolds, AgentNamed
<1>4. DueOK'
  <2> SUFFICES ASSUME NEW d \in agentDue' PROVE ToldTruly(d)'
    BY DEF DueOK
  <2>1. ToldTruly(d) /\ d.client \in Agent!Clients
    BY DEF Agents, DueOK, PromiseStates
  <2> QED BY <1>1, <2>1 DEF ToldTruly
<1> QED BY <1>1, <1>2, <1>3, <1>4 DEF Agents

\* A close by somebody else than the start.
LEMMA CloseKeeps ==
  ASSUME AgentNamed, Agents, NEW c \in Agent!Made, NEW others \in SUBSET agentDue,
         Agent!Close(c, others), UNCHANGED agentStart, 
         agentRuntimes' = agentRuntimes \/ (agentRuntimes' = 0 /\ (agentRuntimes # 0 => ~Agent!Alive(agentRuntimes)))
  PROVE  Agents' /\ Agent!Made \subseteq Agent!Made'
<1>1. c \in Agent!Clients
  BY DEF Agent!Made
<1>2. /\ agentClient' \in [Agent!Clients -> ClientStates] /\ Agent!Made' = Agent!Made
      /\ \A x \in Agent!Clients : /\ agentClient'[x].process = agentClient[x].process
                                  /\ agentClient'[x].ending = agentClient[x].ending
                                  /\ agentClient'[x].open => agentClient[x].open
      /\ agentDue' = others \/ (~Agent!Alive(c) /\ agentDue' = others \cup {Agent!Due("close", c, TRUE)})
  BY <1>1, CloseDoes DEF Agents
<1>3. ~Agent!Alive(c) => Agent!Due("close", c, TRUE) \in PromiseStates /\ ToldTruly(Agent!Due("close", c, TRUE))
  BY <1>1 DEF Agent!Due, PromiseStates, Owners, ToldTruly
<1>4. agentDue' \subseteq PromiseStates /\ \A d \in agentDue' : d \in agentDue \/ ToldTruly(d)
  BY <1>2, <1>3 DEF Agents, AgentTyped
<1>5. EndingOK'
  BY <1>2 DEF Agents, EndingOK, Agent!Alive
<1> QED BY <1>2, <1>4, <1>5, AgentsKeep

-----------------------------------------------------------------------------
(* The process and its connection *)

\* The process exits, which those who await it are told ...
LEMMA ExitsStep ==
  ASSUME AgentNamed, AgentInv, agentDue = {}, NEW c \in Agent!Clients, Agent!Exits(c)
  PROVE  AgentInv'
<1>1. agentClient' = [agentClient EXCEPT ![c].process = "exited", ![c].ending = {}]
  BY DEF Agent!Exits
<1>2. /\ agentClient' \in [Agent!Clients -> ClientStates]
      /\ agentClient'[c].process = "exited" /\ agentClient'[c].ending = {}
      /\ \A x \in Agent!Clients : x # c => agentClient'[x] = agentClient[x]
  BY <1>1 DEF AgentInv, Agents, AgentTyped, ClientStates
<1>3. Agent!Alive(c) /\ agentClient[c].ending \subseteq Owners
  BY DEF Agent!Exits, AgentInv, Agents, AgentTyped, ClientStates
<1>4. Agent!Made' = Agent!Made /\ c \in Agent!Made
  BY <1>2, <1>3 DEF Agent!Made, Agent!Alive
<1>5. \A d \in agentDue' : \E o \in agentClient[c].ending \cup {"close"} : d = Agent!Due(o, c, TRUE)
  BY DEF Agent!Exits
<1>6. \A d \in agentDue' : /\ d \in PromiseStates
                           /\ d.client = c
                           /\ d.ok
                           /\ d.owner \in agentClient[c].ending \cup {"close"}
  <2> TAKE d \in agentDue'
  <2>1. PICK o \in agentClient[c].ending \cup {"close"} : d = [owner |-> o, client |-> c, ok |-> TRUE]
    BY <1>5 DEF Agent!Due
  <2>2. o \in Owners
    BY <1>3 DEF Owners
  <2> QED BY <2>1, <2>2 DEF PromiseStates
<1>7. UNCHANGED <<agentStart, agentRuntimes, agentStop, agentCancel>>
  BY DEF Agent!Exits, Agent!chats
<1>8. AgentTyped' /\ MadeOK'
  BY <1>2, <1>4, <1>6, <1>7 DEF AgentInv, Agents, AgentTyped, MadeOK
<1>9. AgentHolds'
  BY <1>2, <1>4, <1>7, HeldAreClients DEF AgentInv, Agents, AgentHolds, Agent!Alive
<1>10. DueOK'
  <2> SUFFICES ASSUME NEW d \in agentDue' PROVE ToldTruly(d)'
    BY DEF DueOK
  <2>1. /\ d.client = c
        /\ d.ok
        /\ ~Agent!Alive(c)'
        /\ d.owner \in agentClient[c].ending \cup {"close"}
    BY <1>2, <1>6 DEF Agent!Alive
  <2>2. d.owner = "start" => agentStart.stage \in {"invalidating", "undoing"} /\ agentStart.client = c
    BY <2>1 DEF AgentInv, Agents, EndingOK
  <2> QED BY <1>4, <1>7, <2>1, <2>2 DEF ToldTruly
<1>11. EndingOK'
  BY <1>2, <1>4, <1>7 DEF AgentInv, Agents, EndingOK, Agent!Alive
<1> QED BY <1>4, <1>7, <1>8, <1>9, <1>10, <1>11, CancelsStay DEF AgentInv, Agents

\* ... or outlives its termination.
LEMMA SurvivesStep ==
  ASSUME AgentNamed, AgentInv, agentDue = {}, NEW c \in Agent!Clients, Agent!Survives(c)
  PROVE  AgentInv'
<1>0. /\ Agent!Alive(c)
      /\ UNCHANGED <<agentStart, agentRuntimes, agentStop, agentCancel>>
  BY DEF Agent!Survives, AgentNamed, Agent!chats
<1>1. PICK o \in agentClient[c].ending \cup {"close"} :
        /\ agentDue' = {Agent!Due(o, c, FALSE)}
        /\ agentClient' = agentClient \/ agentClient' = [agentClient EXCEPT ![c].ending = @ \ {o}]
  BY DEF Agent!Survives
<1>2. /\ agentClient' \in [Agent!Clients -> ClientStates]
      /\ \A x \in Agent!Clients : /\ agentClient'[x].process = agentClient[x].process
                                  /\ agentClient'[x].open = agentClient[x].open
                                  /\ agentClient'[x].ending \subseteq agentClient[x].ending
  BY <1>1 DEF AgentInv, Agents, AgentTyped, ClientStates
<1>3. /\ o \in Owners
      /\ (o = "start" => agentStart.stage \in {"invalidating", "undoing"} /\ agentStart.client = c)
  BY DEF AgentInv, Agents, AgentTyped, ClientStates, Owners, EndingOK
<1>4. Agent!Due(o, c, FALSE) \in PromiseStates /\ ToldTruly(Agent!Due(o, c, FALSE))
  BY <1>0, <1>3 DEF Agent!Due, PromiseStates, ToldTruly, Agent!Made, Agent!Alive, NewStages
<1>5. EndingOK'
  BY <1>0, <1>2 DEF AgentInv, Agents, EndingOK, Agent!Alive
<1>6. Agents' /\ Agent!Made \subseteq Agent!Made'
  BY <1>0, <1>1, <1>2, <1>4, <1>5, AgentsKeep DEF AgentInv
<1> QED BY <1>0, <1>6, CancelsStay DEF AgentInv

\* Its stream ends.
LEMMA StreamEndsStep ==
  ASSUME AgentNamed, AgentInv, agentDue = {}, NEW c \in Agent!Clients, Agent!StreamEnds(c)
  PROVE  AgentInv'
<1>0. UNCHANGED <<agentStart, agentRuntimes, agentStop, agentCancel>> /\ c \in Agent!Made
  BY DEF Agent!StreamEnds, Agent!chats, Agent!Open, AgentInv, Agents, AgentHolds
<1> DEFINE ending == IF Agent!Alive(c) THEN agentClient[c].ending \cup {"stream"} ELSE agentClient[c].ending
<1>1. /\ agentClient' = [agentClient EXCEPT ![c].open = FALSE, ![c].ending = ending]
      /\ ending \in SUBSET Owners
  BY DEF Agent!StreamEnds, AgentInv, Agents, AgentTyped, ClientStates, Owners
<1>2. /\ agentClient' \in [Agent!Clients -> ClientStates]
      /\ \A x \in Agent!Clients : /\ agentClient'[x].process = agentClient[x].process
                                  /\ agentClient'[x].open => agentClient[x].open
                                  /\ agentClient'[x].ending = IF x = c THEN ending ELSE agentClient[x].ending
  <2> HIDE DEF ending
  <2> QED BY <1>1 DEF AgentInv, Agents, AgentTyped, ClientStates
<1>3. agentDue' \subseteq PromiseStates /\ \A d \in agentDue' : ToldTruly(d)
  <2>1. Agent!Due("stream", c, TRUE) \in PromiseStates
    BY DEF Agent!Due, PromiseStates, Owners
  <2>2. ~Agent!Alive(c) => ToldTruly(Agent!Due("stream", c, TRUE))
    BY <1>0 DEF Agent!Due, ToldTruly
  <2> QED BY <2>1, <2>2 DEF Agent!StreamEnds
<1>4. EndingOK'
  BY <1>0, <1>2 DEF AgentInv, Agents, EndingOK, Agent!Alive
<1>5. Agents' /\ Agent!Made \subseteq Agent!Made'
  BY <1>0, <1>2, <1>3, <1>4, AgentsKeep DEF AgentInv
<1> QED BY <1>0, <1>5, CancelsStay DEF AgentInv

\* A client's end is heard, or the end of its close.
LEMMA HeardStep ==
  ASSUME AgentNamed, AgentInv, NEW d \in agentDue,
         Agent!StreamGone(d) \/ Agent!CloseSettles(d) \/ Agent!RuntimeClosed(d)
  PROVE  AgentInv'
<1>0. d \in PromiseStates /\ ToldTruly(d) /\ d.client \in Agent!Clients
  BY DEF AgentInv, Agents, AgentTyped, DueOK, PromiseStates
<1>1. CASE Agent!StreamGone(d) \/ Agent!RuntimeClosed(d)
  <2>1. /\ UNCHANGED <<agentClient, agentStart>> /\ agentDue' = agentDue \ {d}
        /\ agentRuntimes' = agentRuntimes \/ (agentRuntimes' = 0 /\ (agentRuntimes # 0 => ~Agent!Alive(agentRuntimes)))
    BY <1>0, <1>1 DEF Agent!StreamGone, Agent!OnClose, Agent!RuntimeClosed, ToldTruly
  <2>2. EndingOK'
    BY <2>1 DEF AgentInv, Agents, EndingOK, Agent!Alive
  <2>3. Agents' /\ Agent!Made \subseteq Agent!Made'
    BY <2>1, <2>2, AgentsKeep DEF AgentInv, Agents, AgentTyped
  <2>4. CASE Agent!StreamGone(d)
    BY <2>3, <2>4, CancelsStay DEF Agent!StreamGone, Agent!chats, AgentInv
  <2>5. CASE Agent!RuntimeClosed(d)
    <3>1. UNCHANGED agentStop
      BY <2>5 DEF Agent!RuntimeClosed
    <3>2. /\ agentCancel' \in [AgentChats -> CancelStates]
          /\ \A t \in AgentChats : /\ agentCancel'[t].client = agentCancel[t].client
                                   /\ agentCancel'[t].stage \in {agentCancel[t].stage, "sent", "unsafe"}
      BY <2>5 DEF Agent!RuntimeClosed, AgentInv, Cancels, CancelStates
    <3> QED BY <2>3, <3>1, <3>2 DEF AgentInv, Cancels, StopOK, CancelOK
  <2> QED BY <1>1, <2>4, <2>5
<1>2. CASE Agent!CloseSettles(d)
  <2>1. /\ agentClient' = [agentClient EXCEPT ![d.client].closing = FALSE]
        /\ agentDue' = (agentDue \ {d}) \cup {Agent!Due(o, d.client, d.ok) : o \in Agent!Closers(d.client)}
        /\ UNCHANGED <<agentStart, agentRuntimes, agentStop, agentCancel>>
    BY <1>2 DEF Agent!CloseSettles, Agent!chats
  <2>2. /\ agentClient' \in [Agent!Clients -> ClientStates]
        /\ \A x \in Agent!Clients : /\ agentClient'[x].process = agentClient[x].process
                                    /\ agentClient'[x].open = agentClient[x].open
                                    /\ agentClient'[x].ending = agentClient[x].ending
    BY <2>1, <1>0 DEF AgentInv, Agents, AgentTyped, ClientStates
  <2>3. ASSUME NEW o \in Agent!Closers(d.client)
        PROVE  /\ Agent!Due(o, d.client, d.ok) \in PromiseStates
               /\ ToldTruly(Agent!Due(o, d.client, d.ok))
    BY <1>0 DEF Agent!Closers, Agent!Due, PromiseStates, Owners, ToldTruly, AgentNamed
  <2>4. agentDue' \subseteq PromiseStates /\ \A e \in agentDue' : e \in agentDue \/ ToldTruly(e)
    BY <2>1, <2>3 DEF AgentInv, Agents, AgentTyped
  <2>5. EndingOK'
    BY <2>1, <2>2 DEF AgentInv, Agents, EndingOK, Agent!Alive
  <2>6. Agents' /\ Agent!Made \subseteq Agent!Made'
    BY <2>1, <2>2, <2>4, <2>5, AgentsKeep DEF AgentInv
  <2> QED BY <2>1, <2>6, CancelsStay DEF AgentInv
<1> QED BY <1>1, <1>2

-----------------------------------------------------------------------------
(* The start of a runtime *)

\* The last client of the key is gone: the next one is made.
LEMMA StaleClosedStep ==
  ASSUME AgentNamed, AgentInv, NEW d \in agentDue, Agent!StaleClosed(d)
  PROVE  AgentInv'
<1>1. /\ d.owner = "start" /\ agentStart.stage = "closing" /\ d.ok /\ Agent!NewClient
      /\ agentRuntimes' = (IF agentRuntimes = d.client THEN 0 ELSE agentRuntimes)
      /\ agentDue' = agentDue \ {d}
      /\ UNCHANGED <<agentStop, agentCancel>>
  BY DEF Agent!StaleClosed, Agent!chats
<1>2. /\ agentStart.client = d.client
      /\ ~Agent!Alive(d.client)
      /\ agentRuntimes \in {0, d.client}
      /\ Agent!Made # Agent!Clients
  BY <1>1 DEF AgentInv, Agents, DueOK, ToldTruly, AgentHolds
<1>3. agentRuntimes' = 0 /\ \A c \in Agent!Clients : ~Agent!Alive(c)
  BY <1>1, <1>2 DEF AgentInv, Agents, AgentHolds, NewStages, Agent!Clients
<1>4. \A e \in agentDue' : e.owner # "start"
  BY <1>1, OneStart DEF AgentInv, Agents
<1>5. Agents' /\ Agent!Made \subseteq Agent!Made'
  BY <1>1, <1>2, <1>3, <1>4, NewClientKeeps DEF AgentInv
<1> QED BY <1>1, <1>5, CancelsStay DEF AgentInv

\* A start ends without a runtime; a process of its own is gone by then, or left behind.
LEMMA StartFailsStep ==
  ASSUME AgentNamed, AgentInv, NEW d \in agentDue, Agent!StartFails(d)
  PROVE  AgentInv'
<1> DEFINE left == ~(d.ok \/ agentStart.stage = "closing")
<1>1. /\ d.owner = "start" /\ (agentStart.stage = "closing" \/ agentStart.stage = "undoing")
      /\ agentStart' = Agent!NoStart /\ agentDue' = agentDue \ {d}
      /\ agentClient' = IF left THEN [agentClient EXCEPT ![d.client].process = "left", ![d.client].ending = {}]
                        ELSE agentClient
      /\ UNCHANGED <<agentRuntimes, agentStop, agentCancel>>
  BY DEF Agent!StartFails, Agent!StartEnds
<1>2. /\ agentStart.client = d.client /\ d.client \in Agent!Made
      /\ (d.ok => ~Agent!Alive(agentStart.client))
  BY <1>1 DEF AgentInv, Agents, DueOK, ToldTruly
<1>3. /\ agentClient' \in [Agent!Clients -> ClientStates]
      /\ \A x \in Agent!Clients :
           /\ agentClient'[x].open = agentClient[x].open
           /\ IF left /\ x = d.client THEN agentClient'[x].process = "left" /\ agentClient'[x].ending = {}
              ELSE agentClient'[x].process = agentClient[x].process /\ agentClient'[x].ending = agentClient[x].ending
  <2>1. agentClient \in [Agent!Clients -> ClientStates] /\ d.client \in Agent!Clients /\ {} \in SUBSET Owners
    BY <1>2 DEF AgentInv, Agents, AgentTyped, Agent!Made
  <2> HIDE DEF left
  <2> QED BY <1>1, <2>1 DEF ClientStates
<1>4. /\ Agent!Made' = Agent!Made
      /\ \A x \in Agent!Clients : Agent!Alive(x)' <=> Agent!Alive(x) /\ ~(left /\ x = d.client)
  BY <1>2, <1>3 DEF Agent!Made, Agent!Alive
<1>5. AgentTyped' /\ MadeOK'
  BY <1>1, <1>3, <1>4 DEF AgentInv, Agents, AgentTyped, MadeOK, StartStates, Agent!NoStart, AgentNamed
<1>6. AgentHolds'
  <2>1. ASSUME NEW x \in Agent!Clients, Agent!Alive(x)' PROVE x = agentRuntimes
    BY <1>1, <1>2, <1>4, <2>1 DEF AgentInv, Agents, AgentHolds, NewStages
  <2> QED BY <1>1, <1>3, <1>4, <2>1 DEF AgentInv, Agents, AgentHolds, Agent!NoStart, NewStages
<1>7. DueOK'
  <2> SUFFICES ASSUME NEW e \in agentDue' PROVE ToldTruly(e)'
    BY DEF DueOK
  <2>1. e.owner # "start" /\ ToldTruly(e) /\ e.client \in Agent!Clients
    BY <1>1, OneStart DEF AgentInv, Agents, DueOK, AgentTyped, PromiseStates
  <2> QED BY <1>3, <1>4, <2>1 DEF ToldTruly, Agent!Alive
<1>8. EndingOK'
  BY <1>1, <1>2, <1>3, <1>4 DEF AgentInv, Agents, EndingOK
<1>9. Agents' /\ Agent!Made \subseteq Agent!Made'
  BY <1>4, <1>5, <1>6, <1>7, <1>8 DEF Agents
<1> QED BY <1>1, <1>9, CancelsStay DEF AgentInv

\* It ends with one: the process becomes the runtime's.
LEMMA InitializedStep ==
  ASSUME AgentNamed, AgentInv, agentDue = {}, Agent!Initialized
  PROVE  AgentInv'
<1>1. /\ agentStart.stage = "initializing"
      /\ agentStart' = Agent!NoStart
      /\ agentRuntimes' = agentStart.client
      /\ UNCHANGED <<agentClient, agentDue, agentStop, agentCancel>>
  BY DEF Agent!Initialized, Agent!StartEnds
<1>2. agentStart.client \in Agent!Made /\ agentStart.client \in 0..AgentMaxClients
  BY <1>1 DEF AgentInv, Agents, AgentTyped, StartStates, AgentHolds
<1>3. AgentTyped' /\ MadeOK' /\ Agent!Made' = Agent!Made
  BY <1>1, <1>2 DEF AgentInv, Agents, AgentTyped, MadeOK, Agent!Made, StartStates,
     Agent!NoStart, AgentNamed
<1>4. AgentHolds'
  BY <1>1, <1>2, <1>3 DEF AgentInv, Agents, AgentHolds, Agent!NoStart, NewStages, Agent!Alive,
     Agent!Clients
<1>5. DueOK' /\ EndingOK'
  BY <1>1 DEF AgentInv, Agents, DueOK, EndingOK, Agent!Alive
<1>6. Agents' /\ Agent!Made \subseteq Agent!Made'
  BY <1>3, <1>4, <1>5 DEF Agents
<1> QED BY <1>1, <1>6, CancelsStay DEF AgentInv

\* It is undone: its client is closed ...
LEMMA UndoKeeps ==
  ASSUME AgentNamed, AgentInv, agentStart.stage \in NewStages, NEW others \in SUBSET agentDue,
         Agent!Undo(agentStart.client, others), \A e \in others : e.owner # "start",
         UNCHANGED <<agentRuntimes, agentStop, agentCancel>>
  PROVE  AgentInv'
<1> DEFINE c == agentStart.client
<1>1. c \in Agent!Made /\ c \in Agent!Clients /\ c \in 0..AgentMaxClients
  BY DEF AgentInv, Agents, AgentTyped, StartStates, AgentHolds, NewStages, Agent!Made
<1>2. Agent!Close(c, others) /\ agentStart' = [stage |-> "undoing", client |-> c]
  BY DEF Agent!Undo
<1> HIDE DEF c
<1>3. /\ agentClient' \in [Agent!Clients -> ClientStates] /\ Agent!Made' = Agent!Made
      /\ \A x \in Agent!Clients : /\ agentClient'[x].process = agentClient[x].process
                                  /\ agentClient'[x].ending = agentClient[x].ending
                                  /\ agentClient'[x].open => agentClient[x].open
      /\ agentDue' = others \/ (~Agent!Alive(c) /\ agentDue' = others \cup {Agent!Due("close", c, TRUE)})
  BY <1>1, <1>2, CloseDoes DEF AgentInv, Agents
<1>4. /\ agentStart' \in StartStates
      /\ agentStart'.stage = "undoing"
      /\ agentStart'.client = agentStart.client
  BY <1>1, <1>2 DEF StartStates, c
<1>5. ~Agent!Alive(c) => Agent!Due("close", c, TRUE) \in PromiseStates /\ ToldTruly(Agent!Due("close", c, TRUE))
  BY <1>1 DEF Agent!Due, PromiseStates, Owners, ToldTruly
<1>6. agentDue' \subseteq PromiseStates /\ \A d \in agentDue' : ToldTruly(d) /\ d.owner # "start"
  <2>1. Agent!Due("close", c, TRUE).owner # "start"
    BY DEF Agent!Due
  <2> QED BY <1>3, <1>5, <2>1 DEF AgentInv, Agents, AgentTyped, DueOK
<1>7. AgentTyped' /\ MadeOK'
  BY <1>3, <1>4, <1>6 DEF AgentInv, Agents, AgentTyped, MadeOK
<1>8. AgentHolds'
  BY <1>3, <1>4, HeldAreClients DEF AgentInv, Agents, AgentHolds, NewStages, Agent!Alive
<1>9. DueOK'
  <2> SUFFICES ASSUME NEW d \in agentDue' PROVE ToldTruly(d)'
    BY DEF DueOK
  <2>1. ToldTruly(d) /\ d.owner # "start" /\ d.client \in Agent!Clients
    BY <1>6 DEF PromiseStates
  <2> QED BY <1>3, <1>4, <2>1 DEF ToldTruly, Agent!Alive, NewStages
<1>10. EndingOK'
  BY <1>3, <1>4 DEF AgentInv, Agents, EndingOK, Agent!Alive, NewStages
<1>11. Agents' /\ Agent!Made \subseteq Agent!Made'
  BY <1>3, <1>7, <1>8, <1>9, <1>10 DEF Agents
<1> QED BY <1>11, CancelsStay DEF AgentInv

\* ... at once when its initialization fails, or else after it is terminated.
LEMMA UndoneStep ==
  ASSUME AgentNamed, AgentInv,
         (agentDue = {} /\ Agent!InitializeFails) \/ \E d \in agentDue : Agent!StartInvalidated(d)
  PROVE  AgentInv'
<1>1. CASE agentDue = {} /\ Agent!InitializeFails
  <2>1. /\ agentStart.stage = "initializing" /\ Agent!Undo(agentStart.client, {})
        /\ UNCHANGED <<agentRuntimes, agentStop, agentCancel>>
    BY <1>1 DEF Agent!InitializeFails, Agent!chats
  <2> QED BY <2>1, UndoKeeps DEF NewStages
<1>2. ASSUME NEW d \in agentDue, Agent!StartInvalidated(d)
      PROVE  AgentInv'
  <2>1. /\ d.owner = "start"
        /\ agentStart.stage = "invalidating"
        /\ Agent!Undo(d.client, agentDue \ {d})
        /\ UNCHANGED <<agentRuntimes, agentStop, agentCancel>>
    BY <1>2 DEF Agent!StartInvalidated, Agent!chats
  <2>2. agentStart.stage \in NewStages /\ agentStart.client = d.client
    BY <2>1 DEF AgentInv, Agents, DueOK, ToldTruly, NewStages
  <2>3. \A e \in agentDue \ {d} : e.owner # "start"
    BY <2>1, OneStart DEF AgentInv, Agents
  <2> QED BY <2>1, <2>2, <2>3, UndoKeeps
<1> QED BY <1>1, <1>2

\* Its connection is invalidated when the initialization takes too long.
LEMMA InitializeTimesOutStep ==
  ASSUME AgentNamed, AgentInv, agentDue = {}, Agent!InitializeTimesOut
  PROVE  AgentInv'
<1> DEFINE c == agentStart.client
<1>1. /\ agentStart.stage = "initializing" /\ Agent!Invalidate(c, "start")
      /\ agentStart' = [agentStart EXCEPT !.stage = "invalidating"]
      /\ UNCHANGED <<agentRuntimes, agentStop, agentCancel>>
  BY DEF Agent!InitializeTimesOut, Agent!chats
<1>2. c \in Agent!Made /\ c \in Agent!Clients /\ "start" \in Owners
  BY <1>1 DEF AgentInv, Agents, AgentHolds, Agent!Made, Owners
<1>3. /\ agentStart' \in StartStates
      /\ agentStart'.stage = "invalidating"
      /\ agentStart'.client = c
  BY <1>1 DEF AgentInv, Agents, AgentTyped, StartStates
<1> HIDE DEF c
<1>4. /\ agentClient' \in [Agent!Clients -> ClientStates] /\ Agent!Made' = Agent!Made
      /\ \A x \in Agent!Clients : /\ agentClient'[x].process = agentClient[x].process
                                  /\ x # c => agentClient'[x].ending = agentClient[x].ending
                                  /\ agentClient'[x].open => agentClient[x].open
      /\ \/ Agent!Alive(c) /\ agentDue' = {} /\ agentClient'[c].ending = agentClient[c].ending \cup {"start"}
         \/ ~Agent!Alive(c) /\ agentDue' = {Agent!Due("start", c, TRUE)} /\ agentClient'[c].ending = agentClient[c].ending
  BY <1>1, <1>2, InvalidateDoes DEF AgentInv, Agents
<1>5. ~Agent!Alive(c) => DueOK' /\ agentDue' \subseteq PromiseStates
  <2> SUFFICES ASSUME ~Agent!Alive(c) PROVE DueOK' /\ agentDue' \subseteq PromiseStates
    OBVIOUS
  <2>3. PICK d : d = Agent!Due("start", c, TRUE)
    OBVIOUS
  <2>0. d \in PromiseStates /\ d.client = c /\ d.owner = "start" /\ d.ok
    BY <1>2, <2>3 DEF Agent!Due, PromiseStates
  <2>1. agentDue' = {d}
    BY <1>4, <2>3
  <2>2. ToldTruly(d)'
    BY <1>2, <1>3, <1>4, <2>0, <2>1 DEF ToldTruly, Agent!Alive
  <2> QED BY <2>0, <2>1, <2>2 DEF DueOK
<1>6. AgentTyped' /\ MadeOK' /\ DueOK'
  <2>1. agentRuntimes' \in 0..AgentMaxClients
    BY <1>1 DEF AgentInv, Agents, AgentTyped
  <2>2. DueOK' /\ agentDue' \subseteq PromiseStates
    BY <1>4, <1>5 DEF DueOK
  <2> QED BY <1>3, <1>4, <2>1, <2>2 DEF AgentInv, Agents, AgentTyped, MadeOK
<1>7. AgentHolds'
  BY <1>1, <1>3, <1>4, HeldAreClients DEF AgentInv, Agents, AgentHolds, NewStages, Agent!Alive, c
<1>8. EndingOK'
  BY <1>1, <1>2, <1>3, <1>4 DEF AgentInv, Agents, EndingOK, Agent!Alive
<1>9. Agents' /\ Agent!Made \subseteq Agent!Made'
  BY <1>4, <1>6, <1>7, <1>8 DEF Agents
<1> QED BY <1>1, <1>9, CancelsStay DEF AgentInv

\* A runtime is waited for: it may be closed, or the first client is made.
LEMMA AwaitKeeps ==
  ASSUME AgentNamed, AgentInv, agentDue = {}, Agent!Await, UNCHANGED <<agentStop, agentCancel>>
  PROVE  AgentInv'
<1>1. CASE UNCHANGED <<agentClient, agentDue, agentRuntimes, agentStart>>
  <2>1. Agents' /\ Agent!Made \subseteq Agent!Made'
    BY <1>1 DEF AgentInv, Agents, AgentTyped, MadeOK, AgentHolds, DueOK, EndingOK, ToldTruly,
       Agent!Made, Agent!Alive
  <2> QED BY <2>1, CancelsStay DEF AgentInv
<1>2. CASE /\ agentStart = Agent!NoStart /\ Cardinality(Agent!Made) < AgentMaxClients
           /\ agentRuntimes # 0 /\ Agent!Close(agentRuntimes, {})
           /\ agentStart' = [stage |-> "closing", client |-> agentRuntimes]
           /\ UNCHANGED agentRuntimes
  <2>0. Agent!Made # Agent!Clients
    <3>1. Cardinality(Agent!Clients) = AgentMaxClients
      BY FS_Interval DEF Agent!Clients, AgentNamed
    <3>2. Cardinality(Agent!Made) # AgentMaxClients
      BY <1>2 DEF AgentNamed
    <3> QED BY <3>1, <3>2
  <2>1. /\ agentRuntimes \in Agent!Made
        /\ agentRuntimes \in Agent!Clients
        /\ agentRuntimes \in 0..AgentMaxClients
    BY <1>2 DEF AgentInv, Agents, AgentTyped, AgentHolds, Agent!Made
  <2>2. /\ agentClient' \in [Agent!Clients -> ClientStates] /\ Agent!Made' = Agent!Made
        /\ \A x \in Agent!Clients : /\ agentClient'[x].process = agentClient[x].process
                                    /\ agentClient'[x].ending = agentClient[x].ending
                                    /\ agentClient'[x].open => agentClient[x].open
        /\ agentDue' = {} \/ (~Agent!Alive(agentRuntimes) /\ agentDue' = {} \cup {Agent!Due("close", agentRuntimes, TRUE)})
    BY <1>2, <2>1, CloseDoes DEF AgentInv, Agents
  <2>3. /\ agentStart' \in StartStates
        /\ agentStart'.stage = "closing"
        /\ agentStart'.client = agentRuntimes
        /\ agentStart.stage = "none"
    BY <1>2, <2>1 DEF StartStates, Agent!NoStart
  <2>4. ASSUME agentDue' # {} PROVE DueOK' /\ agentDue' \subseteq PromiseStates
    <3>0. PICK d : d = Agent!Due("close", agentRuntimes, TRUE)
      OBVIOUS
    <3>1. /\ d \in PromiseStates
          /\ d.client = agentRuntimes /\ d.ok /\ d.owner = "close"
      BY <2>1, <3>0 DEF Agent!Due, PromiseStates, Owners
    <3>3. agentDue' = {d} /\ ~Agent!Alive(agentRuntimes)
      BY <2>2, <2>4, <3>0
    <3>2. ToldTruly(d)'
      BY <1>2, <2>1, <2>2, <2>3, <3>1, <3>3 DEF ToldTruly, Agent!Alive, NewStages
    <3> QED BY <3>1, <3>2, <3>3 DEF DueOK
  <2>5. AgentTyped' /\ MadeOK' /\ DueOK'
    <3>1. agentRuntimes' \in 0..AgentMaxClients
      BY <1>2, <2>1
    <3>2. DueOK' /\ agentDue' \subseteq PromiseStates
      BY <2>4 DEF DueOK
    <3> QED BY <2>2, <2>3, <3>1, <3>2 DEF AgentInv, Agents, AgentTyped, MadeOK
  <2>6. AgentHolds'
    BY <1>2, <2>0, <2>1, <2>2, <2>3 DEF AgentInv, Agents, AgentHolds, NewStages, Agent!Alive
  <2>7. EndingOK'
    BY <2>2, <2>3 DEF AgentInv, Agents, EndingOK, Agent!Alive
  <2>8. Agents' /\ Agent!Made \subseteq Agent!Made'
    BY <2>2, <2>5, <2>6, <2>7 DEF Agents
  <2> QED BY <2>8, CancelsStay DEF AgentInv
<1>3. CASE /\ agentStart = Agent!NoStart /\ Cardinality(Agent!Made) < AgentMaxClients
           /\ agentRuntimes = 0 /\ Agent!NewClient /\ UNCHANGED <<agentDue, agentRuntimes>>
  <2>1. Agent!Made # Agent!Clients
    BY <1>3, FS_Interval DEF Agent!Clients, AgentNamed
  <2>2. agentStart.stage = "none" /\ \A c \in Agent!Clients : ~Agent!Alive(c)
    BY <1>3 DEF AgentInv, Agents, AgentHolds, NewStages, Agent!NoStart, Agent!Clients
  <2>3. Agents' /\ Agent!Made \subseteq Agent!Made'
    BY <1>3, <2>1, <2>2, NewClientKeeps DEF AgentInv
  <2> QED BY <2>3, CancelsStay DEF AgentInv
<1> QED BY <1>1, <1>2, <1>3, AgentCounts DEF Agent!Await

-----------------------------------------------------------------------------
(* Stops and cancellations *)

\* A delivery that fails closes its client, one that takes too long invalidates it first.
LEMMA DeliveryFailsStep ==
  ASSUME AgentNamed, AgentInv, NEW t \in AgentChats, Agent!DeliveryFails(t)
  PROVE  AgentInv'
<1>1. /\ agentCancel[t].client \in Agent!Made
      /\ Agent!Close(agentCancel[t].client, {})
      /\ UNCHANGED <<agentStart, agentRuntimes, agentStop>>
      /\ agentCancel' = [agentCancel EXCEPT ![t].stage = "closing"]
  BY DEF Agent!DeliveryFails, AgentInv, Cancels, CancelOK
<1>2. Agents' /\ Agent!Made \subseteq Agent!Made'
  BY <1>1, CloseKeeps DEF AgentInv
<1>3. /\ agentCancel' \in [AgentChats -> CancelStates]
      /\ \A x \in AgentChats : agentCancel'[x].client = agentCancel[x].client /\ (x # t => agentCancel'[x] = agentCancel[x])
  BY <1>1 DEF AgentInv, Cancels, CancelStates
<1> QED BY <1>1, <1>2, <1>3 DEF AgentInv, Cancels, StopOK, CancelOK

\* A delivery that takes too long invalidates the connection before it closes the client.
LEMMA DeliveryTimesOutStep ==
  ASSUME AgentNamed, AgentInv, NEW t \in AgentChats, Agent!DeliveryTimesOut(t)
  PROVE  AgentInv'
<1> DEFINE c == agentCancel[t].client
<1>1. /\ c \in Agent!Made
      /\ c \in Agent!Clients
      /\ Agent!Invalidate(c, t)
      /\ UNCHANGED <<agentStart, agentRuntimes, agentStop>>
      /\ agentCancel' = [agentCancel EXCEPT ![t].stage = "invalidating"]
  BY DEF Agent!DeliveryTimesOut, AgentInv, Cancels, CancelOK, Agent!Made
<1>2. /\ agentCancel' \in [AgentChats -> CancelStates]
      /\ \A x \in AgentChats : agentCancel'[x].client = agentCancel[x].client /\ (x # t => agentCancel'[x] = agentCancel[x])
  BY <1>1 DEF AgentInv, Cancels, CancelStates
<1>3. t \in Owners /\ t # "start"
  BY DEF Owners, AgentNamed
<1> HIDE DEF c
<1>5. /\ agentClient' \in [Agent!Clients -> ClientStates] /\ Agent!Made' = Agent!Made
      /\ \A x \in Agent!Clients : /\ agentClient'[x].process = agentClient[x].process
                                  /\ x # c => agentClient'[x].ending = agentClient[x].ending
                                  /\ agentClient'[x].open => agentClient[x].open
      /\ \/ Agent!Alive(c) /\ agentDue' = {} /\ agentClient'[c].ending = agentClient[c].ending \cup {t}
         \/ ~Agent!Alive(c) /\ agentDue' = {Agent!Due(t, c, TRUE)} /\ agentClient'[c].ending = agentClient[c].ending
  BY <1>1, <1>3, InvalidateDoes DEF AgentInv, Agents
<1>6. /\ Agent!Due(t, c, TRUE) \in PromiseStates
      /\ (~Agent!Alive(c) => ToldTruly(Agent!Due(t, c, TRUE)))
  BY <1>1, <1>3 DEF Agent!Due, PromiseStates, ToldTruly
<1>7. agentDue' \subseteq PromiseStates /\ \A d \in agentDue' : ToldTruly(d)
  BY <1>5, <1>6
<1>8. EndingOK'
  BY <1>1, <1>3, <1>5 DEF AgentInv, Agents, EndingOK, Agent!Alive
<1>9. Agents' /\ Agent!Made \subseteq Agent!Made'
  BY <1>1, <1>5, <1>7, <1>8, AgentsKeep DEF AgentInv
<1> QED BY <1>1, <1>2, <1>9 DEF AgentInv, Cancels, StopOK, CancelOK, c

\* Once the process is gone, or may be left, the client is closed.
LEMMA DeliveryInvalidatedStep ==
  ASSUME AgentNamed, AgentInv, NEW d \in agentDue, Agent!DeliveryInvalidated(d)
  PROVE  AgentInv'
<1> DEFINE t == d.owner
<1>0. d.client \in Agent!Made /\ (d.ok => ~Agent!Alive(d.client))
  BY DEF AgentInv, Agents, DueOK, ToldTruly
<1>1. /\ t \in AgentChats
      /\ agentCancel[t].client \in Agent!Made
      /\ Agent!Close(d.client, agentDue \ {d})
      /\ UNCHANGED <<agentStart, agentStop>>
      /\ agentRuntimes' = agentRuntimes \/ (agentRuntimes' = 0 /\ (agentRuntimes # 0 => ~Agent!Alive(agentRuntimes)))
      /\ agentCancel' = [agentCancel EXCEPT ![t].stage = "closing"]
  BY <1>0 DEF Agent!DeliveryInvalidated, AgentInv, Cancels, CancelOK
<1>2. Agents' /\ Agent!Made \subseteq Agent!Made'
  BY <1>0, <1>1, CloseKeeps DEF AgentInv
<1> HIDE DEF t
<1>3. /\ agentCancel' \in [AgentChats -> CancelStates]
      /\ \A x \in AgentChats : agentCancel'[x].client = agentCancel[x].client /\ (x # t => agentCancel'[x] = agentCancel[x])
  BY <1>1 DEF AgentInv, Cancels, CancelStates
<1> QED BY <1>1, <1>2, <1>3 DEF AgentInv, Cancels, StopOK, CancelOK

\* The client of a stop is the runtime when the turn is to be cancelled.
LEMMA StopGoesOnKeeps ==
  ASSUME AgentNamed, AgentInv, NEW t, NEW s, NEW queue, Agent!StopGoesOn(t, s, queue),
         t \in AgentChats =>
           /\ s = [stage |-> s.stage, left |-> s.left, turn |-> s.turn, client |-> s.client]
           /\ s.client \in Agent!Made \cup {0},
         UNCHANGED <<agentClient, agentStart, agentDue, agentRuntimes, agentCancel>>
  PROVE  AgentInv'
<1>1. Agents' /\ Agent!Made' = Agent!Made
  BY DEF AgentInv, Agents, AgentTyped, MadeOK, AgentHolds, DueOK, EndingOK, ToldTruly,
     Agent!Made, Agent!Alive
<1>2. agentRuntimes \in Agent!Made \cup {0}
  BY DEF AgentInv, Agents, AgentHolds
<1>3. CASE t \in AgentChats
  <2>1. \/ \E id : agentStop' = [agentStop EXCEPT ![t] = [s EXCEPT !.stage = "resolving", !.left = @ \ {id}]]
        \/ agentStop' = [agentStop EXCEPT ![t] = Agent!NoStop]
        \/ \E c \in Agent!Made \cup {0} : agentStop' = [agentStop EXCEPT ![t] = [s EXCEPT !.stage = "stopping", !.client = c]]
    BY <1>2 DEF Agent!StopGoesOn
  <2>2. PICK v : /\ agentStop' = [agentStop EXCEPT ![t] = v]
                 /\ v = [stage |-> v.stage, left |-> v.left, turn |-> v.turn, client |-> v.client]
                 /\ v.client \in Agent!Made \cup {0}
    <3>1. ASSUME NEW id,
                 agentStop' = [agentStop EXCEPT ![t] = [s EXCEPT !.stage = "resolving", !.left = @ \ {id}]]
          PROVE  \E v : /\ agentStop' = [agentStop EXCEPT ![t] = v]
                        /\ v = [stage |-> v.stage, left |-> v.left, turn |-> v.turn, client |-> v.client]
                        /\ v.client \in Agent!Made \cup {0}
      <4> DEFINE v == [s EXCEPT !.stage = "resolving", !.left = @ \ {id}]
      <4>0. s \in [stage : {s.stage}, left : {s.left}, turn : {s.turn}, client : {s.client}]
        BY <1>3
      <4>1. v \in [stage : {"resolving"}, left : {s.left \ {id}}, turn : {s.turn}, client : {s.client}]
        BY <4>0
      <4>2. /\ v = [stage |-> v.stage, left |-> v.left, turn |-> v.turn, client |-> v.client]
            /\ v.client = s.client
        <5> HIDE DEF v
        <5> QED BY <4>1
      <4>3. agentStop' = [agentStop EXCEPT ![t] = v]
        BY <3>1
      <4> HIDE DEF v
      <4> QED BY <1>3, <4>2, <4>3
    <3>2. ASSUME agentStop' = [agentStop EXCEPT ![t] = Agent!NoStop]
          PROVE  \E v : /\ agentStop' = [agentStop EXCEPT ![t] = v]
                        /\ v = [stage |-> v.stage, left |-> v.left, turn |-> v.turn, client |-> v.client]
                        /\ v.client \in Agent!Made \cup {0}
      <4>1. Agent!NoStop.client = 0 /\ Agent!NoStop = [stage |-> Agent!NoStop.stage, left |-> Agent!NoStop.left,
                                                 turn |-> Agent!NoStop.turn, client |-> Agent!NoStop.client]
        BY DEF Agent!NoStop
      <4> QED BY <3>2, <4>1
    <3>3. ASSUME NEW c \in Agent!Made \cup {0},
                 agentStop' = [agentStop EXCEPT ![t] = [s EXCEPT !.stage = "stopping", !.client = c]]
          PROVE  \E v : /\ agentStop' = [agentStop EXCEPT ![t] = v]
                        /\ v = [stage |-> v.stage, left |-> v.left, turn |-> v.turn, client |-> v.client]
                        /\ v.client \in Agent!Made \cup {0}
      <4> DEFINE v == [s EXCEPT !.stage = "stopping", !.client = c]
      <4>0. s \in [stage : {s.stage}, left : {s.left}, turn : {s.turn}, client : {s.client}]
        BY <1>3
      <4>1. v \in [stage : {"stopping"}, left : {s.left}, turn : {s.turn}, client : {c}]
        BY <4>0
      <4>2. /\ v = [stage |-> v.stage, left |-> v.left, turn |-> v.turn, client |-> v.client]
            /\ v.client = c
        <5> HIDE DEF v
        <5> QED BY <4>1
      <4>3. agentStop' = [agentStop EXCEPT ![t] = v]
        BY <3>3
      <4> HIDE DEF v
      <4> QED BY <3>3, <4>2, <4>3
    <3> QED BY <2>1, <3>1, <3>2, <3>3
  <2>3. /\ agentStop' = [x \in AgentChats |-> agentStop'[x]]
        /\ agentStop'[t] = v
        /\ \A x \in AgentChats : x # t => agentStop'[x] = agentStop[x]
    BY <1>3, <2>2 DEF AgentInv, Cancels
  <2>4. StopOK'
    BY <1>1, <2>2, <2>3 DEF AgentInv, Cancels, StopOK
  <2> QED BY <1>1, <2>3, <2>4 DEF AgentInv, Cancels, CancelOK
<1>4. CASE t \notin AgentChats
  <2>1. PICK v : agentStop' = [agentStop EXCEPT ![t] = v]
    BY DEF Agent!StopGoesOn
  <2>2. agentStop' = agentStop
    BY <1>4, <2>1 DEF AgentInv, Cancels
  <2> QED BY <1>1, <2>2, CancelsStay DEF AgentInv
<1> QED BY <1>3, <1>4

\* What a stop becomes without going on is over, or the same but for its stage.
LEMMA StopStays ==
  ASSUME AgentNamed, AgentInv, UNCHANGED <<agentClient, agentStart, agentDue, agentRuntimes,
         agentCancel>>, 
         NEW t, NEW v, agentStop' = [agentStop EXCEPT ![t] = v],
         v = Agent!NoStop \/ \E stage : v = [agentStop[t] EXCEPT !.stage = stage]
  PROVE  AgentInv'
<1>1. Agents' /\ Agent!Made' = Agent!Made
  BY DEF AgentInv, Agents, AgentTyped, MadeOK, AgentHolds, DueOK, EndingOK, ToldTruly,
     Agent!Made, Agent!Alive
<1>2. CASE t \in AgentChats
  <2>1. /\ v = [stage |-> v.stage, left |-> v.left, turn |-> v.turn, client |-> v.client]
        /\ v.client \in Agent!Made \cup {0}
    <3>1. CASE v = Agent!NoStop
      BY <3>1 DEF Agent!NoStop
    <3>2. ASSUME NEW stage, v = [agentStop[t] EXCEPT !.stage = stage]
          PROVE  /\ v = [stage |-> v.stage, left |-> v.left, turn |-> v.turn, client |-> v.client]
                 /\ v.client \in Agent!Made \cup {0}
      <4>1. /\ agentStop[t] = [stage |-> agentStop[t].stage, left |-> agentStop[t].left, turn |-> agentStop[t].turn,
                          client |-> agentStop[t].client]
            /\ agentStop[t].client \in Agent!Made \cup {0}
        BY <1>2 DEF AgentInv, Cancels, StopOK
      <4>2. v = [stage |-> stage, left |-> agentStop[t].left, turn |-> agentStop[t].turn, client |-> agentStop[t].client]
        BY <3>2, <4>1
      <4> QED BY <4>1, <4>2
    <3> QED BY <3>1, <3>2
  <2>2. /\ agentStop' = [x \in AgentChats |-> agentStop'[x]]
        /\ agentStop'[t] = v
        /\ \A x \in AgentChats : x # t => agentStop'[x] = agentStop[x]
    BY <1>2 DEF AgentInv, Cancels
  <2>3. StopOK'
    BY <1>1, <2>1, <2>2 DEF AgentInv, Cancels, StopOK
  <2> QED BY <1>1, <2>2, <2>3 DEF AgentInv, Cancels, CancelOK
<1>3. CASE t \notin AgentChats
  <2>1. agentStop' = agentStop
    BY <1>3 DEF AgentInv, Cancels
  <2> QED BY <1>1, <2>1, CancelsStay DEF AgentInv
<1> QED BY <1>2, <1>3

\* A cancellation that is not sent by a client any more is of no interest.
LEMMA CancelStays ==
  ASSUME AgentNamed, AgentInv, UNCHANGED <<agentClient, agentStart, agentDue, agentRuntimes,
         agentStop>>, 
         NEW t, NEW v, agentCancel' = [agentCancel EXCEPT ![t] = v],
         t \in AgentChats => /\ v \in CancelStates
                             /\ v.stage \in {"delivering", "invalidating", "closing"} => v.client \in Agent!Made
  PROVE  AgentInv'
<1>1. Agents' /\ Agent!Made' = Agent!Made
  BY DEF AgentInv, Agents, AgentTyped, MadeOK, AgentHolds, DueOK, EndingOK, ToldTruly,
     Agent!Made, Agent!Alive
<1>2. /\ agentCancel' \in [AgentChats -> CancelStates]
      /\ \A x \in AgentChats : agentCancel'[x] = IF x = t THEN v ELSE agentCancel[x]
  BY DEF AgentInv, Cancels
<1>3. CancelOK'
  BY <1>1, <1>2 DEF AgentInv, Cancels, CancelOK
<1> QED BY <1>1, <1>2, <1>3 DEF AgentInv, Cancels, StopOK

\* An interrupt begins ...
LEMMA StopStep ==
  ASSUME AgentNamed, AgentInv, NEW t \in AgentChats, Agent!Stop(t)
  PROVE  AgentInv'
<1>1. PICK l, n : /\ Agent!StopGoesOn(t, [Agent!NoStop EXCEPT !.left = l, !.turn = n], agentAppends)
                  /\ UNCHANGED <<agentClient, agentStart, agentDue, agentRuntimes, agentCancel>>
  BY DEF Agent!Stop, Agent!agents
<1> DEFINE s == [Agent!NoStop EXCEPT !.left = l, !.turn = n]
<1>2. s \in [stage : {"none"}, left : {l}, turn : {n}, client : {0}]
  BY DEF Agent!NoStop
<1> HIDE DEF s
<1>3. /\ s = [stage |-> s.stage, left |-> s.left, turn |-> s.turn, client |-> s.client]
      /\ s.client = 0
  BY <1>2
<1> HIDE DEF s
<1> QED BY <1>1, <1>3, StopGoesOnKeeps DEF s

\* ... goes on, and ends.
LEMMA StopResolvedStep ==
  ASSUME AgentNamed, AgentInv, Agent!StopResolved
  PROVE  AgentInv'
<1> DEFINE t == Head(agentAppends).chat
<1>1. /\ Agent!StopGoesOn(t, agentStop[t], Tail(agentAppends))
      /\ UNCHANGED <<agentClient, agentStart, agentDue, agentRuntimes, agentCancel>>
  BY DEF Agent!StopResolved, Agent!agents
<1> HIDE DEF t
<1>2. t \in AgentChats =>
        /\ agentStop[t] = [stage |-> agentStop[t].stage, left |-> agentStop[t].left, turn |-> agentStop[t].turn,
                      client |-> agentStop[t].client]
        /\ agentStop[t].client \in Agent!Made \cup {0}
  BY DEF AgentInv, Cancels, StopOK
<1> QED BY <1>1, <1>2, StopGoesOnKeeps

\* What a stop waited for is written, or its own end is.
LEMMA StopEndsStep ==
  ASSUME AgentNamed, AgentInv, Agent!Ended \/ \E t \in AgentChats : Agent!Flushed(t)
  PROVE  AgentInv'
<1>1. /\ UNCHANGED <<agentClient, agentStart, agentDue, agentRuntimes, agentCancel>>
      /\ \/ UNCHANGED agentStop
         \/ \E t : agentStop' = [agentStop EXCEPT ![t] = Agent!NoStop]
         \/ \E t : agentStop' = [agentStop EXCEPT ![t].stage = "ending"]
  BY DEF Agent!Ended, Agent!Flushed, Agent!agents
<1>2. CASE UNCHANGED agentStop
  <2>1. Agents' /\ Agent!Made' = Agent!Made
    BY <1>1 DEF AgentInv, Agents, AgentTyped, MadeOK, AgentHolds, DueOK, EndingOK, ToldTruly,
       Agent!Made, Agent!Alive
  <2> QED BY <1>1, <1>2, <2>1, CancelsStay DEF AgentInv
<1>3. ASSUME NEW t, agentStop' = [agentStop EXCEPT ![t] = Agent!NoStop] PROVE AgentInv'
  BY <1>1, <1>3, StopStays
<1>4. ASSUME NEW t, agentStop' = [agentStop EXCEPT ![t].stage = "ending"] PROVE AgentInv'
  BY <1>1, <1>4, StopStays
<1> QED BY <1>1, <1>2, <1>3, <1>4

\* A cancellation begins, reaches the agent, and is over.
LEMMA StoppingStep ==
  ASSUME AgentNamed, AgentInv, Agent!Stopping
  PROVE  AgentInv'
<1> DEFINE t == Head(agentAppends).chat
           c == agentStop[t].client
<1>1. /\ \/ c = 0 /\ agentCancel' = [agentCancel EXCEPT ![t].stage = "sent"]
         \/ c # 0 /\ agentCancel' = [agentCancel EXCEPT ![t] = [stage |-> "delivering", client |-> c]]
      /\ agentStop' = [agentStop EXCEPT ![t].stage = "flushing"]
      /\ UNCHANGED <<agentClient, agentStart, agentDue, agentRuntimes>>
  BY DEF Agent!Stopping, Agent!agents
<1> HIDE DEF t
<1>2. CASE t \notin AgentChats
  <2>1. agentStop' = agentStop /\ agentCancel' = agentCancel
    BY <1>1, <1>2 DEF AgentInv, Cancels
  <2>2. Agents' /\ Agent!Made' = Agent!Made
    BY <1>1 DEF AgentInv, Agents, AgentTyped, MadeOK, AgentHolds, DueOK, EndingOK, ToldTruly,
       Agent!Made, Agent!Alive
  <2> QED BY <2>1, <2>2, CancelsStay DEF AgentInv
<1>3. CASE t \in AgentChats
  <2>1. /\ agentStop[t] = [stage |-> agentStop[t].stage, left |-> agentStop[t].left, turn |-> agentStop[t].turn,
                      client |-> agentStop[t].client]
        /\ c \in Agent!Made \cup {0} /\ agentCancel[t] \in CancelStates
    BY <1>3 DEF AgentInv, Cancels, StopOK
  <2>2. /\ \A x \in AgentChats : agentStop'[x].client = agentStop[x].client
        /\ agentStop' = [x \in AgentChats |-> agentStop'[x]]
        /\ \A x \in AgentChats : agentStop'[x] = [stage |-> agentStop'[x].stage, left |-> agentStop'[x].left, turn |-> agentStop'[x].turn,
                                        client |-> agentStop'[x].client]
    BY <1>1, <1>3, <2>1 DEF AgentInv, Cancels, StopOK
  <2>3. PICK v \in CancelStates : /\ agentCancel' = [agentCancel EXCEPT ![t] = v]
                                  /\ v.stage = "sent" \/ (v.stage = "delivering" /\ v.client \in Agent!Made)
    <3>1. CASE c = 0
      <4> DEFINE v == [agentCancel[t] EXCEPT !.stage = "sent"]
      <4>1. v \in CancelStates /\ v.stage = "sent"
        BY <2>1 DEF CancelStates
      <4> QED BY <1>1, <3>1, <4>1
    <3>2. CASE c # 0
      <4>1. c \in Agent!Made /\ c \in 0..AgentMaxClients
        BY <2>1, <3>2 DEF Agent!Made, Agent!Clients, AgentNamed
      <4> HIDE DEF c
      <4> DEFINE v == [stage |-> "delivering", client |-> c]
      <4>2. v \in CancelStates /\ v.stage = "delivering" /\ v.client = c
        BY <4>1 DEF CancelStates
      <4> QED BY <1>1, <3>2, <4>1, <4>2
    <3> QED BY <3>1, <3>2
  <2>4. /\ agentCancel' \in [AgentChats -> CancelStates]
        /\ \A x \in AgentChats : agentCancel'[x] = IF x = t THEN v ELSE agentCancel[x]
    BY <2>3 DEF AgentInv, Cancels
  <2>5. Agents' /\ Agent!Made' = Agent!Made
    BY <1>1 DEF AgentInv, Agents, AgentTyped, MadeOK, AgentHolds, DueOK, EndingOK, ToldTruly,
       Agent!Made, Agent!Alive
  <2> QED BY <2>2, <2>3, <2>4, <2>5 DEF AgentInv, Cancels, StopOK, CancelOK
<1> QED BY <1>2, <1>3

\* The steps of a cancellation.
LEMMA CancelStep ==
  ASSUME AgentNamed, AgentInv, NEW t \in AgentChats,
         Agent!Delivered(t) \/ Agent!CancelSettles(t)
  PROVE  AgentInv'
<1>1. /\ UNCHANGED <<agentClient, agentStart, agentDue, agentRuntimes, agentStop>>
      /\ agentCancel' = [agentCancel EXCEPT ![t].stage = "sent"] \/ agentCancel' = [agentCancel EXCEPT ![t] = Agent!NoCancel]
  BY DEF Agent!Delivered, Agent!CancelSettles, Agent!agents
<1>2. /\ [agentCancel[t] EXCEPT !.stage = "sent"] \in CancelStates
      /\ [agentCancel[t] EXCEPT !.stage = "sent"].stage = "sent"
  BY DEF AgentInv, Cancels, CancelStates
<1>3. Agent!NoCancel \in CancelStates /\ Agent!NoCancel.stage = "none"
  BY DEF Agent!NoCancel, CancelStates, AgentNamed
<1> QED BY <1>1, <1>2, <1>3, CancelStays

-----------------------------------------------------------------------------
(* The theorem *)

\* Every step keeps the invariant.
LEMMA AgentNextKeeps ==
  ASSUME AgentNamed, AgentInv, Agent!Next
  PROVE  AgentInv'
<1>1. ASSUME NEW d \in agentDue, Agent!Resumed(d) PROVE AgentInv'
  BY <1>1, HeardStep, StaleClosedStep, StartFailsStep, UndoneStep, DeliveryInvalidatedStep DEF
     Agent!Resumed
<1>2. ASSUME agentDue = {}, NEW c \in Agent!Clients, Agent!NextOfClient(c) PROVE AgentInv'
  BY <1>2, ExitsStep, SurvivesStep, StreamEndsStep DEF Agent!NextOfClient
<1>3. ASSUME UNCHANGED <<agentClient, agentStart, agentDue, agentRuntimes, agentStop, agentCancel>>
      PROVE  AgentInv'
  <2>1. Agents' /\ Agent!Made' = Agent!Made
    BY <1>3 DEF AgentInv, Agents, AgentTyped, MadeOK, AgentHolds, DueOK, EndingOK, ToldTruly,
       Agent!Made, Agent!Alive
  <2> QED BY <1>3, <2>1, CancelsStay DEF AgentInv
<1>4. ASSUME agentDue = {}, NEW t \in AgentChats, Agent!NextOfChat(t) PROVE AgentInv'
  <2>1. CASE Agent!Prompt(t)
    BY <1>3, <1>4, <2>1, AwaitKeeps DEF Agent!Prompt, Agent!agents
  <2>2. CASE Agent!PromptEnds(t) \/ Agent!Ask(t) \/ Agent!Ingest(t)
    BY <1>3, <2>2 DEF Agent!PromptEnds, Agent!Ask, Agent!Ingest, Agent!agents, Agent!chats
  <2>3. CASE Agent!Stop(t) \/ Agent!Flushed(t) \/ Agent!Delivered(t) \/ Agent!CancelSettles(t)
    BY <2>3, StopStep, StopEndsStep, CancelStep
  <2>4. CASE Agent!DeliveryFails(t) \/ Agent!DeliveryTimesOut(t)
    BY <2>4, DeliveryFailsStep, DeliveryTimesOutStep
  <2> QED BY <1>4, <2>1, <2>2, <2>3, <2>4 DEF Agent!NextOfChat
<1>5. ASSUME agentDue = {}, NEW h \in AgentAnswers, Agent!Answer(h) PROVE AgentInv'
  BY <1>3, <1>5, AwaitKeeps DEF Agent!Answer, Agent!agents, Agent!chats
<1>6. ASSUME agentDue = {},
             Agent!Initialized \/ Agent!InitializeFails \/ Agent!InitializeTimesOut
      PROVE  AgentInv'
  BY <1>6, InitializedStep, UndoneStep, InitializeTimesOutStep
<1>7. CASE Agent!NextOfLog
  <2>1. CASE Agent!TurnStarted \/ Agent!Asked \/ Agent!Answered
    BY <1>3, <2>1 DEF Agent!TurnStarted, Agent!Asked, Agent!Answered, Agent!agents
  <2> QED BY <1>7, <2>1, StopResolvedStep, StoppingStep, StopEndsStep DEF Agent!NextOfLog
<1> QED BY <1>1, <1>2, <1>4, <1>5, <1>6, <1>7 DEF Agent!Next

\* At most one process of a chat's runtime runs at a time.
LEMMA OneRuns ==
  ASSUME AgentNamed, AgentInv
  PROVE  Agent!OneAgent
<1>1. PICK c : \A x \in Agent!Clients : Agent!Alive(x) => x = c
  <2>1. CASE agentRuntimes = 0
    <3>1. \A x \in Agent!Clients : Agent!Alive(x) => x = agentStart.client
      BY <2>1 DEF AgentInv, Agents, AgentHolds, Agent!Clients
    <3> QED BY <3>1
  <2>2. CASE agentRuntimes # 0
    <3>1. \A x \in Agent!Clients : Agent!Alive(x) => x = agentRuntimes
      BY <2>2 DEF AgentInv, Agents, AgentHolds
    <3> QED BY <3>1
  <2> QED BY <2>1, <2>2
<1>2. {x \in Agent!Clients : Agent!Alive(x)} \subseteq {c}
  BY <1>1
<1>3. IsFiniteSet({c}) /\ Cardinality({c}) = 1
  BY FS_Singleton
<1> QED BY <1>2, <1>3, FS_Subset, AgentCounts DEF Agent!OneAgent

\* Of the processes of the agent that a runtime starts, closes and replaces, one at most
\* runs, whatever fails or survives its termination, besides those that a failed start
\* left behind (startRuntime, #invalidateConnection).
THEOREM ProcessesAreOne == ASSUME AgentNamed PROVE Agent!Spec => []OneAgent
<1>1. Agent!Init => AgentInv
  BY AgentInit
<1>2. AgentInv /\ [Agent!Next]_(Agent!vars) => AgentInv'
  <2> SUFFICES ASSUME AgentInv, [Agent!Next]_(Agent!vars) PROVE AgentInv'
    OBVIOUS
  <2>1. CASE UNCHANGED Agent!vars
    <3>1. UNCHANGED <<agentClient, agentStart, agentDue, agentRuntimes, agentStop, agentCancel>>
      BY <2>1 DEF Agent!vars, Agent!agents, Agent!chats
    <3>2. Agents' /\ Agent!Made' = Agent!Made
      BY <3>1 DEF AgentInv, Agents, AgentTyped, MadeOK, AgentHolds, DueOK, EndingOK, ToldTruly,
         Agent!Made, Agent!Alive
    <3> QED BY <3>1, <3>2, CancelsStay DEF AgentInv
  <2> QED BY <2>1, AgentNextKeeps
<1>3. AgentInv => OneAgent
  BY OneRuns DEF OneAgent
<1> QED BY <1>1, <1>2, <1>3, PTL DEF Agent!Spec

-----------------------------------------------------------------------------
(* The executor of the migration: module Migration, proved in              *)
(* MigrationProofs; the run has two instances of it.                       *)

LockFacts == INSTANCE MigrationProofs WITH
  Runs <- LockRuns, Pulls <- LockPulls, Components <- LockComponents,
  CapturedDesired <- LockDesired, Concurrent <- LockConcurrent,
  Recoverers <- LockRecoverers, LateClose <- LockLateClose,
  TornWrites <- LockTornWrites, MaxFaults <- LockMaxFaults,
  MaxInterference <- LockMaxInterference, NoRun <- None,
  remote <- migrationRemote, journal <- migrationJournal, torn <- migrationTorn,
  lock <- migrationLock, written <- migrationWritten, evidence <- migrationEvidence,
  run <- migrationRun, applied <- migrationApplied, faults <- migrationFaults,
  interference <- migrationInterference

OrderFacts == INSTANCE MigrationProofs WITH
  Runs <- OrderRuns, Pulls <- OrderPulls, Components <- OrderComponents,
  CapturedDesired <- OrderDesired, Concurrent <- OrderConcurrent,
  Recoverers <- OrderRecoverers, LateClose <- OrderLateClose,
  TornWrites <- OrderTornWrites, MaxFaults <- OrderMaxFaults,
  MaxInterference <- OrderMaxInterference, NoRun <- None,
  remote <- migrationRemote, journal <- migrationJournal, torn <- migrationTorn,
  lock <- migrationLock, written <- migrationWritten, evidence <- migrationEvidence,
  run <- migrationRun, applied <- migrationApplied, faults <- migrationFaults,
  interference <- migrationInterference

\* The behaviours of the runs at any time are those that MigrationProofs is about ...
LEMMA LockBehaviours == AtOnce!Spec => LockFacts!Spec
<1>1. AtOnce!Init => LockFacts!Init
  BY Zenon DEF AtOnce!PullSet, LockFacts!PullSet, AtOnce!ComponentSet,
     LockFacts!ComponentSet, AtOnce!ApprovedOld, LockFacts!ApprovedOld, AtOnce!Fresh,
     LockFacts!Fresh, AtOnce!Init, LockFacts!Init, AtOnce!ToSet, LockFacts!ToSet
<1>2. AtOnce!Next <=> LockFacts!Next
  BY Zenon DEF AtOnce!Steps, LockFacts!Steps, AtOnce!PullSet, LockFacts!PullSet,
     AtOnce!ComponentSet, LockFacts!ComponentSet, AtOnce!ApprovedOld, LockFacts!ApprovedOld,
     AtOnce!Classified, LockFacts!Classified, AtOnce!Acceptable, LockFacts!Acceptable,
     AtOnce!Complete, LockFacts!Complete, AtOnce!StepMay, LockFacts!StepMay,
     AtOnce!Satisfied, LockFacts!Satisfied, AtOnce!Record, LockFacts!Record,
     AtOnce!Finished, LockFacts!Finished, AtOnce!Ends, LockFacts!Ends, AtOnce!Proof,
     LockFacts!Proof, AtOnce!Follows, LockFacts!Follows, AtOnce!Recovers,
     LockFacts!Recovers, AtOnce!ValidPrefix, LockFacts!ValidPrefix, AtOnce!Readable,
     LockFacts!Readable, AtOnce!Fresh, LockFacts!Fresh, AtOnce!Alive, LockFacts!Alive,
     AtOnce!At, LockFacts!At, AtOnce!To, LockFacts!To, AtOnce!GoTo, LockFacts!GoTo,
     AtOnce!Fault, LockFacts!Fault, AtOnce!Durables, LockFacts!Durables, AtOnce!Start,
     LockFacts!Start, AtOnce!OpenLock, LockFacts!OpenLock, AtOnce!Open, LockFacts!Open,
     AtOnce!Reopen, LockFacts!Reopen, AtOnce!ReadStale, LockFacts!ReadStale,
     AtOnce!CheckEvidence, LockFacts!CheckEvidence, AtOnce!RenameLock, LockFacts!RenameLock,
     AtOnce!Reread, LockFacts!Reread, AtOnce!WriteLock, LockFacts!WriteLock,
     AtOnce!LoadJournal, LockFacts!LoadJournal, AtOnce!KnownTo, LockFacts!KnownTo,
     AtOnce!StepOf, LockFacts!StepOf, AtOnce!NextStep, LockFacts!NextStep, AtOnce!Appends,
     LockFacts!Appends, AtOnce!Validate, LockFacts!Validate, AtOnce!Inspect,
     LockFacts!Inspect, AtOnce!Decide, LockFacts!Decide, AtOnce!Effect, LockFacts!Effect,
     AtOnce!Execute, LockFacts!Execute, AtOnce!Reject, LockFacts!Reject, AtOnce!After,
     LockFacts!After, AtOnce!AppendRecord, LockFacts!AppendRecord, AtOnce!AppendFails,
     LockFacts!AppendFails, AtOnce!VerifyPages, LockFacts!VerifyPages, AtOnce!Final,
     LockFacts!Final, AtOnce!Unlink, LockFacts!Unlink, AtOnce!Crash, LockFacts!Crash,
     AtOnce!AutoClose, LockFacts!AutoClose, AtOnce!Publish, LockFacts!Publish,
     AtOnce!Interfere, LockFacts!Interfere, AtOnce!Acquire, LockFacts!Acquire, AtOnce!Work,
     LockFacts!Work, AtOnce!Fail, LockFacts!Fail, AtOnce!Next, LockFacts!Next, AtOnce!ToSet,
     LockFacts!ToSet, AtOnce!Last, LockFacts!Last, AtOnce!Max, LockFacts!Max,
     AtOnce!Cardinality, LockFacts!Cardinality
<1>3. UNCHANGED AtOnce!vars <=> UNCHANGED LockFacts!vars
  BY DEF AtOnce!vars, LockFacts!vars
<1>4. [AtOnce!Next]_(AtOnce!vars) => [LockFacts!Next]_(LockFacts!vars)
  BY <1>2, <1>3
<1> QED BY <1>1, <1>4, PTL DEF AtOnce!Spec, LockFacts!Spec

\* ... and so are those of the runs in turn.
LEMMA OrderBehaviours == Migrations!Spec => OrderFacts!Spec
<1>1. Migrations!Init => OrderFacts!Init
  BY Zenon DEF Migrations!PullSet, OrderFacts!PullSet, Migrations!ComponentSet,
     OrderFacts!ComponentSet, Migrations!ApprovedOld, OrderFacts!ApprovedOld,
     Migrations!Fresh, OrderFacts!Fresh, Migrations!Init, OrderFacts!Init, Migrations!ToSet,
     OrderFacts!ToSet
<1>2. Migrations!Next <=> OrderFacts!Next
  BY Zenon DEF Migrations!Steps, OrderFacts!Steps, Migrations!PullSet, OrderFacts!PullSet,
     Migrations!ComponentSet, OrderFacts!ComponentSet, Migrations!ApprovedOld,
     OrderFacts!ApprovedOld, Migrations!Classified, OrderFacts!Classified,
     Migrations!Acceptable, OrderFacts!Acceptable, Migrations!Complete, OrderFacts!Complete,
     Migrations!StepMay, OrderFacts!StepMay, Migrations!Satisfied, OrderFacts!Satisfied,
     Migrations!Record, OrderFacts!Record, Migrations!Finished, OrderFacts!Finished,
     Migrations!Ends, OrderFacts!Ends, Migrations!Proof, OrderFacts!Proof,
     Migrations!Follows, OrderFacts!Follows, Migrations!Recovers, OrderFacts!Recovers,
     Migrations!ValidPrefix, OrderFacts!ValidPrefix, Migrations!Readable,
     OrderFacts!Readable, Migrations!Fresh, OrderFacts!Fresh, Migrations!Alive,
     OrderFacts!Alive, Migrations!At, OrderFacts!At, Migrations!To, OrderFacts!To,
     Migrations!GoTo, OrderFacts!GoTo, Migrations!Fault, OrderFacts!Fault,
     Migrations!Durables, OrderFacts!Durables, Migrations!Start, OrderFacts!Start,
     Migrations!OpenLock, OrderFacts!OpenLock, Migrations!Open, OrderFacts!Open,
     Migrations!Reopen, OrderFacts!Reopen, Migrations!ReadStale, OrderFacts!ReadStale,
     Migrations!CheckEvidence, OrderFacts!CheckEvidence, Migrations!RenameLock,
     OrderFacts!RenameLock, Migrations!Reread, OrderFacts!Reread, Migrations!WriteLock,
     OrderFacts!WriteLock, Migrations!LoadJournal, OrderFacts!LoadJournal,
     Migrations!KnownTo, OrderFacts!KnownTo, Migrations!StepOf, OrderFacts!StepOf,
     Migrations!NextStep, OrderFacts!NextStep, Migrations!Appends, OrderFacts!Appends,
     Migrations!Validate, OrderFacts!Validate, Migrations!Inspect, OrderFacts!Inspect,
     Migrations!Decide, OrderFacts!Decide, Migrations!Effect, OrderFacts!Effect,
     Migrations!Execute, OrderFacts!Execute, Migrations!Reject, OrderFacts!Reject,
     Migrations!After, OrderFacts!After, Migrations!AppendRecord, OrderFacts!AppendRecord,
     Migrations!AppendFails, OrderFacts!AppendFails, Migrations!VerifyPages,
     OrderFacts!VerifyPages, Migrations!Final, OrderFacts!Final, Migrations!Unlink,
     OrderFacts!Unlink, Migrations!Crash, OrderFacts!Crash, Migrations!AutoClose,
     OrderFacts!AutoClose, Migrations!Publish, OrderFacts!Publish, Migrations!Interfere,
     OrderFacts!Interfere, Migrations!Acquire, OrderFacts!Acquire, Migrations!Work,
     OrderFacts!Work, Migrations!Fail, OrderFacts!Fail, Migrations!Next, OrderFacts!Next,
     Migrations!ToSet, OrderFacts!ToSet, Migrations!Last, OrderFacts!Last, Migrations!Max,
     OrderFacts!Max, Migrations!Cardinality, OrderFacts!Cardinality
<1>3. UNCHANGED Migrations!vars <=> UNCHANGED OrderFacts!vars
  BY DEF Migrations!vars, OrderFacts!vars
<1>4. [Migrations!Next]_(Migrations!vars) => [OrderFacts!Next]_(OrderFacts!vars)
  BY <1>2, <1>3
<1> QED BY <1>1, <1>4, PTL DEF Migrations!Spec, OrderFacts!Spec

\* Two runs never execute at once, whatever crashes and whoever recovers a stale lock,
\* unless two runs recovered the same one (withExclusive).
THEOREM OneExecutes == ASSUME LockFacts!Named PROVE AtOnce!Spec => []ExclusiveWhileIntact
<1>1. LockFacts!ExclusiveWhileIntact => ExclusiveWhileIntact
  BY Zenon DEF ExclusiveWhileIntact, AtOnce!ExclusiveWhileIntact, LockFacts!ExclusiveWhileIntact,
               AtOnce!Intact, LockFacts!Intact, AtOnce!ExclusiveExecutor, LockFacts!ExclusiveExecutor,
               AtOnce!Executors, LockFacts!Executors, AtOnce!Executing, LockFacts!Executing,
               AtOnce!Cardinality, LockFacts!Cardinality
<1> QED BY <1>1, LockBehaviours, LockFacts!OneExecutes, PTL

\* No step takes effect twice, and none before one that precedes it in the approved
\* order, whatever crashes, is lost or changed by others (executeStep), in runs one of
\* which at most recovers locks if they overlap.
THEOREM StepsTakeEffectOnce ==
  ASSUME OrderFacts!Named, OrderFacts!OneRecovers, OrderFacts!Listed
  PROVE  Migrations!Spec => [](part # "atonce" => AppliedOnceInOrder)
<1>1. OrderFacts!AppliedOnceInOrder => (part # "atonce" => AppliedOnceInOrder)
  BY Zenon DEF AppliedOnceInOrder, Migrations!AppliedOnceInOrder,
               OrderFacts!AppliedOnceInOrder, Migrations!Steps, OrderFacts!Steps
<1>2. Migrations!Spec => [](OrderFacts!Intact /\ (OrderFacts!Intact => OrderFacts!AppliedOnceInOrder))
  BY OrderBehaviours, OrderFacts!StepsTakeEffectOnce, OrderFacts!LocksStayIntact, PTL
<1> QED BY <1>1, <1>2, PTL

\* The same of runs that all recover locks, unless two recovered the same one.
LEMMA OverlappingStepsTakeEffectOnce ==
  ASSUME LockFacts!Named, LockFacts!Listed
  PROVE  AtOnce!Spec => [](part = "atonce" => AppliedOnceInOrder)
<1>1. (LockFacts!Intact => LockFacts!AppliedOnceInOrder) => (part = "atonce" => AppliedOnceInOrder)
  BY Zenon DEF AppliedOnceInOrder, AtOnce!Intact, LockFacts!Intact, AtOnce!AppliedOnceInOrder,
               LockFacts!AppliedOnceInOrder, AtOnce!Steps, LockFacts!Steps
<1> QED BY <1>1, LockBehaviours, LockFacts!StepsTakeEffectOnce, PTL

-----------------------------------------------------------------------------
(* The run: each of its parts is a behaviour of that part's specification.  *)

\* A behaviour is about one part.
LEMMA PartStays ==
  ToolsSpec => /\ [](part = "atonce") \/ [](part # "atonce")
               /\ [](part = "migration") \/ [](part # "migration")
               /\ [](part \in {"process", "asks"}) \/ [](part \notin {"process", "asks"})
<1>1. /\ part = "atonce" \/ part # "atonce"
      /\ part = "migration" \/ part # "migration"
      /\ part \in {"process", "asks"} \/ part \notin {"process", "asks"}
  OBVIOUS
<1>2. /\ part = "atonce" /\ [ToolsNext]_ToolsVars => (part = "atonce")'
      /\ part # "atonce" /\ [ToolsNext]_ToolsVars => (part # "atonce")'
      /\ part = "migration" /\ [ToolsNext]_ToolsVars => (part = "migration")'
      /\ part # "migration" /\ [ToolsNext]_ToolsVars => (part # "migration")'
      /\ part \in {"process", "asks"} /\ [ToolsNext]_ToolsVars => (part \in {"process", "asks"})'
      /\ part \notin {"process", "asks"} /\ [ToolsNext]_ToolsVars => (part \notin {"process", "asks"})'
  BY DEF ToolsNext, ToolsVars, Only
<1> QED BY <1>1, <1>2, PTL DEF ToolsSpec

\* The instances of one module that share their variables have their own parts.
LEMMA SharedBehaviours ==
  ToolsSpec => /\ [](part = "atonce") => AtOnce!Spec
               /\ [](part = "migration") => Migrations!Spec
               /\ [](part \notin {"process", "asks"}) => Agent!Spec
<1>1. ToolsInit => /\ part = "atonce" => AtOnce!Init
                   /\ part = "migration" => Migrations!Init
                   /\ part \notin {"process", "asks"} => Agent!Init
  BY DEF ToolsInit
<1>2. part = "atonce" /\ [ToolsNext]_ToolsVars => [AtOnce!Next]_(AtOnce!vars)
  <2>1. ASSUME UNCHANGED migrationVars PROVE UNCHANGED AtOnce!vars
    BY <2>1 DEF migrationVars, AtOnce!vars
  <2> QED BY <2>1 DEF ToolsNext, ToolsVars
<1>3. part = "migration" /\ [ToolsNext]_ToolsVars => [Migrations!Next]_(Migrations!vars)
  <2>1. ASSUME UNCHANGED migrationVars PROVE UNCHANGED Migrations!vars
    BY <2>1 DEF migrationVars, Migrations!vars
  <2> QED BY <2>1 DEF ToolsNext, ToolsVars
<1>4. part \notin {"process", "asks"} /\ [ToolsNext]_ToolsVars => [Agent!Next]_(Agent!vars)
  <2>1. ASSUME UNCHANGED agentVars PROVE UNCHANGED Agent!vars
    BY <2>1 DEF agentVars, Agent!vars, Agent!agents, Agent!chats, Agent!prompts
  <2> QED BY <2>1 DEF ToolsNext, ToolsVars, Only
<1> QED
  BY <1>1, <1>2, <1>3, <1>4, PTL DEF ToolsSpec, AtOnce!Spec, Migrations!Spec, Agent!Spec

\* A part that is not the run's own stays as it began, which its specification
\* allows.
LEMMA ToolsBehaviours == ToolsSpec => Spec /\ Feeds!Spec /\ Prep!Spec /\ Approval!Spec
<1>1. ToolsInit => Init /\ Feeds!Init /\ Prep!Init /\ Approval!Init
  BY DEF ToolsInit
<1>2. ASSUME [ToolsNext]_ToolsVars
      PROVE  /\ [Next]_vars /\ [Feeds!Next]_(Feeds!vars)
             /\ [Prep!Next]_(Prep!vars) /\ [Approval!Next]_(Approval!vars)
  <2>1. /\ UNCHANGED feedVars => UNCHANGED Feeds!vars
        /\ UNCHANGED prepVars => UNCHANGED Prep!vars
        /\ UNCHANGED approvalVars => UNCHANGED Approval!vars
    BY DEF feedVars, Feeds!vars, prepVars, Prep!vars, approvalVars, Approval!vars
  <2>2. CASE UNCHANGED ToolsVars
    BY <2>1, <2>2 DEF ToolsVars
  <2>3. CASE ToolsNext
    <3>1. [Next]_vars
      BY <2>3 DEF ToolsNext, Only
    <3>2. [Feeds!Next]_(Feeds!vars)
      BY <2>1, <2>3 DEF ToolsNext, Only
    <3>3. [Prep!Next]_(Prep!vars)
      BY <2>1, <2>3 DEF ToolsNext, Only
    <3>4. [Approval!Next]_(Approval!vars)
      BY <2>1, <2>3 DEF ToolsNext, Only
    <3> QED BY <3>1, <3>2, <3>3, <3>4
  <2> QED BY <1>2, <2>2, <2>3
<1> QED BY <1>1, <1>2, PTL DEF ToolsSpec, Spec, Feeds!Spec, Prep!Spec, Approval!Spec

\* What the run checks of these parts holds for every value of its constants.
THEOREM ToolsAreSafe ==
  ASSUME ~UndoFails, FeedNamed, PrepNamed, Prepared, AgentNamed,
         LockFacts!Named, LockFacts!Listed,
         OrderFacts!Named, OrderFacts!OneRecovers, OrderFacts!Listed
  PROVE  ToolsSpec => /\ []NeverLost /\ []OffersTheRelease /\ NoRollback
                      /\ []PreparedIsComplete /\ []OnlyCheckedRuns
                      /\ []ExclusiveWhileIntact
                      /\ [](part \in {"atonce", "migration"} => AppliedOnceInOrder)
                      /\ [](part \notin {"process", "asks"} => OneAgent)
<1>1. ToolsSpec => /\ []NeverLost /\ []OffersTheRelease /\ NoRollback
                   /\ []PreparedIsComplete /\ []OnlyCheckedRuns
  BY ToolsBehaviours, FileIsNeverLost, FeedsOfferReleases, FeedsNeverRollBack,
     PreparationsAreComplete, OnlySoundRuns, PTL
<1>2. /\ ~(part = "atonce" /\ part # "atonce")
      /\ ~(part = "migration" /\ part # "migration")
      /\ ~(part \in {"process", "asks"} /\ part \notin {"process", "asks"})
  OBVIOUS
<1>3. ToolsSpec => []ExclusiveWhileIntact
  <2>1. part # "atonce" => ExclusiveWhileIntact
    BY DEF ExclusiveWhileIntact
  <2> QED BY <2>1, <1>2, PartStays, SharedBehaviours, OneExecutes, PTL
<1>4. ToolsSpec => [](part \in {"atonce", "migration"} => AppliedOnceInOrder)
  <2>1. /\ part = "migration" => part # "atonce"
        /\ part \in {"atonce", "migration"} <=> part = "atonce" \/ part = "migration"
    OBVIOUS
  <2> QED
    BY <2>1, <1>2, PartStays, SharedBehaviours, StepsTakeEffectOnce, OverlappingStepsTakeEffectOnce, PTL
<1>5. ToolsSpec => [](part \notin {"process", "asks"} => OneAgent)
  BY <1>2, PartStays, SharedBehaviours, ProcessesAreOne, PTL
<1> QED BY <1>1, <1>3, <1>4, <1>5

=============================================================================
