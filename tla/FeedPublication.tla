---------------------------- MODULE FeedPublication ----------------------------
(***************************************************************************)
(* A release reaching its two update feeds (scripts/release-feed.mjs, in   *)
(* the order .github/workflows/release.yml calls it): a run authorizes an  *)
(* annotated tag that points at origin/main, builds four files or takes    *)
(* those of the existing GitHub Release, checks that both feeds may        *)
(* advance, creates or compares the Release, appends one commit to the     *)
(* canonical feed and one to the legacy feed, and verifies the public      *)
(* endpoints.                                                              *)
(*                                                                         *)
(* The workflow's concurrency group is not relied on: runs interleave, and *)
(* the branches, the tag and origin/main move between any two steps. Every *)
(* job authorizes again, but a check stops its job only as the last        *)
(* command of its step: the step's shell goes on after a command that      *)
(* failed and returns the exit code of the last one. A check written       *)
(* before another command of its step is therefore no guard here: the      *)
(* authorization of the jobs of the Release and of the canonical feed, the *)
(* canonical feed's half of the preflight, and the check of a reused       *)
(* Release's files. Any job may also fail at any step (Stop).              *)
(*                                                                         *)
(* A payload is the four files of one version: the tagged commit they were *)
(* prepared from, whose time is in the manifest, and the run that built    *)
(* them, since two builds of one commit differ.                            *)
(***************************************************************************)
EXTENDS Integers

CONSTANTS Runs, None, MaxVersion, MaxMain, MaxTags, MaxOthers

VARIABLES
  main,     \* the commit at origin/main
  tags,     \* per version, the annotated tag: its commit and its object
  release,  \* per version, the payload of the immutable GitHub Release
  feed,     \* per feed branch: its head, its payload, every installer in it
  pages,    \* per feed, the payload its public endpoint serves
  run       \* the workflow runs

vars == <<main, tags, release, feed, pages, run>>

Feeds == {"current", "legacy"}
Versions == 1..MaxVersion
Payloads == [ver : 0..MaxVersion, of : 0..MaxMain, by : Runs \cup {None}]
Heads == 0..(2 * MaxVersion + MaxOthers)
Branches == [head : Heads, shows : Payloads, installers : SUBSET Payloads]
Jobs == {"authorize", "build", "preflight", "release", "current", "legacy", "verify",
         "completed", "failed"}

TypeOK ==
  /\ main \in 0..MaxMain
  /\ tags \in [Versions -> [of : 0..MaxMain, object : 1..MaxTags] \cup {None}]
  /\ release \in [Versions -> Payloads \cup {None}]
  /\ feed \in [Feeds -> Branches] /\ pages \in [Feeds -> Payloads]
  /\ run \in [Runs -> [job : Jobs, step : {"start", "authorized", "checkout", "commit"},
                       ver : 0..MaxVersion, tag : [of : 0..MaxMain, object : 0..MaxTags],
                       dir : Payloads \cup {None}, base : Branches \cup {None}]]

\* Both feeds are seeded by hand with the payload of version 0.
Seed == [ver |-> 0, of |-> 0, by |-> None]

Idle == [job |-> "authorize", step |-> "start", ver |-> 0,
         tag |-> [of |-> 0, object |-> 0], dir |-> None, base |-> None]

Init ==
  /\ main = 0 /\ tags = [v \in Versions |-> None] /\ release = [v \in Versions |-> None]
  /\ feed = [f \in Feeds |-> [head |-> 0, shows |-> Seed, installers |-> {Seed}]]
  /\ pages = [f \in Feeds |-> Seed]
  /\ run = [r \in Runs |-> Idle]

-----------------------------------------------------------------------------
(* What the others do.                                                     *)

MainAdvances ==
  /\ main < MaxMain /\ main' = main + 1
  /\ UNCHANGED <<tags, release, feed, pages, run>>

\* A maintainer tags origin/main, or deletes the tag and makes it again.
Tag(v) ==
  LET object == IF tags[v] = None THEN 1 ELSE tags[v].object + 1 IN
  /\ object <= MaxTags
  /\ tags' = [tags EXCEPT ![v] = [of |-> main, object |-> object]]
  /\ UNCHANGED <<main, release, feed, pages, run>>

\* An unrelated commit on a feed's branch.
OtherCommit(f) ==
  /\ feed[f].head < MaxOthers
  /\ feed' = [feed EXCEPT ![f].head = @ + 1]
  /\ UNCHANGED <<main, tags, release, pages, run>>

\* Pages serves the branch's head.
Deploy(f) ==
  /\ pages' = [pages EXCEPT ![f] = feed[f].shows]
  /\ UNCHANGED <<main, tags, release, feed, run>>

-----------------------------------------------------------------------------
(* The commands.                                                           *)

\* authorizeRelease: one annotated tag, exactly at origin/main.
Authorizes(v) == tags[v] # None /\ tags[v].of = main

\* ... with expected-sha and expected-tag-object.
StillAuthorized(r) == Authorizes(run[r].ver) /\ tags[run[r].ver] = run[r].tag

\* verifyReleaseFeedDirectory: version, tag, commit time and checksums.
Verified(r, p) == p.ver = run[r].ver /\ p.of = run[r].tag.of

\* assertFeedAdvance after it has verified the next directory. Mutant: an older
\* version is not refused.
MayAdvanceAnyVersion(branch, next) ==
  IF next = branch.shows THEN "identical"
  ELSE IF next.ver # branch.shows.ver THEN "advance" ELSE "refused"

MayAdvance(branch, next) ==
  IF next = branch.shows THEN "identical"
  ELSE IF /\ next.ver > branch.shows.ver
          /\ \A p \in branch.installers : p.ver = next.ver => p = next
       THEN "advance" ELSE "refused"

Goes(r, job, step) == run' = [run EXCEPT ![r].job = job, ![r].step = step]

At(r, job, step) == run[r].job = job /\ run[r].step = step

-----------------------------------------------------------------------------
(* The jobs of a run.                                                      *)

Authorize(r, v) ==
  /\ At(r, "authorize", "start") /\ Authorizes(v)
  /\ run' = [run EXCEPT ![r].job = "build", ![r].ver = v, ![r].tag = tags[v]]
  /\ UNCHANGED <<main, tags, release, feed, pages>>

\* An existing Release is taken as it is (what verify-directory says of it does
\* not end the step); otherwise the bundle is built and prepareReleaseFeed stages
\* its four files.
Build(r) ==
  LET made == [ver |-> run[r].ver, of |-> run[r].tag.of, by |-> r]
      dir == IF release[run[r].ver] = None THEN made ELSE release[run[r].ver] IN
  /\ At(r, "build", "start") /\ StillAuthorized(r)
  /\ run' = [run EXCEPT ![r].job = "preflight", ![r].dir = dir]
  /\ UNCHANGED <<main, tags, release, feed, pages>>

\* check-advance on both feeds before anything is published: the last command is
\* that of the legacy feed.
Preflight(r) ==
  /\ At(r, "preflight", "start") /\ StillAuthorized(r)
  /\ Verified(r, run[r].dir) /\ MayAdvance(feed["legacy"], run[r].dir) # "refused"
  /\ Goes(r, "release", "start")
  /\ UNCHANGED <<main, tags, release, feed, pages>>

\* The Release is created once, of a tag that exists (--verify-tag); the assets of
\* an existing one must be equal. Neither the authorization nor the check of the
\* directory written before it stops the step. Mutant: the published assets are
\* not compared.
ReleaseUncompared(r) ==
  /\ At(r, "release", "start")
  /\ release' = IF release[run[r].ver] = None
                  THEN [release EXCEPT ![run[r].ver] = run[r].dir] ELSE release
  /\ Goes(r, "current", "start")
  /\ UNCHANGED <<main, tags, feed, pages>>

Release(r) ==
  /\ At(r, "release", "start")
  /\ release[run[r].ver] \in {None, run[r].dir}
  /\ release' = [release EXCEPT ![run[r].ver] = run[r].dir]
  /\ Goes(r, "current", "start")
  /\ UNCHANGED <<main, tags, feed, pages>>

\* The canonical feed's job checks the branch out and authorizes in the step that
\* publishes; the legacy feed's job authorizes before it asks for its token.
Ready(r, f) ==
  IF f = "legacy" THEN At(r, f, "authorized") ELSE At(r, f, "start")

AuthorizeLegacy(r) ==
  /\ At(r, "legacy", "start") /\ StillAuthorized(r)
  /\ Goes(r, "legacy", "authorized")
  /\ UNCHANGED <<main, tags, release, feed, pages>>

Checkout(r, f) ==
  /\ Ready(r, f)
  /\ run' = [run EXCEPT ![r].step = "checkout", ![r].base = feed[f]]
  /\ UNCHANGED <<main, tags, release, feed, pages>>

JobAfter(f) == IF f = "current" THEN "legacy" ELSE "verify"

Published(r, f) ==
  run' = [run EXCEPT ![r].job = JobAfter(f), ![r].step = "start", ![r].base = None]

\* publishFeedBranch up to its commit, or the end of an identical feed: the
\* checkout is the remote head before and after the comparison. The canonical
\* feed's job authorizes before this command, which decides its step alone.
Compare(r, f) ==
  LET me == run[r] IN
  /\ At(r, f, "checkout") /\ Verified(r, me.dir) /\ feed[f].head = me.base.head
  /\ \/ MayAdvance(me.base, me.dir) = "advance" /\ Goes(r, f, "commit")
     \/ MayAdvance(me.base, me.dir) = "identical" /\ Published(r, f)
  /\ UNCHANGED <<main, tags, release, feed, pages>>

\* The head is read again; the push is not forced, so the remote takes it only
\* as a child of the commit the comparison saw.
Push(r, f) ==
  LET me == run[r] IN
  /\ At(r, f, "commit") /\ feed[f].head = me.base.head
  /\ feed' = [feed EXCEPT ![f] = [head |-> @.head + 1, shows |-> me.dir,
                                  installers |-> me.base.installers \cup {me.dir}]]
  /\ Published(r, f)
  /\ UNCHANGED <<main, tags, release, pages>>

\* verifyPublishedFeeds, which reads both endpoints until they serve the files.
Verify(r) ==
  /\ At(r, "verify", "start") /\ StillAuthorized(r)
  /\ \A f \in Feeds : pages[f] = run[r].dir
  /\ Goes(r, "completed", "start")
  /\ UNCHANGED <<main, tags, release, feed, pages>>

Stop(r) ==
  /\ run[r].job \notin {"authorize", "completed", "failed"}
  /\ run' = [run EXCEPT ![r] = [Idle EXCEPT !.job = "failed"]]
  /\ UNCHANGED <<main, tags, release, feed, pages>>

Next ==
  \/ MainAdvances
  \/ \E v \in Versions : Tag(v)
  \/ \E f \in Feeds : OtherCommit(f) \/ Deploy(f)
  \/ \E r \in Runs, v \in Versions : Authorize(r, v)
  \/ \E r \in Runs : Build(r) \/ Preflight(r) \/ Release(r) \/ AuthorizeLegacy(r)
                     \/ Verify(r) \/ Stop(r)
  \/ \E r \in Runs, f \in Feeds : Checkout(r, f) \/ Compare(r, f) \/ Push(r, f)

Spec == Init /\ [][Next]_vars

-----------------------------------------------------------------------------

(* A feed never goes back to an older version and never changes the files  *)
(* of the version it offers (assertFeedAdvance, publishFeedBranch), however *)
(* many runs publish and whenever the tag, the branches or main move.      *)
NoRollback ==
  [][\A f \in Feeds : \/ feed'[f].shows = feed[f].shows
                      \/ feed'[f].shows.ver > feed[f].shows.ver]_vars

(* What a feed offers, past its seed, is what the immutable Release of its *)
(* version holds: an installer of a run whose Release lost is never        *)
(* offered to an app.                                                      *)
OffersTheRelease ==
  \A f \in Feeds : \/ feed[f].shows = Seed
                   \/ feed[f].shows = release[feed[f].shows.ver]

=============================================================================
