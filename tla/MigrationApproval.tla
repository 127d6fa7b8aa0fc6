--------------------------- MODULE MigrationApproval ---------------------------
(***************************************************************************)
(* The approval of the repository migration: the offline checker           *)
(* (scripts/check-migration-approval.mjs) reads the manifest, the captured *)
(* remote snapshot and the prepared repositories and prints a phrase that  *)
(* holds the manifest's hash; the owner signs a printed phrase; the        *)
(* executor (scripts/execute-approved-migration.mjs) starts only with the  *)
(* signed phrase of the manifest it has read. The files are edited between *)
(* any two reads. What the executor then does is module Migration.         *)
(*                                                                         *)
(* A manifest is equal to its hash. Its policy sections are right or not;  *)
(* what it pins are the commit of every prepared repository, once as the   *)
(* value a ref is moved to and once as local evidence, and the state of    *)
(* the remote before the migration, which a later repair would restore.    *)
(***************************************************************************)
EXTENDS Integers, FiniteSets

CONSTANTS Repositories, None, MaxEdits, MaxChecks

VARIABLES
  file,      \* MIGRATION_APPROVAL.json
  disk,      \* the commit of every prepared repository
  snapshot,  \* the captured remote snapshot
  edits,
  checker,   \* the checker: its manifest and the repositories it has verified
  printed,   \* the manifests whose phrases were printed
  signed,    \* the manifest whose phrase the approval file holds
  executor   \* the executor: its manifest, and how far it is

vars == <<file, disk, snapshot, edits, checker, printed, signed, executor>>

Versions == 1..2
StateSections == {"refs", "pulls", "pages"}
PolicySections == {"prerequisites", "execution", "forbidden", "postconditions"}
Sections == StateSections \cup PolicySections

\* The executor's validators; what is forbidden is text to it.
ExecutorSections == Sections \ {"forbidden"}

Manifests == [wrong : {{}} \cup {{s} : s \in Sections}, ready : BOOLEAN,
              to : [Repositories -> Versions], evidence : [Repositories -> Versions],
              captured : Versions, snapshot : Versions]

TypeOK ==
  /\ file \in Manifests /\ disk \in [Repositories -> Versions] /\ snapshot \in Versions
  /\ edits \in 0..MaxEdits
  /\ checker.read \in Manifests \cup {None} /\ checker.verified \subseteq Repositories
  /\ checker.pinned \in BOOLEAN /\ checker.runs \in 0..MaxChecks
  /\ Cardinality(printed) <= MaxChecks /\ signed \in printed \cup {None}
  /\ executor.read \in Manifests \cup {None} /\ executor.verified \subseteq Repositories
  /\ executor.runs \in BOOLEAN

\* Everything has been prepared for version 1; the prerequisites are not ready.
Draft == [wrong |-> {}, ready |-> FALSE, to |-> [r \in Repositories |-> 1],
          evidence |-> [r \in Repositories |-> 1], captured |-> 1, snapshot |-> 1]

Unread == [read |-> None, verified |-> {}, pinned |-> FALSE, runs |-> 0]

Init ==
  /\ file = Draft /\ disk = [r \in Repositories |-> 1] /\ snapshot = 1 /\ edits = 0
  /\ checker = Unread /\ printed = {} /\ signed = None
  /\ executor = [read |-> None, verified |-> {}, runs |-> FALSE]

-----------------------------------------------------------------------------
(* The files change.                                                       *)

MoreEdits == edits < MaxEdits /\ edits' = edits + 1

EditManifest ==
  /\ MoreEdits
  /\ \/ \E ready \in BOOLEAN : file' = [file EXCEPT !.ready = ready]
     \/ \E s \in Sections : file' = [file EXCEPT !.wrong = {s}]
     \/ \E v \in Versions : file' = [file EXCEPT !.captured = v]
     \/ \E r \in Repositories, v \in Versions :
          file' \in {[file EXCEPT !.to[r] = v], [file EXCEPT !.evidence[r] = v],
                    [file EXCEPT !.to[r] = v, !.evidence[r] = v]}
  /\ UNCHANGED <<disk, snapshot, checker, printed, signed, executor>>

Recommit ==
  /\ MoreEdits /\ \E r \in Repositories, v \in Versions : disk' = [disk EXCEPT ![r] = v]
  /\ UNCHANGED <<file, snapshot, checker, printed, signed, executor>>

Recapture ==
  /\ MoreEdits /\ snapshot' \in Versions
  /\ UNCHANGED <<file, disk, checker, printed, signed, executor>>

-----------------------------------------------------------------------------
(* The checker in approve mode.                                            *)

\* The validators of the refs, pull requests and Pages.
StateIsPinned(m) == m.wrong \cap StateSections = {}

\* ... and of prerequisites, gates, execution, prohibitions and postconditions.
PolicyIsPinned(m) == m.wrong \cap PolicySections = {}

\* approvalMissingItems.
Eligible(m) == m.ready

ReadManifest ==
  /\ checker.read = None /\ checker.runs < MaxChecks
  /\ StateIsPinned(file) /\ PolicyIsPinned(file)
  /\ checker' = [checker EXCEPT !.read = file, !.runs = @ + 1]
  /\ UNCHANGED <<file, disk, snapshot, edits, printed, signed, executor>>

\* verifyArtifact and validateCapturedInitialState: the snapshot has the pinned
\* hash, and what the manifest captured is what the snapshot says.
MatchesSnapshot(m) == snapshot = m.snapshot /\ m.captured = m.snapshot

VerifySnapshot ==
  /\ checker.read # None /\ ~checker.pinned /\ MatchesSnapshot(checker.read)
  /\ checker' = [checker EXCEPT !.pinned = TRUE]
  /\ UNCHANGED <<file, disk, snapshot, edits, printed, signed, executor>>

\* verifyRepository: the commit to be pushed is the only one there.
VerifyRepository(r) ==
  /\ checker.pinned /\ r \notin checker.verified /\ disk[r] = checker.read.to[r]
  /\ checker' = [checker EXCEPT !.verified = @ \cup {r}]
  /\ UNCHANGED <<file, disk, snapshot, edits, printed, signed, executor>>

Checked ==
  /\ checker.pinned /\ checker.verified = Repositories
  /\ checker.read.evidence = checker.read.to       \* assertRepositoryEvidence
  /\ Eligible(checker.read)
  /\ checker' = [Unread EXCEPT !.runs = checker.runs]
  /\ UNCHANGED <<file, disk, snapshot, edits, signed, executor>>

\* The phrase is the hash of the bytes that were parsed.
\* Mutant: the file is read again for its hash.
PrintFile == Checked /\ printed' = printed \cup {file}

PrintPhrase == Checked /\ printed' = printed \cup {checker.read}

Refuse ==
  /\ checker.read # None /\ checker' = [Unread EXCEPT !.runs = checker.runs]
  /\ UNCHANGED <<file, disk, snapshot, edits, printed, signed, executor>>

\* The owner puts a printed phrase into the approval file.
Sign ==
  /\ signed' \in printed
  /\ UNCHANGED <<file, disk, snapshot, edits, checker, printed, executor>>

-----------------------------------------------------------------------------
(* The executor in apply mode.                                             *)

\* validateManifest with the Pages, prerequisite and local-evidence contracts.
Validates(m) ==
  m.wrong \cap ExecutorSections = {} /\ m.ready /\ m.evidence = m.to

ReadApproved ==
  /\ executor.read = None /\ signed = file /\ Validates(file)
  /\ executor' = [executor EXCEPT !.read = file]
  /\ UNCHANGED <<file, disk, snapshot, edits, checker, printed, signed>>

\* defaultVerifyLocalEvidence; the snapshot file is compared by its hash only.
VerifyEvidence(r) ==
  /\ executor.read # None /\ ~executor.runs /\ r \notin executor.verified
  /\ disk[r] = executor.read.evidence[r] /\ snapshot = executor.read.snapshot
  /\ executor' = [executor EXCEPT !.verified = @ \cup {r}]
  /\ UNCHANGED <<file, disk, snapshot, edits, checker, printed, signed>>

Execute ==
  /\ executor.verified = Repositories /\ ~executor.runs
  /\ executor' = [executor EXCEPT !.runs = TRUE]
  /\ UNCHANGED <<file, disk, snapshot, edits, checker, printed, signed>>

GiveUp ==
  /\ executor.read # None /\ ~executor.runs
  /\ executor' = [executor EXCEPT !.read = None, !.verified = {}]
  /\ UNCHANGED <<file, disk, snapshot, edits, checker, printed, signed>>

Next ==
  \/ EditManifest \/ Recommit \/ Recapture
  \/ ReadManifest \/ VerifySnapshot \/ PrintPhrase \/ Refuse \/ Sign
  \/ \E r \in Repositories : VerifyRepository(r) \/ VerifyEvidence(r)
  \/ ReadApproved \/ Execute \/ GiveUp

Spec == Init /\ [][Next]_vars

-----------------------------------------------------------------------------

(* The executor starts only with a manifest that the checker would accept  *)
(* whole, however the files are edited between its reads, the owner's      *)
(* signature and the executor's reads. The executor itself looks neither   *)
(* at the prohibitions nor at what the snapshot holds: for these it relies *)
(* on the signed phrase being that of the very manifest that was checked.  *)
OnlyCheckedRuns ==
  executor.runs =>
    LET m == executor.read IN
    /\ m.wrong = {} /\ m.ready
    /\ m.to = m.evidence /\ m.captured = m.snapshot

=============================================================================
