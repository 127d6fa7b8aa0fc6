---------------------------- MODULE FeedPreparation ----------------------------
(***************************************************************************)
(* The preparation of the two migrated update feeds                        *)
(* (scripts/prepare-feed-migration.mjs): from the captured Release, the    *)
(* product's gh-pages bundle and the user site's bundle, a preparation     *)
(* makes one repository per feed and an evidence file, reads every source  *)
(* again, and on any failure removes what it made.                         *)
(*                                                                         *)
(* A tree is a function from paths to bytes. Bundles are pinned by their   *)
(* hash and the installer by the witnessed signature evidence, while the   *)
(* Release directory is an ordinary directory that may be edited at any    *)
(* time. Several preparations share the output paths, and each step of one *)
(* may fail.                                                               *)
(***************************************************************************)
EXTENDS FiniteSets, Integers

CONSTANTS Preparers, None, MaxEdits

VARIABLES
  sources,   \* the captured trees, with the Release directory as it is now
  edits,     \* edits of the Release directory
  out,       \* per output path, the preparation that made it and its content
  at,        \* where a preparation is
  loaded,    \* the sources it has in memory
  made       \* canonicalCreated, userSiteCreated, evidenceCreated

vars == <<sources, edits, out, at, loaded, made>>

Current == {"latest.json", "SHA256SUMS.txt", "installer", "signature"}
History == {"old", "old.sig"}
Witnessed == 1              \* the installer bytes the signature evidence names
Bytes == 1..2
Outputs == {"canonical", "site", "evidence"}

Tree(paths, bytes) == [p \in paths |-> bytes]

\* Both trees as one, the first where both have a path (addEntry, after Agree).
Over(first, second) ==
  [p \in DOMAIN first \cup DOMAIN second |->
     IF p \in DOMAIN first THEN first[p] ELSE second[p]]

\* openBundle gives the bundles' trees, readReleaseDirectory the Release: older assets in either tree, with or without their pair, equal or
\* different bytes; line endings of the Pages manifest that drifted; a CNAME.
Captures ==
  [release : {Tree(Current, 1)},
   product : {Over(Tree({"latest.json"}, drift), Tree(Current \cup {".nojekyll"} \cup old, 1)) :
                drift \in Bytes, old \in SUBSET History},
   legacy  : {Tree(older, bytes) : older \in SUBSET History, bytes \in Bytes},
   root    : {Tree({"index.html"} \cup name, 1) : name \in {{}, {"CNAME"}}}]

Empty == [release |-> <<>>, product |-> <<>>, legacy |-> <<>>, root |-> <<>>]

TypeOK ==
  /\ DOMAIN sources = DOMAIN Empty /\ edits \in 0..MaxEdits
  /\ DOMAIN out = Outputs /\ \A o \in Outputs : out[o].by \in Preparers \cup {None}
  /\ at \in [Preparers -> {"start", "fresh", "loaded", "canonical", "site", "written",
                           "recorded", "done", "cleanup", "failed"}]
  /\ DOMAIN loaded = Preparers
  /\ made \in [Preparers -> SUBSET Outputs]

Absent == [by |-> None, holds |-> <<>>]

Init ==
  /\ sources = Empty /\ edits = 0
  /\ out = [o \in Outputs |-> Absent]
  /\ at = [p \in Preparers |-> "start"] /\ loaded = [p \in Preparers |-> Empty]
  /\ made = [p \in Preparers |-> {}]

-----------------------------------------------------------------------------
(* What the sources give.                                                  *)

Only(tree, paths) == [p \in DOMAIN tree \cap paths |-> tree[p]]

Paired(tree) == Cardinality(DOMAIN tree \cap History) \in {0, 2}

Agree(left, right) == \A p \in DOMAIN left \cap DOMAIN right : left[p] = right[p]

\* buildCanonicalFiles.
Canonical(s) ==
  Over(s.release, Over(Only(s.product, History \cup {".nojekyll"}), s.legacy))

\* buildUserSiteFiles.
Site(s) ==
  [root |-> Only(s.root, DOMAIN s.root \ {"CNAME"}),
   feed |-> Only(Canonical(s), DOMAIN Canonical(s) \ {".nojekyll"})]

\* validateLegacyFeed: the four files, which fit each other.
IsFeed(tree) == Current \subseteq DOMAIN tree /\ tree["installer"] = tree["signature"]

\* Manifest and checksum agree in what they say, the other two in every byte.
Equivalent(release, pages) ==
  \A p \in {"installer", "signature"} : release[p] = pages[p]

\* validateSignatureEvidence, and the signature verifier run on the same bytes.
SignatureHolds(release) == release["installer"] = Witnessed

\* loadSources with the two build functions.
Accepts(s) ==
  /\ IsFeed(s.release) /\ IsFeed(s.product) /\ Equivalent(s.release, s.product)
  /\ SignatureHolds(s.release)
  /\ Paired(s.product) /\ Paired(s.legacy)
  /\ Agree(Only(s.product, History), s.legacy)

\* createCanonicalRepairRepository.
Repairs(s) ==
  /\ DOMAIN s.product \subseteq DOMAIN Canonical(s)
  /\ Canonical(s) # s.product

\* computeEvidence: the digest of the sources and of both repositories.
Evidence(s, canonical, site) ==
  [sources |-> s, canonical |-> canonical, site |-> site]

-----------------------------------------------------------------------------
(* The sources are captured; the Release directory is edited.              *)

Capture ==
  /\ sources = Empty /\ \E s \in Captures : sources' = s
  /\ UNCHANGED <<edits, out, at, loaded, made>>

EditRelease ==
  /\ sources # Empty /\ edits < MaxEdits /\ edits' = edits + 1
  /\ \E p \in {"installer", "latest.json"}, b \in Bytes :
       sources' = [sources EXCEPT !.release[p] = b]
  /\ UNCHANGED <<out, at, loaded, made>>

-----------------------------------------------------------------------------
(* prepareFeedMigration.                                                   *)

Goes(p, where) == at' = [at EXCEPT ![p] = where]

AssertFresh(p) ==
  /\ at[p] = "start" /\ sources # Empty /\ \A o \in Outputs : out[o] = Absent
  /\ Goes(p, "fresh") /\ UNCHANGED <<sources, edits, out, loaded, made>>

Load(p) ==
  /\ at[p] = "fresh" /\ Accepts(sources)
  /\ loaded' = [loaded EXCEPT ![p] = sources]
  /\ Goes(p, "loaded") /\ UNCHANGED <<sources, edits, out, made>>

Create(p, o, content) ==
  /\ out[o] = Absent
  /\ out' = [out EXCEPT ![o] = [by |-> p, holds |-> content]]
  /\ made' = [made EXCEPT ![p] = @ \cup {o}]

\* claimOutputDirectory.
Claim(p, o, from, to) ==
  /\ at[p] = from /\ Create(p, o, <<>>)
  /\ Goes(p, to) /\ UNCHANGED <<sources, edits, loaded>>

\* Both repositories, from the files in memory.
WriteRepositories(p) ==
  LET s == loaded[p] IN
  /\ at[p] = "site" /\ Repairs(s)
  /\ out' = [out EXCEPT !["canonical"].holds = Canonical(s), !["site"].holds = Site(s)]
  /\ Goes(p, "written") /\ UNCHANGED <<sources, edits, loaded, made>>

WriteEvidence(p) ==
  LET s == loaded[p] IN
  /\ at[p] = "written"
  /\ Create(p, "evidence", Evidence(s, out["canonical"].holds, out["site"].holds))
  /\ Goes(p, "recorded") /\ UNCHANGED <<sources, edits, loaded>>

\* verifyFeedMigration: everything is read and built again.
Verify(p) ==
  LET s == sources IN
  /\ at[p] = "recorded" /\ Accepts(s)
  /\ out["evidence"].holds = Evidence(s, Canonical(s), Site(s))
  /\ Goes(p, "done") /\ loaded' = [loaded EXCEPT ![p] = sources]
  /\ UNCHANGED <<sources, edits, out, made>>

\* A check that refuses, or any failure, ends in the catch block: whatever was
\* begun after a claim is removed with the claimed path. Before the loading has
\* succeeded there is nothing to remove. Mutant: every output is removed.
FailAll(p) ==
  /\ at[p] \in {"fresh", "loaded", "canonical", "site", "written", "recorded"}
  /\ Goes(p, IF at[p] = "fresh" THEN "failed" ELSE "cleanup")
  /\ made' = [made EXCEPT ![p] = IF at[p] = "fresh" THEN {} ELSE Outputs]
  /\ UNCHANGED <<sources, edits, out, loaded>>

Fail(p) ==
  /\ at[p] \in {"fresh", "loaded", "canonical", "site", "written", "recorded"}
  /\ Goes(p, IF at[p] = "fresh" THEN "failed" ELSE "cleanup")
  /\ UNCHANGED <<sources, edits, out, loaded, made>>

Cleanup(p) ==
  /\ at[p] = "cleanup"
  /\ IF made[p] = {} THEN Goes(p, "failed") /\ UNCHANGED <<out, made>>
     ELSE \E last \in made[p] :
            /\ last = "evidence" \/ "evidence" \notin made[p]
            /\ last = "canonical" => made[p] = {"canonical"}
            /\ out' = [out EXCEPT ![last] = Absent]
            /\ made' = [made EXCEPT ![p] = @ \ {last}]
            /\ UNCHANGED at
  /\ UNCHANGED <<sources, edits, loaded>>

Next ==
  \/ Capture \/ EditRelease
  \/ \E p \in Preparers :
       \/ AssertFresh(p) \/ Load(p) \/ WriteRepositories(p) \/ WriteEvidence(p)
       \/ Claim(p, "canonical", "loaded", "canonical")
       \/ Claim(p, "site", "canonical", "site")
       \/ Verify(p) \/ Fail(p) \/ Cleanup(p)

Spec == Init /\ [][Next]_vars

-----------------------------------------------------------------------------

(* What a preparation that succeeded leaves is complete: both feeds offer  *)
(* the Release as it was when everything was read again, they hold every   *)
(* asset the product's or the user site's feed had, and no page of the     *)
(* user site is lost; and no other preparation has touched it, neither by  *)
(* writing to the same paths nor by cleaning up after its own failure.     *)
PreparedIsComplete ==
  \A p \in Preparers : at[p] = "done" =>
    LET s == loaded[p]
        feeds == {out["canonical"].holds, out["site"].holds.feed} IN
    /\ \A o \in Outputs : out[o].by = p
    /\ \A feed \in feeds :
         /\ Only(feed, Current) = s.release
         /\ Only(feed, History) = Only(Over(s.product, s.legacy), History)
    /\ out["site"].holds.root["index.html"] = s.root["index.html"]

=============================================================================
