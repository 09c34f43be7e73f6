----------------------------- MODULE Checksums -----------------------------
(***************************************************************************)
(* The SHA-256 bookkeeping of one image directory: the verification lines  *)
(* of its Dockerfile, its CHECKSUMS file and the checksum of its           *)
(* manifest.toml, and the tools that write them:                           *)
(*   Populate     scripts/populate_checksums.py        (CHECKSUMS)         *)
(*   Bulk...      scripts/populate_bulk_checksums.py   (Dockerfile)        *)
(*   Remediate    scripts/_archive/populate_remediated_checksums*.py       *)
(*   Integrate    scripts/_archive/integrate_checksum_verification.py      *)
(*   Bump...      scripts/bump_versions.sh                               *)
(*   CtlBump      evergreenctl/src/bump.rs                                 *)
(*   CheckUpstream   scripts/check_upstream_versions.py                    *)
(* The archived tools are modelled as run from scripts/, for which they    *)
(* compute their paths.                                                    *)
(*                                                                         *)
(* A digest is the kind of the hash and the file and release it belongs    *)
(* to.  Sibling stands for the same release's file for another platform,   *)
(* whose name the fuzzy comparison of the tools cannot tell from the       *)
(* download's.  Each answer of the network is a choice at each call.       *)
(***************************************************************************)
EXTENDS Naturals, FiniteSets

CONSTANTS Downloads,    \* the downloads of the Dockerfile, numbered in its order
          MaxRelease,   \* bound on the releases upstream makes
          Sites         \* where the image may download from

ASSUME DownloadsAssumption == /\ Downloads \subseteq Nat \ {0}
                              /\ 1 \in Downloads
ASSUME MaxReleaseAssumption == MaxRelease \in Nat \ {0}

VARIABLES image,        \* what the tools never change of the Dockerfile
          version,      \* ARG VERSION of the Dockerfile
          latest,       \* the latest release upstream
          checks,       \* the verification lines after each download
          sums,         \* the CHECKSUMS file
          manifest,     \* the checksum of manifest.toml
          report,       \* what the last run of a reporting tool said of this image
          torn          \* a bump that changed the URL of CHECKSUMS died before its hash
                        \* (of the history, no state of the tools)

vars == <<image, version, latest, checks, sums, manifest, report, torn>>

Releases == 1..MaxRelease
Sibling == 0
Digest(kind, file, release) == [kind |-> kind, file |-> file, release |-> release]
Sha256(file, release) == Digest("sha256", file, release)
Word(word) == Digest(word, Sibling, 1)
HashKinds == {"sha256", "sha512", "sha1", "md5", "cut", "garbled"}
Words == {"PENDING", "fake", "N/A", "NEEDS_UPDATE"}
Digests == [kind : HashKinds \cup Words, file : Downloads \cup {Sibling}, release : Releases]

\* A "chain" check stops the commands chained to it; an "advisory" one ends
\* in || true.
Check == [digest : Digests, gate : {"chain", "advisory"}]
Line(digest, gate) == [digest |-> digest, gate |-> gate]

\* resolved: the URLs use no variable without a default; pinned: FROM carries
\* a digest; tolerant: the line of a download ends in ; \ or || true; marked:
\* the word PENDING stands in the Dockerfile outside of its checks, say in a
\* comment or a label.
ImageKinds == [site : Sites, resolved : BOOLEAN, pinned : BOOLEAN, tolerant : BOOLEAN,
               marked : BOOLEAN]
NoUrl == 0
SumsFiles == [value : Digests, version : Releases, url : Releases \cup {NoUrl}]
Reports == {"none", "verified", "failed", "update"}

TypeOK == /\ image \in ImageKinds
          /\ version \in Releases
          /\ latest \in Releases
          /\ checks \in [Downloads -> SUBSET Check]
          /\ sums \in SumsFiles
          /\ manifest \in Digests
          /\ report \in Reports
          /\ torn \in BOOLEAN

\* A new image: verification lines are missing, placeholders or invented,
\* and its CHECKSUMS file is pending or not applicable (and then without a
\* URL).
Init ==
    /\ image \in ImageKinds
    /\ version = 1
    /\ latest = 1
    /\ checks \in [Downloads -> {{}, {Line(Word("PENDING"), "chain")}, {Line(Word("fake"), "chain")}}]
    /\ sums \in {[value |-> Word("N/A"), version |-> 1, url |-> NoUrl],
                 [value |-> Word("PENDING"), version |-> 1, url |-> 1]}
    /\ manifest = Word("N/A")
    /\ report = "none"
    /\ torn = FALSE

-----------------------------------------------------------------------------
(* What upstream may answer.                                               *)

Own(d, release) == {Sha256(d, release)}

\* filenames_match takes a name that contains the other one.
Named(d) == {d, Sibling}

\* The first line of a list of checksums, of the release's page or of its
\* API, that names the file.
Listed(d, release) == {Sha256(file, release) : file \in Named(d)}

\* The layers of populate_checksums.py; every layer may have no answer, so
\* that any later one may be the first to give one.  The verification level
\* of the command line decides nothing.
LayerChecksumFile(d, release) ==
    IF image.site \in {"github", "helm"} THEN Listed(d, release)
    ELSE IF image.site \in {"hashicorp", "k8s"} THEN Own(d, release) ELSE {}
SignedList(d, release) == Listed(d, release)
SignedFile(d, release) == Own(d, release)
LayerGpg(d, release) == SignedList(d, release) \cup SignedFile(d, release)
LayerMirrors(d, release) == IF image.site = "github" THEN Own(d, release) ELSE {}
LayerDownload(d, release) == Own(d, release)
FindChecksumForUrl(d, release) ==
    LayerChecksumFile(d, release) \cup LayerGpg(d, release)
        \cup LayerMirrors(d, release) \cup LayerDownload(d, release)

\* The try_... functions and find_checksum of populate_bulk_checksums.py.
SiteChecksum(d, release) ==
    LET of(kinds, files) == {Digest(k, f, release) : k \in kinds, f \in files}
    IN CASE image.site = "k8s" -> Own(d, release)
         [] image.site = "apache" -> of({"sha256", "sha512"}, Named(d))
         [] image.site = "elastic" -> of({"sha256", "sha512"}, {d})
         [] image.site = "maven" -> of({"sha256", "sha1", "md5"}, {d})
         [] OTHER -> Listed(d, release)
FindChecksum(d, release) ==
    SiteChecksum(d, release) \cup Listed(d, release) \cup Own(d, release)

\* try_github_latest: any of the latest releases.
LatestChecksum(d) == UNION {Listed(d, r) : r \in 1..latest}

\* Mutant: the latest releases are asked for resolved URLs, too.
BulkAnswersLatest(d) ==
    IF image.site = "github" THEN LatestChecksum(d) ELSE FindChecksum(d, version)

BulkAnswers(d) ==
    IF image.resolved THEN FindChecksum(d, version)
    ELSE IF image.site = "github" THEN LatestChecksum(d) ELSE {}

\* The lookups of the two archived tools: the digest of an asset or a line
\* of a list with a matching name, or the checksum file of the download's
\* own; the second batch may also download the file.
RemediationAnswers(d, release) == Listed(d, release)
Batch2Answers(d, release) == Listed(d, release) \cup Own(d, release)

-----------------------------------------------------------------------------
(* What a tool sees in the Dockerfile.                                     *)

Lines == UNION {checks[d] : d \in Downloads}
KindsIn == {line.digest.kind : line \in Lines}
Real == {"sha256", "sha512"}

\* The word is looked for in the whole file.
HasPending == image.marked \/ "PENDING" \in KindsIn

\* Mutant: an invented hash anywhere makes the image incomplete again.
HasRealChecksumUnlessFake ==
    /\ KindsIn \ {"md5"} # {}
    /\ ~HasPending /\ "fake" \notin KindsIn
    /\ KindsIn \cap Real # {} \/ image.pinned

\* Any sha...sum -c counts, and the digest of a pinned FROM passes for a hash.
\* (Dockerfiles that download their checksum file are complete, and left out.)
HasRealChecksum ==
    /\ KindsIn \ {"md5"} # {}
    /\ ~HasPending
    /\ KindsIn \cap Real # {} \/ image.pinned

\* A garbled check runs sha256sum on "md5:...", a cut one sha1sum on 38
\* characters.
HasSha256sum == KindsIn \cap {"sha256", "PENDING", "fake", "garbled"} # {}

First(S) == CHOOSE d \in S : \A e \in S : d <= e
With(d, kinds) == \E line \in checks[d] : line.digest.kind \in kinds

\* replace_pending_checksum puts the digest into the first line with a
\* placeholder or else into the first with a hash that is no sha256 or looks
\* invented (a sha1 line goes on running sha1sum on its new digest).
Replaceable ==
    IF "PENDING" \in KindsIn THEN {"PENDING"} ELSE {"fake", "sha512", "sha1", "cut"}
Replaced(digest) ==
    LET d == First({e \in Downloads : With(e, Replaceable)})
        old == CHOOSE line \in checks[d] : line.digest.kind \in Replaceable
    IN [checks EXCEPT ![d] = (@ \ {old}) \cup {Line(digest, old.gate)}]

\* insert_checksum_new: two digits of a sha1 and the verification of an md5
\* get lost, and no mismatch stops the build.
Inserted(digest) ==
    Line(CASE digest.kind = "sha1" -> [digest EXCEPT !.kind = "cut"]
           [] digest.kind = "md5"  -> [digest EXCEPT !.kind = "garbled"]
           [] OTHER                -> digest,
         "advisory")

-----------------------------------------------------------------------------
(* The tools.                                                              *)

\* populate_checksums.py without --force goes by the two words it writes
\* itself and counts every other file as verified.
ToPopulate == sums.value.kind \in {"PENDING", "N/A"}

PopulateSkips ==
    /\ ~ToPopulate
    /\ report' = "verified"
    /\ UNCHANGED <<image, version, latest, checks, sums, manifest, torn>>

\* Only ${VERSION} is resolved: any other variable leaves a URL nobody serves.
PopulateFails ==
    /\ report' = "failed"
    /\ UNCHANGED <<image, version, latest, checks, sums, manifest, torn>>

UpdatedSums(found) == [value |-> found, version |-> version, url |-> version]

Populate ==
    /\ image.resolved
    /\ \E found \in FindChecksumForUrl(1, version) : sums' = UpdatedSums(found)
    /\ report' = "verified"
    /\ torn' = FALSE
    /\ UNCHANGED <<image, version, latest, checks, manifest>>

\* populate_bulk_checksums.py: answers maps the downloads it found a
\* checksum for; the placeholder gets the first of them.  A file with the word
\* and no line to replace is given up.
BulkReplaces(answers) ==
    /\ HasPending \/ "fake" \in KindsIn
    /\ KindsIn \cap Replaceable # {}
    /\ checks' = Replaced(answers[First(DOMAIN answers)])

BulkInserts(answers) ==
    /\ ~HasPending /\ "fake" \notin KindsIn
    /\ checks' = [d \in Downloads |->
           checks[d] \cup IF d \in DOMAIN answers THEN {Inserted(answers[d])} ELSE {}]

Bulk ==
    /\ ~HasRealChecksum
    /\ \E found \in (SUBSET Downloads) \ {{}} :
           \E answers \in [found -> UNION {BulkAnswers(d) : d \in found}] :
               /\ \A d \in found : answers[d] \in BulkAnswers(d)
               /\ BulkReplaces(answers) \/ BulkInserts(answers)
    /\ report' = "none"
    /\ UNCHANGED <<image, version, latest, sums, manifest, torn>>

\* The archived tools know one download per image.  The manifest is written
\* after the Dockerfile: a run that dies between leaves it, and the next run
\* finds the image done.
Remediate(digest, gate) ==
    /\ ~HasSha256sum
    /\ checks' = [checks EXCEPT ![1] = @ \cup {Line(digest, gate)}]
    /\ manifest' \in {digest, manifest}
    /\ report' = "none"
    /\ UNCHANGED <<image, version, latest, sums, torn>>

RemediateFirst ==
    \E digest \in RemediationAnswers(1, version) :
        Remediate(digest, "chain")

RemediateBatch2 ==
    \E digest \in Batch2Answers(1, version) :
        Remediate(digest, IF image.tolerant THEN "advisory" ELSE "chain")

\* integrate_checksum_verification.py carries the CHECKSUMS file's hash over.
CarriesHash == sums.value.kind = "sha256"

Integrate ==
    /\ CarriesHash
    /\ ~HasSha256sum
    /\ checks' = [checks EXCEPT ![1] = @ \cup {Line(sums.value, "chain")}]
    /\ report' = "none"
    /\ UNCHANGED <<image, version, latest, sums, manifest, torn>>

\* check_upstream_versions.py reports every difference, and none without an
\* answer.
CheckUpstream ==
    /\ report' \in {IF latest # version THEN "update" ELSE "none", "none"}
    /\ UNCHANGED <<image, version, latest, checks, sums, manifest, torn>>

\* bump_versions.sh changes the version of the Dockerfile first.  CHECKSUMS it
\* rewrites line by line, by a sed of its own for the version, the URL (with
\* the old version replaced in it) and the hash (of what it got from there).
\* Without a file it only changes the version and marks the hash.
BumpedUrl == IF sums.url = version THEN latest ELSE sums.url

VersionedSums == [sums EXCEPT !.version = latest]
MovedSums == [VersionedSums EXCEPT !.url = BumpedUrl]
HashedSums == [MovedSums EXCEPT !.value = Sha256(1, BumpedUrl)]
UnansweredSums == [VersionedSums EXCEPT !.value = Word("NEEDS_UPDATE")]

\* evergreenctl bump marks the hash, and replaces in the URL what the manifest
\* has for the old version (which may be another one).
CtlBumped(file) ==
    {[value |-> Word("NEEDS_UPDATE"), version |-> latest, url |-> url] :
         url \in {file.url, IF file.url = NoUrl THEN NoUrl ELSE latest}}

\* Mutant: without a file the old hash is left standing under the new URL.
BumpLeavesHash ==
    /\ \E ended \in {MovedSums} \cup IF sums.url # NoUrl THEN {HashedSums} ELSE {} :
           sums' \in {ended} \cup CtlBumped(ended)
    /\ version' = latest
    /\ report' = "none"
    /\ torn' = FALSE
    /\ UNCHANGED <<image, latest, checks, manifest>>

\* Where evergreenctl is installed the script hands over to it in the end.
Bump ==
    /\ \E ended \in {UnansweredSums} \cup IF sums.url # NoUrl THEN {HashedSums} ELSE {} :
           sums' \in {ended} \cup CtlBumped(ended)
    /\ version' = latest
    /\ report' = "none"
    /\ torn' = FALSE
    /\ UNCHANGED <<image, latest, checks, manifest>>

\* It is killed, or one of its seds fails, before the hash is written.
BumpCutOff ==
    /\ sums' \in {sums, VersionedSums} \cup IF sums.url # NoUrl THEN {MovedSums} ELSE {}
    /\ version' = latest
    /\ report' = "none"
    /\ torn' = (torn \/ sums'.url # sums.url)
    /\ UNCHANGED <<image, latest, checks, manifest>>

\* evergreenctl bump by itself: an image with a manifest keeps its Dockerfile.
CtlBump ==
    /\ sums' \in CtlBumped(sums)
    /\ version' \in {version, latest}
    /\ report' = "none"
    /\ torn' = FALSE
    /\ UNCHANGED <<image, latest, checks, manifest>>

Release ==
    /\ latest < MaxRelease
    /\ latest' = latest + 1
    /\ UNCHANGED <<image, version, checks, sums, manifest, report, torn>>

Next == \/ PopulateSkips \/ PopulateFails \/ Populate
        \/ Bulk
        \/ RemediateFirst \/ RemediateBatch2
        \/ Integrate
        \/ CheckUpstream \/ Bump \/ BumpCutOff \/ CtlBump \/ Release

Spec == Init /\ [][Next]_vars

-----------------------------------------------------------------------------
(* Properties.                                                             *)

\* The hash of CHECKSUMS is that of the file its URL names, or of a sibling
\* of that very release, whatever sequence of bumps with and without an
\* answer, forced and skipped runs has written it (update_checksums_file and
\* the seds of bump_versions.sh keep the two together) -- unless a bump died
\* between the two seds, and then until the next run that writes a hash.
HashOfItsUrl ==
    sums.value.kind \in HashKinds =>
        sums.value \in {Sha256(1, sums.url), Sha256(Sibling, sums.url)} \/ torn

\* No tool replaces or drops a sha256 or sha512 another one, or an earlier
\* run, has put behind a download: only placeholders, invented hashes and
\* weaker kinds give way.  A sha512 does, too, where the word PENDING stands
\* elsewhere in the file: populate_bulk_checksums.py then takes the image for
\* incomplete and the sha512 for no hash (174, 733 and 687).
RealCheckKept ==
    [][\A d \in Downloads : \A line \in checks[d] :
           line.digest.kind \in Real =>
               line \in checks'[d] \/ (image.marked /\ line.digest.kind = "sha512")]_vars

\* A hash that appears behind a download is of the file's own release, but
\* for the three doors of the code: an unresolved URL takes any of the latest
\* releases, a line that is replaced takes the first download's hash, and
\* integrate takes what CHECKSUMS holds.
NewHashIsOwn ==
    [][\A d \in Downloads : \A line \in checks'[d] \ checks[d] :
           \/ line.digest.file \in {d, Sibling} /\ line.digest.release = version
           \/ ~image.resolved
           \/ With(d, Replaceable) /\ line.digest.file # d /\ line.digest.release = version
           \/ line.digest = sums.value /\ d = 1]_vars

\* populate_checksums.py:17 "0 - All checksums populated successfully": an
\* image counted as verified has a hash in CHECKSUMS.  (Violated, by an image
\* whose CHECKSUMS says NEEDS_UPDATE: 906-914 count it as verified.)
VerifiedMeansHash == report = "verified" => sums.value.kind \in HashKinds

=============================================================================
