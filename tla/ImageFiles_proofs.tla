-------------------------- MODULE ImageFiles_proofs -------------------------
(***************************************************************************)
(* Proofs about the files of an image and the scripts that rewrite them:   *)
(* CHECKSUMS and checks (Checksums), the Dockerfile (ShimWiring) and the   *)
(* scans, issues and deadlines of its CVEs (Cves), for any downloads, any  *)
(* Dockerfiles over any vocabulary, and any images and CVEs.               *)
(***************************************************************************)
EXTENDS Dockerfile_proofs, Checksums, Cves, FiniteSetTheorems

-----------------------------------------------------------------------------
(* CHECKSUMS and checks.                                                   *)
-----------------------------------------------------------------------------
(* The CHECKSUMS file.                                                     *)

\* What HashOfItsUrl needs to be inductive: the CHECKSUMS file is a record
\* of known fields whose URL, if any, names a release.
SumsOK == /\ sums \in SumsFiles
          /\ version \in Releases
          /\ latest \in Releases

\* The invariant of HashOfItsUrl.
HInv == SumsOK /\ HashOfItsUrl

\* Whatever layer of populate_checksums.py answers, it answers with a sha256
\* of the file or of a sibling of the release asked for.
LEMMA AnswerOfRelease ==
    ASSUME NEW r \in Releases, NEW found \in FindChecksumForUrl(1, r)
    PROVE  found \in {Sha256(1, r), Sha256(Sibling, r)}
BY DEF FindChecksumForUrl, LayerChecksumFile, LayerGpg, SignedList, SignedFile,
       LayerMirrors, LayerDownload, Listed, Named, Own

\* The sha256 of a file of a release is a digest of a known kind.
LEMMA Sha256IsDigest ==
    ASSUME NEW f \in {1, Sibling}, NEW r \in Releases
    PROVE  /\ Sha256(f, r) \in Digests
           /\ Sha256(f, r).kind = "sha256"
BY DownloadsAssumption DEF Sha256, Digest, Digests, HashKinds, Words, Sibling

\* A word in place of a digest is of no known kind.
LEMMA WordIsDigest ==
    ASSUME NEW w \in Words
    PROVE  /\ Word(w) \in Digests
           /\ Word(w).kind \notin HashKinds
BY MaxReleaseAssumption DEF Word, Words, Digest, Digests, HashKinds, Releases, Sibling

\* It holds of a file to be populated.
LEMMA HInit == Init => HInv
<1> SUFFICES ASSUME Init PROVE HInv
    OBVIOUS
<1>1. 1 \in Releases
    BY MaxReleaseAssumption DEF Releases
<1>2. Word("N/A") \in Digests /\ Word("PENDING") \in Digests
    BY WordIsDigest DEF Words
<1>3. Word("N/A").kind \notin HashKinds /\ Word("PENDING").kind \notin HashKinds
    BY WordIsDigest DEF Words
<1>4. SumsOK
    BY <1>1, <1>2 DEF Init, SumsOK, SumsFiles
<1>5. HashOfItsUrl
    BY <1>3 DEF Init, HashOfItsUrl
<1> QED
    BY <1>4, <1>5 DEF HInv

\* What a bump makes of CHECKSUMS has its fields.
LEMMA BumpedIsFile ==
    ASSUME SumsOK
    PROVE  /\ VersionedSums \in SumsFiles
           /\ UnansweredSums \in SumsFiles
           /\ sums.url # NoUrl => MovedSums \in SumsFiles /\ HashedSums \in SumsFiles
           /\ \A had \in SumsFiles : CtlBumped(had) \subseteq SumsFiles
<1> USE DEF SumsOK, SumsFiles
<1>1. Word("NEEDS_UPDATE") \in Digests
    BY WordIsDigest DEF Words
<1>2. sums.url # NoUrl => BumpedUrl \in Releases
    BY DEF BumpedUrl
<1>3. sums.url # NoUrl => Sha256(1, BumpedUrl) \in Digests
    BY <1>2, Sha256IsDigest
<1>4. VersionedSums \in SumsFiles
    BY DEF VersionedSums
<1>5. UnansweredSums \in SumsFiles
    BY <1>1, <1>4 DEF UnansweredSums
<1>6. sums.url # NoUrl => MovedSums \in SumsFiles
    BY <1>2, <1>4 DEF MovedSums
<1>7. sums.url # NoUrl => HashedSums \in SumsFiles
    BY <1>3, <1>6 DEF HashedSums
<1>8. ASSUME NEW had \in SumsFiles PROVE CtlBumped(had) \subseteq SumsFiles
    BY <1>1 DEF CtlBumped
<1> QED
    BY <1>4, <1>5, <1>6, <1>7, <1>8

\* Where evergreenctl has been there is no hash.
LEMMA CtlLeavesNoHash ==
    ASSUME NEW had, NEW bumped \in CtlBumped(had)
    PROVE  bumped.value.kind \notin HashKinds
<1>1. Word("NEEDS_UPDATE").kind \notin HashKinds
    BY WordIsDigest DEF Words
<1> QED
    BY <1>1 DEF CtlBumped

\* Whatever run that ends writes CHECKSUMS leaves the hash and the URL of one
\* release, or no hash; a bump that is cut off has changed the URL and says so,
\* or has changed neither.
LEMMA HStep == HInv /\ [Next]_vars => HInv'
<1> SUFFICES ASSUME HInv, [Next]_vars PROVE HInv'
    OBVIOUS
<1> USE DEF HInv, HashOfItsUrl
<1>1. ASSUME UNCHANGED <<version, latest, sums, torn>> PROVE HInv'
    BY <1>1 DEF SumsOK
<1>2. CASE Populate
    <2>1. PICK found \in FindChecksumForUrl(1, version) : sums' = UpdatedSums(found)
        BY <1>2 DEF Populate
    <2>2. found \in {Sha256(1, version), Sha256(Sibling, version)}
        BY <2>1, AnswerOfRelease DEF SumsOK
    <2>3. found \in Digests
        BY <2>2, Sha256IsDigest DEF SumsOK
    <2>4. sums' \in SumsFiles /\ sums'.value = found /\ sums'.url = version
        BY <2>1, <2>3 DEF UpdatedSums, SumsFiles, SumsOK
    <2> QED
        BY <1>2, <2>2, <2>4 DEF Populate, SumsOK
<1>3. CASE Bump
    <2>1. PICK ended \in {UnansweredSums} \cup IF sums.url # NoUrl THEN {HashedSums} ELSE {} :
              sums' \in {ended} \cup CtlBumped(ended)
        BY <1>3 DEF Bump
    <2>2. ended \in SumsFiles
        BY <2>1, BumpedIsFile
    <2>3. SumsOK'
        BY <1>3, <2>1, <2>2, BumpedIsFile DEF Bump, SumsOK
    <2>4. CASE sums' \in CtlBumped(ended)
        BY <2>3, <2>4, CtlLeavesNoHash
    <2>5. CASE sums' = UnansweredSums
        <3>1. sums'.value = Word("NEEDS_UPDATE")
            BY <2>5 DEF UnansweredSums, VersionedSums, SumsOK, SumsFiles
        <3> QED
            BY <2>3, <3>1, WordIsDigest DEF Words
    <2>6. CASE sums.url # NoUrl /\ sums' = HashedSums
        <3>1. sums'.value = Sha256(1, sums'.url)
            BY <2>6 DEF HashedSums, MovedSums, VersionedSums, SumsOK, SumsFiles
        <3> QED
            BY <2>3, <3>1
    <2> QED
        BY <2>1, <2>4, <2>5, <2>6
<1>4. CASE BumpCutOff
    <2>1. /\ sums' \in {sums, VersionedSums} \/ (sums.url # NoUrl /\ sums' = MovedSums)
          /\ version' = latest /\ latest' = latest
          /\ torn' = (torn \/ sums'.url # sums.url)
        BY <1>4 DEF BumpCutOff
    <2>2. SumsOK'
        BY <2>1, BumpedIsFile DEF SumsOK
    <2>3. sums'.value = sums.value
        BY <2>1 DEF MovedSums, VersionedSums, SumsOK, SumsFiles
    <2> QED
        BY <2>1, <2>2, <2>3
<1>5. CASE CtlBump
    <2>1. SumsOK'
        BY <1>5, BumpedIsFile DEF CtlBump, SumsOK
    <2> QED
        BY <1>5, <2>1, CtlLeavesNoHash DEF CtlBump
<1>6. CASE Release
    BY <1>6, MaxReleaseAssumption DEF Release, Releases, SumsOK
<1>7. CASE PopulateSkips \/ PopulateFails \/ Bulk \/ RemediateFirst \/ RemediateBatch2
           \/ Integrate \/ CheckUpstream \/ UNCHANGED vars
    <2>1. UNCHANGED <<version, latest, sums, torn>>
        BY <1>7 DEF PopulateSkips, PopulateFails, Bulk, RemediateFirst, RemediateBatch2,
                    Remediate, Integrate, CheckUpstream, vars
    <2> QED
        BY <1>1, <2>1
<1> QED
    BY <1>2, <1>3, <1>4, <1>5, <1>6, <1>7 DEF Next

\* The hash of a CHECKSUMS file belongs to the URL beside it, after any
\* sequence of bumps, with and without an answer, and of populating runs,
\* but for a bump that died between the two.
THEOREM HashAlwaysOfItsUrl == Spec => []HashOfItsUrl
<1>1. HInv => HashOfItsUrl
    BY DEF HInv
<1> QED
    BY HInit, HStep, <1>1, PTL DEF Spec

-----------------------------------------------------------------------------
(* The verification lines.                                                 *)

\* The first of some downloads is one of them.
LEMMA FirstIsIn ==
    ASSUME NEW S \in SUBSET Downloads, S # {}
    PROVE  First(S) \in S
<1>1. \E d \in S : \A e \in S : d <= e
    BY LeastNatural, DownloadsAssumption
<1> QED
    BY <1>1 DEF First

\* All that RealCheckKept needs of the past: each download has its lines.
ChecksOK == checks = [d \in Downloads |-> checks[d]]

\* What makes way for a digest is no real check, unless it is a sha512 of a
\* file that has the word PENDING elsewhere.
LEMMA ReplaceableIsWeak ==
    ASSUME ~HasRealChecksum,
           NEW d \in Downloads, NEW line \in checks[d], line.digest.kind \in Real
    PROVE  line.digest.kind \notin Replaceable \/ (image.marked /\ line.digest.kind = "sha512")
<1>1. line.digest.kind \in KindsIn
    BY DEF KindsIn, Lines
<1>2. KindsIn \ {"md5"} # {} /\ KindsIn \cap Real # {}
    BY <1>1 DEF Real
<1>3. HasPending
    BY <1>2 DEF HasRealChecksum
<1>4. CASE "PENDING" \in KindsIn
    BY <1>4 DEF Replaceable, Real
<1>5. CASE "PENDING" \notin KindsIn
    <2>1. image.marked
        BY <1>3, <1>5 DEF HasPending
    <2> QED
        BY <1>5, <2>1 DEF Replaceable, Real
<1> QED
    BY <1>4, <1>5

\* The line that is replaced is there.
LEMMA ReplacedKeeps ==
    ASSUME ChecksOK, ~HasRealChecksum, KindsIn \cap Replaceable # {}, NEW digest,
           NEW d \in Downloads, NEW line \in checks[d], line.digest.kind \in Real
    PROVE  /\ Replaced(digest) = [e \in Downloads |-> Replaced(digest)[e]]
           /\ line \in Replaced(digest)[d] \/ (image.marked /\ line.digest.kind = "sha512")
<1> DEFINE holders == {e \in Downloads : With(e, Replaceable)}
           f == First(holders)
           old == CHOOSE l \in checks[f] : l.digest.kind \in Replaceable
<1>2. holders # {}
    BY DEF KindsIn, Lines, With
<1>3. f \in holders
    BY <1>2, FirstIsIn
<1>4. \E l \in checks[f] : l.digest.kind \in Replaceable
    BY <1>3 DEF With
<1>5. old.digest.kind \in Replaceable
    BY <1>4
<1>6. line # old \/ (image.marked /\ line.digest.kind = "sha512")
    BY <1>5, ReplaceableIsWeak
<1>7. Replaced(digest) = [checks EXCEPT ![f] = (@ \ {old}) \cup {Line(digest, old.gate)}]
    BY DEF Replaced
<1> HIDE DEF holders, f, old
<1>8. Replaced(digest)[d] = IF d = f THEN (checks[d] \ {old}) \cup {Line(digest, old.gate)}
                                     ELSE checks[d]
    BY <1>7 DEF ChecksOK
<1>9. Replaced(digest) = [e \in Downloads |-> Replaced(digest)[e]]
    BY <1>7 DEF ChecksOK
<1> QED
    BY <1>6, <1>8, <1>9

\* Every step keeps the lines of the downloads and every real check in them.
Kept == \A d \in Downloads : \A line \in checks[d] :
            line.digest.kind \in Real =>
                line \in checks'[d] \/ (image.marked /\ line.digest.kind = "sha512")

\* Every step keeps checks a function, and a real check of a line stays.
LEMMA ChecksStep == ChecksOK /\ [Next]_vars => ChecksOK' /\ Kept
<1> SUFFICES ASSUME ChecksOK, [Next]_vars PROVE ChecksOK' /\ Kept
    OBVIOUS
<1>1. CASE UNCHANGED checks
    BY <1>1 DEF ChecksOK, Kept
<1>2. CASE Bulk
    <2>1. PICK answers : BulkReplaces(answers) \/ BulkInserts(answers)
        BY <1>2 DEF Bulk
    <2>2. ~HasRealChecksum
        BY <1>2 DEF Bulk
    <2>3. CASE BulkReplaces(answers)
        <3> DEFINE digest == answers[First(DOMAIN answers)]
        <3>1. checks' = Replaced(digest) /\ KindsIn \cap Replaceable # {}
            BY <2>3 DEF BulkReplaces
        <3>2. ChecksOK'
            BY <3>1 DEF ChecksOK, Replaced
        <3>3. Kept
            BY <2>2, <3>1, ReplacedKeeps DEF Kept
        <3> QED
            BY <3>2, <3>3
    <2>4. CASE BulkInserts(answers)
        BY <2>4 DEF BulkInserts, ChecksOK, Kept
    <2> QED
        BY <2>1, <2>3, <2>4
<1>3. ASSUME NEW new, checks' = [checks EXCEPT ![1] = @ \cup {new}]
      PROVE  ChecksOK' /\ Kept
    <2>1. \A d \in Downloads : checks'[d] = IF d = 1 THEN checks[d] \cup {new} ELSE checks[d]
        BY <1>3 DEF ChecksOK
    <2>2. ChecksOK'
        BY <1>3 DEF ChecksOK
    <2> QED
        BY <2>1, <2>2 DEF Kept
<1>4. CASE RemediateFirst \/ RemediateBatch2 \/ Integrate
    <2>1. \E new : checks' = [checks EXCEPT ![1] = @ \cup {new}]
        BY <1>4 DEF RemediateFirst, RemediateBatch2, Remediate, Integrate
    <2> QED
        BY <1>3, <2>1
<1>5. CASE PopulateSkips \/ PopulateFails \/ Populate \/ CheckUpstream \/ Bump \/ BumpCutOff \/ CtlBump \/ Release
           \/ UNCHANGED vars
    BY <1>1, <1>5 DEF PopulateSkips, PopulateFails, Populate, CheckUpstream, Bump, BumpCutOff, CtlBump,
                     Release, vars
<1> QED
    BY <1>2, <1>4, <1>5 DEF Next

\* No tool drops or replaces a real check, in whatever order they run.
THEOREM RealChecksStay == Spec => RealCheckKept
<1>1. Init => ChecksOK
    BY DEF Init, ChecksOK
<1>2. ChecksOK /\ [Next]_vars => [Kept]_vars
    BY ChecksStep
<1> QED
    BY <1>1, <1>2, ChecksStep, PTL DEF Spec, RealCheckKept, Kept

\* What a lookup for a download of a release returns.
OfRelease(digest, d, release) ==
    /\ digest.file \in {d, Sibling}
    /\ digest.release = release

\* What populate_checksums.py finds is of the release it looks for.
LEMMA FoundOfRelease ==
    ASSUME NEW d, NEW release, NEW digest \in FindChecksum(d, release)
    PROVE  OfRelease(digest, d, release)
<1> USE DEF OfRelease, Digest, Sha256, Named
<1>1. ASSUME digest \in Own(d, release) \cup Listed(d, release)
      PROVE  OfRelease(digest, d, release)
    BY <1>1 DEF Own, Listed
<1>2. ASSUME NEW kinds, NEW files \in SUBSET {d, Sibling},
             digest \in {Digest(k, f, release) : k \in kinds, f \in files}
      PROVE  OfRelease(digest, d, release)
    BY <1>2
<1>3. CASE digest \in SiteChecksum(d, release)
    BY <1>1, <1>2, <1>3 DEF SiteChecksum
<1> QED
    BY <1>1, <1>3 DEF FindChecksum

\* Every line that appears behind a download comes through its own lookup or
\* one of the three doors.
Sourced(d, line) ==
    \/ OfRelease(line.digest, d, version)
    \/ ~image.resolved
    \/ With(d, Replaceable) /\ line.digest.file # d /\ line.digest.release = version
    \/ line.digest = sums.value /\ d = 1

\* Every line a step adds.
AllSourced == \A d \in Downloads : \A line \in checks'[d] \ checks[d] : Sourced(d, line)

\* A line that is replaced gives its place to a digest of the release.
LEMMA ReplacedSourced ==
    ASSUME ChecksOK, KindsIn \cap Replaceable # {},
           NEW e \in Downloads, NEW digest, OfRelease(digest, e, version),
           checks' = Replaced(digest)
    PROVE  AllSourced
<1> DEFINE holders == {d \in Downloads : With(d, Replaceable)}
           f == First(holders)
           old == CHOOSE l \in checks[f] : l.digest.kind \in Replaceable
<1>2. holders # {}
    BY DEF KindsIn, Lines, With
<1>3. f \in holders
    BY <1>2, FirstIsIn
<1>7. With(f, Replaceable) /\ f \in Downloads
    BY <1>3
<1>8. checks' = [checks EXCEPT ![f] = (@ \ {old}) \cup {Line(digest, old.gate)}]
    BY DEF Replaced
<1> HIDE DEF holders, f, old
<1>9. ASSUME NEW d \in Downloads, NEW line \in checks'[d] \ checks[d]
      PROVE  d = f /\ line.digest = digest
    BY <1>8, <1>9 DEF ChecksOK, Line
<1>10. Sibling \notin Downloads
    BY DownloadsAssumption DEF Sibling
<1> QED
    BY <1>7, <1>9, <1>10 DEF AllSourced, Sourced, OfRelease

\* Whatever the step, every line it adds is sourced.
LEMMA SourcedStep == ChecksOK /\ [Next]_vars => AllSourced
<1> SUFFICES ASSUME ChecksOK, [Next]_vars PROVE AllSourced
    OBVIOUS
<1>1. CASE UNCHANGED checks
    BY <1>1 DEF AllSourced
<1>2. CASE ~image.resolved
    BY <1>2 DEF AllSourced, Sourced
<1>3. CASE Bulk /\ image.resolved
    <2>1. PICK found \in (SUBSET Downloads) \ {{}} :
              \E answers \in [found -> UNION {BulkAnswers(d) : d \in found}] :
                  /\ \A d \in found : answers[d] \in BulkAnswers(d)
                  /\ BulkReplaces(answers) \/ BulkInserts(answers)
        BY <1>3 DEF Bulk
    <2>2. PICK answers \in [found -> UNION {BulkAnswers(d) : d \in found}] :
              /\ \A d \in found : answers[d] \in BulkAnswers(d)
              /\ BulkReplaces(answers) \/ BulkInserts(answers)
        BY <2>1
    <2>3. \A d \in found : OfRelease(answers[d], d, version)
        BY <1>3, <2>2, FoundOfRelease DEF BulkAnswers
    <2>4. DOMAIN answers = found
        BY <2>2
    <2>5. CASE BulkReplaces(answers)
        <3> DEFINE e == First(found)
        <3>1. e \in found /\ e \in Downloads
            BY <2>1, FirstIsIn
        <3>2. checks' = Replaced(answers[e]) /\ KindsIn \cap Replaceable # {}
            BY <2>4, <2>5 DEF BulkReplaces
        <3> HIDE DEF e
        <3> QED
            BY <2>3, <3>1, <3>2, ReplacedSourced
    <2>6. CASE BulkInserts(answers)
        <3>1. ASSUME NEW d \in Downloads, NEW line \in checks'[d] \ checks[d]
              PROVE  d \in found /\ line = Inserted(answers[d])
            BY <2>4, <2>6, <3>1 DEF BulkInserts
        <3>2. ASSUME NEW d \in found PROVE OfRelease(Inserted(answers[d]).digest, d, version)
            BY <2>3, <3>2 DEF Inserted, Line, OfRelease
        <3> QED
            BY <3>1, <3>2 DEF AllSourced, Sourced
    <2> QED
        BY <2>2, <2>5, <2>6
<1>4. ASSUME NEW digest, NEW gate, OfRelease(digest, 1, version) \/ digest = sums.value,
             checks' = [checks EXCEPT ![1] = @ \cup {Line(digest, gate)}]
      PROVE  AllSourced
    <2>1. ASSUME NEW d \in Downloads, NEW line \in checks'[d] \ checks[d]
          PROVE  d = 1 /\ line.digest = digest
        BY <1>4, <2>1 DEF ChecksOK, Line
    <2> QED
        BY <1>4, <2>1 DEF AllSourced, Sourced
<1>5. CASE RemediateFirst \/ RemediateBatch2 \/ Integrate
    <2>1. \A digest \in Batch2Answers(1, version) \cup RemediationAnswers(1, version) :
              OfRelease(digest, 1, version)
        BY FoundOfRelease DEF Batch2Answers, RemediationAnswers, FindChecksum
    <2>2. \E digest, gate : /\ OfRelease(digest, 1, version) \/ digest = sums.value
                            /\ checks' = [checks EXCEPT ![1] = @ \cup {Line(digest, gate)}]
        BY <1>5, <2>1 DEF RemediateFirst, RemediateBatch2, Remediate, Integrate
    <2> QED
        BY <1>4, <2>2
<1>6. CASE PopulateSkips \/ PopulateFails \/ Populate \/ CheckUpstream \/ Bump \/ BumpCutOff \/ CtlBump \/ Release
           \/ UNCHANGED vars
    BY <1>1, <1>6 DEF PopulateSkips, PopulateFails, Populate, CheckUpstream, Bump, BumpCutOff, CtlBump,
                     Release, vars
<1> QED
    BY <1>2, <1>3, <1>5, <1>6 DEF Next

\* A hash that appears behind a download is its own, but for the three doors.
THEOREM NewHashesAreOwn == Spec => NewHashIsOwn
<1>1. Init => ChecksOK
    BY DEF Init, ChecksOK
<1>2. AllSourced =>
          \A d \in Downloads : \A line \in checks'[d] \ checks[d] :
              \/ line.digest.file \in {d, Sibling} /\ line.digest.release = version
              \/ ~image.resolved
              \/ With(d, Replaceable) /\ line.digest.file # d /\ line.digest.release = version
              \/ line.digest = sums.value /\ d = 1
    BY DEF AllSourced, Sourced, OfRelease
<1> QED
    BY <1>1, <1>2, ChecksStep, SourcedStep, PTL DEF Spec, NewHashIsOwn

-----------------------------------------------------------------------------
(* wire_db_shims.py, wire_backup_schedules.py and wire_observability.py.   *)

\* What a script that only adds variables, or changes words, keeps.
WiringKept(f, g, facts) == Keeps(f, g) /\ NamesKept(f, g, facts)

\* A step of wire_db_shims.py keeps the wiring and what parses.
LEMMA DbShimKeeps ==
    ASSUME Formed(file), WireDbShim
    PROVE  WiringKept(file, file', known) /\ (Parses(file) => Parses(file'))
<1> DEFINE wired == [i \in DOMAIN file |-> IF i \in Stages(file, "health-shim")
                                          THEN Is("FROM", Exec(<<"db-shim">>)) ELSE file[i]]
<1>1. file' = IF HasBlock(wired, DbEnv) THEN wired ELSE AfterUsers(wired, LinesOf(wired, "USER"), DbEnv)
    BY DEF WireDbShim
<1>2. Reworded(file, wired) /\ \A facts : NamesKept(file, wired, facts)
    BY StageReworded
<1> HIDE DEF wired
<1>3. Keeps(file, wired) /\ (Parses(file) => Parses(wired))
    BY <1>2, RewordedKeeps
<1>4. Formed(wired)
    BY <1>3 DEF Keeps
<1> DEFINE g == AfterUsers(wired, LinesOf(wired, "USER"), DbEnv)
<1>5. Trails(DbEnv) /\ Instruction(DbEnv)
    <2>1. {"SHIM_BACKUP_ENABLED=false", "SHIM_BACKUP_DB_PORT", "SHIM_AUDIT_ENABLED"} \subseteq ShimVariables
        BY DEF ShimVariables
    <2> QED
        BY <2>1, EnvBlockTrails DEF DbEnv
<1>6. \A i \in DOMAIN wired : i \in LinesOf(wired, "USER") => wired[i].op # "blank" /\ ~wired[i].more
    BY <1>4, FormedLines DEF LinesOf, Continuable
<1>7. Keeps(wired, g) /\ (\A facts : NamesKept(wired, g, facts)) /\ (Parses(wired) => Parses(g))
    BY <1>4, <1>5, <1>6, AfterUsersKeeps
<1> HIDE DEF g
<1>8. Keeps(file, g) /\ \A facts : NamesKept(file, g, facts)
    BY <1>2, <1>3, <1>7, KeepsTransitive
<1>9. file' = wired \/ file' = g
    BY <1>1 DEF g
<1>10. CASE file' = wired
    <2>1. NamesKept(file, wired, known)
        BY <1>2
    <2> QED
        BY <1>3, <1>10, <2>1 DEF WiringKept
<1>11. CASE file' = g
    <2>1. NamesKept(file, g, known)
        BY <1>8
    <2> QED
        BY <1>3, <1>7, <1>8, <1>11, <2>1 DEF WiringKept
<1> QED
    BY <1>9, <1>10, <1>11

\* A step of wire_backup_schedules.py keeps the wiring, and what parses unless it
\* puts its variables into the middle of another block.
LEMMA BackupKeeps ==
    ASSUME Formed(file), WireBackupSchedule
    PROVE  /\ WiringKept(file, file', known)
           /\ Parses(file) => Parses(file') \/ Sets(file, "SHIM_BACKUP_ENABLED=false")
<1> DEFINE wired == WithBackupEnabled(file)
           late == AfterUsers(wired, FirstPort(file), BackupVars)
           fresh == AfterUsers(file, {FirstLine(file, "USER")}, BackupEnv)
<1>1. file' = IF Sets(file, "SHIM_BACKUP_SCHEDULE") THEN wired
              ELSE IF Sets(file, "SHIM_BACKUP_ENABLED=false") THEN late ELSE fresh
    BY DEF WireBackupSchedule
<1>2. Trails(BackupEnv) /\ Instruction(BackupEnv) /\ Trails(BackupVars)
    <2>1. {"SHIM_BACKUP_ENABLED=true", "SHIM_BACKUP_SCHEDULE", "SHIM_BACKUP_OUTPUT_DIR"} \subseteq ShimVariables
        BY DEF ShimVariables
    <2> QED
        BY <2>1, EnvBlockTrails DEF BackupEnv, BackupVars
<1>3. Reworded(file, wired) /\ \A facts : NamesKept(file, wired, facts)
    BY BackupReworded
<1>4. Keeps(file, wired) /\ (Parses(file) => Parses(wired)) /\ Formed(wired)
    BY <1>3, RewordedKeeps DEF Keeps
<1>5. \A i \in DOMAIN wired : i \in FirstPort(file) => wired[i].op # "blank"
    <2>1. \A i \in DOMAIN wired : i \in DOMAIN file /\ wired[i].op = file[i].op
        <3>1. DOMAIN wired = DOMAIN file
            BY DEF WithBackupEnabled
        <3> QED
            BY <1>3, <3>1 DEF Reworded
    <2>2. \A i \in FirstPort(file) : file[i].op \in {"ENV", "var"}
        BY DEF FirstPort, Ports, LinesOf
    <2> HIDE DEF wired
    <2> QED
        BY <2>1, <2>2
<1>6. Keeps(wired, late) /\ \A facts : NamesKept(wired, late, facts)
    <2> HIDE DEF wired
    <2> QED
        BY <1>2, <1>4, <1>5, AfterUsersKeeps
<1>7. \A i \in DOMAIN file : i \in {FirstLine(file, "USER")} => file[i].op # "blank" /\ ~file[i].more
    <2> SUFFICES ASSUME NEW i \in DOMAIN file, i = FirstLine(file, "USER")
                 PROVE  file[i].op # "blank" /\ ~file[i].more
        OBVIOUS
    <2>1. DOMAIN file = 1..Len(file) /\ Len(file) \in Nat
        BY FormedLines
    <2>2. LinesOf(file, "USER") # {}
        <3> SUFFICES ASSUME LinesOf(file, "USER") = {} PROVE FALSE
            OBVIOUS
        <3>1. i = 0
            BY DEF FirstLine
        <3> QED
            BY <2>1, <3>1
    <2>3. LinesOf(file, "USER") \in SUBSET (1..Len(file))
        BY <2>1 DEF LinesOf
    <2>4. i \in LinesOf(file, "USER")
        BY <2>1, <2>2, <2>3, MinLine DEF FirstLine
    <2> QED
        BY <2>4, FormedLines DEF LinesOf, Continuable
<1>8. /\ Keeps(file, fresh) /\ \A facts : NamesKept(file, fresh, facts)
      /\ Parses(file) => Parses(fresh)
    BY <1>2, <1>7, AfterUsersKeeps
<1> HIDE DEF wired, late, fresh
<1>9. Keeps(file, late) /\ \A facts : NamesKept(file, late, facts)
    BY <1>3, <1>4, <1>6, KeepsTransitive
<1>10. NamesKept(file, wired, known) /\ NamesKept(file, late, known) /\ NamesKept(file, fresh, known)
    BY <1>3, <1>8, <1>9
<1>11. file' = wired \/ (file' = late /\ Sets(file, "SHIM_BACKUP_ENABLED=false")) \/ file' = fresh
    BY <1>1
<1> QED
    BY <1>4, <1>8, <1>9, <1>10, <1>11 DEF WiringKept

\* A step of wire_observability.py keeps the wiring, and what parses unless a block
\* of the shim's variables goes on with others.
LEMMA ObservabilityKeeps ==
    ASSUME Formed(file), WireObservability
    PROVE  /\ WiringKept(file, file', known)
           /\ Parses(file) => Parses(file') \/ \E i \in ShimEnvBlocks(file) : file[BlockEnd(file, i)].more
<1>1. Grows(file, file')
    BY ObservedGrows DEF WireObservability
<1>2. NamesKept(file, file', known)
    BY <1>1 DEF Grows
<1> QED
    BY <1>1, <1>2 DEF Grows, WiringKept, BlocksClosed

-----------------------------------------------------------------------------
(* fix_entrypoints.py.                                                     *)

\* The words of a line are those its arguments say.
LEMMA WordsSaid ==
    ASSUME NEW args \in Seq(Seq(Vocabulary))
    PROVE  /\ WordsIn(args) \in Seq(Vocabulary)
           /\ \A word \in ToSet(WordsIn(args)) : Says(args, word)
<1>1. CASE Len(args) = 0
    <2>1. args = <<>>
        BY <1>1
    <2>2. WordsIn(args) = <<>>
        BY <1>1, <2>1 DEF WordsIn, FlattenSeq
    <2>3. ToSet(<<>>) = {}
        BY DEF ToSet
    <2> QED
        BY <2>2, <2>3
<1>2. CASE Len(args) # 0
    <2> DEFINE words == WordsIn(args)
    <2>1. words \in Seq(Vocabulary) /\ \E start : LaidOut(words, args, start)
        BY <1>2, FlattenLaysOut DEF WordsIn
    <2> HIDE DEF words
    <2>2. PICK start : LaidOut(words, args, start)
        BY <2>1
    <2>3. \A w \in 1..Len(words) : \E i \in 1..Len(args) : \E k \in 1..Len(args[i]) : w = start[i] + k - 1
        BY <2>2 DEF LaidOut
    <2>4. \A i \in 1..Len(args) : \A k \in 1..Len(args[i]) : words[start[i] + k - 1] = args[i][k]
        BY <2>2 DEF LaidOut
    <2>5. ASSUME NEW word \in ToSet(words) PROVE Says(args, word)
        <3>1. PICK w \in 1..Len(words) : words[w] = word
            BY <2>1 DEF ToSet
        <3>2. PICK i \in 1..Len(args) : \E k \in 1..Len(args[i]) : w = start[i] + k - 1
            BY <2>3
        <3>3. PICK k \in 1..Len(args[i]) : w = start[i] + k - 1
            BY <3>2
        <3>4. args[i][k] = word
            BY <2>4, <3>1, <3>3
        <3>5. args[i] \in Seq(Vocabulary) /\ k \in DOMAIN args[i] /\ i \in DOMAIN args
            OBVIOUS
        <3>6. word \in ToSet(args[i]) /\ args[i] \in ToSet(args)
            BY <3>4, <3>5 DEF ToSet
        <3> QED
            BY <3>6 DEF Says
    <2> QED
        BY <2>1, <2>5 DEF words
<1> QED
    BY <1>1, <1>2

\* The two new arguments of an ENTRYPOINT that has two.
LEMMA FourArguments ==
    ASSUME NEW S, NEW a \in S, NEW b \in S, NEW c \in S, NEW d \in S
    PROVE  /\ <<a, b>> \o <<c, d>> \in Seq(S) /\ Len(<<a, b>> \o <<c, d>>) = 4
           /\ (<<a, b>> \o <<c, d>>)[1] = a /\ (<<a, b>> \o <<c, d>>)[2] = b
           /\ (<<a, b>> \o <<c, d>>)[3] = c /\ (<<a, b>> \o <<c, d>>)[4] = d
           /\ ToSet(<<a, b>> \o <<c, d>>) = {a, b, c, d}
<1> DEFINE s == <<a, b>>
           t == <<c, d>>
           u == s \o t
<1>1. /\ s \in Seq(S) /\ Len(s) = 2 /\ s[1] = a /\ s[2] = b
      /\ t \in Seq(S) /\ Len(t) = 2 /\ t[1] = c /\ t[2] = d
    OBVIOUS
<1> HIDE DEF s, t
<1>2. /\ u \in Seq(S) /\ Len(u) = Len(s) + Len(t)
      /\ \A w \in 1..Len(s) : u[w] = s[w]
      /\ \A k \in 1..Len(t) : u[Len(s) + k] = t[k]
    <2>1. s \in Seq(S) /\ t \in Seq(S)
        BY <1>1
    <2> QED
        BY <2>1, Concatenated
<1> HIDE DEF u
<1>3. Len(u) = 4 /\ u[1] = a /\ u[2] = b /\ u[3] = c /\ u[4] = d
    BY <1>1, <1>2
<1>4. ToSet(u) = {a, b, c, d}
    <2>1. DOMAIN u = {1, 2, 3, 4}
        <3>1. DOMAIN u = 1..4
            <4>1. u \in Seq(S) /\ DOMAIN u = 1..Len(u)
                BY <1>2
            <4> QED
                BY <1>3, <4>1
        <3>2. 1..4 = {1, 2, 3, 4}
            OBVIOUS
        <3> QED
            BY <3>1, <3>2
    <2> QED
        BY <1>3, <2>1 DEF ToSet
<1> QED
    BY <1>2, <1>3, <1>4 DEF u, s, t

\* A step of fix_entrypoints.py keeps the wiring and what parses.
LEMMA FixEntrypointKeeps ==
    ASSUME WellWritten(file, known), FixEntrypoint
    PROVE  WiringKept(file, file', known) /\ (Parses(file) => Parses(file'))
<1> DEFINE bare == BareEntrypoint(file)
           binary == BinaryFor(file)
           more == <<Arg("-c"), binary>>
           g == [i \in DOMAIN file |-> IF i \in bare THEN [file[i] EXCEPT !.args = @ \o more] ELSE file[i]]
<1>1. file' = g
    BY DEF FixEntrypoint
<1>2. Formed(file) /\ known \in Facts /\ (RunsDeprecated(file) => ~NamesCanonical(file, known))
    BY WellWrittenFormed
<1>3. /\ Len(file) \in Nat \ {0} /\ DOMAIN file = 1..Len(file)
      /\ \A i \in DOMAIN file : file[i] \in TextLines /\ file[i].args \in Seq(Seq(Vocabulary))
    BY <1>2, FormedLines
<1>4. /\ binary \in Seq(Vocabulary)
      /\ Canonical \in ToSet(binary) => NamesCanonical(file, known)
    <2>1. CASE known.names
        <3>1. binary = known.program
            BY <2>1 DEF BinaryFor
        <3> QED
            BY <1>2, <3>1 DEF Facts, NamesCanonical
    <2>2. CASE ~known.names
        <3> DEFINE args == DetectCmdArgs(file)
        <3>1. binary = WordsIn(args)
            BY <2>2 DEF BinaryFor
        <3>2. CASE LinesOf(file, "CMD") = {}
            <4>1. args = <<>>
                BY <3>2 DEF DetectCmdArgs, FirstLine, ArgsAt
            <4>2. WordsIn(<<>>) = <<>> /\ ToSet(<<>>) = {}
                BY DEF WordsIn, FlattenSeq, ToSet
            <4>3. binary = <<>>
                BY <3>1, <4>1, <4>2
            <4> HIDE DEF binary
            <4>4. <<>> \in Seq(Vocabulary)
                OBVIOUS
            <4> QED
                BY <4>2, <4>3, <4>4
        <3>3. CASE LinesOf(file, "CMD") # {}
            <4> DEFINE c == Min(LinesOf(file, "CMD"))
            <4>1. LinesOf(file, "CMD") \in SUBSET (1..Len(file))
                BY <1>3 DEF LinesOf
            <4>2. c \in LinesOf(file, "CMD")
                BY <1>3, <3>3, <4>1, MinLine
            <4> HIDE DEF c
            <4>3. c \in DOMAIN file /\ c # 0
                BY <1>3, <4>2 DEF LinesOf
            <4>4. args = file[c].args
                <5>1. FirstLine(file, "CMD") = c
                    BY <3>3 DEF FirstLine, c
                <5> QED
                    BY <4>3, <5>1 DEF DetectCmdArgs, ArgsAt
            <4> HIDE DEF args
            <4>5. args \in Seq(Seq(Vocabulary))
                BY <1>3, <4>3, <4>4
            <4>6. binary \in Seq(Vocabulary) /\ (Canonical \in ToSet(binary) => Says(args, Canonical))
                BY <3>1, <4>5, WordsSaid
            <4> QED
                BY <4>2, <4>4, <4>6 DEF NamesCanonical
        <3> QED
            BY <3>2, <3>3
    <2> QED
        BY <2>1, <2>2
<1> HIDE DEF g, bare, binary
<1>5. ASSUME NEW i \in bare
      PROVE  \E path \in ShimPaths :
               /\ file[i].op = "ENTRYPOINT" /\ i \in DOMAIN file
               /\ file[i].args = <<Arg(path), Arg("run")>>
    <2>1. PICK path \in ShimPaths : file[i].args = Exec(<<path, "run">>)
        BY DEF bare, BareEntrypoint
    <2> QED
        BY <2>1, ExecPair DEF bare, BareEntrypoint, LinesOf
<1>6. \A path \in ShimPaths : Arg(path) \in Seq(Vocabulary)
    BY ScriptWordsTyped DEF ScriptWords
<1>7. Arg("run") \in Seq(Vocabulary) /\ Arg("-c") \in Seq(Vocabulary)
    BY ScriptWordsTyped DEF ScriptWords
<1>8. ASSUME NEW path \in ShimPaths
      PROVE  LET args == <<Arg(path), Arg("run")>> \o more
             IN  /\ args \in Seq(Seq(Vocabulary)) /\ Len(args) = 4 /\ args[1] = Arg(path)
                 /\ args[2] = Arg("run") /\ args[3] = Arg("-c")
                 /\ ToSet(args) = {Arg(path), Arg("run"), Arg("-c"), binary}
    <2>1. Arg(path) \in Seq(Vocabulary)
        BY <1>6
    <2> QED
        BY <1>4, <1>7, <2>1, FourArguments
<1>9. ASSUME NEW path \in ShimPaths, path = Deprecated,
             NEW args, ToSet(args) = {Arg(path), Arg("run"), Arg("-c"), binary}, Says(args, Canonical)
      PROVE  NamesCanonical(file, known)
    <2>1. PICK arg \in {Arg(path), Arg("run"), Arg("-c"), binary} : Canonical \in ToSet(arg)
        BY <1>9 DEF Says
    <2>2. ToSet(Arg(path)) = {path} /\ ToSet(Arg("run")) = {"run"} /\ ToSet(Arg("-c")) = {"-c"}
        BY DEF ToSet, Arg
    <2>3. Canonical # path /\ Canonical # "run" /\ Canonical # "-c"
        BY <1>9 DEF Canonical, Deprecated
    <2>4. arg = binary
        BY <2>1, <2>2, <2>3
    <2> QED
        BY <1>4, <2>1, <2>4
<1>10. ASSUME NEW i \in DOMAIN file
       PROVE  /\ g[i] \in TextLines /\ g[i].op = file[i].op /\ g[i].more = file[i].more
              /\ i \in bare => g[i].args = file[i].args \o more
              /\ i \notin bare => g[i].args = file[i].args
    <2>1. CASE i \in bare
        <3>1. PICK path \in ShimPaths : file[i].args = <<Arg(path), Arg("run")>>
            BY <1>5, <2>1
        <3> DEFINE args == file[i].args \o more
        <3>2. args \in Seq(Seq(Vocabulary))
            BY <1>8, <3>1
        <3>3. g[i] = [file[i] EXCEPT !.args = args]
            BY <2>1 DEF g
        <3> HIDE DEF args
        <3>4. file[i] \in TextLines
            BY <1>3
        <3>5. g[i] \in TextLines /\ g[i].op = file[i].op /\ g[i].more = file[i].more /\ g[i].args = args
            BY <3>2, <3>3, <3>4 DEF TextLines
        <3> QED
            BY <2>1, <3>5 DEF args
    <2>2. CASE i \notin bare
        BY <1>3, <2>2 DEF g
    <2> QED
        BY <2>1, <2>2
<1>11. g \in Seq(TextLines) /\ Len(g) = Len(file)
    <2>1. g = [i \in 1..Len(file) |-> g[i]] /\ DOMAIN g = 1..Len(file)
        BY <1>3 DEF g
    <2> QED
        BY <1>3, <1>10, <2>1
<1>12. \A i \in bare : RunsDeprecated(file) \/ file[i].args = <<Arg(Canonical), Arg("run")>>
    <2> SUFFICES ASSUME NEW i \in bare, file[i].args # <<Arg(Canonical), Arg("run")>> PROVE RunsDeprecated(file)
        OBVIOUS
    <2>1. i \in LinesOf(file, "ENTRYPOINT") /\ file[i].args = <<Arg(Deprecated), Arg("run")>>
        BY <1>5 DEF ShimPaths, LinesOf
    <2>2. IsPrefix(Exec(<<Deprecated, "run">>), file[i].args)
        <3>1. Arg(Deprecated) \in Seq(Vocabulary) /\ file[i].args \in Seq(Seq(Vocabulary))
            BY <1>3, <1>5, <1>6 DEF ShimPaths
        <3>2. Len(file[i].args) >= 2 /\ file[i].args[1] = Arg(Deprecated) /\ file[i].args[2] = Arg("run")
            BY <2>1
        <3>3. IsPrefix(<<Arg(Deprecated), Arg("run")>>, file[i].args)
            BY <1>7, <3>1, <3>2, PrefixPair
        <3> QED
            BY <3>3, ExecPair
    <2> QED
        BY <2>1, <2>2 DEF RunsDeprecated
<1>13. ASSUME NEW i \in bare
       PROVE  /\ RunsShim(g[i].args)
              /\ RunsOld(g[i].args) => RunsOld(file[i].args)
              /\ Says(g[i].args, Canonical) => Says(file[i].args, Canonical)
    <2>1. PICK path \in ShimPaths : file[i].args = <<Arg(path), Arg("run")>> /\ i \in DOMAIN file
        BY <1>5
    <2> DEFINE args == g[i].args
    <2>2. /\ args \in Seq(Seq(Vocabulary)) /\ Len(args) = 4 /\ args[1] = Arg(path)
          /\ args[2] = Arg("run") /\ args[3] = Arg("-c")
          /\ ToSet(args) = {Arg(path), Arg("run"), Arg("-c"), binary}
        BY <1>8, <1>10, <2>1
    <2> HIDE DEF args
    <2>3. CASE path = Deprecated
        <3>1. RunsDeprecated(file)
            <4>1. Arg(Deprecated) # Arg(Canonical)
                BY DEF Arg, Deprecated, Canonical
            <4>2. file[i].args # <<Arg(Canonical), Arg("run")>>
                BY <2>1, <2>3, <4>1
            <4> QED
                BY <1>12, <4>2
        <3>2. ~NamesCanonical(file, known)
            BY <1>2, <3>1
        <3>3. ~Says(args, Canonical)
            BY <1>9, <2>2, <2>3, <3>2
        <3>4. RunsOld(file[i].args)
            <4>1. Arg(Deprecated) \in Seq(Vocabulary) /\ file[i].args \in Seq(Seq(Vocabulary))
                BY <1>3, <1>6, <2>1 DEF ShimPaths
            <4>2. Len(file[i].args) >= 2 /\ file[i].args[1] = Arg(Deprecated) /\ file[i].args[2] = Arg("run")
                BY <2>1, <2>3
            <4>3. IsPrefix(<<Arg(Deprecated), Arg("run")>>, file[i].args)
                BY <1>7, <4>1, <4>2, PrefixPair
            <4> QED
                BY <4>3, ExecPair DEF RunsOld
        <3>5. RunsShim(args)
            BY <2>2, <2>3, <3>3 DEF RunsShim
        <3> QED
            BY <3>3, <3>4, <3>5 DEF args
    <2>4. CASE path = Canonical
        <3>1. RunsShim(args)
            BY <2>2, <2>4 DEF RunsShim
        <3>2. ~RunsOld(args)
            <4>1. Arg(Deprecated) \in Seq(Vocabulary) /\ Arg(Deprecated) # Arg(Canonical)
                BY <1>6 DEF ShimPaths, Arg, Deprecated, Canonical
            <4>2. ~IsPrefix(<<Arg(Deprecated), Arg("run")>>, args)
                <5>1. args \in Seq(Seq(Vocabulary)) /\ args[1] = Arg(Canonical)
                    BY <2>2, <2>4
                <5> QED
                    BY <1>7, <4>1, <5>1, PrefixPair
            <4> QED
                BY <4>2, ExecPair DEF RunsOld
        <3>3. Says(file[i].args, Canonical)
            <4>1. Arg(Canonical) \in ToSet(file[i].args)
                BY <2>1, <2>4 DEF ToSet
            <4>2. Canonical \in ToSet(Arg(Canonical))
                BY DEF ToSet, Arg
            <4> QED
                BY <4>1, <4>2 DEF Says
        <3> QED
            BY <3>1, <3>2, <3>3 DEF args
    <2> QED
        BY <2>3, <2>4 DEF ShimPaths
<1>14. ASSUME NEW i \in DOMAIN file
       PROVE  /\ SameUse(file[i], g[i])
              /\ i \notin bare => g[i].args = file[i].args
              /\ i \in bare => file[i].op = "ENTRYPOINT"
    <2>1. CASE i \in bare
        <3>1. file[i].op = "ENTRYPOINT"
            BY <1>5, <2>1
        <3> QED
            BY <1>10, <1>13, <2>1, <3>1 DEF SameUse
    <2>2. CASE i \notin bare
        BY <1>10, <2>2, SameUseReflexive
    <2> QED
        BY <2>1, <2>2
<1>15. Reworded(file, g)
    BY <1>10, <1>11, <1>14 DEF Reworded
<1>16. \A i \in DOMAIN file : file[i].op = "ENTRYPOINT" /\ RunsOld(g[i].args) => RunsOld(file[i].args)
    BY <1>13, <1>14
<1>17. \A i \in DOMAIN file : file[i].op \in {"ENTRYPOINT", "CMD"} /\ Says(g[i].args, Canonical)
                             => Says(file[i].args, Canonical)
    BY <1>13, <1>14
<1>19. NamesKept(file, g, known)
    BY <1>2, <1>15, <1>16, <1>17, RewordedNames DEF NamesKept
<1>18. Keeps(file, g) /\ (Parses(file) => Parses(g))
    BY <1>2, <1>15, RewordedKeeps
<1> QED
    BY <1>1, <1>18, <1>19 DEF WiringKept

-----------------------------------------------------------------------------
(* validate_entrypoint_pattern.py --fix.                                   *)

\* validate_entrypoint_pattern.py --fix puts the new path of the shim for the old one,
\* and leaves the other arguments.
LEMMA Moved ==
    ASSUME NEW f, Formed(f), NEW i \in DOMAIN f
    PROVE  LET m == WithCanonicalPath(f)[i]
           IN  /\ m \in TextLines /\ m.op = f[i].op /\ m.more = f[i].more
               /\ Len(m.args) = Len(f[i].args) /\ DOMAIN m.args = DOMAIN f[i].args
               /\ \A k \in DOMAIN f[i].args :
                    m.args[k] = f[i].args[k] \/ (f[i].args[k] = Arg(Deprecated) /\ m.args[k] = Arg(Canonical))
               /\ IsScratch(f) => \A k \in DOMAIN f[i].args :
                    k < Len(f[i].args) /\ f[i].args[k] = Arg(Deprecated) /\ f[i].args[k + 1] = Arg("run")
                    => m.args[k] = Arg(Canonical)
               /\ ~IsScratch(f) => m = f[i]
<1>1. f[i] \in TextLines /\ f[i].args \in Seq(Seq(Vocabulary))
    BY FormedLines
<1>2. CASE ~IsScratch(f)
    <2>1. WithCanonicalPath(f) = f
        BY <1>2 DEF WithCanonicalPath
    <2> QED
        BY <1>1, <1>2, <2>1
<1>3. CASE IsScratch(f)
    <2> DEFINE line == f[i]
               names(k) == \/ line.op = "COPY"
                           \/ k < Len(line.args) /\ line.args[k + 1] \in {Arg("run"), Arg("healthcheck")}
               args == [k \in DOMAIN line.args |->
                            IF line.args[k] = Arg(Deprecated) /\ names(k) THEN Arg(Canonical) ELSE line.args[k]]
               m == WithCanonicalPath(f)[i]
    <2>1. m = [line EXCEPT !.args = args]
        BY <1>3 DEF WithCanonicalPath
    <2> HIDE DEF m
    <2>2. Arg(Canonical) \in Seq(Vocabulary)
        BY ScriptWordsTyped DEF ScriptWords, ShimPaths
    <2>3. line \in TextLines /\ line.args \in Seq(Seq(Vocabulary)) /\ DOMAIN line.args = 1..Len(line.args)
          /\ Len(line.args) \in Nat
        BY <1>1
    <2> HIDE DEF line
    <2>4. /\ \A k \in DOMAIN line.args :
               /\ args[k] = line.args[k] \/ (line.args[k] = Arg(Deprecated) /\ args[k] = Arg(Canonical))
               /\ k < Len(line.args) /\ line.args[k] = Arg(Deprecated) /\ line.args[k + 1] = Arg("run")
                  => args[k] = Arg(Canonical)
          /\ DOMAIN args = 1..Len(line.args)
        BY <2>3
    <2>5. args \in Seq(Seq(Vocabulary)) /\ Len(args) = Len(line.args)
        <3>1. \A k \in 1..Len(line.args) : line.args[k] \in Seq(Vocabulary)
            BY <2>3
        <3>2. \A k \in 1..Len(line.args) : args[k] \in Seq(Vocabulary)
            BY <2>2, <2>3, <2>4, <3>1
        <3>3. args = [k \in 1..Len(line.args) |-> args[k]]
            BY <2>3
        <3> HIDE DEF args
        <3> DEFINE z == Len(line.args)
        <3>4. z \in Nat
            BY <2>3
        <3>5. (\A k \in 1..z : args[k] \in Seq(Vocabulary)) /\ args = [k \in 1..z |-> args[k]]
            BY <3>2, <3>3
        <3> HIDE DEF z
        <3>6. args \in Seq(Seq(Vocabulary)) /\ Len(args) = z
            BY <3>4, <3>5
        <3> QED
            BY <3>6 DEF z
    <2> HIDE DEF args
    <2>6. m \in TextLines /\ m.op = line.op /\ m.more = line.more /\ m.args = args
        BY <2>1, <2>3, <2>5 DEF TextLines
    <2> QED
        BY <1>3, <2>3, <2>4, <2>5, <2>6 DEF m, line
<1> QED
    BY <1>2, <1>3

\* WithoutC leaves some of the arguments, and all of them when they do not begin with -c.
LEMMA Shortened ==
    ASSUME NEW args \in Seq(Seq(Vocabulary))
    PROVE  /\ WithoutC(args) \in Seq(Seq(Vocabulary)) /\ ToSet(WithoutC(args)) \subseteq ToSet(args)
           /\ args = <<>> \/ args[1] # Arg("-c") => WithoutC(args) = args
<1>1. ASSUME NEW t \in Seq(Seq(Vocabulary)), t # <<>>
      PROVE  Tail(t) \in Seq(Seq(Vocabulary)) /\ Len(Tail(t)) = Len(t) - 1 /\ ToSet(Tail(t)) \subseteq ToSet(t)
    <2>1. Tail(t) \in Seq(Seq(Vocabulary)) /\ Len(Tail(t)) = Len(t) - 1
          /\ \A k \in 1..(Len(t) - 1) : Tail(t)[k] = t[k + 1]
        BY <1>1
    <2>2. \A k \in 1..(Len(t) - 1) : k + 1 \in 1..Len(t)
        OBVIOUS
    <2>3. DOMAIN Tail(t) = 1..(Len(t) - 1) /\ DOMAIN t = 1..Len(t)
        BY <2>1
    <2> QED
        BY <2>1, <2>2, <2>3 DEF ToSet
<1>2. WithoutC(args) \in {args} \/ (args # <<>> /\ WithoutC(args) = Tail(args))
      \/ (args # <<>> /\ Len(args) > 1 /\ WithoutC(args) = Tail(Tail(args)))
    BY DEF WithoutC
<1>3. args # <<>> /\ Len(args) > 1 => Tail(args) # <<>>
    <2> SUFFICES ASSUME args # <<>>, Len(args) > 1, Tail(args) = <<>> PROVE FALSE
        OBVIOUS
    <2>1. Len(Tail(args)) = Len(args) - 1 /\ Len(args) \in Nat
        BY <1>1
    <2>2. Len(<<>>) = 0
        OBVIOUS
    <2>3. PICK z \in Nat : z = Len(args)
        BY <2>1
    <2>4. z - 1 = 0 /\ z > 1
        BY <2>1, <2>2, <2>3
    <2> QED
        BY <2>3, <2>4
<1>4. WithoutC(args) \in Seq(Seq(Vocabulary)) /\ ToSet(WithoutC(args)) \subseteq ToSet(args)
    <2>1. CASE WithoutC(args) = args
        BY <2>1
    <2>2. CASE args # <<>> /\ WithoutC(args) = Tail(args)
        BY <1>1, <2>2
    <2>3. CASE args # <<>> /\ Len(args) > 1 /\ WithoutC(args) = Tail(Tail(args))
        <3>1. Tail(args) \in Seq(Seq(Vocabulary)) /\ Tail(args) # <<>> /\ ToSet(Tail(args)) \subseteq ToSet(args)
            BY <1>1, <1>3, <2>3
        <3>2. Tail(Tail(args)) \in Seq(Seq(Vocabulary)) /\ ToSet(Tail(Tail(args))) \subseteq ToSet(Tail(args))
            BY <1>1, <3>1
        <3> QED
            BY <2>3, <3>1, <3>2
    <2> QED
        BY <1>2, <2>1, <2>2, <2>3
<1> QED
    BY <1>4 DEF WithoutC

\* Arguments, and what becomes of them.
MovedArgs(a, b) ==
    /\ a \in Seq(Seq(Vocabulary)) /\ b \in Seq(Seq(Vocabulary)) /\ Len(b) = Len(a)
    /\ \A k \in DOMAIN a : b[k] = a[k] \/ (a[k] = Arg(Deprecated) /\ b[k] = Arg(Canonical))

\* Moving the shim keeps every use of a line.
LEMMA MovedUses ==
    ASSUME NEW a, NEW b, MovedArgs(a, b)
    PROVE  /\ \A word \in {"health-shim", "db-shim", "65532"} : a = Exec(<<word>>) => b = a
           /\ a \in Probes => b \in Probes
           /\ \A k \in DOMAIN a : k \in DOMAIN b /\ (a[k] # Arg(Deprecated) => b[k] = a[k])
           /\ a # <<>> => b # <<>>
           /\ Len(a) >= 2 /\ b[2] = Arg("run") => a[2] = Arg("run")
           /\ Len(a) >= 1 /\ b[1] = Arg(Deprecated) => a[1] = Arg(Deprecated)
<1>1. /\ a \in Seq(Seq(Vocabulary)) /\ b \in Seq(Seq(Vocabulary)) /\ Len(b) = Len(a)
      /\ DOMAIN a = 1..Len(a) /\ DOMAIN b = 1..Len(a) /\ Len(a) \in Nat
    BY DEF MovedArgs
<1>2. \A k \in DOMAIN a : b[k] = a[k] \/ (a[k] = Arg(Deprecated) /\ b[k] = Arg(Canonical))
    BY DEF MovedArgs
<1>3. \A word \in {"health-shim", "db-shim", "65532", "healthcheck", "run", Canonical} : Arg(word) # Arg(Deprecated)
    BY DEF Arg, Deprecated, Canonical
<1>4. ASSUME NEW word \in {"health-shim", "db-shim", "65532"}, a = Exec(<<word>>) PROVE b = a
    <2>1. a = <<Arg(word)>>
        BY <1>4, ExecSingle
    <2>2. Len(a) = 1 /\ a[1] = Arg(word)
        BY <2>1
    <2>3. 1 \in DOMAIN a /\ b[1] = a[1]
        BY <1>1, <1>2, <1>3, <2>2
    <2>4. Len(a) = Len(b) /\ \A k \in 1..Len(a) : a[k] = b[k]
        <3>1. \A k \in 1..Len(a) : k = 1
            BY <2>2
        <3> QED
            BY <1>1, <2>3, <3>1
    <2> QED
        BY <1>1, <2>4, SeqEqual
<1>5. ASSUME a \in Probes PROVE b \in Probes
    <2>1. PICK path \in ShimPaths : a = Exec(<<path, "healthcheck">>)
        BY <1>5 DEF Probes
    <2>2. a = <<Arg(path), Arg("healthcheck")>>
        BY <2>1, ExecPair
    <2>3. Len(a) = 2 /\ a[1] = Arg(path) /\ a[2] = Arg("healthcheck")
        BY <2>2
    <2>4. 1 \in DOMAIN a /\ 2 \in DOMAIN a
        BY <1>1, <2>3
    <2>5. b[2] = Arg("healthcheck")
        BY <1>2, <1>3, <2>3, <2>4
    <2>6. PICK new \in ShimPaths : b[1] = Arg(new)
        BY <1>2, <2>3, <2>4 DEF ShimPaths
    <2>7. b = <<Arg(new), Arg("healthcheck")>>
        <3> DEFINE t == <<Arg(new), Arg("healthcheck")>>
        <3>1. Arg(new) \in Seq(Vocabulary) /\ Arg("healthcheck") \in Seq(Vocabulary)
            BY ScriptWordsTyped DEF ScriptWords
        <3>2. t \in Seq(Seq(Vocabulary)) /\ Len(t) = 2 /\ t[1] = Arg(new) /\ t[2] = Arg("healthcheck")
            BY <3>1
        <3> HIDE DEF t
        <3>3. Len(b) = Len(t) /\ \A k \in 1..Len(b) : b[k] = t[k]
            <4>1. Len(b) = 2
                BY <1>1, <2>3
            <4>2. \A k \in 1..2 : k = 1 \/ k = 2
                OBVIOUS
            <4> QED
                BY <2>5, <2>6, <3>2, <4>1, <4>2
        <3>4. b = t
            BY <1>1, <3>2, <3>3, SeqEqual
        <3> QED
            BY <3>4 DEF t
    <2>8. b = Exec(<<new, "healthcheck">>)
        BY <2>7, ExecPair
    <2> QED
        BY <2>8 DEF Probes
<1>6. \A k \in DOMAIN a : k \in DOMAIN b /\ (a[k] # Arg(Deprecated) => b[k] = a[k])
    BY <1>1, <1>2
<1>7. a # <<>> => b # <<>>
    BY <1>1
<1>8. Len(a) >= 2 /\ b[2] = Arg("run") => a[2] = Arg("run")
    <2>1. Arg("run") # Arg(Canonical)
        BY DEF Arg, Canonical
    <2>2. Len(a) >= 2 => 2 \in DOMAIN a
        BY <1>1
    <2> QED
        BY <1>2, <2>1, <2>2
<1>9. Len(a) >= 1 /\ b[1] = Arg(Deprecated) => a[1] = Arg(Deprecated)
    <2>1. Len(a) >= 1 => 1 \in DOMAIN a
        BY <1>1
    <2> QED
        BY <1>2, <2>1
<1> QED
    BY <1>4, <1>5, <1>6, <1>7, <1>8, <1>9

\* The arguments of an ENTRYPOINT that runs the shim from its old path.
LEMMA RunsOldMeans ==
    ASSUME NEW args \in Seq(Seq(Vocabulary))
    PROVE  RunsOld(args) <=> Len(args) >= 2 /\ args[1] = Arg(Deprecated) /\ args[2] = Arg("run")
<1>1. Arg(Deprecated) \in Seq(Vocabulary) /\ Arg("run") \in Seq(Vocabulary)
    BY ScriptWordsTyped DEF ScriptWords, ShimPaths
<1>2. IsPrefix(<<Arg(Deprecated), Arg("run")>>, args)
      <=> Len(args) >= 2 /\ args[1] = Arg(Deprecated) /\ args[2] = Arg("run")
    BY <1>1, PrefixPair
<1> QED
    BY <1>2, ExecPair DEF RunsOld

\* A step of validate_entrypoint_pattern.py --fix keeps the wiring and what parses.
LEMMA FixPatternKeeps ==
    ASSUME Formed(file), FixPattern
    PROVE  WiringKept(file, file', known) /\ (Parses(file) => Parses(file'))
<1> DEFINE moved == WithCanonicalPath(file)
           g == FixedPattern(file)
<1>1. file' = g
    BY DEF FixPattern
<1>2. /\ file \in Seq(TextLines) /\ Len(file) \in Nat \ {0} /\ DOMAIN file = 1..Len(file)
      /\ \A i \in DOMAIN file : file[i] \in TextLines /\ file[i].args \in Seq(Seq(Vocabulary))
    BY FormedLines
<1>3. g = [i \in DOMAIN file |-> IF file[i].op = "CMD" THEN [moved[i] EXCEPT !.args = WithoutC(@)] ELSE moved[i]]
    BY DEF FixedPattern
<1> HIDE DEF g
<1>4. ASSUME NEW i \in DOMAIN file
      PROVE  /\ moved[i] \in TextLines /\ moved[i].op = file[i].op /\ moved[i].more = file[i].more
             /\ MovedArgs(file[i].args, moved[i].args)
             /\ IsScratch(file) /\ Len(file[i].args) >= 2 /\ file[i].args[1] = Arg(Deprecated)
                  /\ file[i].args[2] = Arg("run") => moved[i].args[1] = Arg(Canonical)
             /\ ~IsScratch(file) => moved[i] = file[i]
    <2> DEFINE m == moved[i]
               a == file[i].args
    <2>1. /\ m \in TextLines /\ m.op = file[i].op /\ m.more = file[i].more /\ Len(m.args) = Len(a)
          /\ \A k \in DOMAIN a : m.args[k] = a[k] \/ (a[k] = Arg(Deprecated) /\ m.args[k] = Arg(Canonical))
          /\ IsScratch(file) => \A k \in DOMAIN a :
               k < Len(a) /\ a[k] = Arg(Deprecated) /\ a[k + 1] = Arg("run") => m.args[k] = Arg(Canonical)
          /\ ~IsScratch(file) => m = file[i]
        BY Moved
    <2>2. a \in Seq(Seq(Vocabulary)) /\ m.args \in Seq(Seq(Vocabulary))
        BY <1>2, <2>1 DEF TextLines
    <2> HIDE DEF m, a
    <2>3. MovedArgs(a, m.args)
        BY <2>1, <2>2 DEF MovedArgs
    <2>4. IsScratch(file) /\ Len(a) >= 2 /\ a[1] = Arg(Deprecated) /\ a[2] = Arg("run") => m.args[1] = Arg(Canonical)
        <3>1. Len(a) >= 2 => 1 \in DOMAIN a /\ 1 < Len(a) /\ 1 + 1 = 2
            BY <2>2
        <3> QED
            BY <2>1, <3>1
    <2> QED
        BY <2>1, <2>3, <2>4 DEF m, a
<1> HIDE DEF moved
<1>5. ASSUME NEW i \in DOMAIN file
      PROVE  /\ g[i] \in TextLines /\ g[i].op = file[i].op /\ g[i].more = file[i].more
             /\ g[i].args = IF file[i].op = "CMD" THEN WithoutC(moved[i].args) ELSE moved[i].args
    <2>1. moved[i] \in TextLines /\ moved[i].op = file[i].op /\ moved[i].more = file[i].more
          /\ moved[i].args \in Seq(Seq(Vocabulary))
        BY <1>4 DEF MovedArgs
    <2>2. CASE file[i].op = "CMD"
        <3> DEFINE args == WithoutC(moved[i].args)
        <3>1. g[i] = [moved[i] EXCEPT !.args = args]
            BY <1>3, <2>2
        <3>2. args \in Seq(Seq(Vocabulary))
            BY <2>1, Shortened
        <3> HIDE DEF args
        <3>3. g[i] \in TextLines /\ g[i].op = moved[i].op /\ g[i].more = moved[i].more /\ g[i].args = args
            BY <2>1, <3>1, <3>2 DEF TextLines
        <3> QED
            BY <2>1, <2>2, <3>3 DEF args
    <2>3. CASE file[i].op # "CMD"
        BY <1>3, <2>1, <2>3
    <2> QED
        BY <2>2, <2>3
<1>6. g \in Seq(TextLines) /\ Len(g) = Len(file) /\ DOMAIN g = DOMAIN file
    <2>1. g = [i \in 1..Len(file) |-> g[i]] /\ DOMAIN g = 1..Len(file)
        BY <1>2, <1>3
    <2> QED
        BY <1>2, <1>5, <2>1
<1>7. ASSUME NEW i \in DOMAIN file
      PROVE  /\ SameUse(file[i], g[i])
             /\ file[i].op = "USER" /\ file[i].args = Exec(<<"65532">>) => g[i].args = file[i].args
             /\ file[i].op = "HEALTHCHECK" /\ file[i].args # <<>> => g[i].args # <<>>
    <2> DEFINE a == file[i].args
               b == moved[i].args
    <2>1. MovedArgs(a, b) /\ a \in Seq(Seq(Vocabulary)) /\ b \in Seq(Seq(Vocabulary))
        BY <1>4 DEF MovedArgs
    <2>2. g[i].op = file[i].op /\ (file[i].op # "CMD" => g[i].args = b) /\ (file[i].op = "CMD" => g[i].args = WithoutC(b))
        BY <1>5
    <2>3. /\ IsScratch(file) /\ Len(a) >= 2 /\ a[1] = Arg(Deprecated) /\ a[2] = Arg("run") => b[1] = Arg(Canonical)
          /\ ~IsScratch(file) => b = a
        BY <1>4
    <2> HIDE DEF a, b
    <2>4. /\ \A word \in {"health-shim", "db-shim", "65532"} : a = Exec(<<word>>) => b = a
          /\ a \in Probes => b \in Probes
          /\ \A k \in DOMAIN a : k \in DOMAIN b /\ (a[k] # Arg(Deprecated) => b[k] = a[k])
          /\ a # <<>> => b # <<>>
        BY <2>1, MovedUses
    <2>5. a \in ShimStages => b \in ShimStages
        BY <2>4 DEF ShimStages
    <2>6. b \in Probes => WithoutC(b) = b
        <3> SUFFICES ASSUME b \in Probes PROVE b[1] # Arg("-c")
            BY <2>1, Shortened
        <3>1. PICK path \in ShimPaths : b = Exec(<<path, "healthcheck">>)
            BY DEF Probes
        <3>2. b[1] = Arg(path)
            BY <3>1, ExecPair
        <3> QED
            BY <3>2 DEF Arg, ShimPaths, Canonical, Deprecated
    <2>7. RunsShim(a) => RunsShim(b)
        <3> SUFFICES ASSUME RunsShim(a) PROVE RunsShim(b)
            OBVIOUS
        <3>1. /\ Len(a) = 2 \/ (Len(a) = 4 /\ a[3] = Arg("-c"))
              /\ a[2] = Arg("run")
              /\ a[1] = Arg(Canonical) \/ (a[1] = Arg(Deprecated) /\ ~Says(a, Canonical))
            BY DEF RunsShim
        <3>2. Arg("run") # Arg(Deprecated) /\ Arg("-c") # Arg(Deprecated) /\ Arg(Canonical) # Arg(Deprecated)
            BY DEF Arg, Deprecated, Canonical
        <3>3. Len(b) = Len(a)
            BY <2>1 DEF MovedArgs
        <3>4. Len(a) >= 2 /\ 1 \in DOMAIN a /\ 2 \in DOMAIN a /\ (Len(a) = 4 => 3 \in DOMAIN a)
            BY <2>1, <3>1
        <3>5. b[2] = Arg("run") /\ (Len(a) = 4 => b[3] = Arg("-c"))
            BY <2>4, <3>1, <3>2, <3>4
        <3>6. CASE b[1] = Arg(Canonical)
            BY <3>1, <3>3, <3>5, <3>6 DEF RunsShim
        <3>7. CASE b[1] # Arg(Canonical)
            <4>1. a[1] = Arg(Deprecated)
                BY <2>4, <3>1, <3>2, <3>4, <3>7
            <4>2. b = a
                BY <2>3, <3>1, <3>4, <3>7, <4>1
            <4> QED
                BY <4>2
        <3> QED
            BY <3>6, <3>7
    <2>8. SameUse(file[i], g[i])
        BY <2>2, <2>4, <2>5, <2>6, <2>7 DEF SameUse, a
    <2> QED
        BY <2>2, <2>4, <2>8 DEF a
<1>8. Reworded(file, g)
    BY <1>5, <1>6, <1>7 DEF Reworded
<1>9. Keeps(file, g) /\ (Parses(file) => Parses(g))
    BY <1>8, RewordedKeeps
<1>10. CASE ~IsScratch(file)
    <2>1. ASSUME NEW i \in DOMAIN file
          PROVE  /\ file[i].op # "CMD" => g[i].args = file[i].args
                 /\ ToSet(g[i].args) \subseteq ToSet(file[i].args)
        <3>1. moved[i].args = file[i].args /\ file[i].args \in Seq(Seq(Vocabulary))
            BY <1>2, <1>4, <1>10
        <3>2. CASE file[i].op = "CMD"
            <4>1. g[i].args = WithoutC(file[i].args)
                BY <1>5, <3>1, <3>2
            <4> QED
                BY <3>1, <3>2, <4>1, Shortened
        <3>3. CASE file[i].op # "CMD"
            BY <1>5, <3>1, <3>3
        <3> QED
            BY <3>2, <3>3
    <2>2. \A i \in DOMAIN file : file[i].op = "ENTRYPOINT" /\ RunsOld(g[i].args) => RunsOld(file[i].args)
        BY <2>1
    <2>3. \A i \in DOMAIN file : file[i].op \in {"ENTRYPOINT", "CMD"} /\ Says(g[i].args, Canonical)
                                 => Says(file[i].args, Canonical)
        BY <2>1 DEF Says
    <2>4. NamesKept(file, g, known)
        BY <1>8, <2>2, <2>3, RewordedNames DEF NamesKept
    <2> QED
        BY <1>1, <1>9, <2>4 DEF WiringKept
<1>11. CASE IsScratch(file)
    <2>1. ASSUME NEW i \in LinesOf(g, "ENTRYPOINT"), RunsOld(g[i].args) PROVE FALSE
        <3>1. i \in DOMAIN file /\ file[i].op = "ENTRYPOINT"
            BY <1>5, <1>6 DEF LinesOf
        <3> DEFINE a == file[i].args
                   b == moved[i].args
        <3>2. g[i].args = b /\ MovedArgs(a, b) /\ a \in Seq(Seq(Vocabulary)) /\ b \in Seq(Seq(Vocabulary))
            BY <1>4, <1>5, <3>1 DEF MovedArgs
        <3>3. Len(a) >= 2 /\ a[1] = Arg(Deprecated) /\ a[2] = Arg("run") => b[1] = Arg(Canonical)
            BY <1>4, <1>11, <3>1
        <3> HIDE DEF a, b
        <3>4. Len(b) >= 2 /\ b[1] = Arg(Deprecated) /\ b[2] = Arg("run")
            <4>1. RunsOld(b)
                BY <2>1, <3>2
            <4> QED
                BY <3>2, <4>1, RunsOldMeans
        <3>5. Len(a) >= 2 /\ Len(a) >= 1
            <4>1. Len(a) = Len(b) /\ Len(a) \in Nat
                BY <3>2 DEF MovedArgs
            <4> QED
                BY <3>4, <4>1
        <3>6. a[1] = Arg(Deprecated) /\ a[2] = Arg("run")
            BY <3>2, <3>4, <3>5, MovedUses
        <3>7. Arg(Canonical) # Arg(Deprecated)
            BY DEF Arg, Deprecated, Canonical
        <3> QED
            BY <3>3, <3>4, <3>5, <3>6, <3>7
    <2>2. ~RunsDeprecated(g)
        BY <2>1 DEF RunsDeprecated, RunsOld
    <2>3. NamesKept(file, g, known)
        BY <2>2 DEF NamesKept
    <2> QED
        BY <1>1, <1>9, <2>3 DEF WiringKept
<1> QED
    BY <1>10, <1>11

-----------------------------------------------------------------------------
(* Lines removed, and a tail: enforce_nonroot.py and the stub scripts.     *)

\* A script that leaves every line the shim is told by leaves it accepted.
LEMMA AcceptedTransported ==
    ASSUME NEW f, Formed(f), NEW g, Formed(g),
           NEW piece \in Seq(Seq(TextLines)), Len(piece) = Len(f), NEW at, Woven(g, piece, at),
           UsesKept(f, piece, Wired \cup {"ENTRYPOINT"}), CheckDockerfile(f)
    PROVE  CheckDockerfile(g)
<1>1. f \in Seq(TextLines) /\ g \in Seq(TextLines)
    BY DEF Formed
<1> DEFINE ops == Wired \cup {"ENTRYPOINT"}
<1>2. UsesKept(f, piece, ops) /\ Wired \subseteq ops /\ "ENTRYPOINT" \in ops
    OBVIOUS
<1> HIDE DEF ops
<1>3. \E e \in LinesOf(f, "ENTRYPOINT") : RunsShim(f[e].args)
    BY <1>1, EntrypointAccepted DEF CheckDockerfile, Formed
<1>4. /\ HasShimStage(g) \/ Stages(g, "db-shim") # {}
      /\ HasShimWiring(g) /\ HasHealthcheckShim(g)
      /\ \E e \in LinesOf(g, "ENTRYPOINT") : RunsShim(g[e].args)
    BY <1>1, <1>2, <1>3, WiringTransported DEF CheckDockerfile
<1> QED
    BY <1>1, <1>4, EntrypointAccepted DEF CheckDockerfile, Formed

\* f without the lines removed, and then the lines t.
Without(f, removed) == [i \in 1..Len(f) |-> IF i \in removed THEN <<>> ELSE <<f[i]>>]
\* Some lines removed, and t at the end.
WithTail(f, removed, t) ==
    [Without(f, removed) EXCEPT ![Len(f)] = @ \o t]
\* What is removed and what is put at the end are USER and ENTRYPOINT instructions,
\* and one ENTRYPOINT at most is left.
TailFits(f, removed, t) ==
    /\ t \in Seq(TextLines)
    /\ \A i \in DOMAIN f : i \in removed => f[i].op \in {"ENTRYPOINT", "USER"}
    /\ \A k \in DOMAIN t : t[k].op \in {"ENTRYPOINT", "USER"} /\ ~t[k].more
    /\ \A k, m \in DOMAIN t : t[k].op = "ENTRYPOINT" /\ t[m].op = "ENTRYPOINT" => k = m
    /\ \A k \in DOMAIN t : t[k].op = "ENTRYPOINT" => \A i \in LinesOf(f, "ENTRYPOINT") : i \in removed

\* The pieces of a Dockerfile some of whose lines are removed.
LEMMA WithoutTyped ==
    ASSUME NEW f \in Seq(TextLines), NEW removed
    PROVE  /\ Without(f, removed) \in Seq(Seq(TextLines)) /\ Len(Without(f, removed)) = Len(f)
           /\ DOMAIN Without(f, removed) = 1..Len(f)
           /\ \A i \in 1..Len(f) : /\ i \in removed => DOMAIN Without(f, removed)[i] = {}
                                   /\ i \notin removed => /\ DOMAIN Without(f, removed)[i] = {1}
                                                          /\ Without(f, removed)[i][1] = f[i]
                                   /\ Without(f, removed)[i] = IF i \in removed THEN <<>> ELSE <<f[i]>>
<1> DEFINE n == Len(f)
<1>1. n \in Nat /\ \A i \in 1..n : f[i] \in TextLines
    OBVIOUS
<1>2. \A i \in 1..n : (IF i \in removed THEN <<>> ELSE <<f[i]>>) \in Seq(TextLines)
    <2> SUFFICES ASSUME NEW i \in 1..n PROVE <<f[i]>> \in Seq(TextLines) /\ <<>> \in Seq(TextLines)
        OBVIOUS
    <2>1. f[i] \in TextLines
        BY <1>1
    <2> QED
        BY <2>1
<1>3. Without(f, removed) \in Seq(Seq(TextLines)) /\ Len(Without(f, removed)) = n /\ DOMAIN Without(f, removed) = 1..n
    BY <1>1, <1>2 DEF Without
<1>4. \A i \in 1..n : Without(f, removed)[i] = IF i \in removed THEN <<>> ELSE <<f[i]>>
    BY DEF Without
<1>5. DOMAIN <<>> = {}
    OBVIOUS
<1>6. \A i \in 1..n : DOMAIN <<f[i]>> = {1} /\ <<f[i]>>[1] = f[i]
    OBVIOUS
<1> QED
    BY <1>3, <1>4, <1>5, <1>6

\* An element of a piece is the line it stands for, or one of the tail.
TailAfter(f, removed, t, piece, size) ==
    /\ \A i \in 1..Len(f) : \A k \in DOMAIN piece[i] :
         \/ i \notin removed /\ k = 1 /\ piece[i][k] = f[i]
         \/ i = Len(f) /\ \E m \in DOMAIN t : k = size + m /\ piece[i][k] = t[m]
    /\ \A m \in DOMAIN t : size + m \in DOMAIN piece[Len(f)] /\ piece[Len(f)][size + m] = t[m]

\* The pieces of one that also has a tail.
LEMMA TailPieces ==
    ASSUME NEW f, Formed(f), NEW removed, NEW t \in Seq(TextLines)
    PROVE  /\ WithTail(f, removed, t) \in Seq(Seq(TextLines)) /\ Len(WithTail(f, removed, t)) = Len(f)
           /\ DOMAIN WithTail(f, removed, t) = 1..Len(f)
           /\ \A i \in 1..Len(f) :
                /\ i \notin removed => 1 \in DOMAIN WithTail(f, removed, t)[i] /\ WithTail(f, removed, t)[i][1] = f[i]
                /\ i \in removed /\ i # Len(f) => DOMAIN WithTail(f, removed, t)[i] = {}
           /\ \E size \in Nat : TailAfter(f, removed, t, WithTail(f, removed, t), size)
<1> DEFINE n == Len(f)
           before == Without(f, removed)
           piece == WithTail(f, removed, t)
           last == before[n]
           size == Len(last)
<1>1. f \in Seq(TextLines) /\ n \in Nat \ {0} /\ n \in 1..n
    BY FormedLines
<1>2. /\ before \in Seq(Seq(TextLines)) /\ Len(before) = n /\ DOMAIN before = 1..n
      /\ \A i \in 1..n : /\ i \in removed => DOMAIN before[i] = {}
                         /\ i \notin removed => DOMAIN before[i] = {1} /\ before[i][1] = f[i]
    <2>1. before \in Seq(Seq(TextLines)) /\ Len(before) = n /\ DOMAIN before = 1..n
        BY <1>1, WithoutTyped
    <2>2. \A i \in 1..n : i \in removed => DOMAIN before[i] = {}
        BY <1>1, WithoutTyped
    <2>3. \A i \in 1..n : i \notin removed => DOMAIN before[i] = {1} /\ before[i][1] = f[i]
        BY <1>1, WithoutTyped
    <2> QED
        BY <2>1, <2>2, <2>3
<1>3. last \in Seq(TextLines)
    BY <1>1, <1>2
<1>4. /\ last \o t \in Seq(TextLines)
      /\ Len(last \o t) = size + Len(t)
      /\ \A w \in 1..size : (last \o t)[w] = last[w]
      /\ \A k \in 1..Len(t) : (last \o t)[size + k] = t[k]
    BY <1>3, Concatenated
<1>5. size \in Nat /\ DOMAIN last = 1..size
    BY <1>3
<1>6. piece = [before EXCEPT ![n] = last \o t]
    BY DEF WithTail
<1> HIDE DEF before
<1>7. /\ piece[n] = last \o t
      /\ \A i \in 1..n : i # n => piece[i] = before[i]
      /\ DOMAIN piece = 1..n
    BY <1>1, <1>2, <1>6
<1>8. piece \in Seq(Seq(TextLines)) /\ Len(piece) = n
    BY <1>1, <1>2, <1>4, <1>6
<1> HIDE DEF piece
<1>9. DOMAIN (last \o t) = 1..(size + Len(t)) /\ DOMAIN t = 1..Len(t) /\ Len(t) \in Nat
    BY <1>4
<1>10. PICK both \in Seq(TextLines) : both = last \o t
    BY <1>4
<1> HIDE DEF size, last
<1>11. ASSUME NEW i \in 1..n
       PROVE  /\ i \notin removed => 1 \in DOMAIN piece[i] /\ piece[i][1] = f[i]
              /\ i \in removed /\ i # n => DOMAIN piece[i] = {}
    <2>1. CASE i # n
        BY <1>2, <1>7, <2>1
    <2>2. CASE i = n
        <3> SUFFICES ASSUME i \notin removed PROVE 1 \in DOMAIN both /\ both[1] = f[i]
            BY <1>7, <1>10, <2>2
        <3>1. DOMAIN last = {1} /\ last[1] = f[i]
            BY <1>2, <2>2 DEF last
        <3>2. 1 \in 1..size
            BY <1>5, <3>1
        <3>3. 1 \in 1..(size + Len(t))
            BY <1>5, <1>9, <3>2
        <3> QED
            BY <1>4, <1>9, <1>10, <3>1, <3>2, <3>3
    <2> QED
        BY <2>1, <2>2
<1>12. ASSUME NEW i \in 1..n, NEW k \in DOMAIN piece[i]
       PROVE  \/ i \notin removed /\ k = 1 /\ piece[i][k] = f[i]
              \/ i = n /\ \E m \in DOMAIN t : k = size + m /\ piece[i][k] = t[m]
    <2>1. CASE i # n
        BY <1>2, <1>7, <2>1
    <2>2. CASE i = n
        <3>1. k \in 1..(size + Len(t)) /\ piece[i][k] = both[k]
            BY <1>7, <1>9, <1>10, <2>2
        <3>2. CASE k \in 1..size
            <4>1. k \in DOMAIN last /\ both[k] = last[k]
                BY <1>4, <1>5, <1>10, <3>2
            <4>2. i \notin removed /\ k = 1 /\ last[1] = f[i]
                BY <1>2, <2>2, <4>1 DEF last
            <4> QED
                BY <3>1, <4>1, <4>2
        <3>3. CASE k \notin 1..size
            <4>1. PICK m \in 1..Len(t) : k = size + m
                <5>1. k - size \in 1..Len(t) /\ k = size + (k - size)
                    BY <1>5, <1>9, <3>1, <3>3
                <5> QED
                    BY <5>1
            <4> QED
                BY <1>4, <1>9, <1>10, <2>2, <3>1, <4>1
        <3> QED
            BY <3>2, <3>3
    <2> QED
        BY <2>1, <2>2
<1>13. ASSUME NEW m \in DOMAIN t PROVE size + m \in DOMAIN piece[n] /\ piece[n][size + m] = t[m]
    <2>1. m \in 1..Len(t) /\ size + m \in 1..(size + Len(t))
        BY <1>5, <1>9
    <2> QED
        BY <1>4, <1>7, <1>9, <1>10, <2>1
<1>14. TailAfter(f, removed, t, piece, size)
    BY <1>12, <1>13 DEF TailAfter
<1> QED
    BY <1>5, <1>7, <1>8, <1>11, <1>14 DEF piece

\* A Dockerfile with lines removed and a tail is woven of those pieces.
LEMMA TailWoven ==
    ASSUME NEW f, Formed(f), NEW removed, NEW t \in Seq(TextLines),
           NEW h \in Seq(TextLines), NEW start, LaidOut(h, Without(f, removed), start)
    PROVE  h \o t \in Seq(TextLines) /\ \E at : Woven(h \o t, WithTail(f, removed, t), at)
<1> DEFINE piece == WithTail(f, removed, t)
           g == h \o t
<1>1. f \in Seq(TextLines) /\ Len(f) \in Nat \ {0}
    BY FormedLines
<1>2. g \in Seq(TextLines)
    BY Concatenated
<1>3. piece \in Seq(Seq(TextLines))
    BY TailPieces
<1>4. \E later : LaidOut(g, piece, later)
    <2>1. Without(f, removed) \in Seq(Seq(TextLines)) /\ Len(Without(f, removed)) = Len(f)
        BY <1>1, WithoutTyped
    <2>2. WithTail(f, removed, t) = [Without(f, removed) EXCEPT ![Len(Without(f, removed))] = @ \o t]
        BY <2>1 DEF WithTail
    <2>3. Len(Without(f, removed)) # 0
        BY <1>1, <2>1
    <2> QED
        BY <2>1, <2>2, <2>3, TailLaysOut, ZenonT(30)
<1> HIDE DEF piece, g
<1>5. \E at : Woven(g, piece, at)
    BY <1>2, <1>3, <1>4, LaidOutWoven
<1> QED
    BY <1>2, <1>5 DEF piece, g

\* Removing USER and ENTRYPOINT lines and putting others at the end keeps a Dockerfile
\* formed, and what parses.
LEMMA TailFormed ==
    ASSUME NEW f, Formed(f), NEW removed, NEW t, TailFits(f, removed, t),
           NEW h \in Seq(TextLines), NEW start, LaidOut(h, Without(f, removed), start)
    PROVE  Formed(h \o t) /\ (Parses(f) => Parses(h \o t))
<1> DEFINE n == Len(f)
           piece == WithTail(f, removed, t)
           g == h \o t
<1>1. /\ f \in Seq(TextLines) /\ n \in Nat \ {0} /\ DOMAIN f = 1..n /\ ~f[n].more /\ t \in Seq(TextLines)
      /\ \A i \in 1..n : f[i].more => f[i].op \in Continuable
    BY FormedLines, LastLineEnds DEF TailFits
<1>2. g \in Seq(TextLines) /\ \E at : Woven(g, piece, at)
    <2>1. t \in Seq(TextLines)
        BY <1>1
    <2> QED
        BY <2>1, TailWoven
<1>3. /\ piece \in Seq(Seq(TextLines)) /\ Len(piece) = n /\ DOMAIN piece = 1..n
      /\ \A i \in 1..n :
           /\ i \notin removed => 1 \in DOMAIN piece[i] /\ piece[i][1] = f[i]
           /\ i \in removed /\ i # n => DOMAIN piece[i] = {}
      /\ \E size \in Nat : TailAfter(f, removed, t, piece, size)
    <2>1. t \in Seq(TextLines)
        BY <1>1
    <2> QED
        BY <2>1, TailPieces
<1> HIDE DEF piece, g
<1>5. PICK at : Woven(g, piece, at)
    BY <1>2
<1>6. \E size \in Nat : \A i \in 1..n : \A k \in DOMAIN piece[i] :
        \/ i \notin removed /\ k = 1 /\ piece[i][k] = f[i]
        \/ i = n /\ \E m \in DOMAIN t : k = size + m /\ piece[i][k] = t[m]
    BY <1>3 DEF TailAfter
<1> PICK size \in Nat : \A i \in 1..n : \A k \in DOMAIN piece[i] :
        \/ i \notin removed /\ k = 1 /\ piece[i][k] = f[i]
        \/ i = n /\ \E m \in DOMAIN t : k = size + m /\ piece[i][k] = t[m]
    BY <1>6
<1>7. /\ \A i \in 1..n : i \in removed => f[i].op \in {"ENTRYPOINT", "USER"}
      /\ \A k \in DOMAIN t : t[k].op \in {"ENTRYPOINT", "USER"} /\ ~t[k].more
    BY <1>1 DEF TailFits
<1>8. ASSUME NEW i \in 1..n, NEW k \in DOMAIN piece[i]
      PROVE  \/ i \notin removed /\ k = 1 /\ piece[i][k] = f[i]
             \/ i = n /\ piece[i][k].op \in {"ENTRYPOINT", "USER"} /\ ~piece[i][k].more
    BY <1>7
<1>9. \A i \in 1..n : DOMAIN piece[i] \subseteq Nat \ {0} /\ (piece[i] # <<>> <=> 1 \in DOMAIN piece[i])
    BY <1>1, <1>3, PieceFacts
<1>10. ASSUME NEW i \in 1..n, NEW k \in DOMAIN piece[i], k + 1 \in DOMAIN piece[i]
       PROVE  i = n /\ ~piece[i][k].more /\ piece[i][k + 1].op \in {"ENTRYPOINT", "USER"}
    <2>1. k + 1 # 1
        BY <1>9, <1>10
    <2>2. i = n /\ piece[i][k + 1].op \in {"ENTRYPOINT", "USER"}
        BY <1>8, <1>10, <2>1
    <2>3. ~piece[i][k].more
        BY <1>1, <1>8, <2>2
    <2> QED
        BY <2>2, <2>3
<1>11. Formed(g)
    <2>1. NoneLoose(f, piece)
        <3>1. ASSUME NEW i \in 1..n, NEW k \in DOMAIN piece[i], k + 1 \notin DOMAIN piece[i], piece[i][k].more
              PROVE  f[i].more
            BY <1>8, <3>1
        <3>2. ASSUME NEW i \in 1..n, i # n, f[i].op \in Skipped, NEW k \in DOMAIN piece[i]
              PROVE  piece[i][k].op \notin EndOps
            BY <1>8, <3>2 DEF Skipped, EndOps
        <3>3. ASSUME NEW j \in 1..n, f[j].op \notin Skipped \cup EndOps
              PROVE  \E b \in DOMAIN piece[j] : /\ piece[j][b].op \notin Skipped \cup EndOps
                                                /\ \A c \in DOMAIN piece[j] : c < b => piece[j][c].op \notin EndOps
            <4>1. j \notin removed
                BY <1>7, <3>3 DEF Skipped, EndOps
            <4>2. 1 \in DOMAIN piece[j] /\ piece[j][1].op \notin Skipped \cup EndOps
                BY <1>3, <3>3, <4>1
            <4>3. \A c \in DOMAIN piece[j] : ~ (c < 1)
                BY <1>9
            <4> QED
                BY <4>2, <4>3
        <3> QED
            BY <1>3, <1>10, <3>1, <3>2, <3>3 DEF NoneLoose
    <2>2. \A i \in DOMAIN piece : \A k \in DOMAIN piece[i] : piece[i][k].more => piece[i][k].op \in Continuable
        BY <1>1, <1>3, <1>8
    <2>3. FromKept(f, piece)
        <3>1. ASSUME NEW i \in 1..n, FromFirst(f, i) PROVE \E k \in DOMAIN piece[i] : FromFirst(piece[i], k)
            <4>1. i \notin removed
                BY <1>7, <3>1 DEF FromFirst
            <4>2. 1 \in DOMAIN piece[i] /\ piece[i][1].op = "FROM"
                BY <1>3, <3>1, <4>1 DEF FromFirst
            <4>3. \A c \in DOMAIN piece[i] : ~ (c < 1)
                BY <1>9
            <4> QED
                BY <4>2, <4>3 DEF FromFirst
        <3>2. ASSUME NEW i \in 1..n, f[i].op = "blank", i # n, NEW k \in DOMAIN piece[i]
              PROVE  piece[i][k].op = "blank"
            BY <1>8, <3>2
        <3> QED
            BY <1>3, <3>1, <3>2 DEF FromKept
    <2>4. ASSUME NEW i \in 1..n, NEW j \in 1..n, NEW k \in DOMAIN piece[i], NEW m \in DOMAIN piece[j],
                 piece[i][k].op = "ENTRYPOINT", piece[j][m].op = "ENTRYPOINT"
          PROVE  i = j /\ k = m
        <3>1. \A x, y \in LinesOf(f, "ENTRYPOINT") : x = y
            BY DEF Formed
        <3>2. \A x \in 1..n : f[x].op = "ENTRYPOINT" <=> x \in LinesOf(f, "ENTRYPOINT")
            BY <1>1 DEF LinesOf
        <3>3. \A x, y \in DOMAIN t : t[x].op = "ENTRYPOINT" /\ t[y].op = "ENTRYPOINT" => x = y
            BY DEF TailFits
        <3>4. \A x \in DOMAIN t : t[x].op = "ENTRYPOINT" => \A y \in LinesOf(f, "ENTRYPOINT") : y \in removed
            BY DEF TailFits
        <3>5. \/ i \notin removed /\ k = 1 /\ i \in LinesOf(f, "ENTRYPOINT")
              \/ i = n /\ \E x \in DOMAIN t : k = size + x /\ t[x].op = "ENTRYPOINT"
            <4>1. CASE i \notin removed /\ k = 1 /\ piece[i][k] = f[i]
                BY <2>4, <3>2, <4>1
            <4>2. CASE i = n /\ \E x \in DOMAIN t : k = size + x /\ piece[i][k] = t[x]
                BY <2>4, <4>2
            <4> QED
                BY <4>1, <4>2
        <3>6. \/ j \notin removed /\ m = 1 /\ j \in LinesOf(f, "ENTRYPOINT")
              \/ j = n /\ \E x \in DOMAIN t : m = size + x /\ t[x].op = "ENTRYPOINT"
            <4>1. CASE j \notin removed /\ m = 1 /\ piece[j][m] = f[j]
                BY <2>4, <3>2, <4>1
            <4>2. CASE j = n /\ \E x \in DOMAIN t : m = size + x /\ piece[j][m] = t[x]
                BY <2>4, <4>2
            <4> QED
                BY <4>1, <4>2
        <3> QED
            BY <3>1, <3>3, <3>4, <3>5, <3>6
    <2>5. \A i, j \in DOMAIN piece : \A k \in DOMAIN piece[i], m \in DOMAIN piece[j] :
            piece[i][k].op = "ENTRYPOINT" /\ piece[j][m].op = "ENTRYPOINT" => i = j /\ k = m
        <3>1. DOMAIN piece = 1..n
            BY <1>3
        <3> QED
            BY <2>4, <3>1
    <2>6. piece \in Seq(Seq(TextLines)) /\ Len(piece) = Len(f)
        BY <1>3
    <2> QED
        BY <1>2, <1>5, <2>1, <2>2, <2>3, <2>5, <2>6, FormedTransported
<1>12. ASSUME Parses(f) PROVE Parses(g)
    <2>1. Local(f)
        BY <1>12, FormedParses
    <2>2. ASSUME NEW i \in 1..n, NEW j \in 1..n, Continues(f, i, j)
          PROVE  f[j].op \in {"CMD", "var"} /\ i \notin removed /\ j \notin removed
        <3>1. f[j].op \in {"CMD", "var"}
            BY <1>1, <2>1, <2>2 DEF Local, GoesOnWith
        <3>2. f[i].op \in Continuable
            BY <1>1, <2>2 DEF Continues
        <3> QED
            BY <1>7, <3>1, <3>2 DEF Continuable
    <2>3. BlankAlike(f, piece)
        <3>1. ASSUME NEW i \in 1..n, NEW k \in DOMAIN piece[i]
              PROVE  /\ piece[i][k].op = "blank" => f[i].op = "blank"
                     /\ f[i].op = "blank" /\ i # n => piece[i][k].op = "blank"
            BY <1>8
        <3> QED
            BY <1>3, <3>1 DEF BlankAlike
    <2>4. ASSUME NEW i \in 1..n, piece[i] # <<>>
          PROVE  IF \E p \in DOMAIN f : Continues(f, p, i) THEN piece[i][1].op = f[i].op ELSE piece[i][1].op # "var"
        <3>1. 1 \in DOMAIN piece[i]
            BY <1>9, <2>4
        <3>2. CASE i \notin removed
            <4>1. piece[i][1] = f[i]
                BY <1>3, <3>2
            <4>2. (\A p \in DOMAIN f : ~Continues(f, p, i)) => f[i].op # "var"
                BY <1>1, <2>1 DEF Local
            <4> QED
                BY <4>1, <4>2
        <3>3. CASE i \in removed
            <4>1. \A p \in DOMAIN f : ~Continues(f, p, i)
                BY <1>1, <2>2, <3>3
            <4>2. piece[i][1].op \in {"ENTRYPOINT", "USER"}
                BY <1>8, <3>1, <3>3
            <4> QED
                BY <4>1, <4>2
        <3> QED
            BY <3>2, <3>3
    <2>5. ASSUME NEW i \in 1..n, NEW k \in DOMAIN piece[i], k + 1 \notin DOMAIN piece[i]
          PROVE  /\ piece[i][k].more <=> f[i].more
                 /\ f[i].more => GoesOnWith(piece[i][k]) = GoesOnWith(f[i])
        BY <1>1, <1>8
    <2>6. ASSUME NEW i \in 1..n, NEW k \in DOMAIN piece[i], piece[i][k].op = "HEALTHCHECK", ~piece[i][k].more
          PROVE  piece[i][k].args # <<>>
        <3>1. piece[i][k] = f[i]
            BY <1>8, <2>6
        <3> QED
            BY <1>1, <2>1, <2>6, <3>1 DEF Local
    <2>7. ASSUME NEW i \in 1..n, NEW j \in 1..n, Continues(f, i, j)
          PROVE  piece[i] # <<>> /\ piece[j] # <<>>
        BY <1>3, <1>9, <2>2, <2>7
    <2>8. WellJoined(f, piece)
        <3>1. \A i \in DOMAIN piece : \A k \in DOMAIN piece[i] : k + 1 \in DOMAIN piece[i] =>
                IF piece[i][k].more THEN piece[i][k + 1].op = GoesOnWith(piece[i][k]) ELSE piece[i][k + 1].op # "var"
            BY <1>3, <1>10
        <3>2. \A i \in DOMAIN piece : piece[i] # <<>> =>
                IF \E p \in DOMAIN f : Continues(f, p, i) THEN piece[i][1].op = f[i].op ELSE piece[i][1].op # "var"
            BY <1>3, <2>4
        <3>3. \A i \in DOMAIN piece : \A k \in DOMAIN piece[i] : k + 1 \notin DOMAIN piece[i] =>
                /\ piece[i][k].more <=> f[i].more
                /\ f[i].more => GoesOnWith(piece[i][k]) = GoesOnWith(f[i])
            BY <1>3, <2>5
        <3>4. \A i \in DOMAIN piece : \A k \in DOMAIN piece[i] :
                piece[i][k].op = "HEALTHCHECK" /\ ~piece[i][k].more => piece[i][k].args # <<>>
            BY <1>3, <2>6
        <3>5. \A i, j \in DOMAIN piece : Continues(f, i, j) => piece[i] # <<>> /\ piece[j] # <<>>
            BY <1>3, <2>7
        <3> QED
            BY <2>3, <3>1, <3>2, <3>3, <3>4, <3>5 DEF WellJoined
    <2>9. Local(g)
        BY <1>1, <1>2, <1>3, <1>5, <1>11, <2>1, <2>8, LocalKept DEF Formed
    <2> QED
        BY <1>11, <2>9, FormedParses
<1> QED
    BY <1>11, <1>12 DEF g

\* A Dockerfile without some lines has the others one after the other.
LEMMA WithoutLaidOut ==
    ASSUME NEW f, Formed(f), NEW removed
    PROVE  /\ Rewrite(f, Without(f, removed)) \in Seq(TextLines)
           /\ \E start : LaidOut(Rewrite(f, Without(f, removed)), Without(f, removed), start)
<1>1. f \in Seq(TextLines) /\ Len(f) # 0 /\ DOMAIN f = 1..Len(f)
    BY FormedLines
<1>2. /\ Without(f, removed) \in Seq(Seq(TextLines)) /\ Len(Without(f, removed)) # 0
      /\ DOMAIN Without(f, removed) = 1..Len(f)
    BY <1>1, WithoutTyped
<1>3. Without(f, removed) = [i \in DOMAIN f |-> Without(f, removed)[i]]
    BY <1>1 DEF Without
<1>4. Rewrite(f, Without(f, removed)) = FlattenSeq(Without(f, removed))
    BY <1>3 DEF Rewrite
<1> QED
    BY <1>2, <1>4, FlattenLaysOut

\* Removing nothing leaves the Dockerfile.
LEMMA NothingRemoved ==
    ASSUME NEW f, Formed(f)
    PROVE  \E start : LaidOut(f, Without(f, {}), start)
<1>1. f \in Seq(TextLines) /\ Len(f) # 0
    BY FormedLines
<1>2. Without(f, {}) = [i \in 1..Len(f) |-> <<f[i]>>]
    BY DEF Without
<1> QED
    BY <1>1, <1>2, SinglesLayOut

\* The lines of the tail, and those of f that are not removed, are the lines.
LEMMA TailLines ==
    ASSUME NEW f, Formed(f), NEW removed, NEW t, TailFits(f, removed, t),
           NEW h \in Seq(TextLines), NEW start, LaidOut(h, Without(f, removed), start)
    PROVE  \A x \in DOMAIN (h \o t) :
             \/ \E i \in DOMAIN f : i \notin removed /\ (h \o t)[x] = f[i]
             \/ \E m \in DOMAIN t : (h \o t)[x] = t[m]
<1> DEFINE g == h \o t
           piece == WithTail(f, removed, t)
<1>1. t \in Seq(TextLines)
    BY DEF TailFits
<1>2. \E at : Woven(g, piece, at)
    BY <1>1, TailWoven
<1>3. DOMAIN piece = 1..Len(f) /\ DOMAIN f = 1..Len(f) /\ \E size \in Nat : TailAfter(f, removed, t, piece, size)
    BY <1>1, TailPieces, FormedLines
<1> HIDE DEF g, piece
<1>4. PICK at : Woven(g, piece, at)
    BY <1>2
<1>5. PICK size \in Nat : TailAfter(f, removed, t, piece, size)
    BY <1>3
<1>6. ASSUME NEW x \in DOMAIN g
      PROVE  (\E i \in DOMAIN f : i \notin removed /\ g[x] = f[i]) \/ \E m \in DOMAIN t : g[x] = t[m]
    <2>1. PICK i \in DOMAIN piece : \E k \in DOMAIN piece[i] : x = at[i][k]
        BY <1>4 DEF Woven
    <2>2. PICK k \in DOMAIN piece[i] : x = at[i][k]
        BY <2>1
    <2>3. g[x] = piece[i][k]
        BY <1>4, <2>2 DEF Woven
    <2>4. \/ i \notin removed /\ piece[i][k] = f[i]
          \/ \E m \in DOMAIN t : piece[i][k] = t[m]
        <3>1. i \in 1..Len(f)
            BY <1>3
        <3> QED
            BY <1>5, <3>1 DEF TailAfter
    <2> QED
        BY <1>3, <2>3, <2>4
<1> QED
    BY <1>6 DEF g

\* The wiring is kept, but for the entrypoint.
LEMMA TailWired ==
    ASSUME NEW f, Formed(f), NEW removed, NEW t, TailFits(f, removed, t),
           NEW h \in Seq(TextLines), NEW start, LaidOut(h, Without(f, removed), start)
    PROVE  /\ HasShimStage(f) \/ Stages(f, "db-shim") # {} => HasShimStage(h \o t) \/ Stages(h \o t, "db-shim") # {}
           /\ HasShimWiring(f) => HasShimWiring(h \o t)
           /\ HasHealthcheckShim(f) => HasHealthcheckShim(h \o t)
<1> DEFINE g == h \o t
           piece == WithTail(f, removed, t)
<1>1. t \in Seq(TextLines) /\ f \in Seq(TextLines)
    BY DEF TailFits, Formed
<1>2. g \in Seq(TextLines) /\ \E at : Woven(g, piece, at)
    BY <1>1, TailWoven
<1>3. /\ piece \in Seq(Seq(TextLines)) /\ Len(piece) = Len(f)
      /\ DOMAIN piece = 1..Len(f) /\ DOMAIN f = 1..Len(f)
      /\ \A i \in 1..Len(f) : i \notin removed => 1 \in DOMAIN piece[i] /\ piece[i][1] = f[i]
    BY <1>1, TailPieces, FormedLines
<1> HIDE DEF g, piece
<1>4. PICK at : Woven(g, piece, at)
    BY <1>2
<1>5. UsesKept(f, piece, Wired)
    <2> SUFFICES ASSUME NEW i \in DOMAIN piece, f[i].op \in Wired
                 PROVE  \E k \in DOMAIN piece[i] : SameUse(f[i], piece[i][k])
        BY DEF UsesKept
    <2>1. i \notin removed
        BY <1>3 DEF TailFits, Wired
    <2>2. 1 \in DOMAIN piece[i] /\ piece[i][1] = f[i]
        BY <1>3, <2>1
    <2> QED
        BY <2>2, SameUseReflexive
<1>6. Wired \subseteq Wired
    OBVIOUS
<1>7. /\ HasShimStage(f) \/ Stages(f, "db-shim") # {} => HasShimStage(g) \/ Stages(g, "db-shim") # {}
      /\ HasShimWiring(f) => HasShimWiring(g)
      /\ HasHealthcheckShim(f) => HasHealthcheckShim(g)
    BY <1>1, <1>2, <1>3, <1>4, <1>5, <1>6, WiringTransported
<1> QED
    BY <1>7 DEF g

\* USER 65532 at the end.
LEMMA NonrootUserTyped ==
    /\ NonrootUser \in TextLines /\ NonrootUser.op = "USER" /\ ~NonrootUser.more
    /\ NonrootUser.args = Exec(<<"65532">>)
<1>1. "65532" \in ScriptWords /\ "USER" \in Ops /\ FALSE \in BOOLEAN
    BY DEF ScriptWords, Ops
<1>2. Exec(<<"65532">>) \in Seq(Seq(Vocabulary)) /\ Exec(<<"65532">>) # <<>>
    BY <1>1, OneWord
<1> QED
    BY <1>1, <1>2, LineMade, ZenonT(30) DEF NonrootUser

\* An image that runs as 65532 has the USER line enforce_nonroot.py looks for.
LEMMA NonrootHasUser ==
    ASSUME NEW f, Formed(f), Nonroot(f)
    PROVE  HasUser(f)
<1>1. PICK u \in DOMAIN f : u \in LinesOf(f, "USER") /\ f[u].args = Exec(<<"65532">>)
    <2> DEFINE own == {i \in Begins(f, "USER") : i > LastLine(f, "FROM")}
    <2>1. Exec(<<"65532">>) # <<>>
        <3>1. "65532" \in ScriptWords
            BY DEF ScriptWords
        <3> QED
            BY <3>1, OneWord
    <2>2. own # {} /\ f[Max(own)].args = Exec(<<"65532">>)
        BY <2>1 DEF Nonroot, InForce
    <2>3. own \subseteq LinesOf(f, "USER") /\ LinesOf(f, "USER") \subseteq DOMAIN f
        BY DEF Begins, LinesOf
    <2>4. DOMAIN f = 1..Len(f) /\ Len(f) \in Nat
        BY FormedLines
    <2>5. own \in SUBSET (1..Len(f))
        BY <2>3, <2>4
    <2> HIDE DEF own
    <2>6. Max(own) \in own
        BY <2>2, <2>4, <2>5, MaxLine
    <2> QED
        BY <2>2, <2>3, <2>6
<1>2. f[u] \in TextLines /\ f[u].op = "USER" /\ ~f[u].more
    BY <1>1, FormedLines DEF LinesOf, Continuable
<1>3. f[u] = NonrootUser
    <2>1. \A line \in TextLines : line = [op |-> line.op, args |-> line.args, more |-> line.more]
        BY DEF TextLines
    <2>2. f[u] = [op |-> "USER", args |-> Exec(<<"65532">>), more |-> FALSE]
        BY <1>1, <1>2, <2>1
    <2> QED
        BY <2>2 DEF NonrootUser, Is, LineOf
<1> QED
    BY <1>1, <1>3 DEF HasUser

\* USER before line p, an instruction or the CMD of a health check.
LEMMA UserBefore ==
    ASSUME NEW f, Formed(f), NEW p \in DOMAIN f, f[p].op \in {"ENTRYPOINT", "CMD", "LABEL", "EXPOSE"}
    PROVE  /\ Formed(InsertAt(f, p, NonrootUser))
           /\ \A facts : NamesKept(f, InsertAt(f, p, NonrootUser), facts)
           /\ CheckDockerfile(f) => CheckDockerfile(InsertAt(f, p, NonrootUser))
           /\ Parses(f) /\ ~Inside(f, p) => Parses(InsertAt(f, p, NonrootUser))
<1> DEFINE n == Len(f)
           e == NonrootUser
           g == InsertAt(f, p, e)
           piece == [i \in 1..n |-> IF i = p THEN <<e, f[i]>> ELSE <<f[i]>>]
<1>1. /\ f \in Seq(TextLines) /\ n \in Nat \ {0} /\ DOMAIN f = 1..n /\ p \in 1..n
      /\ \A i \in 1..n : f[i] \in TextLines /\ (f[i].more => f[i].op \in Continuable)
    BY FormedLines
<1>2. e \in TextLines /\ e.op = "USER" /\ ~e.more
    BY NonrootUserTyped
<1> HIDE DEF e
<1>3. \A i \in 1..n : <<f[i]>> \in Seq(TextLines) /\ <<e, f[i]>> \in Seq(TextLines)
    <2> SUFFICES ASSUME NEW i \in 1..n PROVE <<f[i]>> \in Seq(TextLines) /\ <<e, f[i]>> \in Seq(TextLines)
        OBVIOUS
    <2>1. f[i] \in TextLines /\ e \in TextLines
        BY <1>1, <1>2
    <2> QED
        BY <2>1
<1>4. piece \in Seq(Seq(TextLines)) /\ Len(piece) = n /\ DOMAIN piece = 1..n
    <2>1. \A i \in 1..n : (IF i = p THEN <<e, f[i]>> ELSE <<f[i]>>) \in Seq(TextLines)
        BY <1>3
    <2> QED
        BY <1>1, <2>1
<1>5. piece[p] = <<e, f[p]>> /\ \A i \in 1..n : i # p => piece[i] = <<f[i]>>
    BY <1>1
<1>6. g \in Seq(TextLines)
    <2>1. p \in 1..(Len(f) + 1)
        BY <1>1
    <2> QED
        BY <1>1, <1>2, <2>1, OneMoreLine
<1>7. \E at : Woven(g, piece, at)
    <2>1. p \in 1..Len(f) /\ f \in Seq(TextLines) /\ e \in TextLines
        BY <1>1, <1>2
    <2>2. \E start : LaidOut(g, piece, start)
        BY <2>1, InsertLaysOut
    <2> HIDE DEF piece, g
    <2> QED
        BY <1>4, <1>6, <2>2, LaidOutWoven
<1> HIDE DEF piece, g
<1>8. PICK at : Woven(g, piece, at)
    BY <1>7
<1>9. /\ DOMAIN piece[p] = {1, 2} /\ piece[p][1] = e /\ piece[p][2] = f[p]
      /\ \A i \in 1..n : i # p => DOMAIN piece[i] = {1} /\ piece[i][1] = f[i]
    BY <1>5
\* An element is the line itself, the last of its piece, or the USER before line p.
<1>10. ASSUME NEW i \in 1..n, NEW k \in DOMAIN piece[i]
       PROVE  \/ piece[i][k] = f[i] /\ k + 1 \notin DOMAIN piece[i] /\ (k = 1 <=> i # p)
              \/ i = p /\ k = 1 /\ piece[i][k] = e /\ k + 1 \in DOMAIN piece[i] /\ piece[i][k + 1] = f[p]
    <2>1. CASE i = p
        BY <1>9, <2>1
    <2>2. CASE i # p
        BY <1>9, <2>2
    <2> QED
        BY <2>1, <2>2
<1>11. ASSUME NEW i \in 1..n PROVE \E k \in DOMAIN piece[i] : piece[i][k] = f[i] /\ (k = 1 <=> i # p) /\ (i = p => k = 2)
    <2>1. CASE i = p
        BY <1>9, <2>1
    <2>2. CASE i # p
        BY <1>9, <2>2
    <2> QED
        BY <2>1, <2>2
<1>12. f[p].op \notin Skipped /\ f[p].op # "blank" /\ f[p].op # "FROM" /\ f[p].op # "var"
    BY DEF Skipped
<1>13. Formed(g)
    <2>1. NoneLoose(f, piece)
        <3>1. ASSUME NEW i \in 1..n, NEW k \in DOMAIN piece[i], k + 1 \in DOMAIN piece[i]
              PROVE  ~piece[i][k].more
            BY <1>2, <1>10, <3>1
        <3>2. ASSUME NEW i \in 1..n, NEW k \in DOMAIN piece[i], k + 1 \notin DOMAIN piece[i]
              PROVE  piece[i][k] = f[i]
            BY <1>10, <3>2
        <3>3. ASSUME NEW i \in 1..n, f[i].op \in Skipped, NEW k \in DOMAIN piece[i]
              PROVE  piece[i][k].op \notin EndOps
            <4>1. piece[i][k] = f[i] \/ i = p
                BY <1>10
            <4>2. piece[i][k] = f[i]
                BY <1>12, <3>3, <4>1
            <4> QED
                BY <3>3, <4>2 DEF Skipped, EndOps
        <3>4. ASSUME NEW j \in 1..n, f[j].op \notin Skipped \cup EndOps
              PROVE  \E b \in DOMAIN piece[j] : /\ piece[j][b].op \notin Skipped \cup EndOps
                                                /\ \A c \in DOMAIN piece[j] : c < b => piece[j][c].op \notin EndOps
            <4>1. PICK b \in DOMAIN piece[j] : piece[j][b] = f[j]
                BY <1>11
            <4>2. \A c \in DOMAIN piece[j] : piece[j][c] = f[j] \/ piece[j][c] = e
                BY <1>10
            <4>3. \A c \in DOMAIN piece[j] : piece[j][c].op \notin EndOps
                BY <1>2, <3>4, <4>2 DEF EndOps
            <4> QED
                BY <3>4, <4>1, <4>3
        <3> QED
            BY <1>4, <3>1, <3>2, <3>3, <3>4 DEF NoneLoose
    <2>2. \A i \in DOMAIN piece : \A k \in DOMAIN piece[i] : piece[i][k].more => piece[i][k].op \in Continuable
        <3>1. \A i \in 1..n : \A k \in DOMAIN piece[i] : piece[i][k] = f[i] \/ piece[i][k] = e
            BY <1>10
        <3> QED
            BY <1>1, <1>2, <1>4, <3>1
    <2>3. FromKept(f, piece)
        <3>1. ASSUME NEW i \in 1..n, FromFirst(f, i) PROVE \E k \in DOMAIN piece[i] : FromFirst(piece[i], k)
            <4>1. i # p
                BY <1>12, <3>1 DEF FromFirst
            <4>2. DOMAIN piece[i] = {1} /\ piece[i][1].op = "FROM"
                BY <1>9, <3>1, <4>1 DEF FromFirst
            <4> QED
                BY <4>2 DEF FromFirst
        <3>2. ASSUME NEW i \in 1..n, f[i].op = "blank", NEW k \in DOMAIN piece[i]
              PROVE  piece[i][k].op = "blank"
            BY <1>10, <1>12, <3>2
        <3> QED
            BY <1>4, <3>1, <3>2 DEF FromKept
    <2>4. \A i, j \in DOMAIN piece : \A k \in DOMAIN piece[i], m \in DOMAIN piece[j] :
            piece[i][k].op = "ENTRYPOINT" /\ piece[j][m].op = "ENTRYPOINT" => i = j /\ k = m
        <3> SUFFICES ASSUME NEW i \in 1..n, NEW j \in 1..n, NEW k \in DOMAIN piece[i], NEW m \in DOMAIN piece[j],
                            piece[i][k].op = "ENTRYPOINT", piece[j][m].op = "ENTRYPOINT"
                     PROVE  i = j /\ k = m
            BY <1>4
        <3>1. /\ piece[i][k] = f[i] /\ k + 1 \notin DOMAIN piece[i] /\ (k = 1 <=> i # p)
              /\ piece[j][m] = f[j] /\ m + 1 \notin DOMAIN piece[j] /\ (m = 1 <=> j # p)
            BY <1>2, <1>10
        <3>2. i = j
            BY <1>1, <3>1 DEF Formed, LinesOf
        <3>3. k = m
            BY <1>9, <3>1, <3>2
        <3> QED
            BY <3>2, <3>3
    <2>5. piece \in Seq(Seq(TextLines)) /\ Len(piece) = Len(f)
        BY <1>4
    <2> QED
        BY <1>6, <1>8, <2>1, <2>2, <2>3, <2>4, <2>5, FormedTransported
<1>14. \A facts : NamesKept(f, g, facts)
    <2>1. NamesFrom(f, piece)
        <3> SUFFICES ASSUME NEW i \in 1..n, NEW k \in DOMAIN piece[i], piece[i][k].op \in {"ENTRYPOINT", "CMD"}
                     PROVE  piece[i][k] = f[i]
            BY <1>4 DEF NamesFrom
        <3> QED
            BY <1>2, <1>10
    <2>2. piece \in Seq(Seq(TextLines)) /\ Len(piece) = Len(f)
        BY <1>4
    <2> QED
        BY <1>6, <1>8, <2>1, <2>2, NamesTransported DEF NamesKept
<1>15. CheckDockerfile(f) => CheckDockerfile(g)
    <2>1. UsesKept(f, piece, Wired \cup {"ENTRYPOINT"})
        <3> SUFFICES ASSUME NEW i \in 1..n PROVE \E k \in DOMAIN piece[i] : SameUse(f[i], piece[i][k])
            BY <1>4 DEF UsesKept
        <3>1. PICK k \in DOMAIN piece[i] : piece[i][k] = f[i]
            BY <1>11
        <3> QED
            BY <3>1, SameUseReflexive
    <2>2. piece \in Seq(Seq(TextLines)) /\ Len(piece) = Len(f)
        BY <1>4
    <2> QED
        BY <1>8, <1>13, <2>1, <2>2, AcceptedTransported
<1>16. ASSUME Parses(f), ~Inside(f, p) PROVE Parses(g)
    <2>1. Local(f)
        BY <1>16, FormedParses
    <2>2. \A q \in DOMAIN f : ~Continues(f, q, p)
        BY <1>1, <1>12, <1>16, InsideContinues
    <2>3. BlankAlike(f, piece)
        <3>1. ASSUME NEW i \in 1..n, NEW k \in DOMAIN piece[i]
              PROVE  piece[i][k].op = "blank" <=> f[i].op = "blank"
            BY <1>2, <1>10, <1>12
        <3> QED
            BY <1>4, <3>1 DEF BlankAlike
    <2>4. ASSUME NEW i \in 1..n
          PROVE  IF \E q \in DOMAIN f : Continues(f, q, i) THEN piece[i][1].op = f[i].op ELSE piece[i][1].op # "var"
        <3>1. CASE i = p
            <4>1. piece[i][1].op = "USER"
                BY <1>2, <1>9, <3>1
            <4> QED
                BY <2>2, <3>1, <4>1
        <3>2. CASE i # p
            <4>1. piece[i][1] = f[i]
                BY <1>9, <3>2
            <4>2. (\A q \in DOMAIN f : ~Continues(f, q, i)) => f[i].op # "var"
                BY <1>1, <2>1 DEF Local
            <4> QED
                BY <4>1, <4>2
        <3> QED
            BY <3>1, <3>2
    <2>5. ASSUME NEW i \in 1..n, NEW k \in DOMAIN piece[i], k + 1 \in DOMAIN piece[i]
          PROVE  ~piece[i][k].more /\ piece[i][k + 1].op # "var"
        BY <1>2, <1>10, <1>12, <2>5
    <2>6. ASSUME NEW i \in 1..n, NEW k \in DOMAIN piece[i], k + 1 \notin DOMAIN piece[i]
          PROVE  piece[i][k] = f[i]
        BY <1>10, <2>6
    <2>7. ASSUME NEW i \in 1..n, NEW k \in DOMAIN piece[i], piece[i][k].op = "HEALTHCHECK", ~piece[i][k].more
          PROVE  piece[i][k].args # <<>>
        <3>1. piece[i][k] = f[i]
            BY <1>2, <1>10, <2>7
        <3> QED
            BY <1>1, <2>1, <2>7, <3>1 DEF Local
    <2>8. ASSUME NEW i \in 1..n PROVE piece[i] # <<>>
        BY <1>11, <2>8
    <2>9. WellJoined(f, piece)
        <3>1. \A i \in DOMAIN piece : piece[i] # <<>> =>
                IF \E q \in DOMAIN f : Continues(f, q, i) THEN piece[i][1].op = f[i].op ELSE piece[i][1].op # "var"
            BY <1>4, <2>4
        <3>2. \A i \in DOMAIN piece : \A k \in DOMAIN piece[i] : k + 1 \in DOMAIN piece[i] =>
                IF piece[i][k].more THEN piece[i][k + 1].op = GoesOnWith(piece[i][k]) ELSE piece[i][k + 1].op # "var"
            BY <1>4, <2>5
        <3>3. \A i \in DOMAIN piece : \A k \in DOMAIN piece[i] : k + 1 \notin DOMAIN piece[i] =>
                /\ piece[i][k].more <=> f[i].more
                /\ f[i].more => GoesOnWith(piece[i][k]) = GoesOnWith(f[i])
            BY <1>4, <2>6
        <3>4. \A i \in DOMAIN piece : \A k \in DOMAIN piece[i] :
                piece[i][k].op = "HEALTHCHECK" /\ ~piece[i][k].more => piece[i][k].args # <<>>
            BY <1>4, <2>7
        <3>5. \A i, j \in DOMAIN piece : Continues(f, i, j) => piece[i] # <<>> /\ piece[j] # <<>>
            BY <1>4, <2>8
        <3> QED
            BY <2>3, <3>1, <3>2, <3>3, <3>4, <3>5 DEF WellJoined
    <2>10. Local(g)
        BY <1>1, <1>4, <1>6, <1>8, <1>13, <2>1, <2>9, LocalKept DEF Formed
    <2> QED
        BY <1>13, <2>10, FormedParses
<1> QED
    BY <1>13, <1>14, <1>15, <1>16 DEF g, e

\* USER lines at the end name nothing.
LEMMA TailNames ==
    ASSUME NEW f, Formed(f), NEW t, TailFits(f, {}, t), \A m \in DOMAIN t : t[m].op = "USER",
           NEW facts
    PROVE  NamesKept(f, f \o t, facts)
<1> DEFINE g == f \o t
<1>1. PICK start : LaidOut(f, Without(f, {}), start)
    BY NothingRemoved
<1>2. f \in Seq(TextLines)
    BY DEF Formed
<1>3. ASSUME NEW x \in DOMAIN g, g[x].op \in {"ENTRYPOINT", "CMD"}
      PROVE  \E i \in DOMAIN f : g[x] = f[i]
    <2>1. \/ \E i \in DOMAIN f : g[x] = f[i]
          \/ \E m \in DOMAIN t : g[x] = t[m]
        BY <1>1, <1>2, TailLines
    <2> QED
        BY <1>3, <2>1
<1> HIDE DEF g
<1>4. RunsDeprecated(g) => RunsDeprecated(f)
    BY <1>3 DEF RunsDeprecated, LinesOf
<1>5. NamesCanonical(g, facts) => NamesCanonical(f, facts)
    BY <1>3 DEF NamesCanonical, LinesOf
<1> QED
    BY <1>4, <1>5 DEF NamesKept, g

\* Where enforce_nonroot.py puts USER.
LEMMA InsertPoint ==
    ASSUME NEW f, Formed(f)
    PROVE  \/ /\ FindInsertPoint(f) \in DOMAIN f
              /\ f[FindInsertPoint(f)].op \in {"ENTRYPOINT", "CMD", "LABEL", "EXPOSE"}
           \/ FindInsertPoint(f) = Len(f) + 1
<1> DEFINE p == FindInsertPoint(f)
<1>1. f \in Seq(TextLines) /\ DOMAIN f = 1..Len(f) /\ Len(f) \in Nat \ {0}
    BY FormedLines
<1>2. \A op : LinesOf(f, op) \in SUBSET (1..Len(f))
    BY <1>1 DEF LinesOf
<1>3. CASE LinesOf(f, "ENTRYPOINT") # {}
    <2>1. LastLine(f, "ENTRYPOINT") \in LinesOf(f, "ENTRYPOINT")
        BY <1>1, <1>2, <1>3, MaxLine DEF LastLine
    <2>2. p = LastLine(f, "ENTRYPOINT")
        BY <1>3 DEF FindInsertPoint
    <2> QED
        BY <2>1, <2>2 DEF LinesOf
<1>4. CASE LinesOf(f, "ENTRYPOINT") = {} /\ LinesOf(f, "CMD") # {}
    <2>1. LastLine(f, "CMD") \in LinesOf(f, "CMD")
        BY <1>1, <1>2, <1>4, MaxLine DEF LastLine
    <2>2. p = LastLine(f, "CMD")
        BY <1>4 DEF FindInsertPoint
    <2> QED
        BY <2>1, <2>2 DEF LinesOf
<1>5. CASE LinesOf(f, "ENTRYPOINT") = {} /\ LinesOf(f, "CMD") = {}
    <2> DEFINE late == InFinalStage(f, "LABEL") \cup InFinalStage(f, "EXPOSE")
    <2>1. p = IF late # {} THEN Max(late) ELSE Len(f) + 1
        BY <1>5 DEF FindInsertPoint
    <2>2. late \subseteq LinesOf(f, "LABEL") \cup LinesOf(f, "EXPOSE")
        BY DEF InFinalStage
    <2>3. late \in SUBSET (1..Len(f))
        BY <1>2, <2>2
    <2> HIDE DEF late
    <2>4. CASE late # {}
        <3>1. p \in late
            BY <1>1, <2>1, <2>3, <2>4, MaxLine
        <3> QED
            BY <2>2, <3>1 DEF LinesOf
    <2> QED
        BY <2>1, <2>4
<1> QED
    BY <1>3, <1>4, <1>5

\* A step of enforce_nonroot.py keeps the wiring, and what parses unless the USER
\* lands in a health check; it is not taken when the image runs as 65532.
LEMMA EnforceNonrootKeeps ==
    ASSUME Formed(file), EnforceNonroot
    PROVE  /\ Formed(file') /\ NamesKept(file, file', known)
           /\ CheckDockerfile(file) => CheckDockerfile(file')
           /\ Parses(file) => Parses(file') \/ UserLandsInHealthCheck(file)
           /\ ~Nonroot(file)
<1> DEFINE p == FindInsertPoint(file)
<1>1. file' = InsertAt(file, p, NonrootUser) /\ ~HasUser(file)
    BY DEF EnforceNonroot
<1>2. ~Nonroot(file)
    BY <1>1, NonrootHasUser
<1>3. file \in Seq(TextLines) /\ DOMAIN file = 1..Len(file) /\ Len(file) \in Nat \ {0}
    BY FormedLines
<1>4. \/ p \in DOMAIN file /\ file[p].op \in {"ENTRYPOINT", "CMD", "LABEL", "EXPOSE"}
      \/ p = Len(file) + 1
    BY InsertPoint
<1> HIDE DEF p
<1>5. CASE p \in DOMAIN file /\ file[p].op \in {"ENTRYPOINT", "CMD", "LABEL", "EXPOSE"}
    <2>1. Parses(file) => Parses(file') \/ Inside(file, p)
        BY <1>1, <1>5, UserBefore
    <2>2. Formed(file') /\ NamesKept(file, file', known) /\ (CheckDockerfile(file) => CheckDockerfile(file'))
        BY <1>1, <1>5, UserBefore
    <2> QED
        BY <1>2, <2>1, <2>2 DEF UserLandsInHealthCheck, p
<1>6. CASE p = Len(file) + 1
    <2> DEFINE t == <<NonrootUser>>
               piece == WithTail(file, {}, t)
               g == file \o t
    <2>1. NonrootUser \in TextLines
        BY NonrootUserTyped
    <2>2. g = file'
        <3>1. Append(file, NonrootUser) = InsertAt(file, Len(file) + 1, NonrootUser)
            BY <1>3, <2>1, AppendInserts
        <3>2. Append(file, NonrootUser) = file \o <<NonrootUser>>
            BY <1>3, <2>1, AppendIsConcat
        <3> QED
            BY <1>1, <1>6, <3>1, <3>2
    <2>3. t \in Seq(TextLines) /\ DOMAIN t = {1} /\ t[1] = NonrootUser
        BY <2>1
    <2> HIDE DEF t, g, piece
    <2>4. \A m \in DOMAIN t : t[m].op = "USER" /\ ~t[m].more
        BY <2>3, NonrootUserTyped
    <2>5. TailFits(file, {}, t)
        BY <2>3, <2>4 DEF TailFits
    <2>6. PICK start : LaidOut(file, Without(file, {}), start)
        BY NothingRemoved
    <2>7. Formed(g) /\ (Parses(file) => Parses(g))
        BY <1>3, <2>5, <2>6, TailFormed DEF g
    <2>8. NamesKept(file, g, known)
        BY <2>4, <2>5, TailNames DEF g
    <2>9. /\ piece \in Seq(Seq(TextLines)) /\ Len(piece) = Len(file) /\ DOMAIN piece = 1..Len(file)
          /\ \A i \in 1..Len(file) : 1 \in DOMAIN piece[i] /\ piece[i][1] = file[i]
        BY <2>3, TailPieces DEF piece
    <2>10. PICK at : Woven(g, piece, at)
        BY <1>3, <2>3, <2>6, TailWoven DEF g, piece
    <2>11. UsesKept(file, piece, Wired \cup {"ENTRYPOINT"})
        <3> SUFFICES ASSUME NEW i \in DOMAIN piece PROVE \E k \in DOMAIN piece[i] : SameUse(file[i], piece[i][k])
            BY DEF UsesKept
        <3>1. 1 \in DOMAIN piece[i] /\ piece[i][1] = file[i]
            BY <2>9
        <3> QED
            BY <3>1, SameUseReflexive
    <2>12. CheckDockerfile(file) => CheckDockerfile(g)
        BY <2>7, <2>9, <2>10, <2>11, AcceptedTransported
    <2> QED
        BY <1>2, <2>2, <2>7, <2>8, <2>12
<1> QED
    BY <1>4, <1>5, <1>6

\* The entrypoint the stub scripts append.
LEMMA ShimRunsTyped ==
    ASSUME NEW binary \in Seq(Vocabulary)
    PROVE  /\ ShimRuns(binary) \in TextLines /\ ShimRuns(binary).op = "ENTRYPOINT" /\ ~ShimRuns(binary).more
           /\ RunsShim(ShimRuns(binary).args) /\ ~RunsOld(ShimRuns(binary).args)
<1> DEFINE a == Arg(Canonical)
           b == Arg("run")
           c == Arg("-c")
           S == Seq(Vocabulary)
           args == Exec(<<Canonical, "run", "-c">>) \o <<binary>>
<1>1. a \in S /\ b \in S /\ c \in S
    <2>1. {Canonical, "run", "-c"} \subseteq ScriptWords
        BY DEF ScriptWords, ShimPaths
    <2> QED
        BY <2>1, ScriptWordsTyped
<1>2. Exec(<<Canonical, "run", "-c">>) = <<a, b, c>>
    BY ExecTriple
<1>3. args = <<a, b, c>> \o <<binary>>
    BY <1>2
<1> DEFINE s == <<a, b, c>>
           t == <<binary>>
<1> HIDE DEF a, b, c, args, S
<1>4. /\ s \in Seq(S) /\ Len(s) = 3 /\ s[1] = a /\ s[2] = b /\ s[3] = c
      /\ t \in Seq(S) /\ Len(t) = 1
    <2>1. binary \in S
        BY DEF S
    <2> QED
        BY <1>1, <2>1
<1> HIDE DEF s, t
<1>5. /\ s \o t \in Seq(S) /\ Len(s \o t) = Len(s) + Len(t)
      /\ \A w \in 1..Len(s) : (s \o t)[w] = s[w]
    BY <1>4, Concatenated, ZenonT(30)
<1>6. args \in Seq(S) /\ Len(args) = 4 /\ args[1] = a /\ args[2] = b /\ args[3] = c
    <2>1. args = s \o t
        BY <1>3 DEF s, t
    <2>2. Len(s) + Len(t) = 4 /\ 1 \in 1..Len(s) /\ 2 \in 1..Len(s) /\ 3 \in 1..Len(s)
        BY <1>4
    <2> QED
        BY <1>4, <1>5, <2>1, <2>2
<1>7. ShimRuns(binary) = Is("ENTRYPOINT", args)
    BY DEF ShimRuns, args
<1>8. /\ Is("ENTRYPOINT", args) \in TextLines /\ Is("ENTRYPOINT", args).op = "ENTRYPOINT"
      /\ ~Is("ENTRYPOINT", args).more /\ Is("ENTRYPOINT", args).args = args
    <2>1. "ENTRYPOINT" \in Ops /\ FALSE \in BOOLEAN /\ args \in Seq(Seq(Vocabulary))
        BY <1>6 DEF Ops, S
    <2> QED
        BY <2>1, LineMade, ZenonT(30)
<1>9. RunsShim(args)
    BY <1>6 DEF RunsShim, a, b, c
<1>10. ~RunsOld(args)
    <2>1. RunsOld(args) => args[1] = Arg(Deprecated)
        BY <1>6, RunsOldMeans DEF S
    <2>2. Arg(Canonical) # Arg(Deprecated)
        BY DEF Arg, Canonical, Deprecated
    <2> QED
        BY <1>6, <2>1, <2>2 DEF a
<1> QED
    BY <1>7, <1>8, <1>9, <1>10

\* The last lines: the shim's entrypoint, and perhaps the USER.
LEMMA StubTail ==
    ASSUME NEW f, Formed(f), NEW removed, NEW binary \in Seq(Vocabulary), NEW t,
           t = <<ShimRuns(binary)>> \/ t = <<ShimRuns(binary), NonrootUser>>,
           \A i \in DOMAIN f : i \in removed => f[i].op \in {"ENTRYPOINT", "USER"},
           \A i \in LinesOf(f, "ENTRYPOINT") : i \in removed
    PROVE  /\ TailFits(f, removed, t) /\ 1 \in DOMAIN t /\ t[1] = ShimRuns(binary)
           /\ \A m \in DOMAIN t : t[m] = ShimRuns(binary) \/ t[m] = NonrootUser
<1> DEFINE e == ShimRuns(binary)
           u == NonrootUser
<1>1. /\ e \in TextLines /\ e.op = "ENTRYPOINT" /\ ~e.more
      /\ u \in TextLines /\ u.op = "USER" /\ ~u.more
    BY ShimRunsTyped, NonrootUserTyped
<1>2. t = <<e>> \/ t = <<e, u>>
    OBVIOUS
<1> HIDE DEF e, u
<1>3. t \in Seq(TextLines) /\ 1 \in DOMAIN t /\ t[1] = e /\ \A m \in DOMAIN t : m = 1 \/ t[m] = u
    <2>1. CASE t = <<e>>
        BY <1>1, <2>1
    <2>2. CASE t = <<e, u>>
        BY <1>1, <2>2
    <2> QED
        BY <1>2, <2>1, <2>2
<1>4. \A m \in DOMAIN t : t[m] = e \/ t[m] = u
    BY <1>3
<1>5. \A k, m \in DOMAIN t : t[k].op = "ENTRYPOINT" /\ t[m].op = "ENTRYPOINT" => k = m
    <2>1. \A m \in DOMAIN t : t[m].op = "ENTRYPOINT" => m = 1
        BY <1>1, <1>3
    <2> QED
        BY <2>1
<1>6. TailFits(f, removed, t)
    BY <1>1, <1>3, <1>4, <1>5 DEF TailFits
<1> QED
    BY <1>3, <1>4, <1>6 DEF e, u

\* The image then runs the shim from its path.
LEMMA StubKeeps ==
    ASSUME NEW f, Formed(f), NEW removed, NEW binary \in Seq(Vocabulary), NEW t, TailFits(f, removed, t),
           1 \in DOMAIN t, t[1] = ShimRuns(binary),
           \A m \in DOMAIN t : t[m] = ShimRuns(binary) \/ t[m] = NonrootUser,
           NEW h \in Seq(TextLines), NEW start, LaidOut(h, Without(f, removed), start)
    PROVE  /\ Formed(h \o t) /\ (Parses(f) => Parses(h \o t)) /\ ~RunsDeprecated(h \o t)
           /\ CheckDockerfile(f) => CheckDockerfile(h \o t)
<1> DEFINE g == h \o t
<1>1. Formed(g) /\ (Parses(f) => Parses(g))
    BY TailFormed
<1>2. ShimRuns(binary).op = "ENTRYPOINT" /\ RunsShim(ShimRuns(binary).args) /\ ~RunsOld(ShimRuns(binary).args)
    BY ShimRunsTyped
<1>3. NonrootUser.op = "USER"
    BY NonrootUserTyped
<1>4. \A i \in LinesOf(f, "ENTRYPOINT") : i \in removed
    BY <1>2 DEF TailFits
<1>5. \A x \in DOMAIN g : \/ \E i \in DOMAIN f : i \notin removed /\ g[x] = f[i]
                          \/ \E m \in DOMAIN t : g[x] = t[m]
    BY TailLines
<1>6. t \in Seq(TextLines)
    BY DEF TailFits
<1>7. Len(h) + 1 \in DOMAIN g /\ g[Len(h) + 1] = t[1]
    <2>1. /\ h \o t \in Seq(TextLines) /\ Len(h \o t) = Len(h) + Len(t)
          /\ \A k \in 1..Len(t) : (h \o t)[Len(h) + k] = t[k]
        BY <1>6, Concatenated
    <2>2. 1 \in 1..Len(t) /\ Len(h) \in Nat /\ Len(t) \in Nat
        BY <1>6
    <2>3. Len(h) + 1 \in 1..(Len(h) + Len(t))
        BY <2>2
    <2> QED
        BY <2>1, <2>2, <2>3
<1> HIDE DEF g
<1>8. ASSUME NEW x \in LinesOf(g, "ENTRYPOINT") PROVE g[x] = ShimRuns(binary)
    <2>1. x \in DOMAIN g /\ g[x].op = "ENTRYPOINT"
        BY DEF LinesOf
    <2>2. ASSUME NEW i \in DOMAIN f, i \notin removed, g[x] = f[i] PROVE FALSE
        BY <1>4, <2>1, <2>2 DEF LinesOf
    <2> QED
        BY <1>3, <1>5, <2>1, <2>2
<1>9. ~RunsDeprecated(g)
    BY <1>2, <1>8 DEF RunsDeprecated, RunsOld
<1>10. ASSUME CheckDockerfile(f) PROVE CheckDockerfile(g)
    <2>1. /\ HasShimStage(g) \/ Stages(g, "db-shim") # {}
          /\ HasShimWiring(g) /\ HasHealthcheckShim(g)
        BY <1>10, TailWired DEF CheckDockerfile, g
    <2>2. Len(h) + 1 \in LinesOf(g, "ENTRYPOINT") /\ RunsShim(g[Len(h) + 1].args)
        BY <1>2, <1>7 DEF LinesOf
    <2>3. HasEntrypointShim(g)
        BY <1>1, <2>2, EntrypointAccepted DEF Formed
    <2> QED
        BY <2>1, <2>3 DEF CheckDockerfile
<1> QED
    BY <1>1, <1>9, <1>10 DEF g

\* A tail of one line and then another.
LEMMA TwoTails ==
    ASSUME NEW S, NEW h \in Seq(S), NEW e \in S, NEW u \in S
    PROVE  /\ h \o <<e>> \o <<u>> = h \o <<e, u>>
           /\ h \o <<e>> \o <<>> = h \o <<e>>
<1> DEFINE s == <<e>>
           r == <<u>>
           both == <<e, u>>
           added == Append(s, u)
<1>1. /\ s \in Seq(S) /\ Len(s) = 1 /\ s[1] = e /\ r \in Seq(S)
      /\ both \in Seq(S) /\ Len(both) = 2 /\ both[1] = e /\ both[2] = u
    OBVIOUS
<1>2. added = s \o <<u>>
    <2> HIDE DEF s
    <2> QED
        BY <1>1, AppendIsConcat
<1>3. s \o r = added
    BY <1>2
<1> HIDE DEF s, r, both
<1>4. added \in Seq(S) /\ Len(added) = 2 /\ added[1] = e /\ added[2] = u
    <2>1. /\ Append(s, u) \in Seq(S) /\ Len(Append(s, u)) = Len(s) + 1
          /\ \A i \in 1..Len(s) : Append(s, u)[i] = s[i]
          /\ Append(s, u)[Len(s) + 1] = u
        <3>1. s \in Seq(S)
            BY <1>1
        <3> QED
            BY <3>1, AppendProperties
    <2> QED
        BY <1>1, <2>1
<1> HIDE DEF added
<1>5. \A i \in 1..Len(added) : added[i] = both[i]
    BY <1>1, <1>4
<1>6. added = both
    BY <1>1, <1>4, <1>5, SeqEqual
<1>7. (h \o s) \o r = h \o (s \o r)
    BY <1>1, ConcatAssociative, SMTT(30)
<1>8. (h \o s) \o <<>> = h \o s
    <2>1. h \o s \in Seq(S)
        BY <1>1, Concatenated
    <2> QED
        BY <2>1, ConcatEmptySeq
<1>9. (h \o s) \o r = h \o both
    BY <1>3, <1>6, <1>7
<1> QED
    BY <1>8, <1>9 DEF s, r, both

\* The name fix-stubs guesses is made of words.
LEMMA GuessTyped == Arg("/guess") \in Seq(Vocabulary)
BY ScriptWordsTyped DEF ScriptWords

\* A step of fix-stubs keeps the wiring, what parses and the user.
LEMMA FixStubKeeps ==
    ASSUME Formed(file), known \in Facts, FixStub
    PROVE  /\ Formed(file') /\ NamesKept(file, file', known)
           /\ CheckDockerfile(file) => CheckDockerfile(file')
           /\ Parses(file) => Parses(file')
           /\ Parses(file) /\ Nonroot(file) => Nonroot(file')
<1> DEFINE b == Arg("/guess")
           e == ShimRuns(b)
           t == IF LinesOf(file, "USER") = {} THEN <<e, NonrootUser>> ELSE <<e>>
           g == file \o t
<1>1. b \in Seq(Vocabulary)
    BY GuessTyped
<1>2. e \in TextLines /\ NonrootUser \in TextLines /\ file \in Seq(TextLines)
    BY <1>1, ShimRunsTyped, NonrootUserTyped DEF Formed
<1>3. file' = file \o <<e>> \o (IF LinesOf(file, "USER") = {} THEN <<NonrootUser>> ELSE <<>>)
      /\ LinesOf(file, "ENTRYPOINT") = {}
    BY DEF FixStub
<1> HIDE DEF b, e
<1>4. file' = g
    <2>1. file \o <<e>> \o <<NonrootUser>> = file \o <<e, NonrootUser>> /\ file \o <<e>> \o <<>> = file \o <<e>>
        BY <1>2, TwoTails
    <2>2. CASE LinesOf(file, "USER") = {}
        BY <1>3, <2>1, <2>2
    <2>3. CASE LinesOf(file, "USER") # {}
        BY <1>3, <2>1, <2>3
    <2> QED
        BY <2>2, <2>3
<1>5. t = <<ShimRuns(b)>> \/ t = <<ShimRuns(b), NonrootUser>>
    BY DEF e
<1>6. LinesOf(file, "USER") # {} => t = <<e>>
    OBVIOUS
<1> HIDE DEF t
<1>7. /\ TailFits(file, {}, t) /\ 1 \in DOMAIN t /\ t[1] = ShimRuns(b)
      /\ \A m \in DOMAIN t : t[m] = ShimRuns(b) \/ t[m] = NonrootUser
    <2>1. /\ \A i \in DOMAIN file : i \in {} => file[i].op \in {"ENTRYPOINT", "USER"}
          /\ \A i \in LinesOf(file, "ENTRYPOINT") : i \in {}
        BY <1>3
    <2> QED
        BY <1>1, <1>5, <2>1, StubTail
<1>8. PICK start : LaidOut(file, Without(file, {}), start)
    BY NothingRemoved
<1>9. /\ Formed(g) /\ (Parses(file) => Parses(g)) /\ ~RunsDeprecated(g)
      /\ CheckDockerfile(file) => CheckDockerfile(g)
    BY <1>1, <1>2, <1>7, <1>8, StubKeeps
<1>10. ASSUME Parses(file), Nonroot(file) PROVE Nonroot(g)
    <2>1. LinesOf(file, "USER") # {}
        BY <1>10, NonrootHasUser DEF HasUser
    <2>2. t = <<e>>
        BY <1>6, <2>1
    <2>3. DOMAIN t = {1} /\ t[1].op = "ENTRYPOINT" /\ t \in Seq(TextLines) /\ ~t[1].more
        BY <1>1, <1>2, <2>2, ShimRunsTyped DEF e
    <2> DEFINE piece == WithTail(file, {}, t)
               n == Len(file)
    <2>4. /\ piece \in Seq(Seq(TextLines)) /\ Len(piece) = n /\ DOMAIN piece = 1..n
          /\ \A i \in 1..n : 1 \in DOMAIN piece[i] /\ piece[i][1] = file[i]
          /\ \E size \in Nat : TailAfter(file, {}, t, piece, size)
        BY <2>3, TailPieces
    <2>5. /\ n \in Nat \ {0} /\ DOMAIN file = 1..n /\ ~file[n].more
          /\ \A i \in 1..n : file[i].more => file[i].op \in Continuable
        BY FormedLines, LastLineEnds
    <2>6. \E at : Woven(g, piece, at)
        BY <1>2, <1>8, <2>3, TailWoven
    <2> HIDE DEF piece, g, n
    <2>7. PICK at : Woven(g, piece, at)
        BY <2>6
    <2>8. ASSUME NEW i \in 1..n, NEW k \in DOMAIN piece[i]
          PROVE  \/ k = 1 /\ piece[i][k] = file[i]
                 \/ i = n /\ piece[i][k].op = "ENTRYPOINT" /\ ~piece[i][k].more
        <3>1. PICK size \in Nat : TailAfter(file, {}, t, piece, size)
            BY <2>4
        <3>2. \/ k = 1 /\ piece[i][k] = file[i]
              \/ i = n /\ \E m \in DOMAIN t : piece[i][k] = t[m]
            BY <3>1 DEF TailAfter, n
        <3> QED
            BY <2>3, <3>2
    <2>9. NoUserInside(file)
        BY <1>10, ParsesNoUserInside
    <2>10. BlankAlike(file, piece)
        <3>1. ASSUME NEW i \in 1..n, NEW k \in DOMAIN piece[i]
              PROVE  /\ piece[i][k].op = "blank" => file[i].op = "blank"
                     /\ file[i].op = "blank" /\ i # n => piece[i][k].op = "blank"
            BY <2>8
        <3> QED
            BY <2>4, <3>1 DEF BlankAlike, n
    <2>11. ASSUME NEW i \in 1..n, NEW x \in 1..n, i < x, file[i].more, file[x].op = "USER"
           PROVE  \E a \in (i + 1)..(x - 1) : piece[a] # <<>> /\ file[a].op # "blank"
        <3>1. ~Inside(file, x)
            BY <2>5, <2>9, <2>11 DEF NoUserInside, LinesOf
        <3>2. i \in 1..(x - 1)
            BY <2>5, <2>11
        <3>3. PICK a \in (i + 1)..(x - 1) : file[a].op # "blank"
            BY <2>11, <3>1, <3>2 DEF Inside
        <3>4. a \in 1..n
            BY <2>5
        <3>5. piece[a] # <<>>
            <4>1. 1 \in DOMAIN piece[a]
                BY <2>4, <3>4
            <4> QED
                BY <4>1
        <3> QED
            BY <3>3, <3>5
    <2>12. UsersKept(file, piece)
        <3>1. \A i \in DOMAIN piece : \A k \in DOMAIN piece[i] : piece[i][k].op = "USER" => file[i].op = "USER" /\ k = 1
            BY <2>4, <2>8
        <3>2. \A i \in DOMAIN piece : file[i].op = "USER" =>
                piece[i] # <<>> /\ piece[i][1].op = "USER" /\ (file[i].args = Exec(<<"65532">>) => piece[i][1].args = file[i].args)
            <4> SUFFICES ASSUME NEW i \in 1..n, file[i].op = "USER" PROVE piece[i] # <<>> /\ piece[i][1] = file[i]
                BY <2>4
            <4>1. 1 \in DOMAIN piece[i] /\ piece[i][1] = file[i]
                BY <2>4
            <4> QED
                BY <4>1
        <3>3. \A i \in DOMAIN piece : \A k \in DOMAIN piece[i] : piece[i][k].op = "FROM" => file[i].op = "FROM"
            BY <2>4, <2>8
        <3>4. \A i \in DOMAIN piece : \A k \in DOMAIN piece[i] :
                k + 1 \notin DOMAIN piece[i] /\ piece[i][k].more => file[i].more
            BY <2>4, <2>8
        <3>5. \A i, x \in DOMAIN piece : i < x /\ file[i].more /\ piece[i] # <<>> /\ file[x].op = "USER" =>
                \E a \in (i + 1)..(x - 1) : piece[a] # <<>> /\ file[a].op # "blank"
            BY <2>4, <2>11
        <3> QED
            BY <2>10, <3>1, <3>2, <3>3, <3>4, <3>5 DEF UsersKept
    <2>13. /\ g \in Seq(TextLines) /\ LinesOf(file, "FROM") # {} /\ LinesOf(g, "FROM") # {}
           /\ \A i \in DOMAIN g : g[i].more => g[i].op \in Continuable
        BY <1>9, FormedFrom DEF Formed
    <2>14. piece \in Seq(Seq(TextLines)) /\ Len(piece) = Len(file)
        BY <2>4 DEF n
    <2> QED
        BY <1>2, <1>10, <2>7, <2>9, <2>12, <2>13, <2>14, NonrootTransported
<1> HIDE DEF g
<1>11. NamesKept(file, g, known)
    BY <1>9 DEF NamesKept
<1> QED
    BY <1>4, <1>9, <1>10, <1>11

\* A step of fix-binary-paths keeps the wiring and what parses, and leaves the image
\* running as 65532 unless it needs root.
LEMMA FixBinaryPathsKeeps ==
    ASSUME Formed(file), known \in Facts, FixBinaryPaths
    PROVE  /\ Formed(file') /\ NamesKept(file, file', known)
           /\ CheckDockerfile(file) => CheckDockerfile(file')
           /\ Parses(file) => Parses(file')
           /\ Parses(file) => Nonroot(file') \/ "db" \in known.tables
<1> DEFINE b == known.program
           e == ShimRuns(b)
           u == NonrootUser
           removed == {i \in DOMAIN file : file[i].op = "ENTRYPOINT" \/ file[i] = NonrootUser}
           h == Rewrite(file, Without(file, removed))
           needsRoot == "db" \in known.tables
           t == IF needsRoot THEN <<e>> ELSE <<e, u>>
           g == h \o t
<1>1. b \in Seq(Vocabulary)
    BY DEF Facts
<1>2. e \in TextLines /\ u \in TextLines /\ file \in Seq(TextLines) /\ u.op = "USER" /\ u.args = Exec(<<"65532">>)
    BY <1>1, ShimRunsTyped, NonrootUserTyped DEF Formed
<1>3. h \in Seq(TextLines) /\ \E start : LaidOut(h, Without(file, removed), start)
    BY WithoutLaidOut
<1>4. file' = h \o <<e>> \o (IF needsRoot THEN <<>> ELSE <<u>>)
    <2> DEFINE piece == [i \in DOMAIN file |->
                            IF file[i].op = "ENTRYPOINT" \/ file[i] = NonrootUser THEN <<>> ELSE <<file[i]>>]
    <2>1. DOMAIN file = 1..Len(file)
        BY FormedLines
    <2>2. piece = [i \in DOMAIN file |-> IF i \in removed THEN <<>> ELSE <<file[i]>>]
        OBVIOUS
    <2>3. piece = Without(file, removed)
        BY <2>1, <2>2 DEF Without
    <2>4. file' = Rewrite(file, piece) \o <<ShimRuns(known.program)>> \o (IF needsRoot THEN <<>> ELSE <<NonrootUser>>)
        BY DEF FixBinaryPaths
    <2> QED
        BY <2>3, <2>4
<1>5. \A i \in DOMAIN file : i \in removed => file[i].op \in {"ENTRYPOINT", "USER"}
    BY <1>2
<1>6. \A i \in LinesOf(file, "ENTRYPOINT") : i \in removed
    BY DEF LinesOf
<1> HIDE DEF b, removed, h
<1>7. file' = g
    <2> HIDE DEF e, u
    <2>1. h \o <<e>> \o <<u>> = h \o <<e, u>> /\ h \o <<e>> \o <<>> = h \o <<e>>
        BY <1>2, <1>3, TwoTails
    <2>2. CASE needsRoot
        BY <1>4, <2>1, <2>2
    <2>3. CASE ~needsRoot
        BY <1>4, <2>1, <2>3
    <2> QED
        BY <2>2, <2>3
<1>8. t = <<ShimRuns(b)>> \/ t = <<ShimRuns(b), NonrootUser>>
    OBVIOUS
<1>9. ~needsRoot => t = <<e, u>>
    OBVIOUS
<1> HIDE DEF t
<1>10. /\ TailFits(file, removed, t) /\ 1 \in DOMAIN t /\ t[1] = ShimRuns(b)
       /\ \A m \in DOMAIN t : t[m] = ShimRuns(b) \/ t[m] = NonrootUser
    <2> HIDE DEF e, u
    <2> QED
        BY <1>1, <1>5, <1>6, <1>8, StubTail
<1>11. PICK start : LaidOut(h, Without(file, removed), start)
    BY <1>3
<1>12. /\ Formed(g) /\ (Parses(file) => Parses(g)) /\ ~RunsDeprecated(g)
       /\ CheckDockerfile(file) => CheckDockerfile(g)
    BY <1>1, <1>3, <1>10, <1>11, StubKeeps
<1>13. ASSUME Parses(file), ~needsRoot PROVE Nonroot(g)
    <2> HIDE DEF e, u
    <2>1. t \in Seq(TextLines) /\ Len(t) = 2 /\ t[2] = u
        <3>1. e \in TextLines /\ u \in TextLines /\ t = <<e, u>>
            BY <1>2, <1>9, <1>13
        <3>2. <<e, u>> \in Seq(TextLines) /\ Len(<<e, u>>) = 2 /\ <<e, u>>[2] = u
            <4>1. e \in TextLines /\ u \in TextLines
                BY <3>1
            <4> QED
                BY <4>1
        <3> QED
            BY <3>1, <3>2
    <2>2. /\ h \o t \in Seq(TextLines) /\ Len(h \o t) = Len(h) + Len(t)
          /\ \A k \in 1..Len(t) : (h \o t)[Len(h) + k] = t[k]
        <3>1. h \in Seq(TextLines) /\ t \in Seq(TextLines)
            BY <1>3, <2>1
        <3> QED
            BY <3>1, Concatenated
    <2> HIDE DEF g
    <2>3. /\ g \in Seq(TextLines) /\ DOMAIN g = 1..Len(g) /\ Len(g) = Len(h) + 2 /\ Len(h) \in Nat
          /\ g[Len(h) + 2] = u
        BY <1>3, <2>1, <2>2 DEF g
    <2> DEFINE last == Len(g)
    <2>4. last \in DOMAIN g /\ g[last] = u /\ last \in Nat
        BY <2>3
    <2>5. \A v \in DOMAIN g : v <= last /\ v \in Nat
        BY <2>3
    <2> HIDE DEF last
    <2>6. last \in LinesOf(g, "USER") /\ g[last].args = Exec(<<"65532">>)
        BY <1>2, <2>4 DEF LinesOf
    <2>7. \A v \in LinesOf(g, "USER") : v <= last
        BY <2>5 DEF LinesOf
    <2>8. \A v \in LinesOf(g, "FROM") : v < last
        <3> SUFFICES ASSUME NEW v \in DOMAIN g, g[v].op = "FROM" PROVE v < last
            BY DEF LinesOf
        <3>1. v # last
            BY <1>2, <2>4
        <3> QED
            BY <2>4, <2>5, <3>1
    <2>9. EndsAs(g, last)
        BY <2>6, <2>7, <2>8 DEF EndsAs
    <2>10. NoUserInside(g) /\ LinesOf(g, "FROM") # {}
        BY <1>12, <1>13, ParsesNoUserInside, FormedFrom
    <2> QED
        BY <2>3, <2>4, <2>9, <2>10, NonrootEnds
<1> HIDE DEF g
<1>14. NamesKept(file, g, known)
    BY <1>12 DEF NamesKept
<1> QED
    BY <1>7, <1>12, <1>13, <1>14

-----------------------------------------------------------------------------
(* remove_healthcheck.py.                                                  *)

\* A health check read for what it is: HEALTHCHECK and its CMD.
LEMMA HealthCheckRead ==
    ASSUME NEW f, Formed(f), Parses(f), ~HealthCheckIsMisread(f), NEW h \in LinesOf(f, "HEALTHCHECK")
    PROVE  /\ h \in DOMAIN f /\ h + 1 \in DOMAIN f /\ Continues(f, h, h + 1) /\ f[h + 1].op = "CMD"
           /\ \A k \in HealthCheckLines(f, h) : k = h \/ k = h + 1
<1>1. DOMAIN f = 1..Len(f) /\ Len(f) \in Nat
    BY FormedLines
<1>2. h \in DOMAIN f /\ f[h].op = "HEALTHCHECK" /\ h \in Nat
    BY <1>1 DEF LinesOf
<1>3. f[h].args = <<>> /\ f[h + 1].op # "blank"
    BY DEF HealthCheckIsMisread
<1>4. Local(f)
    BY FormedParses
<1>5. f[h].more
    <2>1. ~f[h].more => f[h].args # <<>>
        BY <1>2, <1>4 DEF Local
    <2> QED
        BY <1>3, <2>1
<1>6. PICK j \in DOMAIN f : Continues(f, h, j)
    BY <1>2, <1>4, <1>5 DEF Local
<1>7. j = h + 1
    <2> SUFFICES ASSUME j # h + 1 PROVE FALSE
        OBVIOUS
    <2>1. h < j /\ j \in Nat /\ \A k \in (h + 1)..(j - 1) : f[k].op = "blank"
        BY <1>1, <1>6 DEF Continues
    <2>2. h + 1 \in (h + 1)..(j - 1)
        BY <1>2, <2>1
    <2> QED
        BY <1>3, <2>1, <2>2
<1>8. f[h + 1].op = "CMD"
    BY <1>2, <1>4, <1>6, <1>7 DEF Local, GoesOnWith
<1>9. ~f[h + 1].more
    BY <1>6, <1>7, <1>8, FormedLines DEF Continuable
<1>10. ASSUME NEW k \in HealthCheckLines(f, h), k # h, k # h + 1 PROVE FALSE
    <2>1. k \in DOMAIN f /\ k > h /\ \A x \in (h + 1)..(k - 1) : f[x].more
        BY <1>10 DEF HealthCheckLines
    <2>2. h + 1 \in (h + 1)..(k - 1)
        BY <1>1, <1>2, <1>10, <2>1
    <2> QED
        BY <1>9, <2>1, <2>2
<1> QED
    BY <1>2, <1>6, <1>7, <1>8, <1>10

\* A step of remove_healthcheck.py keeps what parses and the user unless it misreads
\* the health check.  It is the one step that undoes the wiring.
LEMMA RemoveHealthChecksKeeps ==
    ASSUME Formed(file), RemoveHealthChecks
    PROVE  /\ Formed(file') /\ NamesKept(file, file', known)
           /\ Parses(file) => Parses(file') \/ HealthCheckIsMisread(file)
           /\ Parses(file) /\ Nonroot(file) => Nonroot(file') \/ HealthCheckIsMisread(file)
<1> DEFINE f == file
           n == Len(f)
           removed == UNION {HealthCheckLines(f, i) : i \in LinesOf(f, "HEALTHCHECK")}
           piece == Without(f, removed)
           g == Rewrite(f, piece)
<1>1. /\ f \in Seq(TextLines) /\ n \in Nat \ {0} /\ DOMAIN f = 1..n
      /\ \A i \in 1..n : f[i].more => f[i].op \in Continuable
    BY FormedLines
<1>2. file' = g
    <2>1. [i \in DOMAIN file |-> IF i \in removed THEN <<>> ELSE <<file[i]>>] = piece
        BY <1>1 DEF Without
    <2>2. file' = Rewrite(file, [i \in DOMAIN file |-> IF i \in removed THEN <<>> ELSE <<file[i]>>])
        BY DEF RemoveHealthChecks
    <2> QED
        BY <2>1, <2>2
<1>3. /\ piece \in Seq(Seq(TextLines)) /\ Len(piece) = n /\ DOMAIN piece = 1..n
      /\ \A i \in 1..n : /\ i \in removed => DOMAIN piece[i] = {}
                         /\ i \notin removed => DOMAIN piece[i] = {1} /\ piece[i][1] = f[i]
                         /\ piece[i] = IF i \in removed THEN <<>> ELSE <<f[i]>>
    <2>1. f \in Seq(TextLines)
        BY <1>1
    <2> HIDE DEF removed, f
    <2> QED
        BY <2>1, WithoutTyped
<1>4. g \in Seq(TextLines) /\ \E at : Woven(g, piece, at)
    <2>1. g \in Seq(TextLines) /\ \E start : LaidOut(g, piece, start)
        BY WithoutLaidOut
    <2> HIDE DEF g, piece
    <2> QED
        BY <1>3, <2>1, LaidOutWoven
<1>5. ASSUME NEW k PROVE k \in removed <=> \E h \in LinesOf(f, "HEALTHCHECK") : k \in HealthCheckLines(f, h)
    OBVIOUS
<1> HIDE DEF f, n, removed, piece, g
<1>6. PICK at : Woven(g, piece, at)
    BY <1>4
<1>7. ASSUME NEW i \in 1..n
      PROVE  /\ i \in removed => piece[i] = <<>>
             /\ i \notin removed => piece[i] # <<>> /\ 1 \in DOMAIN piece[i] /\ piece[i][1] = f[i]
             /\ \A k \in DOMAIN piece[i] : i \notin removed /\ k = 1 /\ piece[i][k] = f[i] /\ k + 1 \notin DOMAIN piece[i]
    <2>1. piece[i] \in Seq(TextLines)
        BY <1>3
    <2>2. CASE i \in removed
        <3>1. DOMAIN piece[i] = {}
            BY <1>3, <2>2
        <3>2. piece[i] = <<>>
            BY <1>3, <2>2
        <3> QED
            BY <2>2, <3>1, <3>2
    <2>3. CASE i \notin removed
        <3>1. DOMAIN piece[i] = {1} /\ piece[i][1] = f[i]
            BY <1>3, <2>3
        <3>2. piece[i] # <<>>
            BY <3>1
        <3> QED
            BY <2>3, <3>1, <3>2
    <2> QED
        BY <2>2, <2>3
\* A line inside a health check is removed with the line it continues.
<1>8. ASSUME NEW i \in 1..n, NEW j \in 1..n, i < j, i \notin removed, j \in removed
      PROVE  f[j].op = "HEALTHCHECK" \/ \E h \in (i + 1)..(j - 1) : f[h].op = "HEALTHCHECK"
    <2>1. PICK h \in LinesOf(f, "HEALTHCHECK") : j \in HealthCheckLines(f, h)
        BY <1>5, <1>8
    <2>2. h \in 1..n /\ f[h].op = "HEALTHCHECK"
        BY <1>1, <2>1 DEF LinesOf
    <2>3. CASE h = j
        BY <2>2, <2>3
    <2>4. CASE h # j
        <3>1. j > h /\ \A x \in (h + 1)..(j - 1) : f[x].more
            BY <2>1, <2>4 DEF HealthCheckLines
        <3>2. i # h
            <4>1. i \in DOMAIN f
                BY <1>1
            <4>2. i = h => i \in HealthCheckLines(f, h)
                BY <4>1 DEF HealthCheckLines
            <4> QED
                BY <1>5, <1>8, <2>1, <4>2
        <3>3. ~ (h < i)
            <4> SUFFICES ASSUME h < i PROVE FALSE
                OBVIOUS
            <4>1. \A x \in (h + 1)..(i - 1) : x \in (h + 1)..(j - 1)
                BY <1>8, <2>2
            <4>2. i \in DOMAIN f /\ i > h /\ \A x \in (h + 1)..(i - 1) : f[x].more
                BY <1>1, <3>1, <4>1
            <4>3. i \in HealthCheckLines(f, h)
                BY <4>2 DEF HealthCheckLines
            <4> QED
                BY <1>5, <1>8, <2>1, <4>3
        <3>4. h \in (i + 1)..(j - 1)
            BY <2>2, <3>1, <3>2, <3>3
        <3> QED
            BY <2>2, <3>4
    <2> QED
        BY <2>3, <2>4
<1>9. Formed(f)
    BY DEF f
<1>10. Formed(g)
    <2>1. NoneLoose(f, piece)
        <3>1. ASSUME NEW i \in 1..n, NEW j \in 1..n, i < j, piece[i] # <<>>,
                     f[j].op \notin Skipped \cup EndOps, \A a \in (i + 1)..(j - 1) : f[a].op \in Skipped
              PROVE  \E c \in DOMAIN piece[j] : /\ piece[j][c].op \notin Skipped \cup EndOps
                                                /\ \A d \in DOMAIN piece[j] : d < c => piece[j][d].op \notin EndOps
            <4>1. i \notin removed
                BY <1>7, <3>1
            <4>2. f[j].op # "HEALTHCHECK" /\ \A h \in (i + 1)..(j - 1) : f[h].op # "HEALTHCHECK"
                BY <3>1 DEF Skipped, EndOps
            <4>3. j \notin removed
                BY <1>8, <3>1, <4>1, <4>2
            <4>4. DOMAIN piece[j] = {1} /\ piece[j][1] = f[j]
                BY <1>3, <4>3
            <4> QED
                BY <3>1, <4>4
        <3>2. ASSUME NEW i \in 1..n, f[i].op \in Skipped, NEW k \in DOMAIN piece[i]
              PROVE  piece[i][k].op \notin EndOps
            BY <1>7, <3>2 DEF Skipped, EndOps
        <3>3. \A i \in 1..n : \A k \in DOMAIN piece[i] : k + 1 \notin DOMAIN piece[i] /\ piece[i][k] = f[i]
            BY <1>7
        <3> QED
            BY <1>3, <3>1, <3>2, <3>3 DEF NoneLoose
    <2>2. \A i \in DOMAIN piece : \A k \in DOMAIN piece[i] : piece[i][k].more => piece[i][k].op \in Continuable
        BY <1>1, <1>3, <1>7
    <2>3. FromKept(f, piece)
        <3>1. ASSUME NEW i \in 1..n, FromFirst(f, i) PROVE \E k \in DOMAIN piece[i] : FromFirst(piece[i], k)
            <4>1. i \notin removed
                <5> SUFFICES ASSUME i \in removed PROVE FALSE
                    OBVIOUS
                <5>1. PICK h \in LinesOf(f, "HEALTHCHECK") : i \in HealthCheckLines(f, h)
                    BY <1>5
                <5>2. h \in DOMAIN f /\ f[h].op = "HEALTHCHECK"
                    BY <5>1 DEF LinesOf
                <5>3. h = i \/ i > h
                    BY <5>1 DEF HealthCheckLines
                <5>4. h < i
                    <6>1. h # i
                        BY <3>1, <5>2 DEF FromFirst
                    <6>2. h \in Nat /\ i \in Nat
                        BY <1>1, <5>2
                    <6> QED
                        BY <5>3, <6>1, <6>2
                <5> QED
                    BY <3>1, <5>2, <5>4 DEF FromFirst
            <4>2. DOMAIN piece[i] = {1} /\ piece[i][1].op = "FROM"
                BY <1>3, <3>1, <4>1 DEF FromFirst
            <4> QED
                BY <4>2 DEF FromFirst
        <3>2. ASSUME NEW i \in 1..n, f[i].op = "blank", NEW k \in DOMAIN piece[i]
              PROVE  piece[i][k].op = "blank"
            BY <1>7, <3>2
        <3> QED
            BY <1>3, <3>1, <3>2 DEF FromKept
    <2>4. \A i, j \in DOMAIN piece : \A k \in DOMAIN piece[i], m \in DOMAIN piece[j] :
            piece[i][k].op = "ENTRYPOINT" /\ piece[j][m].op = "ENTRYPOINT" => i = j /\ k = m
        <3>1. \A x, y \in 1..n : f[x].op = "ENTRYPOINT" /\ f[y].op = "ENTRYPOINT" => x = y
            BY <1>1, <1>9 DEF Formed, LinesOf
        <3> QED
            BY <1>3, <1>7, <3>1, SMTT(30)
    <2>5. Len(piece) = Len(f)
        BY <1>3 DEF n
    <2> QED
        BY <1>3, <1>4, <1>6, <1>9, <2>1, <2>2, <2>3, <2>4, <2>5, FormedTransported
<1>11. NamesKept(f, g, known)
    <2>1. NamesFrom(f, piece)
        <3> SUFFICES ASSUME NEW i \in 1..n, NEW k \in DOMAIN piece[i] PROVE piece[i][k] = f[i]
            BY <1>3 DEF NamesFrom
        <3> QED
            BY <1>7
    <2>2. Len(piece) = Len(f)
        BY <1>3 DEF n
    <2> QED
        BY <1>3, <1>4, <1>6, <1>9, <2>1, <2>2, NamesTransported DEF NamesKept
<1>12. ASSUME Parses(f), ~HealthCheckIsMisread(f) PROVE Parses(g) /\ (Nonroot(f) => Nonroot(g))
    <2>1. Local(f)
        BY <1>9, <1>12, FormedParses
    <2>2. ASSUME NEW j \in 1..n, j \in removed
          PROVE  \E h \in 1..n : /\ f[h].op = "HEALTHCHECK" /\ h \in removed
                                 /\ j = h \/ (Continues(f, h, j) /\ f[j].op = "CMD")
        <3>1. PICK h \in LinesOf(f, "HEALTHCHECK") : j \in HealthCheckLines(f, h)
            BY <1>5, <2>2
        <3>2. h \in 1..n /\ f[h].op = "HEALTHCHECK" /\ h \in HealthCheckLines(f, h)
            BY <1>1, <3>1 DEF LinesOf, HealthCheckLines
        <3>3. h \in removed
            BY <1>5, <3>1, <3>2
        <3>4. /\ Continues(f, h, h + 1) /\ f[h + 1].op = "CMD"
              /\ \A k \in HealthCheckLines(f, h) : k = h \/ k = h + 1
            BY <1>9, <1>12, <3>1, HealthCheckRead
        <3> QED
            BY <3>1, <3>2, <3>3, <3>4
    <2>3. ASSUME NEW i \in 1..n, NEW j \in 1..n, Continues(f, i, j), i \notin removed
          PROVE  j \notin removed
        <3> SUFFICES ASSUME j \in removed PROVE FALSE
            OBVIOUS
        <3>1. f[j].op \in {"CMD", "var"} /\ f[i].more /\ i < j
            BY <1>1, <2>1, <2>3 DEF Local, GoesOnWith, Continues
        <3>2. PICK h \in 1..n : /\ f[h].op = "HEALTHCHECK" /\ h \in removed
                                /\ j = h \/ (Continues(f, h, j) /\ f[j].op = "CMD")
            BY <2>2
        <3>3. Continues(f, h, j)
            BY <3>1, <3>2
        <3>4. f[i].op # "blank" /\ f[h].op # "blank" /\ h < j
            BY <1>1, <3>1, <3>2, <3>3 DEF Continuable, Continues
        <3>5. h <= i /\ i <= h
            BY <1>1, <2>3, <3>1, <3>3, <3>4, OpenerIsLast
        <3>6. h = i
            BY <1>1, <3>5
        <3> QED
            BY <2>3, <3>2, <3>6
    <2>4. BlankAlike(f, piece)
        <3>1. ASSUME NEW i \in 1..n, NEW k \in DOMAIN piece[i] PROVE piece[i][k].op = "blank" <=> f[i].op = "blank"
            BY <1>7
        <3> QED
            BY <1>3, <3>1 DEF BlankAlike
    <2>5. WellJoined(f, piece)
        <3>1. ASSUME NEW i \in 1..n, piece[i] # <<>>
              PROVE  IF \E p \in DOMAIN f : Continues(f, p, i) THEN piece[i][1].op = f[i].op ELSE piece[i][1].op # "var"
            <4>1. piece[i][1] = f[i]
                BY <1>7, <3>1
            <4>2. (\A p \in DOMAIN f : ~Continues(f, p, i)) => f[i].op # "var"
                BY <1>1, <2>1 DEF Local
            <4> QED
                BY <4>1, <4>2
        <3>2. ASSUME NEW i \in 1..n, NEW k \in DOMAIN piece[i], piece[i][k].op = "HEALTHCHECK", ~piece[i][k].more
              PROVE  piece[i][k].args # <<>>
            <4>1. piece[i][k] = f[i]
                BY <1>7
            <4> QED
                BY <1>1, <2>1, <3>2, <4>1 DEF Local
        <3>3. ASSUME NEW i \in 1..n, NEW j \in 1..n, Continues(f, i, j)
              PROVE  IF piece[i] # <<>> THEN piece[j] # <<>> ELSE piece[j] # <<>> => f[j].op # "var"
            <4>1. CASE i \notin removed
                <5>1. j \notin removed
                    BY <2>3, <3>3, <4>1
                <5> QED
                    BY <1>7, <4>1, <5>1
            <4>2. CASE i \in removed
                <5>1. piece[i] = <<>>
                    BY <1>7, <4>2
                <5>2. f[i].more
                    BY <3>3 DEF Continues
                <5>3. f[i].op = "HEALTHCHECK"
                    <6>1. f[i].op # "CMD"
                        BY <1>1, <5>2 DEF Continuable
                    <6> QED
                        BY <2>2, <4>2, <6>1
                <5>4. f[j].op = "CMD"
                    BY <1>1, <2>1, <3>3, <5>3 DEF Local, GoesOnWith
                <5> QED
                    BY <5>1, <5>4
            <4> QED
                BY <4>1, <4>2
        <3>4. \A i \in 1..n : \A k \in DOMAIN piece[i] : k + 1 \notin DOMAIN piece[i] /\ piece[i][k] = f[i]
            BY <1>7
        <3>5. \A i \in DOMAIN piece : \A k \in DOMAIN piece[i] : k + 1 \notin DOMAIN piece[i] =>
                /\ piece[i][k].more <=> f[i].more
                /\ f[i].more => GoesOnWith(piece[i][k]) = GoesOnWith(f[i])
            BY <1>3, <3>4
        <3>6. \A i \in DOMAIN piece : \A k \in DOMAIN piece[i] : k + 1 \in DOMAIN piece[i] =>
                IF piece[i][k].more THEN piece[i][k + 1].op = GoesOnWith(piece[i][k]) ELSE piece[i][k + 1].op # "var"
            BY <1>3, <3>4
        <3>7. \A i \in DOMAIN piece : piece[i] # <<>> =>
                IF \E p \in DOMAIN f : Continues(f, p, i) THEN piece[i][1].op = f[i].op ELSE piece[i][1].op # "var"
            BY <1>3, <3>1
        <3>8. \A i \in DOMAIN piece : \A k \in DOMAIN piece[i] :
                piece[i][k].op = "HEALTHCHECK" /\ ~piece[i][k].more => piece[i][k].args # <<>>
            BY <1>3, <3>2
        <3>9. \A i, j \in DOMAIN piece : Continues(f, i, j) =>
                IF piece[i] # <<>> THEN piece[j] # <<>> ELSE piece[j] # <<>> => f[j].op # "var"
            BY <1>3, <3>3
        <3> QED
            BY <2>4, <3>5, <3>6, <3>7, <3>8, <3>9 DEF WellJoined
    <2>6. Parses(g)
        <3>1. Local(g)
            <4>1. Len(piece) = Len(f)
                BY <1>3 DEF n
            <4>2. \A i \in DOMAIN g : g[i].more => g[i].op \in Continuable
                BY <1>10 DEF Formed
            <4> QED
                BY <1>1, <1>3, <1>4, <1>6, <2>1, <2>5, <4>1, <4>2, LocalKept
        <3> QED
            BY <1>10, <3>1, FormedParses
    <2>7. NoUserInside(f)
        BY <1>12, ParsesNoUserInside
    <2>8. ASSUME NEW i \in 1..n, NEW u \in 1..n, i < u, f[i].more, piece[i] # <<>>, f[u].op = "USER"
          PROVE  \E a \in (i + 1)..(u - 1) : piece[a] # <<>> /\ f[a].op # "blank"
        <3>1. PICK j \in DOMAIN f : Continues(f, i, j) /\ j <= u
            BY <1>1, <2>8, NextLine
        <3>2. f[j].op \in {"CMD", "var"} /\ i < j
            BY <1>1, <2>1, <3>1 DEF Local, GoesOnWith, Continues
        <3>3. j \notin removed
            BY <1>1, <1>7, <2>3, <2>8, <3>1
        <3>4. j # u /\ j \in 1..n
            BY <1>1, <2>8, <3>2
        <3>5. j \in (i + 1)..(u - 1)
            BY <3>1, <3>2, <3>4
        <3> QED
            BY <1>7, <3>2, <3>3, <3>4, <3>5
    <2>9. UsersKept(f, piece)
        <3>1. \A i \in DOMAIN piece : f[i].op = "USER" =>
                piece[i] # <<>> /\ piece[i][1].op = "USER" /\ (f[i].args = Exec(<<"65532">>) => piece[i][1].args = f[i].args)
            <4> SUFFICES ASSUME NEW i \in 1..n, f[i].op = "USER" PROVE piece[i] # <<>> /\ piece[i][1] = f[i]
                BY <1>3
            <4>1. i \notin removed
                BY <2>2
            <4> QED
                BY <1>7, <4>1
        <3>2. \A i \in 1..n : \A k \in DOMAIN piece[i] : piece[i][k] = f[i] /\ k = 1
            BY <1>7
        <3>3. /\ \A i \in DOMAIN piece : \A k \in DOMAIN piece[i] : piece[i][k].op = "USER" => f[i].op = "USER" /\ k = 1
              /\ \A i \in DOMAIN piece : \A k \in DOMAIN piece[i] : piece[i][k].op = "FROM" => f[i].op = "FROM"
              /\ \A i \in DOMAIN piece : \A k \in DOMAIN piece[i] :
                   k + 1 \notin DOMAIN piece[i] /\ piece[i][k].more => f[i].more
            BY <1>3, <3>2
        <3>4. \A i, u \in DOMAIN piece : i < u /\ f[i].more /\ piece[i] # <<>> /\ f[u].op = "USER" =>
                \E a \in (i + 1)..(u - 1) : piece[a] # <<>> /\ f[a].op # "blank"
            BY <1>3, <2>8
        <3> QED
            BY <2>4, <3>1, <3>3, <3>4 DEF UsersKept
    <2>10. Nonroot(f) => Nonroot(g)
        <3>1. /\ LinesOf(f, "FROM") # {} /\ LinesOf(g, "FROM") # {}
              /\ \A i \in DOMAIN g : g[i].more => g[i].op \in Continuable
              /\ Len(piece) = Len(f)
            BY <1>3, <1>9, <1>10, FormedFrom DEF Formed, n
        <3> QED
            BY <1>1, <1>3, <1>4, <1>6, <2>7, <2>9, <3>1, NonrootTransported
    <2> QED
        BY <2>6, <2>10
<1> QED
    BY <1>2, <1>10, <1>11, <1>12 DEF f

-----------------------------------------------------------------------------
(* wire_health_shim.py.                                                    *)

\* What wire_health_shim.py puts in place of a line.
LEMMA IsMade ==
    ASSUME NEW op \in Ops, NEW args \in Seq(Seq(Vocabulary))
    PROVE  Is(op, args) \in TextLines /\ Is(op, args).op = op /\ Is(op, args).args = args /\ ~Is(op, args).more
<1>1. FALSE \in BOOLEAN
    OBVIOUS
<1> QED
    BY <1>1, LineMade, ZenonT(30)

\* The lines wire_health_shim.py writes.
LEMMA ShimLinesTyped ==
    /\ Is("FROM", Exec(<<"health-shim">>)) \in TextLines
    /\ Is("FROM", Exec(<<"health-shim">>)).op = "FROM" /\ ~Is("FROM", Exec(<<"health-shim">>)).more
    /\ Is("FROM", Exec(<<"health-shim">>)).args = Exec(<<"health-shim">>)
    /\ CopyShim \in TextLines /\ CopyShim.op = "COPY" /\ ~CopyShim.more
    /\ LineOf("HEALTHCHECK", <<>>, TRUE) \in TextLines /\ LineOf("HEALTHCHECK", <<>>, TRUE).op = "HEALTHCHECK"
    /\ LineOf("HEALTHCHECK", <<>>, TRUE).more
    /\ Is("CMD", ShimProbe) \in TextLines /\ Is("CMD", ShimProbe).op = "CMD" /\ ~Is("CMD", ShimProbe).more
    /\ Is("CMD", ShimProbe).args = Exec(<<Canonical, "healthcheck">>)
    /\ ShimEntrypoint \in TextLines /\ ShimEntrypoint.op = "ENTRYPOINT" /\ ~ShimEntrypoint.more
    /\ RunsShim(ShimEntrypoint.args) /\ ~RunsOld(ShimEntrypoint.args)
<1> DEFINE S == Seq(Vocabulary)
<1>1. {"health-shim", "shim", "healthcheck", "run", Canonical} \subseteq ScriptWords
    BY DEF ScriptWords, ShimPaths
<1>2. \A word \in {"health-shim", "shim", "healthcheck", "run", Canonical} : Arg(word) \in S
    BY <1>1, ScriptWordsTyped
<1>3. ASSUME NEW a \in {"health-shim", "shim", "healthcheck", "run", Canonical},
             NEW b \in {"health-shim", "shim", "healthcheck", "run", Canonical}
      PROVE  /\ Exec(<<a, b>>) \in Seq(S) /\ Len(Exec(<<a, b>>)) = 2
             /\ Exec(<<a, b>>)[1] = Arg(a) /\ Exec(<<a, b>>)[2] = Arg(b)
    <2> DEFINE x == Arg(a)
               y == Arg(b)
    <2>1. x \in S /\ y \in S /\ Exec(<<a, b>>) = <<x, y>>
        BY <1>2, ExecPair
    <2> HIDE DEF x, y, S
    <2>2. <<x, y>> \in Seq(S) /\ Len(<<x, y>>) = 2 /\ <<x, y>>[1] = x /\ <<x, y>>[2] = y
        <3>1. x \in S /\ y \in S
            BY <2>1
        <3> QED
            BY <3>1
    <2> QED
        BY <2>1, <2>2 DEF x, y
<1>4. Exec(<<"health-shim">>) \in Seq(S)
    BY <1>1, OneWord
<1>5. "FROM" \in Ops /\ "COPY" \in Ops /\ "HEALTHCHECK" \in Ops /\ "CMD" \in Ops /\ "ENTRYPOINT" \in Ops
    BY DEF Ops
<1>7. /\ Is("FROM", Exec(<<"health-shim">>)) \in TextLines
      /\ Is("FROM", Exec(<<"health-shim">>)).op = "FROM" /\ ~Is("FROM", Exec(<<"health-shim">>)).more
      /\ Is("FROM", Exec(<<"health-shim">>)).args = Exec(<<"health-shim">>)
    <2>1. Exec(<<"health-shim">>) \in Seq(Seq(Vocabulary)) /\ "FROM" \in Ops
        BY <1>4, <1>5
    <2> QED
        BY <2>1, IsMade
<1>8. CopyShim \in TextLines /\ CopyShim.op = "COPY" /\ ~CopyShim.more
    <2>1. Exec(<<"shim", Canonical>>) \in Seq(Seq(Vocabulary)) /\ "COPY" \in Ops
        BY <1>3, <1>5
    <2> QED
        BY <2>1, IsMade DEF CopyShim
<1>9. /\ LineOf("HEALTHCHECK", <<>>, TRUE) \in TextLines /\ LineOf("HEALTHCHECK", <<>>, TRUE).op = "HEALTHCHECK"
      /\ LineOf("HEALTHCHECK", <<>>, TRUE).more
    <2>1. <<>> \in Seq(Seq(Vocabulary)) /\ "HEALTHCHECK" \in Ops /\ TRUE \in BOOLEAN
        BY <1>5
    <2> QED
        BY <2>1, LineMade
<1>10. /\ Is("CMD", ShimProbe) \in TextLines /\ Is("CMD", ShimProbe).op = "CMD" /\ ~Is("CMD", ShimProbe).more
       /\ Is("CMD", ShimProbe).args = Exec(<<Canonical, "healthcheck">>)
    <2>1. Exec(<<Canonical, "healthcheck">>) \in Seq(Seq(Vocabulary)) /\ "CMD" \in Ops
        BY <1>3, <1>5
    <2> QED
        BY <2>1, IsMade DEF ShimProbe
<1> DEFINE args == Exec(<<Canonical, "run">>)
<1>11. args \in Seq(S) /\ Len(args) = 2 /\ args[1] = Arg(Canonical) /\ args[2] = Arg("run")
    BY <1>3
<1>12. /\ ShimEntrypoint \in TextLines /\ ShimEntrypoint.op = "ENTRYPOINT" /\ ~ShimEntrypoint.more
       /\ ShimEntrypoint.args = args
    <2>1. args \in Seq(Seq(Vocabulary)) /\ "ENTRYPOINT" \in Ops
        BY <1>5, <1>11
    <2> HIDE DEF args
    <2>2. ShimEntrypoint = Is("ENTRYPOINT", args)
        BY DEF ShimEntrypoint, args
    <2> QED
        BY <2>1, <2>2, IsMade
<1> HIDE DEF args
<1>13. RunsShim(args)
    BY <1>11 DEF RunsShim
<1>14. ~RunsOld(args)
    <2>1. RunsOld(args) => args[1] = Arg(Deprecated)
        BY <1>11, RunsOldMeans
    <2>2. Arg(Canonical) # Arg(Deprecated)
        BY DEF Arg, Canonical, Deprecated
    <2> QED
        BY <1>11, <2>1, <2>2
<1> QED
    BY <1>7, <1>8, <1>9, <1>10, <1>12, <1>13, <1>14

\* The CMD it writes is a line.
LEMMA WiredCmdTyped ==
    ASSUME NEW entrypoint \in Seq(Vocabulary), NEW args \in Seq(Seq(Vocabulary))
    PROVE  /\ WiredCmd(entrypoint, args) \in TextLines
           /\ WiredCmd(entrypoint, args).op = "CMD" /\ ~WiredCmd(entrypoint, args).more
<1> DEFINE S == Seq(Vocabulary)
           piece == [k \in DOMAIN args |-> IF args[k] = entrypoint THEN <<>> ELSE <<args[k]>>]
           rest == Rewrite(args, piece)
           a == Arg("-c")
           b == Arg("--")
<1>1. a \in S /\ b \in S
    <2>1. {"-c", "--"} \subseteq ScriptWords
        BY DEF ScriptWords
    <2> QED
        BY <2>1, ScriptWordsTyped
<1>2. args \in Seq(S) /\ DOMAIN args = 1..Len(args) /\ Len(args) \in Nat /\ entrypoint \in S
    OBVIOUS
<1> HIDE DEF S, a, b
<1>3. \A k \in 1..Len(args) : (IF args[k] = entrypoint THEN <<>> ELSE <<args[k]>>) \in Seq(S)
    <2> SUFFICES ASSUME NEW k \in 1..Len(args) PROVE <<>> \in Seq(S) /\ <<args[k]>> \in Seq(S)
        OBVIOUS
    <2>1. args[k] \in S
        BY <1>2
    <2> QED
        BY <2>1
<1>4. piece \in Seq(Seq(S)) /\ Len(piece) = Len(args) /\ DOMAIN piece = 1..Len(args)
    BY <1>2, <1>3
<1> HIDE DEF piece
<1>5. rest \in Seq(S)
    <2>1. rest = FlattenSeq(piece)
        <3>1. [i \in DOMAIN args |-> piece[i]] = piece
            BY <1>2, <1>4
        <3> QED
            BY <3>1 DEF Rewrite
    <2>2. CASE Len(piece) # 0
        BY <1>4, <2>1, <2>2, FlattenLaysOut
    <2>3. CASE Len(piece) = 0
        <3>1. FlattenSeq(piece) = piece
            BY <2>3 DEF FlattenSeq
        <3>2. piece = <<>>
            BY <1>4, <2>3
        <3>3. <<>> \in Seq(S)
            OBVIOUS
        <3> QED
            BY <2>1, <3>1, <3>2, <3>3
    <2> QED
        BY <2>2, <2>3
<1> HIDE DEF rest
<1> DEFINE s == <<a, entrypoint, b>>
<1>6. s \in Seq(S)
    <2>1. a \in S /\ b \in S /\ entrypoint \in S
        BY <1>1, <1>2
    <2> QED
        BY <2>1
<1> HIDE DEF s
<1>7. s \o rest \in Seq(S)
    BY <1>5, <1>6, Concatenated
<1>8. WiredCmd(entrypoint, args) = Is("CMD", s \o rest)
    BY DEF WiredCmd, s, rest, piece, a, b
<1>9. s \o rest \in Seq(Seq(Vocabulary)) /\ "CMD" \in Ops
    BY <1>7 DEF S, Ops
<1>10. Is("CMD", s \o rest) \in TextLines /\ Is("CMD", s \o rest).op = "CMD" /\ ~Is("CMD", s \o rest).more
    BY <1>9, IsMade
<1> QED
    BY <1>8, <1>10

\* The lines that go in place of line i.
WiredAt(f, piece, i) ==
    \/ /\ f[i].op # "ENTRYPOINT"
       /\ DOMAIN piece[i] = {1} /\ piece[i][1] = f[i]
    \/ /\ f[i].op = "FROM"
       /\ DOMAIN piece[i] = {1, 2} /\ piece[i][1] = f[i] /\ piece[i][2] = CopyShim
    \/ /\ f[i].op = "FROM"
       /\ DOMAIN piece[i] = {1, 2, 3} /\ piece[i][1] = Is("FROM", Exec(<<"health-shim">>))
       /\ piece[i][2] = f[i] /\ piece[i][3] = CopyShim
    \/ f[i].op = "HEALTHCHECK" /\ DOMAIN piece[i] = {}
    \/ /\ f[i].op = "ENTRYPOINT" /\ DOMAIN piece[i] = {1, 2, 3}
       /\ piece[i][1] = LineOf("HEALTHCHECK", <<>>, TRUE) /\ piece[i][2] = Is("CMD", ShimProbe)
       /\ piece[i][3] = ShimEntrypoint
    \/ /\ f[i].op = "CMD" /\ DOMAIN piece[i] = {1}
       /\ piece[i][1].op = "CMD" /\ ~piece[i][1].more
\* Every line, and the shim's stage, its copy and its entrypoint among them.
WiredPieces(f, piece) ==
    /\ \A i \in DOMAIN f : WiredAt(f, piece, i)
    /\ \E i \in DOMAIN f : \E k \in DOMAIN piece[i] : piece[i][k] = CopyShim
    /\ \/ HasShimStage(f)
       \/ \E i \in DOMAIN f : \E k \in DOMAIN piece[i] : piece[i][k] = Is("FROM", Exec(<<"health-shim">>))
    /\ \E i \in DOMAIN f : f[i].op = "ENTRYPOINT"

\* What it finds for a kind of line is a line of that kind.
LEMMA FirstLineOf ==
    ASSUME NEW f, Formed(f), NEW op, NEW i \in DOMAIN f
    PROVE  /\ i = FirstLine(f, op) => f[i].op = op
           /\ i = LastLine(f, op) => f[i].op = op
<1>1. DOMAIN f = 1..Len(f) /\ Len(f) \in Nat /\ i # 0
    BY FormedLines
<1>2. LinesOf(f, op) \in SUBSET (1..Len(f))
    BY <1>1 DEF LinesOf
<1>3. CASE LinesOf(f, op) = {}
    BY <1>1, <1>3 DEF FirstLine, LastLine
<1>4. CASE LinesOf(f, op) # {}
    <2>1. FirstLine(f, op) \in LinesOf(f, op) /\ LastLine(f, op) \in LinesOf(f, op)
        BY <1>1, <1>2, <1>4, MinLine, MaxLine DEF FirstLine, LastLine
    <2> QED
        BY <2>1 DEF LinesOf
<1> QED
    BY <1>3, <1>4

\* The pieces wire_health_shim.py puts together.
WiredPiece(f) ==
    [i \in DOMAIN f |->
        CASE i = LastLine(f, "FROM") ->
                (IF HasShimStage(f) THEN <<>> ELSE ShimStage) \o <<f[i], CopyShim>>
          [] i = FirstLine(f, "HEALTHCHECK") -> <<>>
          [] i = FirstLine(f, "ENTRYPOINT") -> ShimHealthCheck \o <<ShimEntrypoint>>
          [] i = FirstLine(f, "CMD") -> <<WiredCmd(DetectEntrypoint(f)[1], DetectCmdArgs(f))>>
          [] OTHER -> <<f[i]>>]

\* Sequences of up to three lines.
LEMMA TwoAndOne ==
    ASSUME NEW S, NEW a \in S, NEW b \in S, NEW c \in S
    PROVE  /\ <<a, b>> \o <<c>> \in Seq(S) /\ DOMAIN (<<a, b>> \o <<c>>) = {1, 2, 3}
           /\ (<<a, b>> \o <<c>>)[1] = a /\ (<<a, b>> \o <<c>>)[2] = b /\ (<<a, b>> \o <<c>>)[3] = c
           /\ <<a>> \o <<b, c>> \in Seq(S) /\ DOMAIN (<<a>> \o <<b, c>>) = {1, 2, 3}
           /\ (<<a>> \o <<b, c>>)[1] = a /\ (<<a>> \o <<b, c>>)[2] = b /\ (<<a>> \o <<b, c>>)[3] = c
           /\ <<>> \o <<a, b>> = <<a, b>> /\ <<a, b>> \in Seq(S) /\ DOMAIN <<a, b>> = {1, 2}
           /\ <<a, b>>[1] = a /\ <<a, b>>[2] = b
           /\ <<a>> \in Seq(S) /\ DOMAIN <<a>> = {1} /\ <<a>>[1] = a
<1> DEFINE s == <<a, b>>
           t == <<c>>
           u == <<a>>
           v == <<b, c>>
           first == s \o t
           second == u \o v
<1>1. /\ s \in Seq(S) /\ Len(s) = 2 /\ s[1] = a /\ s[2] = b /\ DOMAIN s = {1, 2}
      /\ t \in Seq(S) /\ Len(t) = 1 /\ t[1] = c
      /\ u \in Seq(S) /\ Len(u) = 1 /\ u[1] = a /\ DOMAIN u = {1}
      /\ v \in Seq(S) /\ Len(v) = 2 /\ v[1] = b /\ v[2] = c
    OBVIOUS
<1> HIDE DEF s, t, u, v
<1>2. /\ first \in Seq(S) /\ Len(first) = Len(s) + Len(t)
      /\ \A w \in 1..Len(s) : first[w] = s[w]
      /\ \A k \in 1..Len(t) : first[Len(s) + k] = t[k]
    <2>1. s \in Seq(S) /\ t \in Seq(S)
        BY <1>1
    <2> QED
        BY <2>1, Concatenated
<1>3. /\ second \in Seq(S) /\ Len(second) = Len(u) + Len(v)
      /\ \A w \in 1..Len(u) : second[w] = u[w]
      /\ \A k \in 1..Len(v) : second[Len(u) + k] = v[k]
    <2>1. u \in Seq(S) /\ v \in Seq(S)
        BY <1>1
    <2> QED
        BY <2>1, Concatenated
<1>4. <<>> \o s = s
    <2>1. s \in Seq(S)
        BY <1>1
    <2> QED
        BY <2>1, ConcatEmptySeq
<1> HIDE DEF first, second
<1>5. DOMAIN first = {1, 2, 3} /\ first[1] = a /\ first[2] = b /\ first[3] = c
    <2>1. Len(first) = 3 /\ 1 \in 1..Len(s) /\ 2 \in 1..Len(s) /\ 1 \in 1..Len(t)
        BY <1>1, <1>2
    <2>2. first[1] = s[1] /\ first[2] = s[2] /\ first[Len(s) + 1] = t[1]
        BY <1>2, <2>1
    <2> QED
        BY <1>1, <1>2, <2>1, <2>2
<1>6. DOMAIN second = {1, 2, 3} /\ second[1] = a /\ second[2] = b /\ second[3] = c
    <2>1. Len(second) = 3 /\ 1 \in 1..Len(u) /\ 1 \in 1..Len(v) /\ 2 \in 1..Len(v)
        BY <1>1, <1>3
    <2>2. second[1] = u[1] /\ second[Len(u) + 1] = v[1] /\ second[Len(u) + 2] = v[2]
        BY <1>3, <2>1
    <2> QED
        BY <1>1, <1>3, <2>1, <2>2
<1> QED
    BY <1>1, <1>2, <1>3, <1>4, <1>5, <1>6 DEF first, second, s, t, u, v

\* BuildWiredDockerfile is woven of the pieces it writes for the lines it finds.
LEMMA WiredWoven ==
    ASSUME NEW f, Formed(f), DetectEntrypoint(f) # <<>>
    PROVE  /\ BuildWiredDockerfile(f) \in Seq(TextLines)
           /\ WiredPiece(f) \in Seq(Seq(TextLines)) /\ Len(WiredPiece(f)) = Len(f)
           /\ \E at : Woven(BuildWiredDockerfile(f), WiredPiece(f), at)
           /\ WiredPieces(f, WiredPiece(f))
<1> DEFINE n == Len(f)
           F == LastLine(f, "FROM")
           H == FirstLine(f, "HEALTHCHECK")
           E == FirstLine(f, "ENTRYPOINT")
           C == FirstLine(f, "CMD")
           cmd == WiredCmd(DetectEntrypoint(f)[1], DetectCmdArgs(f))
           stage == Is("FROM", Exec(<<"health-shim">>))
           check == LineOf("HEALTHCHECK", <<>>, TRUE)
           probe == Is("CMD", ShimProbe)
           piece == WiredPiece(f)
           S == TextLines
<1>1. /\ f \in Seq(S) /\ n \in Nat \ {0} /\ DOMAIN f = 1..n
      /\ \A i \in 1..n : f[i] \in S /\ f[i].args \in Seq(Seq(Vocabulary))
    BY FormedLines
<1>2. E \in DOMAIN f /\ f[E].op = "ENTRYPOINT" /\ F \in DOMAIN f /\ f[F].op = "FROM"
    <2>1. LinesOf(f, "ENTRYPOINT") # {}
        BY DEF DetectEntrypoint, FirstLine, ArgsAt
    <2>2. LinesOf(f, "FROM") # {}
        BY FormedFrom
    <2>3. LinesOf(f, "ENTRYPOINT") \in SUBSET (1..n) /\ LinesOf(f, "FROM") \in SUBSET (1..n)
        BY <1>1 DEF LinesOf
    <2>4. E \in LinesOf(f, "ENTRYPOINT") /\ F \in LinesOf(f, "FROM")
        BY <1>1, <2>1, <2>2, <2>3, MinLine, MaxLine DEF FirstLine, LastLine
    <2> QED
        BY <2>4 DEF LinesOf
<1>3. \A i \in 1..n : /\ i = F => f[i].op = "FROM"
                      /\ i = H => f[i].op = "HEALTHCHECK"
                      /\ i = E => f[i].op = "ENTRYPOINT"
                      /\ i = C => f[i].op = "CMD"
    BY <1>1, FirstLineOf
<1>4. cmd \in S /\ cmd.op = "CMD" /\ ~cmd.more
    <2>1. DetectEntrypoint(f) = f[E].args
        BY <1>1, <1>2 DEF DetectEntrypoint, ArgsAt
    <2>2. f[E].args \in Seq(Seq(Vocabulary)) /\ f[E].args # <<>>
        BY <1>1, <1>2, <2>1
    <2>3. DetectEntrypoint(f)[1] \in Seq(Vocabulary)
        <3> DEFINE args == f[E].args
        <3>1. args \in Seq(Seq(Vocabulary)) /\ args # <<>>
            BY <2>2
        <3> HIDE DEF args
        <3>2. 1 \in DOMAIN args
            BY <3>1
        <3>3. args[1] \in Seq(Vocabulary)
            BY <3>1, <3>2
        <3> QED
            BY <2>1, <3>3 DEF args
    <2>4. DetectCmdArgs(f) \in Seq(Seq(Vocabulary))
        <3>1. CASE LinesOf(f, "CMD") = {}
            <4>1. DetectCmdArgs(f) = <<>>
                BY <3>1 DEF DetectCmdArgs, ArgsAt, FirstLine
            <4> QED
                BY <4>1
        <3>2. CASE LinesOf(f, "CMD") # {}
            <4>1. LinesOf(f, "CMD") \in SUBSET (1..n)
                BY <1>1 DEF LinesOf
            <4>2. C \in 1..n
                BY <1>1, <3>2, <4>1, MinLine DEF FirstLine
            <4>3. DetectCmdArgs(f) = f[C].args
                BY <1>1, <4>2 DEF DetectCmdArgs, ArgsAt
            <4> QED
                BY <1>1, <4>2, <4>3
        <3> QED
            BY <3>1, <3>2
    <2> QED
        BY <2>3, <2>4, WiredCmdTyped
<1>5. stage \in S /\ CopyShim \in S /\ check \in S /\ probe \in S /\ ShimEntrypoint \in S
    BY ShimLinesTyped
<1>6. /\ piece = [i \in 1..n |-> piece[i]] /\ DOMAIN piece = 1..n
      /\ \A i \in 1..n : piece[i] = CASE i = F -> (IF HasShimStage(f) THEN <<>> ELSE <<stage>>) \o <<f[i], CopyShim>>
                                      [] i = H -> <<>>
                                      [] i = E -> <<check, probe>> \o <<ShimEntrypoint>>
                                      [] i = C -> <<cmd>>
                                      [] OTHER -> <<f[i]>>
    BY <1>1 DEF WiredPiece, ShimStage, ShimHealthCheck
<1> HIDE DEF n, F, H, E, C, cmd, stage, check, probe, piece, S
<1>7. ASSUME NEW i \in 1..n
      PROVE  /\ i = F => piece[i] = (IF HasShimStage(f) THEN <<>> ELSE <<stage>>) \o <<f[i], CopyShim>>
             /\ i = H => piece[i] = <<>>
             /\ i = E => piece[i] = <<check, probe>> \o <<ShimEntrypoint>>
             /\ i = C => piece[i] = <<cmd>>
             /\ i # F /\ i # H /\ i # E /\ i # C => piece[i] = <<f[i]>>
    BY <1>3, <1>6
<1>8. ASSUME NEW i \in 1..n PROVE piece[i] \in Seq(S) /\ WiredAt(f, piece, i)
    <2>1. f[i] \in S
        BY <1>1
    <2>2. CASE i = F
        <3>1. CASE HasShimStage(f)
            <4>1. piece[i] = <<>> \o <<f[i], CopyShim>>
                BY <1>7, <2>2, <3>1
            <4>2. piece[i] \in Seq(S) /\ DOMAIN piece[i] = {1, 2} /\ piece[i][1] = f[i] /\ piece[i][2] = CopyShim
                BY <1>5, <2>1, <4>1, TwoAndOne
            <4> QED
                BY <1>3, <2>2, <4>2 DEF WiredAt
        <3>2. CASE ~HasShimStage(f)
            <4>1. piece[i] = <<stage>> \o <<f[i], CopyShim>>
                BY <1>7, <2>2, <3>2
            <4>2. /\ piece[i] \in Seq(S) /\ DOMAIN piece[i] = {1, 2, 3}
                  /\ piece[i][1] = stage /\ piece[i][2] = f[i] /\ piece[i][3] = CopyShim
                BY <1>5, <2>1, <4>1, TwoAndOne
            <4> QED
                BY <1>3, <2>2, <4>2 DEF WiredAt, stage
        <3> QED
            BY <3>1, <3>2
    <2>3. CASE i = H
        <3>1. piece[i] = <<>>
            BY <1>7, <2>3
        <3>2. piece[i] \in Seq(S) /\ DOMAIN piece[i] = {}
            BY <3>1
        <3> QED
            BY <1>3, <2>3, <3>2 DEF WiredAt
    <2>4. CASE i = E
        <3>1. piece[i] = <<check, probe>> \o <<ShimEntrypoint>>
            BY <1>7, <2>4
        <3>2. /\ piece[i] \in Seq(S) /\ DOMAIN piece[i] = {1, 2, 3}
              /\ piece[i][1] = check /\ piece[i][2] = probe /\ piece[i][3] = ShimEntrypoint
            BY <1>5, <3>1, TwoAndOne
        <3> QED
            BY <1>3, <2>4, <3>2 DEF WiredAt, check, probe
    <2>5. CASE i = C
        <3>1. piece[i] = <<cmd>>
            BY <1>7, <2>5
        <3>2. piece[i] \in Seq(S) /\ DOMAIN piece[i] = {1} /\ piece[i][1] = cmd
            BY <1>4, <3>1, TwoAndOne
        <3> QED
            BY <1>3, <1>4, <2>5, <3>2 DEF WiredAt
    <2>6. CASE i # F /\ i # H /\ i # E /\ i # C
        <3>1. piece[i] = <<f[i]>>
            BY <1>7, <2>6
        <3>2. piece[i] \in Seq(S) /\ DOMAIN piece[i] = {1} /\ piece[i][1] = f[i]
            BY <2>1, <3>1, TwoAndOne
        <3>3. f[i].op # "ENTRYPOINT"
            BY <1>1, <1>2, <2>6 DEF Formed, LinesOf
        <3> QED
            BY <3>2, <3>3 DEF WiredAt
    <2> QED
        BY <2>2, <2>3, <2>4, <2>5, <2>6
<1>9. piece \in Seq(Seq(S)) /\ Len(piece) = n
    <2>1. n \in Nat /\ \A i \in 1..n : piece[i] \in Seq(S)
        BY <1>1, <1>8
    <2>2. piece = [i \in 1..n |-> piece[i]] /\ DOMAIN piece = 1..n
        BY <1>6
    <2>3. piece \in [1..n -> Seq(S)]
        BY <2>1, <2>2
    <2> HIDE DEF piece
    <2>4. piece \in Seq(Seq(S))
        BY <2>1, <2>3
    <2>5. Len(piece) = n
        BY <2>1, <2>2, <2>4
    <2> QED
        BY <2>4, <2>5
<1>10. WiredPieces(f, piece)
    <2>1. F \in 1..n /\ E \in 1..n
        BY <1>1, <1>2
    <2>2. CASE HasShimStage(f)
        <3>1. piece[F] = <<>> \o <<f[F], CopyShim>>
            BY <1>7, <2>1, <2>2
        <3>2. 2 \in DOMAIN piece[F] /\ piece[F][2] = CopyShim
            BY <1>1, <1>5, <2>1, <3>1, TwoAndOne
        <3> QED
            BY <1>1, <1>2, <1>8, <2>1, <2>2, <3>2 DEF WiredPieces
    <2>3. CASE ~HasShimStage(f)
        <3>1. piece[F] = <<stage>> \o <<f[F], CopyShim>>
            BY <1>7, <2>1, <2>3
        <3>2. /\ 1 \in DOMAIN piece[F] /\ piece[F][1] = stage
              /\ 3 \in DOMAIN piece[F] /\ piece[F][3] = CopyShim
            BY <1>1, <1>5, <2>1, <3>1, TwoAndOne
        <3> QED
            BY <1>1, <1>2, <1>8, <2>1, <3>2 DEF WiredPieces, stage
    <2> QED
        BY <2>2, <2>3
<1>11. BuildWiredDockerfile(f) = Rewrite(f, piece)
    BY DEF BuildWiredDockerfile, piece, WiredPiece
<1>12. Rewrite(f, piece) \in Seq(S) /\ \E at : Woven(Rewrite(f, piece), piece, at)
    <2>1. f \in Seq(S) /\ Len(f) # 0 /\ Len(piece) = Len(f) /\ piece \in Seq(Seq(S))
        BY <1>1, <1>9 DEF n
    <2> QED
        BY <2>1, RewriteWoven
<1> QED
    BY <1>9, <1>10, <1>11, <1>12 DEF n, piece, S

\* What a wired line may be, whatever the line was.
LEMMA WiredLines ==
    ASSUME NEW f, Formed(f), NEW piece, WiredPieces(f, piece), NEW i \in DOMAIN f, NEW k \in DOMAIN piece[i]
    PROVE  /\ \/ piece[i][k] = f[i] /\ f[i].op # "ENTRYPOINT"
              \/ f[i].op = "FROM" /\ piece[i][k].op \in {"FROM", "COPY"} /\ ~piece[i][k].more
              \/ /\ f[i].op = "ENTRYPOINT" /\ piece[i][k].op \in {"HEALTHCHECK", "CMD", "ENTRYPOINT"}
                 /\ piece[i][k].op = "HEALTHCHECK" <=> k = 1
                 /\ piece[i][k].more <=> k = 1
                 /\ piece[i][k].op = "ENTRYPOINT" => k = 3 /\ piece[i][k] = ShimEntrypoint
              \/ f[i].op = "CMD" /\ piece[i][k].op = "CMD" /\ ~piece[i][k].more
           /\ k \in Nat \ {0} /\ 1 \in DOMAIN piece[i]
           /\ k + 1 \in DOMAIN piece[i] =>
                \/ f[i].op = "FROM" /\ ~piece[i][k].more /\ piece[i][k + 1].op \in {"FROM", "COPY"}
                \/ /\ f[i].op = "ENTRYPOINT"
                   /\ IF k = 1 THEN piece[i][k].op = "HEALTHCHECK" /\ piece[i][k].more /\ piece[i][k + 1].op = "CMD"
                      ELSE ~piece[i][k].more /\ piece[i][k + 1].op = "ENTRYPOINT"
           /\ k + 1 \notin DOMAIN piece[i] =>
                piece[i][k] = f[i] \/ (~piece[i][k].more /\ ~f[i].more)
<1>1. f[i].more => f[i].op \in Continuable
    BY FormedLines
<1>2. WiredAt(f, piece, i)
    BY DEF WiredPieces
<1> DEFINE stage == Is("FROM", Exec(<<"health-shim">>))
           check == LineOf("HEALTHCHECK", <<>>, TRUE)
           probe == Is("CMD", ShimProbe)
<1>3. /\ stage.op = "FROM" /\ ~stage.more /\ CopyShim.op = "COPY" /\ ~CopyShim.more
      /\ check.op = "HEALTHCHECK" /\ check.more /\ probe.op = "CMD" /\ ~probe.more
      /\ ShimEntrypoint.op = "ENTRYPOINT" /\ ~ShimEntrypoint.more
    BY ShimLinesTyped
<1> HIDE DEF stage, check, probe
<1>4. CASE f[i].op # "ENTRYPOINT" /\ DOMAIN piece[i] = {1} /\ piece[i][1] = f[i]
    BY <1>4
<1>5. CASE f[i].op = "FROM" /\ DOMAIN piece[i] = {1, 2} /\ piece[i][1] = f[i] /\ piece[i][2] = CopyShim
    <2>1. ~f[i].more
        BY <1>1, <1>5 DEF Continuable
    <2>2. (k = 1 /\ piece[i][k] = f[i] /\ piece[i][k + 1] = CopyShim) \/ (k = 2 /\ piece[i][k] = CopyShim /\ k + 1 \notin DOMAIN piece[i])
        BY <1>5
    <2> QED
        BY <1>3, <1>5, <2>1, <2>2
<1>6. CASE /\ f[i].op = "FROM" /\ DOMAIN piece[i] = {1, 2, 3} /\ piece[i][1] = stage
           /\ piece[i][2] = f[i] /\ piece[i][3] = CopyShim
    <2>1. ~f[i].more
        BY <1>1, <1>6 DEF Continuable
    <2>2. \/ k = 1 /\ piece[i][k] = stage /\ piece[i][k + 1] = f[i] /\ k + 1 \in DOMAIN piece[i]
          \/ k = 2 /\ piece[i][k] = f[i] /\ piece[i][k + 1] = CopyShim /\ k + 1 \in DOMAIN piece[i]
          \/ k = 3 /\ piece[i][k] = CopyShim /\ k + 1 \notin DOMAIN piece[i]
        BY <1>6
    <2>3. 1 \in DOMAIN piece[i]
        BY <1>6
    <2> QED
        BY <1>3, <1>6, <2>1, <2>2, <2>3
<1>7. CASE f[i].op = "HEALTHCHECK" /\ DOMAIN piece[i] = {}
    BY <1>7
<1>8. CASE /\ f[i].op = "ENTRYPOINT" /\ DOMAIN piece[i] = {1, 2, 3}
           /\ piece[i][1] = check /\ piece[i][2] = probe /\ piece[i][3] = ShimEntrypoint
    <2>1. ~f[i].more
        BY <1>1, <1>8 DEF Continuable
    <2>2. \/ k = 1 /\ piece[i][k] = check /\ piece[i][k + 1] = probe /\ k + 1 \in DOMAIN piece[i]
          \/ k = 2 /\ piece[i][k] = probe /\ piece[i][k + 1] = ShimEntrypoint /\ k + 1 \in DOMAIN piece[i]
          \/ k = 3 /\ piece[i][k] = ShimEntrypoint /\ k + 1 \notin DOMAIN piece[i]
        BY <1>8
    <2>3. 1 \in DOMAIN piece[i]
        BY <1>8
    <2> QED
        BY <1>3, <1>8, <2>1, <2>2, <2>3
<1>9. CASE /\ f[i].op = "CMD" /\ DOMAIN piece[i] = {1}
           /\ piece[i][1].op = "CMD" /\ ~piece[i][1].more
    <2>1. ~f[i].more
        BY <1>1, <1>9 DEF Continuable
    <2>2. k = 1 /\ k + 1 \notin DOMAIN piece[i]
        BY <1>9
    <2> QED
        BY <1>9, <2>1, <2>2
<1> QED
    BY <1>2, <1>4, <1>5, <1>6, <1>7, <1>8, <1>9 DEF WiredAt, stage, check, probe

\* Only a HEALTHCHECK goes.
LEMMA WiredPresent ==
    ASSUME NEW f, NEW piece, NEW i, WiredAt(f, piece, i), f[i].op # "HEALTHCHECK"
    PROVE  1 \in DOMAIN piece[i]
BY DEF WiredAt

\* But for the ENTRYPOINT, the first line of a piece begins as its line.
LEMMA WiredHead ==
    ASSUME NEW f, NEW piece, NEW i, WiredAt(f, piece, i), 1 \in DOMAIN piece[i], f[i].op # "ENTRYPOINT"
    PROVE  piece[i][1].op = f[i].op
<1>1. Is("FROM", Exec(<<"health-shim">>)).op = "FROM"
    BY ShimLinesTyped
<1> QED
    BY <1>1 DEF WiredAt

\* Most lines stay what they are.
LEMMA WiredKept ==
    ASSUME NEW f, NEW piece, NEW i, WiredAt(f, piece, i), f[i].op \in {"USER", "var", "blank", "ENV"}
    PROVE  DOMAIN piece[i] = {1} /\ piece[i][1] = f[i]
BY DEF WiredAt

\* A FROM stays, with a stage before it or none.
LEMMA WiredFrom ==
    ASSUME NEW f, NEW piece, NEW i, WiredAt(f, piece, i), f[i].op = "FROM"
    PROVE  \E k \in DOMAIN piece[i] : piece[i][k] = f[i]
BY DEF WiredAt

\* An ENTRYPOINT is the third line of what replaces one.
LEMMA WiredEntry ==
    ASSUME NEW f, NEW piece, NEW i, WiredAt(f, piece, i), NEW k \in DOMAIN piece[i], piece[i][k].op = "ENTRYPOINT"
    PROVE  f[i].op = "ENTRYPOINT" /\ k = 3 /\ piece[i][k] = ShimEntrypoint
<1>1. /\ Is("FROM", Exec(<<"health-shim">>)).op = "FROM" /\ CopyShim.op = "COPY"
      /\ LineOf("HEALTHCHECK", <<>>, TRUE).op = "HEALTHCHECK" /\ Is("CMD", ShimProbe).op = "CMD"
    BY ShimLinesTyped
<1> QED
    BY <1>1 DEF WiredAt

\* The same of every line.
LEMMA WiredEverywhere ==
    ASSUME NEW f, NEW piece, WiredPieces(f, piece)
    PROVE  /\ \A i \in DOMAIN f : WiredAt(f, piece, i)
           /\ \A i \in DOMAIN f : f[i].op # "HEALTHCHECK" => 1 \in DOMAIN piece[i]
           /\ \A i \in DOMAIN f : 1 \in DOMAIN piece[i] /\ f[i].op # "ENTRYPOINT" => piece[i][1].op = f[i].op
           /\ \A i \in DOMAIN f : f[i].op \in {"USER", "var", "blank", "ENV"} =>
                DOMAIN piece[i] = {1} /\ piece[i][1] = f[i]
           /\ \A i \in DOMAIN f : f[i].op = "FROM" => \E k \in DOMAIN piece[i] : piece[i][k] = f[i]
<1>1. \A i \in DOMAIN f : WiredAt(f, piece, i)
    BY DEF WiredPieces
<1>2. \A i \in DOMAIN f : f[i].op # "HEALTHCHECK" => 1 \in DOMAIN piece[i]
    BY <1>1, WiredPresent
<1>3. \A i \in DOMAIN f : 1 \in DOMAIN piece[i] /\ f[i].op # "ENTRYPOINT" => piece[i][1].op = f[i].op
    BY <1>1, WiredHead
<1>4. \A i \in DOMAIN f : f[i].op \in {"USER", "var", "blank", "ENV"} =>
        DOMAIN piece[i] = {1} /\ piece[i][1] = f[i]
    BY <1>1, WiredKept
<1>5. \A i \in DOMAIN f : f[i].op = "FROM" => \E k \in DOMAIN piece[i] : piece[i][k] = f[i]
    BY <1>1, WiredFrom
<1> QED
    BY <1>1, <1>2, <1>3, <1>4, <1>5

\* A wired Dockerfile is formed.
LEMMA WiredFormed ==
    ASSUME NEW f, Formed(f), NEW g \in Seq(TextLines),
           NEW piece \in Seq(Seq(TextLines)), Len(piece) = Len(f), NEW at, Woven(g, piece, at),
           WiredPieces(f, piece)
    PROVE  Formed(g)
<1>1. /\ f \in Seq(TextLines) /\ DOMAIN f = DOMAIN piece
      /\ \A i \in DOMAIN f : f[i].more => f[i].op \in Continuable
    BY FormedLines
<1>2. \A i \in DOMAIN piece : DOMAIN piece[i] \subseteq Nat \ {0}
    BY <1>1, PieceFacts
<1> DEFINE Present == \A i \in DOMAIN f : f[i].op # "HEALTHCHECK" => 1 \in DOMAIN piece[i]
           HeadKept == \A i \in DOMAIN f : 1 \in DOMAIN piece[i] /\ f[i].op # "ENTRYPOINT" => piece[i][1].op = f[i].op
           LineKept == \A i \in DOMAIN f : f[i].op \in {"USER", "var", "blank", "ENV"} =>
                        DOMAIN piece[i] = {1} /\ piece[i][1] = f[i]
<1>7. Present
    BY WiredEverywhere
<1>8. HeadKept
    BY WiredEverywhere
<1>9. LineKept
    BY WiredEverywhere
<1>3. NoneLoose(f, piece)
    <2>1. ASSUME NEW i \in DOMAIN piece, NEW k \in DOMAIN piece[i], k + 1 \in DOMAIN piece[i], piece[i][k].more
          PROVE  piece[i][k + 1].op \notin Skipped \cup EndOps
        <3>1. piece[i][k + 1].op = "CMD"
            BY <1>1, <2>1, WiredLines
        <3> QED
            BY <3>1 DEF Skipped, EndOps
    <2>2. ASSUME NEW i \in DOMAIN piece, NEW k \in DOMAIN piece[i], k + 1 \notin DOMAIN piece[i], piece[i][k].more
          PROVE  f[i].more
        <3>1. piece[i][k] = f[i] \/ (~piece[i][k].more /\ ~f[i].more)
            BY <1>1, <2>2, WiredLines
        <3> QED
            BY <2>2, <3>1
    <2>3. ASSUME NEW i \in DOMAIN piece, f[i].op \in Skipped, NEW k \in DOMAIN piece[i]
          PROVE  piece[i][k].op \notin EndOps
        <3>1. i \in DOMAIN f /\ f[i].op \in {"USER", "var", "blank", "ENV"}
            BY <1>1, <2>3 DEF Skipped
        <3>2. DOMAIN piece[i] = {1} /\ piece[i][1] = f[i]
            BY <1>9, <3>1
        <3> QED
            BY <2>3, <3>2 DEF Skipped, EndOps
    <2>4. ASSUME NEW j \in DOMAIN piece, f[j].op \notin Skipped \cup EndOps
          PROVE  \E b \in DOMAIN piece[j] : /\ piece[j][b].op \notin Skipped \cup EndOps
                                            /\ \A c \in DOMAIN piece[j] : c < b => piece[j][c].op \notin EndOps
        <3>3. WiredAt(f, piece, j) /\ f[j].op # "HEALTHCHECK" /\ f[j].op # "ENTRYPOINT"
            BY <1>1, <2>4 DEF WiredPieces, EndOps
        <3>4. 1 \in DOMAIN piece[j]
            BY <1>1, <1>7, <3>3
        <3>1. 1 \in DOMAIN piece[j] /\ piece[j][1].op = f[j].op
            BY <1>1, <1>8, <3>3, <3>4
        <3>2. \A c \in DOMAIN piece[j] : ~ (c < 1)
            BY <1>2
        <3> QED
            BY <2>4, <3>1, <3>2
    <2> QED
        BY <2>1, <2>2, <2>3, <2>4 DEF NoneLoose
<1>4. \A i \in DOMAIN piece : \A k \in DOMAIN piece[i] : piece[i][k].more => piece[i][k].op \in Continuable
    <2> SUFFICES ASSUME NEW i \in DOMAIN piece, NEW k \in DOMAIN piece[i], piece[i][k].more
                 PROVE  piece[i][k].op \in Continuable
        OBVIOUS
    <2>1. \/ piece[i][k] = f[i]
          \/ piece[i][k].op = "HEALTHCHECK"
        BY <1>1, WiredLines
    <2> QED
        BY <1>1, <2>1 DEF Continuable
<1>5. FromKept(f, piece)
    <2>1. ASSUME NEW i \in DOMAIN piece, FromFirst(f, i) PROVE \E k \in DOMAIN piece[i] : FromFirst(piece[i], k)
        <3>3. i \in DOMAIN f /\ f[i].op = "FROM"
            BY <1>1, <2>1 DEF FromFirst
        <3>4. f[i].op # "HEALTHCHECK" /\ f[i].op # "ENTRYPOINT"
            BY <3>3
        <3>6. 1 \in DOMAIN piece[i]
            BY <1>7, <3>3, <3>4
        <3>1. 1 \in DOMAIN piece[i] /\ piece[i][1].op = "FROM"
            BY <1>8, <3>3, <3>4, <3>6
        <3>2. \A c \in DOMAIN piece[i] : ~ (c < 1)
            BY <1>2
        <3> QED
            BY <3>1, <3>2 DEF FromFirst
    <2>2. ASSUME NEW i \in DOMAIN piece, f[i].op = "blank", NEW k \in DOMAIN piece[i] PROVE piece[i][k].op = "blank"
        <3>1. DOMAIN piece[i] = {1} /\ piece[i][1] = f[i]
            <4>1. i \in DOMAIN f /\ f[i].op \in {"USER", "var", "blank", "ENV"}
                BY <1>1, <2>2
            <4> QED
                BY <1>9, <4>1
        <3> QED
            BY <2>2, <3>1
    <2> QED
        BY <2>1, <2>2 DEF FromKept
<1>6. \A i, j \in DOMAIN piece : \A k \in DOMAIN piece[i], m \in DOMAIN piece[j] :
        piece[i][k].op = "ENTRYPOINT" /\ piece[j][m].op = "ENTRYPOINT" => i = j /\ k = m
    <2>1. ASSUME NEW i \in DOMAIN piece, NEW k \in DOMAIN piece[i], piece[i][k].op = "ENTRYPOINT"
          PROVE  f[i].op = "ENTRYPOINT" /\ k = 3
        <3>1. WiredAt(f, piece, i)
            BY <1>1 DEF WiredPieces
        <3> QED
            BY <2>1, <3>1, WiredEntry
    <2>2. \A i, j \in DOMAIN f : f[i].op = "ENTRYPOINT" /\ f[j].op = "ENTRYPOINT" => i = j
        BY DEF Formed, LinesOf
    <2> QED
        BY <1>1, <2>1, <2>2
<1> QED
    BY <1>3, <1>4, <1>5, <1>6, FormedTransported

\* The only ENTRYPOINT is the shim's.
LEMMA WiredEntrypoint ==
    ASSUME NEW f, Formed(f), NEW g \in Seq(TextLines),
           NEW piece \in Seq(Seq(TextLines)), Len(piece) = Len(f), NEW at, Woven(g, piece, at),
           WiredPieces(f, piece)
    PROVE  \A x \in LinesOf(g, "ENTRYPOINT") : g[x] = ShimEntrypoint
<1> SUFFICES ASSUME NEW x \in DOMAIN g, g[x].op = "ENTRYPOINT" PROVE g[x] = ShimEntrypoint
    BY DEF LinesOf
<1>1. DOMAIN f = DOMAIN piece
    BY FormedLines
<1>2. PICK i \in DOMAIN piece : \E k \in DOMAIN piece[i] : x = at[i][k]
    BY DEF Woven
<1>3. PICK k \in DOMAIN piece[i] : x = at[i][k]
    BY <1>2
<1>4. g[x] = piece[i][k]
    BY <1>3 DEF Woven
<1>5. piece[i][k].op = "ENTRYPOINT" => piece[i][k] = ShimEntrypoint
    <2>1. WiredAt(f, piece, i)
        BY <1>1 DEF WiredPieces
    <2> QED
        BY <2>1, WiredEntry
<1> QED
    BY <1>4, <1>5

\* There is a health-shim stage, old or new.
LEMMA WiredStage ==
    ASSUME NEW f, NEW piece, WiredPieces(f, piece)
    PROVE  \E i \in DOMAIN f : \E k \in DOMAIN piece[i] :
              piece[i][k].op = "FROM" /\ piece[i][k].args = Exec(<<"health-shim">>)
<1> DEFINE stage == Is("FROM", Exec(<<"health-shim">>))
<1>1. stage.op = "FROM" /\ stage.args = Exec(<<"health-shim">>)
    BY ShimLinesTyped
<1>2. CASE HasShimStage(f)
    <2>1. PICK i \in DOMAIN f : f[i].op = "FROM" /\ f[i].args = Exec(<<"health-shim">>)
        BY <1>2 DEF HasShimStage, Stages, LinesOf
    <2>2. WiredAt(f, piece, i)
        BY DEF WiredPieces
    <2>3. PICK k \in DOMAIN piece[i] : piece[i][k] = f[i]
        BY <2>1, <2>2, WiredFrom
    <2> QED
        BY <2>1, <2>3
<1>3. CASE \E i \in DOMAIN f : \E k \in DOMAIN piece[i] : piece[i][k] = stage
    BY <1>1, <1>3
<1> QED
    BY <1>2, <1>3 DEF WiredPieces

\* verify_shim_wiring.py accepts it.
LEMMA WiredAccepted ==
    ASSUME NEW f, Formed(f), NEW g \in Seq(TextLines),
           NEW piece \in Seq(Seq(TextLines)), Len(piece) = Len(f), NEW at, Woven(g, piece, at),
           WiredPieces(f, piece)
    PROVE  CheckDockerfile(g)
<1>1. DOMAIN f = DOMAIN piece
    BY FormedLines
<1>2. /\ \A i \in DOMAIN piece : \A k \in DOMAIN piece[i] : at[i][k] \in DOMAIN g /\ g[at[i][k]] = piece[i][k]
      /\ \A i, j \in DOMAIN piece : \A k \in DOMAIN piece[i], m \in DOMAIN piece[j] :
           at[i][k] < at[j][m] <=> i < j \/ (i = j /\ k < m)
    BY DEF Woven
<1> DEFINE stage == Is("FROM", Exec(<<"health-shim">>))
           check == LineOf("HEALTHCHECK", <<>>, TRUE)
           probe == Is("CMD", ShimProbe)
<1>3. /\ stage.op = "FROM" /\ stage.args = Exec(<<"health-shim">>) /\ CopyShim.op = "COPY"
      /\ check.op = "HEALTHCHECK" /\ probe.op = "CMD" /\ probe.args = Exec(<<Canonical, "healthcheck">>)
      /\ ShimEntrypoint.op = "ENTRYPOINT" /\ RunsShim(ShimEntrypoint.args)
    BY ShimLinesTyped
<1> HIDE DEF stage, check, probe
<1>4. HasShimStage(g)
    <2>1. PICK i \in DOMAIN f : \E k \in DOMAIN piece[i] :
              piece[i][k].op = "FROM" /\ piece[i][k].args = Exec(<<"health-shim">>)
        BY WiredStage, ZenonT(30)
    <2>2. PICK k \in DOMAIN piece[i] : piece[i][k].op = "FROM" /\ piece[i][k].args = Exec(<<"health-shim">>)
        BY <2>1
    <2>3. at[i][k] \in DOMAIN g /\ g[at[i][k]] = piece[i][k]
        BY <1>1, <1>2
    <2>4. at[i][k] \in Stages(g, "health-shim")
        BY <2>2, <2>3 DEF Stages, LinesOf
    <2> QED
        BY <2>4 DEF HasShimStage
<1>5. HasShimWiring(g)
    <2>1. PICK i \in DOMAIN f : \E k \in DOMAIN piece[i] : piece[i][k] = CopyShim
        BY DEF WiredPieces
    <2>2. PICK k \in DOMAIN piece[i] : piece[i][k] = CopyShim
        BY <2>1
    <2>3. at[i][k] \in LinesOf(g, "COPY")
        BY <1>1, <1>2, <1>3, <2>2 DEF LinesOf
    <2> QED
        BY <2>3 DEF HasShimWiring
<1>6. PICK e \in DOMAIN f : f[e].op = "ENTRYPOINT"
    BY DEF WiredPieces
<1>7. DOMAIN piece[e] = {1, 2, 3} /\ piece[e][1] = check /\ piece[e][2] = probe /\ piece[e][3] = ShimEntrypoint
    <2>1. WiredAt(f, piece, e)
        BY DEF WiredPieces
    <2> QED
        BY <1>6, <2>1 DEF WiredAt, check, probe
<1>8. HasHealthcheckShim(g)
    <2>1. at[e][1] \in DOMAIN g /\ g[at[e][1]] = check /\ at[e][2] \in DOMAIN g /\ g[at[e][2]] = probe
        BY <1>1, <1>2, <1>7
    <2>2. at[e][1] < at[e][2]
        <3>1. 1 \in DOMAIN piece[e] /\ 2 \in DOMAIN piece[e] /\ 1 < 2
            BY <1>7
        <3> QED
            BY <1>1, <1>2, <3>1
    <2>3. at[e][1] \in LinesOf(g, "HEALTHCHECK") /\ at[e][2] \in LinesOf(g, "CMD")
        BY <1>3, <2>1 DEF LinesOf
    <2>4. g[at[e][2]].args = Exec(<<Canonical, "healthcheck">>) /\ Canonical \in ShimPaths
        BY <1>3, <2>1 DEF ShimPaths
    <2> QED
        BY <2>2, <2>3, <2>4 DEF HasHealthcheckShim
<1>9. HasEntrypointShim(g)
    <2>1. at[e][3] \in LinesOf(g, "ENTRYPOINT") /\ RunsShim(g[at[e][3]].args)
        <3>1. 3 \in DOMAIN piece[e] /\ e \in DOMAIN piece
            BY <1>1, <1>7
        <3>2. at[e][3] \in DOMAIN g /\ g[at[e][3]] = ShimEntrypoint
            BY <1>2, <1>7, <3>1
        <3> QED
            BY <1>3, <3>2 DEF LinesOf
    <2>2. Formed(g)
        BY WiredFormed
    <2> QED
        BY <2>1, <2>2, EntrypointAccepted DEF Formed
<1> QED
    BY <1>4, <1>5, <1>8, <1>9 DEF CheckDockerfile

\* What wiring puts in place of a line begins as the shim's lines do, or as the line.
LEMMA WiredOps ==
    ASSUME NEW f, NEW piece, NEW i, WiredAt(f, piece, i), NEW k \in DOMAIN piece[i]
    PROVE  \/ piece[i][k] = f[i]
           \/ f[i].op = "FROM" /\ piece[i][k].op = "FROM"
           \/ piece[i][k].op \in {"COPY", "CMD", "ENTRYPOINT"}
           \/ piece[i][k].op = "HEALTHCHECK" /\ piece[i][k].more
<1>1. /\ Is("FROM", Exec(<<"health-shim">>)).op = "FROM" /\ CopyShim.op = "COPY"
      /\ LineOf("HEALTHCHECK", <<>>, TRUE).op = "HEALTHCHECK" /\ LineOf("HEALTHCHECK", <<>>, TRUE).more
      /\ Is("CMD", ShimProbe).op = "CMD" /\ ShimEntrypoint.op = "ENTRYPOINT"
    BY ShimLinesTyped
<1> QED
    BY <1>1 DEF WiredAt

\* Which lines of a wired Dockerfile come from which.
LEMMA WiredOrigins ==
    ASSUME NEW f, NEW piece, WiredPieces(f, piece)
    PROVE  /\ \A i \in DOMAIN f : \A k \in DOMAIN piece[i] : piece[i][k].op = "blank" => f[i].op = "blank"
           /\ \A i \in DOMAIN f : \A k \in DOMAIN piece[i] : piece[i][k].op = "USER" => f[i].op = "USER"
           /\ \A i \in DOMAIN f : \A k \in DOMAIN piece[i] : piece[i][k].op = "var" => f[i].op = "var"
           /\ \A i \in DOMAIN f : \A k \in DOMAIN piece[i] : piece[i][k].op = "FROM" => f[i].op = "FROM"
           /\ \A i \in DOMAIN f : \A k \in DOMAIN piece[i] :
                piece[i][k].op = "HEALTHCHECK" /\ ~piece[i][k].more => piece[i][k] = f[i]
<1>1. \A i \in DOMAIN f : WiredAt(f, piece, i)
    BY DEF WiredPieces
<1>2. \A i \in DOMAIN f : \A k \in DOMAIN piece[i] :
        \/ piece[i][k] = f[i]
        \/ f[i].op = "FROM" /\ piece[i][k].op = "FROM"
        \/ piece[i][k].op \in {"COPY", "CMD", "ENTRYPOINT"}
        \/ piece[i][k].op = "HEALTHCHECK" /\ piece[i][k].more
    BY <1>1, WiredOps
<1> QED
    BY <1>2

\* A line that goes on with what is open stays, whatever it goes on with.
LEMMA WiredJoined ==
    ASSUME NEW f, Formed(f), Local(f), NEW piece \in Seq(Seq(TextLines)), Len(piece) = Len(f),
           WiredPieces(f, piece)
    PROVE  WellJoined(f, piece) /\ UsersKept(f, piece)
<1>1. /\ f \in Seq(TextLines) /\ DOMAIN f = DOMAIN piece
      /\ \A i \in DOMAIN piece : /\ piece[i] # <<>> <=> 1 \in DOMAIN piece[i]
                                 /\ DOMAIN piece[i] \subseteq Nat \ {0}
      /\ DOMAIN f = 1..Len(f) /\ Len(f) \in Nat
    BY FormedLines, PieceFacts
<1>2. \A i \in DOMAIN f : f[i].op # "HEALTHCHECK" => 1 \in DOMAIN piece[i]
    BY WiredEverywhere
<1>3. \A i \in DOMAIN f : 1 \in DOMAIN piece[i] /\ f[i].op # "ENTRYPOINT" => piece[i][1].op = f[i].op
    BY WiredEverywhere
<1>4. \A i \in DOMAIN f : f[i].op \in {"USER", "var", "blank", "ENV"} =>
        DOMAIN piece[i] = {1} /\ piece[i][1] = f[i]
    BY WiredEverywhere
<1>5. \A i, j \in DOMAIN f : Continues(f, i, j) => f[j].op = GoesOnWith(f[i])
    BY DEF Local
<1>6. \A line : GoesOnWith(line) \in {"CMD", "var"}
    BY DEF GoesOnWith
<1>19. \A i \in DOMAIN f : \A k \in DOMAIN piece[i] : piece[i][k].op = "blank" => f[i].op = "blank"
    BY WiredOrigins
<1>20. \A i \in DOMAIN f : \A k \in DOMAIN piece[i] : piece[i][k].op = "USER" => f[i].op = "USER"
    BY WiredOrigins
<1>21. \A i \in DOMAIN f : \A k \in DOMAIN piece[i] : piece[i][k].op = "var" => f[i].op = "var"
    BY WiredOrigins
<1>22. \A i \in DOMAIN f : \A k \in DOMAIN piece[i] : piece[i][k].op = "FROM" => f[i].op = "FROM"
    BY WiredOrigins
<1>23. \A i \in DOMAIN f : \A k \in DOMAIN piece[i] :
         piece[i][k].op = "HEALTHCHECK" /\ ~piece[i][k].more => piece[i][k] = f[i]
    BY WiredOrigins
<1>7. BlankAlike(f, piece)
    <2>1. ASSUME NEW i \in DOMAIN piece, NEW k \in DOMAIN piece[i], piece[i][k].op = "blank"
          PROVE  f[i].op = "blank"
        BY <1>1, <1>19, <2>1
    <2>2. ASSUME NEW i \in DOMAIN piece, NEW k \in DOMAIN piece[i], f[i].op = "blank"
          PROVE  piece[i][k].op = "blank"
        <3>1. i \in DOMAIN f /\ f[i].op \in {"USER", "var", "blank", "ENV"}
            BY <1>1, <2>2
        <3>2. DOMAIN piece[i] = {1} /\ piece[i][1] = f[i]
            BY <1>4, <3>1
        <3> QED
            BY <2>2, <3>2
    <2> QED
        BY <2>1, <2>2 DEF BlankAlike
<1>8. ASSUME NEW i \in DOMAIN piece, 1 \in DOMAIN piece[i]
      PROVE  IF \E p \in DOMAIN f : Continues(f, p, i) THEN piece[i][1].op = f[i].op ELSE piece[i][1].op # "var"
    <2>1. CASE \E p \in DOMAIN f : Continues(f, p, i)
        <3>1. f[i].op \in {"CMD", "var"}
            BY <1>1, <1>5, <1>6, <2>1
        <3> QED
            BY <1>1, <1>3, <1>8, <2>1, <3>1
    <2>2. CASE ~ \E p \in DOMAIN f : Continues(f, p, i)
        <3>1. f[i].op # "var"
            BY <1>1, <2>2 DEF Local
        <3>2. piece[i][1].op # "var"
            BY <1>1, <1>8, <1>21, <3>1
        <3> QED
            BY <2>2, <3>2
    <2> QED
        BY <2>1, <2>2
<1>9. ASSUME NEW i \in DOMAIN piece, NEW k \in DOMAIN piece[i], k + 1 \in DOMAIN piece[i]
      PROVE  IF piece[i][k].more THEN piece[i][k + 1].op = GoesOnWith(piece[i][k]) ELSE piece[i][k + 1].op # "var"
    <2>1. \/ ~piece[i][k].more /\ piece[i][k + 1].op \in {"FROM", "COPY", "ENTRYPOINT"}
          \/ piece[i][k].op = "HEALTHCHECK" /\ piece[i][k].more /\ piece[i][k + 1].op = "CMD"
        BY <1>1, <1>9, WiredLines
    <2> QED
        BY <2>1 DEF GoesOnWith
<1>10. ASSUME NEW i \in DOMAIN piece, NEW k \in DOMAIN piece[i], k + 1 \notin DOMAIN piece[i]
       PROVE  piece[i][k] = f[i] \/ (~piece[i][k].more /\ ~f[i].more)
    BY <1>1, <1>10, WiredLines
<1>11. ASSUME NEW i \in DOMAIN piece, NEW k \in DOMAIN piece[i], piece[i][k].op = "HEALTHCHECK", ~piece[i][k].more
       PROVE  piece[i][k].args # <<>>
    <2>1. piece[i][k] = f[i]
        BY <1>1, <1>11, <1>23
    <2> QED
        BY <1>1, <1>11, <2>1 DEF Local
<1>12. ASSUME NEW i \in DOMAIN piece, NEW j \in DOMAIN piece, Continues(f, i, j)
       PROVE  IF piece[i] # <<>> THEN piece[j] # <<>> ELSE piece[j] # <<>> => f[j].op # "var"
    <2>1. f[j].op = GoesOnWith(f[i])
        BY <1>1, <1>5, <1>12
    <2>2. piece[j] # <<>>
        <3>1. j \in DOMAIN f /\ f[j].op # "HEALTHCHECK"
            BY <1>1, <1>6, <2>1
        <3>2. 1 \in DOMAIN piece[j]
            BY <1>2, <3>1
        <3> QED
            BY <1>1, <3>2
    <2>3. piece[i] = <<>> => f[i].op = "HEALTHCHECK"
        BY <1>1, <1>2
    <2>4. piece[i] = <<>> => f[j].op # "var"
        BY <2>1, <2>3 DEF GoesOnWith
    <2> QED
        BY <2>2, <2>4
<1>13. WellJoined(f, piece)
    <2>1. \A i \in DOMAIN piece : piece[i] # <<>> =>
            IF \E p \in DOMAIN f : Continues(f, p, i) THEN piece[i][1].op = f[i].op ELSE piece[i][1].op # "var"
        BY <1>1, <1>8
    <2>2. \A i \in DOMAIN piece : \A k \in DOMAIN piece[i] : k + 1 \notin DOMAIN piece[i] =>
            /\ piece[i][k].more <=> f[i].more
            /\ f[i].more => GoesOnWith(piece[i][k]) = GoesOnWith(f[i])
        BY <1>10
    <2> QED
        BY <1>7, <1>9, <1>11, <1>12, <2>1, <2>2 DEF WellJoined
<1>14. ASSUME NEW i \in DOMAIN piece, NEW k \in DOMAIN piece[i], piece[i][k].op = "USER"
       PROVE  f[i].op = "USER" /\ k = 1
    <2>1. f[i].op = "USER"
        BY <1>1, <1>14, <1>20
    <2>2. DOMAIN piece[i] = {1}
        <3>1. i \in DOMAIN f /\ f[i].op \in {"USER", "var", "blank", "ENV"}
            BY <1>1, <2>1
        <3> QED
            BY <1>4, <3>1
    <2> QED
        BY <2>1, <2>2
<1>15. ASSUME NEW i \in DOMAIN piece, f[i].op = "USER"
       PROVE  1 \in DOMAIN piece[i] /\ piece[i][1] = f[i]
    <2>1. i \in DOMAIN f /\ f[i].op \in {"USER", "var", "blank", "ENV"}
        BY <1>1, <1>15
    <2> QED
        BY <1>4, <2>1
<1>16. ASSUME NEW i \in DOMAIN piece, NEW k \in DOMAIN piece[i], piece[i][k].op = "FROM"
       PROVE  f[i].op = "FROM"
    BY <1>1, <1>16, <1>22
<1>17. ASSUME NEW i \in DOMAIN piece, NEW u \in DOMAIN piece, i < u, f[i].more, f[u].op = "USER"
       PROVE  \E a \in (i + 1)..(u - 1) : piece[a] # <<>> /\ f[a].op # "blank"
    <2>1. PICK j \in DOMAIN f : Continues(f, i, j) /\ j <= u
        <3>1. i \in DOMAIN f /\ u \in DOMAIN f /\ f[u].op # "blank"
            BY <1>1, <1>17
        <3> QED
            BY <1>1, <1>17, <3>1, NextLine
    <2>2. f[j].op \in {"CMD", "var"} /\ f[j].op # "blank"
        <3>1. f[j].op = GoesOnWith(f[i])
            BY <1>1, <1>5, <2>1
        <3> QED
            BY <1>6, <3>1
    <2>3. 1 \in DOMAIN piece[j] /\ piece[j] # <<>>
        <3>1. 1 \in DOMAIN piece[j]
            BY <1>2, <2>2
        <3> QED
            BY <1>1, <3>1
    <2>4. j # u
        BY <1>17, <2>2
    <2>5. i < j
        BY <2>1 DEF Continues
    <2>6. j \in (i + 1)..(u - 1)
        BY <1>1, <2>1, <2>4, <2>5
    <2> QED
        BY <2>2, <2>3, <2>6
<1>18. UsersKept(f, piece)
    <2>1. \A i \in DOMAIN piece : f[i].op = "USER" =>
            piece[i] # <<>> /\ piece[i][1].op = "USER" /\ (f[i].args = Exec(<<"65532">>) => piece[i][1].args = f[i].args)
        BY <1>1, <1>15
    <2>2. \A i \in DOMAIN piece : \A k \in DOMAIN piece[i] :
            k + 1 \notin DOMAIN piece[i] /\ piece[i][k].more => f[i].more
        BY <1>10
    <2>3. \A i, u \in DOMAIN piece : i < u /\ f[i].more /\ piece[i] # <<>> /\ f[u].op = "USER" =>
            \E a \in (i + 1)..(u - 1) : piece[a] # <<>> /\ f[a].op # "blank"
        BY <1>17
    <2> QED
        BY <1>7, <1>14, <1>16, <2>1, <2>2, <2>3 DEF UsersKept
<1> QED
    BY <1>13, <1>18

\* wire_health_shim.py writes what verify_shim_wiring.py accepts, breaks nothing
\* and takes no USER away.
LEMMA WireHealthShimKeeps ==
    ASSUME Formed(file), WireHealthShim
    PROVE  /\ Formed(file') /\ NamesKept(file, file', known)
           /\ CheckDockerfile(file')
           /\ Parses(file) => Parses(file')
           /\ Parses(file) /\ Nonroot(file) => Nonroot(file')
<1> DEFINE f == file
           g == file'
           piece == WiredPiece(file)
<1>1. DetectEntrypoint(f) # <<>> /\ g = BuildWiredDockerfile(f) /\ Formed(f)
    BY DEF WireHealthShim
<1>2. /\ g \in Seq(TextLines)
      /\ piece \in Seq(Seq(TextLines)) /\ Len(piece) = Len(f)
      /\ \E at : Woven(g, piece, at)
      /\ WiredPieces(f, piece)
    BY <1>1, WiredWoven
<1> HIDE DEF f, g, piece
<1>3. PICK at : Woven(g, piece, at)
    BY <1>2
<1>4. Formed(g)
    BY <1>1, <1>2, <1>3, WiredFormed
<1>5. CheckDockerfile(g)
    BY <1>1, <1>2, <1>3, WiredAccepted
<1>6. ~RunsDeprecated(g)
    <2>1. \A x \in LinesOf(g, "ENTRYPOINT") : g[x] = ShimEntrypoint
        BY <1>1, <1>2, <1>3, WiredEntrypoint
    <2>2. ~RunsOld(ShimEntrypoint.args)
        BY ShimLinesTyped
    <2> QED
        BY <2>1, <2>2 DEF RunsDeprecated, RunsOld
<1>7. /\ f \in Seq(TextLines)
      /\ \A i \in DOMAIN g : g[i].more => g[i].op \in Continuable
      /\ LinesOf(f, "FROM") # {} /\ LinesOf(g, "FROM") # {}
    BY <1>1, <1>4, FormedLines, FormedFrom
<1>8. Local(f) => Local(g)
    <2> SUFFICES ASSUME Local(f) PROVE Local(g)
        OBVIOUS
    <2>1. WellJoined(f, piece)
        BY <1>1, <1>2, WiredJoined
    <2> QED
        BY <1>2, <1>3, <1>7, <2>1, LocalKept
<1>9. Parses(f) => Parses(g)
    BY <1>1, <1>4, <1>8, FormedParses
<1>10. Parses(f) /\ Nonroot(f) => Nonroot(g)
    <2> SUFFICES ASSUME Parses(f), Nonroot(f) PROVE Nonroot(g)
        OBVIOUS
    <2>1. Local(f)
        BY <1>1, FormedParses
    <2>2. UsersKept(f, piece)
        BY <1>1, <1>2, <2>1, WiredJoined
    <2>3. NoUserInside(f)
        BY ParsesNoUserInside
    <2> QED
        BY <1>2, <1>3, <1>7, <2>2, <2>3, NonrootTransported
<1> QED
    BY <1>4, <1>5, <1>6, <1>9, <1>10 DEF f, g, NamesKept

-----------------------------------------------------------------------------
(* What the steps leave of what the container runs.                        *)

\* wire_db_shims.py: the name of a stage, and its variables, tell nothing.
LEMMA DbShimTells ==
    ASSUME Formed(file), WireDbShim
    PROVE  SameLines(file, file')
<1> DEFINE wired == [i \in DOMAIN file |-> IF i \in Stages(file, "health-shim")
                                          THEN Is("FROM", Exec(<<"db-shim">>)) ELSE file[i]]
           g == AfterUsers(wired, LinesOf(wired, "USER"), DbEnv)
<1>1. file' = wired \/ file' = g
    BY DEF WireDbShim
<1>2. Reworded(file, wired)
    BY StageReworded
<1>3. DOMAIN wired = DOMAIN file /\ \A i \in DOMAIN file : i \notin Stages(file, "health-shim") => wired[i] = file[i]
    OBVIOUS
<1> HIDE DEF wired
<1>4. Formed(wired)
    BY <1>2, RewordedKeeps DEF Keeps
<1>5. SameLines(file, wired)
    <2>1. \A i \in DOMAIN file : wired[i].op = file[i].op /\ wired[i].more = file[i].more
        BY <1>2 DEF Reworded
    <2>2. ASSUME NEW i \in DOMAIN file PROVE Matches(file[i], wired[i])
        <3>1. file[i].op # "FROM" => wired[i] = file[i]
            BY <1>3 DEF Stages, LinesOf
        <3> QED
            BY <2>1, <3>1 DEF Matches
    <2> QED
        BY <1>3, <2>1, <2>2, RewordedSame
<1>6. SameLines(wired, g)
    <2>1. Trails(DbEnv)
        <3>1. {"SHIM_BACKUP_ENABLED=false", "SHIM_BACKUP_DB_PORT", "SHIM_AUDIT_ENABLED"} \subseteq ShimVariables
            BY DEF ShimVariables
        <3> QED
            BY <3>1, EnvBlockTrails DEF DbEnv
    <2>2. \A i \in DOMAIN wired : i \in LinesOf(wired, "USER") => wired[i].op # "blank"
        BY DEF LinesOf
    <2> QED
        BY <1>4, <2>1, <2>2, AfterUsersKeeps
<1> HIDE DEF g
<1> QED
    BY <1>1, <1>5, <1>6, SameLinesTransitive

\* Only an ENV says SHIM_BACKUP_ENABLED=false.
OnlySaidByEnv(f) ==
    \A i \in DOMAIN f : f[i].args = Exec(<<"SHIM_BACKUP_ENABLED=false">>) => f[i].op \in {"ENV", "var"}

\* wire_backup_schedules.py.
LEMMA BackupTells ==
    ASSUME Formed(file), WireBackupSchedule, OnlySaidByEnv(file)
    PROVE  SameLines(file, file')
<1> DEFINE wired == WithBackupEnabled(file)
           late == AfterUsers(wired, FirstPort(file), BackupVars)
           fresh == AfterUsers(file, {FirstLine(file, "USER")}, BackupEnv)
<1>1. file' \in {wired, late, fresh}
    BY DEF WireBackupSchedule
<1>2. Trails(BackupEnv) /\ Trails(BackupVars)
    <2>1. {"SHIM_BACKUP_ENABLED=true", "SHIM_BACKUP_SCHEDULE", "SHIM_BACKUP_OUTPUT_DIR"} \subseteq ShimVariables
        BY DEF ShimVariables
    <2> QED
        BY <2>1, EnvBlockTrails DEF BackupEnv, BackupVars
<1>3. Reworded(file, wired)
    BY BackupReworded
<1>4. DOMAIN wired = DOMAIN file
    BY DEF WithBackupEnabled
<1>5. ASSUME NEW i \in DOMAIN file PROVE file[i].op \notin {"ENV", "var"} => wired[i].args = file[i].args
    <2> DEFINE was == Exec(<<"SHIM_BACKUP_ENABLED=false">>)
               now == Exec(<<"SHIM_BACKUP_ENABLED=true">>)
    <2>1. wired[i] = [file[i] EXCEPT !.args = IF @ = was THEN now ELSE @]
        BY DEF WithBackupEnabled
    <2>2. file[i] \in TextLines
        BY FormedLines
    <2>3. file[i].args = was => file[i].op \in {"ENV", "var"}
        BY DEF OnlySaidByEnv
    <2> HIDE DEF was, now, wired
    <2>4. file[i].args # was => wired[i].args = file[i].args
        BY <2>1, <2>2 DEF TextLines
    <2> QED
        BY <2>3, <2>4
<1> HIDE DEF wired
<1>6. Formed(wired)
    BY <1>3, RewordedKeeps DEF Keeps
<1>7. \A i \in DOMAIN file : wired[i].op = file[i].op /\ wired[i].more = file[i].more
    BY <1>3 DEF Reworded
<1>8. SameLines(file, wired)
    <2>1. \A i \in DOMAIN file : file[i].op \in Kinds => Matches(file[i], wired[i])
        BY <1>5, <1>7 DEF Matches, Kinds
    <2> QED
        BY <1>4, <1>7, <2>1, RewordedSame
<1>9. SameLines(wired, late)
    <2>1. \A i \in DOMAIN wired : i \in FirstPort(file) => wired[i].op # "blank"
        BY <1>4, <1>7 DEF FirstPort, Ports, LinesOf
    <2> QED
        BY <1>2, <1>6, <2>1, AfterUsersKeeps
<1>10. SameLines(file, fresh)
    <2>1. \A i \in DOMAIN file : i \in {FirstLine(file, "USER")} => file[i].op # "blank"
        <3> SUFFICES ASSUME NEW i \in DOMAIN file, i = FirstLine(file, "USER") PROVE file[i].op # "blank"
            OBVIOUS
        <3>1. DOMAIN file = 1..Len(file) /\ Len(file) \in Nat
            BY FormedLines
        <3>2. LinesOf(file, "USER") # {}
            BY <3>1 DEF FirstLine
        <3>3. LinesOf(file, "USER") \in SUBSET (1..Len(file))
            BY <3>1 DEF LinesOf
        <3>4. i \in LinesOf(file, "USER")
            BY <3>1, <3>2, <3>3, MinLine DEF FirstLine
        <3> QED
            BY <3>4 DEF LinesOf
    <2> QED
        BY <1>2, <2>1, AfterUsersKeeps
<1> HIDE DEF late, fresh
<1> QED
    BY <1>1, <1>8, <1>9, <1>10, SameLinesTransitive

\* wire_observability.py.
LEMMA ObservabilityTells ==
    ASSUME Formed(file), WireObservability
    PROVE  SameLines(file, file')
BY ObservedGrows DEF WireObservability, Grows

\* enforce_nonroot.py.
LEMMA EnforceNonrootTells ==
    ASSUME Formed(file), EnforceNonroot
    PROVE  SameLines(file, file')
<1>1. file \in Seq(TextLines) /\ DOMAIN file = 1..Len(file) /\ Len(file) \in Nat
    BY FormedLines
<1>2. PICK q \in 1..(Len(file) + 1) : q = FindInsertPoint(file)
    BY <1>1, InsertPoint
<1>3. NonrootUser \in TextLines /\ NonrootUser.op = "USER"
    BY NonrootUserTyped
<1> DEFINE n == Len(file)
           e == NonrootUser
           g == InsertAt(file, q, e)
<1>4. file' = g /\ e \in TextLines
    BY <1>2, <1>3 DEF EnforceNonroot
<1> HIDE DEF e
<1>5. /\ g \in Seq(TextLines) /\ Len(g) = n + 1
      /\ \A w \in 1..(n + 1) : g[w] = IF w < q THEN file[w] ELSE IF w = q THEN e ELSE file[w - 1]
    <2>1. ASSUME NEW line \in TextLines
          PROVE  LET h == InsertAt(file, q, line)
                 IN  /\ h \in Seq(TextLines) /\ Len(h) = Len(file) + 1
                     /\ \A w \in 1..(Len(file) + 1) :
                          h[w] = IF w < q THEN file[w] ELSE IF w = q THEN line ELSE file[w - 1]
        <3>1. file \in Seq(TextLines) /\ q \in 1..(Len(file) + 1)
            BY <1>1
        <3> QED
            BY <3>1, OneMoreLine
    <2> QED
        BY <1>4, <2>1
<1> HIDE DEF g
<1>6. n \in Nat /\ q \in Nat
    BY <1>1
<1>7. g[q].op \notin Kinds
    <2>1. g[q] = e
        BY <1>5, <1>6
    <2> QED
        BY <1>3, <2>1 DEF e, Kinds
<1>8. ASSUME NEW w \in DOMAIN file, w < q PROVE Matches(file[w], g[w])
    <2>1. g[w] = file[w]
        BY <1>1, <1>5, <1>6, <1>8
    <2> QED
        BY <2>1 DEF Matches
<1>9. ASSUME NEW w \in DOMAIN file, q <= w PROVE Matches(file[w], g[w + 1])
    <2>1. w + 1 \in 1..(n + 1) /\ ~(w + 1 < q) /\ w + 1 # q /\ (w + 1) - 1 = w
        BY <1>1, <1>6, <1>9
    <2>2. g[w + 1] = file[w]
        BY <1>5, <2>1
    <2> QED
        BY <2>2 DEF Matches
<1>10. SameLines(file, g)
    BY <1>1, <1>5, <1>7, <1>8, <1>9, InsertedSame
<1> QED
    BY <1>4, <1>10

\* remove_healthcheck.py, of a health check read for what it is: the CMD that goes is its own.
LEMMA RemovalSays ==
    ASSUME Formed(file), Parses(file), Formed(file'), Parses(file'),
           RemoveHealthChecks, ~HealthCheckIsMisread(file)
    PROVE  SaysSame(file, file')
<1> DEFINE f == file
           n == Len(f)
           removed == UNION {HealthCheckLines(f, i) : i \in LinesOf(f, "HEALTHCHECK")}
           piece == Without(f, removed)
           g == Rewrite(f, piece)
<1>1. f \in Seq(TextLines) /\ n \in Nat \ {0} /\ DOMAIN f = 1..n
    BY FormedLines
<1>2. file' = g
    <2>1. [i \in DOMAIN file |-> IF i \in removed THEN <<>> ELSE <<file[i]>>] = piece
        BY <1>1 DEF Without
    <2>2. file' = Rewrite(file, [i \in DOMAIN file |-> IF i \in removed THEN <<>> ELSE <<file[i]>>])
        BY DEF RemoveHealthChecks
    <2> QED
        BY <2>1, <2>2
<1>3. /\ piece \in Seq(Seq(TextLines)) /\ DOMAIN piece = 1..n
      /\ \A i \in 1..n : /\ i \in removed => DOMAIN piece[i] = {}
                         /\ i \notin removed => DOMAIN piece[i] = {1} /\ piece[i][1] = f[i]
    <2>1. f \in Seq(TextLines)
        BY <1>1
    <2> HIDE DEF removed, f
    <2> QED
        BY <2>1, WithoutTyped
<1>4. g \in Seq(TextLines) /\ \E at : Woven(g, piece, at)
    <2>1. g \in Seq(TextLines) /\ \E start : LaidOut(g, piece, start)
        BY WithoutLaidOut
    <2> HIDE DEF g, piece
    <2> QED
        BY <1>3, <2>1, LaidOutWoven
<1>5. \A k : k \in removed <=> \E h \in LinesOf(f, "HEALTHCHECK") : k \in HealthCheckLines(f, h)
    OBVIOUS
<1>6. Formed(f) /\ Parses(f) /\ Formed(g) /\ Parses(g) /\ ~HealthCheckIsMisread(f)
    BY <1>2
<1> HIDE DEF f, n, removed, piece, g
<1>7. PICK at : Woven(g, piece, at)
    BY <1>4
<1>8. /\ \A i \in 1..n : i \notin removed => at[i][1] \in DOMAIN g /\ g[at[i][1]] = f[i]
      /\ \A i, j \in 1..n : i \notin removed /\ j \notin removed /\ i < j => at[i][1] < at[j][1]
      /\ \A w \in DOMAIN g : \E i \in 1..n : i \notin removed /\ w = at[i][1]
    <2>1. ASSUME NEW i \in 1..n, i \notin removed PROVE at[i][1] \in DOMAIN g /\ g[at[i][1]] = f[i]
        <3>1. 1 \in DOMAIN piece[i] /\ piece[i][1] = f[i] /\ i \in DOMAIN piece
            BY <1>3, <2>1
        <3> QED
            BY <1>7, <3>1 DEF Woven
    <2>2. ASSUME NEW i \in 1..n, NEW j \in 1..n, i \notin removed, j \notin removed, i < j
          PROVE  at[i][1] < at[j][1]
        <3>1. 1 \in DOMAIN piece[i] /\ 1 \in DOMAIN piece[j] /\ i \in DOMAIN piece /\ j \in DOMAIN piece
            BY <1>3, <2>2
        <3> QED
            BY <1>7, <2>2, <3>1 DEF Woven
    <2>3. ASSUME NEW w \in DOMAIN g PROVE \E i \in 1..n : i \notin removed /\ w = at[i][1]
        <3>1. PICK i \in DOMAIN piece : \E k \in DOMAIN piece[i] : w = at[i][k]
            BY <1>7 DEF Woven
        <3>2. PICK k \in DOMAIN piece[i] : w = at[i][k]
            BY <3>1
        <3>3. i \in 1..n /\ i \notin removed /\ k = 1
            BY <1>3, <3>2
        <3> QED
            BY <3>2, <3>3
    <2> QED
        BY <2>1, <2>2, <2>3
\* Every HEALTHCHECK goes, and with it the CMD of each.
<1>9. \A i \in 1..n : f[i].op = "HEALTHCHECK" => i \in removed
    BY <1>1, <1>5 DEF LinesOf, HealthCheckLines
<1>10. ASSUME NEW i \in 1..n, i \in removed, f[i].op # "HEALTHCHECK" PROVE f[i].op = "CMD" /\ Inside(f, i)
    <2>1. PICK h \in LinesOf(f, "HEALTHCHECK") : i \in HealthCheckLines(f, h)
        BY <1>5, <1>10
    <2>2. h \in DOMAIN f /\ f[h].op = "HEALTHCHECK"
        BY <2>1 DEF LinesOf
    <2>3. /\ Continues(f, h, h + 1) /\ f[h + 1].op = "CMD"
          /\ \A k \in HealthCheckLines(f, h) : k = h \/ k = h + 1
        BY <1>6, <2>1, HealthCheckRead
    <2>4. i = h + 1
        BY <1>10, <2>1, <2>2, <2>3
    <2>5. Inside(f, i)
        <3>1. i \in DOMAIN f /\ f[i].op # "blank" /\ Continues(f, h, i)
            BY <1>1, <2>3, <2>4
        <3> QED
            BY <1>1, <2>2, <3>1, InsideContinues
    <2> QED
        BY <2>3, <2>4, <2>5
<1>11. ASSUME NEW i \in 1..n, i \notin removed, f[i].op \in {"FROM", "COPY", "CMD", "ENTRYPOINT"}
       PROVE  ~Inside(f, i)
    <2> SUFFICES ASSUME Inside(f, i) PROVE FALSE
        OBVIOUS
    <2>1. f[i].op = "CMD" /\ i \in DOMAIN f
        BY <1>1, <1>6, <1>11, NeverInside
    <2>2. PICK p \in DOMAIN f : Continues(f, p, i)
        BY <1>1, <2>1, InsideContinues
    <2>3. Local(f)
        BY <1>6, FormedParses
    <2>4. f[p].op = "HEALTHCHECK"
        BY <2>1, <2>2, <2>3 DEF Local, GoesOnWith
    <2>5. p \in LinesOf(f, "HEALTHCHECK")
        BY <2>4 DEF LinesOf
    <2>6. p + 1 \in DOMAIN f /\ Continues(f, p, p + 1) /\ f[p + 1].op = "CMD"
        BY <1>6, <2>5, HealthCheckRead
    <2>7. ~(p + 1 < i)
        <3> SUFFICES ASSUME p + 1 < i PROVE FALSE
            OBVIOUS
        <3>1. p + 1 \in (p + 1)..(i - 1)
            BY <1>1
        <3>2. f[p + 1].op = "blank"
            BY <2>2, <3>1 DEF Continues
        <3> QED
            BY <2>6, <3>2
    <2>8. i = p + 1
        <3>1. p < i
            BY <2>2 DEF Continues
        <3> QED
            BY <1>1, <2>7, <3>1
    <2>9. \A j \in (p + 1)..(i - 1) : f[j].more
        BY <1>1, <2>8
    <2>10. i \in HealthCheckLines(f, p)
        BY <1>1, <2>1, <2>8, <2>9 DEF HealthCheckLines
    <2> QED
        BY <1>5, <1>11, <2>5, <2>10
<1>12. ASSUME NEW w \in DOMAIN g, g[w].op \in {"FROM", "COPY", "CMD", "ENTRYPOINT"} PROVE ~Inside(g, w)
    <2> SUFFICES ASSUME Inside(g, w) PROVE FALSE
        OBVIOUS
    <2>1. w \in LinesOf(g, "CMD")
        BY <1>6, <1>12, NeverInside DEF LinesOf
    <2>2. PICK h \in LinesOf(g, "HEALTHCHECK") : TRUE
        BY <1>6, <2>1, InsideIsProbe DEF Probe
    <2>3. h \in DOMAIN g /\ g[h].op = "HEALTHCHECK"
        BY DEF LinesOf
    <2>4. PICK i \in 1..n : i \notin removed /\ h = at[i][1]
        BY <1>8, <2>3
    <2>5. g[h] = f[i]
        BY <1>8, <2>4
    <2> QED
        BY <1>9, <2>3, <2>4, <2>5
<1> DEFINE to == [i \in Said(f) |-> at[i][1]]
<1>13. \A i \in Said(f) : to[i] = at[i][1]
    OBVIOUS
<1> HIDE DEF to
<1>14. \A i : i \in Said(f) <=> i \in 1..n /\ i \notin removed /\ f[i].op \in {"FROM", "COPY", "CMD", "ENTRYPOINT"}
    BY <1>1, <1>10, <1>11 DEF Said
<1>15. \A w : w \in Said(g) <=> w \in DOMAIN g /\ g[w].op \in {"FROM", "COPY", "CMD", "ENTRYPOINT"}
    BY <1>12 DEF Said
<1>16. \A i \in Said(f) : to[i] \in Said(g) /\ Matches(f[i], g[to[i]])
    BY <1>8, <1>13, <1>14, <1>15 DEF Matches
<1>17. \A i, j \in Said(f) : i < j => to[i] < to[j]
    BY <1>8, <1>13, <1>14
<1>18. \A w \in Said(g) : \E i \in Said(f) : w = to[i]
    <2> SUFFICES ASSUME NEW w \in Said(g) PROVE \E i \in Said(f) : w = to[i]
        OBVIOUS
    <2>1. w \in DOMAIN g /\ g[w].op \in {"FROM", "COPY", "CMD", "ENTRYPOINT"}
        BY <1>15
    <2>2. PICK i \in 1..n : i \notin removed /\ w = at[i][1]
        BY <1>8, <2>1
    <2>3. g[w] = f[i]
        BY <1>8, <2>2
    <2>4. i \in Said(f)
        BY <1>14, <2>1, <2>2, <2>3
    <2> QED
        BY <1>13, <2>2, <2>4
<1>19. Paired(f, Said(f), g, Said(g), to)
    BY <1>16, <1>17, <1>18 DEF Paired
<1>20. SaysSame(f, g)
    BY <1>19 DEF SaysSame
<1> QED
    BY <1>2, <1>20 DEF f

-----------------------------------------------------------------------------
(* All scripts.                                                            *)

\* What a step of any script keeps.
LEMMA WiringStep ==
    ASSUME WellWritten(file, known), [WiringNext]_wiringVars
    PROVE  /\ WellWritten(file', known')
           /\ Parses(file) =>
                \/ Parses(file')
                \/ EnforceNonroot /\ UserLandsInHealthCheck(file)
                \/ WireBackupSchedule /\ Sets(file, "SHIM_BACKUP_ENABLED=false")
                \/ WireObservability /\ \E i \in ShimEnvBlocks(file) : file[BlockEnd(file, i)].more
                \/ RemoveHealthChecks /\ HealthCheckIsMisread(file)
           /\ Parses(file) /\ Nonroot(file) =>
                \/ Nonroot(file')
                \/ RemoveHealthChecks /\ HealthCheckIsMisread(file)
                \/ FixBinaryPaths /\ "db" \in known.tables
           /\ WireHealthShim \/ CheckDockerfile(file) => CheckDockerfile(file') \/ RemoveHealthChecks
<1>1. Formed(file) /\ known \in Facts
    BY WellWrittenFormed
<1>2. ASSUME Formed(file'), NamesKept(file, file', known), known' = known
      PROVE  WellWritten(file', known')
    <2>1. WellWritten(file', known)
        BY <1>2, StillWellWritten
    <2> QED
        BY <1>2, <2>1
<1>3. ASSUME WiringKept(file, file', known), known' = known
      PROVE  /\ WellWritten(file', known')
             /\ Parses(file) /\ Nonroot(file) => Nonroot(file')
             /\ CheckDockerfile(file) => CheckDockerfile(file')
    <2>1. Formed(file') /\ NamesKept(file, file', known) /\ (CheckDockerfile(file) => CheckDockerfile(file'))
        BY <1>3 DEF WiringKept, Keeps
    <2>2. NoUserInside(file) => (Nonroot(file) => Nonroot(file'))
        BY <1>3 DEF WiringKept, Keeps
    <2>3. Parses(file) => NoUserInside(file)
        BY ParsesNoUserInside
    <2> QED
        BY <1>2, <1>3, <2>1, <2>2, <2>3
<1>4. CASE WireHealthShim
    <2>1. known' = known
        BY <1>4 DEF WireHealthShim
    <2>2. /\ Formed(file') /\ NamesKept(file, file', known)
          /\ CheckDockerfile(file')
          /\ Parses(file) => Parses(file')
          /\ Parses(file) /\ Nonroot(file) => Nonroot(file')
        BY <1>1, <1>4, WireHealthShimKeeps
    <2> QED
        BY <1>2, <2>1, <2>2
<1>5. WireHealthShim => CheckDockerfile(file')
    BY <1>1, WireHealthShimKeeps
<1>6. CASE WireDbShim
    <2>1. known' = known
        BY <1>6 DEF WireDbShim
    <2>2. WiringKept(file, file', known) /\ (Parses(file) => Parses(file'))
        BY <1>1, <1>6, DbShimKeeps
    <2> QED
        BY <1>3, <1>5, <2>1, <2>2
<1>7. CASE WireBackupSchedule
    <2>1. known' = known
        BY <1>7 DEF WireBackupSchedule
    <2>2. /\ WiringKept(file, file', known)
          /\ Parses(file) => Parses(file') \/ Sets(file, "SHIM_BACKUP_ENABLED=false")
        BY <1>1, <1>7, BackupKeeps
    <2> QED
        BY <1>3, <1>7, <1>5, <2>1, <2>2
<1>8. CASE WireObservability
    <2>1. known' = known
        BY <1>8 DEF WireObservability
    <2>2. /\ WiringKept(file, file', known)
          /\ Parses(file) => Parses(file') \/ \E i \in ShimEnvBlocks(file) : file[BlockEnd(file, i)].more
        BY <1>1, <1>8, ObservabilityKeeps
    <2> QED
        BY <1>3, <1>8, <1>5, <2>1, <2>2
<1>9. CASE EnforceNonroot
    <2>1. known' = known
        BY <1>9 DEF EnforceNonroot
    <2>2. /\ Formed(file') /\ NamesKept(file, file', known)
          /\ CheckDockerfile(file) => CheckDockerfile(file')
          /\ Parses(file) => Parses(file') \/ UserLandsInHealthCheck(file)
          /\ ~Nonroot(file)
        BY <1>1, <1>9, EnforceNonrootKeeps
    <2> QED
        BY <1>2, <1>9, <1>5, <2>1, <2>2
<1>10. CASE FixEntrypoint
    <2>1. known' = known
        BY <1>10 DEF FixEntrypoint
    <2>2. WiringKept(file, file', known) /\ (Parses(file) => Parses(file'))
        BY <1>10, FixEntrypointKeeps
    <2> QED
        BY <1>3, <1>5, <2>1, <2>2
<1>11. CASE FixPattern
    <2>1. known' = known
        BY <1>11 DEF FixPattern
    <2>2. WiringKept(file, file', known) /\ (Parses(file) => Parses(file'))
        BY <1>1, <1>11, FixPatternKeeps
    <2> QED
        BY <1>3, <1>5, <2>1, <2>2
<1>12. CASE RemoveHealthChecks
    <2>1. known' = known
        BY <1>12 DEF RemoveHealthChecks
    <2>2. /\ Formed(file') /\ NamesKept(file, file', known)
          /\ Parses(file) => Parses(file') \/ HealthCheckIsMisread(file)
          /\ Parses(file) /\ Nonroot(file) => Nonroot(file') \/ HealthCheckIsMisread(file)
        BY <1>1, <1>12, RemoveHealthChecksKeeps
    <2> QED
        BY <1>2, <1>12, <2>1, <2>2
<1>13. CASE FixStub
    <2>1. known' = known
        BY <1>13 DEF FixStub
    <2>2. /\ Formed(file') /\ NamesKept(file, file', known)
          /\ CheckDockerfile(file) => CheckDockerfile(file')
          /\ Parses(file) => Parses(file')
          /\ Parses(file) /\ Nonroot(file) => Nonroot(file')
        BY <1>1, <1>13, FixStubKeeps
    <2> QED
        BY <1>2, <1>5, <2>1, <2>2
<1>14. CASE FixBinaryPaths
    <2>1. known' = known
        BY <1>14 DEF FixBinaryPaths
    <2>2. /\ Formed(file') /\ NamesKept(file, file', known)
          /\ CheckDockerfile(file) => CheckDockerfile(file')
          /\ Parses(file) => Parses(file')
          /\ Parses(file) => Nonroot(file') \/ "db" \in known.tables
        BY <1>1, <1>14, FixBinaryPathsKeeps
    <2> QED
        BY <1>2, <1>14, <1>5, <2>1, <2>2
<1>15. CASE UNCHANGED wiringVars
    <2>1. file' = file /\ known' = known
        BY <1>15 DEF wiringVars
    <2> QED
        BY <1>5, <2>1
<1> QED
    BY <1>4, <1>6, <1>7, <1>8, <1>9, <1>10, <1>11, <1>12, <1>13, <1>14, <1>15 DEF WiringNext

\* Whatever scripts run on them, and in whatever order, the Dockerfiles keep
\* what the committed ones have in common.
THEOREM WiringWellWritten == WiringSpec => [](WellWritten(file, known))
<1>1. WiringInit => WellWritten(file, known)
    <2> SUFFICES ASSUME NEW original \in Originals, file = original.file, known = original.known
                 PROVE  WellWritten(file, known)
        BY DEF WiringInit
    <2> QED
        BY OriginalsAssumption
<1>2. WellWritten(file, known) /\ [WiringNext]_wiringVars => (WellWritten(file, known))'
    BY WiringStep
<1> QED
    BY <1>1, <1>2, PTL DEF WiringSpec

\* StillParses: for whatever Dockerfiles the scripts begin with and however long they
\* run one after the other, no script makes a Dockerfile that Docker parses one that it
\* cannot, except by the four steps StillParses names.  It rests on WiringWellWritten,
\* since a line that dangled before would be broken by one added after it.
THEOREM WiringStillParses == WiringSpec => StillParses
<1>1. WellWritten(file, known) /\ [WiringNext]_wiringVars =>
        [Parses(file) =>
            \/ Parses(file')
            \/ EnforceNonroot /\ UserLandsInHealthCheck(file)
            \/ WireBackupSchedule /\ Sets(file, "SHIM_BACKUP_ENABLED=false")
            \/ WireObservability /\ \E i \in ShimEnvBlocks(file) : file[BlockEnd(file, i)].more
            \/ RemoveHealthChecks /\ HealthCheckIsMisread(file)]_wiringVars
    BY WiringStep
<1> QED
    BY <1>1, WiringWellWritten, PTL DEF WiringSpec, StillParses

\* NonrootKept: for whatever Dockerfiles the scripts begin with, an image that runs as
\* 65532 goes on doing so, except where its USER line is removed with a health check
\* that was misread, or fix-binary-paths finds that it needs root.
THEOREM WiringNonrootKept == WiringSpec => NonrootKept
<1>1. WellWritten(file, known) /\ [WiringNext]_wiringVars =>
        [Parses(file) /\ Nonroot(file) =>
            \/ Nonroot(file')
            \/ RemoveHealthChecks /\ HealthCheckIsMisread(file)
            \/ FixBinaryPaths /\ "db" \in known.tables]_wiringVars
    BY WiringStep
<1> QED
    BY <1>1, WiringWellWritten, PTL DEF WiringSpec, NonrootKept

\* WiringAccepted: what wire_health_shim.py writes, whatever the Dockerfile it begins
\* with, is what verify_shim_wiring.py accepts, and it goes on accepting it whatever
\* scripts run next, until the health check is removed.
THEOREM WiringAlwaysAccepted == WiringSpec => WiringAccepted
<1>1. WellWritten(file, known) /\ [WiringNext]_wiringVars =>
        [WireHealthShim \/ CheckDockerfile(file) => CheckDockerfile(file') \/ RemoveHealthChecks]_wiringVars
    BY WiringStep
<1> QED
    BY <1>1, WiringWellWritten, PTL DEF WiringSpec, WiringAccepted

\* The steps that write nothing about what the container runs.
LeavesProgram ==
    \/ WireDbShim \/ WireObservability \/ EnforceNonroot
    \/ WireBackupSchedule /\ OnlySaidByEnv(file)
    \/ RemoveHealthChecks /\ ~HealthCheckIsMisread(file)

\* They leave the program and its arguments as they were.
LEMMA ProgramLeft ==
    ASSUME WellWritten(file, known), WiringNext, Parses(file), Parses(file'), LeavesProgram
    PROVE  Starts(file') = Starts(file)
<1>1. Formed(file)
    BY WellWrittenFormed
<1>2. WellWritten(file', known')
    BY WiringStep
<1>3. Formed(file')
    BY <1>2, WellWrittenFormed
<1>4. SameLines(file, file') => SaysSame(file, file')
    BY <1>1, <1>3, SameLinesSay
<1>5. SaysSame(file, file')
    <2>1. CASE WireDbShim
        BY <1>1, <1>4, <2>1, DbShimTells
    <2>2. CASE WireObservability
        BY <1>1, <1>4, <2>2, ObservabilityTells
    <2>3. CASE EnforceNonroot
        BY <1>1, <1>4, <2>3, EnforceNonrootTells
    <2>4. CASE WireBackupSchedule /\ OnlySaidByEnv(file)
        BY <1>1, <1>4, <2>4, BackupTells
    <2>5. CASE RemoveHealthChecks /\ ~HealthCheckIsMisread(file)
        BY <1>1, <1>3, <2>5, RemovalSays
    <2> QED
        BY <2>1, <2>2, <2>3, <2>4, <2>5 DEF LeavesProgram
<1> QED
    BY <1>1, <1>3, <1>5, SaidDecides

\* The variables, the USER and the stage the scripts write, and a health check read
\* for what it is that they remove, leave the program of the container and its
\* arguments as they were: a stronger ProgramKept for these five scripts, which
\* does not ask whether the program was the image's own.
THEOREM WiringLeavesProgram ==
    WiringSpec => [][Parses(file) /\ Parses(file') /\ LeavesProgram => Starts(file') = Starts(file)]_wiringVars
<1>1. WellWritten(file, known) /\ [WiringNext]_wiringVars =>
        [Parses(file) /\ Parses(file') /\ LeavesProgram => Starts(file') = Starts(file)]_wiringVars
    BY ProgramLeft
<1> QED
    BY <1>1, WiringWellWritten, PTL DEF WiringSpec

-----------------------------------------------------------------------------
(* CVEs.                                                                   *)
\* What was overdue at the start stays so while it is published.
HeldOverdue ==
    \A p \in sla.held : p[2] \in Found(p[1]) /\ p[2] \in Dated /\ Overdue(p, Fix)
\* It is still to be judged, or was reported, or its image could not be scanned.
HeldAccounted ==
    \A p \in sla.held : \/ p[1] \in sla.todo \/ p[1] \in sla.at
                        \/ p[1] \in sla.blind \/ p \in sla.breaches
\* The check is at one image at most.
OneAtATime == \A i, j \in sla.at : i = j
\* The invariant of OverdueIsReported.
SlaInv ==
    /\ contents \in [Images -> SUBSET Cves] /\ age \in [Cves -> Nat] /\ sla \in SlaRuns
    /\ OneAtATime /\ HeldOverdue /\ HeldAccounted

\* The fields of the SLA check.
LEMMA SlaTyped ==
    ASSUME NEW on \in BOOLEAN, NEW todo \in SUBSET Images, NEW at \in SUBSET Images,
           NEW seen \in SUBSET Pairs, NEW breaches \in SUBSET Pairs,
           NEW held \in SUBSET Pairs, NEW blind \in SUBSET Images
    PROVE  SlaRun(on, todo, at, seen, breaches, held, blind) \in SlaRuns
BY DEF SlaRun, SlaRuns

\* A pair is an image and a CVE.
LEMMA PairTyped == \A p \in Pairs : p[1] \in Images /\ p[2] \in Cves
BY DEF Pairs

\* Past its fix threshold, a CVE is past the threshold that is asked for.
LEMMA OverdueIsBreach ==
    ASSUME NEW p \in Pairs, age \in [Cves -> Nat], p[2] \in Dated, Overdue(p, Fix)
    PROVE  Breach(p)
<1>1. Tier[p[1]] \in Tiers /\ p[2] \in Cves /\ Severity[p[2]] \in Rated
    BY PairTyped, CvesConstants DEF Overdue, HasThresholds
<1> DEFINE t == Tier[p[1]]
           s == Severity[p[2]]
<1>2. Acknowledge[t][s] \in Nat /\ Fix[t][s] \in Nat /\ Acknowledge[t][s] < Fix[t][s]
    BY <1>1, CvesConstants
<1>3. age[p[2]] \in Nat /\ age[p[2]] > Fix[t][s]
    BY <1>1 DEF Overdue
<1>4. age[p[2]] > Acknowledge[t][s]
    BY <1>2, <1>3
<1>. QED BY <1>1, <1>4 DEF Breach, HasFix, Overdue, HasThresholds

\* The invariant holds before the first check.
LEMMA SlaInit == CveInit => SlaInv
<1> SUFFICES ASSUME CveInit PROVE SlaInv
    OBVIOUS
<1>1. sla = SlaRun(FALSE, {}, {}, {}, {}, {}, {})
    BY DEF CveInit, NoSla
<1>2. sla \in SlaRuns
    BY <1>1, SlaTyped
<1>3. sla.held = {} /\ sla.at = {}
    BY <1>1 DEF SlaRun
<1>4. contents \in [Images -> SUBSET Cves] /\ age \in [Cves -> Nat]
    BY DEF CveInit
<1>. QED BY <1>2, <1>3, <1>4 DEF SlaInv, OneAtATime, HeldOverdue, HeldAccounted

\* CVEs only grow older.
LEMMA SlaAge ==
    ASSUME SlaInv, Tick \/ \E c \in Cves : Disclose(c)
    PROVE  SlaInv'
<1> USE DEF SlaInv
<1>1. UNCHANGED <<contents, sla>> /\ age' \in [Cves -> Nat]
    BY DEF Tick, Disclose
<1>2. \A c \in Cves : age[c] > 0 => age'[c] >= age[c] /\ age'[c] > 0
    BY DEF Tick, Disclose
<1>3. ASSUME NEW p \in sla.held
      PROVE  p[2] \in Found(p[1])' /\ p[2] \in Dated /\ Overdue(p, Fix)'
    <2>1. p \in Pairs /\ p[1] \in Images /\ p[2] \in Cves
        BY PairTyped DEF SlaRuns
    <2>2. age[p[2]] > 0 /\ p[2] \in contents[p[1]] /\ p[2] \in Dated /\ Overdue(p, Fix)
        BY DEF HeldOverdue, Found
    <2>3. Tier[p[1]] \in Tiers /\ Fix[Tier[p[1]]][Severity[p[2]]] \in Nat
        BY <2>1, <2>2, CvesConstants DEF Overdue, HasThresholds
    <2>4. age[p[2]] \in Nat /\ age'[p[2]] \in Nat /\ age'[p[2]] >= age[p[2]]
        BY <1>1, <1>2, <2>1, <2>2
    <2>5. age'[p[2]] > Fix[Tier[p[1]]][Severity[p[2]]]
        BY <2>2, <2>3, <2>4 DEF Overdue
    <2>. QED BY <1>1, <1>2, <2>1, <2>2, <2>3, <2>5 DEF Found, Overdue, HasThresholds
<1>. QED BY <1>1, <1>3 DEF OneAtATime, HeldOverdue, HeldAccounted

\* What a new publication has lost is no longer held.
LEMMA SlaRepublish ==
    ASSUME SlaInv, NEW i \in Images, Republish(i)
    PROVE  SlaInv'
<1> USE DEF SlaInv
<1>1. PICK new \in SUBSET Cves :
        /\ contents' = [contents EXCEPT ![i] = new]
        /\ sla' = [sla EXCEPT !.held = {p \in sla.held : p[1] = i => p[2] \in new}]
        /\ age' = age
    BY DEF Republish
<1>2. /\ sla' \in SlaRuns /\ sla'.held = {p \in sla.held : p[1] = i => p[2] \in new}
      /\ sla'.todo = sla.todo /\ sla'.at = sla.at /\ sla'.blind = sla.blind
      /\ sla'.breaches = sla.breaches
    BY <1>1 DEF SlaRuns
<1>3. ASSUME NEW p \in sla'.held
      PROVE  p[2] \in Found(p[1])' /\ p[2] \in Dated /\ Overdue(p, Fix)'
    <2>1. p \in sla.held /\ p[1] \in Images /\ (p[1] = i => p[2] \in new)
        BY <1>2, PairTyped DEF SlaRuns
    <2>2. p[2] \in contents'[p[1]]
        BY <1>1, <2>1 DEF HeldOverdue, Found
    <2>. QED BY <1>1, <2>1, <2>2 DEF HeldOverdue, Found, Overdue, HasThresholds
<1>. QED BY <1>1, <1>2, <1>3 DEF OneAtATime, HeldOverdue, HeldAccounted

\* One image after another is scanned twice and judged.
LEMMA SlaScan ==
    ASSUME SlaInv, NEW i \in Images, ScanToCount(i) \/ CheckSlaBreaches(i)
    PROVE  SlaInv'
<1> USE DEF SlaInv
<1>0. UNCHANGED <<contents, age>>
    BY DEF ScanToCount, CheckSlaBreaches
<1>1. /\ sla.todo \in SUBSET Images /\ sla.at \in SUBSET Images /\ sla.seen \in SUBSET Pairs
      /\ sla.breaches \in SUBSET Pairs /\ sla.held \in SUBSET Pairs /\ sla.blind \in SUBSET Images
    BY DEF SlaRuns
<1>2. Found(i) \subseteq Cves
    BY DEF Found
<1>3. CASE ScanToCount(i)
    <2>1. PICK found \in {Found(i), {}} :
            sla' = SlaRun(TRUE, sla.todo \ {i}, {i}, sla.seen \cup ({i} \X found),
                          sla.breaches, sla.held, sla.blind)
        BY <1>3 DEF ScanToCount
    <2>2. sla.seen \cup ({i} \X found) \in SUBSET Pairs
        BY <1>1, <1>2 DEF Pairs
    <2>3. sla' \in SlaRuns
        BY <1>1, <2>1, <2>2, SlaTyped
    <2>4. /\ sla'.todo = sla.todo \ {i} /\ sla'.at = {i} /\ sla'.held = sla.held
          /\ sla'.breaches = sla.breaches /\ sla'.blind = sla.blind /\ sla.at = {}
        BY <1>3, <2>1 DEF SlaRun, ScanToCount
    <2>. QED BY <1>0, <2>3, <2>4
         DEF OneAtATime, HeldOverdue, HeldAccounted, Found, Overdue, HasThresholds
<1>4. CASE CheckSlaBreaches(i)
    <2>1. sla.at = {i}
        BY <1>4 DEF CheckSlaBreaches, OneAtATime
    <2>2. CASE sla' = SlaRun(TRUE, sla.todo, {}, sla.seen,
                             sla.breaches \cup BreachesOf(i, Found(i)), sla.held, sla.blind)
        <3>1. sla.breaches \cup BreachesOf(i, Found(i)) \in SUBSET Pairs
            BY <1>1, <1>2 DEF BreachesOf, Pairs
        <3>2. sla' \in SlaRuns
            BY <1>1, <2>2, <3>1, SlaTyped
        <3>3. /\ sla'.todo = sla.todo /\ sla'.at = {} /\ sla'.held = sla.held
              /\ sla'.breaches = sla.breaches \cup BreachesOf(i, Found(i))
              /\ sla'.blind = sla.blind
            BY <2>2 DEF SlaRun
        <3>4. ASSUME NEW p \in sla.held, p[1] = i PROVE p \in BreachesOf(i, Found(i))
            <4>1. p \in Pairs /\ p[2] \in Found(i) /\ Breach(p)
                BY <1>1, <3>4, OverdueIsBreach DEF HeldOverdue
            <4>. QED BY <3>4, <4>1 DEF BreachesOf, Pairs
        <3>. QED BY <1>0, <2>1, <3>2, <3>3, <3>4
             DEF OneAtATime, HeldOverdue, HeldAccounted, Found, Overdue, HasThresholds
    <2>3. CASE sla' = SlaRun(TRUE, sla.todo, {}, sla.seen, sla.breaches, sla.held,
                             sla.blind \cup {i})
        <3>1. sla' \in SlaRuns
            BY <1>1, <2>3, SlaTyped
        <3>2. /\ sla'.todo = sla.todo /\ sla'.at = {} /\ sla'.held = sla.held
              /\ sla'.breaches = sla.breaches /\ sla'.blind = sla.blind \cup {i}
            BY <2>3 DEF SlaRun
        <3>. QED BY <1>0, <2>1, <3>1, <3>2
             DEF OneAtATime, HeldOverdue, HeldAccounted, Found, Overdue, HasThresholds
    <2>. QED BY <1>4, <2>2, <2>3 DEF CheckSlaBreaches
<1>. QED BY <1>3, <1>4

\* Every step keeps it.
LEMMA SlaStep == SlaInv /\ [CveNext]_cveVars => SlaInv'
<1> SUFFICES ASSUME SlaInv, [CveNext]_cveVars PROVE SlaInv'
    OBVIOUS
<1>1. CASE StartSla
    <2> DEFINE h == {p \in FoundPairs : p[2] \in Dated /\ Overdue(p, Fix)}
    <2>1. sla' = SlaRun(TRUE, Images, {}, {}, {}, h, {}) /\ UNCHANGED <<contents, age>>
        BY <1>1 DEF StartSla
    <2>2. h \in SUBSET Pairs
        BY DEF FoundPairs
    <2>3. sla' \in SlaRuns
        BY <2>1, <2>2, SlaTyped
    <2>4. sla'.todo = Images /\ sla'.at = {} /\ sla'.held = h
        BY <2>1 DEF SlaRun
    <2>5. \A p \in h : p[1] \in Images /\ p[2] \in Found(p[1]) /\ p[2] \in Dated /\ Overdue(p, Fix)
        BY PairTyped DEF FoundPairs
    <2>. QED BY <2>1, <2>3, <2>4, <2>5
         DEF SlaInv, OneAtATime, HeldOverdue, HeldAccounted, Found, Overdue, HasThresholds
<1>2. CASE EndSla \/ CancelSla
    <2>1. sla' = SlaRun(FALSE, {}, {}, {}, {}, {}, {}) /\ UNCHANGED <<contents, age>>
        BY <1>2 DEF EndSla, CancelSla, NoSla
    <2>2. sla' \in SlaRuns /\ sla'.held = {} /\ sla'.at = {}
        BY <2>1, SlaTyped DEF SlaRun
    <2>. QED BY <2>1, <2>2 DEF SlaInv, OneAtATime, HeldOverdue, HeldAccounted
<1>3. CASE StartAuto \/ TimeOut \/ EndAuto \/ (\E i \in Images : ScanImage(i) \/ CreateRebuildPr(i))
           \/ UNCHANGED cveVars
    <2>1. UNCHANGED <<contents, age, sla>>
        BY <1>3 DEF StartAuto, TimeOut, EndAuto, ScanImage, CreateRebuildPr, cveVars
    <2>. QED BY <2>1
         DEF SlaInv, OneAtATime, HeldOverdue, HeldAccounted, Found, Overdue, HasThresholds
<1>. QED BY <1>1, <1>2, <1>3, SlaAge, SlaRepublish, SlaScan DEF CveNext

\* Whatever is disclosed, republished or fails to be scanned meanwhile.
THEOREM OverdueAlwaysReported == CveSpec => []OverdueIsReported
<1>1. SlaInv => OverdueIsReported
    BY DEF SlaInv, HeldAccounted, OverdueIsReported, SlaComplete
<1>. QED BY <1>1, SlaInit, SlaStep, PTL DEF CveSpec

-----------------------------------------------------------------------------
(* The register.                                                             *)

\* An image's results appear when it is scanned, whereupon its issue is filed.
AutoOrder ==
    /\ auto.todo \subseteq Priority
    /\ \A p \in auto.entries : p[1] \in Priority \ auto.todo
    /\ auto.created \subseteq Priority /\ auto.created \cap auto.todo = {}
    /\ auto.filing \subseteq Priority /\ auto.filing \cap auto.todo = {}
    /\ \A i \in auto.filing : ToFix(auto.entries, i) # {} /\ auto.filing = {i}

\* An image counted as having an issue needs one, and its issue names all.
CreatedFiled ==
    \A i \in auto.created : ToFix(auto.entries, i) # {} /\ ToFix(auto.entries, i) \subseteq issues

\* What was there at the start and still is, is found by the scan, which keeps
\* some severities.
RegisterHeld ==
    \A p \in auto.held :
        /\ p[2] \in Found(p[1])
        /\ \/ Severity[p[2]] \notin KeptSeverities
           \/ p[1] \in auto.todo \/ p \in auto.entries \/ p[1] \in auto.errors

\* The invariant of RegisterAccountsForAll.
AutoInv ==
    /\ contents \in [Images -> SUBSET Cves] /\ age \in [Cves -> Nat] /\ auto \in AutoRuns
    /\ AutoOrder /\ CreatedFiled /\ RegisterHeld

\* The fields of a run of auto-cve.
LEMMA AutoTyped ==
    ASSUME NEW on \in BOOLEAN, NEW todo \in SUBSET Images, NEW entries \in SUBSET Pairs,
           NEW errors \in SUBSET Images, NEW filing \in SUBSET Images,
           NEW created \in SUBSET Images, NEW held \in SUBSET Pairs
    PROVE  AutoRun(on, todo, entries, errors, filing, created, held) \in AutoRuns
BY DEF AutoRun, AutoRuns

\* The fields a run begins with.
LEMMA AutoFields ==
    ASSUME AutoInv
    PROVE  /\ auto.todo \in SUBSET Images /\ auto.entries \in SUBSET Pairs
           /\ auto.errors \in SUBSET Images /\ auto.filing \in SUBSET Images
           /\ auto.created \in SUBSET Images /\ auto.held \in SUBSET Pairs
BY DEF AutoInv, AutoRuns

\* It holds where no run is under way.
LEMMA NoAutoInv ==
    ASSUME contents' \in [Images -> SUBSET Cves], age' \in [Cves -> Nat], auto' = NoAuto
    PROVE  AutoInv'
<1>1. auto' \in AutoRuns
    BY AutoTyped DEF NoAuto
<1>2. /\ auto'.todo = {} /\ auto'.entries = {} /\ auto'.filing = {}
      /\ auto'.created = {} /\ auto'.held = {}
    BY DEF NoAuto, AutoRun
<1>. QED BY <1>1, <1>2 DEF AutoInv, AutoOrder, CreatedFiled, RegisterHeld

\* It holds before the first run.
LEMMA AutoInit == CveInit => AutoInv
<1> SUFFICES ASSUME CveInit PROVE AutoInv
    OBVIOUS
<1>1. auto \in AutoRuns
    BY AutoTyped DEF CveInit, NoAuto
<1>2. /\ auto.todo = {} /\ auto.entries = {} /\ auto.filing = {}
      /\ auto.created = {} /\ auto.held = {}
    BY DEF CveInit, NoAuto, AutoRun
<1>. QED BY <1>1, <1>2 DEF CveInit, AutoInv, AutoOrder, CreatedFiled, RegisterHeld

\* The world loses only what is no longer held.
LEMMA AutoWorld ==
    ASSUME AutoInv,
           Tick \/ (\E c \in Cves : Disclose(c)) \/ (\E i \in Images : Republish(i))
    PROVE  AutoInv'
<1> USE DEF AutoInv
<1>1. CASE Tick \/ \E c \in Cves : Disclose(c)
    <2>1. UNCHANGED <<contents, auto, issues>> /\ age' \in [Cves -> Nat]
        BY <1>1 DEF Tick, Disclose
    <2>2. \A c \in Cves : age[c] > 0 => age'[c] > 0
        BY <1>1 DEF Tick, Disclose
    <2>3. \A i \in Images : Found(i) \subseteq Found(i)'
        BY <2>1, <2>2 DEF Found
    <2>4. \A p \in auto.held : p[1] \in Images
        BY AutoFields, PairTyped
    <2>. QED BY <2>1, <2>3, <2>4 DEF AutoOrder, CreatedFiled, RegisterHeld
<1>2. ASSUME NEW i \in Images, Republish(i) PROVE AutoInv'
    <2>1. PICK new \in SUBSET Cves :
            /\ contents' = [contents EXCEPT ![i] = new]
            /\ auto' = [auto EXCEPT !.held = {p \in auto.held : p[1] = i => p[2] \in new}]
            /\ UNCHANGED <<age, issues>>
        BY <1>2 DEF Republish
    <2>2. /\ auto' \in AutoRuns /\ auto'.held = {p \in auto.held : p[1] = i => p[2] \in new}
          /\ auto'.todo = auto.todo /\ auto'.entries = auto.entries
          /\ auto'.errors = auto.errors /\ auto'.filing = auto.filing
          /\ auto'.created = auto.created
        BY <2>1 DEF AutoRuns
    <2>3. ASSUME NEW p \in auto'.held PROVE p[2] \in Found(p[1])'
        <3>1. p \in auto.held /\ p[1] \in Images /\ (p[1] = i => p[2] \in new)
            BY <2>2, AutoFields, PairTyped
        <3>2. p[2] \in contents'[p[1]]
            BY <2>1, <3>1 DEF RegisterHeld, Found
        <3>. QED BY <2>1, <3>1, <3>2 DEF RegisterHeld, Found
    <2>. QED BY <2>1, <2>2, <2>3 DEF AutoOrder, CreatedFiled, RegisterHeld
<1>. QED BY <1>1, <1>2

\* A scan adds the results of its image alone.
LEMMA AutoScan ==
    ASSUME AutoInv, NEW i \in Images, ScanImage(i)
    PROVE  AutoInv'
<1> USE DEF AutoInv
<1>0. i \in auto.todo /\ auto.filing = {} /\ UNCHANGED <<contents, age, issues>>
    BY DEF ScanImage
<1>1. /\ auto.todo \ {i} \in SUBSET Images /\ auto.errors \cup {i} \in SUBSET Images
      /\ {i} \in SUBSET Images /\ {} \in SUBSET Images
    BY AutoFields
<1>2. CASE auto' = AutoRun(TRUE, auto.todo \ {i}, auto.entries, auto.errors \cup {i}, {},
                           auto.created, auto.held)
    <2>1. auto' \in AutoRuns
        BY <1>1, <1>2, AutoFields, AutoTyped
    <2>2. /\ auto'.todo = auto.todo \ {i} /\ auto'.entries = auto.entries
          /\ auto'.errors = auto.errors \cup {i} /\ auto'.filing = {}
          /\ auto'.created = auto.created /\ auto'.held = auto.held
        BY <1>2 DEF AutoRun
    <2>. QED BY <1>0, <2>1, <2>2 DEF AutoOrder, CreatedFiled, RegisterHeld, Found
<1>3. ASSUME NEW entries, entries = auto.entries \cup ({i} \X KeptOf(i)),
             auto' = AutoRun(TRUE, auto.todo \ {i}, entries, auto.errors,
                             IF ToFix(entries, i) = {} THEN {} ELSE {i}, auto.created, auto.held)
      PROVE  AutoInv'
    <2> DEFINE filing == IF ToFix(entries, i) = {} THEN {} ELSE {i}
    <2>1. entries \in SUBSET Pairs
        BY <1>3, AutoFields DEF KeptOf, Found, Pairs
    <2>2. filing \in SUBSET Images
        BY <1>1
    <2>3. /\ auto'.todo = auto.todo \ {i} /\ auto'.entries = entries
          /\ auto'.errors = auto.errors /\ auto'.filing = filing
          /\ auto'.created = auto.created /\ auto'.held = auto.held
        BY <1>3 DEF AutoRun
    <2>4. \A p \in entries : p \in auto.entries \/ p[1] = i
        BY <1>3
    <2>5. \A j \in Images \ {i} : ToFix(entries, j) = ToFix(auto.entries, j)
        BY <1>3, <2>4 DEF ToFix
    <2>6. auto.created \subseteq Images \ {i}
        BY <1>0, AutoFields DEF AutoOrder
    <2>7. AutoOrder'
        BY <1>0, <2>3, <2>4 DEF AutoOrder
    <2>8. CreatedFiled'
        BY <1>0, <2>3, <2>5, <2>6 DEF CreatedFiled
    <2>9. ASSUME NEW p \in auto.held, p[1] = i, Severity[p[2]] \in KeptSeverities
          PROVE  p \in entries
        <3>1. p \in Pairs /\ p[2] \in KeptOf(i)
            BY <2>9, AutoFields DEF RegisterHeld, KeptOf
        <3>. QED BY <1>3, <2>9, <3>1 DEF Pairs
    <2>10. RegisterHeld'
        BY <1>0, <1>3, <2>3, <2>9 DEF RegisterHeld, Found
    <2>11. auto' \in AutoRuns
        BY <1>1, <1>3, <2>1, <2>2, AutoFields, AutoTyped
    <2>. QED BY <1>0, <2>7, <2>8, <2>10, <2>11
<1>. QED BY <1>2, <1>3 DEF ScanImage

\* Filing an issue keeps it.
LEMMA AutoFile ==
    ASSUME AutoInv, NEW i \in Images, CreateRebuildPr(i)
    PROVE  AutoInv'
<1> USE DEF AutoInv
<1>0. i \in auto.filing /\ UNCHANGED <<contents, age>>
    BY DEF CreateRebuildPr
<1>1. auto.created \cup {i} \in SUBSET Images /\ {} \in SUBSET Images /\ TRUE \in BOOLEAN
    BY AutoFields
<1>2. ASSUME NEW created \in {auto.created, auto.created \cup {i}},
             created # auto.created => ToFix(auto.entries, i) \subseteq issues',
             issues \subseteq issues',
             auto' = AutoRun(TRUE, auto.todo, auto.entries, auto.errors, {}, created, auto.held)
      PROVE  AutoInv'
    <2>1. created \in SUBSET Images
        BY <1>1, AutoFields
    <2>2. /\ auto'.todo = auto.todo /\ auto'.entries = auto.entries
          /\ auto'.errors = auto.errors /\ auto'.filing = {}
          /\ auto'.created = created /\ auto'.held = auto.held
        BY <1>2 DEF AutoRun
    <2>3. AutoOrder'
        BY <1>0, <2>2 DEF AutoOrder
    <2>4. \A j \in created : ToFix(auto.entries, j) # {} /\ ToFix(auto.entries, j) \subseteq issues'
        BY <1>0, <1>2 DEF AutoOrder, CreatedFiled
    <2>5. CreatedFiled'
        BY <2>2, <2>4 DEF CreatedFiled
    <2>6. RegisterHeld'
        BY <1>0, <2>2 DEF RegisterHeld, Found
    <2>7. auto' \in AutoRuns
        BY <1>1, <1>2, <2>1, AutoFields, AutoTyped
    <2>. QED BY <1>0, <2>3, <2>5, <2>6, <2>7
<1>3. CASE /\ issues' = issues \cup ToFix(auto.entries, i)
           /\ auto' = AutoRun(TRUE, auto.todo, auto.entries, auto.errors, {},
                              auto.created \cup {i}, auto.held)
    BY <1>2, <1>3
<1>4. CASE /\ auto' = AutoRun(TRUE, auto.todo, auto.entries, auto.errors, {}, auto.created, auto.held)
           /\ UNCHANGED issues
    BY <1>2, <1>4
<1>. QED BY <1>3, <1>4 DEF CreateRebuildPr

\* Every step keeps it.
LEMMA AutoStep == AutoInv /\ [CveNext]_cveVars => AutoInv'
<1> SUFFICES ASSUME AutoInv, [CveNext]_cveVars PROVE AutoInv'
    OBVIOUS
<1>1. CASE StartAuto
    <2> DEFINE h == {p \in FoundPairs : p[1] \in Priority}
    <2>1. /\ auto' = AutoRun(TRUE, Priority, {}, {}, {}, {}, h)
          /\ UNCHANGED <<contents, age>>
        BY <1>1 DEF StartAuto
    <2>2. h \in SUBSET Pairs /\ Priority \in SUBSET Images
        BY CvesConstants DEF FoundPairs
    <2>3. /\ auto'.todo = Priority /\ auto'.entries = {}
          /\ auto'.filing = {} /\ auto'.created = {} /\ auto'.held = h
        BY <2>1 DEF AutoRun
    <2>4. \A p \in h : p[2] \in Found(p[1]) /\ p[1] \in Priority
        BY DEF FoundPairs
    <2>5. auto' \in AutoRuns
        BY <2>1, <2>2, AutoTyped
    <2>. QED BY <2>1, <2>3, <2>4, <2>5 DEF AutoInv, AutoOrder, CreatedFiled, RegisterHeld, Found
<1>2. CASE TimeOut \/ EndAuto
    BY <1>2, NoAutoInv DEF TimeOut, EndAuto, AutoInv
<1>3. CASE StartSla \/ EndSla \/ CancelSla \/ UNCHANGED cveVars
           \/ \E i \in Images : ScanToCount(i) \/ CheckSlaBreaches(i)
    <2>1. UNCHANGED <<contents, age, auto, issues>>
        BY <1>3 DEF StartSla, EndSla, CancelSla, ScanToCount, CheckSlaBreaches, cveVars
    <2>. QED BY <2>1 DEF AutoInv, AutoOrder, CreatedFiled, RegisterHeld, Found
<1>. QED BY <1>1, <1>2, <1>3, AutoWorld, AutoScan, AutoFile DEF CveNext

\* RegisterAccountsForAll, of one step.
Accounted ==
    /\ \A p \in auto.held :
         \/ Severity[p[2]] \notin KeptSeverities
         \/ p \in register'.entries \/ p[1] \in register'.errors
    /\ LET needed == {i \in Priority : ToFix(register'.entries, i) # {}} IN
       Cardinality(needed) = register'.created =>
           \A i \in needed : ToFix(register'.entries, i) \subseteq issues

\* The number of issues equals that of the images to fix only if they are the
\* same images.
LEMMA RegisterWritten == AutoInv /\ EndAuto => Accounted
<1> SUFFICES ASSUME AutoInv, EndAuto PROVE Accounted
    OBVIOUS
<1>1. /\ register'.entries = auto.entries /\ register'.errors = auto.errors
      /\ register'.created = Cardinality(auto.created) /\ auto.todo = {}
    BY DEF EndAuto, Register
<1> DEFINE needed == {i \in Priority : ToFix(auto.entries, i) # {}}
<1>2. IsFiniteSet(needed)
    <2>1. needed \in SUBSET Images /\ IsFiniteSet(Images)
        BY CvesConstants
    <2>. QED BY <2>1, FS_Subset
<1>3. auto.created \in SUBSET needed
    BY DEF AutoInv, AutoOrder, CreatedFiled
<1>4. Cardinality(needed) = Cardinality(auto.created) => needed = auto.created
    BY <1>2, <1>3, FS_Subset
<1>5. \A p \in auto.held :
          Severity[p[2]] \notin KeptSeverities \/ p \in auto.entries \/ p[1] \in auto.errors
    BY <1>1 DEF AutoInv, RegisterHeld
<1>. QED BY <1>1, <1>4, <1>5 DEF Accounted, AutoInv, CreatedFiled

\* Whatever is disclosed, republished, refused or fails to be scanned meanwhile.
THEOREM RegisterAlwaysAccounts == CveSpec => RegisterAccountsForAll
<1>1. AutoInv /\ [CveNext]_cveVars => [EndAuto => Accounted]_cveVars
    BY RegisterWritten
<1>. QED BY <1>1, AutoInit, AutoStep, PTL DEF CveSpec, RegisterAccountsForAll, Accounted
=============================================================================
