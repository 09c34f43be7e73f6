------------------------------- MODULE Gates ---------------------------------
(***************************************************************************)
(* The gates that judge the images of Evidence: the manifest contract, the *)
(* critical-image contract, the supply-chain and runtime verification, the *)
(* policy enforcement, the audit and the pre-commit validator; and the     *)
(* script that standardizes the tier label.  Each gate has its own way of  *)
(* reading the tier, the user and the bases, and its own list of bases; a  *)
(* gate is modelled as the set of the codes it blocks or fails an image    *)
(* with, in the gate's own words.                                          *)
(***************************************************************************)
EXTENDS Evidence

CONSTANTS RootStart,        \* effective-user-exceptions.json, all its lists
          Static,           \* manifests whose [build] base is scratch or distroless
          OtherSbom         \* directories with an SBOM of another name

VARIABLE passed             \* history: images that critical_image_governance.py
                            \* has passed since a maintainer touched them

\* The codes of a verdict whose condition holds.
Codes(verdict) == {code \in DOMAIN verdict : verdict[code]}
Says(i, text) == text \in df[i].text
UsesBase(i, bases) == {df[i].builder, df[i].base} \cap bases # {}

(***************************************************************************)
(* standardize_tier_labels.py adds the label it does not find with the     *)
(* tier's value; a label with another value stays, and TOML takes no key   *)
(* twice.                                                                  *)
(***************************************************************************)
Parses(i) == ~manifest[i].twice
Standardized(m) ==
    IF m.twice \/ m.label = m.tier THEN m
    ELSE Manifest(m.tier, m.tier, m.label # "none", m.complete, m.version)
StandardizeTierLabels ==
    /\ manifest' = [i \in Images |-> Standardized(manifest[i])]
    /\ UNCHANGED <<df, sbom, vex, job, edits>>

(***************************************************************************)
(* validate_manifest.py.                                                   *)
(***************************************************************************)
\* Mutant: a manifest that does not parse is passed over, as the other gates do.
InvalidManifestParsed(i) == Parses(i) /\ ~manifest[i].complete
InvalidManifest(i) == ~Parses(i) \/ ~manifest[i].complete
\* A label that differs from the tier only warns (M040, M041).
ManifestBlocks == {i \in Images : InvalidManifest(i)}

(***************************************************************************)
(* critical_image_governance.py, verify_supply_chain.py and                *)
(* verify_runtime.py judge the images whose manifest parses and says       *)
(* critical.                                                               *)
(***************************************************************************)
DiscoverCritical == {i \in Images : Parses(i) /\ manifest[i].tier = "critical"}

\* Anywhere in the file, in a comment or an earlier stage too.
HasUser65532(i) == Says(i, "USER 65532")
NoHealthCheck(i) == ~UsesBase(i, {"scratch"}) /\ ~Says(i, "HEALTHCHECK")
ContractViolations(i) ==
    (IF manifest[i].complete THEN {} ELSE {"manifest"})
    \cup (IF sbom[i].kind = "full" THEN {} ELSE {"CC005"})
    \cup (IF i \in Bare THEN {"CC001"} ELSE Codes(
        [CC003 |-> ~HasUser65532(i) /\ i \notin RootStart,
         CC004 |-> NoHealthCheck(i),
         CC006 |-> UsesBase(i, {"alpine", "hosted", "ubuntu"}),
         CC007 |-> ~Says(i, "ENTRYPOINT") /\ ~Says(i, "CMD"),
         CC009 |-> i \in Static /\ Says(i, "shell"),
         CC010 |-> ~Says(i, "LABEL")]))
NonCompliant == {i \in DiscoverCritical : ContractViolations(i) # {}}

\* check_sbom_binding; the hash it writes beside an SBOM is removed at the end.
\* verify_image: signature, provenance, digests and metadata only warn.
SupplyChainViolations(i) ==
    Codes([SC001 |-> sbom[i].kind = "none", SC002 |-> sbom[i].kind \in {"blank", "torn"}])
SupplyChainBlocks == {i \in DiscoverCritical : SupplyChainViolations(i) # {}}

\* verify_runtime.py, a reading of the Dockerfile as well: it knows of no
\* exceptions, and all but the user and the HEALTHCHECK only warn or inform.
RuntimeViolations(i) ==
    IF i \in Bare THEN {"RT000"}
    ELSE Codes([RT001 |-> ~HasUser65532(i), RT002 |-> NoHealthCheck(i)])
RuntimeBlocks == {i \in DiscoverCritical : RuntimeViolations(i) # {}}

(***************************************************************************)
(* enforce_policy.py, with the archived policy, on every image without     *)
(* exception.  A tier, which it does not find where manifests have it,     *)
(* and the digests and the age of the SBOM weigh in warnings only; without *)
(* a Dockerfile every check is skipped.                                    *)
(***************************************************************************)
\* The colon is taken out of the user before it is compared.
PolicyUser(i) ==
    IF df[i].user = "65532:65532" THEN "6553265532" ELSE df[i].user
\* An install names its package manager.
PolicyFailures(i) ==
    IF i \in Bare THEN {}
    ELSE Codes([non_root |-> PolicyUser(i) \notin {"65532:65532", "65532", "65534", "65534:65534",
                                                   "nobody"},
                no_shell |-> Says(i, "shell path"),
                no_package_manager |-> Installed(df[i]) # {},
                sbom |-> sbom[i].kind = "none" /\ i \notin OtherSbom,
                manifest |-> ~Parses(i)])
PolicyBlocks == {i \in Images : PolicyFailures(i) # {}}

(***************************************************************************)
(* audit_images.py, which reports only, and pre_commit_validator.py read   *)
(* the Dockerfiles there are.                                              *)
(***************************************************************************)
AuditIssues(i) ==
    Codes([MISSING_SHIM |-> ~Says(i, "health-shim"),
           MISSING_HEALTHCHECK |-> ~Says(i, "^HEALTHCHECK"),
           MISSING_USER |-> df[i].user = "none" /\ ~Says(i, "entrypoint pattern"),
           MISSING_TIER |-> ~Says(i, "tier label"),
           BANNED_BASE |-> df[i].base \in {"alpine", "ubuntu", "fedora"},
           MISSING_ENTRYPOINT |-> ~Says(i, "^ENTRYPOINT") /\ ~Says(i, "entrypoint pattern")])
AuditFails == {i \in Images \ Bare : AuditIssues(i) # {}}

\* Any name with alpine in it.
PreCommitErrors(i) ==
    Codes([ALPINE |-> UsesBase(i, {"alpine", "mirror", "hosted"}), C001 |-> df[i].user = "none"])
PreCommitFails == {i \in Images \ Bare : PreCommitErrors(i) # {}}

(***************************************************************************)
(* What a run of critical_image_governance.py has passed stands until a    *)
(* maintainer touches the image; a run that meets an SBOM which a generator*)
(* has still to write says nothing of it.                                  *)
(***************************************************************************)
Underway == IF job.tool \in SbomTools THEN job.todo \cup {job.writing} ELSE {}
RunGovernance ==
    /\ passed' = (DiscoverCritical \ NonCompliant) \ Underway
    /\ UNCHANGED vars

Next ==
    \/ RunGovernance
    \/ Generators /\ UNCHANGED passed
    \/ StandardizeTierLabels /\ UNCHANGED passed
    \/ \E i \in Images : Maintain(i) /\ passed' = passed \ {i}

GatesInit == Init /\ passed = {}
Spec == GatesInit /\ [][Next]_<<vars, passed>>

(***************************************************************************)
(* Properties.                                                             *)
(***************************************************************************)
Critical == {i \in Images : manifest[i].tier = "critical"}
\* What the other gates may still hold against an image.
Sound(i) ==
    /\ i \in ValidSboms \cap LargeSboms
    /\ i \notin Bare \cup SupplyChainBlocks
    /\ RuntimeViolations(i) \subseteq (IF i \in RootStart THEN {"RT001"} ELSE {})
    /\ PolicyFailures(i) \subseteq {"non_root", "no_shell", "no_package_manager"}
    /\ "BANNED_BASE" \in AuditIssues(i) => df[i].base = "fedora"
    /\ "ALPINE" \in PreCommitErrors(i) => UsesBase(i, {"mirror"})

\* validate_manifest.py and critical_image_governance.py together: while both
\* would pass, every image whose manifest names it critical, whatever labels
\* were standardized and runs killed, has an SBOM that coverage and metrics
\* count; the supply-chain verification blocks none of them, the runtime
\* verification only an exception that it does not know; the policy has nothing
\* against their SBOM and manifest; and of their bases the audit refuses only
\* those that governance does not list, pre-commit only a mirror of alpine.
GreenGatesCoverCritical ==
    ManifestBlocks = {} /\ NonCompliant = {} => \A i \in Critical : Sound(i)

\* A critical image that critical_image_governance.py has passed goes on passing,
\* here and at the supply-chain verification, until a maintainer touches it:
\* generators for all images that run later, or ran already and did not have it
\* to do, do not spoil its SBOM, wherever they are killed or fail; nor does the
\* label script take it out of sight, unless so that validate_manifest.py blocks.
PassedStaysPassed ==
    \A i \in passed :
        /\ ContractViolations(i) = {} /\ SupplyChainViolations(i) = {}
        /\ i \in DiscoverCritical \/ i \in Critical \cap ManifestBlocks

\* critical_image_governance.py:56 alone: "Find all images with tier = critical
\* in their manifest."
CriticalIsDiscovered == Critical \subseteq DiscoverCritical
=============================================================================
