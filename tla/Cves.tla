-------------------------------- MODULE Cves ---------------------------------
(***************************************************************************)
(* The two scripts that answer to CVEs in published images:                *)
(* vuln_sla_alert.py, which scans every image twice and reports what is    *)
(* older than its tier's thresholds, and cve_auto_rebuild.py, which scans  *)
(* the priority images, files an issue for each with fixable critical CVEs *)
(* and writes a register.  Each scans one image after another while CVEs   *)
(* are disclosed and grow older and images are republished; a scan may     *)
(* fail, and Trivy or gh may exceed its time.                              *)
(***************************************************************************)
EXTENDS Naturals, FiniteSets

CONSTANTS Images, Cves,
          Tier,             \* of each image, [metadata] tier
          Priority,         \* PRIORITY_IMAGES
          Severity,         \* of each CVE
          Fixable, Dated,   \* CVEs with a FixedVersion, with a PublishedDate
          Acknowledge, Fix, \* SLA_THRESHOLDS: a tier's hours, by severity
          MaxAge, MaxRebuilds

VARIABLES contents,         \* the CVEs that are in each published image
          age,              \* of a CVE since its disclosure; 0 before it
          rebuilds,
          sla,              \* the run of vuln_sla_alert.py
          auto,             \* the run of cve_auto_rebuild.py
          issues,           \* <<image, CVE>> of the issues filed
          register          \* compliance/cve-register.json

cveVars == <<contents, age, rebuilds, sla, auto, issues, register>>

Tiers == {"critical", "standard"}
\* Trivy's severities, those SLA_THRESHOLDS rates, and those scan_image keeps.
Rated == {"CRITICAL", "HIGH", "MEDIUM", "LOW"}
Severities == Rated \cup {"UNKNOWN"}
KeptSeverities == {"CRITICAL", "HIGH", "MEDIUM"}

ASSUME CvesConstants ==
    /\ Tier \in [Images -> STRING] /\ Priority \subseteq Images
    /\ Severity \in [Cves -> Severities]
    /\ Fixable \subseteq Cves /\ Dated \subseteq Cves
    /\ Acknowledge \in [Tiers -> [Rated -> Nat]]
    /\ Fix \in [Tiers -> [Rated -> Nat]]
    /\ \A t \in Tiers, s \in Rated : Acknowledge[t][s] < Fix[t][s]
    /\ IsFiniteSet(Images) /\ IsFiniteSet(Cves)
    /\ MaxAge \in Nat /\ MaxRebuilds \in Nat

Pairs == Images \X Cves

\* What Trivy finds when it answers.
Found(i) == {c \in contents[i] : age[c] > 0}
FoundPairs == {p \in Pairs : p[2] \in Found(p[1])}

\* on: running; todo: images to go; at: images scanned once and not yet twice;
\* seen: what the first scans counted; breaches: what the second ones found.
\* Two histories: held, what was overdue at the start and is still published;
\* blind, the images whose second scan failed.
SlaRun(on, todo, at, seen, breaches, held, blind) ==
    [on |-> on, todo |-> todo, at |-> at, seen |-> seen, breaches |-> breaches,
     held |-> held, blind |-> blind]
SlaRuns ==
    [on : BOOLEAN, todo : SUBSET Images, at : SUBSET Images, seen : SUBSET Pairs,
     breaches : SUBSET Pairs, held : SUBSET Pairs, blind : SUBSET Images]
NoSla == SlaRun(FALSE, {}, {}, {}, {}, {}, {})

\* entries: the scans that succeeded; errors: those that did not; filing: the
\* image whose issue is to be filed; created: images with an issue of this run.
\* held, a history: what was published at the start and still is.
AutoRun(on, todo, entries, errors, filing, created, held) ==
    [on |-> on, todo |-> todo, entries |-> entries, errors |-> errors,
     filing |-> filing, created |-> created, held |-> held]
AutoRuns ==
    [on : BOOLEAN, todo : SUBSET Images, entries : SUBSET Pairs, errors : SUBSET Images,
     filing : SUBSET Images, created : SUBSET Images, held : SUBSET Pairs]
NoAuto == AutoRun(FALSE, {}, {}, {}, {}, {}, {})

\* images: of images_scanned; entries, errors: of results; created: a number.
Register(entries, errors, created) ==
    [entries |-> entries, errors |-> errors, created |-> created]

CveTypeOK ==
    /\ contents \in [Images -> SUBSET Cves]
    /\ age \in [Cves -> Nat]
    /\ rebuilds \in Nat
    /\ sla \in SlaRuns
    /\ auto \in AutoRuns
    /\ issues \in SUBSET Pairs
    /\ register \in [entries : SUBSET Pairs, errors : SUBSET Images, created : Nat]

CveInit ==
    /\ contents \in [Images -> SUBSET Cves]
    /\ age = [c \in Cves |-> 0]
    /\ rebuilds = 0
    /\ sla = NoSla /\ auto = NoAuto
    /\ issues = {}
    /\ register = Register({}, {}, 0)

(***************************************************************************)
(* The world: CVEs are disclosed, time passes, images are republished.     *)
(***************************************************************************)
Disclose(c) ==
    /\ age[c] = 0
    /\ age' = [age EXCEPT ![c] = 1]
    /\ UNCHANGED <<contents, rebuilds, sla, auto, issues, register>>
Tick ==
    /\ \A c \in Cves : age[c] < MaxAge
    /\ \E c \in Cves : age[c] > 0
    /\ age' = [c \in Cves |-> IF age[c] > 0 THEN age[c] + 1 ELSE 0]
    /\ UNCHANGED <<contents, rebuilds, sla, auto, issues, register>>
Republish(i) ==
    /\ rebuilds < MaxRebuilds
    /\ rebuilds' = rebuilds + 1
    /\ \E new \in SUBSET Cves :
         LET Still(held) == {p \in held : p[1] = i => p[2] \in new} IN
         /\ contents' = [contents EXCEPT ![i] = new]
         /\ sla' = [sla EXCEPT !.held = Still(@)]
         /\ auto' = [auto EXCEPT !.held = Still(@)]
    /\ UNCHANGED <<age, issues, register>>

(***************************************************************************)
(* vuln_sla_alert.py --check.                                              *)
(***************************************************************************)
HasThresholds(p) == Tier[p[1]] \in Tiers /\ Severity[p[2]] \in Rated
Overdue(p, thresholds) ==
    HasThresholds(p) /\ age[p[2]] > thresholds[Tier[p[1]]][Severity[p[2]]]

\* A fix is looked for under v["Fix"]["Versions"], which Trivy's report has
\* not, so that it is always the acknowledgement that is asked for.
HasFix(c) == FALSE
Breach(p) ==
    p[2] \in Dated /\ Overdue(p, IF HasFix(p[2]) THEN Fix ELSE Acknowledge)

StartSla ==
    /\ ~sla.on
    /\ sla' = SlaRun(TRUE, Images, {}, {}, {},
                     {p \in FoundPairs : p[2] \in Dated /\ Overdue(p, Fix)}, {})
    /\ UNCHANGED <<contents, age, rebuilds, auto, issues, register>>

\* scan_vulnerabilities for the report; a scan that fails finds nothing.
ScanToCount(i) ==
    /\ sla.on /\ sla.at = {} /\ i \in sla.todo
    /\ \E found \in {Found(i), {}} :
         sla' = SlaRun(TRUE, sla.todo \ {i}, {i}, sla.seen \cup ({i} \X found),
                       sla.breaches, sla.held, sla.blind)
    /\ UNCHANGED <<contents, age, rebuilds, auto, issues, register>>

\* check_sla_breaches, which scans again.
BreachesOf(i, found) == {p \in {i} \X found : Breach(p)}
\* Mutant: what the first scan found is judged.
CheckSlaBreachesSeen(i) ==
    /\ sla.on /\ i \in sla.at
    /\ \/ sla' = SlaRun(TRUE, sla.todo, {}, sla.seen,
                        sla.breaches \cup {p \in sla.seen : p[1] = i /\ Breach(p)},
                        sla.held, sla.blind)
       \/ sla' = SlaRun(TRUE, sla.todo, {}, sla.seen, sla.breaches, sla.held, sla.blind \cup {i})
    /\ UNCHANGED <<contents, age, rebuilds, auto, issues, register>>
CheckSlaBreaches(i) ==
    /\ sla.on /\ i \in sla.at
    /\ \/ sla' = SlaRun(TRUE, sla.todo, {}, sla.seen,
                        sla.breaches \cup BreachesOf(i, Found(i)), sla.held, sla.blind)
       \/ sla' = SlaRun(TRUE, sla.todo, {}, sla.seen, sla.breaches, sla.held, sla.blind \cup {i})
    /\ UNCHANGED <<contents, age, rebuilds, auto, issues, register>>

\* The report, from which cve-sla-monitor.yml takes the number of breaches, and
\* the metrics are written at the end.
SlaComplete == sla.on /\ sla.todo = {} /\ sla.at = {}
EndSla ==
    /\ SlaComplete
    /\ sla' = NoSla
    /\ UNCHANGED <<contents, age, rebuilds, auto, issues, register>>
\* cve-sla-monitor.yml's time limit, or its next run, which cancels this one.
CancelSla ==
    /\ sla.on /\ ~SlaComplete
    /\ sla' = NoSla
    /\ UNCHANGED <<contents, age, rebuilds, auto, issues, register>>

(***************************************************************************)
(* cve_auto_rebuild.py.                                                    *)
(***************************************************************************)
StartAuto ==
    /\ ~auto.on
    /\ auto' = AutoRun(TRUE, Priority, {}, {}, {}, {}, {p \in FoundPairs : p[1] \in Priority})
    /\ UNCHANGED <<contents, age, rebuilds, sla, issues, register>>

\* check_upstream_fix, on the critical ones.
ToFix(entries, i) ==
    {p \in entries : p[1] = i /\ Severity[p[2]] = "CRITICAL" /\ p[2] \in Fixable}

KeptOf(i) == {c \in Found(i) : Severity[c] \in KeptSeverities}

\* scan_image answers with the severities it keeps, or its error is the result.
ScanImage(i) ==
    /\ auto.on /\ auto.filing = {} /\ i \in auto.todo
    /\ \/ LET entries == auto.entries \cup ({i} \X KeptOf(i)) IN
          auto' = AutoRun(TRUE, auto.todo \ {i}, entries, auto.errors,
                          IF ToFix(entries, i) = {} THEN {} ELSE {i}, auto.created, auto.held)
       \/ auto' = AutoRun(TRUE, auto.todo \ {i}, auto.entries, auto.errors \cup {i}, {},
                          auto.created, auto.held)
    /\ UNCHANGED <<contents, age, rebuilds, sla, issues, register>>

\* create_rebuild_pr files one issue for all of them, or gh refuses.
CreateRebuildPr(i) ==
    /\ auto.on /\ i \in auto.filing
    /\ \/ /\ issues' = issues \cup ToFix(auto.entries, i)
          /\ auto' = AutoRun(TRUE, auto.todo, auto.entries, auto.errors, {},
                             auto.created \cup {i}, auto.held)
       \/ /\ auto' = AutoRun(TRUE, auto.todo, auto.entries, auto.errors, {}, auto.created, auto.held)
          /\ UNCHANGED issues
    /\ UNCHANGED <<contents, age, rebuilds, sla, register>>

\* TimeoutExpired of either is not caught: the run dies without a register.
TimeOut ==
    /\ auto.on /\ (auto.todo # {} \/ auto.filing # {})
    /\ auto' = NoAuto
    /\ UNCHANGED <<contents, age, rebuilds, sla, issues, register>>

\* Mutant: an image whose scan failed is left out of the results.
EndAutoErrorless ==
    /\ auto.on /\ auto.todo = {} /\ auto.filing = {}
    /\ register' = Register(auto.entries, {}, Cardinality(auto.created))
    /\ auto' = NoAuto
    /\ UNCHANGED <<contents, age, rebuilds, sla, issues>>
EndAuto ==
    /\ auto.on /\ auto.todo = {} /\ auto.filing = {}
    /\ register' = Register(auto.entries, auto.errors, Cardinality(auto.created))
    /\ auto' = NoAuto
    /\ UNCHANGED <<contents, age, rebuilds, sla, issues>>

CveNext ==
    \/ Tick \/ StartSla \/ EndSla \/ CancelSla \/ StartAuto \/ TimeOut \/ EndAuto
    \/ \E c \in Cves : Disclose(c)
    \/ \E i \in Images : \/ Republish(i) \/ ScanToCount(i) \/ CheckSlaBreaches(i)
                         \/ ScanImage(i) \/ CreateRebuildPr(i)

CveSpec == CveInit /\ [][CveNext]_cveVars

(***************************************************************************)
(* Properties.                                                             *)
(***************************************************************************)
\* vuln_sla_alert.py:128-158 and 339-341: whatever is past its fix threshold when
\* a check begins and stays published until it ends is among the breaches that it
\* reports, unless the second scan of its image failed: neither a failed first
\* scan nor the time between the two hides any.
OverdueIsReported ==
    SlaComplete =>
        \A p \in sla.held : p[1] \in sla.blind \/ p \in sla.breaches

\* cve_auto_rebuild.py:81-86 and 170-199: the register that a completed run
\* writes names every critical, high or medium CVE of a priority image that was
\* published throughout, or the error of its scan (the others are in neither);
\* and when it has as many issues as images to fix, each CVE in it that is
\* critical and fixable has an issue.
RegisterAccountsForAll ==
    [][EndAuto =>
        /\ \A p \in auto.held :
             \/ Severity[p[2]] \notin KeptSeverities
             \/ p \in register'.entries \/ p[1] \in register'.errors
        /\ LET needed == {i \in Priority : ToFix(register'.entries, i) # {}} IN
           Cardinality(needed) = register'.created =>
               \A i \in needed : ToFix(register'.entries, i) \subseteq issues]_cveVars
=============================================================================
