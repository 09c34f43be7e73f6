------------------------------ MODULE Evidence -------------------------------
(***************************************************************************)
(* What the repository keeps as evidence about its images, and the scripts *)
(* that write and read it: the SBOM that fast_sbom_generator.py reads off a*)
(* Dockerfile, the VEX document of generate_missing_vex.py, and the tools  *)
(* that report drift, coverage and shared packages.  A generator's run may *)
(* be killed before, in and after the writing of a file, and a write may   *)
(* fail; maintainers go on editing.                                        *)
(*                                                                         *)
(* A Dockerfile says where each package of apk or apt-get is installed: on *)
(* the line of a RUN that begins with the install ("plain"), behind an &&  *)
(* of such a line ("chained": apt-get update && apt-get install), or on a  *)
(* line that continues the install's ("continued").  It names a package by *)
(* a word, with or without a version.  Letters are small: every comparison *)
(* of names disregards their case.                                         *)
(***************************************************************************)
EXTENDS Naturals, FiniteSets

CONSTANTS Images,           \* in the order in which a directory lists them
          Words,            \* curl, curl=8.5: what names a package
          Normalized,       \* a word without its version and path
          Dockerfiles,      \* the Dockerfiles maintainers write
          Bare,             \* images without a Dockerfile
          MaxEdits          \* bound on the maintainers' steps

VARIABLES df,               \* the Dockerfile of each image
          manifest,         \* its manifest.toml
          sbom,             \* its sbom.spdx.json
          vex,              \* its VEX document: missing, torn, or a version
          job,              \* the generator that is running
          edits

vars == <<df, manifest, sbom, vex, job, edits>>

Places == {"out", "plain", "chained", "continued"}
Junk == "&&"                \* what a split line leaves: \ && rm -rf
Shim == "evergreen-health-shim"
Names == Words \cup {Junk, Shim}
Tiers == {"critical", "standard"}
NoImage == 0
NoVex == 0
TornVex == MaxEdits + 2     \* versions are 1..MaxEdits + 1

\* goesOn: the install line goes on after the packages; text: which of the texts
\* that a gate looks for are in the file, "^" meaning at the beginning of a line
\* and "shell" a shell in quotes; user: what the last USER says; base, builder:
\* the last and the other FROM (ubuntu stands for centos and debian-slim, fedora
\* for rockylinux, amazonlinux and debian:slim; mirror is mirror-alpine, hosted
\* an alpine of a registry that the audit allows).
Texts == {"health-shim", "USER 65532", "HEALTHCHECK", "^HEALTHCHECK", "ENTRYPOINT", "^ENTRYPOINT",
          "CMD", "LABEL", "tier label", "entrypoint pattern", "shell", "shell path"}
Users == {"none", "65532", "65532:65532", "nobody", "root"}
Bases == {"wolfi", "scratch", "alpine", "ubuntu", "fedora", "mirror", "hosted"}
Dockerfile(at, goesOn, text, user, builder, base) ==
    [at |-> at, goesOn |-> goesOn, text |-> text, user |-> user,
     builder |-> builder, base |-> base]
AnyDockerfile ==
    [at : [Words -> Places], goesOn : BOOLEAN, text : SUBSET Texts, user : Users,
     builder : Bases, base : Bases]

\* tier and label: [metadata] tier and the label evergreen.image.tier, which
\* may be there twice; complete: every required field, with
\* values that both gates take; version: as released.
Manifest(tier, label, twice, complete, version) ==
    [tier |-> tier, label |-> label, twice |-> twice, complete |-> complete, version |-> version]
AnyManifest ==
    [tier : Tiers, label : Tiers \cup {"none"}, twice : BOOLEAN, complete : BOOLEAN,
     version : Nat \ {NoVex}]

\* kind "blank": opened for writing and never written; "torn": more than 1000
\* bytes of it written and not the rest; names: what is not of purpose CONTAINER.
Sbom(kind, names) == [kind |-> kind, names |-> names]
Sboms == [kind : {"none", "blank", "torn", "full"}, names : SUBSET Names]
NoSbom == Sbom("none", {})
BlankSbom == Sbom("blank", {})
TornSbom == Sbom("torn", {})

\* tool: who runs; todo: images to go; writing, text: the open file and what
\* goes into it; failed: images it gave up on; seen: the version of each image
\* that it listed, when it listed them.
Job(tool, todo, writing, text, failed, seen) ==
    [tool |-> tool, todo |-> todo, writing |-> writing, text |-> text, failed |-> failed,
     seen |-> seen]
SbomTools == {"all", "tier1", "image"}
Jobs ==
    [tool : SbomTools \cup {"none", "vex"}, todo : SUBSET Images,
     writing : Images \cup {NoImage}, text : SUBSET Names, failed : SUBSET Images,
     seen : [Images -> Nat]]
Unseen == [i \in Images |-> NoVex]
NoJob == Job("none", {}, NoImage, {}, {}, Unseen)

ASSUME EvidenceConstants ==
    /\ Images \subseteq Nat \ {NoImage} /\ Bare \subseteq Images
    /\ Dockerfiles \subseteq AnyDockerfile
    /\ IsFiniteSet(Words)
    /\ Normalized \in [Words -> Words]
    /\ MaxEdits \in Nat

TypeOK ==
    /\ df \in [Images -> AnyDockerfile]
    /\ manifest \in [Images -> AnyManifest]
    /\ sbom \in [Images -> Sboms]
    /\ vex \in [Images -> Nat]
    /\ job \in Jobs
    /\ edits \in Nat

Init ==
    /\ df \in [Images -> Dockerfiles]
    /\ \E tier \in [Images -> Tiers], complete \in [Images -> BOOLEAN] :
           manifest = [i \in Images |-> Manifest(tier[i], tier[i], FALSE, complete[i], 1)]
    /\ sbom = [i \in Images |-> NoSbom]
    /\ vex = [i \in Images |-> NoVex]
    /\ job = NoJob
    /\ edits = 0

(***************************************************************************)
(* fast_sbom_generator.py.                                                 *)
(***************************************************************************)
Installed(d) == {w \in Words : d.at[w] # "out"}
On(d, places) == {w \in Words : d.at[w] \in places}
ShimIn(d) == IF "health-shim" \in d.text THEN {Shim} ELSE {}

\* The words after apk add or apt-get install, to the end of that line.
ExtractPackages(d) ==
    On(d, {"plain", "chained"})
        \cup (IF d.goesOn \/ On(d, {"continued"}) # {} THEN {Junk} ELSE {})
GenerateSbom(d) == ExtractPackages(d) \cup ShimIn(d)

\* Mutant: any file will do.
HasSbomFile(i) == sbom[i].kind # "none"
\* A file of more than 1000 bytes.
HasSbom(i) == sbom[i].kind \in {"torn", "full"}
\* Mutant: what exists is generated anew.
SbomTodoAnew(mode) == {i \in Images : mode = "tier1" => manifest[i].tier = "critical"}
SbomTodo(mode) ==
    {i \in Images : ~HasSbom(i) /\ (mode = "tier1" => manifest[i].tier = "critical")}

Others == <<df, manifest, edits>>
Idle == job.tool = "none"
StartJob(tool, todo) ==
    /\ Idle
    /\ job' = Job(tool, todo, NoImage, {}, {},
                  [i \in Images |-> IF i \in todo THEN manifest[i].version ELSE NoVex])
    /\ UNCHANGED <<df, manifest, sbom, vex, edits>>

StartSboms(mode) == StartJob(mode, SbomTodo(mode))
StartSbomOf(i) == StartJob("image", {i})

\* An image without a Dockerfile, and one that cannot be read, is counted failed.
InTurn(i) == job.writing = NoImage /\ i \in job.todo /\ \A j \in job.todo : i <= j
Generating(i) == job.tool \in SbomTools /\ InTurn(i)
SkipImage(i) ==
    /\ Generating(i)
    /\ job' = Job(job.tool, job.todo \ {i}, NoImage, {}, job.failed \cup {i}, job.seen)
    /\ UNCHANGED <<Others, sbom, vex>>
OpenSbom(i) ==
    /\ Generating(i) /\ i \notin Bare
    /\ sbom' = [sbom EXCEPT ![i] = BlankSbom]
    /\ job' = Job(job.tool, job.todo \ {i}, i, GenerateSbom(df[i]), job.failed, job.seen)
    /\ UNCHANGED <<Others, vex>>

\* The text goes out in one write or in part of one: a full disk ends it there,
\* with an exception that is counted, and a kill without.
Writing(i) == job.tool \in SbomTools /\ job.writing = i
TearSbom(i) ==
    /\ Writing(i) /\ sbom[i].kind = "blank"
    /\ sbom' = [sbom EXCEPT ![i] = TornSbom]
    /\ UNCHANGED <<Others, vex, job>>
WriteSbom(i) ==
    /\ Writing(i)
    /\ \/ /\ sbom' = [sbom EXCEPT ![i] = Sbom("full", job.text)]
          /\ job' = Job(job.tool, job.todo, NoImage, {}, job.failed, job.seen)
       \/ /\ job' = Job(job.tool, job.todo, NoImage, {}, job.failed \cup {i}, job.seen)
          /\ UNCHANGED sbom
    /\ UNCHANGED <<Others, vex>>

(***************************************************************************)
(* generate_missing_vex.py: "No known vulnerabilities" in the version that *)
(* the manifest named when the critical images without a document were     *)
(* listed.  A document that exists, torn or of an old version, is kept.    *)
(***************************************************************************)
MissingVex == {i \in Images : manifest[i].tier = "critical" /\ vex[i] = NoVex}
StartVex == StartJob("vex", MissingVex)
OpenVex(i) ==
    /\ job.tool = "vex" /\ InTurn(i)
    /\ vex' = [vex EXCEPT ![i] = TornVex]
    /\ job' = Job("vex", job.todo \ {i}, i, {}, {}, job.seen)
    /\ UNCHANGED <<Others, sbom>>
WriteVex(i) ==
    /\ job.tool = "vex" /\ job.writing = i
    /\ vex' = [vex EXCEPT ![i] = job.seen[i]]
    /\ job' = Job("vex", job.todo, NoImage, {}, {}, job.seen)
    /\ UNCHANGED <<Others, sbom>>

\* A run ends when nothing is left, or is killed anywhere.
EndJob ==
    /\ ~Idle /\ job.todo = {} /\ job.writing = NoImage
    /\ job' = NoJob
    /\ UNCHANGED <<Others, sbom, vex>>
KillJob ==
    /\ ~Idle /\ (job.todo # {} \/ job.writing # NoImage)
    /\ job' = NoJob
    /\ UNCHANGED <<Others, sbom, vex>>

\* What goes on by itself once, for all images, a generator has been started.
Generators ==
    \/ \E mode \in {"all", "tier1"} : StartSboms(mode)
    \/ StartVex \/ EndJob \/ KillJob
    \/ \E i \in Images : \/ SkipImage(i) \/ OpenSbom(i) \/ TearSbom(i) \/ WriteSbom(i)
                         \/ OpenVex(i) \/ WriteVex(i)

(***************************************************************************)
(* Maintainers edit a Dockerfile, release a version, move an image to      *)
(* another tier, repair a manifest and have one image's SBOM regenerated;  *)
(* syft reads an image built from the Dockerfile, wherever a package is    *)
(* installed, and names it without the version.                            *)
(***************************************************************************)
\* sbom_drift_detect.py's normalize.
Normal(n) == IF n \in Words THEN Normalized[n] ELSE n
NormalizedAll(names) == {Normal(n) : n \in names}

Edits(what) == edits < MaxEdits /\ edits' = edits + 1 /\ UNCHANGED <<job, what>>
EditDockerfile(i) ==
    /\ Edits(<<manifest, sbom, vex>>)
    /\ \E d \in Dockerfiles : df' = [df EXCEPT ![i] = d]
Bump(i) ==
    /\ Edits(<<df, sbom, vex>>)
    /\ manifest' = [manifest EXCEPT ![i].version = @ + 1]
SetTier(i) ==
    /\ Edits(<<df, sbom, vex>>)
    /\ \E t \in Tiers \ {manifest[i].tier} : manifest' = [manifest EXCEPT ![i].tier = t]
RepairManifest(i) ==
    /\ Edits(<<df, sbom, vex>>)
    /\ manifest' = [manifest EXCEPT ![i] = Manifest(@.tier, @.tier, FALSE, TRUE, @.version)]
Syft(i) ==
    /\ Edits(<<df, manifest, vex>>)
    /\ i \notin Bare /\ job.writing # i
    /\ \E names \in SUBSET Words :
           /\ NormalizedAll(names) = NormalizedAll(Installed(df[i]))
           /\ sbom' = [sbom EXCEPT ![i] = Sbom("full", names \cup ShimIn(df[i]))]

\* What a maintainer does to one image.
Maintain(i) ==
    \/ EditDockerfile(i) \/ Bump(i) \/ SetTier(i) \/ RepairManifest(i) \/ Syft(i)
    \/ StartSbomOf(i)

(***************************************************************************)
(* What the readers of the evidence report; they change nothing.           *)
(***************************************************************************)
\* sbom_drift_detect.py: its pattern begins at the beginning of the file or
\* behind an && and ends with the line.
Recognized(i) == IF i \in Bare THEN {} ELSE NormalizedAll(On(df[i], {"chained"}))
Recorded(i) == NormalizedAll(sbom[i].names)
OrphanedSbom(i) == Recorded(i) \ Recognized(i)
MissingFromSbom(i) == Recognized(i) \ Recorded(i)
\* Mutant: only what the SBOM lacks.
DiscrepanciesMissing(i) == Cardinality(MissingFromSbom(i))
Discrepancies(i) == Cardinality(OrphanedSbom(i)) + Cardinality(MissingFromSbom(i))
Drifted(threshold) == {i \in Images : Discrepancies(i) > threshold}
\* An SBOM that does not parse ends it with an exception, before any report.
DriftGreen(threshold) ==
    (\A i \in Images : sbom[i].kind \in {"none", "full"}) /\ Drifted(threshold) = {}

\* sbom_coverage_report.py counts an SBOM that has packages (the image itself and
\* its base always are two), export_metrics.py one of more than 1000 bytes.
ValidSboms == {i \in Images : sbom[i].kind = "full"}
LargeSboms == {i \in Images : sbom[i].kind \in {"torn", "full"}}
VexDocuments == {i \in Images : vex[i] # NoVex}
\* sbom_dependency_graph.py --shared compares names as they are written; an SBOM
\* that does not parse is passed over.
FindShared(n) == {i \in Images : sbom[i].kind = "full" /\ n \in sbom[i].names}

(***************************************************************************)
(* Properties.                                                             *)
(***************************************************************************)
\* fast_sbom_generator.py:236-237: a run that comes to its end has left a whole
\* SBOM for every image that it listed, but those it counted failed, and a run
\* over all images has listed every one without an SBOM: what a killed run left
\* blank the next one makes good.  What one left torn it takes for done.  A run of
\* generate_missing_vex.py (109-130) leaves a whole document of the version it
\* saw for every image that it listed, and the metrics count each.
RunsFinishTheirWork ==
    [][EndJob => \A i \in Images :
        /\ job.tool \in SbomTools /\ job.seen[i] # NoVex /\ i \notin job.failed =>
               i \in ValidSboms \cap LargeSboms
        /\ job.tool = "all" /\ job.seen[i] = NoVex => i \in LargeSboms
        /\ job.tool = "vex" /\ job.seen[i] # NoVex =>
               i \in VexDocuments /\ vex[i] = job.seen[i]]_vars

\* sbom_drift_detect.py:61 and 241: while it calls every image clean, no SBOM
\* lists anything that its Dockerfile has ceased to install, in any version, and
\* for every package installed behind an && there is a spelling, of some version,
\* under which --shared finds the image; it need not be the Dockerfile's.
CleanDriftIsExact ==
    DriftGreen(0) =>
        \A i \in Images \ Bare :
            /\ \A n \in sbom[i].names : \E w \in Installed(df[i]) : Normal(n) = Normal(w)
            /\ \A w \in On(df[i], {"chained"}) :
                  \E n \in Words : Normal(n) = Normal(w) /\ i \in FindShared(n)
=============================================================================
