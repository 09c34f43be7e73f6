---------------------------- MODULE Gates_proofs -----------------------------
(* What the generators leave behind, and what the gates promise together,   *)
(* for every set of images, packages and Dockerfiles and any number of edits.*)
EXTENDS Gates, TLAPS, FiniteSetTheorems

\* What a generator of SBOMs has listed is whole, still to come, being written or
\* counted failed; only what it listed is to come; what a run over all images has
\* not listed has a file of more than 1000 bytes.
AllAccounted ==
    job.tool \in SbomTools =>
        \A i \in Images :
            /\ job.seen[i] # NoVex => \/ sbom[i].kind = "full"
                                      \/ i \in job.todo \/ i = job.writing \/ i \in job.failed
            /\ i \in job.todo \/ i = job.writing => job.seen[i] # NoVex
            /\ job.tool = "all" /\ job.seen[i] = NoVex => HasSbom(i)
\* A listed VEX document is still to come, being written, or as it was listed.
VexAccounted ==
    job.tool = "vex" =>
        \A i \in Images : job.seen[i] # NoVex =>
            i \in job.todo \/ i = job.writing \/ vex[i] = job.seen[i]
WorkInv == TypeOK /\ AllAccounted /\ VexAccounted

LEMMA JobType ==
    ASSUME NEW t \in SbomTools \cup {"none", "vex"}, NEW todo \in SUBSET Images,
           NEW w \in Images \cup {NoImage}, NEW x \in SUBSET Names,
           NEW f \in SUBSET Images, NEW s \in [Images -> Nat]
    PROVE  Job(t, todo, w, x, f, s) \in Jobs
BY DEF Job, Jobs

LEMMA UnseenType == Unseen \in [Images -> Nat]
BY DEF Unseen, NoVex

\* What a run lists it sees, in some version, and nothing else.
LEMMA StartedJob ==
    ASSUME TypeOK, NEW t \in SbomTools \cup {"vex"}, NEW todo \in SUBSET Images, StartJob(t, todo)
    PROVE  /\ TypeOK'
           /\ job'.tool = t /\ job'.todo = todo /\ job'.writing = NoImage
           /\ \A i \in Images : job'.seen[i] # NoVex <=> i \in todo
           /\ UNCHANGED <<df, manifest, sbom, vex, edits>>
<1> DEFINE s == [i \in Images |-> IF i \in todo THEN manifest[i].version ELSE NoVex]
<1>1. \A i \in Images : manifest[i].version \in Nat \ {NoVex}
    BY DEF TypeOK, AnyManifest
<1>2. s \in [Images -> Nat] /\ \A i \in Images : s[i] # NoVex <=> i \in todo
    BY <1>1 DEF NoVex
<1>3. job' = Job(t, todo, NoImage, {}, {}, s) /\ UNCHANGED <<df, manifest, sbom, vex, edits>>
    BY DEF StartJob
<1>4. job'.tool = t /\ job'.todo = todo /\ job'.writing = NoImage /\ job'.seen = s
    BY <1>3 DEF Job
<1>5. job' \in Jobs
    BY <1>2, <1>3, JobType
<1>. QED BY <1>2, <1>3, <1>4, <1>5 DEF TypeOK

\* What a generator writes names packages, the shim and junk.
LEMMA GeneratedNames ==
    ASSUME NEW d PROVE GenerateSbom(d) \subseteq Names
BY DEF GenerateSbom, ExtractPackages, On, Names, ShimIn

LEMMA ManifestType ==
    ASSUME NEW t \in Tiers, NEW l \in Tiers \cup {"none"}, NEW b \in BOOLEAN, NEW c \in BOOLEAN,
           NEW v \in Nat \ {NoVex}
    PROVE  Manifest(t, l, b, c, v) \in AnyManifest
BY DEF Manifest, AnyManifest

LEMMA WorkInit == Init => WorkInv
<1> SUFFICES ASSUME Init PROVE WorkInv
    OBVIOUS
<1>1. df \in [Images -> AnyDockerfile]
    BY EvidenceConstants DEF Init
<1>2. manifest \in [Images -> AnyManifest]
    <2>1. PICK tier \in [Images -> Tiers], complete \in [Images -> BOOLEAN] :
              manifest = [i \in Images |-> Manifest(tier[i], tier[i], FALSE, complete[i], 1)]
        BY DEF Init
    <2>2. ASSUME NEW i \in Images
          PROVE  Manifest(tier[i], tier[i], FALSE, complete[i], 1) \in AnyManifest
        <3>1. /\ tier[i] \in Tiers /\ tier[i] \in Tiers \cup {"none"} /\ FALSE \in BOOLEAN
              /\ complete[i] \in BOOLEAN /\ 1 \in Nat \ {NoVex}
            BY DEF NoVex
        <3>. QED BY <3>1, ManifestType
    <2>. QED BY <2>1, <2>2
<1>3. /\ sbom \in [Images -> Sboms]
      /\ vex \in [Images -> Nat] /\ edits \in Nat
    BY DEF Init, NoSbom, Sbom, Sboms, NoVex
<1>4. job = Job("none", {}, NoImage, {}, {}, Unseen)
    BY DEF Init, NoJob
<1>5. job.tool = "none"
    BY <1>4 DEF Job
<1>. QED
    BY <1>1, <1>2, <1>3, <1>4, <1>5, JobType, UnseenType
    DEF WorkInv, TypeOK, AllAccounted, VexAccounted, SbomTools

\* The runs begin with all that they have to do.
LEMMA WorkStart ==
    ASSUME WorkInv, \/ \E mode \in {"all", "tier1"} : StartSboms(mode)
                    \/ \E i \in Images : StartSbomOf(i)
                    \/ StartVex
    PROVE  WorkInv'
<1>1. CASE \E mode \in {"all", "tier1"} : StartSboms(mode)
    <2>1. PICK mode \in {"all", "tier1"} : StartJob(mode, SbomTodo(mode))
        BY <1>1 DEF StartSboms
    <2>2. SbomTodo(mode) \in SUBSET Images /\ mode \in SbomTools
        BY DEF SbomTodo, SbomTools
    <2>3. /\ TypeOK' /\ job'.tool = mode /\ job'.todo = SbomTodo(mode) /\ job'.writing = NoImage
          /\ \A i \in Images : job'.seen[i] # NoVex <=> i \in SbomTodo(mode)
          /\ UNCHANGED sbom
        BY <2>1, <2>2, StartedJob DEF WorkInv
    <2>4. AllAccounted'
        BY <2>3, EvidenceConstants DEF AllAccounted, SbomTodo, HasSbom
    <2>. QED BY <2>2, <2>3, <2>4 DEF WorkInv, VexAccounted, SbomTools
<1>2. CASE \E i \in Images : StartSbomOf(i)
    <2>1. PICK i \in Images : StartJob("image", {i})
        BY <1>2 DEF StartSbomOf
    <2>2. /\ TypeOK' /\ job'.tool = "image" /\ job'.todo = {i} /\ job'.writing = NoImage
          /\ \A j \in Images : job'.seen[j] # NoVex <=> j \in {i}
        BY <2>1, StartedJob DEF WorkInv, SbomTools
    <2>. QED BY <2>2, EvidenceConstants DEF WorkInv, AllAccounted, VexAccounted
<1>3. CASE StartVex
    <2>1. MissingVex \in SUBSET Images /\ StartJob("vex", MissingVex)
        BY <1>3 DEF StartVex, MissingVex
    <2>2. /\ TypeOK' /\ job'.tool = "vex" /\ job'.todo = MissingVex
          /\ \A j \in Images : job'.seen[j] # NoVex <=> j \in MissingVex
        BY <2>1, StartedJob DEF WorkInv
    <2>. QED BY <2>2 DEF WorkInv, AllAccounted, VexAccounted, SbomTools
<1>. QED BY <1>1, <1>2, <1>3

\* An SBOM run passes over, opens, tears and writes one image after another.
LEMMA WorkSbom ==
    ASSUME WorkInv, NEW i \in Images, SkipImage(i) \/ OpenSbom(i) \/ TearSbom(i) \/ WriteSbom(i)
    PROVE  WorkInv'
<1> USE DEF WorkInv
<1>0. /\ job.todo \in SUBSET Images /\ job.text \in SUBSET Names /\ job.failed \in SUBSET Images
      /\ job.seen \in [Images -> Nat]
      /\ i # NoImage /\ NoImage \notin Images /\ DOMAIN sbom = Images
    BY EvidenceConstants DEF TypeOK, Jobs
<1>1. job.tool \in SbomTools /\ job.tool # "vex"
    BY DEF SkipImage, OpenSbom, TearSbom, WriteSbom, Generating, Writing, SbomTools
<1>2. CASE SkipImage(i)
    <2>1. job' = Job(job.tool, job.todo \ {i}, NoImage, {}, job.failed \cup {i}, job.seen)
        BY <1>2 DEF SkipImage
    <2>2. /\ job'.tool = job.tool /\ job'.todo = job.todo \ {i} /\ job'.failed = job.failed \cup {i}
          /\ job'.seen = job.seen /\ job'.writing = NoImage /\ job.writing = NoImage /\ sbom' = sbom
        BY <1>2, <2>1 DEF Job, SkipImage, Generating, InTurn
    <2>3. TypeOK'
        BY <1>0, <1>1, <1>2, <2>1, JobType DEF TypeOK, SkipImage, Others
    <2>4. AllAccounted'
        BY <1>0, <2>2 DEF AllAccounted, HasSbom
    <2>. QED BY <1>1, <2>2, <2>3, <2>4 DEF VexAccounted
<1>3. CASE OpenSbom(i)
    <2>1. /\ job' = Job(job.tool, job.todo \ {i}, i, GenerateSbom(df[i]), job.failed, job.seen)
          /\ sbom' = [sbom EXCEPT ![i] = BlankSbom]
        BY <1>3 DEF OpenSbom
    <2>2. /\ job'.tool = job.tool /\ job'.todo = job.todo \ {i} /\ job'.failed = job.failed
          /\ job'.seen = job.seen /\ job'.writing = i /\ job.writing = NoImage /\ i \in job.todo
        BY <1>3, <2>1 DEF Job, OpenSbom, Generating, InTurn
    <2>3. BlankSbom \in Sboms
        BY DEF BlankSbom, Sbom, Sboms
    <2>4. TypeOK'
        BY <1>0, <1>1, <1>3, <2>1, <2>3, GeneratedNames, JobType
        DEF TypeOK, OpenSbom, Others
    <2>5. \A j \in Images \ {i} : sbom'[j] = sbom[j]
        BY <1>0, <2>1
    <2>6. AllAccounted'
        BY <1>0, <1>1, <2>2, <2>5 DEF AllAccounted, HasSbom
    <2>. QED BY <1>1, <2>2, <2>4, <2>6 DEF VexAccounted
<1>4. CASE TearSbom(i)
    <2>1. job' = job /\ sbom' = [sbom EXCEPT ![i] = TornSbom] /\ job.writing = i
        BY <1>4 DEF TearSbom, Writing, Others
    <2>2. TornSbom \in Sboms /\ TornSbom.kind = "torn"
        BY DEF TornSbom, Sbom, Sboms
    <2>3. TypeOK'
        BY <1>4, <2>1, <2>2 DEF TypeOK, TearSbom, Others
    <2>4. sbom'[i].kind = "torn" /\ \A j \in Images \ {i} : sbom'[j] = sbom[j]
        BY <1>0, <2>1, <2>2
    <2>5. AllAccounted'
        BY <2>1, <2>4 DEF AllAccounted, HasSbom
    <2>. QED BY <1>1, <2>1, <2>3, <2>5 DEF VexAccounted
<1>5. CASE WriteSbom(i)
    <2>0. job.writing = i
        BY <1>5 DEF WriteSbom, Writing
    <2>1. CASE /\ sbom' = [sbom EXCEPT ![i] = Sbom("full", job.text)]
               /\ job' = Job(job.tool, job.todo, NoImage, {}, job.failed, job.seen)
        <3>1. /\ job'.tool = job.tool /\ job'.todo = job.todo /\ job'.failed = job.failed
              /\ job'.seen = job.seen /\ job'.writing = NoImage
            BY <2>1 DEF Job
        <3>2. Sbom("full", job.text) \in Sboms
            BY <1>0 DEF Sbom, Sboms
        <3>3. TypeOK'
            BY <1>0, <1>1, <1>5, <2>1, <3>2, JobType DEF TypeOK, WriteSbom, Others
        <3>4. sbom'[i].kind = "full" /\ \A j \in Images \ {i} : sbom'[j] = sbom[j]
            BY <1>0, <2>1 DEF Sbom
        <3>5. AllAccounted'
            BY <1>0, <2>0, <3>1, <3>4 DEF AllAccounted, HasSbom
        <3>. QED BY <1>1, <3>1, <3>3, <3>5 DEF VexAccounted
    <2>2. CASE /\ job' = Job(job.tool, job.todo, NoImage, {}, job.failed \cup {i}, job.seen)
               /\ UNCHANGED sbom
        <3>1. /\ job'.tool = job.tool /\ job'.todo = job.todo /\ job'.failed = job.failed \cup {i}
              /\ job'.seen = job.seen /\ job'.writing = NoImage
            BY <2>2 DEF Job
        <3>2. TypeOK'
            BY <1>0, <1>1, <1>5, <2>2, JobType DEF TypeOK, WriteSbom, Others
        <3>3. AllAccounted'
            BY <1>0, <2>0, <2>2, <3>1 DEF AllAccounted, HasSbom
        <3>. QED BY <1>1, <3>1, <3>2, <3>3 DEF VexAccounted
    <2>. QED BY <1>5, <2>1, <2>2 DEF WriteSbom
<1>. QED BY <1>2, <1>3, <1>4, <1>5

\* A VEX run opens and writes one document after another.
LEMMA WorkVex ==
    ASSUME WorkInv, NEW i \in Images, OpenVex(i) \/ WriteVex(i)
    PROVE  WorkInv'
<1> USE DEF WorkInv
<1>0. /\ job.todo \in SUBSET Images /\ job.seen \in [Images -> Nat] /\ job.tool = "vex"
      /\ i # NoImage /\ DOMAIN vex = Images /\ TornVex \in Nat
    BY EvidenceConstants DEF TypeOK, Jobs, OpenVex, WriteVex, TornVex
<1>1. CASE OpenVex(i)
    <2>1. /\ job' = Job("vex", job.todo \ {i}, i, {}, {}, job.seen)
          /\ vex' = [vex EXCEPT ![i] = TornVex]
        BY <1>1 DEF OpenVex
    <2>2. /\ job'.tool = "vex" /\ job'.todo = job.todo \ {i} /\ job'.writing = i
          /\ job'.seen = job.seen /\ job.writing = NoImage
        BY <1>1, <2>1 DEF Job, OpenVex, InTurn
    <2>3. TypeOK'
        BY <1>0, <1>1, <2>1, JobType DEF TypeOK, OpenVex, Others, SbomTools
    <2>4. \A j \in Images \ {i} : vex'[j] = vex[j]
        BY <1>0, <2>1
    <2>. QED BY <1>0, <2>2, <2>3, <2>4, EvidenceConstants DEF VexAccounted, AllAccounted, SbomTools
<1>2. CASE WriteVex(i)
    <2>1. /\ job' = Job("vex", job.todo, NoImage, {}, {}, job.seen)
          /\ vex' = [vex EXCEPT ![i] = job.seen[i]] /\ job.writing = i
        BY <1>2 DEF WriteVex
    <2>2. job'.tool = "vex" /\ job'.todo = job.todo /\ job'.seen = job.seen
        BY <2>1 DEF Job
    <2>3. TypeOK'
        BY <1>0, <1>2, <2>1, JobType DEF TypeOK, WriteVex, Others, SbomTools
    <2>4. vex'[i] = job.seen[i] /\ \A j \in Images \ {i} : vex'[j] = vex[j]
        BY <1>0, <2>1
    <2>. QED BY <1>0, <2>1, <2>2, <2>3, <2>4 DEF VexAccounted, AllAccounted, SbomTools
<1>. QED BY <1>1, <1>2

\* A maintainer's edit takes no SBOM from a run.
LEMMA WorkEdits ==
    ASSUME WorkInv, NEW j \in Images,
           EditDockerfile(j) \/ Bump(j) \/ SetTier(j) \/ RepairManifest(j) \/ Syft(j)
    PROVE  WorkInv'
<1> USE DEF WorkInv
<1>0. job' = job /\ edits' \in Nat
    <2>1. edits \in Nat
        BY DEF TypeOK
    <2>2. job' = job /\ edits' = edits + 1
        BY DEF EditDockerfile, Bump, SetTier, RepairManifest, Syft, Edits
    <2>. QED BY <2>1, <2>2
<1>1. CASE EditDockerfile(j)
    <2>1. df' \in [Images -> AnyDockerfile] /\ UNCHANGED <<manifest, sbom, vex>>
        BY <1>1, EvidenceConstants DEF EditDockerfile, Edits, TypeOK
    <2>. QED BY <1>0, <2>1 DEF TypeOK, AllAccounted, VexAccounted, HasSbom
<1>2. CASE Bump(j) \/ SetTier(j) \/ RepairManifest(j)
    <2>2. manifest[j] \in AnyManifest
        BY DEF TypeOK
    <2>3. [manifest[j] EXCEPT !.version = manifest[j].version + 1] \in AnyManifest
        BY <2>2 DEF AnyManifest, NoVex
    <2>4. \A t \in Tiers : [manifest[j] EXCEPT !.tier = t] \in AnyManifest
        BY <2>2 DEF AnyManifest
    <2>5. Manifest(manifest[j].tier, manifest[j].tier, FALSE, TRUE, manifest[j].version) \in AnyManifest
        BY ManifestType, <2>2 DEF AnyManifest
    <2>6. manifest' \in [Images -> AnyManifest]
        BY <1>2, <2>3, <2>4, <2>5 DEF Bump, SetTier, RepairManifest, TypeOK
    <2>7. UNCHANGED <<df, sbom, vex>>
        BY <1>2 DEF Bump, SetTier, RepairManifest, Edits
    <2>. QED BY <1>0, <2>6, <2>7 DEF TypeOK, AllAccounted, VexAccounted, HasSbom
<1>3. CASE Syft(j)
    <2>1. PICK names \in SUBSET Words :
              sbom' = [sbom EXCEPT ![j] = Sbom("full", names \cup ShimIn(df[j]))]
        BY <1>3 DEF Syft
    <2> DEFINE x == Sbom("full", names \cup ShimIn(df[j]))
    <2>2. x \in Sboms /\ x.kind = "full"
        BY DEF Sbom, Sboms, ShimIn, Names
    <2>3. sbom' = [sbom EXCEPT ![j] = x] /\ UNCHANGED <<df, manifest, vex>>
        BY <1>3, <2>1 DEF Syft, Edits
    <2>4. sbom'[j].kind = "full" /\ \A i \in Images \ {j} : sbom'[i] = sbom[i]
        BY <2>2, <2>3 DEF TypeOK
    <2>5. TypeOK'
        BY <1>0, <2>2, <2>3 DEF TypeOK
    <2>6. AllAccounted'
        BY <1>0, <2>4 DEF AllAccounted, HasSbom
    <2>. QED BY <1>0, <2>3, <2>5, <2>6 DEF VexAccounted
<1>. QED BY <1>1, <1>2, <1>3

\* The label script changes labels and nothing of a run; it takes neither the tier
\* from a manifest nor a field.
LEMMA WorkLabels ==
    ASSUME WorkInv, StandardizeTierLabels
    PROVE  /\ WorkInv'
           /\ \A i \in Images : /\ manifest'[i].tier = manifest[i].tier
                                /\ manifest'[i].complete = manifest[i].complete
<1> USE DEF WorkInv
<1>1. ASSUME NEW i \in Images
      PROVE  /\ Standardized(manifest[i]) \in AnyManifest
             /\ Standardized(manifest[i]).tier = manifest[i].tier
             /\ Standardized(manifest[i]).complete = manifest[i].complete
    <2> DEFINE m == manifest[i]
    <2>1. m \in AnyManifest
        BY DEF TypeOK
    <2>2. m.tier \in Tiers /\ m.label \in Tiers \cup {"none"} /\ m.complete \in BOOLEAN
          /\ m.version \in Nat \ {NoVex}
        BY <2>1 DEF AnyManifest
    <2>3. Manifest(m.tier, m.tier, m.label # "none", m.complete, m.version) \in AnyManifest
        BY <2>2, ManifestType
    <2>. QED BY <2>1, <2>3 DEF Standardized, Manifest
<1>2. /\ manifest' = [i \in Images |-> Standardized(manifest[i])]
      /\ UNCHANGED <<df, sbom, vex, job, edits>>
    BY DEF StandardizeTierLabels
<1>. QED BY <1>1, <1>2 DEF TypeOK, AllAccounted, VexAccounted, HasSbom

LEMMA WorkStep == WorkInv /\ [Next]_<<vars, passed>> => WorkInv'
<1> SUFFICES ASSUME WorkInv, [Next]_<<vars, passed>> PROVE WorkInv'
    OBVIOUS
<1>1. CASE EndJob \/ KillJob
    <2>1. job' = Job("none", {}, NoImage, {}, {}, Unseen) /\ UNCHANGED <<df, manifest, edits, sbom, vex>>
        BY <1>1 DEF EndJob, KillJob, NoJob, Others
    <2>2. job'.tool = "none"
        BY <2>1 DEF Job
    <2>. QED BY <2>1, <2>2, JobType, UnseenType
         DEF WorkInv, TypeOK, AllAccounted, VexAccounted, SbomTools
<1>2. CASE UNCHANGED vars
    BY <1>2 DEF vars, WorkInv, TypeOK, AllAccounted, VexAccounted, HasSbom
<1>3. CASE Generators
    BY <1>1, <1>3, WorkStart, WorkSbom, WorkVex DEF Generators
<1>4. CASE StandardizeTierLabels \/ \E i \in Images : Maintain(i)
    <2>1. CASE \E i \in Images : StartSbomOf(i)
        BY <2>1, WorkStart
    <2>2. CASE \E i \in Images : Maintain(i) /\ ~StartSbomOf(i)
        BY <2>2, WorkEdits DEF Maintain
    <2>. QED BY <1>4, <2>1, <2>2, WorkLabels
<1>. QED
    BY <1>2, <1>3, <1>4 DEF Next, RunGovernance

THEOREM WorkInvariant == Spec => []WorkInv
BY WorkInit, WorkStep, PTL DEF Spec, GatesInit

\* However many runs were killed before, and whatever maintainers do while it
\* runs, a run of a generator that ends has left nothing out.
THEOREM RunsFinish == Spec => RunsFinishTheirWork
<1> DEFINE Done ==
        \A i \in Images :
            /\ job.tool \in SbomTools /\ job.seen[i] # NoVex /\ i \notin job.failed =>
                   i \in ValidSboms \cap LargeSboms
            /\ job.tool = "all" /\ job.seen[i] = NoVex => i \in LargeSboms
            /\ job.tool = "vex" /\ job.seen[i] # NoVex =>
                   i \in VexDocuments /\ vex[i] = job.seen[i]
<1>1. WorkInv /\ EndJob => Done
    <2> SUFFICES ASSUME WorkInv, EndJob PROVE Done
        OBVIOUS
    <2>1. job.todo = {} /\ job.writing = NoImage /\ NoImage \notin Images
        BY EvidenceConstants DEF EndJob
    <2>. QED BY <2>1 DEF WorkInv, AllAccounted, VexAccounted, VexDocuments, HasSbom, ValidSboms,
                         LargeSboms, SbomTools
<1>2. WorkInv /\ [Next]_<<vars, passed>> => [EndJob => Done]_vars
    BY <1>1
<1>. QED BY <1>2, WorkInvariant, PTL DEF Spec, RunsFinishTheirWork

\* Only a full SBOM lists anything.
Listing == \A i \in Images : sbom[i].names # {} => sbom[i].kind = "full"

LEMMA ListingStep == TypeOK /\ Listing /\ [Next]_<<vars, passed>> => Listing'
<1> SUFFICES ASSUME TypeOK, Listing, [Next]_<<vars, passed>> PROVE Listing'
    OBVIOUS
<1>1. CASE UNCHANGED sbom
    BY <1>1 DEF Listing
<1>2. ASSUME NEW i \in Images, NEW x, x.names # {} => x.kind = "full",
             sbom' = [sbom EXCEPT ![i] = x]
      PROVE  Listing'
    <2>1. \A j \in Images : sbom'[j] = IF j = i THEN x ELSE sbom[j]
        BY <1>2 DEF TypeOK
    <2>. QED BY <1>2, <2>1 DEF Listing
<1>3. \A names : LET x == Sbom("full", names) IN x.names # {} => x.kind = "full"
    BY DEF Sbom
<1>4. BlankSbom.names = {} /\ TornSbom.names = {}
    BY DEF BlankSbom, TornSbom, Sbom
<1>5. ASSUME NEW i \in Images, OpenSbom(i) \/ TearSbom(i) \/ WriteSbom(i) \/ Syft(i) PROVE Listing'
    <2>1. UNCHANGED sbom \/ \E x : /\ x.names # {} => x.kind = "full"
                                   /\ sbom' = [sbom EXCEPT ![i] = x]
        BY <1>3, <1>4, <1>5 DEF OpenSbom, TearSbom, WriteSbom, Syft
    <2>. QED BY <1>1, <1>2, <2>1
<1>6. ASSUME \/ \E i \in Images : \/ SkipImage(i) \/ OpenVex(i) \/ WriteVex(i) \/ StartSbomOf(i)
                                  \/ EditDockerfile(i) \/ Bump(i) \/ SetTier(i) \/ RepairManifest(i)
             \/ \E mode \in {"all", "tier1"} : StartSboms(mode)
             \/ StartVex \/ EndJob \/ KillJob \/ StandardizeTierLabels \/ RunGovernance
             \/ UNCHANGED <<vars, passed>>
      PROVE  UNCHANGED sbom
    BY <1>6 DEF SkipImage, OpenVex, WriteVex, StartSbomOf, EditDockerfile, Bump, SetTier,
                RepairManifest, Edits, StartSboms, StartVex, StartJob, EndJob, KillJob,
                StandardizeTierLabels, RunGovernance, vars
<1>. QED BY <1>1, <1>5, <1>6 DEF Next, Generators, Maintain

\* A word's normal form is a word.
LEMMA NormalWord == ASSUME NEW w \in Words PROVE Normal(w) \in Words
BY EvidenceConstants DEF Normal

\* No difference counted is no difference, since there are finitely many.
LEMMA NoDiscrepancy ==
    ASSUME TypeOK, NEW i \in Images, ~(Discrepancies(i) > 0)
    PROVE  Recorded(i) = Recognized(i)
<1>1. IsFiniteSet(Names)
    <2>1. IsFiniteSet(Words \cup {Junk})
        BY EvidenceConstants, FS_AddElement
    <2>2. IsFiniteSet((Words \cup {Junk}) \cup {Shim})
        BY <2>1, FS_AddElement
    <2>3. Names = (Words \cup {Junk}) \cup {Shim}
        BY DEF Names
    <2>. QED BY <2>2, <2>3
<1>2. OrphanedSbom(i) \in SUBSET Names /\ MissingFromSbom(i) \in SUBSET Names
    <2>1. \A n \in Names : Normal(n) \in Names
        BY NormalWord DEF Names, Normal
    <2>2. sbom[i].names \subseteq Names
        BY DEF TypeOK, Sboms
    <2>3. Recorded(i) \subseteq Names
        BY <2>1, <2>2 DEF Recorded, NormalizedAll
    <2>4. Recognized(i) \subseteq Names
        BY <2>1 DEF Recognized, NormalizedAll, On, Names
    <2>. QED BY <2>3, <2>4 DEF OrphanedSbom, MissingFromSbom
<1>3. IsFiniteSet(OrphanedSbom(i)) /\ IsFiniteSet(MissingFromSbom(i))
    BY <1>1, <1>2, FS_Subset
<1>4. Cardinality(OrphanedSbom(i)) \in Nat /\ Cardinality(MissingFromSbom(i)) \in Nat
    BY <1>3, FS_CardinalityType
<1>5. Cardinality(OrphanedSbom(i)) = 0 /\ Cardinality(MissingFromSbom(i)) = 0
    BY <1>4 DEF Discrepancies
<1>6. OrphanedSbom(i) = {} /\ MissingFromSbom(i) = {}
    BY <1>3, <1>5, FS_EmptySet
<1>. QED BY <1>6 DEF OrphanedSbom, MissingFromSbom

\* A clean verdict of the drift report: nothing in an SBOM that its Dockerfile
\* does not install in some version, and no chained package that --shared would
\* not find under some spelling.
THEOREM CleanDrift == Spec => []CleanDriftIsExact
<1>1. TypeOK /\ Listing => CleanDriftIsExact
    <2> SUFFICES ASSUME TypeOK, Listing, DriftGreen(0), NEW i \in Images \ Bare
                 PROVE  /\ \A n \in sbom[i].names : \E w \in Installed(df[i]) : Normal(n) = Normal(w)
                        /\ \A w \in On(df[i], {"chained"}) :
                              \E n \in Words : Normal(n) = Normal(w) /\ i \in FindShared(n)
        BY DEF CleanDriftIsExact
    <2>1. Recorded(i) = Recognized(i)
        BY NoDiscrepancy DEF DriftGreen, Drifted
    <2>2. NormalizedAll(sbom[i].names) = NormalizedAll(On(df[i], {"chained"}))
        BY <2>1 DEF Recorded, Recognized
    <2>3. ASSUME NEW n \in sbom[i].names PROVE \E w \in Installed(df[i]) : Normal(n) = Normal(w)
        <3>1. PICK w \in On(df[i], {"chained"}) : Normal(n) = Normal(w)
            BY <2>2 DEF NormalizedAll
        <3>. QED BY <3>1 DEF On, Installed
    <2>4. ASSUME NEW w \in On(df[i], {"chained"})
          PROVE  \E n \in Words : Normal(n) = Normal(w) /\ i \in FindShared(n)
        <3>1. PICK n \in sbom[i].names : Normal(n) = Normal(w)
            BY <2>2 DEF NormalizedAll
        <3>2. n \in Words
            BY <3>1, NormalWord DEF On, Normal
        <3>. QED BY <3>1, <3>2 DEF FindShared, Listing
    <2>. QED BY <2>3, <2>4
<1>2. Init => Listing
    BY DEF Init, NoSbom, Sbom, Listing
<1>3. WorkInv => TypeOK
    BY DEF WorkInv
<1>. QED BY <1>1, <1>2, <1>3, ListingStep, WorkInvariant, PTL DEF Spec, GatesInit

-----------------------------------------------------------------------------
(* What governance has passed.                                             *)

\* An image that has passed breaks no clause, says critical, and is neither to
\* come in a run nor being written.
Standing(i) ==
    /\ ContractViolations(i) = {}
    /\ manifest[i].tier = "critical"
    /\ i \notin Underway
PassedInv == passed \subseteq Images /\ \A i \in passed : Standing(i)

\* The contract reads the Dockerfile, the SBOM and whether the manifest is complete.
LEMMA ContractReads ==
    ASSUME NEW i \in Images, df'[i] = df[i], sbom'[i] = sbom[i],
           manifest'[i].complete = manifest[i].complete
    PROVE  ContractViolations(i)' = ContractViolations(i)
BY DEF ContractViolations, HasUser65532, NoHealthCheck, Says, UsesBase

\* What passes has a whole SBOM.
LEMMA ContractSbom ==
    ASSUME NEW i \in Images, ContractViolations(i) = {}
    PROVE  sbom[i].kind = "full"
BY DEF ContractViolations

\* A run for all images lists none that has passed.
LEMMA PassedStart ==
    ASSUME WorkInv, PassedInv, passed' = passed,
           StartVex \/ \E mode \in {"all", "tier1"} : StartSboms(mode)
    PROVE  PassedInv'
<1>1. PICK t \in SbomTools \cup {"vex"}, todo \in SUBSET Images :
          /\ StartJob(t, todo)
          /\ t # "vex" => todo \cap passed = {}
    <2>1. CASE StartVex
        BY <2>1 DEF StartVex, MissingVex
    <2>2. CASE \E mode \in {"all", "tier1"} : StartSboms(mode)
        <3>1. PICK mode \in {"all", "tier1"} : StartJob(mode, SbomTodo(mode))
            BY <2>2 DEF StartSboms
        <3>2. SbomTodo(mode) \in SUBSET Images /\ SbomTodo(mode) \cap passed = {}
            BY ContractSbom DEF SbomTodo, HasSbom, PassedInv, Standing
        <3>. QED BY <3>1, <3>2 DEF SbomTools
    <2>. QED BY <2>1, <2>2
<1>2. /\ job'.tool = t /\ job'.todo = todo /\ job'.writing = NoImage
      /\ UNCHANGED <<df, manifest, sbom>>
    BY <1>1, StartedJob DEF WorkInv
<1>3. Underway' \cap passed = {}
    BY <1>1, <1>2, EvidenceConstants DEF Underway, PassedInv, SbomTools
<1>. QED BY <1>2, <1>3, ContractReads DEF PassedInv, Standing

\* A run in progress touches only what it has to do.
LEMMA PassedRuns ==
    ASSUME WorkInv, PassedInv, passed' = passed, NEW i \in Images,
           SkipImage(i) \/ OpenSbom(i) \/ TearSbom(i) \/ WriteSbom(i) \/ OpenVex(i) \/ WriteVex(i)
    PROVE  PassedInv'
<1>1. /\ job'.tool = job.tool /\ job'.todo \subseteq job.todo
      /\ job'.writing \in job.todo \cup {NoImage, job.writing}
    BY DEF SkipImage, OpenSbom, TearSbom, WriteSbom, OpenVex, WriteVex, Generating, Writing, InTurn,
           Job, Others
<1>2. NoImage \notin passed
    BY EvidenceConstants DEF PassedInv
<1>3. Underway' \cap passed = {}
    BY <1>1, <1>2 DEF Underway, PassedInv, Standing
<1>4. /\ UNCHANGED <<df, manifest>>
      /\ \A k \in Images : k # i => sbom'[k] = sbom[k]
    BY DEF WorkInv, TypeOK, SkipImage, OpenSbom, TearSbom, WriteSbom, OpenVex, WriteVex, Others
<1>5. sbom' = sbom \/ i \in Underway
    BY DEF SkipImage, OpenSbom, TearSbom, WriteSbom, OpenVex, WriteVex, Generating, Writing, InTurn,
           Underway
<1>6. \A k \in passed : sbom'[k] = sbom[k]
    BY <1>4, <1>5 DEF PassedInv, Standing
<1>. QED BY <1>3, <1>4, <1>6, ContractReads DEF PassedInv, Standing

\* What a maintainer does to an image concerns that image.
LEMMA PassedMaintain ==
    ASSUME WorkInv, PassedInv, NEW i \in Images, Maintain(i), passed' = passed \ {i}
    PROVE  PassedInv'
<1>1. CASE StartSbomOf(i)
    <2>1. /\ job'.tool = "image" /\ job'.todo = {i} /\ job'.writing = NoImage
          /\ UNCHANGED <<df, manifest, sbom>>
        BY <1>1, StartedJob DEF StartSbomOf, WorkInv, SbomTools
    <2>2. Underway' \cap passed' = {}
        BY <2>1, EvidenceConstants DEF Underway, PassedInv
    <2>. QED BY <2>1, <2>2, ContractReads DEF PassedInv, Standing
<1>2. CASE ~StartSbomOf(i)
    <2>1. UNCHANGED job
        BY <1>2 DEF Maintain, EditDockerfile, Bump, SetTier, RepairManifest, Syft, Edits
    <2>2. \A k \in passed' : df'[k] = df[k] /\ sbom'[k] = sbom[k] /\ manifest'[k] = manifest[k]
        BY <1>2 DEF Maintain, EditDockerfile, Bump, SetTier, RepairManifest, Syft, Edits,
                    PassedInv, WorkInv, TypeOK
    <2>. QED BY <2>1, <2>2, ContractReads DEF PassedInv, Standing, Underway
<1>. QED BY <1>1, <1>2

LEMMA PassedStep == WorkInv /\ PassedInv /\ [Next]_<<vars, passed>> => PassedInv'
<1> SUFFICES ASSUME WorkInv, PassedInv, [Next]_<<vars, passed>> PROVE PassedInv'
    OBVIOUS
<1>1. CASE RunGovernance
    <2>1. /\ passed' = (DiscoverCritical \ NonCompliant) \ Underway
          /\ UNCHANGED <<df, manifest, sbom, job>>
        BY <1>1 DEF RunGovernance, vars
    <2>. QED BY <2>1, ContractReads DEF PassedInv, Standing, DiscoverCritical, NonCompliant, Underway
<1>2. CASE Generators /\ passed' = passed
    <2>1. CASE EndJob \/ KillJob
        <3>1. job' = NoJob /\ UNCHANGED <<df, manifest, sbom>>
            BY <2>1 DEF EndJob, KillJob, Others
        <3>2. Underway' = {}
            BY <3>1 DEF Underway, NoJob, Job, SbomTools
        <3>. QED BY <1>2, <3>1, <3>2, ContractReads DEF PassedInv, Standing
    <2>. QED BY <1>2, <2>1, PassedStart, PassedRuns DEF Generators
<1>3. CASE StandardizeTierLabels /\ passed' = passed
    <2>1. \A i \in Images : /\ manifest'[i].tier = manifest[i].tier
                            /\ manifest'[i].complete = manifest[i].complete
        BY <1>3, WorkLabels
    <2>2. UNCHANGED <<df, sbom, job>>
        BY <1>3 DEF StandardizeTierLabels
    <2>. QED BY <1>3, <2>1, <2>2, ContractReads DEF PassedInv, Standing, Underway
<1>4. CASE \E i \in Images : Maintain(i) /\ passed' = passed \ {i}
    BY <1>4, PassedMaintain
<1>5. CASE UNCHANGED <<vars, passed>>
    BY <1>5, ContractReads DEF vars, PassedInv, Standing, Underway
<1>. QED BY <1>1, <1>2, <1>3, <1>4, <1>5 DEF Next

\* What governance has passed goes on passing until a maintainer touches it,
\* whatever generators are started, killed or fail and whatever labels are
\* standardized in between.
THEOREM PassedStands == Spec => []PassedStaysPassed
<1>1. GatesInit => PassedInv
    BY DEF GatesInit, PassedInv
<1>2. PassedInv => PassedStaysPassed
    <2> SUFFICES ASSUME PassedInv, NEW i \in passed
                 PROVE  /\ ContractViolations(i) = {} /\ SupplyChainViolations(i) = {}
                        /\ i \in DiscoverCritical \/ i \in Critical \cap ManifestBlocks
        BY DEF PassedStaysPassed
    <2>1. i \in Images /\ Standing(i) /\ sbom[i].kind = "full"
        BY ContractSbom DEF PassedInv, Standing
    <2>2. SupplyChainViolations(i) = {}
        <3> DEFINE checks == [SC001 |-> sbom[i].kind = "none",
                              SC002 |-> sbom[i].kind \in {"blank", "torn"}]
        <3>1. SupplyChainViolations(i) = {code \in DOMAIN checks : checks[code]}
            BY DEF SupplyChainViolations, Codes
        <3>2. DOMAIN checks = {"SC001", "SC002"}
            OBVIOUS
        <3>3. ~checks["SC001"] /\ ~checks["SC002"]
            BY <2>1
        <3>. QED BY <3>1, <3>2, <3>3
    <2>. QED BY <2>1, <2>2 DEF Standing, DiscoverCritical, Critical, ManifestBlocks, InvalidManifest
<1>. QED BY <1>1, <1>2, PassedStep, WorkInvariant, PTL DEF Spec
=============================================================================
