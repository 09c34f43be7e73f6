----------------------------- MODULE ShimWiring -----------------------------
(***************************************************************************)
(* One image's Dockerfile and the scripts that wire the health shim into   *)
(* it and patch it afterwards.  The scripts read and write LINES, by what  *)
(* a line begins with; Docker reads INSTRUCTIONS, which a trailing         *)
(* backslash continues.  Both views are kept: the tools rewrite the        *)
(* sequence of lines, and Parses, Starts and Nonroot say what Docker and   *)
(* the shim make of it.                                                    *)
(*                                                                         *)
(* A line is the word it begins with, its arguments and whether a          *)
(* backslash ends it.  An argument is a sequence of words: one that a      *)
(* script joined with blanks has several, and the shim splits it again.    *)
(***************************************************************************)
EXTENDS Naturals, FiniteSets, SequencesExt

CONSTANTS Vocabulary,   \* the words of the Dockerfiles and of manifest.toml
          Originals,    \* the Dockerfiles the tools are first run on
          MaxLines      \* bound on the lines of a Dockerfile wired once more

VARIABLES file,         \* the lines of the Dockerfile
          known         \* what the scripts' tables and manifest.toml say of it

wiringVars == <<file, known>>

Canonical == "/usr/local/bin/shim"
Deprecated == "/shim"
ShimPaths == {Canonical, Deprecated}

LineOf(op, args, more) == [op |-> op, args |-> args, more |-> more]
Is(op, args) == LineOf(op, args, FALSE)
Arg(word) == <<word>>
Exec(words) == [i \in DOMAIN words |-> Arg(words[i])]

\* tables: the scripts' lists it is in; names: manifest.toml has its entrypoint;
\* program: the entrypoint it is made for, or inherits; args: of its CMD.
Image(tables, names, program, args) ==
    [tables |-> tables, names |-> names, program |-> program, args |-> args]

(***************************************************************************)
(* What a script finds by the beginning of a line.                         *)
(***************************************************************************)
LinesOf(f, op) == {i \in DOMAIN f : f[i].op = op}
FirstLine(f, op) == IF LinesOf(f, op) = {} THEN 0 ELSE Min(LinesOf(f, op))
LastLine(f, op) == IF LinesOf(f, op) = {} THEN 0 ELSE Max(LinesOf(f, op))
ArgsAt(f, i) == IF i = 0 THEN <<>> ELSE f[i].args
Stages(f, from) == {i \in LinesOf(f, "FROM") : f[i].args = Exec(<<from>>)}
Sets(f, name) == \E i \in LinesOf(f, "ENV") \cup LinesOf(f, "var") : f[i].args = Exec(<<name>>)
Labelled(f, name) == \E i \in LinesOf(f, "LABEL") : f[i].args = Exec(<<name>>)
\* f with piece[i] in place of its element i
Rewrite(f, piece) == FlattenSeq([i \in DOMAIN f |-> piece[i]])

(***************************************************************************)
(* What Docker makes of the lines.  An empty line does not end a continued *)
(* instruction.                                                            *)
(***************************************************************************)
Inside(f, i) ==
    \E p \in 1..(i - 1) : f[p].more /\ \A j \in (p + 1)..(i - 1) : f[j].op = "blank"
Begins(f, op) == {i \in LinesOf(f, op) : ~Inside(f, i)}
InForce(f, op) ==
    LET own == {i \in Begins(f, op) : i > LastLine(f, "FROM")}
    IN  IF own = {} THEN <<>> ELSE f[Max(own)].args

HealthCheckEnds(f, i) ==
    \/ f[i].args # <<>> /\ ~f[i].more
    \/ \E c \in LinesOf(f, "CMD") :
        c > i /\ \A k \in (i + 1)..c : Inside(f, k) /\ (k < c => f[k].op = "blank")
InHealthCheck(f, i) ==
    \E h \in Begins(f, "HEALTHCHECK") : h < i /\ \A k \in (h + 1)..i : Inside(f, k)

Parses(f) ==
    /\ \A i \in DOMAIN f : ~Inside(f, i) => f[i].op # "var"
    /\ \A i \in Begins(f, "HEALTHCHECK") : HealthCheckEnds(f, i)
    /\ \A i \in DOMAIN f : Inside(f, i) =>
        f[i].op \in IF InHealthCheck(f, i) THEN {"CMD", "blank"} ELSE {"var", "blank"}

(***************************************************************************)
(* What the container runs.  shim run takes the commands of its leading -c *)
(* flags, the last of them, and appends what follows after -- or from the  *)
(* first other argument on.                                                *)
(***************************************************************************)
WordsIn(args) == FlattenSeq(args)
Flags(args) == {k \in 0..Len(args) : 2 * k <= Len(args)
                                     /\ \A j \in 1..k : args[2 * j - 1] = Arg("-c")}
ShimRun(args) ==
    LET flags == Max(Flags(args))
        rest == SubSeq(args, 2 * flags + 1, Len(args))
        verbatim == IF rest # <<>> /\ Head(rest) = Arg("--") THEN Tail(rest) ELSE rest
    IN  (IF flags = 0 THEN <<>> ELSE args[2 * flags]) \o WordsIn(verbatim)

Argv(f) == (IF InForce(f, "ENTRYPOINT") = <<>> THEN <<known.program>>
            ELSE InForce(f, "ENTRYPOINT")) \o InForce(f, "CMD")
Copied(f) == {f[i].args[2][1] : i \in Begins(f, "COPY")}
Starts(f) ==
    LET argv == Argv(f)
    IN  IF \E path \in ShimPaths : argv[1] = Arg(path)
        THEN IF argv[1][1] \in Copied(f) /\ Len(argv) > 1 /\ argv[2] = Arg("run")
             THEN ShimRun(SubSeq(argv, 3, Len(argv))) ELSE <<>>
        ELSE WordsIn(argv)
Nonroot(f) == InForce(f, "USER") = Exec(<<"65532">>)

(***************************************************************************)
(* wire_health_shim.py: a shim stage, the copy of the shim, its health     *)
(* check, and ENTRYPOINT and CMD rewritten to run the old entrypoint.      *)
(***************************************************************************)
HasShimStage(f) == Stages(f, "health-shim") # {}
HasShimWiring(f) == LinesOf(f, "COPY") # {}
HasHealthPort(f) == LinesOf(f, "EXPOSE") # {}
DetectEntrypoint(f) == ArgsAt(f, FirstLine(f, "ENTRYPOINT"))
DetectCmdArgs(f) == ArgsAt(f, FirstLine(f, "CMD"))
NonServices == {"sleep", "/bin/sh", "sh"}

ShimStage == <<Is("FROM", Exec(<<"health-shim">>))>>
CopyShim == Is("COPY", Exec(<<"shim", Canonical>>))
ShimProbe == Exec(<<Canonical, "healthcheck">>)
ShimHealthCheck == <<LineOf("HEALTHCHECK", <<>>, TRUE), Is("CMD", ShimProbe)>>
ShimEntrypoint == Is("ENTRYPOINT", Exec(<<Canonical, "run">>))

\* Mutant: the arguments of the old CMD are forgotten.
WiredCmdForgetsArgs(entrypoint, args) == Is("CMD", <<Arg("-c"), entrypoint, Arg("--")>>)
WiredCmd(entrypoint, args) ==
    Is("CMD", <<Arg("-c"), entrypoint, Arg("--")>>
                  \o Rewrite(args, [k \in DOMAIN args |-> IF args[k] = entrypoint THEN <<>> ELSE <<args[k]>>]))

BuildWiredDockerfile(f) ==
    Rewrite(f, [i \in DOMAIN f |->
        CASE i = LastLine(f, "FROM") ->
                (IF HasShimStage(f) THEN <<>> ELSE ShimStage) \o <<f[i], CopyShim>>
          [] i = FirstLine(f, "HEALTHCHECK") -> <<>>
          [] i = FirstLine(f, "ENTRYPOINT") -> ShimHealthCheck \o <<ShimEntrypoint>>
          [] i = FirstLine(f, "CMD") -> <<WiredCmd(DetectEntrypoint(f)[1], DetectCmdArgs(f))>>
          [] OTHER -> <<f[i]>>])

\* force is --force
WireHealthShim ==
    /\ \E force \in BOOLEAN : HasShimWiring(file) => force /\ Len(file) <= MaxLines
    /\ HasHealthPort(file)
    /\ DetectEntrypoint(file) # <<>> /\ DetectEntrypoint(file)[1][1] \notin NonServices
    /\ file' = BuildWiredDockerfile(file)
    /\ UNCHANGED known

(***************************************************************************)
(* verify_shim_wiring.py, but for its port 9101 and security labels, which *)
(* the scripts above and below do not touch.                               *)
(***************************************************************************)
GetShimPath(f) ==
    IF \E arg \in ToSet(DetectEntrypoint(f)) : Canonical \in ToSet(arg)
    THEN Canonical ELSE Deprecated
HasHealthcheckShim(f) ==
    \E h \in LinesOf(f, "HEALTHCHECK"), c \in LinesOf(f, "CMD") :
        h < c /\ \E path \in ShimPaths : f[c].args = Exec(<<path, "healthcheck">>)
HasEntrypointShim(f) ==
    \E e \in LinesOf(f, "ENTRYPOINT") :
        /\ IsPrefix(Exec(<<GetShimPath(f), "run">>), f[e].args)
        /\ Len(f[e].args) = 2 \/ (Len(f[e].args) = 4 /\ f[e].args[3] = Arg("-c"))
CheckDockerfile(f) ==
    /\ HasShimStage(f) \/ Stages(f, "db-shim") # {}
    /\ HasShimWiring(f) /\ HasHealthcheckShim(f) /\ HasEntrypointShim(f)

(***************************************************************************)
(* wire_db_shims.py and wire_backup_schedules.py: blocks of ENV variables  *)
(* after USER, the latter also in the middle of the former's block.        *)
(***************************************************************************)
EnvBlock(names) ==
    [k \in DOMAIN names |->
        LineOf(IF k = 1 THEN "ENV" ELSE "var", Exec(<<names[k]>>), k < Len(names))]
DbEnv == EnvBlock(<<"SHIM_BACKUP_ENABLED=false", "SHIM_BACKUP_DB_PORT", "SHIM_AUDIT_ENABLED">>)
BackupEnv == EnvBlock(<<"SHIM_BACKUP_ENABLED=true", "SHIM_BACKUP_SCHEDULE", "SHIM_BACKUP_OUTPUT_DIR">>)
ShimVariables == {"SHIM_BACKUP_ENABLED=false", "SHIM_BACKUP_ENABLED=true", "SHIM_BACKUP_DB_PORT",
                  "SHIM_AUDIT_ENABLED", "SHIM_BACKUP_SCHEDULE", "SHIM_BACKUP_OUTPUT_DIR",
                  "SHIM_METRICS_ENABLED", "SHIM_ALERTING_ENABLED", "SHIM_SCHEDULER_ENABLED"}

\* the text of the block occurs: its last line may be continued by now
HasBlock(f, block) ==
    \E i \in DOMAIN f : /\ i + Len(block) - 1 <= Len(f)
                       /\ \A k \in DOMAIN block :
                            /\ f[i + k - 1].op = block[k].op /\ f[i + k - 1].args = block[k].args
                            /\ block[k].more => f[i + k - 1].more
AfterUsers(f, users, block) ==
    Rewrite(f, [i \in DOMAIN f |-> IF i \in users THEN <<f[i]>> \o block ELSE <<f[i]>>])

WireDbShim ==
    LET wired == [i \in DOMAIN file |-> IF i \in Stages(file, "health-shim")
                                       THEN Is("FROM", Exec(<<"db-shim">>)) ELSE file[i]]
    IN  /\ "db" \in known.tables
        /\ \E force \in BOOLEAN : Stages(file, "db-shim") # {} => force /\ Len(file) <= MaxLines
        /\ file' = IF HasBlock(wired, DbEnv) THEN wired ELSE AfterUsers(wired, LinesOf(wired, "USER"), DbEnv)
        /\ UNCHANGED known

WithBackupEnabled(f) ==
    [i \in DOMAIN f |-> [f[i] EXCEPT !.args = IF @ = Exec(<<"SHIM_BACKUP_ENABLED=false">>)
                                             THEN Exec(<<"SHIM_BACKUP_ENABLED=true">>) ELSE @]]
Ports(f) ==
    {i \in LinesOf(f, "ENV") \cup LinesOf(f, "var") : f[i].args = Exec(<<"SHIM_BACKUP_DB_PORT">>)}
FirstPort(f) == {i \in Ports(f) : \A j \in Ports(f) : i <= j}
\* The block's first line has no ENV of its own here.
BackupVars == [k \in DOMAIN BackupEnv |-> [BackupEnv[k] EXCEPT !.op = "var"]]

WireBackupSchedule ==
    /\ "db" \in known.tables
    /\ HasShimStage(file) \/ Stages(file, "db-shim") # {}
    /\ \E force \in BOOLEAN : Sets(file, "SHIM_BACKUP_SCHEDULE") => force
    /\ file' = IF Sets(file, "SHIM_BACKUP_SCHEDULE") THEN WithBackupEnabled(file)
               ELSE IF Sets(file, "SHIM_BACKUP_ENABLED=false")
               THEN AfterUsers(WithBackupEnabled(file), FirstPort(file), BackupVars)
               ELSE AfterUsers(file, {FirstLine(file, "USER")}, BackupEnv)
    /\ UNCHANGED known

(***************************************************************************)
(* wire_observability.py: variables added to the last block that has one   *)
(* of the shim's, and the Prometheus labels.                               *)
(***************************************************************************)
InFinalStage(f, op) == {i \in LinesOf(f, op) : i > LastLine(f, "FROM")}
IsShimVariable(line) == line.op = "var" /\ line.args[1][1] \in ShimVariables
BlockEnd(f, i) ==
    Max({e \in i..Len(f) : \A j \in (i + 1)..e : IsShimVariable(f[j])})
ShimEnvBlocks(f) ==
    {i \in InFinalStage(f, "ENV") : f[i].args[1][1] \in ShimVariables \/ BlockEnd(f, i) > i}

\* Mutant: the line above the new variable gets no backslash.
AddVarToEnvBlockUncontinued(f, name) ==
    IF ShimEnvBlocks(f) # {}
    THEN InsertAt(f, BlockEnd(f, Max(ShimEnvBlocks(f))) + 1, Is("var", Exec(<<name>>)))
    ELSE Append(f, Is("ENV", Exec(<<name>>)))
\* A backslash at the end of the block is dropped and not put back.
AddVarToEnvBlock(f, name) ==
    IF ShimEnvBlocks(f) # {}
    THEN LET end == BlockEnd(f, Max(ShimEnvBlocks(f)))
         IN  InsertAt([f EXCEPT ![end].more = ~@], end + 1, Is("var", Exec(<<name>>)))
    ELSE IF InFinalStage(f, "USER") # {}
         THEN InsertAt(f, Min(InFinalStage(f, "USER")) + 1, Is("ENV", Exec(<<name>>)))
         ELSE Append(f, Is("ENV", Exec(<<name>>)))
AddEnv(f, name, applies) ==
    IF applies /\ ~Sets(f, name) THEN AddVarToEnvBlock(f, name) ELSE f
AddPrometheusLabels(f) ==
    IF Labelled(f, "prometheus") THEN f ELSE Append(f, Is("LABEL", Exec(<<"prometheus">>)))

Observed(f) ==
    LET db == "db" \in known.tables /\ Stages(f, "db-shim") # {}
        measured == AddPrometheusLabels(AddEnv(f, "SHIM_METRICS_ENABLED", TRUE))
    IN  AddEnv(AddEnv(measured, "SHIM_ALERTING_ENABLED", db), "SHIM_SCHEDULER_ENABLED", db)

WireObservability ==
    /\ HasShimWiring(file) /\ Observed(file) # file
    /\ file' = Observed(file)
    /\ UNCHANGED known

(***************************************************************************)
(* enforce_nonroot.py, of repackaged images only: USER before the last     *)
(* line that begins with ENTRYPOINT, or else with CMD.                     *)
(***************************************************************************)
Exemptions == {"repack-upstream-init", "chainguard-repack"}
IsRepack(f) == \E label \in Exemptions : Labelled(f, label)
NonrootUser == Is("USER", Exec(<<"65532">>))
HasUser(f) == \E i \in LinesOf(f, "USER") : f[i] = NonrootUser
FindInsertPoint(f) ==
    LET late == InFinalStage(f, "LABEL") \cup InFinalStage(f, "EXPOSE")
    IN  IF LinesOf(f, "ENTRYPOINT") # {} THEN LastLine(f, "ENTRYPOINT")
        ELSE IF LinesOf(f, "CMD") # {} THEN LastLine(f, "CMD")
        ELSE IF late # {} THEN Max(late) ELSE Len(f) + 1

EnforceNonroot ==
    /\ IsRepack(file) /\ ~HasUser(file)
    /\ file' = InsertAt(file, FindInsertPoint(file), NonrootUser)
    /\ UNCHANGED known

(***************************************************************************)
(* fix_entrypoints.py: -c and the binary for an ENTRYPOINT without them,   *)
(* from manifest.toml or else from the first line that begins with CMD.    *)
(***************************************************************************)
BareEntrypoint(f) == {i \in LinesOf(f, "ENTRYPOINT") : \E path \in ShimPaths : f[i].args = Exec(<<path, "run">>)}
\* the script looks for -c in the 20 characters after the ENTRYPOINT it found
FollowedByC(f, i) == i < Len(f) /\ f[i + 1].op = "CMD" /\ f[i + 1].args # <<>> /\ f[i + 1].args[1] = Arg("-c")
HasCFlag(args) == Len(args) >= 4 /\ args[3] = Arg("-c")
BinaryFor(f) == IF known.names THEN known.program ELSE WordsIn(DetectCmdArgs(f))

FixEntrypoint ==
    /\ ~Labelled(file, "repack-upstream-init")
    /\ BareEntrypoint(file) # {} /\ ~HasCFlag(DetectEntrypoint(file))
    /\ BinaryFor(file) # <<>>
    /\ ~FollowedByC(file, Min(BareEntrypoint(file)))
    /\ file' = [i \in DOMAIN file |->
                  IF i \in BareEntrypoint(file)
                  THEN [file[i] EXCEPT !.args = @ \o <<Arg("-c"), BinaryFor(file)>>] ELSE file[i]]
    /\ UNCHANGED known

(***************************************************************************)
(* validate_entrypoint_pattern.py: the gate on ENTRYPOINT and CMD, and its *)
(* --fix of an image the gate refuses.  Both take every line that begins   *)
(* with CMD, a health check's included.                                    *)
(***************************************************************************)
IsScratch(f) == Stages(f, "scratch") # {}
ShimPathCorrect(f) ==
    IsScratch(f) /\ LinesOf(f, "COPY") # {} => ArgsAt(f, FirstLine(f, "COPY"))[2] = Arg(Canonical)
EntrypointCorrect(f) ==
    LET e == DetectEntrypoint(f)
    IN  /\ Len(e) >= 3 /\ e[1] = Arg(Canonical) /\ e[2] = Arg("run")
        /\ IsScratch(f) => HasCFlag(e)
CmdCorrect(f) ==
    LET e == DetectEntrypoint(f)
        cmd == DetectCmdArgs(f)
        binary == IF e[3] # Arg("-c") /\ Len(e) >= 4 THEN e[3] ELSE e[Len(e)]
    IN  cmd # <<>> => /\ cmd[1] # Arg("-c")
                      /\ Len(e) >= 3 => \A i \in DOMAIN cmd : cmd[i] # binary
ValidateImage(f) ==
    /\ ShimPathCorrect(f)
    /\ IsRepack(f) \/ (HasShimWiring(f) /\ EntrypointCorrect(f) /\ CmdCorrect(f))

WithCanonicalPath(f) ==
    LET names(line, k) == \/ line.op = "COPY"
                          \/ k < Len(line.args) /\ line.args[k + 1] \in {Arg("run"), Arg("healthcheck")}
        moved(line) == [k \in DOMAIN line.args |->
                            IF line.args[k] = Arg(Deprecated) /\ names(line, k)
                            THEN Arg(Canonical) ELSE line.args[k]]
    IN  IF IsScratch(f) THEN [i \in DOMAIN f |-> [f[i] EXCEPT !.args = moved(f[i])]] ELSE f
IsPath(arg) == arg[1] \in ShimPaths \cup {"/app"}
WithoutC(args) ==
    IF args = <<>> \/ args[1] # Arg("-c") THEN args
    ELSE IF Len(args) > 1 /\ IsPath(args[2]) THEN Tail(Tail(args)) ELSE Tail(args)
FixedPattern(f) ==
    LET moved == WithCanonicalPath(f)
    IN  [i \in DOMAIN f |-> IF f[i].op = "CMD" THEN [moved[i] EXCEPT !.args = WithoutC(@)] ELSE moved[i]]

FixPattern ==
    /\ ~ValidateImage(file) /\ FixedPattern(file) # file
    /\ file' = FixedPattern(file)
    /\ UNCHANGED known

(***************************************************************************)
(* remove_healthcheck.py: the line HEALTHCHECK, and what follows it up to  *)
(* and including the first line that no backslash ends, even if none ends  *)
(* the HEALTHCHECK line itself.  A Dockerfile here has one health check.   *)
(***************************************************************************)
\* Mutant: the first line after the health check goes too.
HealthCheckLinesAndNext(f, i) ==
    {k \in DOMAIN f : k = i \/ (k > i /\ \A j \in i..(k - 2) : f[j].more)}
HealthCheckLines(f, i) ==
    {k \in DOMAIN f : k = i \/ (k > i /\ \A j \in (i + 1)..(k - 1) : f[j].more)}
RemoveHealthChecks ==
    LET removed == UNION {HealthCheckLines(file, i) : i \in LinesOf(file, "HEALTHCHECK")}
    IN  /\ removed # {}
        /\ file' = Rewrite(file, [i \in DOMAIN file |-> IF i \in removed THEN <<>> ELSE <<file[i]>>])
        /\ UNCHANGED known

(***************************************************************************)
(* fix-stubs.py guesses the binary of an image without ENTRYPOINT from its *)
(* name, and fix-binary-paths.py puts the right one there; both append.    *)
(***************************************************************************)
\* Mutant: a shim entrypoint of three arguments.
ShimRunsPositional(binary) == Is("ENTRYPOINT", Exec(<<Canonical, "run">>) \o <<binary>>)
ShimRuns(binary) == Is("ENTRYPOINT", Exec(<<Canonical, "run", "-c">>) \o <<binary>>)

FixStub ==
    /\ "stub" \in known.tables /\ LinesOf(file, "ENTRYPOINT") = {}
    /\ file' = file \o <<ShimRuns(Arg("/guess"))>> \o (IF LinesOf(file, "USER") = {} THEN <<NonrootUser>> ELSE <<>>)
    /\ UNCHANGED known

FixBinaryPaths ==
    LET kept == Rewrite(file, [i \in DOMAIN file |->
                    IF file[i].op = "ENTRYPOINT" \/ file[i] = NonrootUser THEN <<>> ELSE <<file[i]>>])
        needsRoot == "db" \in known.tables
    IN  /\ "stub" \in known.tables
        /\ file' = kept \o <<ShimRuns(known.program)>> \o (IF needsRoot THEN <<>> ELSE <<NonrootUser>>)
        /\ UNCHANGED known

(***************************************************************************)
(* What the committed Dockerfiles have in common, and no script undoes.    *)
(* The instructions of one line are never continued; nothing dangles, so   *)
(* that a line that goes, or is added at the end, breaks none; the first   *)
(* instruction is a FROM; there is one ENTRYPOINT at most; and an image    *)
(* that still runs the shim from its old path does not name the new one.   *)
(***************************************************************************)
Ops == {"FROM", "COPY", "EXPOSE", "LABEL", "USER", "ENV", "var", "HEALTHCHECK", "CMD",
        "ENTRYPOINT", "blank"}
TextLines == [op : Ops, args : Seq(Seq(Vocabulary)), more : BOOLEAN]
Facts == [tables : SUBSET {"db", "stub"}, names : BOOLEAN,
          program : Seq(Vocabulary), args : Seq(Vocabulary)]
ScriptWords == ShimPaths \cup ShimVariables \cup
               {"run", "healthcheck", "-c", "--", "65532", "health-shim", "db-shim", "shim",
                "prometheus", "/guess"}

ASSUME VocabularyAssumption == ScriptWords \subseteq Vocabulary

Continuable == {"HEALTHCHECK", "ENV", "var"}
\* What ends a Dockerfile, or is removed from it, or put before what is.
Ends(f, j) == j = Len(f) + 1 \/ f[j].op \in {"HEALTHCHECK", "ENTRYPOINT"}
Dangles(f, i) ==
    f[i].more /\ \E j \in (i + 1)..(Len(f) + 1) :
                    Ends(f, j) /\ \A k \in (i + 1)..(j - 1) : f[k].op \in {"USER", "blank"}
Says(args, word) == \E arg \in ToSet(args) : word \in ToSet(arg)
RunsDeprecated(f) ==
    \E e \in LinesOf(f, "ENTRYPOINT") : IsPrefix(Exec(<<Deprecated, "run">>), f[e].args)
NamesCanonical(f, facts) ==
    \/ Canonical \in ToSet(facts.program)
    \/ \E i \in LinesOf(f, "ENTRYPOINT") \cup LinesOf(f, "CMD") : Says(f[i].args, Canonical)

WellWritten(f, facts) ==
    /\ f \in Seq(TextLines) /\ facts \in Facts
    /\ \A i \in DOMAIN f : f[i].more => f[i].op \in Continuable
    /\ \A i \in DOMAIN f : ~Dangles(f, i)
    /\ \E i \in LinesOf(f, "FROM") : \A j \in DOMAIN f : j < i => f[j].op = "blank"
    /\ \A i, j \in LinesOf(f, "ENTRYPOINT") : i = j
    /\ RunsDeprecated(f) => ~NamesCanonical(f, facts)

ASSUME OriginalsAssumption ==
    \A original \in Originals : WellWritten(original.file, original.known)

WiringInit == \E original \in Originals : file = original.file /\ known = original.known

WiringNext ==
    \/ WireHealthShim \/ WireDbShim \/ WireBackupSchedule \/ WireObservability
    \/ EnforceNonroot \/ FixEntrypoint \/ FixPattern \/ RemoveHealthChecks
    \/ FixStub \/ FixBinaryPaths

WiringSpec == WiringInit /\ [][WiringNext]_wiringVars

-----------------------------------------------------------------------------
(***************************************************************************)
(* Properties.                                                             *)
(***************************************************************************)
\* The container runs what the image is made for.
RunsOwn(f) == Starts(f) = known.program \o known.args

\* Wiring finds no CMD, or takes the health check's for it.
CmdIsMissed(f) == Begins(f, "CMD") = {} \/ FirstLine(f, "CMD") # Max(Begins(f, "CMD"))
OnlyCmdNamesIt(f) ==
    ~HasCFlag(InForce(f, "ENTRYPOINT")) /\ WithoutC(InForce(f, "CMD")) # InForce(f, "CMD")
\* The line remove_healthcheck takes for the last of the health check is not.
HealthCheckIsMisread(f) ==
    \E i \in LinesOf(f, "HEALTHCHECK") : f[i].args # <<>> \/ f[i + 1].op = "blank"
UserLandsInHealthCheck(f) == Inside(f, FindInsertPoint(f))

\* However the scripts follow one another, the image goes on running its own
\* program with its own arguments, except by four steps: wiring an image whose
\* CMD it misses, or whose ENTRYPOINT has arguments of its own, which it drops;
\* --fix where only CMD names the program; removing a health check of one line
\* or with an empty line in it; and the guess of fix-stubs.
ProgramKept ==
    [][/\ Parses(file) /\ RunsOwn(file) /\ Parses(file')
       => \/ RunsOwn(file')
          \/ WireHealthShim /\ (CmdIsMissed(file) \/ Len(DetectEntrypoint(file)) > 1)
          \/ FixPattern /\ OnlyCmdNamesIt(file)
          \/ RemoveHealthChecks /\ HealthCheckIsMisread(file)
          \/ FixStub]_wiringVars

\* No script makes the Dockerfile one Docker cannot parse, except by four
\* steps: a USER put into the middle of a health check; the backup variables
\* put into the middle of the db-shim's; a variable added to a block that goes
\* on with variables not of the shim; and a health check misread as above.
StillParses ==
    [][Parses(file) =>
          \/ Parses(file')
          \/ EnforceNonroot /\ UserLandsInHealthCheck(file)
          \/ WireBackupSchedule /\ Sets(file, "SHIM_BACKUP_ENABLED=false")
          \/ WireObservability /\ \E i \in ShimEnvBlocks(file) : file[BlockEnd(file, i)].more
          \/ RemoveHealthChecks /\ HealthCheckIsMisread(file)]_wiringVars

\* An image that runs as 65532 goes on doing so, unless the line removed with a
\* health check is its USER, or fix-binary-paths finds that it needs root.
NonrootKept ==
    [][Parses(file) /\ Nonroot(file) =>
          \/ Nonroot(file')
          \/ RemoveHealthChecks /\ HealthCheckIsMisread(file)
          \/ FixBinaryPaths /\ "db" \in known.tables]_wiringVars

\* What wire_health_shim.py writes verify_shim_wiring.py accepts, and goes on
\* accepting whatever runs next, until the health check is removed.
WiringAccepted ==
    [][WireHealthShim \/ CheckDockerfile(file) =>
          CheckDockerfile(file') \/ RemoveHealthChecks]_wiringVars

\* enforce_nonroot.py promises USER before ENTRYPOINT or CMD: after it the image
\* runs as 65532.  Violated: the CMD it finds is the health check's, and the
\* USER becomes part of that instruction.
NonrootEnforced == [][EnforceNonroot => Nonroot(file')]_wiringVars
=============================================================================
