--------------------------- MODULE RefGate_proofs ---------------------------
(* The digests in the FROM lines are their references' own, and the gate   *)
(* never calls a living tag dead: for any references and tools, any number *)
(* of threads on the shared token cache and any answers of the registries. *)
EXTENDS RefGate, TLAPS

-----------------------------------------------------------------------------
(* The digests.                                                            *)

\* What makes the digests inductive: a mirror holds what one of the names it
\* stands for has named, and the mirror tools read Docker Hub lines only.
PinsInv ==
    /\ from \in [Stages -> Refs]
    /\ todo \subseteq Entries
    /\ \A k \in DOMAIN mirrors : mirrors[k] \in Content /\ MirrorName[mirrors[k].of] = k.name
    /\ tool \in {"mirror", "__mirror__"} => \A e \in todo : e.ref.place = "hub"
    /\ PinIsOwnOrOfItsEnd

\* One reference.
RefOk(r) == r.broken \/ \A c \in r.pin : Own(r, c) \/ EndsIn(r, c.of)

LEMMA WrittenOk == \A u \in Upstreams, v \in Variables : Written(u, v) \in Refs /\ RefOk(Written(u, v))
BY DEF Written, Refs, RefOk, AtMostOne, Places

LEMMA ServedOk ==
    ASSUME PinsInv, NEW r \in Refs, NEW c \in Served(r)
    PROVE  /\ c \in Content
           /\ Own(r, c) \/ EndsIn(r, c.of)
           /\ r.place = "hub" => c.of = r.name
BY DEF PinsInv, Served, Own, EndsIn, Key

\* The search and replace gives a line its own digest, one of a reference it
\* ends in, or breaks it.
LEMMA ReplacedOk ==
    ASSUME NEW r \in Refs, NEW ref \in Refs, NEW c \in Content,
           RefOk(r), Own(ref, c) \/ EndsIn(ref, c.of), ref.place = "hub" => c.of = ref.name
    PROVE  Replaced(r, ref, c) \in Refs /\ RefOk(Replaced(r, ref, c))
<1> DEFINE pinned == [r EXCEPT !.pin = {c}]
           broken == [r EXCEPT !.broken = TRUE]
<1>1. broken \in Refs /\ RefOk(broken)
  BY DEF Refs, RefOk
<1>2. pinned \in Refs
  BY DEF Refs, AtMostOne
<1>3. /\ pinned.pin = {c} /\ pinned.place = r.place
      /\ pinned.name = r.name /\ pinned.variable = r.variable
  BY DEF Refs
<1>4. r = ref => RefOk(pinned)
  BY <1>3 DEF RefOk, Own, EndsIn
<1>5. IsEnded(r, ref) => RefOk(pinned)
  BY <1>3 DEF RefOk, IsEnded, EndsIn
<1> HIDE DEF pinned, broken
<1> QED BY <1>1, <1>2, <1>4, <1>5 DEF Replaced, pinned, broken

THEOREM PinsInit == Init => PinsInv
<1> SUFFICES ASSUME Init PROVE PinsInv
  OBVIOUS
<1>1. \A s \in Stages : from[s] \in Refs /\ RefOk(from[s])
  BY WrittenOk DEF Init, RefsInit
<1> QED BY <1>1 DEF Init, RefsInit, PinsInv, RefOk, PinIsOwnOrOfItsEnd

\* Only from, todo, mirrors and tool matter.
LEMMA LinesMove ==
    ASSUME PinsInv, tool' \in {"mirror", "__mirror__"} => \A e \in todo' : e.ref.place = "hub",
           todo' \subseteq Entries, mirrors' = mirrors, DOMAIN from' = Stages, 
           from' = [s \in Stages |-> from'[s]],
           \A s \in Stages : from'[s] \in Refs /\ RefOk(from'[s])
    PROVE  PinsInv'
BY DEF PinsInv, PinIsOwnOrOfItsEnd, RefOk, Own, EndsIn

LEMMA LinesOk == ASSUME PinsInv, NEW s \in Stages PROVE from[s] \in Refs /\ RefOk(from[s])
BY DEF PinsInv, PinIsOwnOrOfItsEnd, RefOk

LEMMA EntryOk == \A s \in Stages : PinsInv => Line(s) \in Entries
BY LinesOk DEF Line, Entries

LEMMA MirroredOk ==
    ASSUME NEW r \in Refs, NEW place \in {"mirror", "__mirror__"}
    PROVE  Mirrored(place, r) \in Refs /\ RefOk(Mirrored(place, r))
BY UpstreamsAssumption DEF Mirrored, Refs, RefOk, AtMostOne, Places, Variables

THEOREM PinsStep == PinsInv /\ [Next]_vars => PinsInv'
<1> SUFFICES ASSUME PinsInv, [Next]_vars PROVE PinsInv'
  OBVIOUS
<1>1. ASSUME NEW e \in Edits, Edit(e[1], e[2], e[3]) PROVE PinsInv'
  <2>1. e[1] \in Stages /\ e[2] \in Upstreams
    BY UpstreamsAssumption
  <2>2. from' = [from EXCEPT ![e[1]] = Written(e[2], e[3])]
    BY <1>1 DEF Edit
  <2>3. e[3] \in Variables
    BY UpstreamsAssumption DEF Variables
  <2>4. \A s \in Stages : from'[s] \in Refs /\ RefOk(from'[s])
    BY <2>1, <2>2, <2>3, LinesOk, WrittenOk DEF PinsInv
  <2>5. /\ DOMAIN from' = Stages /\ from' = [s \in Stages |-> from'[s]]
    BY <2>2 DEF PinsInv
  <2>6. todo' = todo /\ tool' = tool /\ mirrors' = mirrors /\ todo \subseteq Entries
    BY <1>1 DEF Edit, PinsInv
  <2> QED BY <2>4, <2>5, <2>6, LinesMove DEF PinsInv
<1>2. ASSUME ParseFromLines PROVE PinsInv'
  <2>1. todo' \subseteq Entries /\ tool' = "pin" /\ mirrors' = mirrors /\ from' = from
    BY <1>2, EntryOk DEF ParseFromLines
  <2> QED BY <2>1 DEF PinsInv, PinIsOwnOrOfItsEnd, Own, EndsIn
<1>3. ASSUME NEW e \in todo, PinImage(e) PROVE PinsInv'
  <2>1. e \in Entries /\ e.ref \in Refs
    BY DEF PinsInv, Entries
  <2>2. todo' \subseteq Entries /\ tool' = "pin" /\ mirrors' = mirrors
    BY <1>3 DEF PinImage, PinsInv
  <2>3. ASSUME NEW c \in Served(e.ref), from' = [s \in Stages |-> Replaced(from[s], e.ref, c)]
        PROVE  PinsInv'
    <3>1. /\ c \in Content
          /\ Own(e.ref, c) \/ EndsIn(e.ref, c.of)
          /\ e.ref.place = "hub" => c.of = e.ref.name
      BY <2>1, ServedOk
    <3>2. \A s \in Stages : from'[s] \in Refs /\ RefOk(from'[s])
      BY <2>1, <2>3, <3>1, LinesOk, ReplacedOk
    <3>3. DOMAIN from' = Stages /\ from' = [s \in Stages |-> from'[s]]
      BY <2>3
    <3> QED BY <2>2, <3>2, <3>3, LinesMove
  <2>4. CASE UNCHANGED from
    BY <2>2, <2>4 DEF PinsInv, PinIsOwnOrOfItsEnd, Own, EndsIn
  <2> QED BY <1>3, <2>3, <2>4 DEF PinImage
<1>4. ASSUME ToolEnds PROVE PinsInv'
  BY <1>4 DEF ToolEnds, PinsInv, PinIsOwnOrOfItsEnd, Own, EndsIn
<1>5. ASSUME NEW place \in {"mirror", "__mirror__"}, FindUpstreams(place) PROVE PinsInv'
  <2>1. /\ todo' \subseteq Entries /\ mirrors' = mirrors /\ from' = from
        /\ \A e \in todo' : e.ref.place = "hub"
    BY <1>5, EntryOk DEF FindUpstreams, Line
  <2> QED BY <2>1 DEF PinsInv, PinIsOwnOrOfItsEnd, Own, EndsIn
<1>6. ASSUME NEW e \in todo, MirrorUpstream(e) PROVE PinsInv'
  <2>1. e \in Entries /\ e.ref \in Refs /\ e.ref.place = "hub"
    BY <1>6 DEF PinsInv, Entries, MirrorUpstream
  <2>2. /\ todo' \subseteq Entries /\ tool' = tool /\ tool \in {"mirror", "__mirror__"}
        /\ \A f \in todo' : f.ref.place = "hub"
    BY <1>6 DEF MirrorUpstream, PinsInv
  <2>3. ASSUME UpdateDockerfile(e.ref)
        PROVE  /\ DOMAIN from' = Stages /\ from' = [s \in Stages |-> from'[s]]
               /\ \A s \in Stages : from'[s] \in Refs /\ RefOk(from'[s])
    BY <2>2, <2>3, LinesOk, MirroredOk DEF UpdateDockerfile
  <2>4. CASE PullAndMirror(e)
    <3> DEFINE key == Key(Mirrored(tool, e.ref))
    <3>1. PICK c \in (IF e.ref.pin # {} THEN {d \in e.ref.pin : d.of = e.ref.name} ELSE Served(e.ref)) :
              mirrors' = [k \in DOMAIN mirrors \cup {key} |-> IF k = key THEN c ELSE mirrors[k]]
      BY <2>4 DEF PullAndMirror
    <3>2. c \in Content /\ c.of = e.ref.name
      <4>1. CASE e.ref.pin # {}
        BY <2>1, <3>1, <4>1 DEF Refs, AtMostOne
      <4>2. CASE e.ref.pin = {}
        BY <2>1, <3>1, <4>2, ServedOk
      <4> QED BY <4>1, <4>2
    <3>3. key.name = MirrorName[e.ref.name]
      BY DEF Key, Mirrored
    <3>4. \A k \in DOMAIN mirrors' : mirrors'[k] \in Content /\ MirrorName[mirrors'[k].of] = k.name
      BY <3>1, <3>2, <3>3 DEF PinsInv
    <3>5. UpdateDockerfile(e.ref)
      BY <2>4 DEF PullAndMirror
    <3> QED BY <2>2, <2>3, <3>4, <3>5 DEF PinsInv, PinIsOwnOrOfItsEnd, RefOk, Own, EndsIn
  <2>5. CASE AlreadyMirrored(e)
    BY <2>2, <2>3, <2>5, LinesMove DEF AlreadyMirrored
  <2>6. CASE UNCHANGED <<from, mirrors>>
    BY <2>2, <2>6 DEF PinsInv, PinIsOwnOrOfItsEnd, Own, EndsIn
  <2> QED BY <1>6, <2>4, <2>5, <2>6 DEF MirrorUpstream
<1>7. ASSUME BuildWorklist \/ GenerateProposals \/ \E e \in worklist : ResolveEntry(e)
      PROVE  PinsInv'
  <2>1. /\ from' = from /\ mirrors' = mirrors /\ todo' = todo
        /\ tool' \in {"mirror", "__mirror__"} => tool' = tool
    BY <1>7 DEF BuildWorklist, GenerateProposals, ResolveEntry, fileVars
  <2> QED BY <2>1 DEF PinsInv, PinIsOwnOrOfItsEnd, Own, EndsIn
<1>8. ASSUME Gate \/ WorldMoves \/ UNCHANGED vars PROVE PinsInv'
  <2>1. /\ from' = from /\ mirrors' = mirrors /\ todo' = todo
        /\ tool' \in {"mirror", "__mirror__"} => tool' = tool
    BY <1>8 DEF Gate, StartGate, Report, CheckOtherRegistry, LookUpToken, FetchToken, Request, ProbeHub,
                WorldMoves, World, Push, Prune, vars, refVars, fileVars
  <2> QED BY <2>1 DEF PinsInv, PinIsOwnOrOfItsEnd, Own, EndsIn
<1> QED BY <1>1, <1>2, <1>3, <1>4, <1>5, <1>6, <1>7, <1>8 DEF Next, Tools

\* A digest behind a FROM reference is one that its own tag, or the reference
\* whose text it ends in, has named, through any sequence of edits, pushes
\* and runs of the pinning and mirror tools.
THEOREM DigestsAreOwn == Spec => []PinIsOwnOrOfItsEnd
<1>1. PinsInv => PinIsOwnOrOfItsEnd
  BY DEF PinsInv
<1> QED BY <1>1, PinsInit, PinsStep, PTL DEF Spec

-----------------------------------------------------------------------------
(* The proposals.                                                          *)

\* Only Docker Hub references are resolved, each to a digest of its own name.
ResolvedOk ==
    \A r \in resolved :
        /\ r.entry \in Entries /\ r.entry.ref.place = "hub"
        /\ r.digest.of = r.entry.ref.name

\* A proposal fits the line it shows, whether or not that line still stands.
ProposalOk(p) ==
    p.new.broken \/ \A c \in p.new.pin \ p.old.pin : Own(p.old, c) \/ EndsIn(p.old, c.of)

ProposalsInv == worklist \subseteq Entries /\ ResolvedOk /\ \A p \in proposals : ProposalOk(p)

\* The search and replace, as the resolver uses it on a line.
LEMMA ProposedOk ==
    ASSUME ResolvedOk, NEW r \in resolved, NEW line \in Refs, Proposed(r, line) # line
    PROVE  \/ Proposed(r, line).broken
           \/ \A c \in Proposed(r, line).pin \ line.pin : Own(line, c) \/ EndsIn(line, c.of)
<1> DEFINE ref == r.entry.ref
           pinned == [line EXCEPT !.pin = {r.digest}]
           broken == [line EXCEPT !.broken = TRUE]
<1>1. Proposed(r, line) = Replaced(line, ref, r.digest) /\ line.variable # "tag"
    BY DEF Proposed, Replaced
<1>2. broken.broken /\ pinned.pin = {r.digest}
    BY DEF Refs
<1>3. Proposed(r, line) = pinned => line = ref \/ IsEnded(line, ref) \/ broken = pinned
    BY <1>1 DEF Replaced
<1>4. Proposed(r, line) \in {line, pinned, broken}
    BY <1>1 DEF Replaced
<1>5. ref.place = "hub" /\ r.digest.of = ref.name
    BY DEF ResolvedOk
<1> HIDE DEF pinned, broken, ref
<1>6. line = ref => Own(line, r.digest) \/ EndsIn(line, r.digest.of)
    BY <1>5 DEF Own, EndsIn
<1>7. IsEnded(line, ref) => EndsIn(line, r.digest.of)
    BY <1>5 DEF IsEnded
<1> QED
    BY <1>1, <1>2, <1>3, <1>4, <1>6, <1>7

THEOREM ProposalsStep == ProposalsInv /\ PinsInv /\ [Next]_vars => ProposalsInv'
<1> SUFFICES ASSUME ProposalsInv, PinsInv, [Next]_vars PROVE ProposalsInv'
    OBVIOUS
<1>1. CASE /\ resolved' = resolved /\ proposals' \subseteq proposals
           /\ worklist' \subseteq Entries
    BY <1>1 DEF ProposalsInv, ResolvedOk, ProposalOk, Own, EndsIn
<1>2. ASSUME NEW e \in worklist, ResolveEntry(e) PROVE ProposalsInv'
    <2>1. UNCHANGED proposals /\ e \in Entries /\ worklist' \subseteq Entries
        BY <1>2 DEF ResolveEntry, ProposalsInv
    <2>2. ASSUME e.ref.place = "hub", NEW c \in Served(e.ref),
                 resolved' = resolved \cup {[entry |-> e, digest |-> c, file |-> from]}
          PROVE  ResolvedOk'
        <3>1. c.of = e.ref.name
            BY <2>2 DEF Served
        <3> QED
            BY <2>1, <2>2, <3>1 DEF ProposalsInv, ResolvedOk
    <2>3. CASE UNCHANGED resolved
        BY <1>1, <2>1, <2>3
    <2> QED
        BY <1>2, <2>1, <2>2, <2>3 DEF ResolveEntry, ProposalsInv, ProposalOk, Own, EndsIn
<1>3. ASSUME GenerateProposals PROVE ProposalsInv'
    <2>1. resolved' = {} /\ worklist' = worklist
        BY <1>3 DEF GenerateProposals
    <2>2. ASSUME NEW p \in proposals' PROVE ProposalOk(p)
        <3>1. PICK r \in resolved :
                  /\ p = [line |-> r.entry.line, old |-> from[r.entry.line], file |-> r.file,
                          new |-> Proposed(r, from[r.entry.line])]
                  /\ p.new # p.old
            BY <1>3 DEF GenerateProposals
        <3>2. p.old = from[r.entry.line] /\ p.new = Proposed(r, p.old) /\ p.old \in Refs
            BY <3>1, LinesOk DEF ProposalsInv, ResolvedOk, Entries
        <3> QED
            BY <3>1, <3>2, ProposedOk DEF ProposalsInv, ProposalOk
    <2> QED
        BY <2>1, <2>2 DEF ProposalsInv, ResolvedOk, ProposalOk, Own, EndsIn
<1>4. ASSUME ToolEnds PROVE ProposalsInv'
    BY <1>1, <1>4 DEF ToolEnds, ProposalsInv
<1>5. ASSUME \/ \E e \in Edits : Edit(e[1], e[2], e[3])
             \/ ParseFromLines
             \/ \E place \in {"mirror", "__mirror__"} : FindUpstreams(place)
             \/ \E e \in todo : PinImage(e) \/ MirrorUpstream(e)
      PROVE  ProposalsInv'
    BY <1>1, <1>5 DEF Edit, ParseFromLines, FindUpstreams, PinImage, MirrorUpstream,
                      proposalVars, ProposalsInv
<1>6. ASSUME Gate \/ WorldMoves \/ UNCHANGED vars PROVE ProposalsInv'
    BY <1>1, <1>6 DEF Gate, StartGate, Report, CheckOtherRegistry, LookUpToken, FetchToken,
                      Request, ProbeHub, WorldMoves, World, Push, Prune, vars, refVars,
                      proposalVars, ProposalsInv
<1>7. ASSUME BuildWorklist PROVE ProposalsInv'
    BY <1>1, <1>7, EntryOk DEF BuildWorklist
<1> QED
    BY <1>2, <1>3, <1>4, <1>5, <1>6, <1>7 DEF Next, Tools

\* A proposal pins the reference in its line to its own digest, or to one of a
\* reference whose text the line ends in, through any edits and pushes between
\* the three readings of the file.
THEOREM ProposalsFit == Spec => []ProposalFits
<1>1. Init => ProposalsInv
    BY DEF Init, RefsInit, ProposalsInv, ResolvedOk
<1>2. ProposalsInv => ProposalFits
    BY DEF ProposalsInv, ProposalOk, ProposalFits
<1> QED
    BY <1>1, <1>2, PinsInit, PinsStep, ProposalsStep, PTL DEF Spec

-----------------------------------------------------------------------------
(* The gate.                                                               *)

\* While the gate runs, alive says no more than that the tag exists; a thread
\* has a verdict only at its end, and no thread outlives the run.
GateInv ==
    /\ thread = [s \in Stages |-> thread[s]]
    /\ tool # "verify" => thread = [s \in Stages |-> Idle]
    /\ \A s \in Stages : thread[s].alive => live[from[s].name]
    /\ LiveNeverDead

THEOREM GateInit == Init => GateInv
BY DEF Init, RefsInit, GateInv, LiveNeverDead, Idle, Thread

\* A thread that goes on without a verdict, or ends with one that is DEAD
\* only for a tag that is gone, keeps the invariant.
LEMMA ThreadMoves ==
    ASSUME GateInv, NEW s \in Stages, NEW pc, NEW v,
           thread' = [thread EXCEPT ![s] = Thread(pc, v, @.alive)],
           tool = "verify", tool' = tool, live' = live, from' = from,
           v = "DEAD" => ~(thread[s].alive /\ OnHub(s) /\ ~from[s].broken)
    PROVE  GateInv'
<1>1. \A t \in Stages : thread'[t] = IF t = s THEN Thread(pc, v, thread[s].alive) ELSE thread[t]
  BY DEF GateInv
<1>2. thread' = [t \in Stages |-> thread'[t]]
  BY DEF GateInv
<1>3. \A t \in Stages : thread'[t].alive = thread[t].alive
  BY <1>1 DEF Thread
<1>4. \A t \in Stages : thread'[t].verdict = IF t = s THEN v ELSE thread[t].verdict
  BY <1>1 DEF Thread
<1> QED BY <1>2, <1>3, <1>4 DEF GateInv, LiveNeverDead, OnHub

THEOREM GateStep == GateInv /\ PinsInv /\ [Next]_vars => GateInv'
<1> SUFFICES ASSUME GateInv, PinsInv, [Next]_vars PROVE GateInv'
  OBVIOUS
<1>1. ASSUME StartGate PROVE GateInv'
  <2>1. /\ thread' = [s \in Stages |-> Thread("start", "none", live[from[s].name])]
        /\ live' = live /\ from' = from /\ tool' = "verify"
    BY <1>1 DEF StartGate
  <2>2. \A s \in Stages : thread'[s].alive = live[from[s].name] /\ thread'[s].verdict = "none"
    BY <2>1 DEF Thread
  <2> QED BY <2>1, <2>2 DEF GateInv, LiveNeverDead, OnHub
<1>2. ASSUME Report PROVE GateInv'
  <2>1. /\ thread' = [s \in Stages |-> Idle]
        /\ live' = live /\ from' = from
    BY <1>2 DEF Report
  <2>2. \A s \in Stages : thread'[s].alive = FALSE /\ thread'[s].verdict = "none"
    BY <2>1 DEF Idle, Thread
  <2> QED BY <2>1, <2>2 DEF GateInv, LiveNeverDead, OnHub
<1>3. ASSUME NEW s \in Stages, thread[s].pc # "idle" PROVE tool = "verify"
  BY <1>3 DEF GateInv, Idle, Thread
<1>4. ASSUME NEW s \in Stages, CheckOtherRegistry(s) PROVE GateInv'
  <2>1. PICK v : thread' = [thread EXCEPT ![s] = Thread("done", v, @.alive)]
    BY <1>4 DEF CheckOtherRegistry, Says
  <2>2. /\ ~OnHub(s) /\ tool = "verify"
        /\ tool' = tool /\ live' = live /\ from' = from
    BY <1>3, <1>4 DEF CheckOtherRegistry, At, refVars, fileVars
  <2> QED BY <2>1, <2>2, ThreadMoves
<1>5. ASSUME NEW s \in Stages, LookUpToken(s) PROVE GateInv'
  <2>1. PICK pc : thread' = [thread EXCEPT ![s] = Thread(pc, "none", @.alive)]
    BY <1>5 DEF LookUpToken, Goto
  <2>2. tool = "verify" /\ tool' = tool /\ live' = live /\ from' = from
    BY <1>3, <1>5 DEF LookUpToken, At, refVars, fileVars
  <2> QED BY <2>1, <2>2, ThreadMoves
<1>6. ASSUME NEW s \in Stages, FetchToken(s) PROVE GateInv'
  <2>1. PICK pc : thread' = [thread EXCEPT ![s] = Thread(pc, "none", @.alive)]
    BY <1>6 DEF FetchToken, Goto
  <2>2. tool = "verify" /\ tool' = tool /\ live' = live /\ from' = from
    BY <1>3, <1>6 DEF FetchToken, At, refVars, fileVars
  <2> QED BY <2>1, <2>2, ThreadMoves
<1>7. ASSUME NEW s \in Stages, Request(s) PROVE GateInv'
  <2>1. tool = "verify" /\ tool' = tool /\ live' = live /\ from' = from
    BY <1>3, <1>7 DEF Request, At, refVars, fileVars
  <2>2. CASE Goto(s, "probe")
    BY <2>1, <2>2, ThreadMoves DEF Goto
  <2>3. ASSUME NEW v \in {"OK", "UNKNOWN"}, Says(s, {v}) PROVE GateInv'
    <3>1. thread' = [thread EXCEPT ![s] = Thread("done", v, @.alive)]
      BY <2>3 DEF Says
    <3> QED BY <2>1, <3>1, ThreadMoves
  <2>4. CASE NotFound(s) /\ Says(s, {"DEAD"})
    <3>1. thread' = [thread EXCEPT ![s] = Thread("done", "DEAD", @.alive)]
      BY <2>4 DEF Says
    <3>2. ~from[s].broken => ~live[from[s].name]
      BY <2>4 DEF NotFound, Checked
    <3>3. ~from[s].broken => ~thread[s].alive
      BY <3>2 DEF GateInv
    <3> QED BY <2>1, <3>1, <3>3, ThreadMoves
  <2> QED BY <1>7, <2>2, <2>3, <2>4 DEF Request
<1>8. ASSUME NEW s \in Stages, ProbeHub(s) PROVE GateInv'
  <2>1. tool = "verify" /\ tool' = tool /\ live' = live /\ from' = from
    BY <1>3, <1>8 DEF ProbeHub, At, refVars, fileVars
  <2>2. PICK v \in (IF RepoHasTags(s) THEN {"OK", "UNKNOWN"} ELSE {"OK", "DEAD", "UNKNOWN"}) :
            thread' = [thread EXCEPT ![s] = Thread("done", v, @.alive)]
    BY <1>8 DEF ProbeHub, Says
  <2>3. ASSUME v = "DEAD" PROVE ~thread[s].alive
    <3>1. ~RepoHasTags(s)
      BY <2>2, <2>3
    <3>2. ~live[from[s].name]
      BY <3>1, LinesOk DEF RepoHasTags, RepoOf, Refs
    <3> QED BY <3>2 DEF GateInv
  <2> QED BY <2>1, <2>2, <2>3, ThreadMoves
<1>9. ASSUME WorldMoves PROVE GateInv'
  <2>1. /\ from' = from /\ tool' = tool
        /\ thread' = [s \in Stages |->
              Thread(thread[s].pc, thread[s].verdict,
                     thread[s].alive /\ live[from[s].name] /\ live'[from[s].name])]
    BY <1>9 DEF WorldMoves, World, Push, Prune, fileVars
  <2>2. \A s \in Stages :
            /\ thread'[s].verdict = thread[s].verdict
            /\ thread'[s].alive = (thread[s].alive /\ live[from[s].name] /\ live'[from[s].name])
    BY <2>1 DEF Thread
  <2>3. tool # "verify" => thread' = [s \in Stages |-> Idle]
    BY <2>1 DEF GateInv, Idle, Thread
  <2>4. thread' = [s \in Stages |-> thread'[s]]
    BY <2>1
  <2>5. \A s \in Stages : thread'[s].alive => live'[from'[s].name]
    BY <2>1, <2>2
  <2>6. LiveNeverDead'
    BY <2>1, <2>2 DEF GateInv, LiveNeverDead, OnHub
  <2> QED BY <2>1, <2>3, <2>4, <2>5, <2>6 DEF GateInv
<1>10. ASSUME ~GateRuns, Tools, UNCHANGED gateVars PROVE GateInv'
  <2>1. tool # "verify" /\ thread' = [s \in Stages |-> Idle] /\ thread = thread'
    BY <1>10 DEF GateRuns, GateInv, gateVars
  <2>2. \A s \in Stages : thread'[s].alive = FALSE /\ thread'[s].verdict = "none"
    BY <2>1 DEF Idle, Thread
  <2> QED BY <2>1, <2>2 DEF GateInv, LiveNeverDead, OnHub
<1>11. ASSUME UNCHANGED vars PROVE GateInv'
  BY <1>11 DEF vars, refVars, fileVars, gateVars, GateInv, LiveNeverDead, OnHub
<1> QED
  BY <1>1, <1>2, <1>4, <1>5, <1>6, <1>7, <1>8, <1>9, <1>10, <1>11 DEF Next, Gate

\* A Docker Hub tag that exists all through a run of verify_from_refs.py is
\* never reported DEAD.
THEOREM LiveTagNeverDead == Spec => []LiveNeverDead
<1>1. GateInv => LiveNeverDead
  BY DEF GateInv
<1> QED BY <1>1, GateInit, GateStep, PinsInit, PinsStep, PTL DEF Spec
=============================================================================
