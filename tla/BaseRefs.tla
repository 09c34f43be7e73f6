------------------------------ MODULE BaseRefs ------------------------------
(***************************************************************************)
(* The FROM references of one critical image's Dockerfile, the upstream    *)
(* tags behind them, and the tools that rewrite them:                      *)
(*   Pin...       scripts/pin_digests.py                                   *)
(*   Mirror...    scripts/mirror_all.py, scripts/mirror_upstreams.py       *)
(*   Inventory, Resolve, Propose                                           *)
(*                scripts/inventory_report.py, critical_pinning_worklist.py *)
(*                and resolve_critical_digests.py                          *)
(*                                                                         *)
(* An upstream is a repository and a tag on Docker Hub; what its tag names *)
(* is a release of it.  The tools search and replace the TEXT of a         *)
(* reference, so the text of one may be part of another's: redis:7 begins  *)
(* redis:7.2 (Begins) and ends bitnami/redis:7 (Ends).  A build argument   *)
(* stands for the tag (redis:${VERSION}, whose text has no other's in it)  *)
(* or for the registry: ${REGISTRY}/redis:7 ends in redis:7, and is        *)
(* whatever the one who builds says.                                       *)
(*                                                                         *)
(* One tool runs at a time.  While it waits for registries, maintainers    *)
(* may edit the file.                                                      *)
(***************************************************************************)
EXTENDS Naturals, FiniteSets

CONSTANTS Upstreams, Stages,
          MaxRelease,   \* bound on the releases of a tag
          MaxMoved,     \* bound on the tags pushed again, and on those gone
          MaxMirrors,   \* bound on the mirrors pushed
          Begins,       \* <<u, v>>: the text of u is a proper beginning of v's
          Ends,         \* <<u, v>>: ... a proper end of v's
          MirrorName,   \* the upstream that stands for the mirror's name
          Edits         \* <<line, tag, build argument>>: what maintainers may write

ASSUME UpstreamsAssumption ==
    /\ Begins \subseteq Upstreams \X Upstreams
    /\ Ends \subseteq Upstreams \X Upstreams
    /\ MirrorName \in [Upstreams -> Upstreams]
    /\ Edits \subseteq Stages \X Upstreams \X {"none", "tag", "registry"}
ASSUME StagesAssumption == Stages \subseteq Nat
ASSUME MaxReleaseAssumption == MaxRelease \in Nat \ {0}

VARIABLES latest,       \* the number of releases each upstream tag has named
          live,         \* whether the tag exists
          from,         \* the reference of each FROM line
          mirrors,      \* what each mirror that was pushed holds
          tool,         \* the tool that runs
          todo,         \* the lines it read at its start and has not handled
          worklist,     \* the entries of the pinning worklist
          resolved,     \* the entries with the digest the registry gave
          proposals     \* the proposals of the last run of the resolver

fileVars == <<from, mirrors, tool, todo>>
proposalVars == <<worklist, resolved, proposals>>
refVars == <<latest, live, fileVars, proposalVars>>

Content == [of : Upstreams, release : 1..MaxRelease]
Places == {"hub", "mirror", "__mirror__"}
Variables == {"none", "tag", "registry"}
AtMostOne(S) == {{}} \cup {{x} : x \in S}

\* at: the digest that is part of the name of a mirror of a pinned
\* reference; broken: two digests, or one in the middle of the tag.
Refs == [place : Places, name : Upstreams, at : AtMostOne(Content),
         pin : AtMostOne(Content), variable : Variables, broken : BOOLEAN]
Entries == [line : Stages, ref : Refs]
MirrorKeys == [place : Places \ {"hub"}, name : Upstreams, at : AtMostOne(Content)]

RefsTypeOK ==
    /\ latest \in [Upstreams -> 1..MaxRelease]
    /\ live \in [Upstreams -> BOOLEAN]
    /\ from \in [Stages -> Refs]
    /\ DOMAIN mirrors \subseteq MirrorKeys
    /\ \A key \in DOMAIN mirrors : mirrors[key] \in Content
    /\ tool \in {"none", "pin", "mirror", "__mirror__", "resolve", "verify"}
    /\ todo \subseteq Entries
    /\ worklist \subseteq Entries
    /\ \A r \in resolved : r.entry \in Entries /\ r.digest \in Content
    /\ \A p \in proposals : p.line \in Stages /\ p.old \in Refs /\ p.new \in Refs

Written(u, variable) ==
    [place |-> "hub", name |-> u, at |-> {}, pin |-> {}, variable |-> variable, broken |-> FALSE]

RefsInit ==
    /\ latest = [u \in Upstreams |-> 1]
    /\ live = [u \in Upstreams |-> TRUE]
    /\ from \in [Stages -> {Written(u, v) : u \in Upstreams, v \in Variables}]
    /\ mirrors = [key \in {} |-> key]
    /\ tool = "none"
    /\ todo = {}
    /\ worklist = {}
    /\ resolved = {}
    /\ proposals = {}

-----------------------------------------------------------------------------
(* What a reference names.                                                 *)

HasDigest(r) == r.pin # {} \/ r.broken
Key(r) == [place |-> r.place, name |-> r.name, at |-> r.at]

\* The contents a registry may return for the tag of a reference, or nothing.
Served(r) ==
    IF r.place = "hub"
    THEN {c \in Content : c.of = r.name /\ c.release = latest[r.name] /\ live[r.name]}
    ELSE {mirrors[key] : key \in {Key(r)} \cap DOMAIN mirrors}

\* The text of ref, which has neither a digest nor a build argument, may stand
\* at the beginning, in the middle or at the end of r's.
EndsIn(r, u) == <<u, r.name>> \in Ends \/ (r.variable = "registry" /\ r.name = u)
IsEnded(r, ref) ==
    /\ r.place = "hub" /\ ref.place = "hub"
    /\ EndsIn(r, ref.name)
IsBegun(r, ref) ==
    /\ r.place = ref.place
    /\ \/ r.name = ref.name
       \/ <<ref.name, r.name>> \in Begins /\ r.place # "mirror"

\* Mutant: every line without a digest takes the one that was found.
ReplacedEverywhere(r, ref, c) ==
    IF r.variable = "tag" \/ HasDigest(r) THEN r ELSE [r EXCEPT !.pin = {c}]

\* Python's replace of the text of ref by ref@c, in r.
Replaced(r, ref, c) ==
    CASE r.variable = "tag" -> r
      [] r.variable # "tag" /\ r = ref -> [r EXCEPT !.pin = {c}]
      [] r.variable # "tag" /\ r # ref /\ IsEnded(r, ref) ->
             IF HasDigest(r) THEN [r EXCEPT !.broken = TRUE] ELSE [r EXCEPT !.pin = {c}]
      [] r.variable # "tag" /\ r # ref /\ ~IsEnded(r, ref) /\ IsBegun(r, ref) ->
             [r EXCEPT !.broken = TRUE]
      [] OTHER -> r

-----------------------------------------------------------------------------
(* The world: upstream pushes and prunes tags, maintainers edit the file.  *)

Push(u) ==
    /\ latest[u] < MaxRelease
    /\ Cardinality({v \in Upstreams \ {u} : latest[v] > 1}) < MaxMoved
    /\ latest' = [latest EXCEPT ![u] = @ + 1]
    /\ live' = [live EXCEPT ![u] = TRUE]
    /\ UNCHANGED <<fileVars, proposalVars>>

Prune(u) ==
    /\ live[u]
    /\ Cardinality({v \in Upstreams : ~live[v]}) < MaxMoved
    /\ live' = [live EXCEPT ![u] = FALSE]
    /\ UNCHANGED <<latest, fileVars, proposalVars>>

\* The gate works on a checkout of its own.
Edit(s, u, variable) ==
    /\ tool # "verify"
    /\ from' = [from EXCEPT ![s] = Written(u, variable)]
    /\ UNCHANGED <<latest, live, mirrors, tool, todo, proposalVars>>

-----------------------------------------------------------------------------
(* pin_digests.py: the lines are read once, and each resolved reference is *)
(* then replaced wherever its text stands in the file.                     *)

Unpinned(s) == ~HasDigest(from[s]) /\ from[s].variable = "none"
Line(s) == [line |-> s, ref |-> from[s]]

ParseFromLines ==
    /\ tool = "none"
    /\ tool' = "pin"
    /\ todo' = {Line(s) : s \in {t \in Stages : Unpinned(t)}}
    /\ UNCHANGED <<latest, live, from, mirrors, proposalVars>>

PinImage(e) ==
    /\ tool = "pin"
    /\ \A f \in todo : e.line <= f.line
    /\ todo' = todo \ {e}
    /\ \/ \E c \in Served(e.ref) : from' = [s \in Stages |-> Replaced(from[s], e.ref, c)]
       \/ UNCHANGED from                        \* crane has no digest
    /\ UNCHANGED <<latest, live, mirrors, tool, proposalVars>>

ToolEnds ==
    /\ tool \in {"pin", "mirror", "__mirror__", "resolve"}
    /\ todo = {} /\ worklist = {} /\ resolved = {}
    /\ tool' = "none"
    /\ proposals' = {}
    /\ UNCHANGED <<latest, live, from, mirrors, todo, worklist, resolved>>

-----------------------------------------------------------------------------
(* The mirror tools: mirror_all leaves a file alone that names a mirror of *)
(* its own, and keeps a mirror that exists; mirror_upstreams pushes again. *)
(* A line is replaced by the mirror's :latest, its digest is dropped.  A   *)
(* build argument cannot be pulled.                                        *)

Mirrored(place, ref) ==
    [place |-> place, name |-> MirrorName[ref.name], at |-> ref.pin,
     pin |-> {}, variable |-> "none", broken |-> FALSE]

FindUpstreams(place) ==
    /\ tool = "none"
    /\ place = "mirror" => \A s \in Stages : from[s].place # "mirror"
    /\ tool' = place
    /\ todo' = {Line(s) : s \in {t \in Stages : from[t].place = "hub" /\ from[t].variable = "none"}}
    /\ UNCHANGED <<latest, live, from, mirrors, proposalVars>>

UpdateDockerfile(ref) ==
    from' = [s \in Stages |-> IF from[s] = ref THEN Mirrored(tool, ref) ELSE from[s]]

\* mirror_all gives a reference with a tag and a digest a name no registry
\* takes; a digest of another repository cannot be pulled.
PullAndMirror(e) ==
    LET key == Key(Mirrored(tool, e.ref))
        pulled == IF e.ref.pin # {} THEN {c \in e.ref.pin : c.of = e.ref.name} ELSE Served(e.ref)
    IN /\ ~e.ref.broken
       /\ tool = "mirror" => e.ref.pin = {} /\ key \notin DOMAIN mirrors
       /\ key \in DOMAIN mirrors \/ Cardinality(DOMAIN mirrors) < MaxMirrors
       /\ \E c \in pulled :
              mirrors' = [k \in DOMAIN mirrors \cup {key} |-> IF k = key THEN c ELSE mirrors[k]]
       /\ UpdateDockerfile(e.ref)

AlreadyMirrored(e) ==
    /\ tool = "mirror"
    /\ ~HasDigest(e.ref)
    /\ Key(Mirrored(tool, e.ref)) \in DOMAIN mirrors
    /\ UpdateDockerfile(e.ref)
    /\ UNCHANGED mirrors

MirrorUpstream(e) ==
    /\ tool \in {"mirror", "__mirror__"}
    /\ todo' = todo \ {e}
    /\ \/ PullAndMirror(e)
       \/ AlreadyMirrored(e)
       \/ UNCHANGED <<from, mirrors>>           \* a pull, tag or push fails
    /\ UNCHANGED <<latest, live, tool, proposalVars>>

-----------------------------------------------------------------------------
(* The pinning worklist.  Its three steps read the Dockerfile at three     *)
(* times; the sha256 of a proposal (here the file itself) is of the second *)
(* and its old line of the third.                                          *)

BuildWorklist ==
    /\ tool = "none"
    /\ tool' = "resolve"
    /\ worklist' = {Line(s) : s \in {t \in Stages : ~HasDigest(from[t])}}
    /\ UNCHANGED <<latest, live, from, mirrors, todo, resolved, proposals>>

\* Only a multi-platform index is proposed, and docker push of a pulled
\* image makes none.
ResolveEntry(e) ==
    /\ worklist' = worklist \ {e}
    /\ \/ /\ e.ref.place = "hub"
          /\ \E c \in Served(e.ref) :
                 resolved' = resolved \cup {[entry |-> e, digest |-> c, file |-> from]}
       \/ UNCHANGED resolved
    /\ UNCHANGED <<latest, live, fileVars, proposals>>

\* A build argument is refused by what the worklist has for the reference, not
\* by what the line says now.
Proposed(r, line) ==
    IF r.entry.ref.variable # "none" THEN line ELSE Replaced(line, r.entry.ref, r.digest)

\* Mutant: the first stage's digest is looked up for every line of the image.
GenerateProposalsByImage ==
    /\ worklist = {} /\ resolved # {}
    /\ proposals' =
           {[line |-> r.entry.line, old |-> from[r.entry.line], file |-> r.file,
             new |-> [from[r.entry.line] EXCEPT !.pin = {q.digest}]] :
               r \in resolved, q \in resolved}
    /\ resolved' = {}
    /\ UNCHANGED <<latest, live, fileVars, worklist>>

GenerateProposals ==
    /\ worklist = {} /\ resolved # {}
    /\ proposals' =
           {p \in {[line |-> r.entry.line, old |-> from[r.entry.line], file |-> r.file,
                    new |-> Proposed(r, from[r.entry.line])] : r \in resolved} : p.new # p.old}
    /\ resolved' = {}
    /\ UNCHANGED <<latest, live, fileVars, worklist>>

World == \E u \in Upstreams : Push(u) \/ Prune(u)

Tools ==
    \/ \E e \in Edits : Edit(e[1], e[2], e[3])
    \/ ParseFromLines \/ ToolEnds
    \/ \E place \in {"mirror", "__mirror__"} : FindUpstreams(place)
    \/ \E e \in todo : PinImage(e) \/ MirrorUpstream(e)
    \/ BuildWorklist \/ GenerateProposals
    \/ \E e \in worklist : ResolveEntry(e)

-----------------------------------------------------------------------------
(* Properties.                                                             *)

Own(r, c) ==
    IF r.place = "hub" THEN c.of = r.name /\ r.variable # "registry" ELSE MirrorName[c.of] = r.name

\* pin_digests.py:56 "Replace image reference with digest-pinned version.": a
\* digest behind a reference is one its own tag has named.
PinIsOwn == \A s \in Stages : from[s].broken \/ \A c \in from[s].pin : Own(from[s], c)

\* The only door for a foreign digest is the search for the text: a reference
\* that ends in another one's text (behind a name or a build argument) may take
\* that one's digest, whatever pushes and edits come between reading a line
\* and replacing it, and whichever tools have run before.
PinIsOwnOrOfItsEnd ==
    \A s \in Stages : from[s].broken \/
        \A c \in from[s].pin : Own(from[s], c) \/ EndsIn(from[s], c.of)

\* A proposal whose sha256 and old line still fit the file adds the digest of
\* the very reference in that line, or of one whose text it ends in, although
\* the worklist, the digest and the old line come from three readings of the
\* file.  (It may pin a line that has got a build argument for its registry
\* since the worklist was written, which lines 216-221 mean to refuse.)
ProposalFits ==
    \A p \in proposals :
        (p.file = from /\ from[p.line] = p.old) =>
            p.new.broken \/ \A c \in p.new.pin \ p.old.pin : Own(p.old, c) \/ EndsIn(p.old, c.of)
=============================================================================
