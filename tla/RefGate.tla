------------------------------ MODULE RefGate -------------------------------
(***************************************************************************)
(* scripts/verify_from_refs.py, the nightly gate over the FROM references  *)
(* of BaseRefs: ten threads (one per reference here) share the token       *)
(* cache.  The cache is checked, filled and read again without a lock, and *)
(* keeps "" for a repository whose token request failed once.  The gate    *)
(* works on a checkout of its own, so that only upstream moves meanwhile.  *)
(*                                                                         *)
(* A build argument for the tag has its default for a value; one for the   *)
(* registry may have any.  (docker.io/redis, which lines 209-212 look for  *)
(* without the library/ of official images, is such a value, too.)         *)
(***************************************************************************)
EXTENDS BaseRefs

CONSTANTS Repo          \* the repository of an upstream

VARIABLES thread,       \* the check of each stage's reference
          tokens        \* TOKEN_CACHE

gateVars == <<thread, tokens>>
vars == <<refVars, gateVars>>

Repos == {Repo[u] : u \in Upstreams}
Thread(pc, verdict, alive) == [pc |-> pc, verdict |-> verdict, alive |-> alive]
Idle == Thread("idle", "none", FALSE)

GateTypeOK ==
    /\ thread \in [Stages -> [pc : {"idle", "start", "fetch", "request", "probe", "done"},
                              verdict : {"none", "OK", "DEAD", "UNKNOWN"}, alive : BOOLEAN]]
    /\ tokens \in [Repos -> {"absent", "empty", "token"}]
TypeOK == RefsTypeOK /\ GateTypeOK

Init == RefsInit /\ thread = [s \in Stages |-> Idle] /\ tokens = [r \in Repos |-> "absent"]

GateRuns == tool = "verify"

\* split_ref drops the digest; a digest in the middle of a tag cuts the tag.
Checked(s) ==
    IF from[s].broken THEN {from[s].name} \cup {u \in Upstreams : <<u, from[s].name>> \in Begins}
    ELSE {from[s].name}
RepoOf(s) == Repo[from[s].name]
RepoHasTags(s) == \E u \in Upstreams : Repo[u] = RepoOf(s) /\ live[u]

StartGate ==
    /\ tool = "none"
    /\ tool' = "verify"
    /\ thread' = [s \in Stages |-> Thread("start", "none", live[from[s].name])]
    /\ tokens' = [r \in Repos |-> "absent"]
    /\ UNCHANGED <<latest, live, from, mirrors, todo, proposalVars>>

OnHub(s) == from[s].place = "hub" /\ from[s].variable # "registry"

At(s, pc) == thread[s].pc = pc
Goto(s, pc) == thread' = [thread EXCEPT ![s] = Thread(pc, "none", @.alive)]
Says(s, verdicts) ==
    \E v \in verdicts : thread' = [thread EXCEPT ![s] = Thread("done", v, @.alive)]

\* ghcr.io, cgr.dev, gcr.io, public.ecr.aws: get_token tries three times, and a
\* private package answers 401.  No Dockerfile names another registry.
CheckOtherRegistry(s) ==
    /\ At(s, "start") /\ ~OnHub(s)
    /\ Says(s, {"OK", "DEAD", "UNKNOWN"})
    /\ UNCHANGED <<refVars, tokens>>

LookUpToken(s) ==
    /\ At(s, "start") /\ OnHub(s)
    /\ Goto(s, IF tokens[RepoOf(s)] = "absent" THEN "fetch" ELSE "request")
    /\ UNCHANGED <<refVars, tokens>>

FetchToken(s) ==
    /\ At(s, "fetch")
    /\ \E answer \in {"token", "empty"} : tokens' = [tokens EXCEPT ![RepoOf(s)] = answer]
    /\ Goto(s, "request")
    /\ UNCHANGED refVars

\* Without a token the registry says 401; with one it may.
Found(s) == tokens[RepoOf(s)] = "token" /\ \E u \in Checked(s) : live[u]
NotFound(s) == tokens[RepoOf(s)] = "token" /\ \E u \in Checked(s) : ~live[u]

\* Mutant: a 401 is a definitive no.
RequestTrusts401(s) ==
    /\ At(s, "request")
    /\ \/ Found(s) /\ Says(s, {"OK"})
       \/ Says(s, {"DEAD"})
       \/ Says(s, {"UNKNOWN"})
    /\ UNCHANGED <<refVars, tokens>>

Request(s) ==
    /\ At(s, "request")
    /\ \/ Found(s) /\ Says(s, {"OK"})
       \/ NotFound(s) /\ Says(s, {"DEAD"})
       \/ Goto(s, "probe")                      \* 401
       \/ Says(s, {"UNKNOWN"})                  \* 429, any other code, no answer
    /\ UNCHANGED <<refVars, tokens>>

\* Any tag of the repository makes the reference OK; a repository without
\* one of these tags may have others.
ProbeHub(s) ==
    /\ At(s, "probe")
    /\ Says(s, IF RepoHasTags(s) THEN {"OK", "UNKNOWN"} ELSE {"OK", "DEAD", "UNKNOWN"})
    /\ UNCHANGED <<refVars, tokens>>

Report ==
    /\ GateRuns /\ \A s \in Stages : At(s, "done")
    /\ tool' = "none"
    /\ thread' = [s \in Stages |-> Idle]
    /\ tokens' = [r \in Repos |-> "absent"]
    /\ UNCHANGED <<latest, live, from, mirrors, todo, proposalVars>>

Gate == StartGate \/ Report
        \/ \E s \in Stages : CheckOtherRegistry(s) \/ LookUpToken(s) \/ FetchToken(s) \/ Request(s) \/ ProbeHub(s)

\* alive remembers whether the reference's tag has existed all the while.
WorldMoves ==
    /\ World
    /\ thread' = [s \in Stages |->
           Thread(thread[s].pc, thread[s].verdict,
                  thread[s].alive /\ live[from[s].name] /\ live'[from[s].name])]
    /\ UNCHANGED tokens

Next == Gate \/ WorldMoves \/ (~GateRuns /\ Tools /\ UNCHANGED gateVars)

Spec == Init /\ [][Next]_vars

\* Lines 8-9: a tag that exists all through the run is never DEAD, whatever
\* tokens fail, however the threads share the cache and whatever the registry
\* answers with 401.
LiveNeverDead ==
    \A s \in Stages :
        (thread[s].alive /\ OnHub(s) /\ ~from[s].broken) => thread[s].verdict # "DEAD"

\* Line 7 "OK - manifest exists": the verdict is about the reference in the
\* file.  (No run states it: a failed token makes any tag of the repository
\* vouch for this one.)
OkMeansExists ==
    \A s \in Stages : (At(s, "done") /\ thread[s].verdict = "OK") => thread[s].alive
=============================================================================
