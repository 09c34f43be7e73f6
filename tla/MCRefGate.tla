----------------------------- MODULE MCRefGate ------------------------------
(* An instance of RefGate: redis:7 begins redis:7.2 and ends my/redis:7.   *)
(* At first the two stages are my/redis:7 and one of the tags of redis,    *)
(* perhaps behind a build argument.                                        *)
EXTENDS RefGate

CONSTANTS r7, r72, my7
MCBegins == {<<r7, r72>>}
MCEnds == {<<r7, my7>>}
MCMirrorName == [u \in Upstreams |-> u]
MCRepo == [u \in Upstreams |-> IF u = my7 THEN my7 ELSE r7]
MCEdits == {<<1, r7, "none">>, <<2, r7, "none">>, <<2, r72, "none">>, <<2, r7, "registry">>}

MCInit == Init /\ from[1] = Written(my7, "none") /\ from[2].name # my7
MCSpec == MCInit /\ [][Next]_vars
=============================================================================
