------------------------------ MODULE MCGates --------------------------------
(* An instance of Gates: Dockerfiles of a repackaged image, and of ones that *)
(* install a package in each of the places.                                *)
EXTENDS Gates

CONSTANTS curl, pinned     \* curl, and curl=8.5

At(place, word) == [w \in Words |-> IF w = word THEN place ELSE "out"]
Normals == [w \in Words |-> curl]
Wired == {"health-shim", "HEALTHCHECK", "^HEALTHCHECK", "ENTRYPOINT", "^ENTRYPOINT", "LABEL",
          "tier label", "entrypoint pattern"}
Repackaged == Dockerfile(At("out", curl), FALSE, Wired \cup {"USER 65532"}, "65532", "wolfi", "wolfi")
MCDockerfiles ==
    { Repackaged,
      \* The user of an earlier stage; a mirror's name.
      Dockerfile(At("out", curl), FALSE, Wired \cup {"USER 65532"}, "none", "wolfi", "mirror"),
      \* No shim, a check in a comment only, a base that only the audit refuses.
      Dockerfile(At("chained", pinned), FALSE, {"USER 65532", "HEALTHCHECK", "CMD", "LABEL"},
                 "nobody", "wolfi", "fedora"),
      Dockerfile(At("plain", curl), TRUE, Wired \cup {"USER 65532"}, "65532:65532", "wolfi", "wolfi"),
      \* Refused by all.
      Dockerfile(At("continued", curl), FALSE, {"shell", "shell path"}, "root", "ubuntu", "alpine") }

\* The first image starts as a critical one, or as a standard one with an
\* incomplete manifest; the second as a critical one without installs, the
\* third as a standard one that has lost its Dockerfile.
MCInit ==
    /\ GatesInit
    /\ manifest[1].complete <=> manifest[1].tier = "critical"
    /\ df[2] = Repackaged
    /\ manifest[2] = Manifest("critical", "critical", FALSE, TRUE, 1)
    /\ \A i \in Bare : /\ df[i] = df[2]
                       /\ manifest[i] = Manifest("standard", "standard", FALSE, TRUE, 1)
\* A bound: the two kinds of evidence, which no generator relates, are followed
\* one at a time, and an SBOM of syft names a package once.
OneKind ==
    /\ (\E i \in Images : vex[i] # NoVex) => \A i \in Images : sbom[i].kind = "none"
    /\ \A i \in Images : ~(Words \subseteq sbom[i].names)
MCSpec == MCInit /\ [][Next]_<<vars, passed>>
=============================================================================
