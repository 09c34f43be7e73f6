------------------------------- MODULE MCCves --------------------------------
(* An instance of Cves: a critical and a standard image, a critical CVE that  *)
(* is fixable and a low one that is not, and the thresholds in the order that *)
(* SLA_THRESHOLDS gives them.                                                 *)
EXTENDS Cves, TLC

CONSTANTS i1, i2, c1, c2

MCTier == i1 :> "critical" @@ i2 :> "standard"
MCSeverity == c1 :> "CRITICAL" @@ c2 :> "LOW"
MCAcknowledge ==
    "critical" :> [s \in Rated |-> IF s = "CRITICAL" THEN 0 ELSE 1] @@
    "standard" :> [s \in Rated |-> 1]
MCFix ==
    "critical" :> [s \in Rated |-> IF s = "CRITICAL" THEN 1 ELSE 2] @@
    "standard" :> [s \in Rated |-> 2]

\* The two scripts share only the images, which neither of them changes: one
\* runs at a time.
MCNext == CveNext /\ ~(sla'.on /\ auto'.on)
MCSpec == CveInit /\ [][MCNext]_cveVars
=============================================================================
