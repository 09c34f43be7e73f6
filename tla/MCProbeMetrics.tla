--------------------------- MODULE MCProbeMetrics ---------------------------
(* Instances of ProbeMetrics for TLC.                                      *)
EXTENDS ProbeMetrics

CONSTANTS g1, g2, s1, livez, tcp

Recorders == {g1, g2}
Scrapers  == {s1}
Probes    == {livez, tcp}
=============================================================================
