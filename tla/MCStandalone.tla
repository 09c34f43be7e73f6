---------------------------- MODULE MCStandalone ----------------------------
(* Instances of Standalone for TLC: the values of its constants.           *)
EXTENDS Standalone

CONSTANTS r1, r2

TwoRequests == {r1, r2}
=============================================================================
