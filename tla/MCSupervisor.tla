---------------------------- MODULE MCSupervisor ----------------------------
(* Instances of Supervisor for TLC: the values of its constants.           *)
EXTENDS Supervisor_proofs

CONSTANTS r1, sigterm, sigint

OneRequest  == {r1}
OneSignal   == {sigterm}
TwoSignals  == {sigterm, sigint}

\* One successful and one failing exit code are all the code tells apart.
ExitCodes == {0, 3}
=============================================================================
