---------------------------- MODULE MCChecksums ----------------------------
(* An instance of Checksums: the lines of GitHub downloads end in && \ and *)
(* those of the other sites' in ; \ , and only a GitHub URL may use a      *)
(* variable without a default (elsewhere nobody answers for such a URL).   *)
(* The word PENDING outside of a check makes a difference where a sha512   *)
(* is to be had, and FROM no digest.                                       *)
EXTENDS Checksums

MCInit == /\ Init
          /\ image.tolerant = (image.site # "github")
          /\ image.resolved \/ image.site = "github"
          /\ image.marked => image.site = "apache" /\ ~image.pinned
MCSpec == MCInit /\ [][Next]_vars

\* No tool reads the manifest's checksum or another one's report.
MCView == <<image, version, latest, checks, sums, torn>>

\* Weak checks gather without end: two behind each download are enough.
FewLines == \A d \in Downloads : Cardinality(checks[d]) <= 2
=============================================================================
