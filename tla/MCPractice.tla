----------------------------- MODULE MCPractice -----------------------------
(* Small instances of Practice for TLC: no symmetry, liveness is checked. *)
EXTENDS Practice

\* A configuration file has no negative numbers.
MatchPricesMC == {-3, 5}

=============================================================================
