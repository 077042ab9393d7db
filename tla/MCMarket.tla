------------------------------- MODULE MCMarket -------------------------------
(* Small instances of Market for TLC: no symmetry, liveness is checked. *)
EXTENDS Market

=============================================================================
