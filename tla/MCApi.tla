--------------------------------- MODULE MCApi ---------------------------------
(* Small instances of Api for TLC. *)
EXTENDS Api, TLC

\* Goroutines and keys differ only in name.
Symmetric == Permutations(Threads) \cup Permutations(Keys)

=============================================================================
