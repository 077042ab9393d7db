------------------------------- MODULE MCLedger -------------------------------
(* Small instances of Ledger for TLC. *)
EXTENDS Ledger, TLC

\* Orders and users differ only in name.
Symmetric == Permutations(Users) \cup Permutations(Orders)

=============================================================================
