---------------------------- MODULE MCIdempotency ----------------------------
(* Small instances of Idempotency for TLC. *)
EXTENDS Idempotency, TLC

\* Keys and responses differ only in name.
Symmetric == Permutations(Keys) \cup Permutations(Responses)

=============================================================================
