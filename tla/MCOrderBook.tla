----------------------------- MODULE MCOrderBook -----------------------------
(* Small instances of OrderBook for TLC. *)
EXTENDS OrderBook

\* Users differ only in who they are.
UserSymmetry == Permutations(Users)

=============================================================================
