-------------------------------- MODULE Escrow --------------------------------
(***************************************************************************)
(* What the ledger promises: money is in a user's account, free to be      *)
(* used, or set aside for one order.  It moves between the two, and from   *)
(* an order to another user's account; none is lost and no account is      *)
(* overdrawn.                                                              *)
(***************************************************************************)
EXTENDS Integers

CONSTANTS Users, Orders, Amounts

VARIABLES
  account,   \* account[u]: what user u may still use
  escrow     \* escrow[o]: what is set aside for order o

vars == <<account, escrow>>

Init ==
  /\ account = [u \in Users |-> 0]
  /\ escrow = [o \in Orders |-> 0]

Deposit(u, a) ==
  /\ account' = [account EXCEPT ![u] = @ + a]
  /\ UNCHANGED escrow

SetAside(u, o, a) ==
  /\ a <= account[u]
  /\ account' = [account EXCEPT ![u] = @ - a]
  /\ escrow' = [escrow EXCEPT ![o] = @ + a]

\* The money set aside for o goes to u: to the seller in a trade, or back.
PayOut(o, u, a) ==
  /\ a <= escrow[o]
  /\ escrow' = [escrow EXCEPT ![o] = @ - a]
  /\ account' = [account EXCEPT ![u] = @ + a]

Next ==
  \E a \in Amounts, u \in Users :
    \/ Deposit(u, a)
    \/ \E o \in Orders : SetAside(u, o, a) \/ PayOut(o, u, a)

Spec == Init /\ [][Next]_vars

=============================================================================
