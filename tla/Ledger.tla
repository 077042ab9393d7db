-------------------------------- MODULE Ledger --------------------------------
(***************************************************************************)
(* internal/ledger: balances and held funds per user, for buyers whose     *)
(* orders reserve money first and then spend it in trades or get it back.  *)
(*                                                                         *)
(* Every operation is one critical section of the ledger's mutex, hence    *)
(* one step.  The ledger does not know orders; its callers must not settle *)
(* or refund more than they hold ("Caller must ensure held[buyer] >=       *)
(* amount"), so each caller keeps what its order still has reserved.       *)
(***************************************************************************)
EXTENDS Integers, FiniteSets, FiniteSetsExt

CONSTANTS
  Users,      \* the users with an account
  Orders,     \* the buy orders that reserve money
  Amounts,    \* the amounts credited, reserved, settled and refunded
  MaxCredit   \* bound: the money credited in all

ASSUME LedgerAssumption ==
  /\ IsFiniteSet(Users) /\ IsFiniteSet(Orders)
  /\ Amounts \subseteq Nat \ {0}
  /\ MaxCredit \in Nat

VARIABLES
  balances,   \* balances[u]: the user's money, the held part included
  held,       \* held[u]: the part of it that is reserved
  owner,      \* owner[o]: the user who placed order o
  reserved,   \* reserved[o]: what the caller still has reserved for o
  credited    \* history: the money credited

vars == <<balances, held, owner, reserved, credited>>

Init ==
  /\ balances = [u \in Users |-> 0]
  /\ held = [u \in Users |-> 0]
  /\ owner \in [Orders -> Users]
  /\ reserved = [o \in Orders |-> 0]
  /\ credited = 0

----------------------------------------------------------------------------

Credit(u, a) ==
  /\ credited + a <= MaxCredit
  /\ balances' = [balances EXCEPT ![u] = @ + a]
  /\ credited' = credited + a
  /\ UNCHANGED <<held, owner, reserved>>

\* Fault: the check forgets what other orders have reserved.
FaultAvailable(u) == balances[u]

\* What PlaceOrder compares the amount with.
Free(u) == balances[u] - held[u]

\* Check and reservation are one critical section; when the free balance does
\* not cover the amount the call returns ErrInsufficientFunds.
PlaceOrder(o, a) ==
  /\ reserved[o] = 0
  /\ a <= Free(owner[o])
  /\ held' = [held EXCEPT ![owner[o]] = @ + a]
  /\ reserved' = [reserved EXCEPT ![o] = a]
  /\ UNCHANGED <<balances, owner, credited>>

\* Fault: the reservation is not released.
FaultKeepHold(o, seller, a) ==
  /\ a <= reserved[o]
  /\ balances' = [balances EXCEPT ![owner[o]] = @ - a, ![seller] = @ + a]
  /\ reserved' = [reserved EXCEPT ![o] = @ - a]
  /\ UNCHANGED <<held, owner, credited>>

\* Fault: the seller's new balance is computed before the buyer pays, which
\* makes money when they are one user.
FaultReadBoth(o, seller, a) ==
  /\ a <= reserved[o]
  /\ held' = [held EXCEPT ![owner[o]] = @ - a]
  /\ balances' = [balances EXCEPT ![owner[o]] = @ - a,
                                  ![seller] = balances[seller] + a]
  /\ reserved' = [reserved EXCEPT ![o] = @ - a]
  /\ UNCHANGED <<owner, credited>>

\* The buyer pays with what is held; buyer and seller may be one user.  The
\* caller settles no more than o has reserved.
SettleTrade(o, seller, a) ==
  /\ a <= reserved[o]
  /\ held' = [held EXCEPT ![owner[o]] = @ - a]
  /\ LET paid == [balances EXCEPT ![owner[o]] = @ - a]
     IN  balances' = [paid EXCEPT ![seller] = @ + a]
  /\ reserved' = [reserved EXCEPT ![o] = @ - a]
  /\ UNCHANGED <<owner, credited>>

\* Fault: a refund is also added to the balance it was never taken from.
FaultRefundTwice(o, a) ==
  /\ a <= reserved[o]
  /\ held' = [held EXCEPT ![owner[o]] = @ - a]
  /\ balances' = [balances EXCEPT ![owner[o]] = @ + a]
  /\ reserved' = [reserved EXCEPT ![o] = @ - a]
  /\ UNCHANGED <<owner, credited>>

\* The caller gives back no more than o has reserved.
Refund(o, a) ==
  /\ a <= reserved[o]
  /\ held' = [held EXCEPT ![owner[o]] = @ - a]
  /\ reserved' = [reserved EXCEPT ![o] = @ - a]
  /\ UNCHANGED <<balances, owner, credited>>

Next ==
  \/ \E u \in Users, a \in Amounts : Credit(u, a)
  \/ \E o \in Orders, a \in Amounts :
       \/ PlaceOrder(o, a) \/ Refund(o, a)
       \/ \E seller \in Users : SettleTrade(o, seller, a)

Spec == Init /\ [][Next]_vars

----------------------------------------------------------------------------
(* Properties.                                                             *)

\* Type invariant.
TypeOK ==
  /\ balances \in [Users -> Int]
  /\ held \in [Users -> Int]
  /\ owner \in [Orders -> Users]
  /\ reserved \in [Orders -> Nat]
  /\ credited \in 0..MaxCredit

OrdersOf(u) == {o \in Orders : owner[o] = u}

\* The sum of f over S.
Total(f, S) == MapThenSumSet(LAMBDA x : f[x], S)

\* What is held for a user is exactly what that user's orders have reserved,
\* so it is never negative.
HoldsAreReservations == \A u \in Users : held[u] = Total(reserved, OrdersOf(u))

\* No user's orders reserve more than the user has: "balances[user] -
\* held[user] >= 0", however many orders a user places, settles and cancels.
NoOverdraft == \A u \in Users : Free(u) >= 0

\* Trades move money between users and refunds move none: all there is has
\* been credited.
MoneyConserved == Total(balances, Users) = credited

\* The free balance and the orders' reservations are accounts and escrows.
Promise == INSTANCE Escrow WITH
  account <- [u \in Users |-> balances[u] - held[u]],
  escrow <- reserved

\* Balances with holds implement money set aside order by order.
KeepsPromise == Promise!Spec

=============================================================================
