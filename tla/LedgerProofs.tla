----------------------------- MODULE LedgerProofs -----------------------------
(***************************************************************************)
(* Theorems about Ledger, for any users, orders and amounts: nobody is     *)
(* overdrawn, holds and balances add up, and every step of Ledger is a     *)
(* step of Escrow.                                                         *)
(***************************************************************************)
EXTENDS Ledger, Sums, TLAPS

IInv == TypeOK /\ NoOverdraft

----------------------------------------------------------------------------
(* The invariant: one lemma for each operation.                            *)

LEMMA InitHolds == Init => IInv
<1> SUFFICES ASSUME Init PROVE IInv
  OBVIOUS
<1>1. TypeOK
  BY LedgerAssumption DEF Init, TypeOK
<1>2. NoOverdraft
  BY DEF Init, NoOverdraft, Free
<1> QED
  BY <1>1, <1>2 DEF IInv

LEMMA CreditKeeps ==
  ASSUME IInv, NEW u \in Users, NEW a \in Amounts, Credit(u, a)
  PROVE  IInv'
<1>1. a \in Nat \ {0} /\ MaxCredit \in Nat
  BY LedgerAssumption
<1>2. balances' = [balances EXCEPT ![u] = balances[u] + a]
  BY DEF Credit
<1>3. credited' \in 0..MaxCredit
  BY <1>1 DEF Credit, IInv, TypeOK
<1>4. TypeOK'
  BY <1>1, <1>2, <1>3 DEF Credit, IInv, TypeOK
<1>5. ASSUME NEW v \in Users PROVE Free(v)' >= 0
  <2>1. balances[v] \in Int /\ held[v] \in Int /\ balances'[v] \in Int
    BY <1>4 DEF IInv, TypeOK
  <2>2. balances'[v] >= balances[v]
    BY <1>1, <1>2, <2>1 DEF IInv, TypeOK
  <2>3. balances[v] - held[v] >= 0 /\ held'[v] = held[v]
    BY DEF IInv, NoOverdraft, Free, Credit
  <2> QED
    BY <2>1, <2>2, <2>3 DEF Free
<1> QED
  BY <1>4, <1>5 DEF IInv, NoOverdraft

LEMMA PlaceOrderKeeps ==
  ASSUME IInv, NEW o \in Orders, NEW a \in Amounts, PlaceOrder(o, a)
  PROVE  IInv'
<1>1. a \in Nat \ {0}
  BY LedgerAssumption
<1> DEFINE b == owner[o]
<1>2. /\ b \in Users
      /\ held' = [held EXCEPT ![b] = held[b] + a]
      /\ a <= Free(b)
      /\ UNCHANGED balances
  BY DEF PlaceOrder, IInv, TypeOK
<1>3. TypeOK'
  BY <1>1, <1>2 DEF PlaceOrder, IInv, TypeOK
<1> HIDE DEF b
<1>4. ASSUME NEW v \in Users PROVE Free(v)' >= 0
  <2>1. balances[v] \in Int /\ held[v] \in Int /\ held \in [Users -> Int]
    BY DEF IInv, TypeOK
  <2>2. CASE v = b
    <3>1. held'[v] = held[v] + a
      BY <1>2, <2>1, <2>2
    <3>2. a <= balances[v] - held[v]
      BY <1>2, <2>2 DEF Free
    <3> QED
      BY <1>1, <1>2, <2>1, <3>1, <3>2 DEF Free
  <2>3. CASE v # b
    BY <1>2, <2>1, <2>3 DEF Free, IInv, NoOverdraft
  <2> QED
    BY <2>2, <2>3
<1> QED
  BY <1>3, <1>4 DEF IInv, NoOverdraft

LEMMA SettleTradeKeeps ==
  ASSUME IInv, NEW o \in Orders, NEW seller \in Users, NEW a \in Amounts,
         SettleTrade(o, seller, a)
  PROVE  IInv'
<1>1. a \in Nat \ {0}
  BY LedgerAssumption
<1> DEFINE b == owner[o]
<1> DEFINE paid == [balances EXCEPT ![b] = balances[b] - a]
<1>2. /\ b \in Users
      /\ a <= reserved[o]
      /\ held' = [held EXCEPT ![b] = held[b] - a]
      /\ balances' = [paid EXCEPT ![seller] = paid[seller] + a]
      /\ reserved' = [reserved EXCEPT ![o] = reserved[o] - a]
      /\ UNCHANGED <<owner, credited>>
  BY DEF SettleTrade, IInv, TypeOK
<1>3. /\ balances \in [Users -> Int]
      /\ held \in [Users -> Int]
      /\ reserved \in [Orders -> Nat]
  BY DEF IInv, TypeOK
<1> HIDE DEF b
<1>4. paid \in [Users -> Int] /\ \A v \in Users : paid[v] = IF v = b THEN balances[v] - a ELSE balances[v]
  BY <1>1, <1>2, <1>3
<1> HIDE DEF paid
<1>5. balances' \in [Users -> Int] /\ held' \in [Users -> Int]
  BY <1>1, <1>2, <1>3, <1>4
<1>6. reserved' \in [Orders -> Nat]
  <2>1. reserved[o] - a \in Nat
    BY <1>1, <1>2, <1>3
  <2> QED
    BY <1>2, <1>3, <2>1
<1>7. TypeOK'
  BY <1>2, <1>5, <1>6 DEF IInv, TypeOK
<1>8. ASSUME NEW v \in Users PROVE Free(v)' >= 0
  <2>1. balances[v] - held[v] >= 0
    BY DEF IInv, NoOverdraft, Free
  <2>2. held'[v] = IF v = b THEN held[v] - a ELSE held[v]
    BY <1>2, <1>3
  <2>3. balances'[v] = IF v = seller THEN paid[v] + a ELSE paid[v]
    BY <1>2, <1>4
  <2>4. paid[v] = IF v = b THEN balances[v] - a ELSE balances[v]
    BY <1>4
  <2>5. balances[v] \in Int /\ held[v] \in Int
    BY <1>3
  <2> QED
    BY <1>1, <2>1, <2>2, <2>3, <2>4, <2>5 DEF Free
<1> QED
  BY <1>7, <1>8 DEF IInv, NoOverdraft

LEMMA RefundKeeps ==
  ASSUME IInv, NEW o \in Orders, NEW a \in Amounts, Refund(o, a)
  PROVE  IInv'
<1>1. a \in Nat \ {0}
  BY LedgerAssumption
<1> DEFINE b == owner[o]
<1>2. /\ b \in Users
      /\ a <= reserved[o]
      /\ held' = [held EXCEPT ![b] = held[b] - a]
      /\ reserved' = [reserved EXCEPT ![o] = reserved[o] - a]
      /\ UNCHANGED <<balances, owner, credited>>
  BY DEF Refund, IInv, TypeOK
<1>3. /\ balances \in [Users -> Int]
      /\ held \in [Users -> Int]
      /\ reserved \in [Orders -> Nat]
  BY DEF IInv, TypeOK
<1> HIDE DEF b
<1>4. reserved' \in [Orders -> Nat]
  <2>1. reserved[o] - a \in Nat
    BY <1>1, <1>2, <1>3
  <2> QED
    BY <1>2, <1>3, <2>1
<1>5. TypeOK'
  BY <1>1, <1>2, <1>3, <1>4 DEF IInv, TypeOK
<1>6. ASSUME NEW v \in Users PROVE Free(v)' >= 0
  <2>1. balances[v] - held[v] >= 0
    BY DEF IInv, NoOverdraft, Free
  <2>2. held'[v] = (IF v = b THEN held[v] - a ELSE held[v]) /\ balances'[v] = balances[v]
    BY <1>2, <1>3
  <2>3. balances[v] \in Int /\ held[v] \in Int
    BY <1>3
  <2> QED
    BY <1>1, <2>1, <2>2, <2>3 DEF Free
<1> QED
  BY <1>5, <1>6 DEF IInv, NoOverdraft

LEMMA Invariance == Spec => []IInv
<1>1. IInv /\ [Next]_vars => IInv'
  <2>1. IInv /\ UNCHANGED vars => IInv'
    BY DEF vars, IInv, TypeOK, NoOverdraft, Free
  <2>2. IInv /\ Next => IInv'
    BY CreditKeeps, PlaceOrderKeeps, SettleTradeKeeps, RefundKeeps DEF Next
  <2> QED
    BY <2>1, <2>2
<1> QED
  BY InitHolds, <1>1, PTL DEF Spec

\* Every variable of the ledger keeps its type; no order has a negative
\* amount reserved.
THEOREM TypeCorrect == Spec => []TypeOK
<1>1. IInv => TypeOK
  BY DEF IInv
<1> QED
  BY <1>1, Invariance, PTL

\* No sequence of credits, reservations, trades and refunds overdraws a
\* user's free balance.
THEOREM NeverOverdrawn == Spec => []NoOverdraft
<1>1. IInv => NoOverdraft
  BY DEF IInv
<1> QED
  BY <1>1, Invariance, PTL

----------------------------------------------------------------------------
(* The sums: what is held is what orders have reserved, and balances are   *)
(* what was credited.  Each operation changes one summand at a time.       *)

\* Total, as Sums has it.
LEMMA TotalIsSum == ASSUME NEW f, NEW S PROVE Total(f, S) = Sum(f, S)
BY DEF Total, Sum

\* Where z is in S, g has d more than the integers of f, and is f elsewhere.
ChangedAt(z, d, f, g, S) ==
  /\ \A x \in S : f[x] \in Int
  /\ \A x \in S : g[x] = IF x = z THEN f[x] + d ELSE f[x]

\* The totals of f and g differ by d, if z counts.
TotalChanged(z, d, f, g, S) ==
  /\ Total(f, S) \in Int
  /\ Total(g, S) = Total(f, S) + (IF z \in S THEN d ELSE 0)

\* A change at one place changes the total by as much.
LEMMA TotalChanges ==
  ASSUME NEW f, NEW g, NEW S, IsFiniteSet(S), NEW z, NEW d \in Int,
         ChangedAt(z, d, f, g, S)
  PROVE  TotalChanged(z, d, f, g, S)
BY TotalIsSum, SumIsInt, SumChanges DEF ChangedAt, TotalChanged

\* Zeros add up to zero.
LEMMA TotalOfZeros ==
  ASSUME NEW f, NEW S, IsFiniteSet(S), \A x \in S : f[x] = 0
  PROVE  Total(f, S) = 0
BY TotalIsSum, SumOfZeros

\* A user has finitely many orders.
LEMMA OrdersOfFinite == \A u \in Users : IsFiniteSet(OrdersOf(u))
<1>1. ASSUME NEW u \in Users PROVE IsFiniteSet(OrdersOf(u))
  <2>1. OrdersOf(u) \in SUBSET Orders /\ IsFiniteSet(Orders)
    BY LedgerAssumption DEF OrdersOf
  <2> QED BY <2>1, FS_Subset, Zenon
<1> QED BY <1>1

\* An order's reservation and its owner's hold change by the same amount.
LEMMA HoldFollows ==
  ASSUME TypeOK, HoldsAreReservations, NEW o \in Orders, NEW d \in Int,
         held' = [held EXCEPT ![owner[o]] = held[owner[o]] + d],
         reserved' = [reserved EXCEPT ![o] = reserved[o] + d],
         UNCHANGED owner
  PROVE  HoldsAreReservations'
<1> SUFFICES ASSUME NEW u \in Users
             PROVE  held'[u] = Total(reserved', OrdersOf(u))
  BY DEF HoldsAreReservations, OrdersOf
<1>1. IsFiniteSet(OrdersOf(u))
  BY OrdersOfFinite
<1>2. ChangedAt(o, d, reserved, reserved', OrdersOf(u))
  BY DEF TypeOK, OrdersOf, ChangedAt
<1>3. TotalChanged(o, d, reserved, reserved', OrdersOf(u))
  BY <1>1, <1>2, TotalChanges, Zenon
<1>4. held[u] = Total(reserved, OrdersOf(u))
  BY DEF HoldsAreReservations
<1>5. o \in OrdersOf(u) <=> u = owner[o]
  BY DEF OrdersOf
<1>6. held'[u] = IF u = owner[o] THEN held[u] + d ELSE held[u]
  BY DEF TypeOK
<1>7. held[u] \in Int
  BY DEF TypeOK
<1> DEFINE t0 == Total(reserved, OrdersOf(u))
           t1 == Total(reserved', OrdersOf(u))
<1>8. t0 = held[u] /\ t1 = t0 + (IF u = owner[o] THEN d ELSE 0)
  BY <1>3, <1>4, <1>5, Zenon DEF TotalChanged
<1> HIDE DEF t0, t1
<1>9. held'[u] = t1
  BY <1>6, <1>7, <1>8
<1> QED BY <1>9 DEF t1

\* One user's balance and the credited money change by the same amount.
LEMMA BalanceChanges ==
  ASSUME NEW f \in [Users -> Int], NEW u \in Users, NEW d \in Int,
         NEW g, g = [f EXCEPT ![u] = f[u] + d]
  PROVE  TotalChanged(u, d, f, g, Users)
<1>1. IsFiniteSet(Users)
  BY LedgerAssumption
<1>2. ChangedAt(u, d, f, g, Users)
  BY DEF ChangedAt
<1>3. TotalChanged(u, d, f, g, Users)
  BY <1>1, <1>2, TotalChanges, Zenon
<1> QED BY <1>3

\* The two sums the ledger keeps.
Accounted == HoldsAreReservations /\ MoneyConserved

\* All sums start at zero.
LEMMA InitAccounted == Init => Accounted
<1> SUFFICES ASSUME Init PROVE Accounted
  OBVIOUS
<1>1. Total(balances, Users) = 0 /\ credited = 0
  <2>1. \A x \in Users : balances[x] = 0
    BY DEF Init
  <2>2. IsFiniteSet(Users)
    BY LedgerAssumption
  <2> QED BY <2>1, <2>2, TotalOfZeros DEF Init
<1>2. ASSUME NEW u \in Users PROVE held[u] = Total(reserved, OrdersOf(u))
  <2>1. \A x \in OrdersOf(u) : reserved[x] = 0
    BY DEF Init, OrdersOf
  <2>2. Total(reserved, OrdersOf(u)) = 0
    BY <2>1, OrdersOfFinite, TotalOfZeros
  <2> QED BY <2>2 DEF Init
<1> QED BY <1>1, <1>2 DEF Accounted, HoldsAreReservations, MoneyConserved

\* A credit reaches one balance and the count of what was credited.
LEMMA CreditAccounted ==
  ASSUME TypeOK, Accounted, NEW u \in Users, NEW a \in Amounts, Credit(u, a)
  PROVE  Accounted'
<1>1. a \in Int /\ balances \in [Users -> Int] /\ credited \in Int
  BY LedgerAssumption DEF TypeOK
<1>2. balances' = [balances EXCEPT ![u] = balances[u] + a]
      /\ credited' = credited + a /\ UNCHANGED <<held, owner, reserved>>
  BY DEF Credit
<1>3. TotalChanged(u, a, balances, balances', Users)
  BY <1>1, <1>2, BalanceChanges
<1>4. MoneyConserved'
  BY <1>2, <1>3 DEF Accounted, MoneyConserved, TotalChanged
<1>5. HoldsAreReservations'
  BY <1>2 DEF Accounted, HoldsAreReservations, OrdersOf
<1> QED BY <1>4, <1>5 DEF Accounted

\* A placement reserves and holds the same amount.
LEMMA PlaceOrderAccounted ==
  ASSUME TypeOK, Accounted, NEW o \in Orders, NEW a \in Amounts, PlaceOrder(o, a)
  PROVE  Accounted'
<1>1. a \in Int /\ reserved \in [Orders -> Nat]
  BY LedgerAssumption DEF TypeOK
<1>2. /\ held' = [held EXCEPT ![owner[o]] = held[owner[o]] + a]
      /\ reserved' = [reserved EXCEPT ![o] = a]
      /\ reserved[o] = 0
      /\ UNCHANGED <<balances, owner, credited>>
  BY DEF PlaceOrder
<1>3. reserved' = [reserved EXCEPT ![o] = reserved[o] + a]
  BY <1>1, <1>2
<1>4. HoldsAreReservations'
  BY <1>1, <1>2, <1>3, HoldFollows DEF Accounted
<1> QED BY <1>2, <1>4 DEF Accounted, MoneyConserved

\* Both give back a part of a hold.
LEMMA ReleaseAccounted ==
  ASSUME TypeOK, HoldsAreReservations, NEW o \in Orders, NEW a \in Amounts,
         held' = [held EXCEPT ![owner[o]] = held[owner[o]] - a],
         reserved' = [reserved EXCEPT ![o] = reserved[o] - a],
         UNCHANGED owner
  PROVE  HoldsAreReservations'
<1>1. /\ a \in Int /\ -a \in Int /\ held \in [Users -> Int] /\ owner[o] \in Users
      /\ reserved \in [Orders -> Nat]
  BY LedgerAssumption DEF TypeOK
<1>2. /\ held[owner[o]] - a = held[owner[o]] + (-a)
      /\ reserved[o] - a = reserved[o] + (-a)
  BY <1>1
<1>3. /\ held' = [held EXCEPT ![owner[o]] = held[owner[o]] + (-a)]
      /\ reserved' = [reserved EXCEPT ![o] = reserved[o] + (-a)]
  BY <1>2, Zenon
<1> QED BY <1>1, <1>3, HoldFollows

\* A refund moves no money and gives back what was held.
LEMMA RefundAccounted ==
  ASSUME TypeOK, Accounted, NEW o \in Orders, NEW a \in Amounts, Refund(o, a)
  PROVE  Accounted'
<1>1. /\ held' = [held EXCEPT ![owner[o]] = held[owner[o]] - a]
      /\ reserved' = [reserved EXCEPT ![o] = reserved[o] - a]
      /\ UNCHANGED <<balances, owner, credited>>
  BY DEF Refund
<1>2. HoldsAreReservations'
  BY <1>1, ReleaseAccounted DEF Accounted
<1> QED BY <1>1, <1>2 DEF Accounted, MoneyConserved

\* What the buyer pays the seller gets, also when they are one user.
LEMMA SettleTradeAccounted ==
  ASSUME TypeOK, Accounted, NEW o \in Orders, NEW seller \in Users, NEW a \in Amounts,
         SettleTrade(o, seller, a)
  PROVE  Accounted'
<1> DEFINE b == owner[o]
           paid == [balances EXCEPT ![b] = balances[b] - a]
           got == [paid EXCEPT ![seller] = paid[seller] + a]
<1>1. /\ held' = [held EXCEPT ![owner[o]] = held[owner[o]] - a]
      /\ reserved' = [reserved EXCEPT ![o] = reserved[o] - a]
      /\ UNCHANGED <<owner, credited>>
      /\ balances' = got
  BY DEF SettleTrade
<1>2. HoldsAreReservations'
  BY <1>1, ReleaseAccounted DEF Accounted
<1>3. a \in Int /\ -a \in Int /\ b \in Users /\ balances \in [Users -> Int]
  BY LedgerAssumption DEF TypeOK
<1>4. balances[b] - a = balances[b] + (-a) /\ balances[b] + (-a) \in Int
  BY <1>3
<1>5. paid = [balances EXCEPT ![b] = balances[b] + (-a)] /\ paid \in [Users -> Int]
  BY <1>3, <1>4
<1> HIDE DEF paid, b
<1>6. TotalChanged(b, -a, balances, paid, Users)
  BY <1>3, <1>5, BalanceChanges, Zenon
<1>11. got = [paid EXCEPT ![seller] = paid[seller] + a]
  OBVIOUS
<1> HIDE DEF got
<1>7. TotalChanged(seller, a, paid, got, Users)
  BY <1>3, <1>5, <1>11, BalanceChanges, Zenon
<1> DEFINE t0 == Total(balances, Users)
           t1 == Total(paid, Users)
           t2 == Total(got, Users)
<1>8. t0 \in Int /\ t1 = t0 + (-a) /\ t2 = t1 + a
  BY <1>3, <1>6, <1>7 DEF TotalChanged
<1> HIDE DEF t0, t1, t2
<1>9. t2 = t0
  BY <1>3, <1>8
<1>10. Total(balances', Users) = Total(balances, Users)
  BY <1>1, <1>9 DEF t0, t2
<1> QED BY <1>1, <1>2, <1>10 DEF Accounted, MoneyConserved

\* Every step keeps both sums.
LEMMA NextAccounted == TypeOK /\ Accounted /\ [Next]_vars => Accounted'
<1>1. TypeOK /\ Accounted /\ UNCHANGED vars => Accounted'
  BY DEF vars, Accounted, HoldsAreReservations, MoneyConserved, OrdersOf
<1>2. TypeOK /\ Accounted /\ Next => Accounted'
  BY CreditAccounted, PlaceOrderAccounted, RefundAccounted, SettleTradeAccounted DEF Next
<1> QED BY <1>1, <1>2

\* The sums are right in every reachable state.
LEMMA AccountsHold == Spec => []Accounted
  BY InitAccounted, NextAccounted, TypeCorrect, PTL DEF Spec

\* A user's hold is the sum of what the user's orders have reserved, after any
\* number of placements, trades and refunds.
THEOREM HoldsAddUp == Spec => []HoldsAreReservations
<1>1. Accounted => HoldsAreReservations
  BY DEF Accounted
<1> QED BY <1>1, AccountsHold, PTL

\* The balances add up to what was credited: trades between any two users,
\* one and the same included, make no money and lose none.
THEOREM MoneyIsConserved == Spec => []MoneyConserved
<1>1. Accounted => MoneyConserved
  BY DEF Accounted
<1> QED BY <1>1, AccountsHold, PTL

----------------------------------------------------------------------------
(* The ledger implements Escrow.                                           *)

\* The account of a user in Escrow.
account == [u \in Users |-> balances[u] - held[u]]

LEMMA InitImplements == Init => Promise!Init
  BY DEF Init, Promise!Init

LEMMA CreditImplements ==
  ASSUME TypeOK, NEW u \in Users, NEW a \in Amounts, Credit(u, a)
  PROVE  Promise!Deposit(u, a)
<1>1. a \in Nat
  BY LedgerAssumption
<1>2. /\ balances' = [balances EXCEPT ![u] = balances[u] + a]
      /\ held' = held /\ reserved' = reserved
  BY DEF Credit
<1>3. ASSUME NEW v \in Users
      PROVE  balances'[v] - held'[v] = IF v = u THEN balances[v] - held[v] + a
                                                ELSE balances[v] - held[v]
  BY <1>1, <1>2 DEF TypeOK
<1>4. account' = [account EXCEPT ![u] = account[u] + a]
  BY <1>3 DEF account
<1> QED
  BY <1>2, <1>4 DEF Promise!Deposit, account

LEMMA PlaceOrderImplements ==
  ASSUME TypeOK, NEW o \in Orders, NEW a \in Amounts, PlaceOrder(o, a)
  PROVE  Promise!SetAside(owner[o], o, a)
<1>1. a \in Nat /\ owner[o] \in Users
  BY LedgerAssumption DEF TypeOK
<1>2. /\ held' = [held EXCEPT ![owner[o]] = held[owner[o]] + a]
      /\ balances' = balances
      /\ a <= balances[owner[o]] - held[owner[o]]
  BY DEF PlaceOrder, Free
<1>3. account' = [account EXCEPT ![owner[o]] = account[owner[o]] - a]
  <2>1. ASSUME NEW v \in Users
        PROVE  balances'[v] - held'[v] = IF v = owner[o] THEN balances[v] - held[v] - a
                                                         ELSE balances[v] - held[v]
    BY <1>1, <1>2 DEF TypeOK
  <2> QED
    BY <1>1, <2>1 DEF account
<1>4. reserved' = [reserved EXCEPT ![o] = reserved[o] + a]
  BY <1>1 DEF PlaceOrder, TypeOK
<1> QED
  BY <1>1, <1>2, <1>3, <1>4 DEF Promise!SetAside, account

LEMMA SettleTradeImplements ==
  ASSUME TypeOK, NEW o \in Orders, NEW seller \in Users, NEW a \in Amounts,
         SettleTrade(o, seller, a)
  PROVE  Promise!PayOut(o, seller, a)
<1>1. a \in Nat
  BY LedgerAssumption
<1> DEFINE b == owner[o]
<1> DEFINE paid == [balances EXCEPT ![b] = balances[b] - a]
<1>2. /\ b \in Users
      /\ held' = [held EXCEPT ![b] = held[b] - a]
      /\ balances' = [paid EXCEPT ![seller] = paid[seller] + a]
      /\ balances \in [Users -> Int]
      /\ held \in [Users -> Int]
  BY DEF SettleTrade, TypeOK
<1> HIDE DEF b
<1>3. ASSUME NEW v \in Users
      PROVE  balances'[v] - held'[v] = IF v = seller THEN balances[v] - held[v] + a
                                                     ELSE balances[v] - held[v]
  <2>1. balances[v] \in Int /\ held[v] \in Int
    BY <1>2
  <2>2. held'[v] = IF v = b THEN held[v] - a ELSE held[v]
    BY <1>2
  <2>3. paid[v] = IF v = b THEN balances[v] - a ELSE balances[v]
    BY <1>2
  <2>4. paid \in [Users -> Int]
    BY <1>1, <1>2
  <2> HIDE DEF paid
  <2>5. balances'[v] = IF v = seller THEN paid[v] + a ELSE paid[v]
    BY <1>2, <2>4
  <2> QED
    BY <1>1, <2>1, <2>2, <2>3, <2>5
<1>4. account' = [account EXCEPT ![seller] = account[seller] + a]
  BY <1>3 DEF account
<1> QED
  BY <1>4 DEF SettleTrade, Promise!PayOut, account

LEMMA RefundImplements ==
  ASSUME TypeOK, NEW o \in Orders, NEW a \in Amounts, Refund(o, a)
  PROVE  Promise!PayOut(o, owner[o], a)
<1>1. a \in Nat /\ owner[o] \in Users
  BY LedgerAssumption DEF TypeOK
<1>2. held' = [held EXCEPT ![owner[o]] = held[owner[o]] - a] /\ balances' = balances
  BY DEF Refund
<1>3. account' = [account EXCEPT ![owner[o]] = account[owner[o]] + a]
  <2>1. ASSUME NEW v \in Users
        PROVE  balances'[v] - held'[v] = IF v = owner[o] THEN balances[v] - held[v] + a
                                                         ELSE balances[v] - held[v]
    BY <1>1, <1>2 DEF TypeOK
  <2> QED
    BY <1>1, <2>1 DEF account
<1> QED
  BY <1>3 DEF Refund, Promise!PayOut, account

\* Balances with holds keep the promise of escrow accounts: what is held for
\* an order can be spent once, by that order, and comes back when it is not.
THEOREM ImplementsEscrow == Spec => KeepsPromise
<1>1. TypeOK /\ [Next]_vars => [Promise!Next]_(Promise!vars)
  <2> SUFFICES ASSUME TypeOK, [Next]_vars PROVE [Promise!Next]_(Promise!vars)
    OBVIOUS
  <2>1. CASE UNCHANGED vars
    BY <2>1 DEF vars, Promise!vars
  <2>2. ASSUME NEW u \in Users, NEW a \in Amounts, Credit(u, a)
        PROVE  Promise!Next
    BY <2>2, CreditImplements DEF Promise!Next
  <2>3. ASSUME NEW o \in Orders, NEW a \in Amounts, PlaceOrder(o, a)
        PROVE  Promise!Next
    BY <2>3, PlaceOrderImplements DEF Promise!Next, TypeOK
  <2>4. ASSUME NEW o \in Orders, NEW a \in Amounts, NEW seller \in Users,
               SettleTrade(o, seller, a)
        PROVE  Promise!Next
    BY <2>4, SettleTradeImplements DEF Promise!Next
  <2>5. ASSUME NEW o \in Orders, NEW a \in Amounts, Refund(o, a)
        PROVE  Promise!Next
    BY <2>5, RefundImplements DEF Promise!Next, TypeOK
  <2> QED
    BY <2>1, <2>2, <2>3, <2>4, <2>5 DEF Next
<1> QED
  BY <1>1, InitImplements, TypeCorrect, PTL DEF Spec, KeepsPromise, Promise!Spec

=============================================================================
