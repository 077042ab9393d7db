---------------------------- MODULE BrokenMatcher ----------------------------
(***************************************************************************)
(* exercises/matcher, the matcher that an interview asks to repair: one    *)
(* unsorted slice of orders, and the traders' balances.  A turn of its     *)
(* loop is a step, since the loop counts up to the length the slice had    *)
(* before while the slice gets shorter.  Nothing is locked; the calls here *)
(* come one after the other, because what overlapping ones do to the slice *)
(* and the map is undefined.                                               *)
(***************************************************************************)
EXTENDS Integers, Sequences, SequencesExt, FiniteSetsExt, Functions

CONSTANTS
  Ids,          \* order ids; 0 is the blank one, which is refused
  Traders,
  Prices,       \* in fractions of what balances are counted in, negative or not
  Quantities,   \* the quantities of incoming orders, positive or not
  PriceUnit,    \* the price that is one unit of a balance
  Amounts,      \* the balances that are set, negative or not
  MaxCalls      \* bound: the calls of PlaceOrder

VARIABLES
  orders,     \* the resting orders of both sides
  balances,   \* the traders' balances
  pc,         \* where the call is
  cur,        \* its order, with the quantity that is left
  i,          \* the loop's index,
  length,     \* and where range has it end
  trades,     \* the trades of the call
  calls,      \* history: the number of calls
  total,      \* history: the sum of the balances that were set
  burnt,      \* history: the payments nobody has received
  charged     \* history: the receivers of payments below zero

callVars == <<pc, cur, i, length, trades>>
vars == <<orders, balances, callVars, calls, total, burnt, charged>>

Order == [id : Ids, trader : Traders, side : {"buy", "sell"}, price : Prices,
          qty : Quantities]

Init ==
  /\ orders = <<>>
  /\ balances = [t \in Traders |-> 0]
  /\ pc = "idle"
  /\ cur = <<>>
  /\ i = 0
  /\ length = 0
  /\ trades = <<>>
  /\ calls = 0
  /\ total = 0
  /\ burnt = 0
  /\ charged = {}

\* Balances are set before the first order.  A negative one counts as a
\* payment below zero.
SetBalance(t, amount) ==
  /\ calls = 0
  /\ balances' = [balances EXCEPT ![t] = amount]
  /\ total' = total - balances[t] + amount
  /\ charged' = charged \cup IF amount < 0 THEN {{t}} ELSE {}
  /\ UNCHANGED <<orders, callVars, calls, burnt>>

\* range reads the length of the slice here, once.
PlaceOrder(o) ==
  /\ pc = "idle"
  /\ calls < MaxCalls
  /\ o.id # 0 /\ o.qty > 0
  /\ pc' = "loop"
  /\ cur' = o
  /\ i' = 1
  /\ length' = Len(orders)
  /\ trades' = <<>>
  /\ calls' = calls + 1
  /\ UNCHANGED <<orders, balances, total, burnt, charged>>

Matches(o, r) ==
  /\ r.side # o.side
  /\ IF o.side = "buy" THEN r.price <= o.price ELSE r.price >= o.price

\* continue.
Pass ==
  /\ pc = "loop"
  /\ i <= length /\ i <= Len(orders)
  /\ ~Matches(cur, orders[i])
  /\ i' = i + 1
  /\ UNCHANGED <<orders, balances, pc, cur, length, trades, calls, total, burnt, charged>>

\* The order at k has q less, or is cut out.
Shrink(s, k, q) ==
  IF q = s[k].qty THEN RemoveAt(s, k) ELSE [s EXCEPT ![k].qty = @ - q]

Fill ==
  /\ pc = "loop"
  /\ i <= length /\ i <= Len(orders)
  /\ Matches(cur, orders[i])
  /\ LET r == orders[i]
         q == IF r.qty < cur.qty THEN r.qty ELSE cur.qty
     IN  /\ trades' = Append(trades, [buy   |-> IF cur.side = "buy" THEN cur.id ELSE r.id,
                                      sell  |-> IF cur.side = "buy" THEN r.id ELSE cur.id,
                                      price |-> r.price, qty |-> q])
         /\ cur' = [cur EXCEPT !.qty = @ - q]
         /\ orders' = Shrink(orders, i, q)
         /\ i' = IF cur.qty = q THEN length + 1 ELSE i + 1
  /\ UNCHANGED <<balances, pc, length, calls, total, burnt, charged>>

\* The index is past the end of the slice.
Overrun ==
  /\ pc = "loop"
  /\ i <= length /\ i > Len(orders)
  /\ pc' = "panicked"
  /\ UNCHANGED <<orders, balances, cur, i, length, trades, calls, total, burnt, charged>>

\* A payment is cut to whole units, towards zero: int64 drops the fraction.
Cost(t) ==
  LET exact == t.price * t.qty
  IN  IF exact >= 0 THEN exact \div PriceUnit ELSE -((-exact) \div PriceUnit)

\* The sum of f over S, and what the trades at the places ks cost together.
Total(f, S) == MapThenSumSet(LAMBDA x : f[x], S)
Costs(ks) == Total([k \in 1..Len(trades) |-> Cost(trades[k])], ks)

\* The end of the call: what is left of the order is appended.
Return ==
  /\ orders' = IF cur.qty > 0 THEN Append(orders, cur) ELSE orders
  /\ pc' = "idle"
  /\ cur' = <<>>
  /\ i' = 0
  /\ length' = 0
  /\ trades' = <<>>

\* A sale pays nobody.
Sold ==
  /\ pc = "loop" /\ i > length
  /\ cur.side = "sell"
  /\ Return
  /\ UNCHANGED <<balances, calls, total, burnt, charged>>

\* Fault: each payment is compared with the balance as it was before.
FaultCovered == \A k \in 1..Len(trades) : Cost(trades[k]) <= balances[cur.trader]

\* The buyer can pay for all of the trades.
Covered == Costs(1..Len(trades)) <= balances[cur.trader]

\* The balance is too small, but the book has changed.
Insufficient ==
  /\ pc = "loop" /\ i > length
  /\ cur.side = "buy"
  /\ ~Covered
  /\ pc' = "idle"
  /\ cur' = <<>>
  /\ i' = 0
  /\ length' = 0
  /\ trades' = <<>>
  /\ UNCHANGED <<orders, balances, calls, total, burnt, charged>>

\* Whoever has an order of the seller's id in the slice is paid for a trade;
\* the seller's own may have been cut out.
Payees(t) ==
  LET found == {k \in 1..Len(orders) : orders[k].id = t.sell}
  IN  IF found = {} THEN {} ELSE {orders[Min(found)].trader}

Received(u) == Costs({k \in 1..Len(trades) : u \in Payees(trades[k])})

Bought ==
  /\ pc = "loop" /\ i > length
  /\ cur.side = "buy"
  /\ Covered
  /\ balances' = [u \in Traders |->
       balances[u] + Received(u)
         - IF u = cur.trader THEN Costs(1..Len(trades)) ELSE 0]
  /\ burnt' = burnt + Costs({k \in 1..Len(trades) : Payees(trades[k]) = {}})
  /\ charged' = charged \cup {Payees(trades[k]) : k \in {n \in 1..Len(trades) : Cost(trades[n]) < 0}}
  /\ Return
  /\ UNCHANGED <<calls, total>>

\* SortOrders: the highest price first, equal prices in any order.
SortOrders ==
  /\ pc = "idle"
  /\ \E f \in Bijection(1..Len(orders), 1..Len(orders)) :
       /\ \A j, k \in 1..Len(orders) : j < k => orders[f[j]].price >= orders[f[k]].price
       /\ orders' = [k \in 1..Len(orders) |-> orders[f[k]]]
  /\ UNCHANGED <<balances, callVars, calls, total, burnt, charged>>

Next ==
  \/ \E t \in Traders, amount \in Amounts : SetBalance(t, amount)
  \/ \E o \in Order : PlaceOrder(o)
  \/ Pass \/ Fill \/ Overrun
  \/ Sold \/ Insufficient \/ Bought
  \/ SortOrders

Spec == Init /\ [][Next]_vars

----------------------------------------------------------------------------

\* How far the damage goes that the header of the matcher lists, and what it
\* does not list, that no price is looked at.  Money is lost when the seller's
\* order is gone ("Seller balance update broken"), and all that was set is
\* still on a balance or lost in this way, however many trades a call has and
\* whoever they pay.  Nobody has less than nothing but who was given it or was
\* "paid" for a sale below zero, and money is made, which is to lose less than
\* nothing, only if such a payment found no receiver.  The loop runs off the
\* slice ("Slice mutation during iteration") only when the incoming order has
\* used up a resting one and still wants more.
DamageIsKnown ==
  /\ Total(balances, Traders) + burnt = total
  /\ \A t \in Traders : {t} \notin charged => balances[t] >= 0
  /\ {} \notin charged => burnt >= 0
  /\ \A k \in 1..Len(orders) : orders[k].qty > 0
  /\ pc = "panicked" => trades # <<>> /\ cur.qty > 0

=============================================================================
