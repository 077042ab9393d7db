-------------------------------- MODULE Orders --------------------------------
(***************************************************************************)
(* What internal/orderbook says of a single order or of two: their fields, *)
(* which is valid, which ranks first, which prices cross, and the trade    *)
(* that two of them make.  OrderBook is the engine over these; AtomicBook  *)
(* is what the engine promises.                                            *)
(***************************************************************************)
EXTENDS Integers, FiniteSetsExt

CONSTANTS
  Ids,          \* order ids; 0 is the blank id, which validation rejects
  Users,        \* the user ids put on orders
  NoUser,       \* the blank user id, which validation rejects
  OrderTypes,   \* the order types put on orders
  Prices,       \* the prices put on orders, valid or not
  Quantities,   \* the quantities put on orders, valid or not
  Timestamps,   \* the times put on orders
  MaxPrice,     \* the highest price, 100 cents in the code
  Latest        \* the latest timestamp that is not "in the future"

Sides == {"buy", "sell"}
KnownTypes == {"limit", "market", "ioc"}

ASSUME ConstantsAssumption ==
  /\ Ids \subseteq Nat
  /\ OrderTypes \subseteq KnownTypes \cup {"unknown"}
  /\ Prices \subseteq Int
  /\ Quantities \subseteq Int
  /\ Timestamps \subseteq Nat
  /\ MaxPrice \in Nat \ {0}
  /\ Latest \in Nat

\* An order as the book keeps it: qty is what is left to fill.
Order == [id : Ids, user : Users, side : Sides, type : OrderTypes,
          price : Prices, qty : Int, ts : Timestamps]

\* An order as a caller submits it.
Submission == [id : Ids, user : Users, side : Sides, type : OrderTypes,
               price : Prices, qty : Quantities, ts : Timestamps]

Trade == [buy : Ids, sell : Ids, price : Prices, qty : Int]

----------------------------------------------------------------------------
(* Orders: sides, priority, crossing, validation.                          *)

Opp(side) == IF side = "buy" THEN "sell" ELSE "buy"

\* Two orders of equal price rank by time, then by id.
Earlier(a, b) == a.ts < b.ts \/ (a.ts = b.ts /\ a.id < b.id)

askLess(a, b) == a.price < b.price \/ (a.price = b.price /\ Earlier(a, b))
bidLess(a, b) == a.price > b.price \/ (a.price = b.price /\ Earlier(a, b))

Less(side, a, b) == IF side = "buy" THEN bidLess(a, b) ELSE askLess(a, b)

\* Fault: an equal price does not cross.
FaultCrossesStrictly(o, r) == IF o.side = "buy" THEN r.price < o.price
                                                ELSE r.price > o.price

\* The incoming limit or IOC order o accepts the price of resting order r.
Crosses(o, r) == IF o.side = "buy" THEN r.price <= o.price
                                   ELSE r.price >= o.price

\* ValidateOrder: every rule that holds of an acceptable order.
Valid(o) ==
  /\ o.id # 0
  /\ o.user # NoUser
  /\ o.qty > 0
  /\ o.type = "market" => o.price = 0
  /\ o.type \in {"limit", "ioc"} => o.price \in 1..MaxPrice
  /\ o.type \in KnownTypes
  /\ o.ts <= Latest

----------------------------------------------------------------------------
(* Trades.                                                                 *)

\* The trade of incoming order o with resting order r, at r's price.
TradeOf(o, r, q) ==
  [buy   |-> IF o.side = "buy" THEN o.id ELSE r.id,
   sell  |-> IF o.side = "buy" THEN r.id ELSE o.id,
   price |-> r.price,
   qty   |-> q]

\* What orders, or trades, add up to.
Quantity(S) == MapThenSumSet(LAMBDA r : r.qty, S)

=============================================================================
