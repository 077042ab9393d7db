------------------------------ MODULE AtomicBook ------------------------------
(***************************************************************************)
(* What the order book promises its callers: PlaceOrder and CancelOrder    *)
(* take effect at once on a set of resting orders.  There are no slices,   *)
(* no loops and no order of fills here: how much a resting order trades is *)
(* stated order by order, from what ranks ahead of it.                     *)
(***************************************************************************)
EXTENDS Orders, Sequences, SequencesExt

CONSTANT
  NoOrder    \* no call is being answered

VARIABLES
  resting,   \* the orders on the book
  order,     \* the order whose call is being answered
  trades,    \* the answer: the trades,
  err        \* and the error

vars == <<resting, order, trades, err>>

Init ==
  /\ resting = {}
  /\ order = NoOrder
  /\ trades = <<>>
  /\ err = "none"

\* An incoming order trades with the other side up to its limit; a sweep
\* leaves out the orders of its own user.
Crossing(o) ==
  {r \in resting : r.side = Opp(o.side) /\ (o.type = "market" \/ Crosses(o, r))}

Tradable(o) == {r \in Crossing(o) : o.type = "limit" \/ r.user # o.user}

\* Those it trades with before r.
Ahead(o, r) == {s \in Tradable(o) : Less(Opp(o.side), s, r)}

\* What they leave of o goes to r, as far as r has it.
Share(o, r) == Max({0, Min({r.qty, o.qty - Quantity(Ahead(o, r))})})

\* What all of them leave.
Unfilled(o) == Max({0, o.qty - Quantity(Tradable(o))})

\* A limit order whose own user has the best order it crosses trades nothing.
Parks(o) ==
  o.type = "limit" /\ \E r \in Crossing(o) : r.user = o.user /\ Ahead(o, r) = {}

\* An IOC order that is not filled takes its user's own orders with it.
Abandoned(o) ==
  IF o.type = "ioc" /\ Unfilled(o) > 0
  THEN {r \in Crossing(o) : r.user = o.user} ELSE {}

\* The trades: one with each order that has a share, best order first.
Answers(o, ts) ==
  LET filled  == {r \in Tradable(o) : Share(o, r) > 0}
      With(r) == TradeOf(o, r, Share(o, r))
  IN  /\ ToSet(ts) = {With(r) : r \in filled}
      /\ \A i, j \in 1..Len(ts) : \A r, s \in filled :
           (i < j /\ ts[i] = With(r) /\ ts[j] = With(s)) => Less(Opp(o.side), r, s)

Park(o) ==
  /\ Parks(o)
  /\ resting' = resting \cup {o}
  /\ trades' = <<>>
  /\ err' = "none"

Match(o) ==
  /\ ~Parks(o)
  /\ resting' = { [r EXCEPT !.qty = @ - Share(o, r)] :
                    r \in { s \in Tradable(o) : Share(o, s) < s.qty } }
                \cup (resting \ (Tradable(o) \cup Abandoned(o)))
                \cup { r \in {[o EXCEPT !.qty = Unfilled(o)]} :
                         o.type = "limit" /\ r.qty > 0 }
  /\ Answers(o, trades')
  /\ err' = IF o.type = "market" /\ Unfilled(o) > 0 THEN "no_liquidity" ELSE "none"

\* No order on the book has the id of a new one (nextID).
PlaceOrder(o) ==
  /\ order = NoOrder
  /\ order' = o
  /\ Valid(o)
  /\ \A r \in resting : r.id # o.id
  /\ Park(o) \/ Match(o)

Return ==
  /\ order # NoOrder
  /\ order' = NoOrder
  /\ trades' = <<>>
  /\ err' = "none"
  /\ UNCHANGED resting

CancelOrder(id) ==
  /\ order = NoOrder
  /\ resting' = {r \in resting : r.id # id}
  /\ UNCHANGED <<order, trades, err>>

\* The order placed is the one that is then being answered.
Next ==
  \/ order' \in Submission /\ PlaceOrder(order')
  \/ Return
  \/ \E id \in Ids : CancelOrder(id)

Spec == Init /\ [][Next]_vars

=============================================================================
