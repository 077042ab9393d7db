----------------------------- MODULE PhaseMatcher -----------------------------
(***************************************************************************)
(* exercises/phase2-orderbook and phase3-matcher: a book of limit orders,  *)
(* and the matcher put on top of it, which handles market and IOC orders   *)
(* and self-matches with the book's pops and insertions.  The book may     *)
(* also be used directly, without the matcher, as phase4-concurrency does  *)
(* with the same code under a lock.  Either way calls do not overlap, so a *)
(* call is one step, and its loop a fold of its turns over the orders it   *)
(* may meet.                                                               *)
(***************************************************************************)
EXTENDS Orders, Sequences, SequencesExt

CONSTANT NoOrder    \* no call is being answered

VARIABLES
  direct,   \* the book is used without the matcher
  book,     \* the two slices, best order first
  order,    \* the order whose call is being answered
  trades,   \* the answer: the trades,
  err       \* and the error

vars == <<direct, book, order, trades, err>>

Init ==
  /\ direct \in BOOLEAN
  /\ book = [side \in Sides |-> <<>>]
  /\ order = NoOrder
  /\ trades = <<>>
  /\ err = "none"

\* sort.Search: the place before which nothing ranks behind o.
insertSorted(side, s, o) ==
  InsertAt(s, CHOOSE k \in 1..Len(s) + 1 :
                /\ k <= Len(s) => Less(side, o, s[k])
                /\ k > 1 => ~Less(side, o, s[k - 1]), o)

consumeHead(s, q) == IF q = s[1].qty THEN Tail(s) ELSE [s EXCEPT ![1].qty = @ - q]

\* A call in progress: its book, the quantity left of its order, its trades and
\* the orders of its own user that it has set aside.
Start(o) == [book |-> book, left |-> o.qty, trades |-> <<>>, skipped |-> <<>>]

\* One fill of o with the best order of the other side, which becomes s.
Fill(c, o, s) ==
  LET r == Head(c.book[Opp(o.side)])
      q == Min({c.left, r.qty})
  IN  [c EXCEPT !.book[Opp(o.side)] = s, !.left = @ - q,
                !.trades = Append(@, TradeOf(o, r, q))]

\* Phase 2: the head is filled in place, as long as it crosses.  A turn uses up
\* the head or the order, so there are no more turns than orders on that side.
matchTurn(c, o) ==
  LET s == c.book[Opp(o.side)]
  IN  IF c.left > 0 /\ s # <<>> /\ Crosses(o, s[1])
      THEN Fill(c, o, consumeHead(s, Min({c.left, s[1].qty})))
      ELSE c

match(c, o) == FoldLeft(LAMBDA d, r : matchTurn(d, o), c, c.book[Opp(o.side)])

\* The remainder rests.
rest(c, o) ==
  IF c.left = 0 THEN c
  ELSE [c EXCEPT !.book[o.side] = insertSorted(o.side, @, [o EXCEPT !.qty = c.left])]

\* Phase 3 looks at the head for its own user before that, once.
OwnHeadCrosses(o) ==
  LET s == book[Opp(o.side)]
  IN  s # <<>> /\ s[1].user = o.user /\ Crosses(o, s[1])

\* What a pop leaves when q of the popped order is filled: the rest of the
\* order is inserted again.
popAndRest(side, s, q) ==
  IF s[1].qty > q THEN insertSorted(side, Tail(s), [s[1] EXCEPT !.qty = @ - q])
                  ELSE Tail(s)

\* Fault: the order set aside last is forgotten.
FaultReinserted(c, side) ==
  [c EXCEPT !.book[side] =
     FoldLeft(LAMBDA s, r : insertSorted(side, s, r), @,
              SubSeq(c.skipped, 1, Len(c.skipped) - 1))]

\* The orders that were set aside go back.
Reinserted(c, side) ==
  [c EXCEPT !.book[side] =
     FoldLeft(LAMBDA s, r : insertSorted(side, s, r), @, c.skipped)]

\* A turn of phase 3's sweep uses up the head, sets it aside, or uses up the
\* order.
sweepTurn(c, o) ==
  LET opp == Opp(o.side)
      s == c.book[opp]
  IN  IF c.left = 0 \/ s = <<>> \/ (o.type = "ioc" /\ ~Crosses(o, s[1]))
      THEN c
      ELSE IF s[1].user = o.user
           THEN [c EXCEPT !.book[opp] = Tail(s), !.skipped = Append(@, s[1])]
           ELSE Fill(c, o, popAndRest(opp, s, Min({c.left, s[1].qty})))

\* An IOC order returns from within the loop when nothing is left that it
\* crosses, and what it has set aside is gone.
sweepEnd(c, o) ==
  LET opp == Opp(o.side)
      s == c.book[opp]
  IN  CASE c.left = 0 -> Reinserted(c, opp)
        [] c.left > 0 /\ s = <<>> -> IF o.type = "market" THEN Reinserted(c, opp) ELSE c
        [] OTHER -> [c EXCEPT !.book[opp] = insertSorted(opp, Tail(s), s[1])]

sweep(c, o) ==
  sweepEnd(FoldLeft(LAMBDA d, r : sweepTurn(d, o), c, c.book[Opp(o.side)]), o)

\* Callers validate orders and give each an id of its own.
Submitted(o) ==
  /\ order = NoOrder
  /\ order' = o
  /\ Valid(o)
  /\ \A side \in Sides : \A k \in 1..Len(book[side]) : book[side][k].id # o.id
  /\ UNCHANGED direct

\* Without the matcher: limit orders only.
PlaceOrder(o) ==
  /\ o.type = "limit" /\ direct
  /\ Submitted(o)
  /\ LET c == match(Start(o), o)
     IN  book' = rest(c, o).book /\ trades' = c.trades
  /\ err' = "none"

placeLimit(o) ==
  /\ o.type = "limit" /\ ~direct
  /\ Submitted(o)
  /\ LET c == IF OwnHeadCrosses(o) THEN Start(o) ELSE match(Start(o), o)
     IN  book' = rest(c, o).book /\ trades' = c.trades
  /\ err' = "none"

placeMarket(o) ==
  /\ o.type = "market" /\ ~direct
  /\ Submitted(o)
  /\ LET c == sweep(Start(o), o)
     IN  /\ book' = c.book
         /\ trades' = c.trades
         /\ err' = IF c.left > 0 THEN "no_liquidity" ELSE "none"

placeIOC(o) ==
  /\ o.type = "ioc" /\ ~direct
  /\ Submitted(o)
  /\ LET c == sweep(Start(o), o)
     IN  book' = c.book /\ trades' = c.trades
  /\ err' = "none"

Return ==
  /\ order # NoOrder
  /\ order' = NoOrder
  /\ trades' = <<>>
  /\ err' = "none"
  /\ UNCHANGED <<direct, book>>

\* The bids are searched first, then the asks.
CancelOrder(id) ==
  /\ order = NoOrder
  /\ \E side \in Sides, k \in 1..Cardinality(Ids) :
       /\ k <= Len(book[side])
       /\ book[side][k].id = id
       /\ book' = [book EXCEPT ![side] = RemoveAt(@, k)]
  /\ UNCHANGED <<direct, order, trades, err>>

Next ==
  \/ \E o \in Submission :
       PlaceOrder(o) \/ placeLimit(o) \/ placeMarket(o) \/ placeIOC(o)
  \/ Return
  \/ \E id \in Ids : CancelOrder(id)

Spec == Init /\ [][Next]_vars

----------------------------------------------------------------------------
(* The drafts promise what the engine does, see AtomicBook.  A book        *)
(* without the matcher does not look at users: it is as if all buyers were *)
(* one user and all sellers another.                                       *)

Buyer == CHOOSE u \in Users : TRUE
Seller == CHOOSE u \in Users : u # Buyer

Seen(o) ==
  IF direct THEN [o EXCEPT !.user = IF o.side = "buy" THEN Buyer ELSE Seller] ELSE o

Promise == INSTANCE AtomicBook WITH
  resting <- {Seen(r) : r \in ToSet(book["buy"]) \cup ToSet(book["sell"])},
  order <- IF order = NoOrder THEN NoOrder ELSE Seen(order)

\* Whatever calls have gone before, each trades with the best orders first, in
\* full, at their prices, and rests, parks, is refused or loses its user's own
\* orders exactly where the engine in OrderBook does; the book used without
\* the matcher does the same, except that it trades a user's orders with one
\* another.
KeepsPromise == Promise!Spec

=============================================================================
