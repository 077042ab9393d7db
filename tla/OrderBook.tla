------------------------------ MODULE OrderBook ------------------------------
(***************************************************************************)
(* The matching engine of internal/orderbook: one limit-order book with    *)
(* price-time priority and limit, market and immediate-or-cancel orders.   *)
(*                                                                         *)
(* PlaceOrder and CancelOrder hold the book's write lock from entry to     *)
(* return, so one call runs at a time and every other goroutine sees the   *)
(* book only when pc = "idle".  A PlaceOrder call is many steps here: one  *)
(* per trade, per skipped order and per re-inserted order, so that the     *)
(* loops of the code are behaviours (which may fail to end) and not a      *)
(* recursive definition, and so that theorems can be proved about them.    *)
(*                                                                         *)
(* The definitions named Fault... are the mistakes the properties are      *)
(* tried against; nothing else refers to them.                             *)
(***************************************************************************)
EXTENDS Orders, Sequences, FiniteSets, SequencesExt

CONSTANT
  NoOrder       \* the value of cur between calls

ASSUME NoOrderAssumption == NoOrder \notin Order

VARIABLES
  book,         \* book["buy"] is bids, book["sell"] is asks, best order first
  pc,           \* where the call that holds the lock is
  cur,          \* its order
  remaining,    \* its quantity left to fill
  skipped,      \* own orders a sweep has popped and not re-inserted yet
  trades,       \* the trades it returns
  err,          \* the error it returns, if any
  placed,       \* history: the orders accepted by validation
  filled,       \* history: the quantity traded on behalf of each order
  cancelled,    \* history: ids that CancelOrder removed
  parked        \* history: ids put to rest by the self-match branch

callVars == <<cur, remaining, skipped, trades, err>>
vars == <<book, pc, callVars, placed, filled, cancelled, parked>>

----------------------------------------------------------------------------
(* The slices of the book.                                                 *)

\* Where sort.Search may stop: it returns an index whose order yields to o
\* while the one before it does not.  On a sorted slice there is just one.
SearchPoints(side, s, o) ==
  {i \in 1..(Len(s) + 1) : /\ i > 1 => ~Less(side, o, s[i - 1])
                           /\ i <= Len(s) => Less(side, o, s[i])}

\* Fault: a new order goes to the end.
FaultAppend(side, s, o) == {Append(s, o)}

\* The slices insertSorted may return.
insertSorted(side, s, o) == {InsertAt(s, i, o) : i \in SearchPoints(side, s, o)}

\* Fault: a partly filled head keeps its quantity.
FaultStaleHead(s, q) == IF q = Head(s).qty THEN Tail(s) ELSE s

\* fillFrom's consumeHead: shrink the head in place, or drop it when used up.
consumeHead(s, q) ==
  IF q = Head(s).qty THEN Tail(s)
                     ELSE <<[Head(s) EXCEPT !.qty = @ - q]>> \o Tail(s)

\* What a sweep leaves of s: the head is popped, and what fillMarket left of
\* it is inserted again.
popAndRest(side, s, q) ==
  IF q = Head(s).qty
  THEN {Tail(s)}
  ELSE insertSorted(side, Tail(s), [Head(s) EXCEPT !.qty = @ - q])

\* Fault: the slice keeps only what follows the removed order.
FaultRemovePrefix(s, id) ==
  {SubSeq(s, i + 1, Len(s)) : i \in {k \in 1..Len(s) : s[k].id = id}}

\* removeByID: the slices without the first order of that id; none if s has
\* no such order.
removeByID(s, id) ==
  {RemoveAt(s, i) : i \in {k \in 1..Len(s) : /\ s[k].id = id
                                           /\ \A j \in 1..(k - 1) : s[j].id # id}}

----------------------------------------------------------------------------
(* One trade between cur and a resting order r.                            *)

\* Fault: the head is always taken whole.
FaultWholeHead(r) == r.qty

FillQty(r) == IF r.qty < remaining THEN r.qty ELSE remaining

Execute(r, q) ==
  /\ trades' = Append(trades, TradeOf(cur, r, q))
  /\ remaining' = remaining - q
  /\ filled' = [filled EXCEPT ![cur.id] = @ + q, ![r.id] = @ + q]

----------------------------------------------------------------------------
(* PlaceOrder.                                                             *)

Init ==
  /\ book = [s \in Sides |-> <<>>]
  /\ pc = "idle"
  /\ cur = NoOrder
  /\ remaining = 0
  /\ skipped = <<>>
  /\ trades = <<>>
  /\ err = "none"
  /\ placed = {}
  /\ filled = [id \in Ids |-> 0]
  /\ cancelled = {}
  /\ parked = {}

\* The caller gives every accepted order an id of its own (nextID).
Fresh(id) == \A p \in placed : p.id # id

\* The orders that get as far as the lock.  A call whose order is not Valid
\* returns an error before it.
Acceptable == {o \in Submission : Valid(o) /\ Fresh(o.id)}

\* The call has the lock; next is where it goes on.
Begin(o, next) ==
  /\ pc' = next
  /\ cur' = o
  /\ remaining' = o.qty
  /\ skipped' = <<>>
  /\ trades' = <<>>
  /\ err' = "none"
  /\ placed' = placed \cup {o}
  /\ UNCHANGED <<filled, cancelled>>

\* Fault: an own order of the very same price is not seen.
FaultOwnHeadStrictly(o) ==
  LET opp == book[Opp(o.side)]
  IN  opp # <<>> /\ Head(opp).user = o.user /\ FaultCrossesStrictly(o, Head(opp))

\* The head of the other side is the user's own and crosses.
OwnHeadCrosses(o) ==
  LET opp == book[Opp(o.side)]
  IN  opp # <<>> /\ Head(opp).user = o.user /\ Crosses(o, Head(opp))

\* placeLimit rests the whole order instead of matching it.
ParkLimit(o) ==
  /\ Begin(o, "done")
  /\ o.type = "limit"
  /\ OwnHeadCrosses(o)
  /\ \E s \in insertSorted(o.side, book[o.side], o) :
       book' = [book EXCEPT ![o.side] = s]
  /\ parked' = parked \cup {o.id}

\* placeLimit goes on to matchBuy or matchSell.
StartLimit(o) ==
  /\ Begin(o, "match")
  /\ o.type = "limit"
  /\ ~OwnHeadCrosses(o)
  /\ UNCHANGED <<book, parked>>

\* placeMarket or placeIOC.
StartSweep(o) ==
  /\ Begin(o, "sweep")
  /\ o.type \in {"market", "ioc"}
  /\ UNCHANGED <<book, parked>>

\* The slice that cur trades against.
OppBook == book[Opp(cur.side)]

\* Fault: the match loop stops at an own order.
FaultOwnHeadStops ==
  /\ OppBook # <<>>
  /\ Crosses(cur, Head(OppBook))
  /\ Head(OppBook).user # cur.user

HeadCrosses == OppBook # <<>> /\ Crosses(cur, Head(OppBook))

\* matchBuy, matchSell: one turn of the loop fills from the head, whoever
\* owns it.
FillLimit ==
  /\ pc = "match"
  /\ HeadCrosses
  /\ LET q == FillQty(Head(OppBook))
     IN  /\ Execute(Head(OppBook), q)
         /\ book' = [book EXCEPT ![Opp(cur.side)] = consumeHead(@, q)]
         /\ pc' = IF q = remaining THEN "done" ELSE "match"
  /\ UNCHANGED <<cur, skipped, err, placed, cancelled, parked>>

\* Nothing crosses any more: the remainder rests.
RestLimit ==
  /\ pc = "match"
  /\ ~HeadCrosses
  /\ \E s \in insertSorted(cur.side, book[cur.side],
                           [cur EXCEPT !.qty = remaining]) :
       book' = [book EXCEPT ![cur.side] = s]
  /\ pc' = "done"
  /\ UNCHANGED <<callVars, placed, filled, cancelled, parked>>

\* A sweep goes on with the popped head: any price for a market order, the
\* limit price for an IOC order.
SweepGoesOn ==
  /\ pc = "sweep"
  /\ OppBook # <<>>
  /\ cur.type = "ioc" => Crosses(cur, Head(OppBook))

\* Fault: an own order is passed over where it is.
FaultSpinOnOwn ==
  /\ SweepGoesOn
  /\ Head(OppBook).user = cur.user
  /\ UNCHANGED vars

\* The head is the user's own: it is set aside.
SkipOwn ==
  /\ SweepGoesOn
  /\ Head(OppBook).user = cur.user
  /\ skipped' = Append(skipped, Head(OppBook))
  /\ book' = [book EXCEPT ![Opp(cur.side)] = Tail(@)]
  /\ UNCHANGED <<pc, cur, remaining, trades, err, placed, filled, cancelled,
                 parked>>

\* The head is somebody else's: it is popped, filled, and its rest put back.
FillSweep ==
  /\ SweepGoesOn
  /\ Head(OppBook).user # cur.user
  /\ LET q == FillQty(Head(OppBook))
     IN  /\ Execute(Head(OppBook), q)
         /\ \E s \in popAndRest(Opp(cur.side), OppBook, q) :
              book' = [book EXCEPT ![Opp(cur.side)] = s]
         /\ pc' = IF q = remaining THEN "reinsert" ELSE "sweep"
  /\ UNCHANGED <<cur, skipped, err, placed, cancelled, parked>>

\* Fault: the sweep ends at an own order too.
FaultStopAtOwn ==
  /\ pc = "sweep"
  /\ cur.type = "market"
  /\ OppBook # <<>> => Head(OppBook).user = cur.user
  /\ pc' = "reinsert"
  /\ UNCHANGED <<book, callVars, placed, filled, cancelled, parked>>

\* Fault: placeMarket returns from inside its loop, as placeIOC does.
FaultReturnEarly ==
  /\ pc = "sweep"
  /\ cur.type = "market"
  /\ OppBook = <<>>
  /\ pc' = "done"
  /\ UNCHANGED <<book, callVars, placed, filled, cancelled, parked>>

\* placeMarket finds the other side empty and leaves the loop.
SweepRunsDry ==
  /\ pc = "sweep"
  /\ cur.type = "market"
  /\ OppBook = <<>>
  /\ pc' = "reinsert"
  /\ UNCHANGED <<book, callVars, placed, filled, cancelled, parked>>

\* placeIOC returns from inside its loop, when the other side is empty or its
\* head does not cross (which is put back); skipped is not.
ReturnEarlyIOC ==
  /\ pc = "sweep"
  /\ cur.type = "ioc"
  /\ \/ /\ OppBook = <<>>
        /\ UNCHANGED book
     \/ /\ OppBook # <<>>
        /\ ~Crosses(cur, Head(OppBook))
        /\ \E s \in insertSorted(Opp(cur.side), Tail(OppBook), Head(OppBook)) :
             book' = [book EXCEPT ![Opp(cur.side)] = s]
  /\ skipped' = <<>>
  /\ pc' = "done"
  /\ UNCHANGED <<cur, remaining, trades, err, placed, filled, cancelled, parked>>

\* After the loop the skipped orders go back, one per step.
Reinsert ==
  /\ pc = "reinsert"
  /\ skipped # <<>>
  /\ \E s \in insertSorted(Opp(cur.side), OppBook, Head(skipped)) :
       book' = [book EXCEPT ![Opp(cur.side)] = s]
  /\ skipped' = Tail(skipped)
  /\ UNCHANGED <<pc, cur, remaining, trades, err, placed, filled, cancelled,
                 parked>>

\* All are back; a market order that is not filled reports it.
FinishSweep ==
  /\ pc = "reinsert"
  /\ skipped = <<>>
  /\ err' = IF cur.type = "market" /\ remaining > 0 THEN "no_liquidity" ELSE "none"
  /\ pc' = "done"
  /\ UNCHANGED <<book, cur, remaining, skipped, trades, placed, filled,
                 cancelled, parked>>

\* The call releases the lock and hands trades and err to its caller.
Return ==
  /\ pc = "done"
  /\ pc' = "idle"
  /\ cur' = NoOrder
  /\ remaining' = 0
  /\ trades' = <<>>
  /\ err' = "none"
  /\ UNCHANGED <<book, skipped, placed, filled, cancelled, parked>>

----------------------------------------------------------------------------
(* CancelOrder looks at the bids first, then at the asks.                  *)

CancelFound(id) ==
  /\ \E side \in Sides :
       /\ side = "sell" => removeByID(book["buy"], id) = {}
       /\ \E s \in removeByID(book[side], id) :
            book' = [book EXCEPT ![side] = s]
  /\ cancelled' = cancelled \cup {id}
  /\ UNCHANGED <<pc, callVars, placed, filled, parked>>

\* ErrOrderNotFound.
CancelNotFound(id) ==
  /\ \A side \in Sides : removeByID(book[side], id) = {}
  /\ UNCHANGED vars

CancelOrder(id) == pc = "idle" /\ (CancelFound(id) \/ CancelNotFound(id))

----------------------------------------------------------------------------

PlaceOrder ==
  /\ pc = "idle"
  /\ \E o \in Acceptable :
       ParkLimit(o) \/ StartLimit(o) \/ StartSweep(o)

Step ==
  \/ FillLimit \/ RestLimit
  \/ SkipOwn \/ FillSweep \/ SweepRunsDry \/ ReturnEarlyIOC
  \/ Reinsert \/ FinishSweep
  \/ Return

Next == PlaceOrder \/ Step \/ \E id \in Ids : CancelOrder(id)

Spec == Init /\ [][Next]_vars

\* The goroutine that holds the lock blocks on nothing, so it keeps running.
FairSpec == Spec /\ WF_vars(Step)

----------------------------------------------------------------------------
(* Properties.                                                             *)

\* Orders that rest, those a running sweep has set aside included.
Present == ToSet(book["buy"]) \cup ToSet(book["sell"]) \cup ToSet(skipped)

PresentIds == {r.id : r \in Present}

\* The order accepted under that id, as it was submitted.
Original(id) == CHOOSE p \in placed : p.id = id

\* The resting order's id in a trade of cur.
Maker(t) == IF cur.side = "buy" THEN t.sell ELSE t.buy

\* No order of s ranks before one that is in front of it.
Sorted(side, s) ==
  \A i, j \in 1..Len(s) : i < j => ~Less(side, s[j], s[i])

\* Type invariant.
TypeOK ==
  /\ book \in [Sides -> Seq(Order)]
  /\ pc \in {"idle", "match", "sweep", "reinsert", "done"}
  /\ cur \in Order \cup {NoOrder}
  /\ pc # "idle" => cur \in Order
  /\ remaining \in Nat
  /\ skipped \in Seq(Order)
  /\ trades \in Seq(Trade)
  /\ err \in {"none", "no_liquidity"}
  /\ placed \subseteq Order
  /\ filled \in [Ids -> Int]
  /\ cancelled \subseteq Ids
  /\ parked \subseteq Ids

\* Both slices stay in price-time order at every step of every call, which
\* sort.Search needs and which makes the head the best order (the comment on
\* OrderBook: "Sort order (lock held at all times)").
BookSorted == \A side \in Sides : Sorted(side, book[side])

\* When a bid and an ask that cross rest together, one of the two was put
\* there by placeLimit's self-match branch: matching itself never leaves a
\* crossed book, through partial fills, sweeps, lost and cancelled orders.
CrossedOnlyByParked ==
  \A a, b \in Present :
    (a.side = "sell" /\ b.side = "buy" /\ a.price <= b.price)
      => (a.id \in parked \/ b.id \in parked)

\* A resting order is what its user submitted less what was traded for it,
\* never empty, never twice in the book, never one that was cancelled; and no
\* order trades more than its quantity.
RestingConserved ==
  /\ \A r \in Present : \E p \in placed :
       /\ r = [p EXCEPT !.qty = p.qty - filled[p.id]]
       /\ r.qty > 0
       /\ p.type = "limit"
  /\ Cardinality(PresentIds) = Len(book["buy"]) + Len(book["sell"]) + Len(skipped)
  /\ PresentIds \cap cancelled = {}
  /\ \A p \in placed : filled[p.id] \in 0..p.qty

\* An order trades with one of its own user only as a limit order, and only
\* after a trade with somebody else: sweeps skip, and placeLimit looks at the
\* first order it would fill.
SelfTradeOnlyBehindOther ==
  \A i \in 1..Len(trades) :
    (pc # "idle" /\ Original(Maker(trades[i])).user = cur.user)
      => /\ cur.type = "limit"
         /\ Original(Maker(trades[1])).user # cur.user

\* A resting order leaves the book only when it is filled, when it is
\* cancelled, or when an IOC order of its own user skipped it and ended with
\* quantity left.
LostOnlyToOwnIOC ==
  [][\A id \in PresentIds \ PresentIds' :
       \/ filled'[id] = Original(id).qty
       \/ id \in cancelled'
       \/ /\ pc = "sweep" /\ cur.type = "ioc" /\ remaining > 0
          /\ cur.user = Original(id).user]_vars

\* The quantity this call has traded with the resting order of that id, which
\* it trades with once at most.
TradedWith(id) ==
  Quantity({t \in ToSet(trades) : Maker(t) = id})

\* The book as a caller sees it: a running call has not happened before the
\* last change it makes, what it took until then is still there.
Visible ==
  IF pc \in {"idle", "done"} THEN Present
  ELSE {[Original(id) EXCEPT !.qty = @ - filled[id] + TradedWith(id)] :
          id \in PresentIds \cup {Maker(t) : t \in ToSet(trades)}}

Answered == pc = "done"

Promise == INSTANCE AtomicBook WITH
  resting <- Visible,
  order <- IF Answered THEN cur ELSE NoOrder,
  trades <- IF Answered THEN trades ELSE <<>>,
  err <- IF Answered THEN err ELSE "none"

\* However a call gets there, trade by trade, popping, skipping and inserting
\* again, it leaves the book and gives the answer that AtomicBook states in
\* one step: who trades, how much, at what price and in which order, what
\* rests, what is lost.
KeepsPromise == Promise!Spec

\* Every call releases the lock: the loops end, whatever they skip, re-insert
\* and fill.
LockReleased == (pc # "idle") ~> (pc = "idle")

----------------------------------------------------------------------------
(* What the code's comments and the documentation say and the code does    *)
(* not do.                                                                 *)

\* "Self-match: never fill against an order from the same UserID."
NoSelfTrade ==
  pc # "idle" => \A t \in ToSet(trades) :
                   Original(t.buy).user # Original(t.sell).user

\* "skipped orders are collected and re-inserted": an accepted limit order is
\* on the book until it is filled or cancelled.
NoRestingOrderLost ==
  \A p \in placed :
    (pc = "idle" /\ p.type = "limit") =>
      p.id \in PresentIds \cup cancelled \/ filled[p.id] = p.qty

=============================================================================
