-------------------------------- MODULE Market --------------------------------
(***************************************************************************)
(* internal/market: a market's lifecycle and the gate it puts in front of  *)
(* the book.  PlaceOrder and CancelOrder read the state under the market's *)
(* read lock, release it, and call the book only then, so Transition may   *)
(* come in between.  The book is reduced to the set of orders that rest on *)
(* it; a call of the book is one step (OrderBook has its inside), with     *)
(* every result matching may have on that set.                             *)
(***************************************************************************)
EXTENDS Integers, FiniteSets

CONSTANTS
  Threads,    \* the goroutines that call the market
  Orders      \* the orders they place

ASSUME MarketAssumption == IsFiniteSet(Threads)

States == {"open", "live", "paused", "settled"}

\* Fault: a settled market may go live again.
FaultReopen ==
  [open |-> {"live"}, live |-> {"paused", "settled"},
   paused |-> {"live", "settled"}, settled |-> {"live"}]

\* Where a market may go from each state.
validTransitions ==
  [open |-> {"live"}, live |-> {"paused", "settled"},
   paused |-> {"live", "settled"}, settled |-> {}]

VARIABLES
  state,      \* the market's lifecycle state
  book,       \* the orders that rest
  call,       \* call[t]: the call of t that has passed the gate, or none
  placed,     \* history: the orders given to PlaceOrder
  opened,     \* history: the market has been live
  late        \* history: orders matched since the market was last live

vars == <<state, book, call, placed, opened, late>>

NoCall == [op |-> "none"]
Calls == {NoCall} \cup [op : {"place", "cancel"}, order : Orders]

Init ==
  /\ state = "open"
  /\ book = {}
  /\ call = [t \in Threads |-> NoCall]
  /\ placed = {}
  /\ opened = FALSE
  /\ late = 0

----------------------------------------------------------------------------
(* The gate: what the state read under the lock lets through.              *)

\* Fault: PlaceOrder is refused by a settled market only.
FaultGate(op) == state # "settled"

\* Fault: PlaceOrder is let through by a paused market too.
FaultPausedGate(op) ==
  IF op = "place" THEN state \in {"live", "paused"} ELSE state # "settled"

\* Fault: CancelOrder is not refused at all.
FaultCancelGate(op) == IF op = "place" THEN state = "live" ELSE TRUE

Admits(op) == IF op = "place" THEN state = "live" ELSE state # "settled"

\* A call reads the state; it goes on to the book or returns ErrMarketNotLive.
ReadState(t, op, o) ==
  /\ call[t] = NoCall
  /\ op = "place" => o \notin placed
  /\ \/ /\ Admits(op)
        /\ call' = [call EXCEPT ![t] = [op |-> op, order |-> o]]
        /\ placed' = IF op = "place" THEN placed \cup {o} ELSE placed
        /\ UNCHANGED <<state, book, opened, late>>
     \/ /\ ~Admits(op)
        /\ UNCHANGED vars

----------------------------------------------------------------------------
(* The call of the book.                                                   *)

\* The book matches the order: it fills any of the resting orders and leaves
\* the order on the book or not.
BookPlace(t) ==
  /\ call[t].op = "place"
  /\ \E gone \in SUBSET book, rest \in SUBSET {call[t].order} :
       book' = (book \ gone) \cup rest
  /\ call' = [call EXCEPT ![t] = NoCall]
  /\ late' = IF state = "live" THEN 0 ELSE late + 1
  /\ UNCHANGED <<state, placed, opened>>

BookCancel(t) ==
  /\ call[t].op = "cancel"
  /\ book' = book \ {call[t].order}
  /\ call' = [call EXCEPT ![t] = NoCall]
  /\ UNCHANGED <<state, placed, opened, late>>

----------------------------------------------------------------------------

\* Transition, under the market's write lock; any other move is refused.
Transition(to) ==
  /\ to \in validTransitions[state]
  /\ state' = to
  /\ opened' = (opened \/ to = "live")
  /\ late' = IF to = "live" THEN 0 ELSE late
  /\ UNCHANGED <<book, call, placed>>

Next ==
  \/ \E t \in Threads, op \in {"place", "cancel"}, o \in Orders : ReadState(t, op, o)
  \/ \E t \in Threads : BookPlace(t) \/ BookCancel(t)
  \/ \E to \in States : Transition(to)

Spec == Init /\ [][Next]_vars

\* A goroutine that has passed the gate runs on and gets the book's lock.
FairSpec == Spec /\ \A t \in Threads : WF_vars(BookPlace(t) \/ BookCancel(t))

----------------------------------------------------------------------------
(* Properties.                                                             *)

Pending(op) == {t \in Threads : call[t].op = op}

\* Type invariant.
TypeOK ==
  /\ state \in States
  /\ book \subseteq Orders
  /\ call \in [Threads -> Calls]
  /\ placed \subseteq Orders
  /\ opened \in BOOLEAN
  /\ late \in Nat

\* Before a market has ever been live nothing rests on its book, however
\* calls and transitions interleave.
NothingBeforeLive ==
  ~opened => /\ book = {}
             /\ Pending("place") = {}

\* The orders matched after a market stopped being live are those of calls
\* that were past the gate when it did: never more than there are goroutines.
LateOrdersBounded ==
  state # "live" => late + Cardinality(Pending("place")) <= Cardinality(Threads)

\* When the market is not live and the orders that were past the gate have
\* been matched, nothing is added to the book and no order gets past the gate.
NoEntryWhenDrained ==
  [][(state # "live" /\ Pending("place") = {})
       => book' \subseteq book /\ Pending("place")' = {}]_vars

\* A settled market whose pending calls have returned is frozen for good.
FrozenWhenDrained ==
  [][(state = "settled" /\ Pending("place") \cup Pending("cancel") = {})
       => /\ UNCHANGED book
          /\ (Pending("place") \cup Pending("cancel"))' = {}
          /\ state' = "settled"]_vars

\* Settling a market drains it: from some point on no call is past the gate.
SettledDrains ==
  (state = "settled") ~> [](Pending("place") \cup Pending("cancel") = {})

=============================================================================
