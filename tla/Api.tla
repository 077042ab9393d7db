--------------------------------- MODULE Api ---------------------------------
(***************************************************************************)
(* The HTTP handlers of internal/api over the idempotency guard, the       *)
(* market and the event bus.  Every request has a goroutine of its own and *)
(* no lock spans two calls, so each call a handler makes is a step.  The   *)
(* guard is Idempotency; the market is reduced to the orders that rest,    *)
(* with every result a call may have (Market and OrderBook have its        *)
(* inside); the bus to the events published, kept by order (EventBus has   *)
(* its inside).                                                            *)
(*                                                                         *)
(* nextID increments idCounter without a lock: the read, the write and the *)
(* read for formatting are steps of their own, and since that is a data    *)
(* race the formatted value may also be the one just written.              *)
(***************************************************************************)
EXTENDS Integers, Sequences, FiniteSets, SequencesExt

CONSTANTS
  Threads,    \* goroutines that serve requests
  Keys,       \* idempotency keys
  NoKey,      \* a request without the header
  NoRecord,   \* nothing kept under a key
  Ttl,        \* how long a response is kept
  MaxTime,    \* bound: the last moment of the clock
  MaxRequests \* bound: the requests made

\* Orders are numbered as they reach the market.
OrderNumbers == 1..MaxRequests

ASSUME ApiAssumption ==
  /\ NoKey \notin Keys /\ MaxRequests \in Nat /\ Ttl \in Nat
  /\ NoRecord \notin [response : OrderNumbers, expiresAt : Nat]
  /\ IsFiniteSet(Threads)

\* Events: an order's placement, its cancellation, and its trade with a
\* maker, which stands for itself.
Placed == 0
Cancelled == -1

VARIABLES
  store, now, found,   \* the idempotency guard's
  idCounter,
  call,                \* call[t]: where the handler run by t is
  orders,              \* history: id and key of the orders given to the market
  book,                \* the orders that rest
  trades,              \* history: the trades, each a taker and a maker
  events,              \* events[o]: what was published about order o, in order
  kept,                \* history: until when a key's answer is to be replayed
  answered,            \* history: the orders answered with success
  requests             \* history: the number of requests

guardVars == <<store, now, found>>
marketVars == <<orders, book, trades>>
historyVars == <<kept, answered, requests>>
vars == <<guardVars, idCounter, call, marketVars, events, historyVars>>

Guard == INSTANCE Idempotency WITH Responses <- OrderNumbers

\* A handler's locals: the key, the counter as read, the id made, the order's
\* number and the trades still to publish.
Idle == [pc |-> "idle", key |-> NoKey, n |-> 0, id |-> <<0, 0>>, order |-> 0,
         todo |-> <<>>]

Init ==
  /\ Guard!Init
  /\ idCounter = 0
  /\ call = [t \in Threads |-> Idle]
  /\ orders = <<>>
  /\ book = {}
  /\ trades = {}
  /\ events = [o \in OrderNumbers |-> <<>>]
  /\ kept = [k \in Keys |-> -1]
  /\ answered = {}
  /\ requests = 0

----------------------------------------------------------------------------
(* POST /orders.                                                           *)

\* A request that decodes: malformed ones are answered at once.
Request(t, key) ==
  /\ call[t] = Idle
  /\ requests < MaxRequests
  /\ requests' = requests + 1
  /\ call' = [call EXCEPT ![t].pc = IF key = NoKey THEN "read" ELSE "lookup",
                          ![t].key = key]
  /\ UNCHANGED <<guardVars, idCounter, marketVars, events, kept, answered>>

\* A response that is found is replayed and the request is over.
LookupKey(t) ==
  /\ call[t].pc = "lookup"
  /\ Guard!Lookup(call[t].key)
  /\ call' = [call EXCEPT ![t] = IF found' # NoRecord THEN Idle
                                 ELSE [@ EXCEPT !.pc = "read"]]
  /\ UNCHANGED <<idCounter, marketVars, events, historyVars>>

\* nextID: idCounter++ ...
ReadCounter(t) ==
  /\ call[t].pc = "read"
  /\ call' = [call EXCEPT ![t].pc = "write", ![t].n = idCounter]
  /\ UNCHANGED <<guardVars, idCounter, marketVars, events, historyVars>>

WriteCounter(t) ==
  /\ call[t].pc = "write"
  /\ idCounter' = call[t].n + 1
  /\ call' = [call EXCEPT ![t].pc = "format"]
  /\ UNCHANGED <<guardVars, marketVars, events, historyVars>>

\* ... and the second followed by the counter.
FormatID(t) ==
  /\ call[t].pc = "format"
  /\ \E n \in {call[t].n + 1, idCounter} :
       call' = [call EXCEPT ![t].pc = "place", ![t].n = 0,
                              ![t].id = <<now, n>>]
  /\ UNCHANGED <<guardVars, idCounter, marketVars, events, historyVars>>

\* The market refuses the order (validation, state): nothing has happened.
Refused(t) ==
  /\ call[t].pc = "place"
  /\ call' = [call EXCEPT ![t] = Idle]
  /\ UNCHANGED <<guardVars, idCounter, marketVars, events, historyVars>>

\* The book trades the order with some resting ones, takes those of them off
\* that are filled and lets the order rest or not.  An order that does not rest
\* may take off others too: an IOC order drops its own user's.
Matched(t, makers, gone, rests) ==
  LET me == Len(orders) + 1
  IN  /\ call[t].pc = "place"
      /\ makers \subseteq book /\ gone \subseteq book
      /\ rests => gone \subseteq makers
      /\ orders' = Append(orders, [id |-> call[t].id, key |-> call[t].key])
      /\ book' = (book \ gone) \cup (IF rests THEN {me} ELSE {})
      /\ trades' = trades \cup {<<me, r>> : r \in makers}

\* Fault: the answer is kept before the events are published.
FaultStoreFirst(t) ==
  /\ \E makers \in SUBSET book, gone \in SUBSET book, rests \in BOOLEAN :
       /\ Matched(t, makers, gone, rests)
       /\ call' = [call EXCEPT ![t].pc = "publish",
                               ![t].order = Len(orders'),
                               ![t].todo = SetToSeq(makers)]
  /\ IF call[t].key = NoKey THEN UNCHANGED guardVars
     ELSE Guard!Store(call[t].key, Len(orders'))
  /\ UNCHANGED <<idCounter, events, historyVars>>

\* The order is accepted.
Accepted(t) ==
  /\ \E makers \in SUBSET book, gone \in SUBSET book, rests \in BOOLEAN :
       /\ Matched(t, makers, gone, rests)
       /\ call' = [call EXCEPT ![t].pc = "publish",
                               ![t].order = Len(orders'),
                               ![t].todo = SetToSeq(makers)]
  /\ UNCHANGED <<guardVars, idCounter, events, historyVars>>

\* A market order that empties the book has its trades and an error: the
\* handler answers with the error and drops the trades.
Unfilled(t) ==
  /\ \E makers \in SUBSET book : Matched(t, makers, makers, FALSE)
  /\ call' = [call EXCEPT ![t] = Idle]
  /\ UNCHANGED <<guardVars, idCounter, events, historyVars>>

\* Fault: an order is announced after its first trade.
FaultPublishOrderLast(t) ==
  /\ call[t].pc = "publish"
  /\ LET first == IF call[t].todo = <<>> THEN <<>> ELSE <<Head(call[t].todo)>>
     IN  events' = [events EXCEPT ![call[t].order] = @ \o first \o <<Placed>>]
  /\ call' = [call EXCEPT ![t].pc = "trades",
                          ![t].todo = IF @ = <<>> THEN @ ELSE Tail(@)]
  /\ UNCHANGED <<guardVars, idCounter, marketVars, historyVars>>

PublishPlaced(t) ==
  /\ call[t].pc = "publish"
  /\ events' = [events EXCEPT ![call[t].order] = Append(@, Placed)]
  /\ call' = [call EXCEPT ![t].pc = "trades"]
  /\ UNCHANGED <<guardVars, idCounter, marketVars, historyVars>>

PublishTrade(t) ==
  /\ call[t].pc = "trades"
  /\ call[t].todo # <<>>
  /\ events' = [events EXCEPT ![call[t].order] = Append(@, Head(call[t].todo))]
  /\ call' = [call EXCEPT ![t].todo = Tail(@)]
  /\ UNCHANGED <<guardVars, idCounter, marketVars, historyVars>>

TradesOf(o) == {tr \in trades : tr[1] = o}

\* Fault: only the answer to an order that traded is kept.
FaultForgetStore(t) ==
  /\ call[t].pc = "trades"
  /\ call[t].todo = <<>>
  /\ IF call[t].key = NoKey \/ TradesOf(call[t].order) = {}
     THEN UNCHANGED guardVars
     ELSE Guard!Store(call[t].key, call[t].order)
  /\ kept' = [k \in Keys |-> IF k = call[t].key THEN now + Ttl ELSE kept[k]]
  /\ answered' = answered \cup {call[t].order}
  /\ call' = [call EXCEPT ![t] = Idle]
  /\ UNCHANGED <<idCounter, marketVars, events, requests>>

\* The answer is kept under the request's key, if it has one, and given.
Answer(t) ==
  /\ call[t].pc = "trades"
  /\ call[t].todo = <<>>
  /\ IF call[t].key = NoKey
     THEN UNCHANGED <<guardVars, kept>>
     ELSE /\ Guard!Store(call[t].key, call[t].order)
          /\ kept' = [kept EXCEPT ![call[t].key] = now + Ttl]
  /\ answered' = answered \cup {call[t].order}
  /\ call' = [call EXCEPT ![t] = Idle]
  /\ UNCHANGED <<idCounter, marketVars, events, requests>>

----------------------------------------------------------------------------
(* DELETE /orders/{id}.                                                    *)

\* Of two orders with one id only the first the book finds is removed.  An id
\* that does not rest, and a market that refuses, are answered at once.
Cancel(t, r) ==
  /\ call[t] = Idle
  /\ r \in book
  /\ requests < MaxRequests
  /\ requests' = requests + 1
  /\ book' = book \ {r}
  /\ call' = [call EXCEPT ![t].pc = "cancelled", ![t].order = r]
  /\ UNCHANGED <<guardVars, idCounter, orders, trades, events, kept, answered>>

PublishCancelled(t) ==
  /\ call[t].pc = "cancelled"
  /\ events' = [events EXCEPT ![call[t].order] = Append(@, Cancelled)]
  /\ call' = [call EXCEPT ![t] = Idle]
  /\ UNCHANGED <<guardVars, idCounter, marketVars, historyVars>>

----------------------------------------------------------------------------

\* The guard's clock and its background sweep.
Background ==
  /\ Guard!Tick \/ Guard!Sweep
  /\ UNCHANGED <<idCounter, call, marketVars, events, historyVars>>

Handler(t) ==
  \/ LookupKey(t) \/ ReadCounter(t) \/ WriteCounter(t) \/ FormatID(t)
  \/ Refused(t) \/ Accepted(t) \/ Unfilled(t)
  \/ PublishPlaced(t) \/ PublishTrade(t) \/ Answer(t)
  \/ PublishCancelled(t)

Next ==
  \/ \E t \in Threads :
       \/ \E key \in Keys \cup {NoKey} : Request(t, key)
       \/ \E r \in OrderNumbers : Cancel(t, r)
       \/ Handler(t)
  \/ Background

Spec == Init /\ [][Next]_vars

----------------------------------------------------------------------------
(* Properties.                                                             *)

\* An order's placement and each of its trades have been published, the
\* placement before its trades and nothing twice.
Announced(o) ==
  LET es == events[o]
  IN  /\ IsInjective(es)
      /\ ToSet(es) \ {Cancelled} = {Placed} \cup {tr[2] : tr \in TradesOf(o)}
      /\ \A m, n \in 1..Len(es) : (m < n /\ es[n] = Placed) => es[m] = Cancelled

\* When an order is answered all its events are out, whatever other handlers
\* did to the orders it traded with in between.
AnsweredIsAnnounced == \A o \in answered : Announced(o)

\* What is kept for the retries of a request is an answer to a request with
\* the same key, and the events of the order it names are all out: a client
\* that retries never learns of an order before the bus does.
ReplaysAreAnnounced ==
  \A k \in Keys :
    store[k] # NoRecord => /\ orders[store[k].response].key = k
                           /\ Announced(store[k].response)

\* A retry that comes after an answer with its key was given, and in time, is
\* not executed again: overlapping requests may have executed too, sweeps and
\* lookups may have run.
RetryIsReplayed ==
  [][\A t \in Threads :
       (call[t].pc = "lookup" /\ now <= kept[call[t].key])
         => call'[t].pc \in {"lookup", "idle"}]_vars

----------------------------------------------------------------------------
(* What the comments and the documentation say and the code does not do.   *)

\* "Duplicate requests within the TTL window return the cached response of the
\* first successful execution": in that window no other order with the key is
\* answered with success.
OneSuccessPerKey ==
  [][\A o \in answered' \ answered :
       orders[o].key # NoKey => now > kept[orders[o].key]]_vars

\* "Simple monotonic ID generator": no two orders have one id.
IdsDiffer ==
  \A i, j \in 1..Len(orders) : i # j => orders[i].id # orders[j].id

=============================================================================
