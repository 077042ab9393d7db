# Verification of the order book

TLA+ models of the prediction-market order book, the TLC instances that check
them and the TLAPS proofs about them. Source paths are relative to `src/`.

## The system

| Component | State | Operations | What makes it correct |
|---|---|---|---|
| Matching engine, `internal/orderbook` | two sorted slices behind one `RWMutex` | `PlaceOrder` (limit, market, IOC), `CancelOrder`, readers | slices stay in price-time order; quantities are conserved; trades at the passive price, best price and earliest order first; no self-trade; no order lost; the book is not crossed |
| Validation, `internal/orderbook/validate.go` | none | `ValidateOrder` | only orders the engine can handle get in |
| Market, `internal/market` | lifecycle state behind an `RWMutex`, the book | `Transition`, gated `PlaceOrder` and `CancelOrder` | only legal moves; the book changes only in the states that allow it |
| Event bus, `internal/events` | subscriber lists, buffered channels, closed flag | `Subscribe`, `Unsubscribe`, `Publish`, `Close` | never a send on a closed channel, publishers never block, per-subscriber order |
| Idempotency guard, `internal/idempotency` | map from key to response and expiry | `Lookup`, `Store`, `Sweep` | a live response is found, an expired one is not |
| Ledger, `internal/ledger` | balances, holds | `Credit`, `PlaceOrder`, `SettleTrade`, `Refund` | no negative amounts, holds covered by balances, money conserved |
| HTTP API, `internal/api` | `idCounter`, requests in progress | `PlaceOrder`, `CancelOrder`, `Healthz` | one execution per key, one id per order, every trade announced |
| Configuration, `internal/config` | none | read the environment | |
| Exercises, `exercises/` | earlier stages of the same parts, and one deliberately broken matcher | | as above |
| Warm-up, `warmup/` | counter, rate limiter, LRU cache, fan-out/fan-in, server, event bus, state machine, idempotent processor, debouncer, semaphore | | each its own |

A request runs through the parts in this order: the API looks the key up in the
guard, makes an id, calls the market, which reads its state and calls the book;
then the API publishes events and stores the response in the guard. Each part
locks itself; nothing is locked across two parts. That is where the hard
behaviours are: everything one part knows may be stale when the next one acts.
Inside the book everything is serial, and the hard part is what a long sequence
of legal calls leaves behind. Nothing is persisted, so there is no recovery.

## Modules

| Module | Part of the code | Depends on |
|---|---|---|
| `Orders` | one order or two: fields, validation, priority, crossing, trades (`types.go`, `validate.go`) | |
| `AtomicBook` | abstract: a set of resting orders on which a call takes effect at once | `Orders` |
| `OrderBook` | `internal/orderbook`: `orderbook.go`, `matching.go` | `Orders`, `AtomicBook` (refined) |
| `OrderBookProofs` | proofs about `OrderBook`, and that it implements `AtomicBook` | `OrderBook`, `Sums` |
| `Market` | `internal/market` with the book reduced to the set of resting orders | |
| `MarketProofs` | proofs about `Market` | `Market` |
| `EventBus` | `internal/events` and the consumers of its channels | |
| `EventBusProofs` | proofs about `EventBus` | `EventBus` |
| `Idempotency` | `internal/idempotency` | `EagerCache` (refined) |
| `EagerCache` | abstract: a cache that forgets an entry the moment it expires | |
| `IdempotencyProofs` | proofs about `Idempotency` | `Idempotency` |
| `Ledger` | `internal/ledger` and the discipline of its callers | `Escrow` (refined) |
| `Escrow` | abstract: money set aside order by order | |
| `LedgerProofs` | proofs about `Ledger` | `Ledger`, `Sums` |
| `Api` | `internal/api`: the handlers over guard, market and bus | `Idempotency` (instance) |
| `ApiProofs` | proofs about `Api` | `Api` |
| `FanOut` | `FanOutFanIn` and `Collect` of `warmup` | |
| `Processor` | `IdempotentProcessor` of `warmup` | |
| `Transfers` | requests fanned out to workers that call one processor | `FanOut`, `Processor` (instances) |
| `RateLimiter` | the token bucket of `warmup` | `Timing` |
| `LRU` | the LRU cache of `warmup` | |
| `Debouncer` | the debouncer of `warmup` and its timers | `Timing` |
| `Semaphore` | the semaphore of `warmup` | |
| `GracefulServer` | `RunGracefulServer` of `warmup`, with signals and requests | |
| `BrokenMatcher` | `exercises/matcher` | |
| `PhaseMatcher` | `exercises/phase2-orderbook`, `phase3-matcher`, `phase4-concurrency` | `Orders`, `AtomicBook` (refined) |
| `Timing` | the constants of `RateLimiter` and `Debouncer` | |
| `Practice` | one part of `warmup` or `exercises` at a time | `Transfers`, `RateLimiter`, `LRU`, `Debouncer`, `Semaphore`, `GracefulServer`, `BrokenMatcher`, `PhaseMatcher` (instances) |
| `PracticeProofs` | proofs about `Practice` and all its parts | `Practice`, `Sums` |
| `Sums` | lemmas about sums over finite sets | |
| `MC...` | instances for TLC: each extends its module and defines the symmetry | |

Definitions keep the names of the code where they translate a function. The
definitions named `Fault...` are plausible mistakes in the code (a dropped
check, a strict comparison, a forgotten lock); each property is known to fail
when one of them takes the place of the definition that follows it.
`PROJECT.json` maps every definition to its lines and lists the hazards each
property is for.

### OrderBook

`book["buy"]` and `book["sell"]` are the slices `bids` and `asks`, best order
first. The write lock is held for a whole call, so one call runs at a time; `pc`,
`cur`, `remaining`, `skipped`, `trades` and `err` are its locals. A step is one
turn of a loop: a trade (`FillLimit`, `FillSweep`), an own order set aside
(`SkipOwn`), an order put back (`Reinsert`), or a way out of a loop
(`RestLimit`, `SweepRunsDry`, `ReturnEarlyIOC`, `FinishSweep`). `ParkLimit` is
`placeLimit`'s self-match branch, which rests the whole order. Readers see the
book only when `pc = "idle"`; the invariants are checked at every step, which
is stronger. `placed`, `filled`, `cancelled` and `parked` are history variables
the code does not have.

- `insertSorted` is the set of slices `sort.Search` may lead to: the index where
  the predicate turns. On a sorted slice there is exactly one (this is proved).
- Ids are numbers that stand for any totally ordered set of strings, times are
  numbers. An order is given an id of its own (`Fresh`), as `nextID` means to;
  `Api` shows that it may fail to, and then the book would hold two orders of
  one id, which is outside this model.
- A side that is neither buy nor sell cannot come from the API (`parseSide`)
  and is not modelled. An order that validation rejects returns before the lock
  is taken and changes nothing, so it is no step; the `orderbook_queue` run
  submits such orders too.

### AtomicBook

What callers of the book are promised, without slices and loops: how much a
resting order trades with an incoming one is what is left when the orders that
rank ahead of it have had theirs (`Share`). Three things the code does and its
comments do not say are part of the promise, so that it is the code's: a limit
order parks when its user owns the best order it crosses (`Parks`); otherwise it
trades with its own user's orders too; an IOC order that is not filled takes its
user's own orders with it (`Abandoned`).

The mapping lets a call of `OrderBook` take effect at the step that completes its
answer: until then `resting` is the book as it was before the call, and
afterwards, while the answer is handed over, the book that the call leaves. That
is what other callers can see, since the lock is held in between. So
`KeepsPromise` relates each call's trades (which, how much, at what price, in
which order), its error and the book it leaves to the book it found.

### Market

`ReadState` is what `PlaceOrder` and `CancelOrder` do under the market's read
lock, `BookPlace` and `BookCancel` the call of the book after the lock has been
released, `Transition` may come in between. Matching may fill any resting
orders and may or may not leave the incoming one: an over-approximation of
`OrderBook`. `late` counts the orders matched since the market stopped being live.

### EventBus

`Publish` holds a read lock while it visits its subscribers, so publishers
overlap and each visit is a step (`Send`); `Subscribe`, `Unsubscribe` and
`Close` need the write lock and are one step each (`WriteLockFree`). Closing a closed
channel or sending on one sets `panicked`. A subscriber list is a set because a
channel is on a list at most once and only the order of visits depends on its
place. Buffers have a positive capacity. `Receive` and `Leave` are the consumers.

### Idempotency and EagerCache

`Lookup`, `Store` and `Sweep` read the clock inside the mutex, so each is one
step; `Tick` is time. An entry is live in the very last moment of its time
(`After` is strict). `EagerCache` deletes each entry as the clock passes it; the
mapping hides the entries that have expired and are still stored.

### Ledger and Escrow

`held` is a part of `balances`. The ledger trusts its callers ("Caller must
ensure held[buyer] >= amount"), so the model has them: each order keeps what it
has reserved, and settles and refunds no more than that. Amounts are positive.
The mapping reads the free balance as the account and the reservations as
escrows. No code in the repository connects the ledger to the book, so nothing
is said about the amount an order should reserve.

### Api

A request runs in a goroutine of its own and no lock spans two calls, so each
call of a handler is a step: `LookupKey`, the three parts of `nextID`, the
market's call (`Refused`, `Accepted`, `Unfilled`; an order that does not rest may
take others off the book without a trade, as IOC orders do), one `Publish` per event, and
`Answer` with its `Store`. The guard is an instance of `Idempotency`; the market
is the set of resting orders; the bus is the sequence of events per order.
`idCounter++` without a lock is a data race: the formatted value may be the one
just written or what the counter holds by then.
An order is announced when its placement and its trades are out, each once and
the placement before the trades, with at most one cancellation besides.

### FanOut, Processor and Transfers

`FanOut` has one step per blocking point of a worker's loop: `Take` receives
from the input, `Apply` is the function's return, `Send` the rendezvous with the
consumer on the unbuffered output (`Collect` is the consumer's half), `Done` the
end of the loop. `CloseOut` is the goroutine that waits for the workers. The
input channel is closed behind its last value, as the tests close it;
`StopReading` is a consumer that does not read to the end, which leaves the
workers blocked for ever.

`Transfer` and `Deposit` of `Processor` are critical sections of its mutex and
one step each: a replay, a refusal (not recorded, so the id may be tried again)
or an execution. `Transfers` puts the two together: the workers call the
processor as the goroutines of `TestIdempotentProcessor_Concurrent` do,
with requests that may share an id. Amounts are positive; the code does not
check them.

### Practice and its parts

The parts of `warmup` and `exercises` share nothing, so `Practice` chooses one
in its initial states and lets only that one move; the others stay as they
start. Each is a module of its own that can be checked alone.

- `RateLimiter`: `Allow` is one critical section (`Grant`, `Deny`); `Tick` is time.
  Tokens are stored in whole units. `int64(t * 1e9)` rounds down, and the
  arithmetic on `float64` before it may do so too: a conversion loses up to
  `Loss` units. That it never gains any is an assumption on the arithmetic. Time
  is whole ticks, so what a tick adds is a whole number of units.
- `LRU`: `Get` and `Put` are critical sections of the mutex. `items` is the map,
  `recency` the list. `used` and `written` are what a cache without a limit would know.
- `Debouncer`: `Trigger` stops the timer before and starts one. `Fire` is the
  runtime, at the end of the interval or any time later, and `Run` the call of
  `fn` in a goroutine of its own, also any time later.
- `Semaphore`: the channel is the number of its items and the queue of its
  waiting senders, which Go serves in the order they came. `AcquireCtx` with
  a context that is done may fail even if there is room (`Refused`), and a
  waiting one is withdrawn (`ContextDone`). Whoever releases holds a slot.
- `GracefulServer`: the main goroutine (`main`) and the one that serves
  (`serve`); requests, signals and failures of the listener come at any time.
  `net/http` is external: `Shutdown` closes the listener and returns when nothing
  is in progress, or at the deadline.
- `BrokenMatcher`: a turn of `PlaceOrder`'s loop is a step, because its `range`
  counts up to a length read once. Prices are fractions of a unit of balance, and
  `Cost` cuts a payment towards zero as `int64` does. Prices and the balances
  that are set may be negative, since the code checks neither. Calls come one after
  the other. Balances are set before the first order. `charged` is history: who was
  to receive less than nothing.
- `PhaseMatcher`: calls do not overlap (phases 2 and 3 are for one goroutine, phase
  4 holds its lock throughout), so a call is a step and its loops are folds of
  one turn (`match`, `sweep`). `direct` is a book used without the matcher, which
  does not look at users: the mapping to `AtomicBook` makes all buyers one user
  and all sellers another. `PlaceOrder` refuses other than limit orders then,
  which is no step.

## Runs

All runs that should pass are exhaustive.

| Run | Instance | What it shows |
|---|---|---|
| `orderbook_types` | 3 orders of all types, 2 users, 2 prices, quantities 0 to 2 | priority, conservation, crossing, self-trades and losses as stated, and every call answered as `AtomicBook` says |
| `orderbook_queue` | 4 limit and market orders of one unit, or of none, one price, fairness | sweeps over several own orders still implement `AtomicBook`; rejected orders stay out; every call ends |
| `orderbook_self_trade`, `_lost` | 2 or 3 orders | counterexamples, see below |
| `market` | 2 goroutines, 3 orders, fairness | what the gate guarantees although it is left before the book is entered; a settled market drains |
| `eventbus` | 2 publishers of 2 events, 2 channels, 2 types, 1 slot, 2 closes, fairness | no panic, no blocked publisher, every event accounted for, per-publisher order, every consumer leaves |
| `idempotency` | 2 keys, 2 responses, time to live 1, clock to 4 | lazy deletion cannot be told from eager deletion |
| `ledger` | 3 users, 3 orders, amounts 1 and 2, 5 credited | no overdraft, money conserved, holds are reservations, escrow implemented |
| `api` | 2 handlers, 3 requests, one key, time to live 0, clock to 1 | events complete and in order before an order is answered or replayed; a retry after an answer is replayed while it is kept |
| `api_twice`, `_ids` | 2 handlers, 2 requests | counterexamples |
| `practice` | one of: 2 workers, 3 requests of 2 ids, 2 accounts; a limiter with a burst of 2 tokens, 2/3 token a tick, 5 ticks; a cache of 0 to 3 of 4 keys; 4 triggers, an interval of 2 ticks; 3 callers, 0 to 2 slots; 2 requests to the server; 2 traders, a positive and a negative price, 4 calls and one id for the broken matcher; 3 orders of the phases' book | twelve properties, below |

The properties of `practice`: no request is lost or executed twice, balances add
up and the output closes complete when it is read (`ClosedIsComplete`,
`ExecutedOnce`, `BalancesExact`, `OutputCloses`); in every window the limiter
allows what bucket and rate pay for (`WindowBound`); the cache is the most recent
part of an unlimited one (`HoldsMostRecent`); timers keep the interval and the
last call is not lost (`LastCallWins`); no slot is lost to a call that was given
up (`SlotsAreHeld`); a server that returns nil has drained and one that is
interrupted returns (`NilMeansDrained`, `SignalledReturns`); the broken matcher
loses money where nobody is paid, makes money and overdraws a trader only by
trades at negative prices, and overruns its slice in one case only
(`DamageIsKnown`); the phases' book and matcher implement `AtomicBook`
(`PhasesKeepPromise`).

### Why the bounds are enough

Book: three orders make a maker, a taker and a bystander (the own order in
front, the order behind, the parked one); quantities 1 and 2 give exact fills,
partial fills of either side and leftovers; two prices give crossing at and
above the limit; four orders let a sweep set two own orders aside around
another user's, and one price is enough for that. All timestamps are equal in
the runs: rank then depends on the ids, which arrive in any order, and that
the slices stay sorted is proved for all times. Market: two goroutines let a
place and a cancel, or two orders, be late at once, and a third order tells a
late call from one that passed a wrong gate. Bus: one slot makes a buffer full
after one event, two types and two channels make a wrong list possible. Guard
and API: a time to live of one, or of none but the moment itself, and a clock
that goes beyond it give expiry between any two steps; three requests are two
that overlap and a retry, or two orders and the cancellation of one (a `DELETE`
counts as a request). Ledger: two orders of one user share a held
balance while a third belongs to somebody else, and buyer and seller may
coincide. Practice: a limiter's bucket can fill, run empty and lose a unit at
each of several calls within the window; four keys overflow a cache of three, and
updates and reads come in between; four triggers come before, at and after a late
firing; three callers hold, wait and give up at once; a request hangs while
another ends; three resting orders and an incoming one make the matcher's slice
shrink under its index, and let a buyer make two trades that the balance of 3
covers together (2 - 1) or only one by one (2 + 2), at prices of either sign; half
units are dropped on both sides of zero; all its orders carry one id,
the worst case for whom a trade pays (that first balances may be negative is
only proved); three orders are a maker, an own order and a taker for
the phases' matcher. Transfers: three requests of two ids give an id
used twice, at once or in turn, around another request; two accounts include a
transfer from an account to itself.

Users, goroutines, keys and responses that differ only in name are symmetric in
the runs that say so; runs of liveness properties use no symmetry. Deadlock is
not checked for the bus, the ledger and the practice run, where the bounds let the
instance run out (no event left to publish, no credit left, no request left), and
where some parts may stop: a server ends, the broken matcher panics.

### Fairness

- `OrderBook`: the goroutine that holds the lock blocks on nothing, so it is
  weakly fair. Nothing is assumed about who calls.
- `Market`: a goroutine past the gate gets the book's lock and runs on.
- `EventBus`: a publisher inside `Publish` runs on. Consumers need take nothing
  while the bus is open, so `PublishReturns` holds without their help (`Close`
  cannot come while a publisher is inside); after `Close` they finish their loops.
- `Transfers`: some goroutine that can run does. Each makes finitely many steps,
  so none is passed over for ever. Nobody has to stop reading. In `Practice` the
  same holds of the steps of this part.
- `GracefulServer`: the main goroutine goes on after a signal, and the deadline
  comes. Requests may last for ever, and nothing is assumed of the one that serves.

### Where code and comments disagree

Each is a run with one property that states the sentence, and a counterexample.

- A limit order does fill against its own user's order when that stands behind
  another user's (`NoSelfTrade`).
- An IOC order that ends with quantity left drops its user's own skipped orders
  from the book (`NoRestingOrderLost`).
- Two overlapping requests with one key both execute (`OneSuccessPerKey`), and
  ids may repeat (`IdsDiffer`).

Others follow from the models and have no run of their own:

- A limit order whose user owns the best crossing order rests at once, crossing
  other users' orders (`ParkLimit`), where `internal/orderbook/orderbook.go:33`
  says that limit orders match first and rest with the remainder.
- `Market.PlaceOrder` "delegates to the book only if state == Live"
  (`internal/market/market.go:87`); `LateOrdersBounded` says how many orders the
  book may still match after the market was paused or settled.
- A second `Close` of the bus does not panic (`internal/events/eventbus.go:108`
  says it does): the lists are empty by then. `Subscribe` after `Close` returns
  a closed channel, as the comment at `Close` says, and not nil, as its own does.
- The ledger's total of balances and holds falls with every settlement and
  refund (`internal/ledger/ledger.go:20`), because holds are part of balances.
- The trades of a market order that is only partly filled are not published: the
  market returns them with an error and the handler stops there (`Unfilled`).
- SIGTERM is said to shut the server down (`warmup/warmup.go:226`, `:230`) but only
  the interrupt is registered (`:241`): SIGTERM kills the process (`Terminate`).
- A server that cannot listen waits for a signal all the same, and its error is
  lost if it has not reached the channel when that is looked at, once, at the end.
- A cache of capacity zero holds one item (`Size`), where `warmup/warmup.go:125` says
  that it holds at most its capacity. A semaphore of capacity zero admits nobody.
- `fn` is called "at most once per interval" (`warmup/warmup.go:486`) as far as the
  timers go; it runs in goroutines of its own, which may be late and overlap.
- `Deposit` of the processor is called "not idempotent — uses unique txnID"
  (`warmup/warmup.go:459`), but it looks the id up and returns what is kept under
  it (`:464`), so a second deposit with one id, or a deposit with the id of a
  transfer, is not executed. `ExecutedOnce` holds of deposits too, as the comment at
  the type has it ("each transaction ID is executed at most once", `:418`).
- The list in the broken matcher's header (`exercises/matcher/matcher.go:11`) does
  not say that prices go unchecked (`:75` to `:82`): a trade at a negative price
  pays the buyer and takes from the seller, also what the seller does not have; if
  the seller's order is gone by then, money is made. `DamageIsKnown` allows for both.
- The broken matcher also runs off its slice and panics, which the list in its
  header calls skipping elements, and an order after a refused purchase is gone
  without a trade or a payment.
- Phase 3 drops an IOC order's own skipped orders, as the engine does;
  `exercises/phase3-matcher/README.md:53` says that they stay on the book. Its
  limit orders also trade with their own user's orders behind another user's, as
  the engine's do: "A new incoming order is **never** matched against another order
  from the same user" (`exercises/phase3-matcher/README.md:11`) and "Self-match: never
  fill against an order from the same UserID" (`exercises/phase3-matcher/matcher.go:40`).

## Proofs

Every theorem holds for all values of the constants that satisfy the named
assumptions of its module (the sets may be infinite unless the assumption says
otherwise).

- **OrderBook** (`TypeCorrect`, `BookStaysSorted`, `CrossingComesFromParking`).
  The invariant is `IInv`: `TypeOK`, `BookSorted`, `SidesKept` (each slice and
  the skipped orders are on their side), `SkippedInSweep` (orders are set aside
  only in a sweep) and `CrossedOnlyByParked`. Crossing alone is not inductive:
  that the remainder of a limit order crosses nothing when it rests follows
  from the head not crossing only because the slice is sorted, and the slice
  stays sorted only because `insertSorted` finds the one place and the head
  shrinks without losing its rank. The lemmas on sequences (insertion, removal,
  change of the head) come first; then one lemma per action.
- **OrderBook**, second invariant (`AccountsHold`, `NothingIsLostOrDoubled`,
  `SelfTradesComeSecond`, `OnlyOwnIOCLoses`). `Accounts` keeps the books: an id
  names one placed order, what rests is a placed limit order less what it has
  traded (`RestingIsLeft`), no id is in two places (`OnePlace`), and the running
  order is on no slice before its call is done, with exactly its untraded part left
  (`CallAccounted`). `MakersKnown` adds whose orders the call has traded with, and
  that a limit order whose call got past the self-match check does not make its
  first trade with an own order. `NothingIsLostOrDoubled` and
  `SelfTradesComeSecond` are the invariants the runs check; `OnlyOwnIOCLoses` is the
  action property that only an unfilled IOC call takes unfilled orders off
  the book, and only its own user's.
- **OrderBook implements AtomicBook** (`EngineKeepsPromise`). Callers see one step
  of a call, its last, and that step speaks of all that went before; so the third
  invariant, `FollowInv`, says how far the running call has come. For some book `R` and
  some orders `D` of it (`Follows`): the call found `R`; `D` is the
  beginning of the orders it may trade with, in rank (`BestOf`); the trades so far
  are one with each of `D`, in order, of the amount that `AtomicBook` calls its
  `Share` (`TradesWith`); what is left of the order is its quantity less all that
  `D` had (`Counted`); what is present is what those trades leave (`LeftBy`); what
  was set aside is what crosses (`Follows`); and `R` can be told from what was placed and
  traded (`Dated`), which is how the mapping tells it (`StillSeen`). One fill takes
  `D` to `D` and the head: no order that may trade ranks before the head, by
  `BookSorted`, so those ahead of the head are exactly `D`, and its share is what is
  left, up to what it has (`NextShare`). At a loop's end nothing is left, or
  `D` is all that may trade, since nothing behind a head that does not cross does
  (`AllTraded`); either way the shares of the others are zero (`EndOfCall`).
  Then each way out is AtomicBook's `Match`, the self-match branch its `Park`,
  and the steps in between are none.
- **Market** (`TypeCorrect`, `EmptyBeforeLive`, `DrainedAddsNothing`,
  `SettledIsFrozen`, `LateOrdersAreFew`). `EmptyBeforeLive` needs that a market
  that was never live is open and has no order past its gate; the two action
  properties follow from the types, action by action. `LateOrdersAreFew` needs that nothing is
  late while the market is live (`LateInv`): a late order leaves the goroutines
  that are past the gate, and none can join them.
- **EventBus** (`TypeCorrect`, `PublishNeverPanics`, `SeenInOrder`,
  `NoEventVanishes`). The invariant of the first two adds three facts: a channel is
  on one list only, listed channels are open, and what a publisher has left to visit
  is still listed, because the write lock cannot be taken while it holds the read
  lock. `SeenInOrder` needs `Orderly`: an event that still has to be brought is
  its publisher's latest, all that a channel has seen of that publisher is older, and
  it is of the type the channel is listed under. `NoEventVanishes` needs that
  finitely many publishers are on their way to a channel.
- **Ledger** (`TypeCorrect`, `NeverOverdrawn`, `HoldsAddUp`, `MoneyIsConserved`,
  `ImplementsEscrow`; finitely many users and orders). `NoOverdraft` is inductive
  with the types; the two sums are inductive with them, because an operation
  changes a balance or a hold, and a reservation, by one amount each. The
  refinement takes each operation to one step of the escrow; a refund is a payment
  back to the order's own user, and a settlement may have buyer and seller equal.
- **Idempotency** (`TypeCorrect`, `ImplementsEagerCache`). A sweep is a stutter,
  a lookup that deletes is a plain read, and a tick of the clock hides exactly
  the entries that the abstract cache deletes.
- **Api** (`AnswersComeAfterEvents`, `ReplaysComeAfterEvents`,
  `RetriesAreReplayed`; finitely many goroutines). Neither of the first two is inductive:
  `Story` says what a handler in the middle of its events knows. No event of
  a number that was not given is out (`Silent`); who publishes an order is alone with
  it, and what is out together with what it has left is what is due (`Apart`);
  what is answered is told completely (`AnswersTold`); an order is cancelled by one
  handler, which has taken it off the book (`CancelledOnce`); and the guard keeps
  only answers that were given, under the key they were asked with (`AnswersKept`).
  `TypedInv` bounds the numbers the market has given by the requests made. The
  third is an action property; it follows from `InTime`: as long as a key is to
  be replayed, the guard's record of it lasts as long.
- **Practice**. While one part moves the others stay as they started, so each
  part has an invariant of its own, kept by its actions and by standing still.
  - Limiter (`NeverMoreThanPaidFor`): the bound on grants alone is not inductive.
    `PaidFor` adds to what was granted since some grant what the bucket holds now,
    against the rate up to `lastFill`, and `AskedBefore` keeps the two times in
    order. A refill adds to both sides, a grant moves a token from the bucket
    to the grants, and a loss only helps.
  - Debouncer (`LastCallIsKept`): the only timer that runs is the last call's
    (`OneTimer`).
  - Server (`NilIsDrained`): once the main goroutine has started to shut down
    nobody serves, and requests in progress only become fewer.
  - Semaphore (`SlotsStayHeld`): who is in the queue waits, and is there once
    (`Queued`), so a release hands its slot to one goroutine that can take it.
  - Fan-out (`ClosesComplete`): each input before the next is at one worker
    or in the output, once (`InputsOnce`), none is missing, and workers are done only when
    the input is (`DoneLast`). That there is a worker is assumed: the number of
    workers is the caller's, and with none the output closes empty.
  - Processor (`EffectsAreOnce`, `AccountsAreExact`): whatever took effect left a
    result under its id (`Recorded`), and who was told of a success was told what
    is kept; the accounts are what the executed requests add up to, in any order.
  - Cache (`MostRecentAreHeld`): the list is the beginning of the list that a
    cache without a limit would have (`KeptAreUsed`), and the map agrees with it.
  - Broken matcher (`DamageStaysKnown`; finitely many traders): as long as there
    is no trade the slice is as long as the loop takes it to be (`LoopFollows`), so
    running off it takes a trade; money is where it was put or went to nobody
    (`NoneMade`). A purchase costs no more than the buyer has, and what a trader
    receives for sales is not negative unless that is noted, whatever the signs of
    the single payments (`OnlyChargedOwe`).
- **Sums**, for the ledger, the engine and the processor. `FiniteSetsExt` defines a sum as a fold whose recursive function is
  chosen. That such a function exists, and that changing one summand changes the
  sum by as much, needs induction over the set; it is done with a least
  counterexample among the cardinalities, which needs no induction rule.

Only model-checked:

- the liveness properties (`LockReleased`, `SettledDrains`, `PublishReturns`,
  `ConsumersLeave`, `OutputCloses`, `SignalledReturns`): fairness and
  ENABLED are out of the prover's reach;
- that the exercises' matcher implements `AtomicBook` (`PhasesKeepPromise`): a call
  is one step there, and its loops are folds over a slice. What such a fold comes to
  takes an induction over the slice with all that `Follows` says as its hypothesis.

## Not modelled

- `internal/config` reads environment variables once.
- Decoding, encoding, status codes and log lines of the API.
- `exercises/phase5-state`, `phase6-ledger` and `phase7-idempotency`: the code of
  `internal/market`, `internal/ledger` and `internal/idempotency` under other
  names, which `Market`, `Ledger` and `Idempotency` model; phase 5's market has
  phase 4's book, which `PhaseMatcher` models.
- Prices of the broken matcher that are not finite numbers, what `float64` rounds
  in a product, and sums beyond `int64`.
- Overlapping calls of the broken matcher race on a slice and a map; what they
  do is undefined.
- `warmup/`: the counters are one addition, locked or atomic; the event bus is the
  internal one without `Close`, the state machine the market without a book.
- The server's `main` package is not in the repository.

## Plan

Done, in this order: `OrderBook`, its properties and the three theorems;
`Market`; `EventBus`; `Ledger` over `Escrow`; `Idempotency` over `EagerCache`;
`Api` over `Idempotency`; `Transfers` over `FanOut` and `Processor`; `AtomicBook`
under `OrderBook`; the other parts of `warmup` and the broken matcher in
`Practice`; the phases' book and matcher over `AtomicBook`;
then proofs of every safety invariant and action property the runs check, and
that `OrderBook` implements `AtomicBook`.

Next:

1. `Market` over `AtomicBook` in place of its set of orders.
2. Proof that `PhaseMatcher` implements `AtomicBook`, turn by turn of its folds.
