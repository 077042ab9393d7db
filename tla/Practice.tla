------------------------------- MODULE Practice -------------------------------
(***************************************************************************)
(* The practice code of warmup/ and exercises/.  Its parts share nothing   *)
(* and call nothing of each other, so a behaviour is one of a single part, *)
(* chosen at the beginning, while the others stay as they are.             *)
(***************************************************************************)
EXTENDS Timing, Sequences, FiniteSets

CONSTANTS
  Workers, Txns, Accounts, TransferAmounts, InputCount,          \* Transfers
  Keys, Values, CacheCapacities,                                 \* LRU
  Callers, SlotCapacities,                                       \* Semaphore
  Requests,                                                      \* GracefulServer
  MatchIds, Traders, MatchPrices, MatchQuantities, PriceUnit,    \* BrokenMatcher
  Amounts, MaxCalls,
  Ids, Users, NoUser, OrderTypes, Prices, Quantities,            \* PhaseMatcher
  Timestamps, MaxPrice, Latest, NoOrder

ASSUME PracticeAssumption ==
  /\ TransferAmounts \subseteq Nat \ {0} /\ InputCount \in Nat
  /\ Workers # {}   \* a call has one worker at least
  /\ CacheCapacities \subseteq Nat
  /\ SlotCapacities \subseteq Nat
  /\ MatchPrices \subseteq Int /\ Amounts \subseteq Int
  /\ MatchQuantities \subseteq Int /\ PriceUnit \in Nat \ {0}
  /\ IsFiniteSet(Traders)

VARIABLES
  part,      \* the part that is used
  next, at, item, out, closed, reading, results, accounts, answered,
  batch, answer, executed,                              \* of Transfers
  clock, tokens, lastFill, granted,                     \* of RateLimiter
  cap, items, recency, used, written,                   \* of LRU
  timers, triggers, starting, ran, sinceFired,          \* of Debouncer
  capacity, taken, queue, caller,                       \* of Semaphore
  signalled, main, serve, errCh, made, active, result,  \* of GracefulServer
  orders, balances, pc, cur, i, length, trades, calls, total, burnt, charged,
                                                        \* of BrokenMatcher
  direct, book, order, fills, err                       \* of PhaseMatcher

transferVars == <<next, at, item, out, closed, reading, results, accounts,
                  answered, batch, answer, executed>>
limiterVars == <<clock, tokens, lastFill, granted>>
cacheVars == <<cap, items, recency, used, written>>
debouncerVars == <<timers, triggers, starting, ran, sinceFired>>
slotVars == <<capacity, taken, queue, caller>>
serverVars == <<signalled, main, serve, errCh, made, active, result>>
matcherVars == <<orders, balances, pc, cur, i, length, trades, calls, total, burnt, charged>>
phaseVars == <<direct, book, order, fills, err>>
vars == <<part, transferVars, limiterVars, cacheVars, debouncerVars, slotVars,
          serverVars, matcherVars, phaseVars>>

Transfer == INSTANCE Transfers WITH
              Amounts <- TransferAmounts, balances <- accounts, result <- answered
Limiter == INSTANCE RateLimiter
Cache == INSTANCE LRU WITH Capacities <- CacheCapacities
Debounce == INSTANCE Debouncer
Slots == INSTANCE Semaphore WITH Capacities <- SlotCapacities, at <- caller
Server == INSTANCE GracefulServer
Match == INSTANCE BrokenMatcher WITH
           Ids <- MatchIds, Prices <- MatchPrices, Quantities <- MatchQuantities
Phases == INSTANCE PhaseMatcher WITH trades <- fills

Parts == {"transfers", "limiter", "cache", "debouncer", "semaphore", "server", "matcher", "phases"}

\* A part that is not used starts in some one way.
Init ==
  /\ part \in Parts
  /\ part = "transfers" \/ batch = CHOOSE b \in [1..InputCount -> Transfer!Request] : TRUE
  /\ part = "cache" \/ cap = CHOOSE c \in CacheCapacities : TRUE
  /\ part = "semaphore" \/ capacity = CHOOSE c \in SlotCapacities : TRUE
  /\ Transfer!Init
  /\ Limiter!Init
  /\ Cache!Init
  /\ Debounce!Init
  /\ Slots!Init
  /\ Server!Init
  /\ part = "phases" \/ direct = FALSE
  /\ Match!Init
  /\ Phases!Init

TransferStep ==
  /\ part = "transfers"
  /\ Transfer!Step
  /\ UNCHANGED <<part, limiterVars, cacheVars, debouncerVars, slotVars,
                 serverVars, matcherVars, phaseVars>>

Next ==
  \/ /\ part = "transfers"
     /\ Transfer!Next
     /\ UNCHANGED <<part, limiterVars, cacheVars, debouncerVars,
                    slotVars, serverVars, matcherVars, phaseVars>>
  \/ /\ part = "limiter"
     /\ Limiter!Next
     /\ UNCHANGED <<part, transferVars, cacheVars, debouncerVars,
                    slotVars, serverVars, matcherVars, phaseVars>>
  \/ /\ part = "cache"
     /\ Cache!Next
     /\ UNCHANGED <<part, transferVars, limiterVars, debouncerVars,
                    slotVars, serverVars, matcherVars, phaseVars>>
  \/ /\ part = "debouncer"
     /\ Debounce!Next
     /\ UNCHANGED <<part, transferVars, limiterVars, cacheVars,
                    slotVars, serverVars, matcherVars, phaseVars>>
  \/ /\ part = "semaphore"
     /\ Slots!Next
     /\ UNCHANGED <<part, transferVars, limiterVars, cacheVars,
                    debouncerVars, serverVars, matcherVars, phaseVars>>
  \/ /\ part = "server"
     /\ Server!Next
     /\ UNCHANGED <<part, transferVars, limiterVars, cacheVars,
                    debouncerVars, slotVars, matcherVars, phaseVars>>
  \/ /\ part = "matcher"
     /\ Match!Next
     /\ UNCHANGED <<part, transferVars, limiterVars, cacheVars,
                    debouncerVars, slotVars, serverVars, phaseVars>>
  \/ /\ part = "phases"
     /\ Phases!Next
     /\ UNCHANGED <<part, transferVars, limiterVars, cacheVars,
                    debouncerVars, slotVars, serverVars, matcherVars>>

\* Every part that has one keeps its own fairness.
Spec ==
  /\ Init /\ [][Next]_vars
  /\ WF_vars(TransferStep)
  /\ Server!Fairness

----------------------------------------------------------------------------
(* Properties: what each part states of itself.                            *)

\* The output of a fan-out closes complete, and nobody sends on it any more.
ClosedIsComplete == Transfer!ClosedIsComplete

\* No two requests with one id take effect, whichever worker comes first.
ExecutedOnce == Transfer!ExecutedOnce

\* Accounts hold what the executed requests brought less what they took.
BalancesExact == Transfer!BalancesExact

\* A consumer that reads on sees the output of a fan-out closed.
OutputCloses == part = "transfers" => Transfer!OutputCloses

\* The rate limiter allows no more than burst and rate pay for, in any window.
WindowBound == Limiter!WindowBound

\* The LRU cache holds the keys used last, with the values put last.
HoldsMostRecent == Cache!HoldsMostRecent

\* The debouncer keeps its interval and does not lose the last call.
LastCallWins == Debounce!LastCallWins

\* No slot of the semaphore is lost or given twice.
SlotsAreHeld == Slots!SlotsAreHeld

\* A server that returns nil has drained.
NilMeansDrained == Server!NilMeansDrained

\* An interrupted server returns.
SignalledReturns == Server!SignalledReturns

\* The broken matcher loses money, overdraws a trader and makes money only in
\* the ways that DamageIsKnown of BrokenMatcher tells.
DamageIsKnown == Match!DamageIsKnown

\* The exercises' book and matcher answer as the engine does.
PhasesKeepPromise == Phases!KeepsPromise

=============================================================================
