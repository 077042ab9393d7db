----------------------------- MODULE MarketProofs -----------------------------
(***************************************************************************)
(* Theorems about Market, for any number of goroutines and orders.         *)
(***************************************************************************)
EXTENDS Market, FiniteSetTheorems, TLAPS

\* NothingBeforeLive needs to know that a market that was never live is open.
OpenUntilLive == ~opened => state = "open"

IInv == TypeOK /\ OpenUntilLive /\ NothingBeforeLive

LEMMA TransitionTable ==
  /\ validTransitions["open"] = {"live"}
  /\ validTransitions["live"] = {"paused", "settled"}
  /\ validTransitions["paused"] = {"live", "settled"}
  /\ validTransitions["settled"] = {}
BY DEF validTransitions

LEMMA InitInv == Init => IInv
<1> SUFFICES ASSUME Init PROVE IInv
  OBVIOUS
<1>1. TypeOK /\ OpenUntilLive
  BY DEF Init, TypeOK, OpenUntilLive, States, Calls
<1>2. Pending("place") = {}
  BY DEF Init, Pending, NoCall
<1> QED BY <1>1, <1>2 DEF IInv, NothingBeforeLive, Init

LEMMA ReadStateKeepsInv ==
  ASSUME IInv, NEW t \in Threads, NEW op \in {"place", "cancel"}, NEW o \in Orders,
         ReadState(t, op, o)
  PROVE  IInv'
<1>1. CASE UNCHANGED vars
  BY <1>1 DEF IInv, TypeOK, OpenUntilLive, NothingBeforeLive, Pending, vars
<1>2. CASE ~UNCHANGED vars
  <2>1. /\ Admits(op)
        /\ call' = [call EXCEPT ![t] = [op |-> op, order |-> o]]
        /\ placed' = IF op = "place" THEN placed \cup {o} ELSE placed
        /\ UNCHANGED <<state, book, opened, late>>
    BY <1>2 DEF ReadState
  <2>2. [op |-> op, order |-> o] \in Calls
    BY DEF Calls
  <2>3. TypeOK'
    BY <2>1, <2>2 DEF IInv, TypeOK
  <2>4. ~opened => op # "place"
    BY <2>1 DEF Admits, IInv, OpenUntilLive
  <2>5. NothingBeforeLive'
    BY <2>1, <2>4 DEF IInv, TypeOK, NothingBeforeLive, Pending
  <2> QED BY <2>1, <2>3, <2>5 DEF IInv, OpenUntilLive
<1> QED BY <1>1, <1>2

LEMMA BookKeepsInv ==
  ASSUME IInv, NEW t \in Threads, BookPlace(t) \/ BookCancel(t)
  PROVE  IInv'
<1>1. /\ call' = [call EXCEPT ![t] = NoCall]
      /\ UNCHANGED <<state, placed, opened>>
      /\ late' \in Nat
  BY DEF BookPlace, BookCancel, IInv, TypeOK
<1>2. call[t].op \in {"place", "cancel"} /\ call[t].order \in Orders
  BY DEF BookPlace, BookCancel, IInv, TypeOK, Calls, NoCall
<1>3. book' \subseteq Orders
  BY <1>2 DEF BookPlace, BookCancel, IInv, TypeOK
<1>4. TypeOK'
  BY <1>1, <1>3 DEF IInv, TypeOK, Calls
<1>5. ~opened => book' = {}
  BY DEF BookPlace, BookCancel, IInv, NothingBeforeLive, Pending
<1>6. Pending("place")' \subseteq Pending("place")
  BY <1>1 DEF Pending, IInv, TypeOK, NoCall
<1>7. NothingBeforeLive'
  BY <1>1, <1>5, <1>6 DEF IInv, NothingBeforeLive
<1> QED BY <1>1, <1>4, <1>7 DEF IInv, OpenUntilLive

LEMMA TransitionKeepsInv ==
  ASSUME IInv, NEW to \in States, Transition(to)
  PROVE  IInv'
<1>1. /\ state' = to /\ opened' = (opened \/ to = "live") /\ late' \in Nat
      /\ UNCHANGED <<book, call, placed>>
  BY DEF Transition, IInv, TypeOK
<1>2. TypeOK'
  BY <1>1 DEF IInv, TypeOK
<1>3. ~opened => to = "live"
  BY TransitionTable DEF Transition, IInv, OpenUntilLive
<1>4. opened'
  BY <1>1, <1>3 DEF IInv, TypeOK
<1> QED BY <1>2, <1>4 DEF IInv, OpenUntilLive, NothingBeforeLive

LEMMA NextKeepsInv == IInv /\ [Next]_vars => IInv'
<1> SUFFICES ASSUME IInv, [Next]_vars PROVE IInv'
  OBVIOUS
<1>1. CASE UNCHANGED vars
  BY <1>1 DEF IInv, TypeOK, OpenUntilLive, NothingBeforeLive, Pending, vars
<1> QED BY <1>1, ReadStateKeepsInv, BookKeepsInv, TransitionKeepsInv DEF Next

LEMMA Inductive == Spec => []IInv
<1> QED BY InitInv, NextKeepsInv, PTL DEF Spec

----------------------------------------------------------------------------

\* Every variable keeps its type.
THEOREM TypeCorrect == Spec => []TypeOK
<1>1. IInv => TypeOK
  BY DEF IInv
<1> QED BY <1>1, Inductive, PTL

\* Nothing rests on the book of a market that has not been live yet.
THEOREM EmptyBeforeLive == Spec => []NothingBeforeLive
<1>1. IInv => NothingBeforeLive
  BY DEF IInv
<1> QED BY <1>1, Inductive, PTL

\* A step of a market that is not live, with no PlaceOrder call past the gate,
\* adds no order and lets none through: the state a new call reads is current.
LEMMA DrainedStep ==
  ASSUME TypeOK, [Next]_vars, state # "live", Pending("place") = {}
  PROVE  book' \subseteq book /\ Pending("place")' = {}
<1>1. ASSUME NEW t \in Threads, BookPlace(t) PROVE FALSE
  BY <1>1 DEF BookPlace, Pending
<1>2. ASSUME NEW t \in Threads, BookCancel(t)
      PROVE  book' \subseteq book /\ Pending("place")' = {}
  BY <1>2 DEF BookCancel, Pending, NoCall, TypeOK
<1>3. ASSUME NEW t \in Threads, NEW op \in {"place", "cancel"}, NEW o,
             ReadState(t, op, o)
      PROVE  book' \subseteq book /\ Pending("place")' = {}
  <2>1. CASE UNCHANGED vars
    BY <2>1 DEF vars, Pending
  <2>2. CASE ~UNCHANGED vars
    <3>1. /\ UNCHANGED book
          /\ call' = [call EXCEPT ![t] = [op |-> "cancel", order |-> o]]
      BY <1>3, <2>2 DEF ReadState, Admits
    <3> QED
      BY <3>1 DEF Pending, TypeOK
  <2> QED BY <2>1, <2>2
<1>4. ASSUME NEW to, Transition(to)
      PROVE  book' \subseteq book /\ Pending("place")' = {}
  BY <1>4 DEF Transition, Pending
<1>5. CASE UNCHANGED vars
  BY <1>5 DEF vars, Pending
<1> QED BY <1>1, <1>2, <1>3, <1>4, <1>5 DEF Next

\* With no order past the gate of a market that is not live, no step adds to
\* the book: PlaceOrder reads the state first.
THEOREM DrainedAddsNothing == Spec => NoEntryWhenDrained
<1>1. TypeOK /\ [Next]_vars
        => [(state # "live" /\ Pending("place") = {})
              => book' \subseteq book /\ Pending("place")' = {}]_vars
  BY DrainedStep
<1> QED BY <1>1, TypeCorrect, PTL DEF Spec, NoEntryWhenDrained

\* A step of a settled market with no call past the gate changes nothing that
\* another goroutine can see, and lets no call through.
LEMMA FrozenStep ==
  ASSUME TypeOK, [Next]_vars, state = "settled",
         Pending("place") \cup Pending("cancel") = {}
  PROVE  /\ UNCHANGED book
         /\ (Pending("place") \cup Pending("cancel"))' = {}
         /\ state' = "settled"
<1>1. ASSUME NEW t \in Threads, BookPlace(t) \/ BookCancel(t) PROVE FALSE
  BY <1>1 DEF BookPlace, BookCancel, Pending
<1>2. ASSUME NEW t \in Threads, NEW op \in {"place", "cancel"}, NEW o,
             ReadState(t, op, o)
      PROVE  UNCHANGED vars
  BY <1>2 DEF ReadState, Admits
<1>3. ASSUME NEW to, Transition(to) PROVE FALSE
  BY <1>3, TransitionTable DEF Transition
<1>4. UNCHANGED vars
  BY <1>1, <1>2, <1>3 DEF Next
<1> QED BY <1>4 DEF vars, Pending

\* Nothing leads out of the settled state, and its gate lets nobody through.
THEOREM SettledIsFrozen == Spec => FrozenWhenDrained
<1>1. TypeOK /\ [Next]_vars
        => [(state = "settled" /\ Pending("place") \cup Pending("cancel") = {})
              => /\ UNCHANGED book
                 /\ (Pending("place") \cup Pending("cancel"))' = {}
                 /\ state' = "settled"]_vars
  BY FrozenStep
<1> QED BY <1>1, TypeCorrect, PTL DEF Spec, FrozenWhenDrained

----------------------------------------------------------------------------
(* The orders matched after a market stopped being live.                   *)

\* LateOrdersBounded needs to know where the count starts: at zero, when the
\* market leaves the live state.
LateInv ==
  /\ state = "live" => late = 0
  /\ LateOrdersBounded

\* The calls past the gate are never more than there are goroutines.
LEMMA PendingFinite ==
  /\ IsFiniteSet(Pending("place"))
  /\ Cardinality(Pending("place")) \in Nat /\ Cardinality(Threads) \in Nat
  /\ Cardinality(Pending("place")) <= Cardinality(Threads)
<1>1. Pending("place") \in SUBSET Threads /\ IsFiniteSet(Threads)
  BY MarketAssumption DEF Pending
<1>2. /\ IsFiniteSet(Pending("place"))
      /\ Cardinality(Pending("place")) <= Cardinality(Threads)
  BY <1>1, FS_Subset, Zenon
<1>3. Cardinality(Pending("place")) \in Nat /\ Cardinality(Threads) \in Nat
  BY <1>1, <1>2, FS_CardinalityType, Zenon
<1> QED BY <1>2, <1>3

\* A step that keeps the state, the count and who has an order past the gate
\* keeps the bound.
LEMMA SamePending ==
  ASSUME LateInv, Pending("place")' = Pending("place"), UNCHANGED <<state, late>>
  PROVE  LateInv'
BY DEF LateInv, LateOrdersBounded

\* An order gets past the gate of a live market only, which has no late order.
LEMMA ReadStateLate ==
  ASSUME TypeOK, LateInv, NEW t \in Threads, NEW op \in {"place", "cancel"},
         NEW o \in Orders, ReadState(t, op, o)
  PROVE  LateInv'
<1>1. CASE UNCHANGED vars
  <2>1. Pending("place")' = Pending("place")
    BY <1>1 DEF vars, Pending
  <2> QED BY <1>1, <2>1, SamePending DEF vars
<1>2. CASE ~UNCHANGED vars
  <2>1. /\ Admits(op) /\ call[t] = NoCall
        /\ call' = [call EXCEPT ![t] = [op |-> op, order |-> o]]
        /\ UNCHANGED <<state, late>>
    BY <1>2 DEF ReadState
  <2>2. CASE op = "place"
    <3>1. state' = "live" /\ late' = late /\ late = 0
      BY <2>1, <2>2 DEF Admits, LateInv
    <3> QED BY <3>1 DEF LateInv, LateOrdersBounded
  <2>3. CASE op = "cancel"
    <3>1. Pending("place")' = Pending("place")
      BY <2>1, <2>3 DEF Pending, TypeOK, NoCall
    <3> QED BY <2>1, <3>1, SamePending
  <2> QED BY <2>2, <2>3
<1> QED BY <1>1, <1>2

\* Matching a late order counts it and takes its call from the pending ones.
LEMMA BookPlaceLate ==
  ASSUME TypeOK, LateInv, NEW t \in Threads, BookPlace(t)
  PROVE  LateInv'
<1>1. /\ call[t].op = "place"
      /\ call' = [call EXCEPT ![t] = NoCall]
      /\ state' = state
      /\ late' = IF state = "live" THEN 0 ELSE late + 1
  BY DEF BookPlace
<1>2. CASE state = "live"
  BY <1>1, <1>2 DEF LateInv, LateOrdersBounded
<1>3. CASE state # "live"
  <2>1. t \in Pending("place") /\ Pending("place")' = Pending("place") \ {t}
    BY <1>1 DEF Pending, TypeOK, NoCall
  <2>2. Cardinality(Pending("place") \ {t}) = Cardinality(Pending("place")) - 1
    BY <2>1, PendingFinite, FS_RemoveElement
  <2>3. Cardinality(Pending("place")') = Cardinality(Pending("place")) - 1
    BY <2>1, <2>2, Zenon
  <2>4. late + Cardinality(Pending("place")) <= Cardinality(Threads)
    BY <1>3 DEF LateInv, LateOrdersBounded
  <2> DEFINE n0 == Cardinality(Pending("place"))
             n1 == Cardinality(Pending("place")')
             k == Cardinality(Threads)
  <2>5. late \in Nat /\ late' = late + 1
    BY <1>1, <1>3 DEF TypeOK
  <2>6. n0 \in Nat /\ k \in Nat /\ n1 = n0 - 1 /\ late + n0 <= k
    BY <2>3, <2>4, PendingFinite
  <2> HIDE DEF n0, n1, k
  <2>7. late' + n1 <= k
    BY <2>5, <2>6
  <2>8. LateOrdersBounded'
    BY <2>7 DEF LateOrdersBounded, n1, k
  <2> QED BY <1>1, <1>3, <2>8 DEF LateInv
<1> QED BY <1>2, <1>3

\* A cancel leaves the orders that are past the gate where they are.
LEMMA BookCancelLate ==
  ASSUME TypeOK, LateInv, NEW t \in Threads, BookCancel(t)
  PROVE  LateInv'
<1>1. Pending("place")' = Pending("place")
  BY DEF BookCancel, Pending, TypeOK, NoCall
<1> QED BY <1>1, SamePending DEF BookCancel

\* A market that stops being live leaves no more calls past its gate than
\* there are goroutines, and none that is late yet.
LEMMA TransitionLate ==
  ASSUME TypeOK, LateInv, NEW to \in States, Transition(to)
  PROVE  LateInv'
<1>1. /\ state' = to /\ late' = (IF to = "live" THEN 0 ELSE late)
      /\ Pending("place")' = Pending("place")
  BY DEF Transition, Pending
<1>2. CASE to = "live"
  BY <1>1, <1>2 DEF LateInv, LateOrdersBounded
<1>3. CASE to # "live"
  <2> DEFINE n == Cardinality(Pending("place"))
             k == Cardinality(Threads)
  <2>1. late \in Nat /\ n \in Nat /\ k \in Nat /\ n <= k
    BY PendingFinite DEF TypeOK
  <2>2. (state = "live" => late = 0) /\ (state # "live" => late + n <= k)
    BY DEF LateInv, LateOrdersBounded
  <2>3. Cardinality(Pending("place")') = n /\ late' = late
    BY <1>1, <1>3
  <2> HIDE DEF n, k
  <2>4. late + n <= k
    BY <2>1, <2>2
  <2>5. LateOrdersBounded'
    BY <2>3, <2>4 DEF LateOrdersBounded, k
  <2> QED BY <1>1, <1>3, <2>5 DEF LateInv
<1> QED BY <1>2, <1>3

\* Whatever the interleaving of calls and transitions, the orders matched
\* after a market left the live state are those that were past the gate then.
THEOREM LateOrdersAreFew == Spec => []LateOrdersBounded
<1>1. Init => LateInv
  <2> SUFFICES ASSUME Init PROVE LateInv
    OBVIOUS
  <2>1. late = 0 /\ state = "open"
    BY DEF Init
  <2>2. 0 + Cardinality(Pending("place")) <= Cardinality(Threads)
    BY PendingFinite
  <2> QED BY <2>1, <2>2 DEF LateInv, LateOrdersBounded
<1>2. TypeOK /\ LateInv /\ [Next]_vars => LateInv'
  <2> SUFFICES ASSUME TypeOK, LateInv, [Next]_vars PROVE LateInv'
    OBVIOUS
  <2>1. CASE UNCHANGED vars
    <3>1. Pending("place")' = Pending("place")
      BY <2>1 DEF vars, Pending
    <3> QED BY <2>1, <3>1, SamePending DEF vars
  <2> QED BY <2>1, ReadStateLate, BookPlaceLate, BookCancelLate, TransitionLate DEF Next
<1>3. LateInv => LateOrdersBounded
  BY DEF LateInv
<1> QED BY <1>1, <1>2, <1>3, TypeCorrect, PTL DEF Spec

=============================================================================
