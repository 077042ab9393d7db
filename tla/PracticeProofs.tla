---------------------------- MODULE PracticeProofs ----------------------------
(***************************************************************************)
(* Theorems about the practice code.  The parts share nothing, so each     *)
(* has an inductive invariant of its own, which the other parts' steps     *)
(* leave alone.                                                            *)
(***************************************************************************)
EXTENDS Practice, SequencesExt, SequenceTheorems, FiniteSetTheorems, Sums, TLAPS

\* A step is one of a single part.
LEMMA OnePartMoves ==
  ASSUME [Next]_vars
  PROVE  /\ Transfer!Next \/ UNCHANGED transferVars
         /\ Limiter!Next \/ UNCHANGED limiterVars
         /\ Cache!Next \/ UNCHANGED cacheVars
         /\ Debounce!Next \/ UNCHANGED debouncerVars
         /\ Slots!Next \/ UNCHANGED slotVars
         /\ Server!Next \/ UNCHANGED serverVars
         /\ Match!Next \/ UNCHANGED matcherVars
BY DEF Next, vars

\* What is removed at place n leaves the rest in order.
LEMMA RemoveAtLeaves ==
  ASSUME NEW S, NEW s \in Seq(S), NEW n \in 1..Len(s)
  PROVE  /\ RemoveAt(s, n) \in Seq(S)
         /\ Len(RemoveAt(s, n)) = Len(s) - 1
         /\ \A m \in 1..Len(s) - 1 : RemoveAt(s, n)[m] = IF m < n THEN s[m] ELSE s[m + 1]
<1> DEFINE a == SubSeq(s, 1, n - 1)
           b == SubSeq(s, n + 1, Len(s))
<1>1. /\ a \in Seq(S) /\ Len(a) = n - 1
      /\ \A m \in 1..n - 1 : a[m] = s[m]
  BY SubSeqProperties
<1>2. /\ b \in Seq(S) /\ Len(b) = Len(s) - n
      /\ \A m \in 1..Len(s) - n : b[m] = s[n + m]
  BY SubSeqProperties
<1>3. RemoveAt(s, n) = a \o b
  BY DEF RemoveAt
<1> HIDE DEF a, b
<1>4. /\ a \o b \in Seq(S) /\ Len(a \o b) = Len(a) + Len(b)
      /\ \A m \in 1..Len(a) + Len(b) :
           (a \o b)[m] = IF m <= Len(a) THEN a[m] ELSE b[m - Len(a)]
  BY <1>1, <1>2, ConcatProperties, Zenon
<1>5. Len(s) \in Nat /\ Len(a) + Len(b) = Len(s) - 1
  BY <1>1, <1>2
<1>6. ASSUME NEW m \in 1..Len(s) - 1
      PROVE  (a \o b)[m] = IF m < n THEN s[m] ELSE s[m + 1]
  <2>1. (a \o b)[m] = IF m <= Len(a) THEN a[m] ELSE b[m - Len(a)]
    BY <1>4, <1>5
  <2>2. CASE m < n
    BY <1>1, <1>5, <2>1, <2>2
  <2>3. CASE m >= n
    <3>1. (a \o b)[m] = b[m - (n - 1)]
      BY <1>1, <1>5, <2>1, <2>3
    <3>2. m - (n - 1) \in 1..Len(s) - n /\ n + (m - (n - 1)) = m + 1
      BY <1>5, <2>3
    <3> QED BY <1>2, <2>3, <3>1, <3>2
  <2> QED BY <1>5, <2>2, <2>3
<1> QED BY <1>3, <1>4, <1>5, <1>6

----------------------------------------------------------------------------
(* The rate limiter.                                                       *)

\* The types.
LimiterTyped ==
  /\ clock \in Nat
  /\ tokens \in Nat
  /\ lastFill \in Nat
  /\ granted \in Seq(Nat)

\* The limiter has not been asked later than now, nor has it granted later.
AskedBefore ==
  /\ lastFill <= clock
  /\ \A k \in 1..Len(granted) : granted[k] <= lastFill

\* What was granted since some grant, and what is in the bucket on top of it,
\* is paid for by a full bucket and the rate since then.
PaidFor ==
  \A k \in 1..Len(granted) :
    (Len(granted) - k + 1) * Token + tokens <= Burst + Rate * (lastFill - granted[k])

LimiterInv == LimiterTyped /\ AskedBefore /\ PaidFor

----------------------------------------------------------------------------
(* Products with a constant, which the provers are not good at.            *)

\* What the rate adds in two spans of time it adds in both together.
LEMMA SpansAdd ==
  ASSUME NEW r \in Nat, NEW a \in Int, NEW b \in Int
  PROVE  r * a + r * b = r * (a + b)
  OBVIOUS

\* One grant more costs one token more.
LEMMA OneMorePaid ==
  ASSUME NEW n \in Int, NEW u \in Int
  PROVE  (n + 1) * u = n * u + u
  OBVIOUS

----------------------------------------------------------------------------

\* A refill adds no more than the rate does, and never beyond the burst.
LEMMA RefilledBounds ==
  ASSUME LimiterTyped, AskedBefore
  PROVE  /\ Limiter!Refilled \in Nat
         /\ Limiter!Refilled <= Burst
         /\ Limiter!Refilled <= tokens + Rate * (clock - lastFill)
<1>1. Rate * (clock - lastFill) \in Nat
  BY RateLimiterAssumption DEF LimiterTyped, AskedBefore
<1> QED
  BY <1>1, RateLimiterAssumption DEF Limiter!Refilled, LimiterTyped

\* Time goes on in favour of what has been granted.
LEMMA RefilledPaidFor ==
  ASSUME LimiterInv, NEW k \in 1..Len(granted)
  PROVE  (Len(granted) - k + 1) * Token + Limiter!Refilled <= Burst + Rate * (clock - granted[k])
<1> DEFINE owed == (Len(granted) - k + 1) * Token
           before == Rate * (lastFill - granted[k])
           since == Rate * (clock - lastFill)
<1>1. /\ granted[k] \in Nat /\ clock \in Nat /\ lastFill \in Nat /\ tokens \in Nat
      /\ Len(granted) \in Nat /\ Rate \in Nat /\ Token \in Nat /\ Burst \in Nat
  BY RateLimiterAssumption DEF LimiterInv, LimiterTyped
<1>2. before + since = Rate * (clock - granted[k])
  <2>1. before + since = Rate * ((lastFill - granted[k]) + (clock - lastFill))
    BY <1>1, SpansAdd
  <2>2. (lastFill - granted[k]) + (clock - lastFill) = clock - granted[k]
    BY <1>1
  <2> QED BY <2>1, <2>2
<1>3. owed + tokens <= Burst + before
  BY DEF LimiterInv, PaidFor
<1>4. Limiter!Refilled \in Nat /\ Limiter!Refilled <= tokens + since
  BY RefilledBounds DEF LimiterInv
<1>5. owed \in Int /\ before \in Int /\ since \in Int
  BY <1>1
<1> HIDE DEF owed, before, since
<1>6. owed + Limiter!Refilled <= Burst + (before + since)
  BY <1>1, <1>3, <1>4, <1>5
<1>7. owed + Limiter!Refilled <= Burst + Rate * (clock - granted[k])
  BY <1>6, <1>2
<1> QED BY <1>7 DEF owed

LEMMA GrantKeeps ==
  ASSUME LimiterInv, Limiter!Grant
  PROVE  LimiterInv'
<1>1. /\ granted' = Append(granted, clock) /\ clock' = clock /\ lastFill' = clock
      /\ tokens' \in Nat /\ tokens' <= Limiter!Refilled - Token
  BY RefilledBounds, RateLimiterAssumption DEF Limiter!Grant, Limiter!tokensAsNanos, LimiterInv
<1>2. LimiterTyped'
  BY <1>1 DEF LimiterInv, LimiterTyped
<1>3. /\ Len(granted') = Len(granted) + 1
      /\ granted'[Len(granted) + 1] = clock
      /\ \A k \in 1..Len(granted) : granted'[k] = granted[k]
  BY <1>1 DEF LimiterInv, LimiterTyped
<1>4. AskedBefore'
  BY <1>1, <1>2, <1>3 DEF LimiterInv, AskedBefore, LimiterTyped
<1>5. PaidFor'
  <2> SUFFICES ASSUME NEW k \in 1..(Len(granted) + 1)
               PROVE  (Len(granted) + 1 - k + 1) * Token + tokens'
                        <= Burst + Rate * (clock - granted'[k])
    BY <1>1, <1>3 DEF PaidFor
  <2>1. CASE k = Len(granted) + 1
    <3>1. Rate * (clock - granted'[k]) = 0
      BY <2>1, <1>3, RateLimiterAssumption DEF LimiterInv, LimiterTyped
    <3>2. (Len(granted) + 1 - k + 1) * Token = Token
      BY <2>1, RateLimiterAssumption DEF LimiterInv, LimiterTyped
    <3> QED
      BY <3>1, <3>2, <1>1, RefilledBounds, RateLimiterAssumption DEF LimiterInv
  <2>2. CASE k \in 1..Len(granted)
    <3> DEFINE owed == (Len(granted) - k + 1) * Token
               paid == Rate * (clock - granted[k])
    <3>1. owed + Limiter!Refilled <= Burst + paid
      BY <2>2, RefilledPaidFor
    <3>2. (Len(granted) + 1 - k + 1) * Token = owed + Token
      <4>1. Len(granted) \in Nat /\ Token \in Nat
        BY RateLimiterAssumption DEF LimiterInv, LimiterTyped
      <4>2. Len(granted) + 1 - k + 1 = (Len(granted) - k + 1) + 1
        BY <4>1
      <4> QED BY <4>1, <4>2, OneMorePaid
    <3>3. owed \in Int /\ paid \in Int /\ Token \in Nat /\ Burst \in Nat
      BY <2>2, RateLimiterAssumption DEF LimiterInv, LimiterTyped
    <3>4. granted'[k] = granted[k]
      BY <2>2, <1>3
    <3>5. Limiter!Refilled \in Nat
      BY RefilledBounds DEF LimiterInv
    <3>6. PICK left \in Nat : left = tokens' /\ left <= Limiter!Refilled - Token
      BY <1>1
    <3> HIDE DEF owed, paid
    <3>7. PICK o \in Int, p \in Int, r \in Nat, u \in Nat :
            o = owed /\ p = Burst + paid /\ r = Limiter!Refilled /\ u = Token
      BY <3>3, <3>5
    <3>8. o + r <= p /\ left <= r - u
      BY <3>1, <3>6, <3>7
    <3>9. o + u + left <= p
      BY <3>6, <3>7, <3>8
    <3> QED BY <3>2, <3>4, <3>6, <3>7, <3>9 DEF paid
  <2> QED BY <2>1, <2>2 DEF LimiterInv, LimiterTyped
<1> QED BY <1>2, <1>4, <1>5 DEF LimiterInv

LEMMA DenyKeeps ==
  ASSUME LimiterInv, Limiter!Deny
  PROVE  LimiterInv'
<1>1. /\ granted' = granted /\ clock' = clock /\ lastFill' = clock
      /\ tokens' \in Nat /\ tokens' <= Limiter!Refilled
  BY RefilledBounds, RateLimiterAssumption DEF Limiter!Deny, Limiter!tokensAsNanos, LimiterInv
<1>2. LimiterTyped' /\ AskedBefore'
  BY <1>1 DEF LimiterInv, LimiterTyped, AskedBefore
<1>3. ASSUME NEW k \in 1..Len(granted)
      PROVE  (Len(granted) - k + 1) * Token + tokens' <= Burst + Rate * (clock - granted[k])
  <2> DEFINE owed == (Len(granted) - k + 1) * Token
             paid == Rate * (clock - granted[k])
  <2>1. owed + Limiter!Refilled <= Burst + paid
    BY RefilledPaidFor
  <2>2. owed \in Int /\ paid \in Int /\ Limiter!Refilled \in Nat /\ Burst \in Nat
    BY RefilledBounds, RateLimiterAssumption DEF LimiterInv, LimiterTyped
  <2>3. PICK left \in Nat : left = tokens' /\ left <= Limiter!Refilled
    BY <1>1
  <2> HIDE DEF owed, paid
  <2>4. PICK o \in Int, p \in Int, r \in Nat : o = owed /\ p = Burst + paid /\ r = Limiter!Refilled
    BY <2>2
  <2>5. o + r <= p /\ left <= r
    BY <2>1, <2>3, <2>4
  <2>6. o + left <= p
    BY <2>3, <2>4, <2>5
  <2> QED BY <2>3, <2>4, <2>6 DEF owed, paid
<1>4. PaidFor'
  BY <1>1, <1>3 DEF PaidFor
<1> QED BY <1>2, <1>4 DEF LimiterInv

LEMMA LimiterTickKeeps ==
  ASSUME LimiterInv, Limiter!Tick
  PROVE  LimiterInv'
  BY DEF LimiterInv, LimiterTyped, AskedBefore, PaidFor, Limiter!Tick

\* Whatever the limiter does is paid for.
LEMMA LimiterKeeps ==
  ASSUME LimiterInv, Limiter!Next
  PROVE  LimiterInv'
BY GrantKeeps, DenyKeeps, LimiterTickKeeps DEF Limiter!Next, Limiter!Allow

\* In every window of time the limiter allows at most what a full bucket and
\* the rate pay for, whatever its rate, its burst and what conversions lose.
THEOREM NeverMoreThanPaidFor == Spec => []WindowBound
<1>1. Init => LimiterInv
  BY RateLimiterAssumption
     DEF Init, Limiter!Init, LimiterInv, LimiterTyped, AskedBefore, PaidFor
<1>2. LimiterInv /\ [Next]_vars => LimiterInv'
  <2>1. LimiterInv /\ UNCHANGED limiterVars => LimiterInv'
    BY DEF limiterVars, LimiterInv, LimiterTyped, AskedBefore, PaidFor
  <2> QED BY <2>1, LimiterKeeps, OnePartMoves
<1>3. LimiterInv => WindowBound
  <2> SUFFICES ASSUME LimiterInv, NEW k \in 1..Len(granted)
               PROVE  (Len(granted) - k + 1) * Token
                        <= Burst + Rate * (clock - granted[k])
    BY DEF WindowBound, Limiter!WindowBound
  <2> DEFINE owed == (Len(granted) - k + 1) * Token
             paid == Rate * (clock - granted[k])
  <2>1. owed + Limiter!Refilled <= Burst + paid
    BY RefilledPaidFor
  <2>2. owed \in Int /\ paid \in Int /\ Limiter!Refilled \in Nat /\ Burst \in Nat
    BY RefilledBounds, RateLimiterAssumption DEF LimiterInv, LimiterTyped
  <2> HIDE DEF owed, paid
  <2>3. owed <= Burst + paid
    BY <2>1, <2>2
  <2> QED BY <2>3 DEF owed, paid
<1> QED BY <1>1, <1>2, <1>3, PTL DEF Spec

----------------------------------------------------------------------------
(* The debouncer.                                                          *)

\* The types.
DebounceTyped ==
  /\ timers \subseteq [call : Nat, left : 0..Interval]
  /\ triggers \in Nat
  /\ starting \subseteq Nat
  /\ ran \subseteq Nat
  /\ sinceFired \in 0..Interval

\* Only the last call's timer runs: Debounce!Trigger stops the one before.
OneTimer == \A t \in timers : t.call = triggers /\ timers = {t}

DebounceInv == DebounceTyped /\ OneTimer /\ LastCallWins

LEMMA TriggerKeeps ==
  ASSUME DebounceInv, Debounce!Trigger
  PROVE  DebounceInv'
<1> DEFINE new == [call |-> triggers + 1, left |-> Interval]
<1>1. timers' = {new}
  BY DEF Debounce!Trigger, Debounce!Stopped, DebounceInv, OneTimer
<1>2. /\ triggers' = triggers + 1
      /\ UNCHANGED <<starting, ran, sinceFired>>
  BY DEF Debounce!Trigger
<1>3. DebounceTyped'
  BY <1>1, <1>2, DebouncerAssumption DEF DebounceInv, DebounceTyped
<1>4. OneTimer' /\ LastCallWins'
  BY <1>1, <1>2, DebouncerAssumption DEF DebounceInv, DebounceTyped, OneTimer, LastCallWins, Debounce!LastCallWins
<1> QED BY <1>3, <1>4 DEF DebounceInv

\* After a timer has fired none is left, and its call is about to run.
LEMMA FireKeeps ==
  ASSUME DebounceInv, NEW t \in timers, Debounce!Fire(t)
  PROVE  DebounceInv'
<1>1. /\ timers' = timers \ {t}
      /\ starting' = starting \cup {triggers}
      /\ sinceFired' = 0
      /\ UNCHANGED <<triggers, ran>>
  BY DEF Debounce!Fire, DebounceInv, OneTimer
<1>2. timers' = {}
  BY <1>1 DEF DebounceInv, OneTimer
<1>3. DebounceTyped'
  BY <1>1, <1>2, DebouncerAssumption DEF DebounceInv, DebounceTyped
<1> QED BY <1>1, <1>2, <1>3 DEF DebounceInv, OneTimer, LastCallWins, Debounce!LastCallWins

LEMMA RunKeeps ==
  ASSUME DebounceInv, NEW call \in starting, Debounce!Run(call)
  PROVE  DebounceInv'
  BY DEF Debounce!Run, DebounceInv, DebounceTyped, OneTimer, LastCallWins, Debounce!LastCallWins

\* What a timer has less to go, the time since the last firing has more.
LEMMA DebounceTickKeeps ==
  ASSUME DebounceInv, Debounce!Tick
  PROVE  DebounceInv'
<1> DEFINE ticked(t) == [t EXCEPT !.left = IF @ > 0 THEN @ - 1 ELSE 0]
<1>1. /\ timers' = {ticked(t) : t \in timers}
      /\ sinceFired' = IF sinceFired < Interval THEN sinceFired + 1 ELSE Interval
      /\ UNCHANGED <<triggers, starting, ran>>
  BY DEF Debounce!Tick
<1>2. ASSUME NEW t \in timers
      PROVE  /\ ticked(t) \in [call : Nat, left : 0..Interval]
             /\ ticked(t).call = t.call
             /\ ticked(t).left + sinceFired' >= Interval
  <2>1. t \in [call : Nat, left : 0..Interval] /\ sinceFired \in 0..Interval
    BY DEF DebounceInv, DebounceTyped
  <2>2. t.left + sinceFired >= Interval
    BY DEF DebounceInv, LastCallWins, Debounce!LastCallWins
  <2>3. /\ ticked(t).call = t.call
        /\ ticked(t).left = IF t.left > 0 THEN t.left - 1 ELSE 0
        /\ ticked(t) \in [call : Nat, left : 0..Interval]
    BY <2>1, DebouncerAssumption
  <2> QED BY <2>1, <2>2, <2>3, <1>1, DebouncerAssumption
<1> HIDE DEF ticked
<1>3. DebounceTyped'
  BY <1>1, <1>2, DebouncerAssumption DEF DebounceInv, DebounceTyped
<1>4. OneTimer'
  BY <1>1, <1>2 DEF DebounceInv, OneTimer
<1>5. LastCallWins'
  BY <1>1, <1>2 DEF DebounceInv, LastCallWins, Debounce!LastCallWins
<1> QED BY <1>3, <1>4, <1>5 DEF DebounceInv

\* The debouncer keeps its interval, and runs fn for the last call or still
\* means to, for every interval and however late timers fire.
THEOREM LastCallIsKept == Spec => []LastCallWins
<1> USE DEF DebounceInv, DebounceTyped, OneTimer, LastCallWins, Debounce!LastCallWins
<1>1. Init => DebounceInv
  BY DebouncerAssumption DEF Init, Debounce!Init
<1>2. DebounceInv /\ UNCHANGED debouncerVars => DebounceInv'
  BY DEF debouncerVars
<1> HIDE DEF DebounceInv, DebounceTyped, OneTimer, LastCallWins
<1>3. DebounceInv /\ Debounce!Next => DebounceInv'
  BY TriggerKeeps, FireKeeps, RunKeeps, DebounceTickKeeps DEF Debounce!Next
<1>4. DebounceInv /\ [Next]_vars => DebounceInv'
  BY <1>2, <1>3, OnePartMoves
<1>5. DebounceInv => LastCallWins
  BY DEF DebounceInv
<1> QED BY <1>1, <1>4, <1>5, PTL DEF Spec

----------------------------------------------------------------------------
(* The server.                                                             *)

\* Once the shutdown has begun nothing is accepted any more.
Closed == main \in {"draining", "returned"} => serve # "serving"

\* What has been returned stays, and what was drained stays so.
Final == result # "none" => main = "returned"

ServerInv == Closed /\ Final /\ NilMeansDrained

\* No step of a server breaks its promise.
LEMMA ServerKeeps ==
  ASSUME ServerInv, Server!Next
  PROVE  ServerInv'
<1> USE DEF ServerInv, Closed, Final, NilMeansDrained, Server!NilMeansDrained
<1>1. CASE Server!Interrupt
  BY <1>1 DEF Server!Interrupt
<1>2. CASE Server!Terminate
  BY <1>2 DEF Server!Terminate
<1>3. CASE Server!Listen
  BY <1>3 DEF Server!Listen, Server!Alive
<1>4. CASE Server!ServeFails
  BY <1>4 DEF Server!ServeFails
<1>5. CASE Server!SendError
  BY <1>5 DEF Server!SendError
<1>6. ASSUME NEW r \in Requests, Server!Accept(r) PROVE ServerInv'
  BY <1>6 DEF Server!Accept
<1>7. ASSUME NEW r \in Requests, Server!Finish(r) PROVE ServerInv'
  BY <1>7 DEF Server!Finish
<1>8. CASE Server!StartShutdown
  BY <1>8 DEF Server!StartShutdown
<1>9. CASE Server!Drained
  BY <1>9, Zenon DEF Server!Drained
<1>10. CASE Server!TimedOut
  BY <1>10, Zenon DEF Server!TimedOut
<1> QED
  BY <1>1, <1>2, <1>3, <1>4, <1>5, <1>6, <1>7, <1>8, <1>9, <1>10 DEF Server!Next

\* When RunGracefulServer returns nil, no request is in progress and none can
\* come any more: Shutdown has closed the listener before it waits.
THEOREM NilIsDrained == Spec => []NilMeansDrained
<1>1. Init => ServerInv
  BY DEF Init, Server!Init, ServerInv, Closed, Final, NilMeansDrained,
         Server!NilMeansDrained
<1>2. ServerInv /\ UNCHANGED serverVars => ServerInv'
  BY DEF serverVars, ServerInv, Closed, Final, NilMeansDrained, Server!NilMeansDrained
<1>3. ServerInv /\ [Next]_vars => ServerInv'
  BY <1>2, ServerKeeps, OnePartMoves
<1>4. ServerInv => NilMeansDrained
  BY DEF ServerInv
<1> QED BY <1>1, <1>3, <1>4, PTL DEF Spec

----------------------------------------------------------------------------
(* The semaphore.                                                          *)

\* Those that hold a slot.
Holders == {c \in Callers : caller[c] = "holding"}

SlotsTyped ==
  /\ capacity \in Nat
  /\ taken \in Nat
  /\ queue \in Seq(Callers)
  /\ caller \in [Callers -> {"out", "holding", "waiting", "waitingCtx"}]
  /\ IsFiniteSet(Holders)

\* In the queue are goroutines that wait, each once.
Queued ==
  /\ \A n \in 1..Len(queue) : caller[queue[n]] \in {"waiting", "waitingCtx"}
  /\ \A m, n \in 1..Len(queue) : queue[m] = queue[n] => m = n

SlotsInv == SlotsTyped /\ Queued /\ SlotsAreHeld

\* One element more, one less, one for another.
LEMMA OneMoreElement ==
  ASSUME NEW S, IsFiniteSet(S), NEW x, x \notin S
  PROVE  IsFiniteSet(S \cup {x}) /\ Cardinality(S \cup {x}) = Cardinality(S) + 1
BY FS_AddElement

LEMMA OneElementLess ==
  ASSUME NEW S, IsFiniteSet(S), NEW x, x \in S
  PROVE  IsFiniteSet(S \ {x}) /\ Cardinality(S \ {x}) = Cardinality(S) - 1
BY FS_RemoveElement

\* The number of elements that Semaphore speaks of is the library's.
LEMMA SameCardinality ==
  ASSUME NEW S
  PROVE  Slots!Cardinality(S) = Cardinality(S)
BY Zenon DEF Slots!Cardinality, Cardinality

\* A goroutine takes a free slot.
LEMMA TakeKeeps ==
  ASSUME SlotsInv, NEW c \in Callers, Slots!Take(c)
  PROVE  SlotsInv'
<1>1. Holders' = Holders \cup {c} /\ c \notin Holders /\ IsFiniteSet(Holders)
  BY DEF Holders, SlotsInv, SlotsTyped, Slots!Take
<1>2. IsFiniteSet(Holders') /\ Cardinality(Holders') = Cardinality(Holders) + 1
  BY <1>1, OneMoreElement, Zenon
<1>3. SlotsTyped'
  BY <1>2 DEF SlotsInv, SlotsTyped, Slots!Take
<1>4. Queued'
  BY DEF SlotsInv, SlotsTyped, Queued, Slots!Take
<1>5. taken = Cardinality(Holders)
  BY SameCardinality, Zenon DEF SlotsInv, SlotsAreHeld, Slots!SlotsAreHeld, Holders
<1>6. taken' = taken + 1 /\ taken < capacity /\ capacity' = capacity /\ queue' = queue
  BY DEF Slots!Take
<1>7. queue = <<>> /\ taken + 1 <= capacity
  BY <1>6 DEF SlotsInv, SlotsTyped, SlotsAreHeld, Slots!SlotsAreHeld
<1>8. taken' = Cardinality(Holders')
  BY <1>2, <1>5, <1>6, Zenon
<1>9. SlotsAreHeld'
  BY <1>6, <1>7, <1>8, SameCardinality DEF SlotsAreHeld, Slots!SlotsAreHeld, Holders
<1> QED BY <1>3, <1>4, <1>9 DEF SlotsInv

\* A goroutine queues up behind a full semaphore.
LEMMA WaitKeeps ==
  ASSUME SlotsInv, NEW c \in Callers, NEW where \in {"waiting", "waitingCtx"},
         Slots!Wait(c, where)
  PROVE  SlotsInv'
<1>1. Holders' = Holders /\ IsFiniteSet(Holders)
  BY DEF Holders, SlotsInv, SlotsTyped, Slots!Wait
<1>2. SlotsTyped'
  BY <1>1 DEF SlotsInv, SlotsTyped, Slots!Wait
<1>3. Queued'
  BY DEF SlotsInv, SlotsTyped, Queued, Slots!Wait
<1>4. taken = Cardinality(Holders)
  BY SameCardinality, Zenon DEF SlotsInv, SlotsAreHeld, Slots!SlotsAreHeld, Holders
<1>5. taken' = taken /\ capacity' = capacity /\ taken = capacity
  BY DEF Slots!Wait, SlotsInv, SlotsTyped, SlotsAreHeld, Slots!SlotsAreHeld
<1>6. taken' = Cardinality(Holders')
  BY <1>1, <1>4, <1>5, Zenon
<1>7. SlotsAreHeld'
  BY <1>5, <1>6, SameCardinality DEF SlotsAreHeld, Slots!SlotsAreHeld, Holders, SlotsInv, SlotsTyped
<1> QED BY <1>2, <1>3, <1>7 DEF SlotsInv

\* The one at place n leaves the queue.
LEMMA LeaverKeepsQueue ==
  ASSUME SlotsInv, NEW n \in 1..Len(queue),
         queue' = Slots!RemoveAt(queue, n),
         \A m \in 1..Len(queue) : m # n => caller'[queue[m]] = caller[queue[m]]
  PROVE  queue' \in Seq(Callers) /\ Queued'
<1>1. /\ queue' \in Seq(Callers)
      /\ Len(queue') = Len(queue) - 1
      /\ \A m \in 1..Len(queue) - 1 : queue'[m] = IF m < n THEN queue[m] ELSE queue[m + 1]
  BY RemoveAtLeaves, Zenon DEF SlotsInv, SlotsTyped, Slots!RemoveAt, RemoveAt
<1>2. Len(queue) \in Nat
  BY DEF SlotsInv, SlotsTyped
<1> DEFINE old(m) == IF m < n THEN m ELSE m + 1
<1>3. /\ Len(queue') \in Nat
      /\ \A m \in 1..Len(queue') :
           /\ queue'[m] = queue[old(m)]
           /\ old(m) \in 1..Len(queue) /\ old(m) # n
  BY <1>1, <1>2
<1>4. \A k, m \in 1..Len(queue') : old(k) = old(m) => k = m
  BY <1>2, <1>1
<1>5. \A m \in 1..Len(queue) : caller[queue[m]] \in {"waiting", "waitingCtx"}
  BY DEF SlotsInv, Queued
<1>6. \A k, m \in 1..Len(queue) : queue[k] = queue[m] => k = m
  BY DEF SlotsInv, Queued
<1> HIDE DEF old
<1>7. \A m \in 1..Len(queue') : caller'[queue'[m]] \in {"waiting", "waitingCtx"}
  BY <1>3, <1>5
<1>8. \A k, m \in 1..Len(queue') : queue'[k] = queue'[m] => k = m
  <2> SUFFICES ASSUME NEW k \in 1..Len(queue'), NEW m \in 1..Len(queue'), queue'[k] = queue'[m]
               PROVE  k = m
    OBVIOUS
  <2>1. queue[old(k)] = queue[old(m)] /\ old(k) \in 1..Len(queue) /\ old(m) \in 1..Len(queue)
    BY <1>3
  <2>2. old(k) = old(m)
    BY <1>6, <2>1, Zenon
  <2> QED BY <1>4, <2>2, Zenon
<1> QED BY <1>1, <1>7, <1>8 DEF Queued

\* A send that is given up leaves the others and the slots as they are.
LEMMA ContextDoneKeeps ==
  ASSUME SlotsInv, NEW c \in Callers, Slots!ContextDone(c)
  PROVE  SlotsInv'
<1>1. PICK n \in 1..Len(queue) : queue[n] = c /\ queue' = Slots!RemoveAt(queue, n)
  BY DEF Slots!ContextDone
<1>2. caller' = [caller EXCEPT ![c] = "out"] /\ caller[c] = "waitingCtx"
  BY DEF Slots!ContextDone
<1>3. \A m \in 1..Len(queue) : m # n => caller'[queue[m]] = caller[queue[m]]
  BY <1>1, <1>2 DEF SlotsInv, SlotsTyped, Queued
<1>4. queue' \in Seq(Callers) /\ Queued'
  BY <1>1, <1>3, LeaverKeepsQueue
<1>5. Holders' = Holders /\ IsFiniteSet(Holders)
  BY <1>2 DEF Holders, SlotsInv, SlotsTyped
<1>6. SlotsTyped'
  BY <1>2, <1>4, <1>5 DEF SlotsInv, SlotsTyped, Slots!ContextDone
<1>7. taken = Cardinality(Holders)
  BY SameCardinality, Zenon DEF SlotsInv, SlotsAreHeld, Slots!SlotsAreHeld, Holders
<1>8. taken' = taken /\ capacity' = capacity /\ taken = capacity
  BY <1>1 DEF Slots!ContextDone, SlotsInv, SlotsTyped, SlotsAreHeld, Slots!SlotsAreHeld
<1>9. taken' = Cardinality(Holders')
  BY <1>5, <1>7, <1>8, Zenon
<1>10. SlotsAreHeld'
  BY <1>8, <1>9, SameCardinality DEF SlotsAreHeld, Slots!SlotsAreHeld, Holders, SlotsInv, SlotsTyped
<1> QED BY <1>4, <1>6, <1>10 DEF SlotsInv

\* A slot that nobody waits for becomes free, one that is waited for changes
\* hands.
LEMMA ReleaseKeeps ==
  ASSUME SlotsInv, NEW c \in Callers, Slots!Release(c)
  PROVE  SlotsInv'
<1>1. c \in Holders /\ IsFiniteSet(Holders)
  BY DEF Slots!Release, Holders, SlotsInv, SlotsTyped
<1>2. IsFiniteSet(Holders \ {c}) /\ Cardinality(Holders \ {c}) = Cardinality(Holders) - 1
  BY <1>1, OneElementLess, Zenon
<1>3. taken = Cardinality(Holders)
  BY SameCardinality, Zenon DEF SlotsInv, SlotsAreHeld, Slots!SlotsAreHeld, Holders
<1>4. CASE queue = <<>>
  <2>1. /\ taken' = taken - 1 /\ queue' = queue /\ capacity' = capacity
        /\ caller' = [caller EXCEPT ![c] = "out"]
    BY <1>4 DEF Slots!Release
  <2>2. Holders' = Holders \ {c}
    BY <2>1, <1>1 DEF Holders, SlotsInv, SlotsTyped
  <2>3. taken' = Cardinality(Holders') /\ IsFiniteSet(Holders')
    BY <2>1, <2>2, <1>2, <1>3, Zenon
  <2>4. Cardinality(Holders') \in Nat
    BY <2>3, FS_CardinalityType, Zenon
  <2>5. SlotsTyped'
    BY <2>1, <2>3, <2>4 DEF SlotsInv, SlotsTyped
  <2>6. Queued'
    BY <1>4, <2>1 DEF Queued
  <2>7. SlotsAreHeld'
    BY <1>4, <2>1, <2>3, SameCardinality DEF SlotsAreHeld, Slots!SlotsAreHeld, Holders, SlotsInv, SlotsTyped
  <2> QED BY <2>5, <2>6, <2>7 DEF SlotsInv
<1>5. CASE queue # <<>>
  <2> DEFINE d == queue[1]
  <2>1. /\ taken' = taken /\ queue' = Tail(queue) /\ capacity' = capacity
        /\ caller' = [caller EXCEPT ![c] = "out", ![Head(queue)] = "holding"]
    BY <1>5 DEF Slots!Release
  <2>2. /\ queue \in Seq(Callers) /\ Len(queue) \in Nat \ {0} /\ Head(queue) = d
    BY <1>5 DEF SlotsInv, SlotsTyped
  <2>3. d \in Callers /\ d \notin Holders /\ d # c
    BY <2>2, <1>1 DEF SlotsInv, Queued, Holders
  <2>4. /\ queue' = Slots!RemoveAt(queue, 1)
    BY <2>1, <2>2, TailIsSubSeq, RemoveAtLeaves, HeadTailProperties DEF Slots!RemoveAt
  <2>5. \A m \in 1..Len(queue) : m # 1 => caller'[queue[m]] = caller[queue[m]]
    BY <2>1, <2>2, <1>1 DEF SlotsInv, SlotsTyped, Queued, Holders
  <2>6. queue' \in Seq(Callers) /\ Queued'
    BY <2>2, <2>4, <2>5, LeaverKeepsQueue
  <2>7. Holders' = (Holders \ {c}) \cup {d} /\ d \notin Holders \ {c}
    BY <2>1, <2>2, <2>3, <1>1 DEF Holders, SlotsInv, SlotsTyped
  <2>8. /\ IsFiniteSet((Holders \ {c}) \cup {d})
        /\ Cardinality((Holders \ {c}) \cup {d}) = Cardinality(Holders \ {c}) + 1
    <3> HIDE DEF d
    <3> QED BY <2>7, <1>2, OneMoreElement, Zenon
  <2>9. IsFiniteSet(Holders')
    BY <2>7, <2>8, Zenon
  <2>10. Cardinality(Holders') = (taken - 1) + 1
    BY <2>7, <2>8, <1>2, <1>3, Zenon
  <2>11. taken' = Cardinality(Holders')
    <3> DEFINE h == Cardinality(Holders')
    <3>1. h = (taken - 1) + 1
      BY <2>10
    <3> HIDE DEF h
    <3>2. taken' = h
      BY <3>1, <2>1 DEF SlotsInv, SlotsTyped
    <3> QED BY <3>2 DEF h
  <2>12. SlotsTyped'
    BY <2>1, <2>2, <2>3, <2>6, <2>9 DEF SlotsInv, SlotsTyped
  <2>13. SlotsAreHeld'
    BY <1>5, <2>1, <2>11, SameCardinality DEF SlotsAreHeld, Slots!SlotsAreHeld, Holders, SlotsInv, SlotsTyped
  <2> QED BY <2>6, <2>12, <2>13 DEF SlotsInv
<1> QED BY <1>4, <1>5

\* No slot is lost or given twice, however calls are given up and slots are
\* handed on.
THEOREM SlotsStayHeld == Spec => []SlotsAreHeld
<1>1. Init => SlotsInv
  <2> SUFFICES ASSUME Init PROVE SlotsInv
    OBVIOUS
  <2>1. /\ capacity \in Nat /\ taken = 0 /\ queue = <<>>
        /\ caller = [c \in Callers |-> "out"]
    BY PracticeAssumption DEF Init, Slots!Init
  <2>2. Holders = {}
    BY <2>1 DEF Holders
  <2>3. IsFiniteSet(Holders) /\ Cardinality(Holders) = 0
    BY <2>2, FS_EmptySet, Zenon
  <2>4. SlotsTyped /\ Queued
    BY <2>1, <2>3 DEF SlotsTyped, Queued
  <2>5. SlotsAreHeld
    BY <2>1, <2>3, SameCardinality DEF SlotsAreHeld, Slots!SlotsAreHeld, Holders
  <2> QED BY <2>4, <2>5 DEF SlotsInv
<1>2. SlotsInv /\ UNCHANGED slotVars => SlotsInv'
  BY DEF slotVars, SlotsInv, SlotsTyped, Queued, SlotsAreHeld, Slots!SlotsAreHeld, Holders
<1>3. SlotsInv /\ Slots!Next => SlotsInv'
  <2> SUFFICES ASSUME SlotsInv, NEW c \in Callers,
                      \/ Slots!Acquire(c) \/ Slots!AcquireCtx(c)
                      \/ Slots!ContextDone(c) \/ Slots!Release(c)
               PROVE  SlotsInv'
    BY DEF Slots!Next
  <2>1. CASE Slots!Take(c)
    BY <2>1, TakeKeeps
  <2>2. CASE \E where \in {"waiting", "waitingCtx"} : Slots!Wait(c, where)
    BY <2>2, WaitKeeps
  <2>3. CASE Slots!Refused(c)
    BY <2>3, <1>2 DEF Slots!Refused, Slots!vars, slotVars
  <2> QED
    BY <2>1, <2>2, <2>3, ContextDoneKeeps, ReleaseKeeps
    DEF Slots!Acquire, Slots!AcquireCtx
<1> HIDE DEF SlotsInv
<1>4. SlotsInv /\ [Next]_vars => SlotsInv'
  BY <1>2, <1>3, OnePartMoves
<1>5. SlotsInv => SlotsAreHeld
  BY DEF SlotsInv
<1> QED BY <1>1, <1>4, <1>5, PTL DEF Spec

----------------------------------------------------------------------------
(* The fan-out.                                                            *)

\* The workers that have an input, and have not given its result away.
Busy == {w \in Workers : at[w] \in {"apply", "send"}}

FanTyped ==
  /\ next \in 1..InputCount + 1
  /\ at \in [Workers -> {"receive", "apply", "send", "done"}]
  /\ item \in [Workers -> Nat]
  /\ out \in Seq(1..InputCount)

\* Inputs before the next are each at one worker or in the output, once.
InputsOnce ==
  /\ \A w \in Busy : item[w] \in 1..next - 1
  /\ \A n \in 1..Len(out) : out[n] < next
  /\ \A v, w \in Busy : item[v] = item[w] => v = w
  /\ \A m, n \in 1..Len(out) : out[m] = out[n] => m = n
  /\ \A w \in Busy, n \in 1..Len(out) : out[n] # item[w]

\* None of them is missing.
NoneMissing ==
  \A j \in 1..next - 1 : \/ \E w \in Busy : item[w] = j
                         \/ \E n \in 1..Len(out) : out[n] = j

\* Workers are done when the input is, and the output closes after them.
DoneLast ==
  /\ \A w \in Workers : at[w] = "done" => next = InputCount + 1
  /\ closed => \A w \in Workers : at[w] = "done"

FanInv == FanTyped /\ InputsOnce /\ NoneMissing /\ DoneLast

\* A worker takes the next input.
LEMMA FanTakeKeeps ==
  ASSUME FanInv, NEW w \in Workers, Transfer!Fan!Take(w)
  PROVE  FanInv'
<1> USE PracticeAssumption
<1>1. FanTyped'
  BY DEF FanInv, FanTyped, Transfer!Fan!Take
<1>2. /\ Busy' = Busy \cup {w} /\ w \notin Busy
      /\ item'[w] = next /\ next' = next + 1 /\ out' = out
      /\ \A v \in Workers : v # w => item'[v] = item[v]
      /\ next \in Nat \ {0}
  BY DEF FanInv, FanTyped, Transfer!Fan!Take, Busy
<1>3. /\ \A v \in Busy : item[v] \in 1..next - 1 /\ v \in Workers
      /\ Len(out) \in Nat
      /\ \A n \in 1..Len(out) : out[n] < next /\ out[n] \in Nat
  BY DEF FanInv, FanTyped, InputsOnce, Busy
<1>4. InputsOnce'
  <2>1. \A v \in Busy' : item'[v] = IF v = w THEN next ELSE item[v]
    BY <1>2, <1>3
  <2>2. \A v \in Busy' : item'[v] \in 1..next' - 1
    BY <1>2, <1>3, <2>1
  <2>3. \A v \in Busy' : v = w \/ (v \in Busy /\ item[v] \in 1..next - 1)
    BY <1>2, <1>3
  <2>4. \A u, v \in Busy' : item'[u] = item'[v] => u = v
    BY <1>2, <2>1, <2>3 DEF FanInv, InputsOnce
  <2>5. \A v \in Busy', n \in 1..Len(out') : out'[n] # item'[v]
    BY <1>2, <1>3, <2>1, <2>3 DEF FanInv, InputsOnce
  <2>6. \A n \in 1..Len(out') : out'[n] < next'
    BY <1>2, <1>3
  <2>7. \A m, n \in 1..Len(out') : out'[m] = out'[n] => m = n
    BY <1>2 DEF FanInv, InputsOnce
  <2> QED BY <2>2, <2>4, <2>5, <2>6, <2>7 DEF InputsOnce
<1>5. NoneMissing'
  <2> SUFFICES ASSUME NEW j \in 1..next' - 1
               PROVE  \/ \E v \in Busy' : item'[v] = j
                      \/ \E n \in 1..Len(out') : out'[n] = j
    BY DEF NoneMissing
  <2>1. j = next \/ j \in 1..next - 1
    BY <1>2
  <2>2. CASE j = next
    BY <1>2, <2>2
  <2>3. CASE \E v \in Busy : item[v] = j
    BY <1>2, <1>3, <2>3
  <2>4. CASE \E n \in 1..Len(out) : out[n] = j
    BY <1>2, <2>4
  <2> QED BY <2>1, <2>2, <2>3, <2>4 DEF FanInv, NoneMissing
<1>6. DoneLast'
  BY DEF FanInv, FanTyped, DoneLast, Transfer!Fan!Take
<1> QED BY <1>1, <1>4, <1>5, <1>6 DEF FanInv

\* It applies the function.
LEMMA FanApplyKeeps ==
  ASSUME FanInv, NEW w \in Workers, Transfer!Fan!Apply(w)
  PROVE  FanInv'
<1>1. FanTyped' /\ DoneLast'
  BY DEF FanInv, FanTyped, DoneLast, Transfer!Fan!Apply
<1>2. Busy' = Busy /\ item' = item /\ next' = next /\ out' = out
  BY DEF FanInv, FanTyped, Transfer!Fan!Apply, Busy
<1>3. InputsOnce' /\ NoneMissing'
  BY <1>2 DEF FanInv, InputsOnce, NoneMissing
<1> QED BY <1>1, <1>3 DEF FanInv

\* The result goes from the worker to the consumer.
LEMMA FanSendKeeps ==
  ASSUME FanInv, NEW w \in Workers, Transfer!Fan!Send(w)
  PROVE  FanInv'
<1> USE PracticeAssumption
<1>1. /\ w \in Busy /\ Busy' = Busy \ {w}
      /\ next' = next /\ out' = Append(out, item[w])
      /\ \A v \in Workers : v # w => item'[v] = item[v]
      /\ next \in 1..InputCount + 1 /\ out \in Seq(1..InputCount)
  BY DEF FanInv, FanTyped, Transfer!Fan!Send, Transfer!Fan!Collect, Busy
<1>2. item[w] \in 1..next - 1 /\ item[w] \in 1..InputCount
  BY <1>1 DEF FanInv, InputsOnce
<1>3. /\ out' \in Seq(1..InputCount) /\ Len(out) \in Nat
      /\ Len(out') = Len(out) + 1 /\ out'[Len(out) + 1] = item[w]
      /\ \A n \in 1..Len(out) : out'[n] = out[n]
  BY <1>1, <1>2
<1>4. FanTyped'
  BY <1>3 DEF FanInv, FanTyped, Transfer!Fan!Send
<1>5. \A v \in Busy' : v \in Busy /\ v \in Workers /\ v # w /\ item'[v] = item[v]
  BY <1>1 DEF Busy
<1>6. InputsOnce'
  <2> DEFINE l == Len(out)
  <2>1. \A n \in 1..Len(out') : n = l + 1 \/ n \in 1..l
    BY <1>3
  <2>2. \A v \in Busy' : item'[v] \in 1..next' - 1
    BY <1>1, <1>5 DEF FanInv, InputsOnce
  <2>3. \A n \in 1..Len(out') : out'[n] < next'
    BY <1>1, <1>2, <1>3, <2>1 DEF FanInv, InputsOnce
  <2>4. \A u, v \in Busy' : item'[u] = item'[v] => u = v
    BY <1>5 DEF FanInv, InputsOnce
  <2>5. \A n \in 1..l : out[n] # item[w]
    BY <1>1 DEF FanInv, InputsOnce
  <2>6. \A m, n \in 1..Len(out') : out'[m] = out'[n] => m = n
    BY <1>3, <2>1, <2>5, Zenon DEF FanInv, InputsOnce
  <2>7. \A v \in Busy' : item'[v] # item[w]
    BY <1>1, <1>5 DEF FanInv, InputsOnce
  <2>8. \A v \in Busy', n \in 1..l : out[n] # item'[v]
    BY <1>5 DEF FanInv, InputsOnce
  <2>9. \A v \in Busy', n \in 1..Len(out') : out'[n] # item'[v]
    BY <1>3, <2>1, <2>7, <2>8, Zenon
  <2> QED BY <2>2, <2>3, <2>4, <2>6, <2>9 DEF InputsOnce
<1>7. ASSUME NEW j \in 1..next - 1
      PROVE  \/ \E v \in Busy' : item'[v] = j
             \/ \E n \in 1..Len(out') : out'[n] = j
  <2>1. CASE j = item[w]
    BY <1>3, <2>1
  <2>2. CASE \E v \in Busy : v # w /\ item[v] = j
    BY <1>1, <2>2 DEF Busy
  <2>3. CASE \E n \in 1..Len(out) : out[n] = j
    BY <1>3, <2>3
  <2> QED BY <2>1, <2>2, <2>3 DEF FanInv, NoneMissing
<1>8. NoneMissing'
  BY <1>1, <1>7, Zenon DEF NoneMissing
<1>9. DoneLast'
  BY DEF FanInv, FanTyped, DoneLast, Transfer!Fan!Send
<1> QED BY <1>4, <1>6, <1>8, <1>9 DEF FanInv

\* A worker that is done, and the closing of the output.
LEMMA FanEndKeeps ==
  ASSUME FanInv,
         \/ \E w \in Workers : Transfer!Fan!Done(w)
         \/ Transfer!Fan!CloseOut \/ Transfer!Fan!StopReading
  PROVE  FanInv'
<1>1. FanTyped'
  BY Zenon DEF FanInv, FanTyped, Transfer!Fan!Done, Transfer!Fan!CloseOut, Transfer!Fan!StopReading
<1>2. Busy' = Busy /\ item' = item /\ next' = next /\ out' = out
  BY DEF FanInv, FanTyped, Busy, Transfer!Fan!Done, Transfer!Fan!CloseOut, Transfer!Fan!StopReading
<1>3. InputsOnce' /\ NoneMissing'
  BY <1>2 DEF FanInv, InputsOnce, NoneMissing
<1>4. DoneLast'
  BY PracticeAssumption
  DEF FanInv, FanTyped, DoneLast, Transfer!Fan!Done, Transfer!Fan!CloseOut, Transfer!Fan!StopReading
<1> QED BY <1>1, <1>3, <1>4 DEF FanInv

\* A sequence without repetitions is as long as it has elements.
LEMMA LengthOfDistinct ==
  ASSUME NEW S, NEW s \in Seq(S), \A m, n \in 1..Len(s) : s[m] = s[n] => m = n,
         NEW k \in Nat, {s[n] : n \in 1..Len(s)} = 1..k
  PROVE  Len(s) = k
<1>1. Len(s) \in Nat
  OBVIOUS
<1>2. s \in Bijection(1..Len(s), 1..k)
  <2>1. s = [n \in 1..Len(s) |-> s[n]]
    OBVIOUS
  <2>2. s \in [1..Len(s) -> 1..k]
    BY <2>1
  <2> QED BY <2>2 DEF Bijection, Injection, Surjection, IsInjective
<1>3. IsFiniteSet(1..Len(s)) /\ Cardinality(1..Len(s)) = Len(s)
  <2> DEFINE l == Len(s)
  <2>1. l \in Nat
    BY <1>1
  <2> HIDE DEF l
  <2>2. IsFiniteSet(1..l) /\ Cardinality(1..l) = l
    BY <2>1, FS_Interval
  <2> QED BY <2>2 DEF l
<1>4. Cardinality(1..k) = k
  BY FS_Interval
<1>5. ExistsBijection(1..Len(s), 1..k)
  BY <1>2 DEF ExistsBijection
<1>6. Cardinality(1..k) = Cardinality(1..Len(s))
  BY <1>3, <1>5, FS_Bijection, Zenon
<1> QED BY <1>3, <1>4, <1>6, Zenon

\* When the output closes it is complete.
LEMMA FanInvCloses == ASSUME FanInv PROVE ClosedIsComplete
<1> USE PracticeAssumption
<1> SUFFICES ASSUME closed
             PROVE  /\ Transfer!Fan!ToSet(out) = 1..InputCount
                    /\ Len(out) = InputCount
                    /\ \A w \in Workers : at[w] = "done"
  BY DEF ClosedIsComplete, Transfer!ClosedIsComplete, Transfer!Fan!ClosedIsComplete
<1>1. \A w \in Workers : at[w] = "done"
  BY DEF FanInv, DoneLast
<1>2. next = InputCount + 1 /\ Busy = {}
  BY <1>1 DEF FanInv, DoneLast, Busy
<1>3. out \in Seq(1..InputCount) /\ InputCount \in Nat
  BY DEF FanInv, FanTyped
<1>4. \A j \in 1..InputCount : \E n \in 1..Len(out) : out[n] = j
  <2>1. next - 1 = InputCount
    BY <1>2, <1>3
  <2> QED BY <1>2, <2>1 DEF FanInv, NoneMissing
<1>5. {out[n] : n \in 1..Len(out)} = 1..InputCount
  <2>1. \A n \in 1..Len(out) : out[n] \in 1..InputCount
    BY <1>3
  <2> QED BY <1>4, <2>1
<1>6. Transfer!Fan!ToSet(out) = 1..InputCount
  BY <1>3, <1>5 DEF Transfer!Fan!ToSet
<1>7. Len(out) = InputCount
  BY <1>3, <1>5, LengthOfDistinct DEF FanInv, InputsOnce
<1> QED BY <1>1, <1>6, <1>7

\* The invariant holds at the start, and of any step.
LEMMA FanInit == Init => FanInv
<1> SUFFICES ASSUME Init PROVE FanInv
  OBVIOUS
<1>1. /\ next = 1 /\ at = [w \in Workers |-> "receive"]
      /\ item = [w \in Workers |-> 0] /\ out = <<>> /\ closed = FALSE
  BY DEF Init, Transfer!Init, Transfer!Fan!Init
<1>2. Busy = {}
  BY <1>1 DEF Busy
<1> QED
  BY <1>1, <1>2, PracticeAssumption DEF FanInv, FanTyped, InputsOnce, NoneMissing, DoneLast

LEMMA FanNext == FanInv /\ [Next]_vars => FanInv'
<1> SUFFICES ASSUME FanInv, [Next]_vars PROVE FanInv'
  OBVIOUS
<1>1. CASE UNCHANGED transferVars
  BY <1>1 DEF transferVars, FanInv, FanTyped, InputsOnce, NoneMissing, DoneLast, Busy
<1>2. CASE Transfer!Next
  BY <1>2, FanTakeKeeps, FanApplyKeeps, FanSendKeeps, FanEndKeeps
  DEF Transfer!Next, Transfer!Step, Transfer!Move, Transfer!Execute, Transfer!Stop
<1> QED BY <1>1, <1>2, OnePartMoves

\* The output of a fan-out closes complete, whoever was quicker, and nobody
\* sends on it any more.
THEOREM ClosesComplete == Spec => []ClosedIsComplete
<1>1. FanInv => ClosedIsComplete
  BY FanInvCloses
<1> QED BY <1>1, FanInit, FanNext, PTL DEF Spec

----------------------------------------------------------------------------
(* The transfers.                                                          *)

Outcomes == {"transferred", "deposited"}

TransfersTyped ==
  /\ batch \in [1..InputCount -> Transfer!Request]
  /\ results \in [Txns -> Outcomes \cup {"none"}]
  /\ answer \in [1..InputCount -> Outcomes \cup {"none", "insufficient"}]
  /\ executed \in Seq(1..InputCount)

\* The id of the n-th of the requests e of batch b.
IdOf(b, e, n) == b[e[n]].txn

\* Whatever took effect left a result under its id, so no other did.
Recorded ==
  /\ \A n \in 1..Len(executed) : results[IdOf(batch, executed, n)] # "none"
  /\ \A m, n \in 1..Len(executed) : m # n => IdOf(batch, executed, m) # IdOf(batch, executed, n)

\* Who was told of a success was told what is kept.
ToldAsKept ==
  \A j \in 1..InputCount :
    answer[j] \in Outcomes => answer[j] = results[batch[j].txn]

TransfersInv == TransfersTyped /\ Recorded /\ ToldAsKept

\* What the execution of request j under id x does to the results: nothing,
\* or it leaves the first.
Executes(j, x) ==
  /\ batch' = batch
  /\ answer' = [answer EXCEPT ![j] = answered']
  /\ \/ /\ results' = results
        /\ executed' = executed
        /\ answered' \in {results[x], "insufficient"}
     \/ /\ results[x] = "none"
        /\ answered' \in Outcomes
        /\ results' = [results EXCEPT ![x] = answered']
        /\ executed' = Append(executed, j)

\* Every request has an id.
LEMMA RequestHasId ==
  ASSUME TransfersTyped, NEW j \in 1..InputCount
  PROVE  batch[j].txn \in Txns
BY DEF TransfersTyped, Transfer!Request

\* The operations of the processor do what Executes says.
LEMMA ExecuteExecutes ==
  ASSUME TransfersTyped, FanInv, NEW w \in Workers, Transfer!Execute(w)
  PROVE  item[w] \in 1..InputCount /\ Executes(item[w], batch[item[w]].txn)
<1> DEFINE j == item[w]
           r == batch[j]
           x == r.txn
<1>1. w \in Busy
  BY DEF Transfer!Execute, Transfer!Fan!Apply, Busy
<1>2. j \in 1..InputCount
  BY <1>1, PracticeAssumption DEF FanInv, FanTyped, InputsOnce
<1>3. x \in Txns
  BY <1>2, RequestHasId
<1>4. /\ batch' = batch
      /\ answer' = [answer EXCEPT ![j] = answered']
      /\ \/ Transfer!P!Transfer(x, r.from, r.to, r.amount)
         \/ Transfer!P!Deposit(x, r.to, r.amount)
  BY Zenon DEF Transfer!Execute
<1>5. executed' = IF UNCHANGED <<results, accounts>> THEN executed ELSE Append(executed, j)
  BY Zenon DEF Transfer!Execute
<1> HIDE DEF j, x, r
<1>6. UNCHANGED <<results, accounts>> => executed' = executed
  BY <1>5, Zenon
<1>7. results' # results => executed' = Append(executed, j)
  BY <1>5, Zenon
<1>8. ASSUME results[x] # "none", answered' = results[x], UNCHANGED <<results, accounts>>
      PROVE  Executes(j, x)
  BY <1>4, <1>6, <1>8 DEF Executes
<1>9. ASSUME answered' = "insufficient", UNCHANGED <<results, accounts>>
      PROVE  Executes(j, x)
  BY <1>4, <1>6, <1>9 DEF Executes
<1>10. ASSUME results[x] = "none", answered' \in Outcomes,
              results' = [results EXCEPT ![x] = answered']
       PROVE  Executes(j, x)
  <2>1. results' # results
    BY <1>3, <1>10 DEF TransfersTyped, Outcomes
  <2> QED BY <1>4, <1>7, <1>10, <2>1 DEF Executes
<1>11. ASSUME Transfer!P!Transfer(x, r.from, r.to, r.amount) PROVE Executes(j, x)
  BY <1>8, <1>9, <1>10, <1>11
  DEF Transfer!P!Transfer, Transfer!P!Replay, Transfer!P!Record, Outcomes
<1>12. ASSUME Transfer!P!Deposit(x, r.to, r.amount) PROVE Executes(j, x)
  BY <1>8, <1>10, <1>12
  DEF Transfer!P!Deposit, Transfer!P!Replay, Transfer!P!Record, Outcomes
<1>13. Executes(j, x)
  BY <1>4, <1>11, <1>12
<1> QED BY <1>2, <1>13 DEF j, r, x

\* An execution keeps the results and the answers in step.
LEMMA ExecuteKeeps ==
  ASSUME TransfersInv, NEW j \in 1..InputCount, Executes(j, batch[j].txn)
  PROVE  TransfersInv'
<1> DEFINE x == batch[j].txn
<1>1. x \in Txns
  BY RequestHasId DEF TransfersInv
<1>2. \A k \in 1..InputCount : batch[k].txn \in Txns
  BY RequestHasId DEF TransfersInv
<1>3. CASE /\ results' = results /\ executed' = executed
           /\ answered' \in {results[x], "insufficient"}
  <2>1. TransfersTyped'
    BY <1>1, <1>3 DEF TransfersInv, TransfersTyped, Executes, Outcomes
  <2>2. Recorded'
    BY <1>3 DEF TransfersInv, Recorded, Executes, IdOf
  <2>3. ToldAsKept'
    BY <1>1, <1>3 DEF TransfersInv, TransfersTyped, ToldAsKept, Executes, Outcomes
  <2> QED BY <2>1, <2>2, <2>3 DEF TransfersInv
<1>4. CASE /\ results[x] = "none" /\ answered' \in Outcomes
           /\ results' = [results EXCEPT ![x] = answered']
           /\ executed' = Append(executed, j)
  <2>1. TransfersTyped'
    BY <1>1, <1>4 DEF TransfersInv, TransfersTyped, Executes, Outcomes
  <2> DEFINE l == Len(executed)
  <2>0. executed \in Seq(1..InputCount) /\ InputCount \in Nat
    BY PracticeAssumption DEF TransfersInv, TransfersTyped
  <2>2. /\ l \in Nat /\ Len(executed') = l + 1 /\ executed'[l + 1] = j
        /\ \A n \in 1..l : executed'[n] = executed[n]
        /\ \A n \in 1..l : executed[n] \in 1..InputCount
    BY <1>4, <2>0
  <2>3. \A n \in 1..l : IdOf(batch, executed, n) # x /\ IdOf(batch', executed', n) = IdOf(batch, executed, n) /\ IdOf(batch, executed, n) \in Txns
    BY <1>2, <1>4, <2>2 DEF TransfersInv, Recorded, Executes, IdOf
  <2>4. batch'[executed'[l + 1]].txn = x
    BY <2>2 DEF Executes
  <2>5. \A n \in 1..Len(executed') : n = l + 1 \/ n \in 1..l
    BY <2>2
  <2>10. \A n \in 1..Len(executed') : IdOf(batch', executed', n) = IF n = l + 1 THEN x ELSE IdOf(batch, executed, n)
    <3> HIDE DEF l, x
    <3> QED BY <2>2, <2>3, <2>4, <2>5 DEF IdOf
  <2>6. \A y \in Txns : results'[y] # "none" <=> (results[y] # "none" \/ y = x)
    BY <1>1, <1>4 DEF TransfersInv, TransfersTyped, Outcomes
  <2>11. /\ \A n \in 1..l : results[IdOf(batch, executed, n)] # "none"
         /\ \A m, n \in 1..l :
              m # n => IdOf(batch, executed, m) # IdOf(batch, executed, n)
    BY DEF TransfersInv, Recorded
  <2> HIDE DEF l, x
  <2>7. Recorded'
    <3> DEFINE t(n) == IdOf(batch, executed, n)
               u(n) == IdOf(batch', executed', n)
    <3>1. /\ \A n \in 1..Len(executed') : u(n) = IF n = l + 1 THEN x ELSE t(n)
          /\ \A n \in 1..l : t(n) # x /\ t(n) \in Txns /\ results[t(n)] # "none"
          /\ \A m, n \in 1..l : m # n => t(m) # t(n)
      BY <2>3, <2>10, <2>11
    <3> HIDE DEF t, u
    <3>2. \A n \in 1..Len(executed') : results'[u(n)] # "none"
      BY <1>1, <2>5, <2>6, <3>1
    <3>3. \A m, n \in 1..Len(executed') : m # n => u(m) # u(n)
      BY <2>5, <3>1
    <3> QED BY <3>2, <3>3 DEF Recorded, u
  <2>8. \A k \in 1..InputCount :
          answer[k] \in Outcomes => results[batch[k].txn] = answer[k] /\ batch[k].txn # x
    BY <1>4 DEF TransfersInv, ToldAsKept, Outcomes
  <2>9. ToldAsKept'
    BY <1>1, <1>2, <1>4, <2>8 DEF TransfersInv, TransfersTyped, ToldAsKept, Executes
  <2> QED BY <2>1, <2>7, <2>9 DEF TransfersInv
<1> QED BY <1>3, <1>4 DEF Executes

\* The invariant implies the property.
LEMMA TransfersInvOnce == ASSUME TransfersInv PROVE ExecutedOnce
<1>1. \A m, n \in 1..Len(executed) : m # n => batch[executed[m]].txn # batch[executed[n]].txn
  BY DEF TransfersInv, Recorded, IdOf
<1>2. ASSUME NEW j \in 1..InputCount, NEW k \in 1..InputCount,
             batch[j].txn = batch[k].txn,
             {answer[j], answer[k]} \cap {"none", "insufficient"} = {}
      PROVE  answer[j] = answer[k]
  <2>1. answer[j] \in Outcomes /\ answer[k] \in Outcomes
    BY <1>2, Zenon DEF TransfersInv, TransfersTyped
  <2> QED BY <1>2, <2>1 DEF TransfersInv, ToldAsKept
<1> QED BY <1>1, <1>2 DEF ExecutedOnce, Transfer!ExecutedOnce

\* Both invariants hold of the start and are kept by any step.
LEMMA TransfersInit == Init => TransfersInv
<1> SUFFICES ASSUME Init PROVE TransfersInv
  OBVIOUS
<1>1. /\ batch \in [1..InputCount -> Transfer!Request]
      /\ results = [x \in Txns |-> "none"] /\ executed = <<>>
      /\ answer = [j \in 1..InputCount |-> "none"]
  BY DEF Init, Transfer!Init, Transfer!P!Init
<1> QED
  BY <1>1 DEF TransfersInv, TransfersTyped, Recorded, ToldAsKept, Outcomes

LEMMA TransfersNext == FanInv /\ TransfersInv /\ [Next]_vars => TransfersInv'
<1> SUFFICES ASSUME FanInv, TransfersInv, [Next]_vars PROVE TransfersInv'
  OBVIOUS
<1>1. CASE UNCHANGED <<results, batch, answer, executed>>
  BY <1>1 DEF TransfersInv, TransfersTyped, Recorded, ToldAsKept, IdOf
<1>2. CASE Transfer!Next
  <2>1. ASSUME NEW w \in Workers, Transfer!Execute(w) PROVE TransfersInv'
    BY <2>1, ExecuteExecutes, ExecuteKeeps DEF TransfersInv
  <2> QED
    BY <1>1, <1>2, <2>1
    DEF Transfer!Next, Transfer!Step, Transfer!Move, Transfer!Stop, Transfer!processorVars
<1> QED BY <1>1, <1>2, OnePartMoves DEF transferVars

\* No two requests with one id take effect, and whoever is told of a success
\* under an id is told the same, whichever worker comes first.
THEOREM EffectsAreOnce == Spec => []ExecutedOnce
<1>1. Init => FanInv /\ TransfersInv
  BY FanInit, TransfersInit
<1>2. (FanInv /\ TransfersInv) /\ [Next]_vars => (FanInv /\ TransfersInv)'
  BY FanNext, TransfersNext
<1>3. (FanInv /\ TransfersInv) => ExecutedOnce
  BY TransfersInvOnce
<1> QED BY <1>1, <1>2, <1>3, PTL DEF Spec

----------------------------------------------------------------------------
(* The accounts.                                                           *)

\* What request r changes of account a.
Change(a, r) == Transfer!In(a, r) - Transfer!Out(a, r)

\* Balances as they are after the requests e of batch b.
Exact(bal, b, e) ==
  \A a \in Accounts :
    /\ bal[a] = Transfer!Total(Transfer!Changes(a, b, e), 1..Len(e))
    /\ bal[a] >= 0

AccountsInv ==
  /\ accounts \in [Accounts -> Int]
  /\ Exact(accounts, batch, executed)

\* Transfers adds up as Sums does.
LEMMA SameTotal ==
  ASSUME NEW f, NEW S
  PROVE  Transfer!Total(f, S) = Sum(f, S)
BY Zenon DEF Transfer!Total, Sum, Transfer!MapThenSumSet, MapThenSumSet,
             Transfer!MapThenFoldSet, MapThenFoldSet

\* A request is about amounts.
LEMMA RequestIsSound ==
  ASSUME NEW r \in Transfer!Request
  PROVE  /\ r.op \in {"transfer", "deposit"}
         /\ r.to \in Accounts /\ r.amount \in Nat
         /\ r.op = "transfer" => r.from \in Accounts
         /\ \A a \in Accounts : Change(a, r) \in Int
<1>1. /\ r.op \in {"transfer", "deposit"}
      /\ r.to \in Accounts /\ r.amount \in Nat
      /\ r.op = "transfer" => r.from \in Accounts
  BY PracticeAssumption, Zenon DEF Transfer!Request
<1>2. \A a \in Accounts : Transfer!In(a, r) \in Int /\ Transfer!Out(a, r) \in Int
  BY <1>1 DEF Transfer!In, Transfer!Out
<1> QED BY <1>1, <1>2 DEF Change

\* The change of the latest request adds to those before.
LEMMA ChangesAdd ==
  ASSUME NEW b \in [1..InputCount -> Transfer!Request], NEW e \in Seq(1..InputCount),
         NEW j \in 1..InputCount, NEW a \in Accounts
  PROVE  Transfer!Total(Transfer!Changes(a, b, Append(e, j)), 1..Len(Append(e, j)))
           = Transfer!Total(Transfer!Changes(a, b, e), 1..Len(e)) + Change(a, b[j])
<1> DEFINE l == Len(e)
           f == Transfer!Changes(a, b, e)
           g == Transfer!Changes(a, b, Append(e, j))
<1>1. InputCount \in Nat
  BY PracticeAssumption
<1>2. /\ l \in Nat /\ Len(Append(e, j)) = l + 1 /\ Append(e, j)[l + 1] = j
      /\ \A n \in 1..l : Append(e, j)[n] = e[n] /\ e[n] \in 1..InputCount
  BY <1>1
<1>3. \A k \in 1..InputCount : Change(a, b[k]) \in Int
  BY RequestIsSound
<1>4. 1..l + 1 = (1..l) \cup {l + 1} /\ l + 1 \notin 1..l
  BY <1>2
<1>5. \A n \in 1..l : f[n] = Change(a, b[e[n]])
  BY DEF Transfer!Changes, Change
<1>6. \A n \in 1..l + 1 : g[n] = Change(a, b[Append(e, j)[n]])
  BY <1>2 DEF Transfer!Changes, Change
<1> HIDE DEF l, f, g
<1>7. g[l + 1] = Change(a, b[j]) /\ \A n \in 1..l : g[n] = f[n]
  BY <1>2, <1>4, <1>5, <1>6
<1>8. \A n \in (1..l) \cup {l + 1} : g[n] \in Int
  BY <1>2, <1>3, <1>4, <1>5, <1>7
<1>9. IsFiniteSet(1..l)
  BY <1>2, FS_Interval
<1>10. Sum(g, (1..l) \cup {l + 1}) = Sum(f, 1..l) + g[l + 1]
  <2> DEFINE S == 1..l
             z == l + 1
  <2>1. OneMore(f, g, S, z)
    BY <1>4, <1>7, <1>8, <1>9 DEF OneMore
  <2> HIDE DEF S, z
  <2>2. SumIsMore(f, g, S, z)
    BY <2>1, SumGrows, Zenon
  <2> QED BY <2>2, Zenon DEF S, z, SumIsMore
<1> QED
  BY <1>2, <1>4, <1>7, <1>10, SameTotal, Zenon DEF l, f, g

\* An executed request changes the accounts by what it brings and takes.
LEMMA RequestChanges ==
  ASSUME NEW r \in Transfer!Request, accounts \in [Accounts -> Int],
         NEW x,
         \/ r.op = "transfer" /\ Transfer!P!Transfer(x, r.from, r.to, r.amount)
         \/ r.op = "deposit" /\ Transfer!P!Deposit(x, r.to, r.amount)
  PROVE  \/ UNCHANGED <<results, accounts>>
         \/ /\ results[x] = "none"
            /\ results' = [results EXCEPT ![x] = answered'] /\ answered' # "none"
            /\ accounts' = [a \in Accounts |-> accounts[a] + Change(a, r)]
            /\ \A a \in Accounts : accounts[a] >= 0 => accounts'[a] >= 0
<1>0. /\ r.to \in Accounts /\ r.amount \in Nat
      /\ r.op = "transfer" => r.from \in Accounts
  BY RequestIsSound
<1>1. CASE UNCHANGED <<results, accounts>>
  BY <1>1
<1>2. CASE /\ r.op = "deposit" /\ results[x] = "none"
           /\ accounts' = [accounts EXCEPT ![r.to] = @ + r.amount]
           /\ results' = [results EXCEPT ![x] = answered'] /\ answered' # "none"
  <2>1. \A a \in Accounts : Change(a, r) = IF r.to = a THEN r.amount ELSE 0
    BY <1>0, <1>2 DEF Change, Transfer!In, Transfer!Out
  <2>4. accounts' \in [Accounts -> Int]
    BY <1>0, <1>2
  <2>5. \A a \in Accounts : accounts'[a] = accounts[a] + Change(a, r)
    BY <1>0, <1>2, <2>1
  <2>2. accounts' = [a \in Accounts |-> accounts[a] + Change(a, r)]
    BY <2>4, <2>5
  <2>3. \A a \in Accounts : accounts[a] >= 0 => accounts'[a] >= 0
    BY <1>0, <1>2
  <2> QED BY <1>2, <2>2, <2>3, Zenon
<1>3. CASE /\ r.op = "transfer" /\ results[x] = "none"
           /\ accounts[r.from] >= r.amount
           /\ accounts' = [[accounts EXCEPT ![r.from] = @ - r.amount]
                                     EXCEPT ![r.to] = @ + r.amount]
           /\ results' = [results EXCEPT ![x] = answered'] /\ answered' # "none"
  <2>1. \A a \in Accounts : Change(a, r) = (IF r.to = a THEN r.amount ELSE 0)
                                             - (IF r.from = a THEN r.amount ELSE 0)
    BY <1>3 DEF Change, Transfer!In, Transfer!Out
  <2>4. accounts' \in [Accounts -> Int]
    BY <1>0, <1>3
  <2>5. \A a \in Accounts : accounts'[a] = accounts[a] + Change(a, r)
    BY <1>0, <1>3, <2>1
  <2>2. accounts' = [a \in Accounts |-> accounts[a] + Change(a, r)]
    BY <2>4, <2>5
  <2>3. \A a \in Accounts : accounts[a] >= 0 => accounts'[a] >= 0
    BY <1>0, <1>3
  <2> QED BY <1>3, <2>2, <2>3, Zenon
<1> QED
  BY <1>1, <1>2, <1>3
  DEF Transfer!P!Transfer, Transfer!P!Deposit, Transfer!P!Replay, Transfer!P!Record

\* An execution keeps the accounts exact.
LEMMA ExecuteExact ==
  ASSUME FanInv, TransfersInv, AccountsInv, NEW w \in Workers, Transfer!Execute(w)
  PROVE  AccountsInv'
<1> DEFINE j == item[w]
           r == batch[j]
           x == r.txn
<1>1. j \in 1..InputCount
  BY ExecuteExecutes DEF TransfersInv
<1>2. r \in Transfer!Request /\ batch \in [1..InputCount -> Transfer!Request]
      /\ executed \in Seq(1..InputCount)
  BY <1>1 DEF TransfersInv, TransfersTyped
<1>3. x \in Txns /\ \A a \in Accounts : Change(a, r) \in Int
  BY <1>1, <1>2, RequestHasId, RequestIsSound DEF TransfersInv
<1>4. /\ batch' = batch
      /\ \/ r.op = "transfer" /\ Transfer!P!Transfer(x, r.from, r.to, r.amount)
         \/ r.op = "deposit" /\ Transfer!P!Deposit(x, r.to, r.amount)
  BY Zenon DEF Transfer!Execute
<1>5. executed' = IF UNCHANGED <<results, accounts>> THEN executed ELSE Append(executed, j)
  BY Zenon DEF Transfer!Execute
<1> HIDE DEF j, r, x
<1>6. \/ UNCHANGED <<results, accounts>>
      \/ /\ results[x] = "none"
         /\ results' = [results EXCEPT ![x] = answered'] /\ answered' # "none"
         /\ accounts' = [a \in Accounts |-> accounts[a] + Change(a, r)]
         /\ \A a \in Accounts : accounts[a] >= 0 => accounts'[a] >= 0
  BY <1>2, <1>4, RequestChanges, Zenon DEF AccountsInv
<1>7. CASE UNCHANGED <<results, accounts>>
  <2>1. executed' = executed
    BY <1>5, <1>7, Zenon
  <2> QED BY <1>4, <1>7, <2>1 DEF AccountsInv, Exact
<1>8. CASE /\ results[x] = "none"
           /\ results' = [results EXCEPT ![x] = answered'] /\ answered' # "none"
           /\ accounts' = [a \in Accounts |-> accounts[a] + Change(a, r)]
           /\ \A a \in Accounts : accounts[a] >= 0 => accounts'[a] >= 0
  <2>1. results' # results
    BY <1>3, <1>8 DEF TransfersInv, TransfersTyped
  <2>2. executed' = Append(executed, j)
    BY <1>5, <2>1, Zenon
  <2>3. accounts' \in [Accounts -> Int]
    BY <1>3, <1>8 DEF AccountsInv
  <2>4. ASSUME NEW a \in Accounts
        PROVE  /\ accounts'[a] = Transfer!Total(Transfer!Changes(a, batch', executed'),
                                                1..Len(executed'))
               /\ accounts'[a] >= 0
    <3>1. /\ accounts[a] = Transfer!Total(Transfer!Changes(a, batch, executed),
                                          1..Len(executed))
          /\ accounts[a] >= 0
      BY DEF AccountsInv, Exact
    <3>2. accounts'[a] = accounts[a] + Change(a, r) /\ accounts'[a] >= 0
      BY <1>8, <3>1
    <3>3. Transfer!Total(Transfer!Changes(a, batch, executed'), 1..Len(executed'))
            = Transfer!Total(Transfer!Changes(a, batch, executed), 1..Len(executed))
                + Change(a, r)
      BY <1>1, <1>2, <2>2, ChangesAdd, Zenon DEF r
    <3> QED BY <1>4, <3>1, <3>2, <3>3, Zenon
  <2> QED BY <2>3, <2>4 DEF AccountsInv, Exact
<1> QED BY <1>6, <1>7, <1>8

\* Accounts hold what the executed requests brought less what they took.
THEOREM AccountsAreExact == Spec => []BalancesExact
<1> DEFINE Inv == FanInv /\ TransfersInv /\ AccountsInv
<1>1. Init => Inv
  <2> SUFFICES ASSUME Init PROVE AccountsInv
    BY FanInit, TransfersInit
  <2>1. accounts = [a \in Accounts |-> 0] /\ executed = <<>>
    BY DEF Init, Transfer!Init, Transfer!P!Init
  <2>2. ASSUME NEW a \in Accounts
        PROVE  Transfer!Total(Transfer!Changes(a, batch, executed), 1..Len(executed)) = 0
    <3>1. 1..Len(executed) = {}
      BY <2>1
    <3>2. IsFiniteSet(1..Len(executed))
      BY <3>1, FS_EmptySet
    <3> DEFINE f == Transfer!Changes(a, batch, executed)
    <3>3. \A n \in 1..Len(executed) : f[n] = 0
      BY <3>1
    <3> HIDE DEF f
    <3>4. Sum(f, 1..Len(executed)) = 0
      BY <3>2, <3>3, SumOfZeros
    <3> QED BY <3>4, SameTotal, Zenon DEF f
  <2> QED BY <2>1, <2>2 DEF AccountsInv, Exact
<1>2. Inv /\ [Next]_vars => Inv'
  <2> SUFFICES ASSUME Inv, [Next]_vars PROVE AccountsInv'
    BY FanNext, TransfersNext
  <2>1. CASE UNCHANGED <<accounts, batch, executed>>
    BY <2>1 DEF AccountsInv, Exact
  <2>2. CASE Transfer!Next
    BY <2>1, <2>2, ExecuteExact
    DEF Transfer!Next, Transfer!Step, Transfer!Move, Transfer!Stop, Transfer!processorVars
  <2> QED BY <2>1, <2>2, OnePartMoves DEF transferVars
<1>3. Inv => BalancesExact
  BY DEF AccountsInv, Exact, BalancesExact, Transfer!BalancesExact
<1> HIDE DEF Inv
<1> QED BY <1>1, <1>2, <1>3, PTL DEF Spec

----------------------------------------------------------------------------
(* The cache.                                                              *)

\* The elements of s are different.
Distinct(s) == \A m, n \in 1..Len(s) : s[m] = s[n] => m = n

\* The elements of s.
KeysOf(s) == {s[n] : n \in 1..Len(s)}

\* r is s with key, which it had at place p or (behind its end) had not, before
\* the rest.
Fronted(r, s, key, p) ==
  /\ Len(s) \in Nat
  /\ p \in 1..Len(s) + 1
  /\ \A n \in 1..Len(s) : s[n] = key <=> n = p
  /\ Len(r) = IF p <= Len(s) THEN Len(s) ELSE Len(s) + 1
  /\ \A n \in 1..Len(r) : r[n] = IF n = 1 THEN key ELSE IF n <= p THEN s[n - 1] ELSE s[n]

\* What MoveToFront makes, whether or not the key is there.
LEMMA MoveToFrontFronts ==
  ASSUME NEW s \in Seq(Keys), Distinct(s), NEW key \in Keys
  PROVE  /\ Cache!MoveToFront(key, s) \in Seq(Keys)
         /\ \E p \in 1..Len(s) + 1 : Fronted(Cache!MoveToFront(key, s), s, key, p)
<1> DEFINE w == Cache!Without(s, key)
           r == <<key>> \o w
<1>1. Len(s) \in Nat
  OBVIOUS
<1>2. ASSUME NEW t \in Seq(Keys)
      PROVE  /\ <<key>> \o t \in Seq(Keys)
             /\ Len(<<key>> \o t) = Len(t) + 1 /\ Len(t) \in Nat
             /\ \A n \in 1..Len(t) + 1 : (<<key>> \o t)[n] = IF n = 1 THEN key ELSE t[n - 1]
  OBVIOUS
<1>3. CASE \A n \in 1..Len(s) : s[n] # key
  <2>1. w = s
    BY <1>3 DEF Cache!Without
  <2>2. Fronted(r, s, key, Len(s) + 1)
    BY <1>1, <1>2, <1>3, <2>1 DEF Fronted
  <2> QED BY <1>1, <1>2, <2>1, <2>2 DEF Cache!MoveToFront
<1>4. CASE \E n \in 1..Len(s) : s[n] = key
  <2> DEFINE p == CHOOSE n \in 1..Len(s) : s[n] = key
  <2>1. p \in 1..Len(s) /\ s[p] = key
    BY <1>4
  <2>2. w = Cache!RemoveAt(s, p)
    BY <1>4 DEF Cache!Without
  <2> HIDE DEF p
  <2>3. w = RemoveAt(s, p)
    BY <2>2 DEF Cache!RemoveAt, RemoveAt
  <2>4. /\ w \in Seq(Keys)
        /\ Len(w) = Len(s) - 1
        /\ \A m \in 1..Len(s) - 1 : w[m] = IF m < p THEN s[m] ELSE s[m + 1]
    BY <2>1, <2>3, RemoveAtLeaves, Zenon
  <2> HIDE DEF w
  <2>5. /\ r \in Seq(Keys) /\ Len(r) = Len(s)
        /\ \A n \in 1..Len(s) : r[n] = IF n = 1 THEN key ELSE w[n - 1]
    BY <1>1, <1>2, <2>4
  <2> HIDE DEF r
  <2>6. ASSUME NEW n \in 1..Len(s)
        PROVE  r[n] = IF n = 1 THEN key ELSE IF n <= p THEN s[n - 1] ELSE s[n]
    <3>1. CASE n = 1
      BY <2>5, <3>1
    <3>2. CASE n # 1
      <4>1. n - 1 \in 1..Len(s) - 1 /\ (n - 1) + 1 = n /\ (n - 1 < p <=> n <= p)
        BY <1>1, <2>1, <3>2
      <4>2. r[n] = w[n - 1]
        BY <2>5, <3>2
      <4>3. w[n - 1] = IF n - 1 < p THEN s[n - 1] ELSE s[(n - 1) + 1]
        BY <2>4, <4>1
      <4> QED BY <3>2, <4>1, <4>2, <4>3
    <3> QED BY <3>1, <3>2
  <2>7. \A n \in 1..Len(s) : s[n] = key <=> n = p
    BY <2>1 DEF Distinct
  <2>8. Fronted(r, s, key, p)
    BY <1>1, <2>1, <2>5, <2>6, <2>7 DEF Fronted
  <2>9. p \in 1..Len(s) + 1
    BY <1>1, <2>1
  <2> QED BY <2>5, <2>8, <2>9 DEF Cache!MoveToFront, r, w
<1> QED BY <1>3, <1>4

\* The elements stay different, and the key is one of them.
LEMMA FrontedDistinct ==
  ASSUME NEW r, NEW s, NEW key, NEW p, Fronted(r, s, key, p), Distinct(s)
  PROVE  /\ Distinct(r)
         /\ KeysOf(r) = KeysOf(s) \cup {key}
<1>1. /\ Len(s) \in Nat /\ p \in 1..Len(s) + 1
      /\ \A n \in 1..Len(s) : s[n] = key <=> n = p
      /\ Len(r) = IF p <= Len(s) THEN Len(s) ELSE Len(s) + 1
      /\ \A n \in 1..Len(r) : r[n] = IF n = 1 THEN key ELSE IF n <= p THEN s[n - 1] ELSE s[n]
  BY DEF Fronted
<1> DEFINE old(n) == IF n <= p THEN n - 1 ELSE n
<1>2. \A n \in 1..Len(r) : n # 1 => /\ old(n) \in 1..Len(s) /\ old(n) # p
                                    /\ r[n] = s[old(n)] /\ r[n] # key
  BY <1>1
<1>3. \A m, n \in 2..Len(r) : old(m) = old(n) => m = n
  BY <1>1
<1>4. r[1] = key /\ 1 \in 1..Len(r)
  BY <1>1
<1>5. \A n \in 1..Len(r) : n = 1 \/ n \in 2..Len(r)
  BY <1>1
<1>6. \A k \in 1..Len(s) : k # p => \E n \in 1..Len(r) : n # 1 /\ old(n) = k
  <2> SUFFICES ASSUME NEW k \in 1..Len(s), k # p
               PROVE  \E n \in 1..Len(r) : n # 1 /\ old(n) = k
    OBVIOUS
  <2>1. CASE k < p
    <3>1. k + 1 \in 1..Len(r) /\ k + 1 # 1 /\ old(k + 1) = k
      BY <1>1, <2>1
    <3> HIDE DEF old
    <3> QED BY <3>1
  <2>2. CASE k > p
    <3>1. k \in 1..Len(r) /\ k # 1 /\ old(k) = k
      BY <1>1, <2>2
    <3> HIDE DEF old
    <3> QED BY <3>1
  <2> QED BY <1>1, <2>1, <2>2
<1> HIDE DEF old
<1>7. Distinct(r)
  BY <1>2, <1>3, <1>4, <1>5 DEF Distinct
<1>8. \A n \in 1..Len(r) : r[n] \in {s[k] : k \in 1..Len(s)} \cup {key}
  BY <1>2, <1>4
<1>9. \A k \in 1..Len(s) : s[k] \in {r[n] : n \in 1..Len(r)}
  <2> SUFFICES ASSUME NEW k \in 1..Len(s) PROVE s[k] \in {r[n] : n \in 1..Len(r)}
    OBVIOUS
  <2>1. CASE k = p
    <3>1. s[k] = r[1]
      BY <1>1, <1>4, <2>1
    <3> QED BY <1>4, <3>1
  <2>2. CASE k # p
    <3>1. PICK n \in 1..Len(r) : n # 1 /\ old(n) = k
      BY <1>6, <2>2
    <3> QED BY <1>2, <3>1
  <2> QED BY <2>1, <2>2
<1>10. key \in {r[n] : n \in 1..Len(r)}
  BY <1>4
<1> QED BY <1>7, <1>8, <1>9, <1>10 DEF KeysOf

\* How many keys are kept.
Kept == IF Len(used) < Cache!Size THEN Len(used) ELSE Cache!Size

CacheTyped ==
  /\ cap \in Nat
  /\ used \in Seq(Keys)
  /\ recency \in Seq(Keys)
  /\ Distinct(used)
  /\ written \in [KeysOf(used) -> Values]

\* The list is the beginning of the keys used, and the map agrees with it.
KeptAreUsed ==
  /\ Len(recency) = Kept
  /\ \A n \in 1..Kept : recency[n] = used[n]

MapAgrees == items = [k \in KeysOf(recency) |-> written[k]]

CacheInv == CacheTyped /\ KeptAreUsed /\ MapAgrees

\* The beginning of a sequence without repetitions has none.
LEMMA RecencyDistinct ==
  ASSUME CacheInv
  PROVE  /\ Distinct(recency) /\ Kept \in Nat /\ Kept <= Len(used) /\ Len(used) \in Nat
         /\ Cache!Size \in Nat \ {0}
         /\ KeysOf(recency) \subseteq KeysOf(used)
<1>1. /\ Len(used) \in Nat /\ Cache!Size \in Nat \ {0}
  BY DEF CacheInv, CacheTyped, Cache!Size
<1>2. Kept \in Nat /\ Kept <= Len(used)
  BY <1>1 DEF Kept
<1>3. Distinct(recency) /\ KeysOf(recency) \subseteq KeysOf(used)
  <2>1. \A n \in 1..Len(recency) : n \in 1..Len(used) /\ recency[n] = used[n]
    BY <1>1, <1>2 DEF CacheInv, KeptAreUsed
  <2>2. Distinct(used)
    BY DEF CacheInv, CacheTyped
  <2> QED BY <2>1, <2>2 DEF Distinct, KeysOf
<1> QED BY <1>1, <1>2, <1>3

\* A key that is in the cache moves to the front of the list and of the
\* history at once.
LEMMA TouchKeeps ==
  ASSUME CacheInv, NEW key \in DOMAIN items, key \in Keys,
         recency' = Cache!MoveToFront(key, recency),
         used' = Cache!MoveToFront(key, used), cap' = cap
  PROVE  /\ used' \in Seq(Keys) /\ recency' \in Seq(Keys) /\ Distinct(used')
         /\ KeysOf(used') = KeysOf(used) /\ KeysOf(recency') = KeysOf(recency)
         /\ key \in KeysOf(recency)
         /\ KeptAreUsed'
<1>1. key \in KeysOf(recency)
  BY DEF CacheInv, MapAgrees
<1>2. /\ Distinct(recency) /\ Kept \in Nat /\ Kept <= Len(used) /\ Len(used) \in Nat
      /\ KeysOf(recency) \subseteq KeysOf(used)
  BY RecencyDistinct
<1>3. /\ used' \in Seq(Keys)
      /\ \E p \in 1..Len(used) + 1 : Fronted(used', used, key, p)
  BY MoveToFrontFronts DEF CacheInv, CacheTyped
<1>4. /\ recency' \in Seq(Keys)
      /\ \E q \in 1..Len(recency) + 1 : Fronted(recency', recency, key, q)
  BY <1>2, MoveToFrontFronts DEF CacheInv, CacheTyped
<1>5. PICK p : Fronted(used', used, key, p)
  BY <1>3
<1>6. PICK q : Fronted(recency', recency, key, q)
  BY <1>4
<1>7. Distinct(used') /\ KeysOf(used') = KeysOf(used) \cup {key}
  BY <1>5, FrontedDistinct DEF CacheInv, CacheTyped
<1>8. KeysOf(recency') = KeysOf(recency) \cup {key}
  BY <1>2, <1>6, FrontedDistinct
<1>9. q = p /\ p \in 1..Kept
  <2>1. PICK n \in 1..Len(recency) : recency[n] = key
    BY <1>1 DEF KeysOf
  <2>2. Len(recency) = Kept /\ used[n] = key /\ n \in 1..Len(used)
    BY <1>2, <2>1 DEF CacheInv, KeptAreUsed
  <2>3. n = p /\ n = q
    BY <1>5, <1>6, <2>1, <2>2 DEF Fronted
  <2> QED BY <2>1, <2>2, <2>3
<1>10. Len(used') = Len(used) /\ Len(recency') = Len(recency) /\ Len(recency) = Kept
  BY <1>2, <1>5, <1>6, <1>9 DEF Fronted, CacheInv, KeptAreUsed
<1>11. Kept' = Kept
  BY <1>10 DEF Kept, Cache!Size
<1>12. ASSUME NEW n \in 1..Kept PROVE recency'[n] = used'[n]
  <2>1. n \in 1..Len(used') /\ n \in 1..Len(recency')
    BY <1>2, <1>10
  <2>2. /\ recency'[n] = IF n = 1 THEN key ELSE IF n <= p THEN recency[n - 1] ELSE recency[n]
        /\ used'[n] = IF n = 1 THEN key ELSE IF n <= p THEN used[n - 1] ELSE used[n]
    BY <1>5, <1>6, <1>9, <2>1 DEF Fronted
  <2>3. n # 1 => n - 1 \in 1..Kept
    BY <1>2
  <2> QED BY <2>2, <2>3 DEF CacheInv, KeptAreUsed
<1>13. KeptAreUsed'
  BY <1>10, <1>11, <1>12 DEF KeptAreUsed
<1> QED BY <1>1, <1>2, <1>3, <1>4, <1>7, <1>8, <1>13

\* A hit.
LEMMA HitKeeps ==
  ASSUME CacheInv, NEW key \in Keys, Cache!Hit(key)
  PROVE  CacheInv'
<1>1. /\ key \in DOMAIN items
      /\ recency' = Cache!MoveToFront(key, recency)
      /\ used' = Cache!MoveToFront(key, used)
      /\ cap' = cap /\ items' = items /\ written' = written
  BY DEF Cache!Hit, Cache!Note, Cache!MoveToFront
<1>2. /\ used' \in Seq(Keys) /\ recency' \in Seq(Keys) /\ Distinct(used')
      /\ KeysOf(used') = KeysOf(used) /\ KeysOf(recency') = KeysOf(recency)
      /\ KeptAreUsed'
  BY <1>1, TouchKeeps
<1>3. CacheTyped'
  BY <1>1, <1>2 DEF CacheInv, CacheTyped
<1>4. MapAgrees'
  BY <1>1, <1>2 DEF CacheInv, MapAgrees
<1> QED BY <1>2, <1>3, <1>4 DEF CacheInv

\* A put of a key that the cache has.
LEMMA UpdateKeeps ==
  ASSUME CacheInv, NEW key \in Keys, NEW val \in Values, Cache!Update(key, val),
         used' = Cache!MoveToFront(key, used),
         written' = Cache!Assign(written, key, val), cap' = cap
  PROVE  CacheInv'
<1>1. /\ key \in DOMAIN items
      /\ recency' = Cache!MoveToFront(key, recency)
      /\ items' = Cache!Assign(items, key, val)
  BY DEF Cache!Update
<1>2. /\ used' \in Seq(Keys) /\ recency' \in Seq(Keys) /\ Distinct(used')
      /\ KeysOf(used') = KeysOf(used) /\ KeysOf(recency') = KeysOf(recency)
      /\ key \in KeysOf(recency) /\ KeptAreUsed'
  BY <1>1, TouchKeeps
<1>3. KeysOf(recency) \subseteq KeysOf(used)
  BY RecencyDistinct
<1>4. CacheTyped'
  BY <1>2, <1>3 DEF CacheInv, CacheTyped, Cache!Assign
<1>5. MapAgrees'
  BY <1>1, <1>2, <1>3 DEF CacheInv, CacheTyped, MapAgrees, Cache!Assign
<1> QED BY <1>2, <1>4, <1>5 DEF CacheInv

\* A put of a key that it has not: the oldest makes room.
LEMMA InsertKeeps ==
  ASSUME CacheInv, NEW key \in Keys, NEW val \in Values, Cache!Insert(key, val),
         used' = Cache!MoveToFront(key, used),
         written' = Cache!Assign(written, key, val), cap' = cap
  PROVE  CacheInv'
<1> DEFINE l == Len(recency)
           full == l >= cap /\ recency # <<>>
           rest == IF full THEN Cache!Front(recency) ELSE recency
<1>1. /\ Distinct(recency) /\ Kept \in Nat /\ Kept <= Len(used) /\ Len(used) \in Nat
      /\ Cache!Size \in Nat \ {0} /\ cap \in Nat
      /\ KeysOf(recency) \subseteq KeysOf(used)
      /\ recency \in Seq(Keys) /\ l = Kept
  BY RecencyDistinct DEF CacheInv, CacheTyped, KeptAreUsed
<1>2. key \notin KeysOf(recency)
  BY DEF CacheInv, MapAgrees, Cache!Insert
<1>3. recency' = <<key>> \o rest
  BY Zenon DEF Cache!Insert, Cache!Evicted, Cache!Last
<1>4. full <=> Len(used) >= Cache!Size
  BY <1>1 DEF Kept, Cache!Size
<1>5. /\ rest \in Seq(Keys) /\ Len(rest) = (IF full THEN l - 1 ELSE l)
      /\ \A n \in 1..Len(rest) : rest[n] = recency[n]
  <2>1. CASE full
    <3>1. l \in Nat \ {0}
      BY <1>1, <2>1
    <3> QED BY <1>1, <2>1, <3>1, SubSeqProperties DEF Cache!Front
  <2>2. CASE ~full
    BY <1>1, <2>2
  <2> QED BY <2>1, <2>2
<1> HIDE DEF rest
<1>6. /\ recency' \in Seq(Keys) /\ Len(recency') = Len(rest) + 1
      /\ \A n \in 1..Len(rest) + 1 : recency'[n] = IF n = 1 THEN key ELSE rest[n - 1]
  BY <1>3, <1>5
<1>7. used' \in Seq(Keys) /\ \E p \in 1..Len(used) + 1 : Fronted(used', used, key, p)
  BY MoveToFrontFronts DEF CacheInv, CacheTyped
<1>8. PICK p : Fronted(used', used, key, p)
  BY <1>7
<1>9. p \in Nat /\ p > Kept /\ p <= Len(used) + 1
  <2>1. p \in 1..Len(used) + 1 /\ (p \in 1..Len(used) => used[p] = key)
    BY <1>1, <1>8 DEF Fronted
  <2>2. \A n \in 1..Kept : used[n] # key
    BY <1>1, <1>2 DEF CacheInv, KeptAreUsed, KeysOf
  <2>3. p \notin 1..Kept
    BY <1>1, <2>1, <2>2
  <2> QED BY <1>1, <2>1, <2>3
<1>10. Len(used') = IF p <= Len(used) THEN Len(used) ELSE Len(used) + 1
  BY <1>8 DEF Fronted
<1>11. Distinct(used') /\ KeysOf(used') = KeysOf(used) \cup {key}
  BY <1>8, FrontedDistinct DEF CacheInv, CacheTyped
<1>12. CacheTyped'
  BY <1>6, <1>7, <1>11 DEF CacheInv, CacheTyped, Cache!Assign
<1>13. Cache!Size' = Cache!Size
  BY DEF Cache!Size
<1>14. Kept' = Len(rest) + 1
  BY <1>1, <1>4, <1>5, <1>9, <1>10, <1>13 DEF Kept
<1>15. ASSUME NEW n \in 1..Kept' PROVE recency'[n] = used'[n]
  <2>1. n \in 1..Len(used') /\ n <= Kept + 1 /\ n <= p
    BY <1>1, <1>4, <1>5, <1>9, <1>10, <1>14 DEF Kept
  <2>2. used'[n] = IF n = 1 THEN key ELSE used[n - 1]
    BY <1>8, <2>1 DEF Fronted
  <2>3. recency'[n] = IF n = 1 THEN key ELSE rest[n - 1]
    BY <1>6, <1>14
  <2>4. n # 1 => /\ n - 1 \in 1..Len(rest) /\ n - 1 \in 1..Kept
    BY <1>1, <1>5, <1>14
  <2> QED BY <1>5, <2>2, <2>3, <2>4 DEF CacheInv, KeptAreUsed
<1>16. KeptAreUsed'
  BY <1>6, <1>14, <1>15 DEF KeptAreUsed
<1>17. KeysOf(recency') = KeysOf(rest) \cup {key}
  <2>0. Len(rest) \in Nat
    BY <1>5
  <2>1. ASSUME NEW n \in 1..Len(recency') PROVE recency'[n] \in KeysOf(rest) \cup {key}
    <3>1. CASE n = 1
      BY <1>6, <3>1
    <3>2. CASE n # 1
      <4>1. n - 1 \in 1..Len(rest) /\ recency'[n] = rest[n - 1]
        BY <1>6, <2>0, <3>2
      <4> QED BY <4>1 DEF KeysOf
    <3> QED BY <3>1, <3>2
  <2>2. \A n \in 1..Len(rest) : n + 1 \in 1..Len(recency') /\ recency'[n + 1] = rest[n]
    BY <1>5, <1>6
  <2>3. 1 \in 1..Len(recency') /\ recency'[1] = key
    BY <1>5, <1>6
  <2>4. KeysOf(recency') \subseteq KeysOf(rest) \cup {key}
    BY <2>1, Zenon DEF KeysOf
  <2>5. KeysOf(rest) \subseteq KeysOf(recency')
    BY <2>2, Zenon DEF KeysOf
  <2>6. key \in KeysOf(recency')
    BY <2>3, Zenon DEF KeysOf
  <2> QED BY <2>4, <2>5, <2>6, Zenon
<1>18. DOMAIN items \ Cache!Evicted = KeysOf(rest)
  <2>1. DOMAIN items = KeysOf(recency)
    BY DEF CacheInv, MapAgrees
  <2>2. Cache!Evicted = IF full THEN {recency[l]} ELSE {}
    BY DEF Cache!Evicted, Cache!Last
  <2>3. CASE full
    <3>1. l \in Nat \ {0}
      BY <1>1, <2>3
    <3>2. KeysOf(rest) = {recency[n] : n \in 1..l - 1}
      BY <1>5, <2>3, <3>1, Zenon DEF KeysOf
    <3>3. {recency[n] : n \in 1..l} \ {recency[l]} = {recency[n] : n \in 1..l - 1}
      BY <1>1, <3>1 DEF Distinct
    <3> QED BY <2>1, <2>2, <2>3, <3>2, <3>3, Zenon DEF KeysOf
  <2>4. CASE ~full
    <3>1. KeysOf(rest) = KeysOf(recency)
      BY <1>5, <2>4 DEF KeysOf
    <3> QED BY <2>1, <2>2, <2>4, <3>1
  <2> QED BY <2>3, <2>4
<1>19. KeysOf(rest) \subseteq KeysOf(recency)
  BY <1>1, <1>5 DEF KeysOf
<1>20. items' = Cache!Assign(Cache!Restrict(items, KeysOf(rest)), key, val)
  BY <1>18, Zenon DEF Cache!Insert
<1>21. MapAgrees'
  <2>1. \A k \in KeysOf(rest) : items[k] = written[k] /\ k # key /\ k \in DOMAIN written
    BY <1>1, <1>2, <1>19 DEF CacheInv, CacheTyped, MapAgrees
  <2>2. items' = [k \in KeysOf(rest) \cup {key} |-> IF k = key THEN val ELSE items[k]]
    BY <1>20, <2>1 DEF Cache!Assign, Cache!Restrict
  <2>3. \A k \in KeysOf(rest) \cup {key} : written'[k] = IF k = key THEN val ELSE items[k]
    BY <2>1 DEF Cache!Assign
  <2> QED BY <1>17, <2>2, <2>3 DEF MapAgrees
<1> QED BY <1>12, <1>16, <1>21 DEF CacheInv

\* The cache holds the keys used last, with the values put last, whatever was
\* evicted, put again or only read.
THEOREM MostRecentAreHeld == Spec => []HoldsMostRecent
<1>1. Init => CacheInv
  <2> SUFFICES ASSUME Init PROVE CacheInv
    OBVIOUS
  <2>1. /\ cap \in Nat /\ items = <<>> /\ recency = <<>>
        /\ used = <<>> /\ written = <<>>
    BY PracticeAssumption DEF Init, Cache!Init
  <2>2. KeysOf(used) = {} /\ KeysOf(recency) = {} /\ Len(used) = 0 /\ Len(recency) = 0
    BY <2>1 DEF KeysOf
  <2>3. Kept = 0
    BY <2>1, <2>2 DEF Kept, Cache!Size
  <2>4. <<>> = [k \in {} |-> written[k]] /\ <<>> \in [{} -> Values]
    OBVIOUS
  <2> QED
    BY <2>1, <2>2, <2>3, <2>4 DEF CacheInv, CacheTyped, KeptAreUsed, MapAgrees, Distinct
<1>2. CacheInv /\ UNCHANGED cacheVars => CacheInv'
  <2> SUFFICES ASSUME CacheInv, UNCHANGED cacheVars PROVE CacheInv'
    OBVIOUS
  <2>1. /\ cap' = cap /\ items' = items /\ recency' = recency
        /\ used' = used /\ written' = written
    BY DEF cacheVars
  <2>2. CacheTyped' /\ MapAgrees'
    BY <2>1 DEF CacheInv, CacheTyped, MapAgrees
  <2>3. Kept' = Kept
    BY <2>1 DEF Kept, Cache!Size
  <2> QED BY <2>1, <2>2, <2>3 DEF CacheInv, KeptAreUsed
<1>3. CacheInv /\ Cache!Next => CacheInv'
  <2> SUFFICES ASSUME CacheInv, NEW key \in Keys,
                      \/ Cache!Get(key)
                      \/ \E val \in Values : Cache!Put(key, val)
               PROVE  CacheInv'
    BY DEF Cache!Next
  <2>1. CASE Cache!Get(key)
    BY <2>1, HitKeeps, <1>2 DEF Cache!Get, Cache!Miss, Cache!vars, cacheVars
  <2>2. ASSUME NEW val \in Values, Cache!Put(key, val) PROVE CacheInv'
    BY <2>2, UpdateKeeps, InsertKeeps DEF Cache!Put, Cache!Note, Cache!MoveToFront
  <2> QED BY <2>1, <2>2
<1>4. CacheInv /\ [Next]_vars => CacheInv'
  <2> HIDE DEF CacheInv
  <2> QED BY <1>2, <1>3, OnePartMoves
<1>5. ASSUME CacheInv PROVE HoldsMostRecent
  <2>1. Kept \in Nat /\ Kept <= Len(used) /\ Len(used) \in Nat
    BY <1>5, RecencyDistinct
  <2>2. recency = SubSeq(used, 1, Kept)
    BY <1>5, <2>1, SubSeqProperties DEF CacheInv, CacheTyped, KeptAreUsed
  <2>3. Cache!ToSet(recency) = KeysOf(recency)
    BY <1>5 DEF CacheInv, CacheTyped, Cache!ToSet, KeysOf
  <2> QED
    BY <1>5, <2>2, <2>3
    DEF HoldsMostRecent, Cache!HoldsMostRecent, Kept, CacheInv, MapAgrees, Cache!Restrict
<1> QED BY <1>1, <1>4, <1>5, PTL DEF Spec

----------------------------------------------------------------------------
(* The broken matcher.                                                     *)

Resting == [id : MatchIds, trader : Traders, side : {"buy", "sell"},
            price : MatchPrices, qty : Nat \ {0}]
Incoming == [id : MatchIds, trader : Traders, side : {"buy", "sell"},
             price : MatchPrices, qty : Nat]
Trade == [buy : MatchIds, sell : MatchIds, price : MatchPrices, qty : Nat \ {0}]

MatcherTyped ==
  /\ orders \in Seq(Resting)
  /\ balances \in [Traders -> Int]
  /\ total \in Int /\ burnt \in Int
  /\ pc \in {"idle", "loop", "panicked"}
  /\ pc # "idle" => cur \in Incoming
  /\ i \in Nat /\ length \in Nat
  /\ trades \in Seq(Trade)

\* As long as there is no trade the slice is as long as the loop takes it to
\* be, and an order that is filled leaves the loop.
LoopFollows ==
  /\ pc = "loop" => /\ i >= 1
                    /\ trades = <<>> => Len(orders) = length
                    /\ cur.qty = 0 => i > length
  /\ pc = "panicked" => trades # <<>> /\ cur.qty > 0

\* Money is where it was put, or lost.
NoneMade == Match!Total(balances, Traders) + burnt = total

\* Who has less than nothing was given it or was charged for a sale.
OnlyChargedOwe ==
  /\ \A t \in Traders : {t} \notin charged => balances[t] >= 0
  /\ {} \notin charged => burnt >= 0

MatcherInv == MatcherTyped /\ LoopFollows /\ NoneMade /\ OnlyChargedOwe

\* The matcher adds up as Sums does.
LEMMA MatchTotalIsSum ==
  ASSUME NEW f, NEW S
  PROVE  Match!Total(f, S) = Sum(f, S)
BY Zenon DEF Match!Total, Sum, Match!MapThenSumSet, MapThenSumSet,
             Match!MapThenFoldSet, MapThenFoldSet

\* A payment is in whole units.
LEMMA CostIsInt ==
  ASSUME NEW t \in Trade
  PROVE  Match!Cost(t) \in Int
<1> DEFINE a == t.price
           b == t.qty
<1>1. a \in Int /\ b \in Nat /\ PriceUnit \in Nat \ {0}
  BY PracticeAssumption, Zenon DEF Trade
<1> HIDE DEF a, b
<1>2. a * b \in Int
  BY <1>1
<1> DEFINE n == a * b
<1> HIDE DEF n
<1>3. n \in Int /\ -n \in Int
  BY <1>2 DEF n
<1>4. n \div PriceUnit \in Int /\ (-n) \div PriceUnit \in Int
  BY <1>1, <1>3
<1>5. -((-n) \div PriceUnit) \in Int
  BY <1>4
<1>6. (IF n >= 0 THEN n \div PriceUnit ELSE -((-n) \div PriceUnit)) \in Int
  BY <1>4, <1>5, Zenon
<1> QED BY <1>6 DEF Match!Cost, n, a, b

\* What a fill leaves of the resting orders.
LEMMA ShrinkRests ==
  ASSUME NEW s \in Seq(Resting), NEW k \in 1..Len(s), NEW q \in 1..s[k].qty
  PROVE  Match!Shrink(s, k, q) \in Seq(Resting)
<1>1. s[k] \in Resting
  OBVIOUS
<1>2. CASE q = s[k].qty
  <2>1. RemoveAt(s, k) \in Seq(Resting)
    BY RemoveAtLeaves
  <2> QED BY <1>2, <2>1 DEF Match!Shrink, Match!RemoveAt, RemoveAt
<1>3. CASE q # s[k].qty
  <2>1. s[k].qty - q \in Nat \ {0}
    BY <1>1, <1>3 DEF Resting
  <2>2. [s[k] EXCEPT !.qty = s[k].qty - q] \in Resting
    BY <1>1, <2>1, Zenon DEF Resting
  <2>3. [s EXCEPT ![k] = [s[k] EXCEPT !.qty = s[k].qty - q]] \in Seq(Resting)
    BY <2>2
  <2> QED BY <1>3, <2>3 DEF Match!Shrink
<1> QED BY <1>2, <1>3

\* Balances are set.
LEMMA SetBalanceKeeps ==
  ASSUME MatcherInv, NEW t \in Traders, NEW amount \in Amounts,
         Match!SetBalance(t, amount)
  PROVE  MatcherInv'
<1> DEFINE d == amount - balances[t]
<1>1. /\ balances' = [balances EXCEPT ![t] = amount]
      /\ total' = total - balances[t] + amount /\ burnt' = burnt
      /\ charged' = charged \cup IF amount < 0 THEN {{t}} ELSE {}
      /\ amount \in Int /\ balances \in [Traders -> Int] /\ total \in Int /\ burnt \in Int
  BY PracticeAssumption DEF Match!SetBalance, MatcherInv, MatcherTyped
<1>2. MatcherTyped' /\ LoopFollows'
  BY <1>1 DEF MatcherInv, MatcherTyped, LoopFollows, Match!SetBalance, Match!callVars
<1>3. d \in Int /\ total' = total + d
  BY <1>1
<1>4. Shifted(balances, balances', Traders, t, d)
  BY <1>1, <1>3, PracticeAssumption DEF Shifted
<1> HIDE DEF d
<1>5. SumShifted(balances, balances', Traders, d)
  BY <1>4, SumShifts, Zenon
<1>6. Sum(balances, Traders) \in Int
  BY <1>1, PracticeAssumption, SumIsInt
<1> DEFINE a == Sum(balances, Traders)
           b == Sum(balances', Traders)
<1>7. b = a + d /\ a + burnt = total /\ a \in Int
  BY <1>5, <1>6, MatchTotalIsSum, Zenon DEF SumShifted, MatcherInv, NoneMade
<1>8. b + burnt' = total'
  <2> HIDE DEF a, b
  <2> QED BY <1>1, <1>3, <1>7
<1>9. NoneMade'
  BY <1>8, MatchTotalIsSum, Zenon DEF NoneMade
<1>10. OnlyChargedOwe'
  <2>1. charged \subseteq charged' /\ (amount < 0 => {t} \in charged')
    BY <1>1, Zenon
  <2>2. ASSUME NEW u \in Traders, {u} \notin charged' PROVE balances'[u] >= 0
    <3>1. CASE u = t
      <4>1. ~(amount < 0)
        BY <2>1, <2>2, <3>1, Zenon
      <4> QED BY <1>1, <3>1, <4>1
    <3>2. CASE u # t
      <4>1. balances'[u] = balances[u]
        BY <1>1, <3>2
      <4> QED BY <2>1, <2>2, <4>1, Zenon DEF MatcherInv, OnlyChargedOwe
    <3> QED BY <3>1, <3>2
  <2>3. {} \notin charged' => burnt' >= 0
    BY <1>1, <2>1, Zenon DEF MatcherInv, OnlyChargedOwe
  <2> QED BY <2>2, <2>3, Zenon DEF OnlyChargedOwe
<1> QED BY <1>2, <1>9, <1>10 DEF MatcherInv

\* A call begins, a turn of the loop passes, or the loop runs off.
LEMMA LoopKeeps ==
  ASSUME MatcherInv,
         \/ \E o \in Match!Order : Match!PlaceOrder(o)
         \/ Match!Pass \/ Match!Overrun
  PROVE  MatcherInv'
<1>1. NoneMade' /\ OnlyChargedOwe'
  BY DEF MatcherInv, NoneMade, OnlyChargedOwe, Match!PlaceOrder, Match!Pass, Match!Overrun
<1>2. ASSUME NEW o \in Match!Order, Match!PlaceOrder(o) PROVE MatcherTyped' /\ LoopFollows'
  <2>1. o \in Incoming /\ o.qty > 0
    <3>0. o.qty \in MatchQuantities
      BY DEF Match!Order
    <3>1. o.qty > 0
      BY <1>2 DEF Match!PlaceOrder
    <3>2. MatchQuantities \subseteq Int
      BY PracticeAssumption
    <3>3. o.qty \in Nat
      <4> DEFINE q == o.qty
      <4>1. q \in MatchQuantities /\ q > 0
        BY <3>0, <3>1
      <4> HIDE DEF q
      <4>2. q \in Int
        BY <3>2, <4>1, Zenon
      <4>3. q \in Nat
        BY <4>1, <4>2
      <4> QED BY <4>3 DEF q
    <3> QED BY <3>1, <3>3 DEF Match!Order, Incoming
  <2>2. Len(orders) \in Nat
    BY DEF MatcherInv, MatcherTyped
  <2> QED BY <1>2, <2>1, <2>2 DEF MatcherInv, MatcherTyped, LoopFollows, Match!PlaceOrder
<1>3. ASSUME Match!Pass PROVE MatcherTyped' /\ LoopFollows'
  BY <1>3 DEF MatcherInv, MatcherTyped, LoopFollows, Match!Pass
<1>4. ASSUME Match!Overrun PROVE MatcherTyped' /\ LoopFollows'
  <2>1. cur \in Incoming /\ Len(orders) \in Nat
    BY <1>4 DEF MatcherInv, MatcherTyped, Match!Overrun
  <2>2. cur.qty > 0
    BY <1>4, <2>1 DEF MatcherInv, MatcherTyped, LoopFollows, Match!Overrun, Incoming
  <2>3. trades # <<>>
    BY <1>4, <2>1 DEF MatcherInv, MatcherTyped, LoopFollows, Match!Overrun
  <2> QED BY <1>4, <2>1, <2>2, <2>3 DEF MatcherInv, MatcherTyped, LoopFollows, Match!Overrun
<1> QED BY <1>1, <1>2, <1>3, <1>4 DEF MatcherInv

\* The incoming order trades with a resting one.
LEMMA FillKeeps ==
  ASSUME MatcherInv, Match!Fill
  PROVE  MatcherInv'
<1> DEFINE r == orders[i]
           q == IF r.qty < cur.qty THEN r.qty ELSE cur.qty
           t == [buy   |-> IF cur.side = "buy" THEN cur.id ELSE r.id,
                 sell  |-> IF cur.side = "buy" THEN r.id ELSE cur.id,
                 price |-> r.price, qty |-> q]
<1>1. /\ pc = "loop" /\ pc' = pc
      /\ trades' = Append(trades, t)
      /\ cur' = [cur EXCEPT !.qty = @ - q]
      /\ orders' = Match!Shrink(orders, i, q)
      /\ i' = (IF cur.qty = q THEN length + 1 ELSE i + 1)
      /\ i <= length /\ i <= Len(orders)
      /\ balances' = balances /\ length' = length /\ total' = total /\ burnt' = burnt
      /\ charged' = charged
  BY DEF Match!Fill
<1>2. /\ orders \in Seq(Resting) /\ cur \in Incoming /\ trades \in Seq(Trade)
      /\ i \in Nat /\ length \in Nat /\ i >= 1
  BY <1>1 DEF MatcherInv, MatcherTyped, LoopFollows
<1>3. i \in 1..Len(orders) /\ r \in Resting
  BY <1>1, <1>2
<1>4. cur.qty \in Nat \ {0}
  BY <1>1, <1>2 DEF MatcherInv, LoopFollows, Incoming
<1>5. q \in Nat \ {0} /\ q \in 1..r.qty /\ q <= cur.qty
  BY <1>3, <1>4 DEF Resting
<1>6. t \in Trade
  BY <1>2, <1>3, <1>5 DEF Trade, Resting, Incoming
<1> HIDE DEF t
<1>7. trades' \in Seq(Trade) /\ trades' # <<>>
  <2>1. trades' \in Seq(Trade) /\ Len(trades') = Len(trades) + 1 /\ Len(trades) \in Nat
    BY <1>1, <1>2, <1>6, AppendProperties
  <2> QED BY <2>1
<1>8. cur' \in Incoming /\ cur'.qty = cur.qty - q
  BY <1>1, <1>2, <1>4, <1>5 DEF Incoming
<1>9. orders' \in Seq(Resting)
  BY <1>1, <1>2, <1>3, <1>5, ShrinkRests
<1> HIDE DEF q
<1>10. MatcherTyped'
  BY <1>1, <1>2, <1>7, <1>8, <1>9 DEF MatcherInv, MatcherTyped
<1>11. LoopFollows'
  BY <1>1, <1>2, <1>4, <1>5, <1>7, <1>8 DEF LoopFollows
<1>12. NoneMade' /\ OnlyChargedOwe'
  BY <1>1 DEF MatcherInv, NoneMade, OnlyChargedOwe
<1> QED BY <1>10, <1>11, <1>12 DEF MatcherInv

\* The end of a call leaves what is left of the order in the slice.
LEMMA ReturnRests ==
  ASSUME MatcherInv, pc = "loop", Match!Return
  PROVE  orders' \in Seq(Resting) /\ trades' \in Seq(Trade) /\ i' = 0 /\ length' = 0 /\ pc' = "idle"
<1>1. cur \in Incoming /\ orders \in Seq(Resting)
  BY DEF MatcherInv, MatcherTyped
<1>2. cur.qty > 0 => cur \in Resting
  BY <1>1 DEF Incoming, Resting
<1> QED BY <1>1, <1>2 DEF Match!Return

\* A call that ends without payments.
LEMMA UnpaidKeeps ==
  ASSUME MatcherInv, Match!Sold \/ Match!Insufficient
  PROVE  MatcherInv'
<1>1. /\ pc = "loop" /\ pc' = "idle"
      /\ balances' = balances /\ total' = total /\ burnt' = burnt /\ charged' = charged
      /\ orders' \in Seq(Resting) /\ trades' \in Seq(Trade) /\ i' = 0 /\ length' = 0
  <2>1. CASE Match!Sold
    <3>1. pc = "loop" /\ Match!Return
      BY <2>1 DEF Match!Sold
    <3> QED BY <2>1, <3>1, ReturnRests DEF Match!Sold
  <2>2. CASE Match!Insufficient
    BY <2>2 DEF Match!Insufficient, MatcherInv, MatcherTyped
  <2> QED BY <2>1, <2>2
<1>2. MatcherTyped' /\ LoopFollows'
  BY <1>1 DEF MatcherInv, MatcherTyped, LoopFollows
<1>3. NoneMade' /\ OnlyChargedOwe'
  BY <1>1 DEF MatcherInv, NoneMade, OnlyChargedOwe
<1> QED BY <1>2, <1>3 DEF MatcherInv

\* What each trade costs, and whom it pays.
CostAt == [k \in 1..Len(trades) |-> Match!Cost(trades[k])]
PaidTo == [k \in 1..Len(trades) |-> Match!Payees(trades[k])]

\* A payment goes to one trader or to nobody.
LEMMA PaymentsAreGivenAway ==
  ASSUME MatcherInv
  PROVE  /\ GivenAway(CostAt, PaidTo, 1..Len(trades), Traders)
         /\ \A k \in 1..Len(trades) : CostAt[k] \in Int
<1>1. /\ orders \in Seq(Resting) /\ trades \in Seq(Trade)
      /\ Len(trades) \in Nat /\ Len(orders) \in Nat
  BY DEF MatcherInv, MatcherTyped
<1>2. \A k \in 1..Len(trades) : CostAt[k] \in Int
  <2> SUFFICES ASSUME NEW k \in 1..Len(trades) PROVE Match!Cost(trades[k]) \in Int
    BY DEF CostAt
  <2>1. trades[k] \in Trade
    BY <1>1
  <2> QED BY <2>1, CostIsInt
<1>3. ASSUME NEW k \in 1..Len(trades)
      PROVE  PaidTo[k] = {} \/ \E u \in Traders : PaidTo[k] = {u}
  <2> DEFINE found == {n \in 1..Len(orders) : orders[n].id = trades[k].sell}
  <2>1. PaidTo[k] = IF found = {} THEN {} ELSE {orders[Match!Min(found)].trader}
    BY DEF PaidTo, Match!Payees
  <2>2. CASE found # {}
    <3>1. found \subseteq Nat
      BY <1>1
    <3> DEFINE T == found
    <3> HIDE DEF found
    <3>2. PICK n \in found : \A m \in found : ~(m < n)
      BY <2>2, <3>1, NatMin, Zenon
    <3>3. n \in found /\ \A m \in found : n <= m
      BY <3>1, <3>2
    <3>4. Match!Min(found) \in found
      BY <3>3 DEF Match!Min
    <3>5. orders[Match!Min(found)] \in Resting
      BY <1>1, <3>4 DEF found
    <3> QED BY <2>1, <2>2, <3>5 DEF Resting
  <2> QED BY <2>1, <2>2, Zenon
<1>4. IsFiniteSet(1..Len(trades)) /\ IsFiniteSet(Traders)
  BY <1>1, FS_Interval, PracticeAssumption
<1> QED BY <1>2, <1>3, <1>4 DEF GivenAway

\* Who is to receive less than nothing is noted.
LEMMA ChargesAreNoted ==
  ASSUME Match!Bought
  PROVE  /\ charged \subseteq charged'
         /\ \A k \in 1..Len(trades) : CostAt[k] < 0 => PaidTo[k] \in charged'
<1> DEFINE K == 1..Len(trades)
           new == {Match!Payees(trades[k]) : k \in {n \in K : Match!Cost(trades[n]) < 0}}
<1>1. charged' = charged \cup new
  BY DEF Match!Bought
<1>2. ASSUME NEW k \in K, CostAt[k] < 0 PROVE PaidTo[k] \in new
  <2>1. CostAt[k] = Match!Cost(trades[k]) /\ PaidTo[k] = Match!Payees(trades[k])
    BY DEF CostAt, PaidTo
  <2> QED BY <1>2, <2>1, Zenon
<1> QED BY <1>1, <1>2, Zenon

\* A buyer pays what is covered, sellers receive it, and the rest is lost.
LEMMA BoughtKeeps ==
  ASSUME MatcherInv, Match!Bought
  PROVE  MatcherInv'
<1> DEFINE K == 1..Len(trades)
           c == CostAt
           pay == PaidTo
           R == Shares(c, pay, K, Traders)
           C == Sum(c, K)
           N == Nobodys(c, pay, K)
           mid == [u \in Traders |-> balances[u] + R[u]]
           b == cur.trader
<1>1. GivenAway(c, pay, K, Traders) /\ \A k \in K : c[k] \in Int
  BY PaymentsAreGivenAway
<1>2. AddUp(c, pay, K, Traders)
  BY <1>1, SharesAddUp, Zenon
<1>3. IsFiniteSet(K) /\ IsFiniteSet(Traders)
  BY <1>1 DEF GivenAway
<1>4. /\ pc = "loop" /\ Match!Return /\ Match!Covered
      /\ balances' = [u \in Traders |-> balances[u] + Match!Received(u)
                        - IF u = cur.trader THEN Match!Costs(1..Len(trades)) ELSE 0]
      /\ burnt' = burnt + Match!Costs({k \in 1..Len(trades) : Match!Payees(trades[k]) = {}})
      /\ total' = total
  BY DEF Match!Bought
<1>5. /\ balances \in [Traders -> Int] /\ total \in Int /\ burnt \in Int /\ b \in Traders
  BY <1>4 DEF MatcherInv, MatcherTyped, Incoming
<1>6. ASSUME NEW ks PROVE Match!Costs(ks) = Sum(c, ks)
  BY MatchTotalIsSum DEF Match!Costs, CostAt
<1>7. \A u \in Traders : Match!Received(u) = R[u]
  <2> SUFFICES ASSUME NEW u \in Traders PROVE Match!Received(u) = R[u]
    OBVIOUS
  <2>1. {k \in K : u \in Match!Payees(trades[k])} = {k \in K : u \in pay[k]}
    BY DEF PaidTo
  <2>2. Match!Received(u) = Sum(c, {k \in K : u \in pay[k]})
    BY <1>6, <2>1 DEF Match!Received
  <2> QED BY <2>2 DEF Shares, ShareOf
<1>8. burnt' = burnt + N
  <2>1. {k \in K : Match!Payees(trades[k]) = {}} = {k \in K : pay[k] = {}}
    BY Zenon DEF PaidTo
  <2> QED BY <1>4, <1>6, <2>1, Zenon DEF Nobodys
<1>9. charged \subseteq charged' /\ \A k \in K : c[k] < 0 => pay[k] \in charged'
  BY ChargesAreNoted
<1> HIDE DEF c, pay
<1>10. /\ C \in Int /\ N \in Int /\ \A u \in Traders : R[u] \in Int
  <2>1. \A ks \in SUBSET K : Sum(c, ks) \in Int
    BY <1>1, <1>3, FS_Subset, SumIsInt, Zenon
  <2>2. /\ K \in SUBSET K /\ {k \in K : pay[k] = {}} \in SUBSET K
        /\ \A u \in Traders : {k \in K : u \in pay[k]} \in SUBSET K
    OBVIOUS
  <2> QED BY <2>1, <2>2 DEF Nobodys, Shares, ShareOf
<1>11. /\ \A u \in Traders : {u} \notin charged' => R[u] \in Nat
       /\ {} \notin charged' => N \in Nat
  <2>1. ASSUME NEW x, x \notin charged', NEW ks \in SUBSET K, \A k \in ks : pay[k] = x
        PROVE  Sum(c, ks) \in Nat
    <3>1. \A k \in ks : c[k] \in Int /\ ~(c[k] < 0)
      BY <1>1, <1>9, <2>1, Zenon
    <3>2. \A k \in ks : c[k] \in Nat
      BY <3>1
    <3> QED BY <1>3, <2>1, <3>2, FS_Subset, SumIsNat, Zenon
  <2>2. ASSUME NEW u \in Traders, {u} \notin charged' PROVE R[u] \in Nat
    <3> DEFINE ks == {k \in K : u \in pay[k]}
    <3>1. \A k \in ks : pay[k] = {u}
      BY <1>1, Zenon DEF GivenAway
    <3>2. Sum(c, ks) \in Nat
      BY <2>1, <2>2, <3>1
    <3> QED BY <3>2 DEF Shares, ShareOf
  <2>3. ASSUME {} \notin charged' PROVE N \in Nat
    BY <2>1, <2>3 DEF Nobodys
  <2> QED BY <2>2, <2>3
<1>12. C <= balances[b]
  BY <1>4, <1>6 DEF Match!Covered
<1>13. \A u \in Traders : balances'[u] = mid[u] - IF u = b THEN C ELSE 0
  <2>1. Match!Costs(1..Len(trades)) = C
    BY <1>6
  <2> SUFFICES ASSUME NEW u \in Traders
               PROVE  balances'[u] = mid[u] - IF u = b THEN C ELSE 0
    OBVIOUS
  <2> DEFINE due == IF u = b THEN C ELSE 0
  <2>2. balances'[u] = balances[u] + Match!Received(u) - due
    BY <1>4, <2>1
  <2>3. Match!Received(u) = R[u]
    BY <1>7
  <2>4. mid[u] = balances[u] + R[u]
    OBVIOUS
  <2> DEFINE B == balances[u]
             q == R[u]
  <2>5. due \in Int /\ B \in Int /\ q \in Int
    BY <1>5, <1>10
  <2> HIDE DEF R, C, mid, due
  <2>6. balances'[u] = B + q - due /\ mid[u] = B + q
    BY <2>2, <2>3, <2>4, Zenon
  <2> HIDE DEF B, q
  <2>7. balances'[u] = mid[u] - due
    BY <2>5, <2>6
  <2> QED BY <2>7 DEF due
<1> HIDE DEF R, C, N, b
<1>14. \A u \in Traders : mid[u] = balances[u] + R[u] /\ mid[u] \in Int
  BY <1>5, <1>10
<1> HIDE DEF mid
<1>15. balances' \in [Traders -> Int]
  <2>1. \A u \in Traders : balances'[u] \in Int
    BY <1>5, <1>10, <1>13, <1>14
  <2>2. balances' = [u \in Traders |-> balances'[u]]
    BY <1>4
  <2> QED BY <2>1, <2>2
<1>16. SumsTogether(balances, R, mid, Traders)
  <2>1. Together(balances, R, mid, Traders)
    BY <1>3, <1>5, <1>10, <1>14 DEF Together
  <2> QED BY <2>1, SumAdds, Zenon
<1>17. SumShifted(mid, balances', Traders, -C)
  <2>1. Shifted(mid, balances', Traders, b, -C)
    BY <1>3, <1>5, <1>10, <1>13, <1>14 DEF Shifted
  <2> QED BY <2>1, SumShifts, Zenon
<1>18. Sum(balances, Traders) + burnt = total
  BY MatchTotalIsSum, Zenon DEF MatcherInv, NoneMade
<1>19. /\ Sum(balances, Traders) \in Int /\ Sum(R, Traders) \in Int
  <2>1. \A u \in Traders : balances[u] \in Int /\ R[u] \in Int
    BY <1>5, <1>10
  <2> QED BY <1>3, <2>1, SumIsInt
<1>20. Sum(balances', Traders) + burnt' = total'
  <2> DEFINE x == Sum(balances, Traders)
             y == Sum(R, Traders)
             z == Sum(mid, Traders)
             w == Sum(balances', Traders)
  <2>1. z = x + y /\ w = z + (-C) /\ y + N = C
    BY <1>2, <1>16, <1>17, Zenon DEF SumsTogether, SumShifted, AddUp, R, N, C
  <2>2. x \in Int /\ y \in Int /\ x + burnt = total
    BY <1>18, <1>19
  <2> HIDE DEF x, y, z, w
  <2>3. burnt' = burnt + N /\ total' = total /\ C \in Int /\ N \in Int /\ burnt \in Int
    BY <1>4, <1>5, <1>8, <1>10
  <2>4. w + burnt' = total'
    BY <2>1, <2>2, <2>3
  <2> QED BY <2>4 DEF w
<1>21. NoneMade'
  BY <1>20, MatchTotalIsSum, Zenon DEF NoneMade
<1>22. /\ orders' \in Seq(Resting) /\ trades' \in Seq(Trade)
       /\ i' = 0 /\ length' = 0 /\ pc' = "idle"
  BY <1>4, ReturnRests
<1>23. MatcherTyped' /\ LoopFollows'
  BY <1>4, <1>5, <1>8, <1>10, <1>15, <1>22 DEF MatcherTyped, LoopFollows
<1>24. OnlyChargedOwe'
  <2>1. ASSUME NEW u \in Traders, {u} \notin charged' PROVE balances'[u] >= 0
    <3>1. R[u] \in Nat /\ {u} \notin charged
      BY <1>9, <1>11, <2>1, Zenon
    <3>2. balances[u] \in Int /\ balances[u] >= 0
      BY <1>5, <3>1 DEF MatcherInv, OnlyChargedOwe
    <3>3. mid[u] = balances[u] + R[u] /\ C \in Int
      BY <1>10, <1>14
    <3>4. mid[u] \in Int /\ mid[u] >= balances[u]
      BY <3>1, <3>2, <3>3
    <3>5. CASE u = b
      <4>1. balances'[u] = mid[u] - C /\ C <= balances[u]
        BY <1>12, <1>13, <3>5, Zenon
      <4> QED BY <3>2, <3>3, <3>4, <4>1
    <3>6. CASE u # b
      <4>1. balances'[u] = mid[u] - 0
        BY <1>13, <3>6, Zenon
      <4> QED BY <3>2, <3>4, <4>1
    <3> QED BY <3>5, <3>6
  <2>2. ASSUME {} \notin charged' PROVE burnt' >= 0
    <3>1. N \in Nat /\ burnt >= 0
      BY <1>9, <1>11, <2>2, Zenon DEF MatcherInv, OnlyChargedOwe
    <3> QED BY <1>5, <1>8, <3>1
  <2> QED BY <2>1, <2>2, Zenon DEF OnlyChargedOwe
<1> QED BY <1>21, <1>23, <1>24 DEF MatcherInv

\* Sorting moves the orders only.
LEMMA SortKeeps ==
  ASSUME MatcherInv, Match!SortOrders
  PROVE  MatcherInv'
<1> DEFINE l == Len(orders)
<1>1. orders \in Seq(Resting) /\ l \in Nat
  BY DEF MatcherInv, MatcherTyped
<1>2. PICK f \in Match!Bijection(1..l, 1..l) : orders' = [k \in 1..l |-> orders[f[k]]]
  BY DEF Match!SortOrders
<1>3. \A k \in 1..l : f[k] \in 1..l
  BY <1>2 DEF Match!Bijection, Match!Injection
<1>4. orders' \in Seq(Resting)
  <2>1. \A k \in 1..l : orders[f[k]] \in Resting
    BY <1>1, <1>3
  <2> QED BY <1>1, <1>2, <2>1
<1>5. /\ pc = "idle"
      /\ UNCHANGED <<balances, pc, cur, i, length, trades, calls, total, burnt, charged>>
  BY DEF Match!SortOrders, Match!callVars
<1>6. MatcherTyped' /\ LoopFollows'
  BY <1>4, <1>5 DEF MatcherInv, MatcherTyped, LoopFollows
<1>7. NoneMade' /\ OnlyChargedOwe'
  BY <1>5 DEF MatcherInv, NoneMade, OnlyChargedOwe
<1> QED BY <1>6, <1>7 DEF MatcherInv

\* At whatever prices, all that was set is on a balance or went to nobody,
\* nobody owes but who was given or charged less than nothing, and the loop
\* runs off the slice only when a trade has cut it.
THEOREM DamageStaysKnown == Spec => []DamageIsKnown
<1>1. Init => MatcherInv
  <2> SUFFICES ASSUME Init PROVE MatcherInv
    OBVIOUS
  <2>1. /\ orders = <<>> /\ balances = [t \in Traders |-> 0] /\ pc = "idle"
        /\ i = 0 /\ length = 0 /\ trades = <<>> /\ total = 0 /\ burnt = 0
        /\ charged = {}
    BY DEF Init, Match!Init
  <2>2. Sum(balances, Traders) = 0
    <3>1. IsFiniteSet(Traders) /\ \A t \in Traders : balances[t] = 0
      BY <2>1, PracticeAssumption
    <3> QED BY <3>1, SumOfZeros
  <2>3. Match!Total(balances, Traders) = 0
    BY <2>2, MatchTotalIsSum, Zenon
  <2> QED BY <2>1, <2>3 DEF MatcherInv, MatcherTyped, LoopFollows, NoneMade, OnlyChargedOwe
<1>2. MatcherInv /\ UNCHANGED matcherVars => MatcherInv'
  BY DEF matcherVars, MatcherInv, MatcherTyped, LoopFollows, NoneMade, OnlyChargedOwe
<1>3. MatcherInv /\ Match!Next => MatcherInv'
  BY SetBalanceKeeps, LoopKeeps, FillKeeps, UnpaidKeeps, BoughtKeeps, SortKeeps
  DEF Match!Next
<1>4. MatcherInv /\ [Next]_vars => MatcherInv'
  <2> HIDE DEF MatcherInv
  <2> QED BY <1>2, <1>3, OnePartMoves
<1>5. ASSUME MatcherInv PROVE DamageIsKnown
  <2>1. \A k \in 1..Len(orders) : orders[k].qty > 0
    <3>1. \A k \in 1..Len(orders) : orders[k] \in Resting
      BY <1>5 DEF MatcherInv, MatcherTyped
    <3> QED BY <3>1 DEF Resting
  <2> QED BY <1>5, <2>1
          DEF MatcherInv, LoopFollows, NoneMade, OnlyChargedOwe, DamageIsKnown,
              Match!DamageIsKnown
<1> QED BY <1>1, <1>4, <1>5, PTL DEF Spec
=============================================================================
