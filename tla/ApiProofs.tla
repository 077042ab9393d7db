------------------------------ MODULE ApiProofs ------------------------------
(***************************************************************************)
(* Theorems about the handlers: a retry in time is replayed, and whoever   *)
(* learns of an order from an answer or a replay comes after its events.   *)
(***************************************************************************)
EXTENDS Api, SequenceTheorems, FiniteSetTheorems, TLAPS

\* What a handler knows, and where it is: before the market has the order,
\* publishing the order, or publishing a cancellation.
Starting == {"lookup", "read", "write", "format", "place"}
Early == {"idle"} \cup Starting
Publishing == {"publish", "trades"}

\* An id is formatted from the clock and the counter.
Ids == Int \X Int

Calls == [pc : Early \cup Publishing \cup {"cancelled"}, key : Keys \cup {NoKey},
          n : Int, id : Ids, order : Int, todo : Seq(Int)]

\* The numbers the market has given.
Numbers == 1..Len(orders)

Typed ==
  /\ store \in [Keys -> Guard!Record \cup {NoRecord}]
  /\ now \in Nat /\ idCounter \in Int /\ kept \in [Keys -> Int]
  /\ call \in [Threads -> Calls]
  /\ orders \in Seq([id : Ids, key : Keys \cup {NoKey}])
  /\ events \in [OrderNumbers -> Seq(Int)]
  /\ book \in SUBSET Numbers /\ answered \in SUBSET Numbers
  /\ trades \in SUBSET (Numbers \X Numbers)
  /\ requests \in Nat

\* A request that was looked up has a key, and one that is being published or
\* cancelled has a number.
Located ==
  \A t \in Threads :
    /\ call[t].pc = "lookup" => call[t].key \in Keys
    /\ call[t].pc \in Publishing \cup {"cancelled"} => call[t].order \in Numbers

\* The requests the market has not got yet and those it numbered were all made.
Started == {t \in Threads : call[t].pc \in Starting}
Numbered == Len(orders) + Cardinality(Started) <= requests /\ requests <= MaxRequests

TypedInv == Typed /\ Located /\ Numbered

----------------------------------------------------------------------------
(* The types, and what moves.                                              *)

\* What is left alone by whatever comes before the market.
Unmoved == UNCHANGED <<orders, book, trades, events, answered, kept>>

\* A step of a handler before the market has its order.
Early1(t) ==
  /\ call' \in [Threads -> Calls]
  /\ \A u \in Threads \ {t} : call'[u] = call[u]
  /\ call[t].pc \in Early /\ call'[t].pc \in Early
  /\ call'[t].pc = "lookup" => call'[t].key \in Keys
  /\ Unmoved
  /\ IF call[t].pc = "idle" THEN requests < MaxRequests /\ requests' = requests + 1
     ELSE requests' = requests

LEMMA EarlySteps ==
  ASSUME TypedInv, NEW t \in Threads,
         \/ \E key \in Keys \cup {NoKey} : Request(t, key)
         \/ LookupKey(t) \/ ReadCounter(t) \/ WriteCounter(t) \/ FormatID(t) \/ Refused(t)
  PROVE  Early1(t) /\ idCounter' \in Int
<1> USE DEF Early, Starting
<1>0. call \in [Threads -> Calls] /\ call[t] \in Calls /\ idCounter \in Int /\ now \in Nat
  BY DEF TypedInv, Typed
<1>00. Idle \in Calls /\ Idle.pc = "idle"
  BY DEF Idle, Calls, Ids
<1>1. ASSUME NEW key \in Keys \cup {NoKey}, Request(t, key) PROVE Early1(t) /\ idCounter' \in Int
  <2> DEFINE c == [call[t] EXCEPT !.pc = IF key = NoKey THEN "read" ELSE "lookup", !.key = key]
  <2>1. c \in Calls /\ c.pc \in Starting /\ (c.pc = "lookup" => c.key \in Keys)
    BY <1>0 DEF Calls
  <2>2. call' = [call EXCEPT ![t] = c]
    BY <1>0, <1>1 DEF Request, Calls
  <2> HIDE DEF c
  <2>3. call[t].pc = "idle"
    BY <1>1, <1>00 DEF Request
  <2> QED BY <1>0, <1>1, <2>1, <2>2, <2>3 DEF Early1, Request, Unmoved, marketVars, guardVars
<1>2. CASE LookupKey(t)
  <2> DEFINE c == IF found' # NoRecord THEN Idle ELSE [call[t] EXCEPT !.pc = "read"]
  <2>1. c \in Calls /\ c.pc \in Early /\ c.pc # "lookup"
    BY <1>0, <1>00 DEF Calls
  <2>2. call' = [call EXCEPT ![t] = c]
    BY <1>2 DEF LookupKey
  <2> HIDE DEF c
  <2> QED BY <1>0, <1>2, <2>1, <2>2 DEF Early1, LookupKey, Unmoved, marketVars, historyVars
<1>3. CASE ReadCounter(t)
  <2> DEFINE c == [call[t] EXCEPT !.pc = "write", !.n = idCounter]
  <2>1. c \in Calls /\ c.pc = "write"
    BY <1>0 DEF Calls
  <2>2. call' = [call EXCEPT ![t] = c]
    BY <1>0, <1>3 DEF ReadCounter, Calls
  <2> HIDE DEF c
  <2> QED BY <1>0, <1>3, <2>1, <2>2 DEF Early1, ReadCounter, Unmoved, marketVars, historyVars
<1>4. CASE WriteCounter(t)
  <2> DEFINE c == [call[t] EXCEPT !.pc = "format"]
  <2>0. call[t].n \in Int
    BY <1>0 DEF Calls
  <2>3. idCounter' \in Int
    BY <1>4, <2>0 DEF WriteCounter
  <2>1. c \in Calls /\ c.pc = "format"
    BY <1>0 DEF Calls
  <2>2. call' = [call EXCEPT ![t] = c]
    BY <1>0, <1>4 DEF WriteCounter
  <2> HIDE DEF c
  <2> QED BY <1>0, <1>4, <2>1, <2>2, <2>3 DEF Early1, WriteCounter, Unmoved, marketVars, historyVars
<1>5. CASE FormatID(t)
  <2>0. PICK m \in {call[t].n + 1, idCounter} :
           call' = [call EXCEPT ![t].pc = "place", ![t].n = 0, ![t].id = <<now, m>>]
    BY <1>5 DEF FormatID
  <2>3. <<now, m>> \in Ids
    <3>1. m \in Int
      BY <1>0 DEF Calls
    <3> QED BY <1>0, <3>1 DEF Ids
  <2> DEFINE made == <<now, m>>
             c == [call[t] EXCEPT !.pc = "place", !.n = 0, !.id = made]
  <2>2. call' = [call EXCEPT ![t] = c]
    BY <1>0, <2>0 DEF Calls
  <2>4. made \in Ids
    BY <2>3
  <2> HIDE DEF made
  <2>1. c \in Calls /\ c.pc = "place"
    <3> DEFINE d == [call[t] EXCEPT !.pc = "place"]
               e == [d EXCEPT !.n = 0]
    <3>1. d \in Calls /\ d.pc = "place"
      BY <1>0 DEF Calls
    <3> HIDE DEF d
    <3>2. e \in Calls /\ e.pc = "place"
      BY <3>1 DEF Calls
    <3> HIDE DEF e
    <3>3. c = [e EXCEPT !.id = made]
      BY DEF d, e
    <3> HIDE DEF c
    <3> QED BY <2>4, <3>2, <3>3 DEF Calls
  <2> HIDE DEF c
  <2> QED BY <1>0, <1>5, <2>1, <2>2 DEF Early1, FormatID, Unmoved, marketVars, historyVars
<1>6. CASE Refused(t)
  <2>2. call' = [call EXCEPT ![t] = Idle]
    BY <1>6 DEF Refused
  <2> QED BY <1>0, <1>00, <1>6, <2>2 DEF Early1, Refused, Unmoved, marketVars, historyVars
<1> QED BY <1>1, <1>2, <1>3, <1>4, <1>5, <1>6


\* What the market does with an order: it gets a number, trades with resting
\* orders, which may go, and may rest.
NewOrder(t, makers) ==
  /\ call[t].pc = "place"
  /\ makers \subseteq book
  /\ orders' \in Seq([id : Ids, key : Keys \cup {NoKey}])
  /\ Len(orders') = Len(orders) + 1
  /\ orders'[Len(orders')].key = call[t].key
  /\ \A o \in Numbers : orders'[o] = orders[o]
  /\ book' \subseteq book \cup {Len(orders')}
  /\ trades' = trades \cup {<<Len(orders'), r>> : r \in makers}

LEMMA MatchedAdds ==
  ASSUME TypedInv, NEW t \in Threads,
         NEW makers, NEW gone, NEW rests, Matched(t, makers, gone, rests)
  PROVE  NewOrder(t, makers)
<1> DEFINE o == [id |-> call[t].id, key |-> call[t].key]
           S == [id : Ids, key : Keys \cup {NoKey}]
<1>1. orders \in Seq(S) /\ o \in S
  BY DEF TypedInv, Typed, Calls, Ids
<1>2. orders' = Append(orders, o) /\ o.key = call[t].key
  BY DEF Matched
<1> HIDE DEF o, S
<1>3. /\ orders' \in Seq(S) /\ Len(orders') = Len(orders) + 1
      /\ orders'[Len(orders')] = o
      /\ \A n \in 1..Len(orders) : orders'[n] = orders[n]
  BY <1>1, <1>2, AppendProperties
<1>4. book' \subseteq book \cup {Len(orders')}
  BY <1>3 DEF Matched
<1> QED BY <1>2, <1>3, <1>4 DEF Matched, NewOrder, Numbers, S

\* A finite set is listed, each element once.
LEMMA SetToSeqLists ==
  ASSUME NEW S, IsFiniteSet(S)
  PROVE  /\ SetToSeq(S) \in Seq(S)
         /\ IsInjective(SetToSeq(S))
         /\ ToSet(SetToSeq(S)) = S
<1> DEFINE n == Cardinality(S)
           s == SetToSeq(S)
<1>1. n \in Nat /\ \E f : f \in Bijection(1..n, S)
  BY FS_CardinalityType DEF ExistsBijection
<1>2. PICK f : f \in Bijection(1..n, S)
  BY <1>1
<1>3. f \in [1..n -> S] /\ IsInjective(f)
  BY <1>2 DEF Bijection, Injection, IsInjective
<1>4. s \in [1..n -> S] /\ IsInjective(s)
  BY <1>3 DEF SetToSeq
<1> HIDE DEF s
<1>5. s \in Injection(1..n, S)
  BY <1>4 DEF Injection, IsInjective
<1>6. IsFiniteSet(1..n) /\ Cardinality(1..n) = n
  BY <1>1, FS_Interval
<1>7. s \in Surjection(1..n, S)
  BY <1>5, <1>6, FS_Injection, Zenon
<1>8. s \in Seq(S) /\ DOMAIN s = 1..n
  BY <1>1, <1>4
<1>9. ToSet(s) = S
  BY <1>4, <1>7, <1>8, Zenon DEF ToSet, Surjection
<1> QED BY <1>4, <1>8, <1>9 DEF s

\* The handlers that have started, when only t moves.
LEMMA StartedCounts ==
  ASSUME call \in [Threads -> Calls], NEW t \in Threads,
         \A u \in Threads \ {t} : call'[u] = call[u]
  PROVE  /\ Cardinality(Started) \in Nat /\ Cardinality(Started') \in Nat
         /\ Cardinality(Started') <= Cardinality(Started) + 1
         /\ call[t].pc \in Starting \/ call'[t].pc \notin Starting
              => Cardinality(Started') <= Cardinality(Started)
         /\ call[t].pc \in Starting /\ call'[t].pc \notin Starting
              => Cardinality(Started') = Cardinality(Started) - 1
<1> DEFINE rest == Started \ {t}
<1>1. IsFiniteSet(Started) /\ IsFiniteSet(rest)
  <2>1. Started \subseteq Threads /\ rest \subseteq Threads
    BY DEF Started
  <2> QED BY <2>1, ApiAssumption, FS_Subset, Zenon
<1>2. /\ t \notin rest
      /\ Started = IF call[t].pc \in Starting THEN rest \cup {t} ELSE rest
      /\ Started' = IF call'[t].pc \in Starting THEN rest \cup {t} ELSE rest
  BY DEF Started
<1> HIDE DEF rest
<1>3. Cardinality(rest) \in Nat /\ Cardinality(rest \cup {t}) = Cardinality(rest) + 1
  BY <1>1, <1>2, FS_CardinalityType, FS_AddElement
<1> QED BY <1>2, <1>3

\* An early step keeps the types and the count.
LEMMA EarlyKeepsTypes ==
  ASSUME TypedInv, NEW t \in Threads, Early1(t), idCounter' \in Int,
         store' \in [Keys -> Guard!Record \cup {NoRecord}], now' = now
  PROVE  TypedInv'
<1>1. Len(orders) \in Nat /\ call \in [Threads -> Calls] /\ requests \in Nat
  BY DEF TypedInv, Typed
<1>2. Numbers' = Numbers
  BY DEF Early1, Unmoved, Numbers
<1>3. Typed'
  BY <1>1, <1>2 DEF TypedInv, Typed, Early1, Unmoved
<1>4. Located'
  BY <1>2 DEF TypedInv, Located, Early1, Early, Starting, Publishing
<1>5. Numbered'
  <2> DEFINE c == Cardinality(Started)
             d == Cardinality(Started')
             l == Len(orders)
  <2>1. /\ c \in Nat /\ d \in Nat /\ d <= c + 1
        /\ call[t].pc \in Starting => d <= c
    BY <1>1, StartedCounts DEF Early1
  <2>2. l + c <= requests /\ requests <= MaxRequests /\ l' = l
    BY DEF TypedInv, Numbered, Early1, Unmoved
  <2>3. MaxRequests \in Nat
    BY ApiAssumption
  <2>4. l' + d <= requests' /\ requests' <= MaxRequests
    <3>1. CASE call[t].pc = "idle"
      <4>1. requests < MaxRequests /\ requests' = requests + 1
        BY <3>1 DEF Early1
      <4> HIDE DEF c, d, l
      <4> QED BY <1>1, <2>1, <2>2, <2>3, <4>1, l \in Nat DEF l
    <3>2. CASE call[t].pc # "idle"
      <4>1. call[t].pc \in Starting /\ requests' = requests
        BY <3>2 DEF Early1, Early
      <4> HIDE DEF c, d, l
      <4> QED BY <1>1, <2>1, <2>2, <2>3, <4>1, l \in Nat DEF l
    <3> QED BY <3>1, <3>2
  <2> QED BY <2>4 DEF Numbered
<1> QED BY <1>3, <1>4, <1>5 DEF TypedInv

\* A handler's step keeps what the market and the bus have typed.
LEMMA HandlerKeepsTypes ==
  ASSUME TypedInv, NEW t \in Threads, call' \in [Threads -> Calls],
         \A u \in Threads \ {t} : call'[u] = call[u],
         call'[t].pc # "lookup", call'[t].pc \notin Starting,
         call'[t].pc \in Publishing \cup {"cancelled"} => call'[t].order \in Numbers',
         UNCHANGED <<orders, trades, now, idCounter>>,
         store' \in [Keys -> Guard!Record \cup {NoRecord}], kept' \in [Keys -> Int],
         events' \in [OrderNumbers -> Seq(Int)],
         book' \in SUBSET book, answered' \in SUBSET Numbers,
         requests' \in Nat, requests' >= requests, requests' <= MaxRequests
  PROVE  TypedInv'
<1>1. Len(orders) \in Nat /\ call \in [Threads -> Calls] /\ requests \in Nat
  BY DEF TypedInv, Typed
<1>2. Numbers' = Numbers
  BY DEF Numbers
<1>3. Typed'
  BY <1>2 DEF TypedInv, Typed
<1>4. Located'
  BY <1>2 DEF TypedInv, Located
<1>5. Numbered'
  <2> DEFINE c == Cardinality(Started)
             d == Cardinality(Started')
             l == Len(orders)
  <2>1. c \in Nat /\ d \in Nat /\ d <= c
    BY <1>1, StartedCounts
  <2>2. l + c <= requests /\ l' = l /\ l \in Nat
    BY <1>1 DEF TypedInv, Numbered
  <2>3. l' + d <= requests'
    <3> HIDE DEF c, d, l
    <3> QED BY <1>1, <2>1, <2>2
  <2> QED BY <2>3 DEF Numbered
<1> QED BY <1>3, <1>4, <1>5 DEF TypedInv

\* A new order.
LEMMA NewOrderKeepsTypes ==
  ASSUME TypedInv, NEW t \in Threads, NEW makers, NewOrder(t, makers),
         call' \in [Threads -> Calls],
         \A u \in Threads \ {t} : call'[u] = call[u],
         call'[t].pc \in {"idle", "publish"},
         call'[t].pc = "publish" => call'[t].order = Len(orders'),
         UNCHANGED <<guardVars, idCounter, events, historyVars>>
  PROVE  /\ TypedInv'
         /\ Numbers' = Numbers \cup {Len(orders')} /\ Len(orders') \notin Numbers
         /\ Len(orders') \in OrderNumbers
<1> DEFINE n == Len(orders')
<1>1. /\ Len(orders) \in Nat /\ n = Len(orders) + 1
      /\ call \in [Threads -> Calls] /\ requests \in Nat
  BY DEF TypedInv, Typed, NewOrder
<1>2. Numbers' = Numbers \cup {n} /\ n \notin Numbers
  BY <1>1 DEF Numbers
<1>3. makers \subseteq Numbers
  BY DEF TypedInv, Typed, NewOrder
<1>4. trades' \in SUBSET (Numbers' \X Numbers')
  <2>1. trades' = trades \cup {<<n, r>> : r \in makers}
    BY DEF NewOrder
  <2> HIDE DEF n
  <2> QED BY <1>2, <1>3, <2>1 DEF TypedInv, Typed
<1>5. book' \in SUBSET Numbers'
  <2>1. book' \subseteq book \cup {n}
    BY DEF NewOrder
  <2> HIDE DEF n
  <2> QED BY <1>2, <2>1 DEF TypedInv, Typed
<1>6. Typed'
  BY <1>2, <1>4, <1>5 DEF TypedInv, Typed, NewOrder, Ids, guardVars, historyVars
<1>7. Located'
  BY <1>2 DEF TypedInv, Located, Publishing
<1>8. Numbered' /\ n \in OrderNumbers
  <2> DEFINE c == Cardinality(Started)
             d == Cardinality(Started')
             l == Len(orders)
  <2>1. c \in Nat /\ d \in Nat /\ d = c - 1
    <3>1. call[t].pc \in Starting /\ call'[t].pc \notin Starting
      BY DEF NewOrder, Starting
    <3> QED BY <1>1, <3>1, StartedCounts
  <2>2. l + c <= requests /\ requests <= MaxRequests /\ requests' = requests
    BY DEF TypedInv, Numbered, historyVars
  <2>3. n + d <= requests' /\ requests' <= MaxRequests /\ n >= 1 /\ n <= MaxRequests /\ n \in Nat
    <3>1. MaxRequests \in Nat
      BY ApiAssumption
    <3> HIDE DEF c, d, l, n
    <3> QED BY <1>1, <2>1, <2>2, <3>1 DEF l
  <2> QED BY <2>3, ApiAssumption DEF Numbered, OrderNumbers
<1> QED BY <1>2, <1>6, <1>7, <1>8 DEF TypedInv

----------------------------------------------------------------------------
(* What has been told of an order.                                         *)

\* Of the events due some are out, each once and the placement before the
\* trades; the rest is still to come.
Told(es, due, rest) ==
  /\ IsInjective(es)
  /\ (ToSet(es) \ {Cancelled}) \cup rest = due
  /\ ToSet(es) \cap rest = {}
  /\ \A m, n \in 1..Len(es) : (m < n /\ es[n] = Placed) => es[m] = Cancelled

Due(o) == {Placed} \cup {tr[2] : tr \in TradesOf(o)}

LEMMA AnnouncedIsTold ==
  ASSUME NEW o
  PROVE  Announced(o) <=> Told(events[o], Due(o), {})
BY DEF Announced, Told, Due

\* One more event of a sequence.
LEMMA OneMoreEvent ==
  ASSUME NEW es \in Seq(Int), NEW e \in Int, e \notin ToSet(es), IsInjective(es)
  PROVE  /\ Append(es, e) \in Seq(Int)
         /\ IsInjective(Append(es, e))
         /\ ToSet(Append(es, e)) = ToSet(es) \cup {e}
         /\ \A m, n \in 1..Len(Append(es, e)) :
              m < n => /\ m \in 1..Len(es) /\ Append(es, e)[m] = es[m]
                       /\ Append(es, e)[n] = e \/ (n \in 1..Len(es) /\ Append(es, e)[n] = es[n])
<1> DEFINE fs == Append(es, e)
           l == Len(es)
<1>1. /\ l \in Nat /\ fs \in Seq(Int) /\ Len(fs) = l + 1 /\ fs[l + 1] = e
      /\ \A n \in 1..l : fs[n] = es[n]
      /\ DOMAIN es = 1..l /\ DOMAIN fs = 1..l + 1
  BY AppendProperties
<1> HIDE DEF fs, l
<1>2. \A n \in 1..l : es[n] # e
  BY <1>1 DEF ToSet
<1>3. IsInjective(fs)
  <2> SUFFICES ASSUME NEW m \in 1..l + 1, NEW n \in 1..l + 1, fs[m] = fs[n] PROVE m = n
    BY <1>1 DEF IsInjective
  <2>1. m \in 1..l \/ m = l + 1
    BY <1>1
  <2>2. n \in 1..l \/ n = l + 1
    BY <1>1
  <2>3. \A i, j \in 1..l : es[i] = es[j] => i = j
    BY <1>1 DEF IsInjective
  <2> QED BY <1>1, <1>2, <2>1, <2>2, <2>3
<1>4. ToSet(fs) = ToSet(es) \cup {e}
  <2>1. \A n \in 1..l + 1 : fs[n] \in ToSet(es) \cup {e}
    <3> TAKE n \in 1..l + 1
    <3>1. n \in 1..l \/ n = l + 1
      BY <1>1
    <3> QED BY <1>1, <3>1 DEF ToSet
  <2>2. \A n \in 1..l : n \in 1..l + 1 /\ fs[n] = es[n]
    BY <1>1
  <2>3. l + 1 \in 1..l + 1 /\ fs[l + 1] = e
    BY <1>1
  <2>4. ToSet(es) \subseteq ToSet(fs)
    BY <1>1, <2>2, Zenon DEF ToSet
  <2>5. e \in ToSet(fs)
    BY <1>1, <2>3, Zenon DEF ToSet
  <2>6. ToSet(fs) \subseteq ToSet(es) \cup {e}
    BY <1>1, <2>1, Zenon DEF ToSet
  <2> QED BY <2>4, <2>5, <2>6
<1>5. \A m, n \in 1..l + 1 :
        m < n => m \in 1..l /\ fs[m] = es[m] /\ (fs[n] = e \/ (n \in 1..l /\ fs[n] = es[n]))
  <2> SUFFICES ASSUME NEW m \in 1..l + 1, NEW n \in 1..l + 1, m < n
               PROVE  m \in 1..l /\ fs[m] = es[m] /\ (fs[n] = e \/ (n \in 1..l /\ fs[n] = es[n]))
    OBVIOUS
  <2>1. m \in 1..l /\ (n \in 1..l \/ n = l + 1)
    BY <1>1
  <2>2. fs[m] = es[m]
    BY <1>1, <2>1, Zenon
  <2>3. n \in 1..l => fs[n] = es[n]
    BY <1>1, Zenon
  <2>4. n = l + 1 => fs[n] = e
    BY <1>1, Zenon
  <2>5. fs[n] = e \/ (n \in 1..l /\ fs[n] = es[n])
    BY <2>1, <2>3, <2>4, Zenon
  <2> QED BY <2>1, <2>2, <2>5, Zenon
<1> QED BY <1>1, <1>3, <1>4, <1>5 DEF fs, l

\* An event that was to come is told: the placement, or a trade after it.
LEMMA TellOne ==
  ASSUME NEW es \in Seq(Int), NEW due, NEW rest, NEW e \in rest, e \in Int,
         Told(es, due, rest), e # Cancelled,
         e = Placed => ToSet(es) \subseteq {Cancelled}
  PROVE  /\ Append(es, e) \in Seq(Int)
         /\ ToSet(Append(es, e)) = ToSet(es) \cup {e}
         /\ Told(Append(es, e), due, rest \ {e})
<1> DEFINE fs == Append(es, e)
<1>1. e \notin ToSet(es) /\ IsInjective(es)
  BY DEF Told
<1>2. /\ fs \in Seq(Int) /\ IsInjective(fs) /\ ToSet(fs) = ToSet(es) \cup {e}
      /\ \A m, n \in 1..Len(fs) :
           m < n => /\ m \in 1..Len(es) /\ fs[m] = es[m]
                    /\ fs[n] = e \/ (n \in 1..Len(es) /\ fs[n] = es[n])
  BY <1>1, OneMoreEvent
<1> HIDE DEF fs
<1>3. (ToSet(fs) \ {Cancelled}) \cup (rest \ {e}) = due /\ ToSet(fs) \cap (rest \ {e}) = {}
  BY <1>2 DEF Told
<1>4. ASSUME NEW m \in 1..Len(fs), NEW n \in 1..Len(fs), m < n, fs[n] = Placed
      PROVE  fs[m] = Cancelled
  <2>1. m \in 1..Len(es) /\ fs[m] = es[m] /\ (fs[n] = e \/ (n \in 1..Len(es) /\ fs[n] = es[n]))
    BY <1>2, <1>4
  <2>2. CASE fs[n] = e
    <3>1. ToSet(es) \subseteq {Cancelled} /\ es[m] \in ToSet(es)
      BY <1>4, <2>1, <2>2 DEF ToSet
    <3> QED BY <2>1, <3>1
  <2>3. CASE n \in 1..Len(es) /\ fs[n] = es[n]
    BY <1>4, <2>1, <2>3 DEF Told
  <2> QED BY <2>1, <2>2, <2>3
<1> QED BY <1>2, <1>3, <1>4 DEF Told, fs

\* A cancellation is told whatever else is.
LEMMA TellCancelled ==
  ASSUME NEW es \in Seq(Int), NEW due, NEW rest,
         Told(es, due, rest), Cancelled \notin ToSet(es), Cancelled \notin due
  PROVE  Told(Append(es, Cancelled), due, rest)
<1> DEFINE fs == Append(es, Cancelled)
<1>1. IsInjective(es) /\ Cancelled \in Int
  BY DEF Told, Cancelled
<1>2. /\ fs \in Seq(Int) /\ IsInjective(fs) /\ ToSet(fs) = ToSet(es) \cup {Cancelled}
      /\ \A m, n \in 1..Len(fs) :
           m < n => /\ m \in 1..Len(es) /\ fs[m] = es[m]
                    /\ fs[n] = Cancelled \/ (n \in 1..Len(es) /\ fs[n] = es[n])
  BY <1>1, OneMoreEvent
<1>3. Cancelled # Placed
  BY DEF Cancelled, Placed
<1> HIDE DEF fs
<1>4. (ToSet(fs) \ {Cancelled}) \cup rest = due /\ ToSet(fs) \cap rest = {}
  BY <1>2 DEF Told
<1>5. ASSUME NEW m \in 1..Len(fs), NEW n \in 1..Len(fs), m < n, fs[n] = Placed
      PROVE  fs[m] = Cancelled
  BY <1>2, <1>3, <1>5 DEF Told
<1> QED BY <1>2, <1>4, <1>5 DEF Told, fs

----------------------------------------------------------------------------
(* The story of every order.                                               *)

\* What handler t has still to publish of its order.
Remaining(t) ==
  ToSet(call[t].todo) \cup IF call[t].pc = "publish" THEN {Placed} ELSE {}

\* The order t publishes is not answered yet, and what of it is out and what
\* remains is what is due.
Handling(t) ==
  LET o == call[t].order
  IN  /\ o \notin answered
      /\ orders[o].key = call[t].key
      /\ IsInjective(call[t].todo) /\ Placed \notin ToSet(call[t].todo)
      /\ Told(events[o], Due(o), Remaining(t))
      /\ call[t].pc = "publish" => ToSet(events[o]) \subseteq {Cancelled}

\* Nothing is out of an order to come.
Silent == \A o \in OrderNumbers : o \notin Numbers => events[o] = <<>>

\* Handlers publish orders of their own.
Apart ==
  /\ \A t \in Threads : call[t].pc \in Publishing => Handling(t)
  /\ \A t, u \in Threads :
       (call[t].pc \in Publishing /\ call[u].pc \in Publishing /\ call[t].order = call[u].order)
         => t = u

\* The answered orders' events are all out.
AnswersTold == \A o \in answered : Told(events[o], Due(o), {})

\* An order is cancelled once, and then it rests no more.
CancelledOnce ==
  /\ \A r \in book : Cancelled \notin ToSet(events[r])
  /\ \A t \in Threads :
       call[t].pc = "cancelled" => /\ call[t].order \notin book
                                   /\ Cancelled \notin ToSet(events[call[t].order])
  /\ \A t, u \in Threads :
       (call[t].pc = "cancelled" /\ call[u].pc = "cancelled" /\ call[t].order = call[u].order)
         => t = u

\* What is kept is an answer that was given, to a request with that key.
AnswersKept ==
  \A k \in Keys :
    store[k] # NoRecord => /\ store[k].response \in answered
                           /\ orders[store[k].response].key = k

Story == Silent /\ Apart /\ AnswersTold /\ CancelledOnce /\ AnswersKept

\* The guard forgets and does nothing else.
Forgets == \A k \in Keys : store'[k] \in {store[k], NoRecord}

LEMMA NumbersAreOrderNumbers ==
  ASSUME TypedInv
  PROVE  Numbers \subseteq OrderNumbers
<1>1. /\ Len(orders) \in Nat /\ Cardinality(Started) \in Nat
      /\ requests \in Nat /\ MaxRequests \in Nat
  <2>1. Started \subseteq Threads
    BY DEF Started
  <2>2. IsFiniteSet(Started)
    BY <2>1, ApiAssumption, FS_Subset, Zenon
  <2> QED BY <2>2, FS_CardinalityType, ApiAssumption DEF TypedInv, Typed
<1> QED BY <1>1 DEF TypedInv, Numbered, Numbers, OrderNumbers

\* No event due is a cancellation.
LEMMA DueAreNotCancelled ==
  ASSUME TypedInv, NEW o
  PROVE  /\ Cancelled \notin Due(o) /\ Placed # Cancelled
         /\ \A e \in Due(o) : e \in Int
<1>1. \A tr \in TradesOf(o) : tr[2] \in Numbers
  BY DEF TypedInv, Typed, TradesOf
<1> QED BY <1>1 DEF Due, Placed, Cancelled, Numbers

\* Steps that leave the market and the bus as they are.
LEMMA QuietKeepsStory ==
  ASSUME Story, UNCHANGED <<orders, book, trades, events, answered>>, Forgets,
         \A u \in Threads :
           call'[u] = call[u] \/ call'[u].pc \in Early
  PROVE  Story'
<1> USE DEF Early, Starting, Publishing
<1>1. Numbers' = Numbers /\ \A o : Due(o)' = Due(o)
  BY DEF Numbers, Due, TradesOf
<1>2. Silent'
  BY <1>1 DEF Story, Silent
<1>3. Apart'
  <2>1. \A t \in Threads : call'[t].pc \in Publishing => call'[t] = call[t]
    OBVIOUS
  <2>2. \A t \in Threads : call'[t] = call[t] => Remaining(t)' = Remaining(t)
    BY DEF Remaining
  <2>3. ASSUME NEW t \in Threads, call'[t].pc \in Publishing PROVE Handling(t)'
    <3>1. call'[t] = call[t] /\ Remaining(t)' = Remaining(t) /\ Handling(t)
      BY <2>1, <2>2, <2>3 DEF Story, Apart
    <3> QED BY <1>1, <3>1 DEF Handling
  <2>4. ASSUME NEW t \in Threads, NEW u \in Threads,
               call'[t].pc \in Publishing, call'[u].pc \in Publishing,
               call'[t].order = call'[u].order
        PROVE  t = u
    BY <2>1, <2>4 DEF Story, Apart
  <2> QED BY <2>3, <2>4, Zenon DEF Apart
<1>4. AnswersTold'
  BY <1>1 DEF Story, AnswersTold
<1>5. CancelledOnce'
  BY DEF Story, CancelledOnce
<1>6. AnswersKept'
  BY DEF Story, AnswersKept, Forgets
<1> QED BY <1>2, <1>3, <1>4, <1>5, <1>6 DEF Story

\* A new order: nothing of it is out, and all of it remains if it is to be told.
LEMMA NewOrderKeepsStory ==
  ASSUME TypedInv, Story, NEW t \in Threads, NEW makers, NewOrder(t, makers),
         NEW n \in OrderNumbers, n = Len(orders'),
         call \in [Threads -> Calls], call' \in [Threads -> Calls],
         \A u \in Threads \ {t} : call'[u] = call[u],
         \/ call'[t].pc = "idle"
         \/ /\ call'[t].pc = "publish" /\ call'[t].order = n
            /\ call'[t].key = call[t].key /\ call'[t].todo = SetToSeq(makers),
         Numbers' = Numbers \cup {n}, n \notin Numbers,
         UNCHANGED <<guardVars, events, answered>>
  PROVE  Story'
<1> USE DEF Early, Starting, Publishing
<1>1. /\ n \notin Numbers /\ Numbers' = Numbers \cup {n}
      /\ orders'[n].key = call[t].key
      /\ \A o \in Numbers : orders'[o] = orders[o]
      /\ book' \subseteq book \cup {n}
      /\ trades' = trades \cup {<<n, r>> : r \in makers}
      /\ makers \subseteq Numbers /\ book \subseteq Numbers /\ answered \subseteq Numbers
      /\ n \in OrderNumbers
  BY DEF NewOrder, TypedInv, Typed
<1>2. call'[t].pc \in Publishing
        => /\ call'[t].pc = "publish" /\ call'[t].order = n
           /\ call'[t].key = call[t].key /\ call'[t].todo = SetToSeq(makers)
  OBVIOUS
<1>3. /\ \A r \in Numbers : r \in Nat \ {0}
      /\ n # Placed
  <2>1. Numbers \subseteq Nat \ {0} /\ OrderNumbers \subseteq Nat \ {0}
    BY DEF Numbers, OrderNumbers
  <2> QED BY <1>1, <2>1 DEF Placed
<1>4. \A o \in Numbers : Due(o)' = Due(o)
  <2> SUFFICES ASSUME NEW o \in Numbers PROVE Due(o)' = Due(o)
    OBVIOUS
  <2>1. o # n
    BY <1>1
  <2>2. TradesOf(o)' = TradesOf(o)
    BY <1>1, <2>1 DEF TradesOf
  <2> QED BY <2>2 DEF Due
<1>5. Due(n)' = {Placed} \cup makers
  <2>1. trades \subseteq Numbers \X Numbers
    BY DEF TypedInv, Typed
  <2>2. \A tr \in trades : tr[1] # n
    BY <1>1, <2>1
  <2>3. ASSUME NEW tr \in TradesOf(n)' PROVE tr[2] \in makers
    <3>1. tr \in trades' /\ tr[1] = n
      BY DEF TradesOf
    <3>2. PICK r \in makers : tr = <<n, r>>
      BY <1>1, <2>2, <3>1
    <3> QED BY <3>2
  <2>4. ASSUME NEW r \in makers PROVE r \in {tr[2] : tr \in TradesOf(n)'}
    <3> DEFINE p == <<n, r>>
    <3>1. p[1] = n /\ p[2] = r
      OBVIOUS
    <3>2. p \in trades'
      BY <1>1, Zenon
    <3> HIDE DEF p
    <3>3. p \in TradesOf(n)'
      BY <3>1, <3>2, Zenon DEF TradesOf
    <3> QED BY <3>1, <3>3, Zenon
  <2>5. {tr[2] : tr \in TradesOf(n)'} = makers
    BY <2>3, <2>4, Zenon
  <2> QED BY <2>5 DEF Due
<1>6. events[n] = <<>>
  BY <1>1 DEF Story, Silent
<1>7. Silent'
  BY <1>1 DEF Story, Silent
<1>8. \A u \in Threads : (u # t /\ call'[u].pc \in Publishing)
        => /\ call'[u] = call[u] /\ call[u].pc \in Publishing
           /\ Remaining(u)' = Remaining(u) /\ call[u].order \in Numbers
  BY DEF TypedInv, Located, Remaining
<1>9. ASSUME NEW u \in Threads, u # t, call'[u].pc \in Publishing PROVE Handling(u)'
  <2>1. /\ call'[u] = call[u] /\ Remaining(u)' = Remaining(u) /\ call[u].order \in Numbers
        /\ Handling(u)
    BY <1>8, <1>9 DEF Story, Apart
  <2>2. Due(call[u].order)' = Due(call[u].order) /\ orders'[call[u].order] = orders[call[u].order]
    BY <1>1, <1>4, <2>1
  <2> QED BY <2>1, <2>2 DEF Handling
<1>10. ASSUME call'[t].pc \in Publishing PROVE Handling(t)'
  <2>1. /\ call'[t].pc = "publish" /\ call'[t].order = n
        /\ call'[t].key = call[t].key /\ call'[t].todo = SetToSeq(makers)
    BY <1>2, <1>10
  <2>2. IsFiniteSet(makers)
    <3>1. IsFiniteSet(Numbers)
      <4>1. Len(orders) \in Nat
        BY DEF TypedInv, Typed
      <4> QED BY <4>1, FS_Interval DEF Numbers
    <3> QED BY <1>1, <3>1, FS_Subset, Zenon
  <2>3. IsInjective(SetToSeq(makers)) /\ ToSet(SetToSeq(makers)) = makers
    BY <2>2, SetToSeqLists, Zenon
  <2>4. Placed \notin makers
    BY <1>1, <1>3 DEF Placed
  <2>5. Remaining(t)' = {Placed} \cup makers
    BY <2>1, <2>3 DEF Remaining
  <2>6. ToSet(<<>>) = {} /\ Len(<<>>) = 0 /\ IsInjective(<<>>)
    BY DEF ToSet, IsInjective
  <2>7. Told(<<>>, {Placed} \cup makers, {Placed} \cup makers)
    BY <2>6 DEF Told
  <2>8. Told(events'[n], Due(n)', Remaining(t)')
    BY <1>5, <1>6, <2>5, <2>7, Zenon
  <2>9. n \notin answered' /\ orders'[n].key = call'[t].key
    BY <1>1, <2>1
  <2>10. IsInjective(call'[t].todo) /\ Placed \notin ToSet(call'[t].todo)
    BY <2>1, <2>3, <2>4, Zenon
  <2>11. ToSet(events'[n]) \subseteq {Cancelled}
    BY <1>6, <2>6, Zenon
  <2> QED BY <2>1, <2>8, <2>9, <2>10, <2>11, Zenon DEF Handling
<1>11. Apart'
  <2>1. ASSUME NEW u \in Threads, NEW v \in Threads,
               call'[u].pc \in Publishing, call'[v].pc \in Publishing,
               call'[u].order = call'[v].order
        PROVE  u = v
    <3>1. CASE u # t /\ v # t
      BY <1>8, <2>1, <3>1 DEF Story, Apart
    <3>2. CASE u = t /\ v # t
      BY <1>1, <1>2, <1>8, <2>1, <3>2
    <3>3. CASE u # t /\ v = t
      BY <1>1, <1>2, <1>8, <2>1, <3>3
    <3> QED BY <3>1, <3>2, <3>3
  <2>2. \A u \in Threads : call'[u].pc \in Publishing => Handling(u)'
    BY <1>9, <1>10, Zenon
  <2> QED BY <2>1, <2>2, Zenon DEF Apart
<1>12. AnswersTold'
  BY <1>1, <1>4 DEF Story, AnswersTold
<1>13. CancelledOnce'
  <2>1. Cancelled \notin ToSet(events[n])
    BY <1>6 DEF ToSet
  <2>2. \A r \in book' : Cancelled \notin ToSet(events'[r])
    BY <1>1, <2>1 DEF Story, CancelledOnce
  <2>3. \A u \in Threads : call'[u].pc = "cancelled"
          => call'[u] = call[u] /\ call[u].order \in Numbers
    BY DEF TypedInv, Located
  <2> QED BY <1>1, <2>2, <2>3 DEF Story, CancelledOnce
<1>14. AnswersKept'
  BY <1>1 DEF Story, AnswersKept, guardVars
<1> QED BY <1>7, <1>11, <1>12, <1>13, <1>14 DEF Story

\* The first element is taken off a sequence without repetitions.
LEMMA TailLeaves ==
  ASSUME NEW s \in Seq(Int), s # <<>>, IsInjective(s)
  PROVE  /\ Tail(s) \in Seq(Int) /\ IsInjective(Tail(s))
         /\ Head(s) \in ToSet(s) /\ Head(s) \in Int
         /\ ToSet(Tail(s)) = ToSet(s) \ {Head(s)}
<1> DEFINE w == Tail(s)
           l == Len(s)
<1>1. /\ l \in Nat \ {0} /\ w \in Seq(Int) /\ Len(w) = l - 1 /\ Head(s) = s[1] /\ s[1] \in Int
      /\ \A n \in 1..l - 1 : w[n] = s[n + 1] /\ n + 1 \in 1..l
      /\ DOMAIN s = 1..l /\ DOMAIN w = 1..l - 1 /\ 1 \in 1..l
  BY HeadTailProperties, EmptySeq
<1> HIDE DEF w, l
<1>2. \A m, n \in 1..l : s[m] = s[n] => m = n
  BY <1>1 DEF IsInjective
<1>3. IsInjective(w)
  <2> SUFFICES ASSUME NEW m \in 1..l - 1, NEW n \in 1..l - 1, w[m] = w[n] PROVE m = n
    BY <1>1 DEF IsInjective
  <2>1. m + 1 = n + 1
    BY <1>1, <1>2
  <2> QED BY <2>1
<1>4. ASSUME NEW n \in 1..l - 1 PROVE w[n] \in ToSet(s) \ {s[1]}
  <2>1. w[n] = s[n + 1] /\ n + 1 \in 1..l /\ n + 1 # 1
    BY <1>1
  <2>2. s[n + 1] # s[1]
    BY <1>1, <1>2, <2>1
  <2>3. s[n + 1] \in ToSet(s)
    BY <1>1, <2>1, Zenon DEF ToSet
  <2> QED BY <2>1, <2>2, <2>3
<1>5. ASSUME NEW n \in 1..l, s[n] # s[1] PROVE s[n] \in ToSet(w)
  <2>1. n - 1 \in 1..l - 1 /\ n = (n - 1) + 1
    BY <1>1, <1>5
  <2>2. w[n - 1] = s[n]
    BY <1>1, <2>1
  <2>3. w[n - 1] \in ToSet(w)
    BY <1>1, <2>1, Zenon DEF ToSet
  <2> QED BY <2>2, <2>3
<1>6. ToSet(w) \subseteq ToSet(s) \ {s[1]}
  BY <1>1, <1>4, Zenon DEF ToSet
<1>7. ToSet(s) \ {s[1]} \subseteq ToSet(w)
  <2>1. \A x \in ToSet(s) : \E n \in 1..l : x = s[n]
    BY <1>1, Zenon DEF ToSet
  <2> QED BY <1>5, <2>1, Zenon
<1>8. s[1] \in ToSet(s)
  BY <1>1, Zenon DEF ToSet
<1> QED BY <1>1, <1>3, <1>6, <1>7, <1>8 DEF w

\* An event of the order is published.
LEMMA PublishKeeps ==
  ASSUME TypedInv, Story, NEW t \in Threads, PublishPlaced(t) \/ PublishTrade(t)
  PROVE  TypedInv' /\ Story'
<1> USE DEF Early, Starting, Publishing
<1> DEFINE e == IF call[t].pc = "publish" THEN Placed ELSE Head(call[t].todo)
           w == IF call[t].pc = "publish" THEN call[t].todo ELSE Tail(call[t].todo)
<1>1. /\ call \in [Threads -> Calls] /\ call[t] \in Calls /\ call[t].pc \in Publishing
      /\ call[t].order \in Numbers /\ Numbers \subseteq OrderNumbers
      /\ events \in [OrderNumbers -> Seq(Int)]
  BY NumbersAreOrderNumbers DEF TypedInv, Typed, Located, PublishPlaced, PublishTrade
<1>2. PICK o \in Numbers : o = call[t].order
  BY <1>1
<1>3. Handling(t)
  BY <1>1 DEF Story, Apart
<1>4. /\ o \notin answered /\ orders[o].key = call[t].key
      /\ IsInjective(call[t].todo) /\ Placed \notin ToSet(call[t].todo)
      /\ Told(events[o], Due(o), Remaining(t))
      /\ call[t].pc = "publish" => ToSet(events[o]) \subseteq {Cancelled}
  BY <1>2, <1>3, Zenon DEF Handling
<1>5. call[t].todo \in Seq(Int) /\ (call[t].pc # "publish" => call[t].todo # <<>>)
  BY <1>1 DEF Calls, PublishPlaced, PublishTrade
<1>6. /\ w \in Seq(Int) /\ IsInjective(w) /\ e \in Remaining(t) /\ e \in Int
      /\ ToSet(w) = Remaining(t) \ {e} /\ Placed \notin ToSet(w)
      /\ call[t].pc # "publish" => e # Placed
  <2>1. CASE call[t].pc = "publish"
    BY <1>4, <1>5, <2>1 DEF Remaining, Placed
  <2>2. CASE call[t].pc # "publish"
    <3>1. Remaining(t) = ToSet(call[t].todo)
      BY <2>2 DEF Remaining
    <3>2. /\ Tail(call[t].todo) \in Seq(Int) /\ IsInjective(Tail(call[t].todo))
          /\ Head(call[t].todo) \in ToSet(call[t].todo) /\ Head(call[t].todo) \in Int
          /\ ToSet(Tail(call[t].todo)) = ToSet(call[t].todo) \ {Head(call[t].todo)}
      BY <1>4, <1>5, <2>2, TailLeaves
    <3> QED BY <1>4, <2>2, <3>1, <3>2
  <2> QED BY <2>1, <2>2
<1>7. /\ call' \in [Threads -> Calls]
      /\ \A u \in Threads \ {t} : call'[u] = call[u]
      /\ call'[t].pc = "trades" /\ call'[t].key = call[t].key /\ call'[t].order = o
      /\ call'[t].todo = w
  <2>1. CASE PublishPlaced(t)
    BY <1>1, <1>2, <2>1 DEF PublishPlaced, Calls
  <2>2. CASE PublishTrade(t)
    <3> DEFINE c == [call[t] EXCEPT !.todo = w]
    <3>1. call[t].pc = "trades" /\ call' = [call EXCEPT ![t] = c]
      BY <1>1, <2>2 DEF PublishTrade
    <3>2. c \in Calls /\ c.pc = call[t].pc /\ c.key = call[t].key /\ c.order = call[t].order /\ c.todo = w
      <4> HIDE DEF w
      <4> QED BY <1>1, <1>6 DEF Calls
    <3> HIDE DEF c, w
    <3> QED BY <1>1, <1>2, <3>1, <3>2
  <2> QED BY <2>1, <2>2
<1>8. events' = [events EXCEPT ![o] = Append(events[o], e)]
  BY <1>1, <1>2 DEF PublishPlaced, PublishTrade
<1>9. UNCHANGED <<store, now, idCounter, orders, book, trades, kept, answered, requests>>
  BY DEF PublishPlaced, PublishTrade, guardVars, marketVars, historyVars
<1> HIDE DEF e, w
<1>10. e \in Due(o) /\ e # Cancelled
  <2>1. Remaining(t) \subseteq Due(o)
    BY <1>4 DEF Told
  <2> QED BY <1>6, <2>1, DueAreNotCancelled
<1>11. /\ Append(events[o], e) \in Seq(Int)
       /\ ToSet(Append(events[o], e)) = ToSet(events[o]) \cup {e}
       /\ Told(Append(events[o], e), Due(o), Remaining(t) \ {e})
  <2>1. events[o] \in Seq(Int)
    BY <1>1, <1>2
  <2>2. e = Placed => ToSet(events[o]) \subseteq {Cancelled}
    BY <1>4, <1>6
  <2> QED BY <1>4, <1>6, <1>10, <2>1, <2>2, TellOne
<1>12. events'[o] = Append(events[o], e) /\ \A n \in OrderNumbers : n # o => events'[n] = events[n]
  BY <1>1, <1>8
<1>13. TypedInv'
  <2>1. Numbers' = Numbers
    BY <1>9 DEF Numbers
  <2>2. events' \in [OrderNumbers -> Seq(Int)]
    BY <1>1, <1>8, <1>11
  <2>3. /\ store' \in [Keys -> Guard!Record \cup {NoRecord}] /\ kept' \in [Keys -> Int]
        /\ requests' \in Nat /\ requests' >= requests /\ requests' <= MaxRequests
        /\ book' \in SUBSET book /\ answered' \in SUBSET Numbers
    BY <1>9 DEF TypedInv, Typed, Numbered
  <2> QED BY <1>7, <1>9, <2>1, <2>2, <2>3, HandlerKeepsTypes
<1>14. Numbers' = Numbers /\ \A n : Due(n)' = Due(n)
  BY <1>9 DEF Numbers, Due, TradesOf
<1>15. Silent'
  BY <1>2, <1>9, <1>12, <1>14 DEF Story, Silent
<1>16. Handling(t)'
  <2>1. Remaining(t)' = ToSet(w)
    BY <1>7 DEF Remaining
  <2>2. Told(events'[o], Due(o)', Remaining(t)')
    BY <1>6, <1>11, <1>12, <1>14, <2>1, Zenon
  <2>3. o \notin answered' /\ orders'[o].key = call'[t].key
    BY <1>4, <1>7, <1>9
  <2>4. IsInjective(call'[t].todo) /\ Placed \notin ToSet(call'[t].todo)
    BY <1>6, <1>7, Zenon
  <2>5. call'[t].pc # "publish" /\ call'[t].order = o
    BY <1>7
  <2> QED BY <2>2, <2>3, <2>4, <2>5, Zenon DEF Handling
<1>17. ASSUME NEW u \in Threads, u # t, call'[u].pc \in Publishing PROVE Handling(u)'
  <2>1. call'[u] = call[u] /\ call[u].pc \in Publishing
    BY <1>7, <1>17
  <2>2. call[u].order # o /\ Handling(u) /\ call[u].order \in OrderNumbers
    BY <1>1, <1>2, <1>17, <2>1 DEF Story, Apart, TypedInv, Located
  <2>3. Remaining(u)' = Remaining(u)
    BY <2>1 DEF Remaining
  <2>4. events'[call[u].order] = events[call[u].order]
    BY <1>12, <2>2
  <2> QED BY <1>9, <1>14, <2>1, <2>2, <2>3, <2>4 DEF Handling
<1>18. Apart'
  <2>1. \A u \in Threads : call'[u].pc \in Publishing
          => call[u].pc \in Publishing /\ call'[u].order = call[u].order
    BY <1>1, <1>2, <1>7
  <2>2. \A u, v \in Threads :
          (call'[u].pc \in Publishing /\ call'[v].pc \in Publishing /\ call'[u].order = call'[v].order)
            => u = v
    BY <2>1 DEF Story, Apart
  <2> QED BY <1>16, <1>17, <2>2, Zenon DEF Apart
<1>19. AnswersTold'
  <2>1. answered \subseteq OrderNumbers /\ o \notin answered
    BY <1>1, <1>4 DEF TypedInv, Typed
  <2> QED BY <1>9, <1>12, <1>14, <2>1 DEF Story, AnswersTold
<1>20. CancelledOnce'
  <2>1. \A n \in OrderNumbers : Cancelled \notin ToSet(events[n]) => Cancelled \notin ToSet(events'[n])
    BY <1>10, <1>11, <1>12
  <2>2. \A u \in Threads : call'[u].pc = "cancelled"
          => /\ call'[u] = call[u] /\ call[u].order \in OrderNumbers
    BY <1>1, <1>7 DEF TypedInv, Located
  <2>3. book \subseteq OrderNumbers
    BY <1>1 DEF TypedInv, Typed
  <2> QED BY <1>9, <2>1, <2>2, <2>3 DEF Story, CancelledOnce
<1>21. AnswersKept'
  BY <1>9 DEF Story, AnswersKept
<1> QED BY <1>13, <1>15, <1>18, <1>19, <1>20, <1>21 DEF Story

\* An answer is given and kept.
LEMMA AnswerKeeps ==
  ASSUME TypedInv, Story, NEW t \in Threads, Answer(t)
  PROVE  TypedInv' /\ Story'
<1> USE DEF Early, Starting, Publishing
<1>1. /\ call \in [Threads -> Calls] /\ call[t] \in Calls /\ call[t].pc = "trades"
      /\ call[t].order \in Numbers /\ Numbers \subseteq OrderNumbers
      /\ call[t].todo = <<>>
  BY NumbersAreOrderNumbers DEF TypedInv, Typed, Located, Answer
<1>2. PICK o \in Numbers : o = call[t].order
  BY <1>1
<1>3. Handling(t)
  BY <1>1 DEF Story, Apart
<1>4. /\ o \notin answered /\ orders[o].key = call[t].key
      /\ Told(events[o], Due(o), Remaining(t))
  BY <1>2, <1>3, Zenon DEF Handling
<1>5. Remaining(t) = {}
  BY <1>1 DEF Remaining, ToSet
<1>6. /\ call' \in [Threads -> Calls]
      /\ \A u \in Threads \ {t} : call'[u] = call[u]
      /\ call'[t].pc = "idle"
  <2>1. Idle \in Calls /\ Idle.pc = "idle"
    BY DEF Idle, Calls, Ids
  <2>2. call' = [call EXCEPT ![t] = Idle]
    BY DEF Answer
  <2> QED BY <1>1, <2>1, <2>2
<1>7. /\ UNCHANGED <<now, idCounter, orders, book, trades, events, requests>>
      /\ answered' = answered \cup {o}
  BY <1>2 DEF Answer, Guard!Store, guardVars, marketVars
<1>8. /\ store' \in [Keys -> Guard!Record \cup {NoRecord}]
      /\ kept' \in [Keys -> Int]
      /\ \A k \in Keys : \/ store'[k] = store[k]
                         \/ /\ call[t].key = k /\ store'[k] \in Guard!Record
                            /\ store'[k].response = o
  <2>0. store \in [Keys -> Guard!Record \cup {NoRecord}] /\ kept \in [Keys -> Int]
    BY DEF TypedInv, Typed
  <2>1. CASE call[t].key = NoKey
    BY <2>0, <2>1 DEF Answer, guardVars
  <2>2. CASE call[t].key # NoKey
    <3> DEFINE r == [response |-> o, expiresAt |-> now + Ttl]
    <3>1. r \in Guard!Record /\ r.response = o /\ now + Ttl \in Nat
      BY <1>1, ApiAssumption DEF TypedInv, Typed, Guard!Record
    <3>2. store' = [store EXCEPT ![call[t].key] = r]
      BY <1>2, <2>2 DEF Answer, Guard!Store
    <3>3. kept' = [kept EXCEPT ![call[t].key] = now + Ttl]
      BY <2>2 DEF Answer
    <3>4. call[t].key \in Keys
      BY <1>1, <2>2 DEF Calls
    <3> HIDE DEF r
    <3> QED BY <2>0, <3>1, <3>2, <3>3, <3>4
  <2> QED BY <2>1, <2>2
<1>9. TypedInv'
  <2>1. Numbers' = Numbers
    BY <1>7 DEF Numbers
  <2>2. /\ requests' \in Nat /\ requests' >= requests /\ requests' <= MaxRequests
        /\ events' \in [OrderNumbers -> Seq(Int)]
        /\ book' \in SUBSET book /\ answered' \in SUBSET Numbers
    BY <1>2, <1>7 DEF TypedInv, Typed, Numbered
  <2> QED BY <1>6, <1>7, <1>8, <2>1, <2>2, HandlerKeepsTypes
<1>10. Numbers' = Numbers /\ \A n : Due(n)' = Due(n)
  BY <1>7 DEF Numbers, Due, TradesOf
<1>11. Silent'
  BY <1>7, <1>10 DEF Story, Silent
<1>12. \A u \in Threads : call'[u].pc \in Publishing \cup {"cancelled"}
         => u # t /\ call'[u] = call[u]
  BY <1>6
<1>13. ASSUME NEW u \in Threads, call'[u].pc \in Publishing PROVE Handling(u)'
  <2>1. u # t /\ call'[u] = call[u] /\ call[u].pc \in Publishing
    BY <1>12, <1>13
  <2>2. call[u].order # o /\ Handling(u)
    BY <1>1, <1>2, <2>1 DEF Story, Apart
  <2>3. Remaining(u)' = Remaining(u)
    BY <2>1 DEF Remaining
  <2> QED BY <1>7, <1>10, <2>1, <2>2, <2>3 DEF Handling
<1>14. Apart'
  <2>1. \A u, v \in Threads :
          (call'[u].pc \in Publishing /\ call'[v].pc \in Publishing /\ call'[u].order = call'[v].order)
            => u = v
    BY <1>12 DEF Story, Apart
  <2> QED BY <1>13, <2>1, Zenon DEF Apart
<1>15. AnswersTold'
  BY <1>4, <1>5, <1>7, <1>10 DEF Story, AnswersTold
<1>16. CancelledOnce'
  BY <1>7, <1>12 DEF Story, CancelledOnce
<1>17. AnswersKept'
  BY <1>4, <1>7, <1>8 DEF Story, AnswersKept
<1> QED BY <1>9, <1>11, <1>14, <1>15, <1>16, <1>17 DEF Story

\* An order that rests is cancelled.
LEMMA CancelKeeps ==
  ASSUME TypedInv, Story, NEW t \in Threads, NEW r \in OrderNumbers, Cancel(t, r)
  PROVE  TypedInv' /\ Story'
<1> USE DEF Early, Starting, Publishing
<1>1. call \in [Threads -> Calls] /\ call[t] \in Calls /\ r \in book /\ r \in Numbers /\ r \in Int
  BY DEF TypedInv, Typed, Cancel, OrderNumbers
<1>2. /\ call' \in [Threads -> Calls]
      /\ \A u \in Threads \ {t} : call'[u] = call[u]
      /\ call'[t].pc = "cancelled" /\ call'[t].order = r
  <2> DEFINE c == [call[t] EXCEPT !.pc = "cancelled", !.order = r]
  <2>1. c \in Calls /\ c.pc = "cancelled" /\ c.order = r
    BY <1>1 DEF Calls
  <2>2. call' = [call EXCEPT ![t] = c]
    BY <1>1 DEF Cancel, Calls
  <2> HIDE DEF c
  <2> QED BY <1>1, <2>1, <2>2
<1>3. /\ UNCHANGED <<store, now, idCounter, orders, trades, events, kept, answered>>
      /\ book' = book \ {r} /\ requests < MaxRequests /\ requests' = requests + 1
  BY DEF Cancel, guardVars
<1>4. Numbers' = Numbers /\ \A n : Due(n)' = Due(n)
  BY <1>3 DEF Numbers, Due, TradesOf
<1>5. TypedInv'
  <2>1. /\ requests' \in Nat /\ requests' >= requests /\ requests' <= MaxRequests
    BY <1>3, ApiAssumption DEF TypedInv, Typed
  <2>2. /\ store' \in [Keys -> Guard!Record \cup {NoRecord}] /\ kept' \in [Keys -> Int]
        /\ events' \in [OrderNumbers -> Seq(Int)]
        /\ book' \in SUBSET book /\ answered' \in SUBSET Numbers
    BY <1>3 DEF TypedInv, Typed
  <2> QED BY <1>1, <1>2, <1>3, <1>4, <2>1, <2>2, HandlerKeepsTypes
<1>6. Silent'
  BY <1>3, <1>4 DEF Story, Silent
<1>7. \A u \in Threads : call'[u].pc \in Publishing => call'[u] = call[u]
  BY <1>2
<1>8. ASSUME NEW u \in Threads, call'[u].pc \in Publishing PROVE Handling(u)'
  <2>1. call'[u] = call[u] /\ Handling(u)
    BY <1>7, <1>8 DEF Story, Apart
  <2>2. Remaining(u)' = Remaining(u)
    BY <2>1 DEF Remaining
  <2> QED BY <1>3, <1>4, <2>1, <2>2 DEF Handling
<1>9. Apart'
  <2>1. \A u, v \in Threads :
          (call'[u].pc \in Publishing /\ call'[v].pc \in Publishing /\ call'[u].order = call'[v].order)
            => u = v
    BY <1>7 DEF Story, Apart
  <2> QED BY <1>8, <2>1, Zenon DEF Apart
<1>10. AnswersTold'
  BY <1>3, <1>4 DEF Story, AnswersTold
<1>11. CancelledOnce'
  <2>1. Cancelled \notin ToSet(events[r])
    BY <1>1 DEF Story, CancelledOnce
  <2>2. \A u \in Threads : (call'[u].pc = "cancelled" /\ u # t)
          => call'[u] = call[u] /\ call[u].order # r
    BY <1>1, <1>2 DEF Story, CancelledOnce
  <2> QED BY <1>2, <1>3, <2>1, <2>2 DEF Story, CancelledOnce
<1>12. AnswersKept'
  BY <1>3 DEF Story, AnswersKept
<1> QED BY <1>5, <1>6, <1>9, <1>10, <1>11, <1>12 DEF Story

\* The cancellation is published.
LEMMA PublishCancelledKeeps ==
  ASSUME TypedInv, Story, NEW t \in Threads, PublishCancelled(t)
  PROVE  TypedInv' /\ Story'
<1> USE DEF Early, Starting, Publishing
<1>1. /\ call \in [Threads -> Calls] /\ call[t] \in Calls /\ call[t].pc = "cancelled"
      /\ call[t].order \in Numbers /\ Numbers \subseteq OrderNumbers
      /\ events \in [OrderNumbers -> Seq(Int)] /\ Cancelled \in Int
  BY NumbersAreOrderNumbers DEF TypedInv, Typed, Located, PublishCancelled, Cancelled
<1>2. PICK o \in Numbers : o = call[t].order
  BY <1>1
<1>3. o \notin book /\ Cancelled \notin ToSet(events[o])
  BY <1>1, <1>2 DEF Story, CancelledOnce
<1>4. /\ call' \in [Threads -> Calls]
      /\ \A u \in Threads \ {t} : call'[u] = call[u]
      /\ call'[t].pc = "idle"
  <2>1. Idle \in Calls /\ Idle.pc = "idle"
    BY DEF Idle, Calls, Ids
  <2>2. call' = [call EXCEPT ![t] = Idle]
    BY DEF PublishCancelled
  <2> QED BY <1>1, <2>1, <2>2
<1>5. UNCHANGED <<store, now, idCounter, orders, book, trades, kept, answered, requests>>
  BY DEF PublishCancelled, guardVars, marketVars, historyVars
<1> DEFINE fs == Append(events[o], Cancelled)
<1>6. events' = [events EXCEPT ![o] = fs]
  BY <1>1, <1>2 DEF PublishCancelled
<1>7. fs \in Seq(Int)
  BY <1>1, <1>2, AppendProperties
<1>8. \A rest : Told(events[o], Due(o), rest) => Told(fs, Due(o), rest)
  BY <1>1, <1>2, <1>3, TellCancelled, DueAreNotCancelled
<1>9. ToSet(events[o]) \subseteq {Cancelled} => ToSet(fs) \subseteq {Cancelled}
  <2>1. events[o] \in Seq(Int)
    BY <1>1, <1>2
  <2>2. ToSet(fs) = ToSet(events[o]) \cup {Cancelled}
    <3>1. /\ DOMAIN fs = 1..Len(events[o]) + 1 /\ DOMAIN events[o] = 1..Len(events[o])
          /\ Len(events[o]) \in Nat
          /\ \A n \in 1..Len(events[o]) : fs[n] = events[o][n]
          /\ fs[Len(events[o]) + 1] = Cancelled
      BY <1>1, <2>1, AppendProperties
    <3> DEFINE es == events[o]
               l == Len(events[o])
    <3> HIDE DEF fs, es, l
    <3>2. l \in Nat /\ DOMAIN fs = 1..l + 1 /\ DOMAIN es = 1..l
      BY <3>1 DEF es, l
    <3>3. (\A n \in 1..l : fs[n] = es[n]) /\ fs[l + 1] = Cancelled
      BY <3>1 DEF es, l
    <3>4. \A n \in 1..l + 1 : n \in 1..l \/ n = l + 1
      BY <3>2
    <3>5. ToSet(fs) = ToSet(es) \cup {Cancelled}
      BY <3>2, <3>3, <3>4 DEF ToSet
    <3> QED BY <3>5 DEF es
  <2> QED BY <2>2
<1> HIDE DEF fs
<1>10. events'[o] = fs /\ \A n \in OrderNumbers : n # o => events'[n] = events[n]
  BY <1>1, <1>6
<1>11. Numbers' = Numbers /\ \A n : Due(n)' = Due(n)
  BY <1>5 DEF Numbers, Due, TradesOf
<1>12. TypedInv'
  <2>1. events' \in [OrderNumbers -> Seq(Int)]
    BY <1>1, <1>6, <1>7
  <2>2. /\ store' \in [Keys -> Guard!Record \cup {NoRecord}] /\ kept' \in [Keys -> Int]
        /\ requests' \in Nat /\ requests' >= requests /\ requests' <= MaxRequests
        /\ book' \in SUBSET book /\ answered' \in SUBSET Numbers
    BY <1>5 DEF TypedInv, Typed, Numbered
  <2> QED BY <1>4, <1>5, <1>11, <2>1, <2>2, HandlerKeepsTypes
<1>13. Silent'
  BY <1>2, <1>10, <1>11 DEF Story, Silent
<1>14. \A u \in Threads : call'[u].pc \in Publishing \cup {"cancelled"}
         => u # t /\ call'[u] = call[u] /\ call[u].order \in OrderNumbers
  BY <1>1, <1>4 DEF TypedInv, Located
<1>15. ASSUME NEW u \in Threads, call'[u].pc \in Publishing PROVE Handling(u)'
  <2>1. /\ call'[u] = call[u] /\ call[u].order \in OrderNumbers /\ Handling(u)
    BY <1>14, <1>15 DEF Story, Apart
  <2>2. PICK p \in OrderNumbers : p = call[u].order
    BY <2>1
  <2>3. Remaining(u)' = Remaining(u)
    BY <2>1 DEF Remaining
  <2>4. /\ p \notin answered /\ orders[p].key = call[u].key
        /\ IsInjective(call[u].todo) /\ Placed \notin ToSet(call[u].todo)
        /\ Told(events[p], Due(p), Remaining(u))
        /\ call[u].pc = "publish" => ToSet(events[p]) \subseteq {Cancelled}
    BY <2>1, <2>2, Zenon DEF Handling
  <2>5. /\ Told(events'[p], Due(p), Remaining(u))
        /\ call[u].pc = "publish" => ToSet(events'[p]) \subseteq {Cancelled}
    <3>1. CASE p = o
      BY <1>8, <1>9, <1>10, <2>4, <3>1
    <3>2. CASE p # o
      BY <1>10, <2>4, <3>2
    <3> QED BY <3>1, <3>2
  <2> QED BY <1>5, <1>11, <2>1, <2>2, <2>3, <2>4, <2>5 DEF Handling
<1>16. Apart'
  <2>1. \A u, v \in Threads :
          (call'[u].pc \in Publishing /\ call'[v].pc \in Publishing /\ call'[u].order = call'[v].order)
            => u = v
    BY <1>14 DEF Story, Apart
  <2> QED BY <1>15, <2>1, Zenon DEF Apart
<1>17. AnswersTold'
  <2> SUFFICES ASSUME NEW p \in answered PROVE Told(events'[p], Due(p), {})
    BY <1>5, <1>11 DEF AnswersTold
  <2>1. p \in OrderNumbers /\ Told(events[p], Due(p), {})
    BY <1>1 DEF TypedInv, Typed, Story, AnswersTold
  <2>2. CASE p = o
    BY <1>8, <1>10, <2>1, <2>2
  <2>3. CASE p # o
    BY <1>10, <2>1, <2>3
  <2> QED BY <2>2, <2>3
<1>18. CancelledOnce'
  <2>1. book \subseteq OrderNumbers
    BY <1>1 DEF TypedInv, Typed
  <2>2. \A r \in book' : Cancelled \notin ToSet(events'[r])
    BY <1>3, <1>5, <1>10, <2>1 DEF Story, CancelledOnce
  <2>3. \A u \in Threads : call'[u].pc = "cancelled" => call[u].order # o
    BY <1>1, <1>2, <1>14 DEF Story, CancelledOnce
  <2> QED BY <1>5, <1>10, <1>14, <2>2, <2>3 DEF Story, CancelledOnce
<1>19. AnswersKept'
  BY <1>5 DEF Story, AnswersKept
<1> QED BY <1>12, <1>13, <1>16, <1>17, <1>18, <1>19 DEF Story

\* The market takes an order, to be answered or not.
LEMMA OrderKeeps ==
  ASSUME TypedInv, Story, NEW t \in Threads, Accepted(t) \/ Unfilled(t)
  PROVE  TypedInv' /\ Story'
<1>0. call \in [Threads -> Calls] /\ call[t] \in Calls
  BY DEF TypedInv, Typed
<1>1. PICK makers : /\ NewOrder(t, makers)
                    /\ \/ call' = [call EXCEPT ![t] = Idle]
                       \/ call' = [call EXCEPT ![t].pc = "publish",
                                               ![t].order = Len(orders'),
                                               ![t].todo = SetToSeq(makers)]
  <2>1. CASE Accepted(t)
    <3>1. PICK makers \in SUBSET book : \E gone \in SUBSET book, rests \in BOOLEAN :
            /\ Matched(t, makers, gone, rests)
            /\ call' = [call EXCEPT ![t].pc = "publish",
                                    ![t].order = Len(orders'),
                                    ![t].todo = SetToSeq(makers)]
      BY <2>1 DEF Accepted
    <3>2. NewOrder(t, makers)
      BY <3>1, MatchedAdds
    <3> QED BY <3>1, <3>2
  <2>2. CASE Unfilled(t)
    <3>1. PICK makers \in SUBSET book : Matched(t, makers, makers, FALSE)
      BY <2>2 DEF Unfilled
    <3>2. NewOrder(t, makers)
      BY <3>1, MatchedAdds
    <3> QED BY <2>2, <3>2 DEF Unfilled
  <2> QED BY <2>1, <2>2
<1>2. UNCHANGED <<guardVars, idCounter, events, historyVars>>
  BY DEF Accepted, Unfilled
<1>3. Len(orders') \in Int
  BY <1>1 DEF NewOrder
<1>4. SetToSeq(makers) \in Seq(Int)
  <2>1. Len(orders) \in Nat /\ makers \subseteq Numbers
    BY <1>1 DEF TypedInv, Typed, NewOrder
  <2>2. IsFiniteSet(makers)
    <3>1. IsFiniteSet(Numbers)
      BY <2>1, FS_Interval DEF Numbers
    <3> QED BY <2>1, <3>1, FS_Subset, Zenon
  <2>3. SetToSeq(makers) \in Seq(makers)
    BY <2>2, SetToSeqLists, Zenon
  <2>4. makers \subseteq Int
    BY <2>1 DEF Numbers
  <2> DEFINE w == SetToSeq(makers)
  <2> HIDE DEF w
  <2>5. w \in Seq(makers)
    BY <2>3 DEF w
  <2>6. /\ Len(w) \in Nat /\ DOMAIN w = 1..Len(w) /\ w = [n \in 1..Len(w) |-> w[n]]
        /\ \A n \in 1..Len(w) : w[n] \in Int
    BY <2>4, <2>5
  <2>7. w \in Seq(Int)
    BY <2>6
  <2> QED BY <2>7 DEF w
<1>5. /\ call' \in [Threads -> Calls]
      /\ \A u \in Threads \ {t} : call'[u] = call[u]
      /\ \/ call'[t].pc = "idle"
         \/ /\ call'[t].pc = "publish" /\ call'[t].order = Len(orders')
            /\ call'[t].key = call[t].key /\ call'[t].todo = SetToSeq(makers)
  <2>1. CASE call' = [call EXCEPT ![t] = Idle]
    <3>1. Idle \in Calls /\ Idle.pc = "idle"
      BY DEF Idle, Calls, Ids, Early
    <3> QED BY <1>0, <2>1, <3>1
  <2>2. CASE call' = [call EXCEPT ![t].pc = "publish", ![t].order = Len(orders'),
                                  ![t].todo = SetToSeq(makers)]
    <3> DEFINE l == Len(orders')
               w == SetToSeq(makers)
               c == [call[t] EXCEPT !.pc = "publish", !.order = l, !.todo = w]
    <3>1. call' = [call EXCEPT ![t] = c]
      BY <1>0, <2>2 DEF Calls
    <3>2. l \in Int /\ w \in Seq(Int)
      BY <1>3, <1>4
    <3> HIDE DEF l, w
    <3>3. c \in Calls /\ c.pc = "publish" /\ c.order = l /\ c.key = call[t].key /\ c.todo = w
      BY <1>0, <3>2 DEF Calls, Publishing
    <3> HIDE DEF c
    <3>4. /\ call' \in [Threads -> Calls] /\ call'[t] = c
          /\ \A u \in Threads \ {t} : call'[u] = call[u]
      BY <1>0, <3>1, <3>3
    <3> QED BY <3>3, <3>4 DEF l, w
  <2> QED BY <1>1, <2>1, <2>2
<1>6. TypedInv' /\ Numbers' = Numbers \cup {Len(orders')} /\ Len(orders') \notin Numbers
      /\ Len(orders') \in OrderNumbers
  <2>1. call'[t].pc \in {"idle", "publish"} /\ (call'[t].pc = "publish" => call'[t].order = Len(orders'))
    BY <1>5
  <2> QED BY <1>1, <1>2, <1>5, <2>1, NewOrderKeepsTypes
<1>7. PICK n \in OrderNumbers : n = Len(orders')
  BY <1>6
<1>8. UNCHANGED <<guardVars, events, answered>>
  BY <1>2 DEF historyVars
<1>9. Story'
  BY <1>0, <1>1, <1>5, <1>6, <1>7, <1>8, NewOrderKeepsStory
<1> QED BY <1>6, <1>9

\* A look at what is kept removes it or leaves it.
LEMMA LookupForgets ==
  ASSUME TypedInv, NEW k \in Keys, Guard!Lookup(k)
  PROVE  /\ store' \in [Keys -> Guard!Record \cup {NoRecord}] /\ now' = now
         /\ Forgets
BY DEF TypedInv, Typed, Guard!Lookup, Forgets

\* The guard's clock and its sweep.
LEMMA BackgroundKeeps ==
  ASSUME TypedInv, Story, Background
  PROVE  TypedInv' /\ Story'
<1>1. /\ UNCHANGED <<idCounter, call, orders, book, trades, events, kept, answered, requests>>
      /\ store' \in [Keys -> Guard!Record \cup {NoRecord}] /\ now' \in Nat /\ Forgets
  <2>1. UNCHANGED <<idCounter, call, orders, book, trades, events, kept, answered, requests>>
    BY DEF Background, marketVars, historyVars
  <2>2. CASE Guard!Tick
    BY <2>1, <2>2 DEF Guard!Tick, TypedInv, Typed, Forgets
  <2>3. CASE Guard!Sweep
    BY <2>1, <2>3 DEF Guard!Sweep, TypedInv, Typed, Forgets
  <2> QED BY <2>1, <2>2, <2>3 DEF Background
<1>2. TypedInv'
  BY <1>1 DEF TypedInv, Typed, Located, Numbered, Numbers, Started
<1>3. Story'
  BY <1>1, QuietKeepsStory
<1> QED BY <1>2, <1>3

LEMMA InitHolds == Init => TypedInv /\ Story
<1> SUFFICES ASSUME Init PROVE TypedInv /\ Story
  OBVIOUS
<1>1. Idle \in Calls /\ Idle.pc = "idle"
  BY DEF Idle, Calls, Ids, Early
<1>2. /\ store = [k \in Keys |-> NoRecord] /\ now = 0 /\ idCounter = 0
      /\ call = [t \in Threads |-> Idle] /\ orders = <<>> /\ book = {} /\ trades = {}
      /\ events = [o \in OrderNumbers |-> <<>>] /\ kept = [k \in Keys |-> -1]
      /\ answered = {} /\ requests = 0
  BY DEF Init, Guard!Init
<1>3. Typed
  BY <1>1, <1>2 DEF Typed
<1>4. \A t \in Threads : call[t].pc = "idle"
  BY <1>1, <1>2
<1>5. Located
  BY <1>4 DEF Located, Publishing
<1>6. Numbered
  <2>1. Started = {}
    BY <1>4 DEF Started, Starting
  <2>2. Cardinality(Started) = 0 /\ Len(orders) = 0
    BY <1>2, <2>1, FS_EmptySet
  <2> QED BY <1>2, <2>2, ApiAssumption DEF Numbered
<1>7. Story
  BY <1>2, <1>4 DEF Story, Silent, Apart, AnswersTold, CancelledOnce, AnswersKept, Publishing
<1> QED BY <1>3, <1>5, <1>6, <1>7 DEF TypedInv

\* Every step keeps the types and every order's story.
LEMMA StepKeeps == TypedInv /\ Story /\ [Next]_vars => TypedInv' /\ Story'
<1> SUFFICES ASSUME TypedInv, Story, [Next]_vars PROVE TypedInv' /\ Story'
  OBVIOUS
<1>1. ASSUME NEW t \in Threads, Early1(t), idCounter' \in Int,
             store' \in [Keys -> Guard!Record \cup {NoRecord}], now' = now, Forgets
      PROVE  TypedInv' /\ Story'
  <2>1. TypedInv'
    BY <1>1, EarlyKeepsTypes
  <2>2. \A u \in Threads : call'[u] = call[u] \/ call'[u].pc \in Early
    BY <1>1 DEF Early1
  <2>3. UNCHANGED <<orders, book, trades, events, answered>>
    BY <1>1 DEF Early1, Unmoved
  <2> QED BY <1>1, <2>1, <2>2, <2>3, QuietKeepsStory
<1>2. ASSUME NEW t \in Threads, LookupKey(t) PROVE TypedInv' /\ Story'
  <2>1. Early1(t) /\ idCounter' \in Int
    BY <1>2, EarlySteps
  <2>2. call[t].key \in Keys /\ Guard!Lookup(call[t].key)
    BY <1>2 DEF LookupKey, TypedInv, Located
  <2> QED BY <1>1, <2>1, <2>2, LookupForgets
<1>3. ASSUME NEW t \in Threads,
             \/ \E key \in Keys \cup {NoKey} : Request(t, key)
             \/ ReadCounter(t) \/ WriteCounter(t) \/ FormatID(t) \/ Refused(t)
      PROVE  TypedInv' /\ Story'
  <2>1. Early1(t) /\ idCounter' \in Int
    BY <1>3, EarlySteps
  <2>2. store' = store /\ now' = now
    BY <1>3 DEF Request, ReadCounter, WriteCounter, FormatID, Refused, guardVars
  <2>3. store' \in [Keys -> Guard!Record \cup {NoRecord}] /\ Forgets
    BY <2>2 DEF TypedInv, Typed, Forgets
  <2> QED BY <1>1, <2>1, <2>2, <2>3
<1>4. ASSUME NEW t \in Threads, Handler(t) PROVE TypedInv' /\ Story'
  BY <1>2, <1>3, <1>4, OrderKeeps, PublishKeeps, AnswerKeeps, PublishCancelledKeeps, Zenon DEF Handler
<1>5. CASE Background
  BY <1>5, BackgroundKeeps
<1>6. CASE UNCHANGED vars
  <2>1. UNCHANGED <<store, now, idCounter, call, orders, book, trades, events, kept, answered, requests>>
    BY <1>6 DEF vars, guardVars, marketVars, historyVars
  <2>2. Forgets
    BY <2>1 DEF Forgets
  <2>3. TypedInv'
    BY <2>1 DEF TypedInv, Typed, Located, Numbered, Numbers, Started
  <2> QED BY <2>1, <2>2, <2>3, QuietKeepsStory
<1> QED BY <1>3, <1>4, <1>5, <1>6, CancelKeeps, Zenon DEF Next

LEMMA StoryHolds == Spec => [](TypedInv /\ Story)
  BY InitHolds, StepKeeps, PTL DEF Spec

\* Whoever gets the answer to an order (api.go, the handler of POST /orders)
\* gets it after the order's placement and each of its trades were published,
\* once and in order, whatever the other handlers and cancellations do.
THEOREM AnswersComeAfterEvents == Spec => []AnsweredIsAnnounced
<1>1. Story => AnsweredIsAnnounced
  BY AnnouncedIsTold, Zenon DEF Story, AnswersTold, AnsweredIsAnnounced
<1> QED BY <1>1, StoryHolds, PTL

\* What a retry is given is an answer to a request with its key, and the order
\* it names is out on the bus.
THEOREM ReplaysComeAfterEvents == Spec => []ReplaysAreAnnounced
<1>1. Story => ReplaysAreAnnounced
  BY AnnouncedIsTold, Zenon DEF Story, AnswersTold, AnswersKept, ReplaysAreAnnounced
<1> QED BY <1>1, StoryHolds, PTL

----------------------------------------------------------------------------
(* Retries.                                                                *)

\* As long as a key's answer is to be replayed the guard has one that lasts.
InTime ==
  \A k \in Keys : now <= kept[k] => store[k] # NoRecord /\ kept[k] <= store[k].expiresAt

LEMMA InTimeInit == Init => InTime
<1> SUFFICES ASSUME Init, NEW k \in Keys PROVE ~(now <= kept[k])
  BY DEF InTime
<1>1. now = 0 /\ kept = [j \in Keys |-> -1]
  BY DEF Init, Guard!Init
<1> QED BY <1>1

\* What is over is not to be replayed.
LEMMA ExpiredIsNotKept ==
  ASSUME TypedInv, InTime, NEW k \in Keys, Guard!Expired(k)
  PROVE  ~(now <= kept[k])
<1>1. store[k] # NoRecord /\ now > store[k].expiresAt
  BY DEF Guard!Expired
<1>2. /\ store[k].expiresAt \in Nat /\ now \in Nat /\ kept[k] \in Int
  BY <1>1 DEF TypedInv, Typed, Guard!Record
<1> QED BY <1>1, <1>2 DEF InTime

LEMMA InTimeStep == TypedInv /\ InTime /\ [Next]_vars => InTime'
<1> SUFFICES ASSUME TypedInv, InTime, [Next]_vars PROVE InTime'
  OBVIOUS
<1>0. /\ store \in [Keys -> Guard!Record \cup {NoRecord}] /\ now \in Nat /\ kept \in [Keys -> Int]
  BY DEF TypedInv, Typed
<1>1. ASSUME UNCHANGED <<store, now, kept>> PROVE InTime'
  BY <1>1 DEF InTime
<1>2. ASSUME NEW t \in Threads, LookupKey(t) PROVE InTime'
  <2>1. now' = now /\ kept' = kept
    BY <1>2 DEF LookupKey, Guard!Lookup, historyVars
  <2>2. \A k \in Keys : store'[k] = store[k] \/ Guard!Expired(k)
    BY <1>0, <1>2 DEF LookupKey, Guard!Lookup
  <2> QED BY <2>1, <2>2, ExpiredIsNotKept DEF InTime
<1>3. ASSUME NEW t \in Threads, Answer(t) PROVE InTime'
  <2>1. CASE call[t].key = NoKey
    BY <1>1, <1>3, <2>1 DEF Answer, guardVars
  <2>2. CASE call[t].key # NoKey
    <3> DEFINE r == [response |-> call[t].order, expiresAt |-> now + Ttl]
    <3>1. /\ store' = [store EXCEPT ![call[t].key] = r] /\ now' = now
          /\ kept' = [kept EXCEPT ![call[t].key] = now + Ttl]
      BY <1>3, <2>2 DEF Answer, Guard!Store
    <3>2. r.expiresAt = now + Ttl /\ now + Ttl \in Int
      BY <1>0, ApiAssumption
    <3>3. r # NoRecord
      <4>1. call[t].order \in OrderNumbers
        BY <1>3, NumbersAreOrderNumbers DEF TypedInv, Located, Answer, Publishing
      <4>2. now + Ttl \in Nat
        BY <1>0, ApiAssumption
      <4> QED BY <4>1, <4>2, ApiAssumption
    <3> HIDE DEF r
    <3>4. \A k \in Keys : k # call[t].key => store'[k] = store[k] /\ kept'[k] = kept[k]
      BY <1>0, <3>1
    <3>5. \A k \in Keys : k = call[t].key => store'[k] = r /\ kept'[k] = now + Ttl
      BY <1>0, <3>1
    <3> QED BY <3>1, <3>2, <3>3, <3>4, <3>5 DEF InTime
  <2> QED BY <2>1, <2>2
<1>4. CASE Background
  <2>1. kept' = kept
    BY <1>4 DEF Background, historyVars
  <2>2. CASE Guard!Tick
    <3>1. now' = now + 1 /\ store' = store
      BY <2>2 DEF Guard!Tick
    <3>2. \A k \in Keys : kept[k] \in Int /\ (now + 1 <= kept[k] => now <= kept[k])
      BY <1>0
    <3> QED BY <2>1, <3>1, <3>2 DEF InTime
  <2>3. CASE Guard!Sweep
    <3>1. now' = now /\ \A k \in Keys : store'[k] = store[k] \/ Guard!Expired(k)
      BY <2>3 DEF Guard!Sweep
    <3> QED BY <2>1, <3>1, ExpiredIsNotKept DEF InTime
  <2> QED BY <1>4, <2>2, <2>3 DEF Background
<1>5. ASSUME NEW t \in Threads,
             \/ \E key \in Keys \cup {NoKey} : Request(t, key)
             \/ \E r \in OrderNumbers : Cancel(t, r)
             \/ ReadCounter(t) \/ WriteCounter(t) \/ FormatID(t) \/ Refused(t)
             \/ Accepted(t) \/ Unfilled(t) \/ PublishPlaced(t) \/ PublishTrade(t)
             \/ PublishCancelled(t)
      PROVE  InTime'
  <2>1. UNCHANGED <<store, now, kept>>
    BY <1>5 DEF Request, Cancel, ReadCounter, WriteCounter, FormatID, Refused, Accepted,
         Unfilled, PublishPlaced, PublishTrade, PublishCancelled, guardVars, historyVars
  <2> QED BY <1>1, <2>1
<1>6. CASE UNCHANGED vars
  BY <1>1, <1>6 DEF vars, guardVars, historyVars
<1> QED BY <1>2, <1>3, <1>4, <1>5, <1>6, Zenon DEF Next, Handler

\* A retry in time is over when it was looked up, and until then nobody else
\* moves it.
LEMMA RetryStep ==
  ASSUME TypedInv, InTime, [Next]_vars, NEW t \in Threads,
         call[t].pc = "lookup", now <= kept[call[t].key]
  PROVE  call'[t].pc \in {"lookup", "idle"}
<1> DEFINE k == call[t].key
<1>1. k \in Keys /\ call \in [Threads -> Calls]
  BY DEF TypedInv, Typed, Located
<1>2. CASE LookupKey(t)
  <2>1. ~Guard!Expired(k) /\ store[k] # NoRecord
    BY <1>1, ExpiredIsNotKept DEF InTime
  <2>2. found' = store[k]
    BY <1>2, <2>1 DEF LookupKey, Guard!Lookup
  <2>3. call' = [call EXCEPT ![t] = Idle]
    BY <1>2, <2>1, <2>2 DEF LookupKey
  <2> QED BY <1>1, <2>3 DEF Idle
<1>3. ASSUME call'[t] = call[t] PROVE call'[t].pc \in {"lookup", "idle"}
  BY <1>3
<1>4. ASSUME NEW u \in Threads, u # t,
             \/ Handler(u)
             \/ \E key \in Keys \cup {NoKey} : Request(u, key)
             \/ \E r \in OrderNumbers : Cancel(u, r)
      PROVE  call'[t] = call[t]
  BY <1>1, <1>4 DEF Handler, Request, Cancel, LookupKey, ReadCounter, WriteCounter, FormatID,
       Refused, Accepted, Unfilled, PublishPlaced, PublishTrade, Answer, PublishCancelled
<1>5. ASSUME \/ Handler(t)
             \/ \E key \in Keys \cup {NoKey} : Request(t, key)
             \/ \E r \in OrderNumbers : Cancel(t, r)
      PROVE  LookupKey(t)
  <2>1. Idle.pc = "idle"
    BY DEF Idle
  <2> QED BY <1>5, <2>1 DEF Handler, Request, Cancel, ReadCounter, WriteCounter, FormatID,
         Refused, Accepted, Unfilled, Matched, PublishPlaced, PublishTrade, Answer, PublishCancelled
<1>6. ASSUME Background \/ UNCHANGED vars PROVE call'[t] = call[t]
  BY <1>6 DEF Background, vars
<1> QED BY <1>2, <1>3, <1>4, <1>5, <1>6, Zenon DEF Next

\* A request whose key was answered, and in time, is not executed again: its
\* lookup finds the answer, whatever overlapping requests stored, and however
\* sweeps and other lookups ran (api.go, the handler of POST /orders).
THEOREM RetriesAreReplayed == Spec => RetryIsReplayed
<1>1. TypedInv /\ InTime /\ [Next]_vars
        => [\A t \in Threads :
              (call[t].pc = "lookup" /\ now <= kept[call[t].key])
                => call'[t].pc \in {"lookup", "idle"}]_vars
  BY RetryStep, Zenon
<1>2. Spec => []InTime
  BY InTimeInit, InTimeStep, StoryHolds, PTL DEF Spec
<1> QED BY <1>1, <1>2, StoryHolds, PTL DEF Spec, RetryIsReplayed

=============================================================================
