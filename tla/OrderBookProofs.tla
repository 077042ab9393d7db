--------------------------- MODULE OrderBookProofs ---------------------------
(***************************************************************************)
(* Theorems about OrderBook, for every set of orders and users: the type   *)
(* invariant, price-time order of the slices, where crossed orders that    *)
(* rest together come from, what rests, who trades, which orders leave,    *)
(* and that each call does what AtomicBook states of it.                   *)
(***************************************************************************)
EXTENDS OrderBook, Sums, SequenceTheorems, FiniteSetTheorems, TLAPS

----------------------------------------------------------------------------
(* The operations on slices, index by index.                               *)

\* Inserting e at i keeps what is before i and shifts the rest by one.
LEMMA InsertAtProperties ==
  ASSUME NEW S, NEW s \in Seq(S), NEW e \in S, NEW i \in 1..(Len(s) + 1)
  PROVE  /\ InsertAt(s, i, e) \in Seq(S)
         /\ Len(InsertAt(s, i, e)) = Len(s) + 1
         /\ \A j \in 1..(Len(s) + 1) :
              InsertAt(s, i, e)[j] = IF j < i THEN s[j]
                                     ELSE IF j = i THEN e ELSE s[j - 1]
<1> DEFINE a == SubSeq(s, 1, i - 1)
           b == SubSeq(s, i, Len(s))
<1>1. Len(s) \in Nat /\ \A j \in 1..Len(s) : s[j] \in S
  BY LenProperties, ElementOfSeq
<1>2. /\ a \in Seq(S) /\ Len(a) = i - 1
      /\ \A j \in 1..(i - 1) : a[j] = s[j]
  BY <1>1, SubSeqProperties
<1>3. /\ b \in Seq(S) /\ Len(b) = Len(s) - i + 1
      /\ \A j \in 1..(Len(s) - i + 1) : b[j] = s[i + j - 1]
  BY <1>1, SubSeqProperties
<1> HIDE DEF a, b
<1>4. <<e>> \in Seq(S) /\ Len(<<e>>) = 1 /\ <<e>>[1] = e
  OBVIOUS
<1>5. /\ a \o <<e>> \in Seq(S)
      /\ Len(a \o <<e>>) = Len(a) + Len(<<e>>)
      /\ \A j \in 1..(Len(a) + Len(<<e>>)) :
           (a \o <<e>>)[j] = IF j <= Len(a) THEN a[j] ELSE <<e>>[j - Len(a)]
  BY <1>2, <1>4, ConcatProperties, Zenon
<1> DEFINE c == a \o <<e>>
<1>6. c \in Seq(S) /\ Len(c) = i /\ \A j \in 1..i : c[j] = IF j < i THEN s[j] ELSE e
  BY <1>1, <1>2, <1>4, <1>5
<1> HIDE DEF c
<1>7. /\ c \o b \in Seq(S)
      /\ Len(c \o b) = Len(c) + Len(b)
      /\ \A j \in 1..(Len(c) + Len(b)) :
           (c \o b)[j] = IF j <= Len(c) THEN c[j] ELSE b[j - Len(c)]
  BY <1>3, <1>6, ConcatProperties, Zenon
<1>8. InsertAt(s, i, e) = c \o b
  BY DEF InsertAt, a, b, c
<1> QED BY <1>1, <1>3, <1>6, <1>7, <1>8

\* Removing index i keeps what is before it and shifts the rest back by one.
LEMMA RemoveAtProperties ==
  ASSUME NEW S, NEW s \in Seq(S), NEW i \in 1..Len(s)
  PROVE  /\ RemoveAt(s, i) \in Seq(S)
         /\ Len(RemoveAt(s, i)) = Len(s) - 1
         /\ \A j \in 1..(Len(s) - 1) :
              RemoveAt(s, i)[j] = IF j < i THEN s[j] ELSE s[j + 1]
<1> DEFINE a == SubSeq(s, 1, i - 1)
           b == SubSeq(s, i + 1, Len(s))
<1>1. Len(s) \in Nat /\ \A j \in 1..Len(s) : s[j] \in S
  BY LenProperties, ElementOfSeq
<1>2. /\ a \in Seq(S) /\ Len(a) = i - 1
      /\ \A j \in 1..(i - 1) : a[j] = s[j]
  BY <1>1, SubSeqProperties
<1>3. /\ b \in Seq(S) /\ Len(b) = Len(s) - i
      /\ \A j \in 1..(Len(s) - i) : b[j] = s[i + j]
  BY <1>1, SubSeqProperties
<1> HIDE DEF a, b
<1>4. /\ a \o b \in Seq(S)
      /\ Len(a \o b) = Len(a) + Len(b)
      /\ \A j \in 1..(Len(a) + Len(b)) :
           (a \o b)[j] = IF j <= Len(a) THEN a[j] ELSE b[j - Len(a)]
  BY <1>2, <1>3, ConcatProperties, Zenon
<1>5. /\ a \o b \in Seq(S) /\ Len(a \o b) = Len(s) - 1
      /\ \A j \in 1..(Len(s) - 1) :
           (a \o b)[j] = IF j < i THEN s[j] ELSE s[j + 1]
  <2>1. Len(a) + Len(b) = Len(s) - 1
    BY <1>1, <1>2, <1>3
  <2>2. ASSUME NEW j \in 1..(Len(s) - 1)
        PROVE  (a \o b)[j] = IF j < i THEN s[j] ELSE s[j + 1]
    <3>1. (a \o b)[j] = IF j <= Len(a) THEN a[j] ELSE b[j - Len(a)]
      BY <1>4, <2>1
    <3>2. CASE j < i
      BY <1>1, <1>2, <3>1, <3>2
    <3>3. CASE ~(j < i)
      <4> DEFINE k == j - Len(a)
      <4>1. k \in 1..(Len(s) - i) /\ i + k = j + 1 /\ ~(j <= Len(a))
        BY <1>1, <1>2, <3>3
      <4>2. b[k] = s[i + k]
        BY <1>3, <4>1
      <4>3. (a \o b)[j] = b[k]
        BY <3>1, <4>1
      <4> HIDE DEF k
      <4> QED BY <3>3, <4>1, <4>2, <4>3
    <3> QED BY <3>2, <3>3
  <2> QED BY <1>4, <2>1, <2>2
<1> QED BY <1>5 DEF RemoveAt, a, b

\* Replacing the head changes nothing else.
LEMMA NewHeadProperties ==
  ASSUME NEW S, NEW s \in Seq(S), s # <<>>, NEW e \in S
  PROVE  /\ <<e>> \o Tail(s) \in Seq(S)
         /\ Len(<<e>> \o Tail(s)) = Len(s)
         /\ \A j \in 1..Len(s) :
              (<<e>> \o Tail(s))[j] = IF j = 1 THEN e ELSE s[j]
<1> DEFINE h == <<e>>
           t == Tail(s)
<1>1. Len(s) \in Nat /\ Len(t) = Len(s) - 1 /\ t \in Seq(S)
  BY HeadTailProperties, LenProperties
<1>2. \A j \in 1..Len(t) : t[j] = s[j + 1]
  BY HeadTailProperties
<1>3. h \in Seq(S) /\ Len(h) = 1 /\ h[1] = e
  OBVIOUS
<1> HIDE DEF h, t
<1>4. /\ h \o t \in Seq(S)
      /\ Len(h \o t) = Len(h) + Len(t)
      /\ \A j \in 1..(Len(h) + Len(t)) :
           (h \o t)[j] = IF j <= Len(h) THEN h[j] ELSE t[j - Len(h)]
  BY <1>1, <1>3, ConcatProperties, Zenon
<1>5. /\ h \o t \in Seq(S) /\ Len(h \o t) = Len(s)
      /\ \A j \in 1..Len(s) : (h \o t)[j] = IF j = 1 THEN e ELSE s[j]
  BY <1>1, <1>2, <1>3, <1>4
<1> QED BY <1>5 DEF h, t

----------------------------------------------------------------------------
(* Priority is a strict weak order.                                        *)

LEMMA OrderFields ==
  \A o \in Order : /\ o.id \in Nat /\ o.price \in Int /\ o.ts \in Nat
                   /\ o.qty \in Int /\ o.side \in Sides
BY ConstantsAssumption DEF Order

LEMMA LessTransitive ==
  ASSUME NEW side, NEW a \in Order, NEW b \in Order, NEW c \in Order,
         Less(side, a, b), Less(side, b, c)
  PROVE  Less(side, a, c)
BY OrderFields DEF Less, bidLess, askLess, Earlier

LEMMA NotLessTransitive ==
  ASSUME NEW side, NEW a \in Order, NEW b \in Order, NEW c \in Order,
         ~Less(side, a, b), ~Less(side, b, c)
  PROVE  ~Less(side, a, c)
BY OrderFields DEF Less, bidLess, askLess, Earlier

LEMMA LessAsymmetric ==
  ASSUME NEW side, NEW a \in Order, NEW b \in Order, Less(side, a, b)
  PROVE  ~Less(side, b, a)
BY OrderFields DEF Less, bidLess, askLess, Earlier

----------------------------------------------------------------------------
(* The operations on slices keep them sorted and bring in nothing else.    *)

LEMMA SeqElements ==
  ASSUME NEW S, NEW s \in Seq(S)
  PROVE  /\ Len(s) \in Nat
         /\ \A i \in 1..Len(s) : s[i] \in S /\ s[i] \in ToSet(s)
         /\ \A x \in ToSet(s) : \E i \in 1..Len(s) : x = s[i]
         /\ ToSet(s) \subseteq S
<1>1. DOMAIN s = 1..Len(s) /\ Len(s) \in Nat
  BY LenProperties
<1> QED BY <1>1, ElementOfSeq DEF ToSet

\* sort.Search finds a place for o that keeps the slice in order.
LEMMA insertSortedKeepsOrder ==
  ASSUME NEW side, NEW s \in Seq(Order), NEW o \in Order, Sorted(side, s),
         NEW t \in insertSorted(side, s, o)
  PROVE  t \in Seq(Order) /\ Sorted(side, t) /\ ToSet(t) \subseteq ToSet(s) \cup {o}
<1>1. PICK i \in SearchPoints(side, s, o) : t = InsertAt(s, i, o)
  BY DEF insertSorted
<1>2. /\ i \in 1..(Len(s) + 1) /\ Len(s) \in Nat
      /\ i > 1 => ~Less(side, o, s[i - 1])
      /\ i <= Len(s) => Less(side, o, s[i])
  BY SeqElements DEF SearchPoints
<1>3. /\ t \in Seq(Order) /\ Len(t) = Len(s) + 1
      /\ \A j \in 1..(Len(s) + 1) :
           t[j] = IF j < i THEN s[j] ELSE IF j = i THEN o ELSE s[j - 1]
  <2>1. i \in 1..(Len(s) + 1)
    BY <1>2
  <2>2. /\ InsertAt(s, i, o) \in Seq(Order)
        /\ Len(InsertAt(s, i, o)) = Len(s) + 1
        /\ \A j \in 1..(Len(s) + 1) :
             InsertAt(s, i, o)[j] = IF j < i THEN s[j]
                                    ELSE IF j = i THEN o ELSE s[j - 1]
    BY <2>1, InsertAtProperties
  <2> QED BY <1>1, <2>2, Zenon
<1>4. \A j \in 1..Len(s) : s[j] \in Order /\ s[j] \in ToSet(s)
  BY SeqElements
<1>5. ASSUME NEW j \in 1..Len(t), NEW k \in 1..Len(t), j < k
      PROVE  ~Less(side, t[k], t[j])
  <2>1. CASE k < i
    <3>1. t[k] = s[k] /\ t[j] = s[j] /\ j \in 1..Len(s) /\ k \in 1..Len(s)
      BY <1>2, <1>3, <1>5, <2>1
    <3> QED BY <1>5, <3>1 DEF Sorted
  <2>2. CASE k = i
    <3>1. t[k] = o /\ t[j] = s[j] /\ j \in 1..(i - 1) /\ i - 1 \in 1..Len(s)
      BY <1>2, <1>3, <1>5, <2>2
    <3>2. CASE j = i - 1
      BY <1>2, <3>1, <3>2
    <3>3. CASE j < i - 1
      <4>1. ~Less(side, s[i - 1], s[j])
        BY <1>2, <3>1, <3>3 DEF Sorted
      <4>2. j \in 1..Len(s) /\ s[j] \in Order /\ s[i - 1] \in Order
        BY <1>2, <1>4, <3>1
      <4> QED BY <1>2, <3>1, <4>1, <4>2, NotLessTransitive
    <3> QED BY <3>1, <3>2, <3>3, <1>2
  <2>3. CASE k > i /\ j < i
    <3>1. t[k] = s[k - 1] /\ t[j] = s[j] /\ j < k - 1
          /\ j \in 1..Len(s) /\ k - 1 \in 1..Len(s)
      BY <1>2, <1>3, <1>5, <2>3
    <3> QED BY <3>1 DEF Sorted
  <2>4. CASE k > i /\ j = i
    <3>1. t[k] = s[k - 1] /\ t[j] = o /\ i \in 1..Len(s) /\ k - 1 \in 1..Len(s)
          /\ i <= k - 1
      BY <1>2, <1>3, <1>5, <2>4
    <3>2. SUFFICES ASSUME Less(side, s[k - 1], o) PROVE FALSE
      BY <3>1
    <3>3. Less(side, s[k - 1], s[i])
      BY <1>2, <1>4, <3>1, <3>2, LessTransitive
    <3>4. ~Less(side, s[k - 1], s[i])
      <4>1. CASE i = k - 1
        BY <1>4, <3>1, <4>1, <3>3, LessAsymmetric
      <4>2. CASE i < k - 1
        BY <3>1, <4>2 DEF Sorted
      <4> QED BY <3>1, <4>1, <4>2, <1>2
    <3> QED BY <3>3, <3>4
  <2>5. CASE k > i /\ j > i
    <3>1. t[k] = s[k - 1] /\ t[j] = s[j - 1] /\ j - 1 < k - 1
          /\ j - 1 \in 1..Len(s) /\ k - 1 \in 1..Len(s)
      BY <1>2, <1>3, <1>5, <2>5
    <3> QED BY <3>1 DEF Sorted
  <2> QED BY <1>2, <1>3, <2>1, <2>2, <2>3, <2>4, <2>5
<1>6. ASSUME NEW x \in ToSet(t) PROVE x \in ToSet(s) \cup {o}
  <2>1. PICK j \in 1..Len(t) : x = t[j]
    BY <1>3, SeqElements
  <2>2. CASE j < i
    BY <1>2, <1>3, <1>4, <2>1, <2>2
  <2>3. CASE j = i
    BY <1>2, <1>3, <2>1, <2>3
  <2>4. CASE j > i
    <3>1. x = s[j - 1] /\ j - 1 \in 1..Len(s)
      BY <1>2, <1>3, <2>1, <2>4
    <3> QED BY <1>4, <3>1
  <2> QED BY <1>2, <1>3, <2>2, <2>3, <2>4
<1> QED BY <1>3, <1>5, <1>6 DEF Sorted

\* The head is the best order, and popping it leaves the rest in order.
LEMMA PopKeepsOrder ==
  ASSUME NEW side, NEW s \in Seq(Order), s # <<>>, Sorted(side, s)
  PROVE  /\ Head(s) \in Order /\ Head(s) = s[1] /\ Head(s) \in ToSet(s)
         /\ Tail(s) \in Seq(Order) /\ Sorted(side, Tail(s))
         /\ ToSet(Tail(s)) \subseteq ToSet(s)
<1> DEFINE t == Tail(s)
<1>1. /\ Head(s) \in Order /\ t \in Seq(Order) /\ Len(t) = Len(s) - 1
      /\ \A i \in 1..Len(t) : t[i] = s[i + 1]
  BY HeadTailProperties
<1>2. Len(s) \in Nat /\ Len(s) # 0
  BY LenProperties, EmptySeq
<1>3. Head(s) = s[1] /\ 1 \in 1..Len(s)
  BY <1>2
<1> HIDE DEF t
<1>4. Sorted(side, t)
  <2>1. SUFFICES ASSUME NEW j \in 1..Len(t), NEW k \in 1..Len(t), j < k
                 PROVE  ~Less(side, t[k], t[j])
    BY DEF Sorted
  <2>2. /\ t[j] = s[j + 1] /\ t[k] = s[k + 1] /\ j + 1 < k + 1
        /\ j + 1 \in 1..Len(s) /\ k + 1 \in 1..Len(s)
    BY <1>1, <1>2, <2>1
  <2> QED BY <2>2 DEF Sorted
<1>5. ASSUME NEW x \in ToSet(t) PROVE x \in ToSet(s)
  <2>1. PICK j \in 1..Len(t) : x = t[j]
    BY <1>1, SeqElements
  <2>2. x = s[j + 1] /\ j + 1 \in 1..Len(s)
    BY <1>1, <1>2, <2>1
  <2> QED BY <2>2, SeqElements
<1>6. Head(s) \in ToSet(s)
  BY <1>3, SeqElements
<1> QED BY <1>1, <1>3, <1>4, <1>5, <1>6 DEF t

\* So does removing an order by its id.
LEMMA removeByIDKeepsOrder ==
  ASSUME NEW side, NEW s \in Seq(Order), Sorted(side, s), NEW id,
         NEW t \in removeByID(s, id)
  PROVE  t \in Seq(Order) /\ Sorted(side, t) /\ ToSet(t) \subseteq ToSet(s)
<1>1. PICK i \in 1..Len(s) : t = RemoveAt(s, i)
  BY DEF removeByID
<1>2. /\ t \in Seq(Order) /\ Len(t) = Len(s) - 1 /\ Len(s) \in Nat
      /\ \A j \in 1..(Len(s) - 1) : t[j] = IF j < i THEN s[j] ELSE s[j + 1]
  BY <1>1, RemoveAtProperties, LenProperties
<1>3. Sorted(side, t)
  <2>1. SUFFICES ASSUME NEW j \in 1..Len(t), NEW k \in 1..Len(t), j < k
                 PROVE  ~Less(side, t[k], t[j])
    BY DEF Sorted
  <2>2. PICK m \in 1..Len(s), n \in 1..Len(s) : t[j] = s[m] /\ t[k] = s[n] /\ m < n
    <3>1. CASE k < i
      BY <1>2, <2>1, <3>1
    <3>2. CASE j < i /\ ~(k < i)
      <4>1. t[j] = s[j] /\ t[k] = s[k + 1] /\ j \in 1..Len(s) /\ k + 1 \in 1..Len(s) /\ j < k + 1
        BY <1>2, <2>1, <3>2
      <4> QED BY <4>1
    <3>3. CASE ~(j < i)
      <4>1. /\ t[j] = s[j + 1] /\ t[k] = s[k + 1] /\ j + 1 < k + 1
            /\ j + 1 \in 1..Len(s) /\ k + 1 \in 1..Len(s)
        BY <1>2, <2>1, <3>3
      <4> QED BY <4>1
    <3> QED BY <3>1, <3>2, <3>3
  <2> QED BY <2>2 DEF Sorted
<1>4. ASSUME NEW x \in ToSet(t) PROVE x \in ToSet(s)
  <2>1. PICK j \in 1..Len(t) : x = t[j]
    BY <1>2, SeqElements
  <2>2. PICK m \in 1..Len(s) : x = s[m]
    <3>1. CASE j < i
      BY <1>2, <2>1, <3>1
    <3>2. CASE ~(j < i)
      <4>1. x = s[j + 1] /\ j + 1 \in 1..Len(s)
        BY <1>2, <2>1, <3>2
      <4> QED BY <4>1
    <3> QED BY <3>1, <3>2
  <2> QED BY <2>2, SeqElements
<1> QED BY <1>2, <1>3, <1>4

\* Orders that only differ in what is left to fill.
SameOrder(a, b) ==
  a.id = b.id /\ a.side = b.side /\ a.price = b.price /\ a.ts = b.ts

LEMMA SmallerOrder ==
  ASSUME NEW o \in Order, NEW q \in Int
  PROVE  LET r == [o EXCEPT !.qty = @ - q]
         IN  r \in Order /\ SameOrder(r, o)
BY DEF Order, SameOrder

LEMMA LessSame ==
  ASSUME NEW side, NEW a \in Order, NEW b \in Order, NEW c \in Order,
         SameOrder(a, b)
  PROVE  /\ Less(side, a, c) <=> Less(side, b, c)
         /\ Less(side, c, a) <=> Less(side, c, b)
BY OrderFields DEF SameOrder, Less, bidLess, askLess, Earlier

\* A fill in place keeps the order: quantity does not count for priority.
LEMMA consumeHeadKeepsOrder ==
  ASSUME NEW side, NEW s \in Seq(Order), s # <<>>, Sorted(side, s), NEW q \in Int
  PROVE  LET t == consumeHead(s, q)
         IN  /\ t \in Seq(Order) /\ Sorted(side, t)
             /\ \A x \in ToSet(t) : \E y \in ToSet(s) : SameOrder(x, y)
<1> DEFINE h == [Head(s) EXCEPT !.qty = @ - q]
           t == <<h>> \o Tail(s)
<1>1. /\ Head(s) \in Order /\ Head(s) = s[1] /\ Head(s) \in ToSet(s)
      /\ Tail(s) \in Seq(Order) /\ Sorted(side, Tail(s))
      /\ ToSet(Tail(s)) \subseteq ToSet(s)
  BY PopKeepsOrder
<1>2. CASE q = Head(s).qty
  BY <1>1, <1>2 DEF consumeHead, SameOrder
<1>3. CASE q # Head(s).qty
  <2>1. h \in Order /\ SameOrder(h, s[1])
    BY <1>1, SmallerOrder
  <2> HIDE DEF h
  <2>2. /\ t \in Seq(Order) /\ Len(t) = Len(s) /\ Len(s) \in Nat
        /\ \A j \in 1..Len(s) : t[j] = IF j = 1 THEN h ELSE s[j]
    BY <2>1, NewHeadProperties, LenProperties
  <2> HIDE DEF t
  <2>3. \A j \in 1..Len(s) : s[j] \in Order /\ s[j] \in ToSet(s)
    BY SeqElements
  <2>4. \A j \in 1..Len(s) : SameOrder(t[j], s[j]) /\ t[j] \in Order
    BY <2>1, <2>2, <2>3 DEF SameOrder
  <2>5. Sorted(side, t)
    <3>1. SUFFICES ASSUME NEW j \in 1..Len(s), NEW k \in 1..Len(s), j < k
                   PROVE  ~Less(side, t[k], t[j])
      BY <2>2 DEF Sorted
    <3>2. ~Less(side, s[k], s[j])
      BY <3>1 DEF Sorted
    <3>3. ~Less(side, t[k], s[j])
      BY <2>3, <2>4, <3>2, LessSame
    <3> QED BY <2>3, <2>4, <3>3, LessSame
  <2>6. ASSUME NEW x \in ToSet(t) PROVE \E y \in ToSet(s) : SameOrder(x, y)
    <3>1. PICK j \in 1..Len(s) : x = t[j]
      BY <2>2, SeqElements
    <3> QED BY <2>3, <2>4, <3>1
  <2>7. consumeHead(s, q) = t
    BY <1>3 DEF consumeHead, t, h
  <2> QED BY <2>2, <2>5, <2>6, <2>7
<1> QED BY <1>2, <1>3

\* Popping the head and putting its rest back keeps the order.
LEMMA popAndRestKeepsOrder ==
  ASSUME NEW side, NEW s \in Seq(Order), s # <<>>, Sorted(side, s), NEW q \in Int,
         NEW t \in popAndRest(side, s, q)
  PROVE  /\ t \in Seq(Order) /\ Sorted(side, t)
         /\ \A x \in ToSet(t) : \E y \in ToSet(s) : SameOrder(x, y)
<1> DEFINE h == [Head(s) EXCEPT !.qty = @ - q]
<1>1. /\ Head(s) \in Order /\ Head(s) \in ToSet(s)
      /\ Tail(s) \in Seq(Order) /\ Sorted(side, Tail(s))
      /\ ToSet(Tail(s)) \subseteq ToSet(s)
  BY PopKeepsOrder
<1>2. CASE q = Head(s).qty
  BY <1>1, <1>2 DEF popAndRest, SameOrder
<1>3. CASE q # Head(s).qty
  <2>1. h \in Order /\ SameOrder(h, Head(s))
    BY <1>1, SmallerOrder
  <2>2. t \in insertSorted(side, Tail(s), h)
    BY <1>3 DEF popAndRest
  <2> HIDE DEF h
  <2>3. t \in Seq(Order) /\ Sorted(side, t) /\ ToSet(t) \subseteq ToSet(Tail(s)) \cup {h}
    BY <1>1, <2>1, <2>2, insertSortedKeepsOrder
  <2> QED BY <1>1, <2>1, <2>3 DEF SameOrder
<1> QED BY <1>2, <1>3

----------------------------------------------------------------------------
(* The inductive invariant.  CrossedOnlyByParked is not inductive alone:   *)
(* the limit order that comes to rest crosses nothing because the head of  *)
(* the other side does not cross and the slice behind it is sorted.        *)

\* Bids are among the bids and asks among the asks, skipped orders included.
SidesKept ==
  /\ \A side \in Sides : \A r \in ToSet(book[side]) : r.side = side
  /\ pc # "idle" => \A r \in ToSet(skipped) : r.side = Opp(cur.side)

\* Orders are set aside only while a sweep runs.
SkippedInSweep == pc \notin {"sweep", "reinsert"} => skipped = <<>>

IInv == TypeOK /\ BookSorted /\ SidesKept /\ SkippedInSweep /\ CrossedOnlyByParked

LEMMA OppSide == \A side \in Sides : Opp(side) \in Sides /\ Opp(side) # side
BY DEF Sides, Opp

\* What an action does to one slice of the book.
LEMMA SliceChange ==
  ASSUME TypeOK, BookSorted, SidesKept, NEW side \in Sides, NEW s \in Seq(Order),
         Sorted(side, s), \A x \in ToSet(s) : x.side = side,
         book' = [book EXCEPT ![side] = s]
  PROVE  /\ book' \in [Sides -> Seq(Order)]
         /\ BookSorted'
         /\ \A t \in Sides : \A r \in ToSet(book'[t]) : r.side = t
         /\ ToSet(book'["buy"]) \cup ToSet(book'["sell"])
              \subseteq ToSet(book["buy"]) \cup ToSet(book["sell"]) \cup ToSet(s)
<1>1. \A t \in Sides : book'[t] = IF t = side THEN s ELSE book[t]
  BY DEF TypeOK
<1>2. book' \in [Sides -> Seq(Order)]
  BY DEF TypeOK
<1>3. BookSorted'
  BY <1>1 DEF BookSorted, Sorted
<1>4. \A t \in Sides : \A r \in ToSet(book'[t]) : r.side = t
  BY <1>1 DEF SidesKept
<1>5. ToSet(book'["buy"]) \cup ToSet(book'["sell"])
        \subseteq ToSet(book["buy"]) \cup ToSet(book["sell"]) \cup ToSet(s)
  BY <1>1 DEF Sides
<1> QED BY <1>2, <1>3, <1>4, <1>5

\* A step that leaves only orders that were present crosses no more of them.
LEMMA CrossingKept ==
  ASSUME CrossedOnlyByParked, parked \subseteq parked',
         \A x \in Present' : \E y \in Present : SameOrder(x, y)
  PROVE  CrossedOnlyByParked'
<1> SUFFICES ASSUME NEW a \in Present', NEW b \in Present',
                    a.side = "sell", b.side = "buy", a.price <= b.price
             PROVE  a.id \in parked' \/ b.id \in parked'
  BY DEF CrossedOnlyByParked
<1>1. PICK c \in Present : SameOrder(a, c)
  OBVIOUS
<1>2. PICK d \in Present : SameOrder(b, d)
  OBVIOUS
<1> QED BY <1>1, <1>2 DEF CrossedOnlyByParked, SameOrder

LEMMA InitInv == Init => IInv
<1> SUFFICES ASSUME Init PROVE IInv
  OBVIOUS
<1>1. \A S : <<>> \in Seq(S) /\ Len(<<>>) = 0 /\ ToSet(<<>>) = {}
  BY DEF ToSet
<1>2. TypeOK
  BY <1>1, ConstantsAssumption DEF Init, TypeOK, Sides
<1>3. BookSorted /\ SidesKept /\ SkippedInSweep /\ CrossedOnlyByParked
  BY <1>1 DEF Init, BookSorted, Sorted, SidesKept, SkippedInSweep,
              CrossedOnlyByParked, Present, Sides
<1> QED BY <1>2, <1>3 DEF IInv

\* An accepted order is an order with something to fill.
LEMMA BeginFacts ==
  ASSUME IInv, NEW o \in Acceptable, NEW next, Begin(o, next),
         next \in {"match", "sweep", "done"}
  PROVE  /\ o \in Order /\ o.side \in Sides /\ cur' = o
         /\ pc' \in {"match", "sweep", "done"}
         /\ remaining' \in Nat
         /\ skipped' = <<>> /\ trades' \in Seq(Trade) /\ err' = "none"
         /\ placed' \subseteq Order
         /\ filled' \in [Ids -> Int] /\ cancelled' \subseteq Ids
         /\ ToSet(skipped') = {} /\ skipped' \in Seq(Order)
<1>1. o \in Order /\ o.qty \in Int /\ o.qty > 0 /\ o.side \in Sides
  BY ConstantsAssumption DEF Acceptable, Submission, Order, Valid
<1> QED BY <1>1 DEF Begin, IInv, TypeOK, ToSet

\* The order that takes the self-match branch is counted as parked.
LEMMA ParkLimitKeepsInv ==
  ASSUME IInv, NEW o \in Acceptable, ParkLimit(o)
  PROVE  IInv'
<1>1. /\ o \in Order /\ o.side \in Sides /\ cur' = o /\ pc' = "done"
      /\ remaining' \in Nat
      /\ skipped' = <<>> /\ trades' \in Seq(Trade) /\ err' = "none"
      /\ placed' \subseteq Order
      /\ filled' \in [Ids -> Int] /\ cancelled' \subseteq Ids
      /\ ToSet(skipped') = {} /\ skipped' \in Seq(Order)
      /\ parked' = parked \cup {o.id}
  BY BeginFacts DEF ParkLimit, Begin
<1>2. PICK s \in insertSorted(o.side, book[o.side], o) :
        book' = [book EXCEPT ![o.side] = s]
  BY DEF ParkLimit
<1>3. book[o.side] \in Seq(Order) /\ Sorted(o.side, book[o.side])
      /\ \A x \in ToSet(book[o.side]) : x.side = o.side
  BY <1>1 DEF IInv, TypeOK, BookSorted, SidesKept
<1>4. s \in Seq(Order) /\ Sorted(o.side, s) /\ ToSet(s) \subseteq ToSet(book[o.side]) \cup {o}
  BY <1>1, <1>2, <1>3, insertSortedKeepsOrder
<1>5. /\ book' \in [Sides -> Seq(Order)] /\ BookSorted'
      /\ \A t \in Sides : \A r \in ToSet(book'[t]) : r.side = t
      /\ ToSet(book'["buy"]) \cup ToSet(book'["sell"])
           \subseteq ToSet(book["buy"]) \cup ToSet(book["sell"]) \cup ToSet(s)
  BY <1>1, <1>2, <1>3, <1>4, SliceChange DEF IInv
<1>6. TypeOK'
  BY <1>1, <1>5 DEF IInv, TypeOK, Order
<1>7. SidesKept' /\ SkippedInSweep'
  BY <1>1, <1>5 DEF SidesKept, SkippedInSweep
<1>8. Present' \subseteq Present \cup {o}
  BY <1>1, <1>4, <1>5 DEF Present, Sides
<1>9. CrossedOnlyByParked'
  BY <1>1, <1>8 DEF IInv, CrossedOnlyByParked
<1> QED BY <1>5, <1>6, <1>7, <1>9 DEF IInv

\* Starting a call changes nothing on the book.
LEMMA StartKeepsInv ==
  ASSUME IInv, NEW o \in Acceptable, StartLimit(o) \/ StartSweep(o)
  PROVE  IInv'
<1>1. /\ o \in Order /\ o.side \in Sides /\ cur' = o /\ pc' \in {"match", "sweep"}
      /\ remaining' \in Nat
      /\ skipped' = <<>> /\ trades' \in Seq(Trade) /\ err' = "none"
      /\ placed' \subseteq Order
      /\ filled' \in [Ids -> Int] /\ cancelled' \subseteq Ids
      /\ ToSet(skipped') = {} /\ skipped' \in Seq(Order)
      /\ parked' = parked /\ book' = book
  BY BeginFacts DEF StartLimit, StartSweep, Begin
<1>2. TypeOK'
  BY <1>1 DEF IInv, TypeOK
<1>3. BookSorted' /\ SidesKept' /\ SkippedInSweep'
  BY <1>1 DEF IInv, BookSorted, SidesKept, SkippedInSweep
<1>4. Present' \subseteq Present
  BY <1>1 DEF Present
<1>5. CrossedOnlyByParked'
  BY <1>1, <1>4 DEF IInv, CrossedOnlyByParked
<1> QED BY <1>2, <1>3, <1>5 DEF IInv

\* What a running call can count on about the slice it trades against.
LEMMA RunningFacts ==
  ASSUME IInv, pc # "idle"
  PROVE  /\ cur \in Order /\ cur.side \in Sides
         /\ Opp(cur.side) \in Sides /\ Opp(cur.side) # cur.side
         /\ OppBook = book[Opp(cur.side)]
         /\ OppBook \in Seq(Order) /\ Sorted(Opp(cur.side), OppBook)
         /\ \A x \in ToSet(OppBook) : x.side = Opp(cur.side)
         /\ ToSet(OppBook) \subseteq Present
<1>1. cur \in Order /\ cur.side \in Sides
  BY OrderFields DEF IInv, TypeOK
<1>2. Opp(cur.side) \in Sides /\ Opp(cur.side) # cur.side
  BY <1>1, OppSide
<1>3. OppBook \in Seq(Order) /\ Sorted(Opp(cur.side), OppBook)
  BY <1>2 DEF IInv, TypeOK, BookSorted, OppBook
<1>4. \A x \in ToSet(OppBook) : x.side = Opp(cur.side)
  BY <1>2 DEF IInv, SidesKept, OppBook
<1>5. ToSet(OppBook) \subseteq Present
  BY <1>2 DEF Present, OppBook, Sides
<1> QED BY <1>1, <1>2, <1>3, <1>4, <1>5 DEF OppBook

\* A trade never takes more than is left to fill.
LEMMA ExecuteFacts ==
  ASSUME IInv, pc # "idle", NEW r \in Order, Execute(r, FillQty(r))
  PROVE  /\ FillQty(r) \in Int
         /\ trades' \in Seq(Trade)
         /\ remaining' \in Nat
         /\ filled' \in [Ids -> Int]
<1>1. cur \in Order /\ remaining \in Nat /\ trades \in Seq(Trade) /\ filled \in [Ids -> Int]
  BY DEF IInv, TypeOK
<1>2. FillQty(r) \in Int /\ FillQty(r) <= remaining
  BY <1>1, OrderFields DEF FillQty
<1>3. TradeOf(cur, r, FillQty(r)) \in Trade
  BY <1>1, <1>2 DEF TradeOf, Trade, Order
<1>4. trades' \in Seq(Trade)
  BY <1>1, <1>3 DEF Execute
<1>5. remaining' \in Nat
  BY <1>1, <1>2 DEF Execute
<1>6. filled' \in [Ids -> Int]
  BY <1>1, <1>2 DEF Execute, Order
<1> QED BY <1>2, <1>4, <1>5, <1>6

\* A fill in place only makes a present order smaller.
LEMMA FillLimitKeepsInv ==
  ASSUME IInv, FillLimit
  PROVE  IInv'
<1> DEFINE r == Head(OppBook)
           q == FillQty(r)
           side == Opp(cur.side)
<1>1. pc = "match" /\ pc # "idle" /\ OppBook # <<>>
  BY DEF FillLimit, HeadCrosses
<1>2. /\ cur \in Order /\ side \in Sides /\ OppBook = book[side]
      /\ OppBook \in Seq(Order) /\ Sorted(side, OppBook)
      /\ \A x \in ToSet(OppBook) : x.side = side
      /\ ToSet(OppBook) \subseteq Present
  BY <1>1, RunningFacts
<1>3. r \in Order
  BY <1>1, <1>2, PopKeepsOrder
<1>4. /\ Execute(r, q) /\ book' = [book EXCEPT ![side] = consumeHead(OppBook, q)]
      /\ pc' \in {"match", "done"}
      /\ UNCHANGED <<cur, skipped, err, placed, cancelled, parked>>
  BY <1>2 DEF FillLimit
<1>5. /\ q \in Int /\ trades' \in Seq(Trade) /\ remaining' \in Nat
      /\ filled' \in [Ids -> Int]
  BY <1>1, <1>3, <1>4, ExecuteFacts
<1> DEFINE s == consumeHead(OppBook, q)
<1>6. /\ s \in Seq(Order) /\ Sorted(side, s)
      /\ \A x \in ToSet(s) : \E y \in ToSet(OppBook) : SameOrder(x, y)
  BY <1>1, <1>2, <1>5, consumeHeadKeepsOrder
<1> HIDE DEF s, q, r, side
<1>7. /\ book' \in [Sides -> Seq(Order)] /\ BookSorted'
      /\ \A t \in Sides : \A x \in ToSet(book'[t]) : x.side = t
      /\ ToSet(book'["buy"]) \cup ToSet(book'["sell"])
           \subseteq ToSet(book["buy"]) \cup ToSet(book["sell"]) \cup ToSet(s)
  <2>1. \A x \in ToSet(s) : x.side = side
    BY <1>2, <1>6 DEF SameOrder
  <2> QED BY <1>2, <1>4, <1>6, <2>1, SliceChange DEF IInv, s
<1>8. TypeOK'
  BY <1>1, <1>4, <1>5, <1>7 DEF IInv, TypeOK
<1>9. SidesKept' /\ SkippedInSweep'
  BY <1>1, <1>4, <1>7 DEF IInv, SidesKept, SkippedInSweep
<1>10. \A x \in Present' : \E y \in Present : SameOrder(x, y)
  BY <1>2, <1>4, <1>6, <1>7 DEF Present, SameOrder
<1>11. CrossedOnlyByParked'
  BY <1>4, <1>10, CrossingKept DEF IInv
<1> QED BY <1>7, <1>8, <1>9, <1>11 DEF IInv

\* The remainder that comes to rest crosses nothing: the head of the other
\* side does not cross it and nothing behind the head has a better price.
LEMMA RestLimitKeepsInv ==
  ASSUME IInv, RestLimit
  PROVE  IInv'
<1> DEFINE o == [cur EXCEPT !.qty = remaining]
<1>1. pc = "match" /\ pc # "idle" /\ skipped = <<>> /\ ToSet(skipped) = {}
  BY DEF RestLimit, IInv, SkippedInSweep, ToSet
<1>2. /\ cur \in Order /\ cur.side \in Sides
      /\ OppBook = book[Opp(cur.side)] /\ OppBook \in Seq(Order)
      /\ Sorted(Opp(cur.side), OppBook)
  BY <1>1, RunningFacts
<1>3. o \in Order /\ SameOrder(o, cur)
  <2>1. remaining \in Int
    BY DEF IInv, TypeOK
  <2> QED BY <1>2, <2>1 DEF Order, SameOrder
<1>4. PICK s \in insertSorted(cur.side, book[cur.side], o) :
        book' = [book EXCEPT ![cur.side] = s]
  BY DEF RestLimit
<1> HIDE DEF o
<1>5. /\ pc' = "done" /\ ~HeadCrosses
      /\ UNCHANGED <<cur, remaining, skipped, trades, err, placed, filled,
                     cancelled, parked>>
  BY DEF RestLimit, callVars
<1>6. /\ book[cur.side] \in Seq(Order) /\ Sorted(cur.side, book[cur.side])
      /\ \A x \in ToSet(book[cur.side]) : x.side = cur.side
  BY <1>2 DEF IInv, TypeOK, BookSorted, SidesKept
<1>7. s \in Seq(Order) /\ Sorted(cur.side, s)
      /\ ToSet(s) \subseteq ToSet(book[cur.side]) \cup {o}
  BY <1>2, <1>3, <1>4, <1>6, insertSortedKeepsOrder
<1>8. /\ book' \in [Sides -> Seq(Order)] /\ BookSorted'
      /\ \A t \in Sides : \A x \in ToSet(book'[t]) : x.side = t
      /\ ToSet(book'["buy"]) \cup ToSet(book'["sell"])
           \subseteq ToSet(book["buy"]) \cup ToSet(book["sell"]) \cup ToSet(s)
  <2>1. \A x \in ToSet(s) : x.side = cur.side
    BY <1>3, <1>6, <1>7 DEF SameOrder
  <2> QED BY <1>2, <1>4, <1>7, <2>1, SliceChange DEF IInv
<1>9. TypeOK'
  BY <1>2, <1>5, <1>8 DEF IInv, TypeOK
<1>10. SidesKept' /\ SkippedInSweep'
  BY <1>1, <1>5, <1>8 DEF IInv, SidesKept, SkippedInSweep
<1>11. Present' \subseteq Present \cup {o}
  BY <1>2, <1>5, <1>7, <1>8 DEF Present, Sides
<1>12. ASSUME NEW x \in Present, x.side = Opp(cur.side) PROVE ~Crosses(cur, x)
  <2>1. PICK i \in 1..Len(OppBook) : x = OppBook[i]
    <3>1. x \in ToSet(OppBook)
      BY <1>1, <1>2, <1>12, OppSide DEF IInv, Present, SidesKept, Sides
    <3> QED BY <1>2, <3>1, SeqElements
  <2>2. Len(OppBook) \in Nat /\ OppBook # <<>> /\ Head(OppBook) = OppBook[1]
        /\ OppBook[1] \in Order /\ x \in Order /\ 1 \in 1..Len(OppBook)
    <3>1. Len(OppBook) \in Nat /\ 1 \in 1..Len(OppBook) /\ OppBook # <<>>
      BY <1>2, <2>1, SeqElements
    <3> QED BY <1>2, <2>1, <3>1, SeqElements
  <2>3. ~Crosses(cur, OppBook[1])
    BY <1>5, <2>2 DEF HeadCrosses
  <2>4. ~Less(Opp(cur.side), x, OppBook[1])
    <3>1. CASE i = 1
      BY <2>1, <2>2, <3>1, OrderFields DEF Less, askLess, bidLess, Earlier
    <3>2. CASE i > 1
      BY <1>2, <2>1, <2>2, <3>2 DEF Sorted
    <3> QED BY <2>1, <2>2, <3>1, <3>2
  <2> QED BY <1>2, <2>2, <2>3, <2>4, OrderFields
          DEF Crosses, Less, askLess, bidLess, Earlier, Opp, Sides
<1>13. CrossedOnlyByParked'
  <2> SUFFICES ASSUME NEW a \in Present', NEW b \in Present',
                      a.side = "sell", b.side = "buy", a.price <= b.price
               PROVE  a.id \in parked' \/ b.id \in parked'
    BY DEF CrossedOnlyByParked
  <2>1. CASE a \in Present /\ b \in Present
    BY <1>5, <2>1 DEF IInv, CrossedOnlyByParked
  <2>2. CASE a = o /\ b \in Present
    BY <1>3, <1>12, <2>2 DEF SameOrder, Crosses, Opp
  <2>3. CASE a \in Present /\ b = o
    BY <1>3, <1>12, <2>3 DEF SameOrder, Crosses, Opp
  <2>4. CASE a = o /\ b = o
    BY <2>4
  <2> QED BY <1>11, <2>1, <2>2, <2>3, <2>4
<1> QED BY <1>8, <1>9, <1>10, <1>13 DEF IInv

\* Setting an own order aside keeps it present.
LEMMA SkipOwnKeepsInv ==
  ASSUME IInv, SkipOwn
  PROVE  IInv'
<1> DEFINE side == Opp(cur.side)
           s == Tail(OppBook)
<1>1. pc = "sweep" /\ pc # "idle" /\ OppBook # <<>>
  BY DEF SkipOwn, SweepGoesOn
<1>2. /\ cur \in Order /\ side \in Sides /\ OppBook = book[side]
      /\ OppBook \in Seq(Order) /\ Sorted(side, OppBook)
      /\ \A x \in ToSet(OppBook) : x.side = side
      /\ ToSet(OppBook) \subseteq Present
  BY <1>1, RunningFacts
<1>3. /\ Head(OppBook) \in Order /\ Head(OppBook) \in ToSet(OppBook)
      /\ s \in Seq(Order) /\ Sorted(side, s) /\ ToSet(s) \subseteq ToSet(OppBook)
  BY <1>1, <1>2, PopKeepsOrder
<1>4. /\ skipped' = Append(skipped, Head(OppBook))
      /\ book' = [book EXCEPT ![side] = s]
      /\ UNCHANGED <<pc, cur, remaining, trades, err, placed, filled, cancelled,
                     parked>>
  BY <1>2 DEF SkipOwn
<1> HIDE DEF s
<1>5. /\ skipped' \in Seq(Order)
      /\ ToSet(skipped') \subseteq ToSet(skipped) \cup {Head(OppBook)}
  <2>1. skipped \in Seq(Order)
    BY DEF IInv, TypeOK
  <2>2. /\ skipped' \in Seq(Order) /\ Len(skipped') = Len(skipped) + 1
        /\ Len(skipped) \in Nat
        /\ \A i \in 1..Len(skipped) : skipped'[i] = skipped[i]
        /\ skipped'[Len(skipped) + 1] = Head(OppBook)
    BY <1>3, <1>4, <2>1, AppendProperties, LenProperties
  <2>3. ASSUME NEW x \in ToSet(skipped')
        PROVE  x \in ToSet(skipped) \cup {Head(OppBook)}
    <3>1. PICK i \in 1..(Len(skipped) + 1) : x = skipped'[i]
      BY <2>2, SeqElements
    <3>2. CASE i \in 1..Len(skipped)
      BY <2>1, <2>2, <3>1, <3>2, SeqElements
    <3>3. CASE i = Len(skipped) + 1
      BY <2>2, <3>1, <3>3
    <3> QED BY <2>2, <3>1, <3>2, <3>3
  <2> QED BY <2>2, <2>3
<1>6. /\ book' \in [Sides -> Seq(Order)] /\ BookSorted'
      /\ \A t \in Sides : \A x \in ToSet(book'[t]) : x.side = t
      /\ ToSet(book'["buy"]) \cup ToSet(book'["sell"])
           \subseteq ToSet(book["buy"]) \cup ToSet(book["sell"]) \cup ToSet(s)
  <2>1. \A x \in ToSet(s) : x.side = side
    BY <1>2, <1>3
  <2> HIDE DEF side
  <2> QED BY <1>2, <1>3, <1>4, <2>1, SliceChange DEF IInv
<1>7. TypeOK'
  BY <1>1, <1>4, <1>5, <1>6 DEF IInv, TypeOK
<1>8. SidesKept' /\ SkippedInSweep'
  BY <1>1, <1>2, <1>3, <1>4, <1>5, <1>6 DEF IInv, SidesKept, SkippedInSweep
<1>9. Present' \subseteq Present
  BY <1>2, <1>3, <1>5, <1>6 DEF Present
<1>10. CrossedOnlyByParked'
  BY <1>4, <1>9, CrossingKept DEF IInv, SameOrder
<1> QED BY <1>6, <1>7, <1>8, <1>10 DEF IInv

\* Popping the head, filling it and putting its rest back.
LEMMA FillSweepKeepsInv ==
  ASSUME IInv, FillSweep
  PROVE  IInv'
<1> DEFINE r == Head(OppBook)
           q == FillQty(r)
           side == Opp(cur.side)
<1>1. pc = "sweep" /\ pc # "idle" /\ OppBook # <<>>
  BY DEF FillSweep, SweepGoesOn
<1>2. /\ cur \in Order /\ side \in Sides /\ OppBook = book[side]
      /\ OppBook \in Seq(Order) /\ Sorted(side, OppBook)
      /\ \A x \in ToSet(OppBook) : x.side = side
      /\ ToSet(OppBook) \subseteq Present
  BY <1>1, RunningFacts
<1>3. r \in Order
  BY <1>1, <1>2, PopKeepsOrder
<1>4. /\ Execute(r, q) /\ pc' \in {"sweep", "reinsert"}
      /\ UNCHANGED <<cur, skipped, err, placed, cancelled, parked>>
  BY DEF FillSweep
<1>5. /\ q \in Int /\ trades' \in Seq(Trade) /\ remaining' \in Nat
      /\ filled' \in [Ids -> Int]
  BY <1>1, <1>3, <1>4, ExecuteFacts
<1>6. PICK s \in popAndRest(side, OppBook, q) : book' = [book EXCEPT ![side] = s]
  BY DEF FillSweep
<1> HIDE DEF q, r, side
<1>7. /\ s \in Seq(Order) /\ Sorted(side, s)
      /\ \A x \in ToSet(s) : \E y \in ToSet(OppBook) : SameOrder(x, y)
  BY <1>1, <1>2, <1>5, <1>6, popAndRestKeepsOrder
<1>8. /\ book' \in [Sides -> Seq(Order)] /\ BookSorted'
      /\ \A t \in Sides : \A x \in ToSet(book'[t]) : x.side = t
      /\ ToSet(book'["buy"]) \cup ToSet(book'["sell"])
           \subseteq ToSet(book["buy"]) \cup ToSet(book["sell"]) \cup ToSet(s)
  <2>1. \A x \in ToSet(s) : x.side = side
    BY <1>2, <1>7 DEF SameOrder
  <2> QED BY <1>2, <1>6, <1>7, <2>1, SliceChange DEF IInv
<1>9. TypeOK'
  BY <1>1, <1>2, <1>4, <1>5, <1>8 DEF IInv, TypeOK
<1>10. SidesKept' /\ SkippedInSweep'
  BY <1>1, <1>4, <1>8 DEF IInv, SidesKept, SkippedInSweep
<1>11. \A x \in Present' : \E y \in Present : SameOrder(x, y)
  BY <1>2, <1>4, <1>7, <1>8 DEF Present, SameOrder
<1>12. CrossedOnlyByParked'
  BY <1>4, <1>11, CrossingKept DEF IInv
<1> QED BY <1>8, <1>9, <1>10, <1>12 DEF IInv

\* The early return of placeIOC drops what it skipped and keeps the rest.
LEMMA ReturnEarlyIOCKeepsInv ==
  ASSUME IInv, ReturnEarlyIOC
  PROVE  IInv'
<1> DEFINE side == Opp(cur.side)
<1>1. pc = "sweep" /\ pc # "idle"
  BY DEF ReturnEarlyIOC
<1>2. /\ cur \in Order /\ side \in Sides /\ OppBook = book[side]
      /\ OppBook \in Seq(Order) /\ Sorted(side, OppBook)
      /\ \A x \in ToSet(OppBook) : x.side = side
      /\ ToSet(OppBook) \subseteq Present
  BY <1>1, RunningFacts
<1>3. /\ pc' = "done" /\ skipped' = <<>> /\ ToSet(skipped') = {}
      /\ skipped' \in Seq(Order)
      /\ UNCHANGED <<cur, remaining, trades, err, placed, filled, cancelled, parked>>
  BY DEF ReturnEarlyIOC, ToSet
<1>4. /\ book' \in [Sides -> Seq(Order)] /\ BookSorted'
      /\ \A t \in Sides : \A x \in ToSet(book'[t]) : x.side = t
      /\ ToSet(book'["buy"]) \cup ToSet(book'["sell"])
           \subseteq ToSet(book["buy"]) \cup ToSet(book["sell"])
  <2>1. CASE UNCHANGED book
    BY <2>1 DEF IInv, TypeOK, BookSorted, SidesKept
  <2>2. CASE ~UNCHANGED book
    <3>1. OppBook # <<>>
      BY <2>2 DEF ReturnEarlyIOC
    <3>2. PICK s \in insertSorted(side, Tail(OppBook), Head(OppBook)) :
            book' = [book EXCEPT ![side] = s]
      BY <2>2 DEF ReturnEarlyIOC
    <3> HIDE DEF side
    <3>3. /\ Head(OppBook) \in Order /\ Head(OppBook) \in ToSet(OppBook)
          /\ Tail(OppBook) \in Seq(Order) /\ Sorted(side, Tail(OppBook))
          /\ ToSet(Tail(OppBook)) \subseteq ToSet(OppBook)
      BY <1>2, <3>1, PopKeepsOrder
    <3>4. s \in Seq(Order) /\ Sorted(side, s) /\ ToSet(s) \subseteq ToSet(OppBook)
      <4> DEFINE h == Head(OppBook)
                 t == Tail(OppBook)
      <4>1. /\ h \in Order /\ h \in ToSet(OppBook) /\ t \in Seq(Order)
            /\ Sorted(side, t) /\ ToSet(t) \subseteq ToSet(OppBook)
            /\ s \in insertSorted(side, t, h)
        BY <3>2, <3>3
      <4> HIDE DEF h, t
      <4> QED BY <4>1, insertSortedKeepsOrder
    <3>5. \A x \in ToSet(s) : x.side = side
      BY <1>2, <3>4
    <3>6. /\ book' \in [Sides -> Seq(Order)] /\ BookSorted'
          /\ \A t \in Sides : \A x \in ToSet(book'[t]) : x.side = t
          /\ ToSet(book'["buy"]) \cup ToSet(book'["sell"])
               \subseteq ToSet(book["buy"]) \cup ToSet(book["sell"]) \cup ToSet(s)
      BY <1>2, <3>2, <3>4, <3>5, SliceChange DEF IInv
    <3> QED BY <1>2, <3>4, <3>6 DEF Sides
  <2> QED BY <2>1, <2>2
<1>5. TypeOK'
  BY <1>2, <1>3, <1>4 DEF IInv, TypeOK
<1>6. SidesKept' /\ SkippedInSweep'
  BY <1>3, <1>4 DEF SidesKept, SkippedInSweep
<1>7. Present' \subseteq Present
  BY <1>3, <1>4 DEF Present
<1>8. CrossedOnlyByParked'
  BY <1>3, <1>7, CrossingKept DEF IInv, SameOrder
<1> QED BY <1>4, <1>5, <1>6, <1>8 DEF IInv

\* Putting a skipped order back keeps it present.
LEMMA ReinsertKeepsInv ==
  ASSUME IInv, Reinsert
  PROVE  IInv'
<1> DEFINE side == Opp(cur.side)
           h == Head(skipped)
           t == Tail(skipped)
<1>1. pc = "reinsert" /\ pc # "idle" /\ skipped # <<>>
  BY DEF Reinsert
<1>2. /\ cur \in Order /\ side \in Sides /\ OppBook = book[side]
      /\ OppBook \in Seq(Order) /\ Sorted(side, OppBook)
      /\ \A x \in ToSet(OppBook) : x.side = side
      /\ ToSet(OppBook) \subseteq Present
  BY <1>1, RunningFacts
<1>3. /\ h \in Order /\ h \in ToSet(skipped) /\ t \in Seq(Order)
      /\ ToSet(t) \subseteq ToSet(skipped)
  <2>1. skipped \in Seq(Order) /\ DOMAIN skipped = 1..Len(skipped)
        /\ Len(skipped) \in Nat /\ Len(skipped) # 0
    BY <1>1, LenProperties, EmptySeq DEF IInv, TypeOK
  <2>2. /\ h \in Order /\ t \in Seq(Order) /\ Len(t) = Len(skipped) - 1
        /\ \A i \in 1..Len(t) : t[i] = skipped[i + 1]
    BY <1>1, <2>1, HeadTailProperties
  <2>3. h \in ToSet(skipped)
    <3>1. h = skipped[1] /\ 1 \in 1..Len(skipped)
      BY <2>1
    <3> QED BY <2>1, <3>1, SeqElements
  <2>4. ASSUME NEW x \in ToSet(t) PROVE x \in ToSet(skipped)
    <3> HIDE DEF t
    <3>1. PICK j \in 1..Len(t) : x = t[j]
      BY <2>2, SeqElements
    <3>2. x = skipped[j + 1] /\ j + 1 \in 1..Len(skipped)
      BY <2>1, <2>2, <3>1
    <3> QED BY <2>1, <3>2, SeqElements
  <2> QED BY <2>2, <2>3, <2>4
<1>4. /\ skipped' = t
      /\ UNCHANGED <<pc, cur, remaining, trades, err, placed, filled, cancelled,
                     parked>>
  BY DEF Reinsert
<1>5. PICK s \in insertSorted(side, OppBook, h) : book' = [book EXCEPT ![side] = s]
  BY DEF Reinsert
<1>6. h.side = side
  BY <1>1, <1>3 DEF IInv, SidesKept
<1> HIDE DEF side, h, t
<1>7. s \in Seq(Order) /\ Sorted(side, s) /\ ToSet(s) \subseteq ToSet(OppBook) \cup {h}
  BY <1>2, <1>3, <1>5, insertSortedKeepsOrder
<1>8. /\ book' \in [Sides -> Seq(Order)] /\ BookSorted'
      /\ \A u \in Sides : \A x \in ToSet(book'[u]) : x.side = u
      /\ ToSet(book'["buy"]) \cup ToSet(book'["sell"])
           \subseteq ToSet(book["buy"]) \cup ToSet(book["sell"]) \cup ToSet(s)
  <2>1. \A x \in ToSet(s) : x.side = side
    BY <1>2, <1>6, <1>7
  <2> QED BY <1>2, <1>5, <1>7, <2>1, SliceChange DEF IInv
<1>9. TypeOK'
  BY <1>1, <1>2, <1>3, <1>4, <1>8 DEF IInv, TypeOK
<1>10. SidesKept' /\ SkippedInSweep'
  BY <1>1, <1>3, <1>4, <1>8 DEF IInv, SidesKept, SkippedInSweep
<1>11. Present' \subseteq Present
  BY <1>2, <1>3, <1>4, <1>7, <1>8 DEF Present
<1>12. CrossedOnlyByParked'
  BY <1>4, <1>11, CrossingKept DEF IInv, SameOrder
<1> QED BY <1>8, <1>9, <1>10, <1>12 DEF IInv

\* These steps leave the book and the skipped orders alone.
LEMMA OtherStepsKeepInv ==
  ASSUME IInv, SweepRunsDry \/ FinishSweep \/ Return
  PROVE  IInv'
<1>1. /\ UNCHANGED <<book, skipped, placed, filled, cancelled, parked>>
      /\ pc' \in {"idle", "reinsert", "done"} /\ pc \in {"sweep", "reinsert", "done"}
      /\ pc' # "idle" => UNCHANGED cur
      /\ pc' = "idle" => cur' = NoOrder
      /\ pc' = "reinsert" \/ skipped = <<>>
      /\ remaining' \in Nat /\ trades' \in Seq(Trade)
      /\ err' \in {"none", "no_liquidity"}
  <2>1. CASE SweepRunsDry
    BY <2>1 DEF SweepRunsDry, callVars, IInv, TypeOK
  <2>2. CASE FinishSweep
    BY <2>2 DEF FinishSweep, IInv, TypeOK
  <2>3. CASE Return
    BY <2>3 DEF Return, IInv, TypeOK, SkippedInSweep
  <2> QED BY <2>1, <2>2, <2>3
<1>2. TypeOK'
  BY <1>1 DEF IInv, TypeOK
<1>3. BookSorted' /\ SidesKept' /\ SkippedInSweep'
  BY <1>1 DEF IInv, BookSorted, SidesKept, SkippedInSweep
<1>4. CrossedOnlyByParked'
  BY <1>1 DEF IInv, CrossedOnlyByParked, Present
<1> QED BY <1>2, <1>3, <1>4 DEF IInv

\* Cancelling takes one order out of one slice.
LEMMA CancelKeepsInv ==
  ASSUME IInv, NEW id \in Ids, pc = "idle", CancelFound(id)
  PROVE  IInv'
<1>0. PICK side \in Sides : \E s \in removeByID(book[side], id) :
        book' = [book EXCEPT ![side] = s]
  BY DEF CancelFound
<1>1. PICK s \in removeByID(book[side], id) : book' = [book EXCEPT ![side] = s]
  BY <1>0
<1>2. /\ cancelled' = cancelled \cup {id}
      /\ UNCHANGED <<pc, cur, remaining, skipped, trades, err, placed, filled, parked>>
  BY DEF CancelFound, callVars
<1>3. /\ book[side] \in Seq(Order) /\ Sorted(side, book[side])
      /\ \A x \in ToSet(book[side]) : x.side = side
  BY DEF IInv, TypeOK, BookSorted, SidesKept
<1>4. s \in Seq(Order) /\ Sorted(side, s) /\ ToSet(s) \subseteq ToSet(book[side])
  BY <1>1, <1>3, removeByIDKeepsOrder
<1>5. /\ book' \in [Sides -> Seq(Order)] /\ BookSorted'
      /\ \A t \in Sides : \A x \in ToSet(book'[t]) : x.side = t
      /\ ToSet(book'["buy"]) \cup ToSet(book'["sell"])
           \subseteq ToSet(book["buy"]) \cup ToSet(book["sell"]) \cup ToSet(s)
  BY <1>1, <1>3, <1>4, SliceChange DEF IInv
<1>6. TypeOK'
  BY <1>2, <1>5 DEF IInv, TypeOK
<1>7. SidesKept' /\ SkippedInSweep'
  BY <1>2, <1>5 DEF IInv, SidesKept, SkippedInSweep
<1>8. Present' \subseteq Present
  BY <1>2, <1>4, <1>5 DEF Present, Sides
<1>9. CrossedOnlyByParked'
  BY <1>2, <1>8, CrossingKept DEF IInv, SameOrder
<1> QED BY <1>5, <1>6, <1>7, <1>9 DEF IInv

LEMMA NextKeepsInv == IInv /\ [Next]_vars => IInv'
<1> SUFFICES ASSUME IInv, [Next]_vars PROVE IInv'
  OBVIOUS
<1>1. CASE PlaceOrder
  BY <1>1, ParkLimitKeepsInv, StartKeepsInv DEF PlaceOrder
<1>2. CASE Step
  BY <1>2, FillLimitKeepsInv, RestLimitKeepsInv, SkipOwnKeepsInv,
     FillSweepKeepsInv, ReturnEarlyIOCKeepsInv, ReinsertKeepsInv,
     OtherStepsKeepInv DEF Step
<1>3. CASE UNCHANGED vars
  BY <1>3 DEF vars, callVars, IInv, TypeOK, BookSorted, SidesKept, SkippedInSweep,
              CrossedOnlyByParked, Present, Sorted
<1>4. ASSUME NEW id \in Ids, CancelOrder(id) PROVE IInv'
  BY <1>3, <1>4, CancelKeepsInv DEF CancelOrder, CancelNotFound
<1> QED BY <1>1, <1>2, <1>3, <1>4 DEF Next

----------------------------------------------------------------------------

LEMMA Inductive == Spec => []IInv
<1> QED BY InitInv, NextKeepsInv, PTL DEF Spec

\* Every variable keeps its type; in particular no call ever has a negative
\* quantity left to fill.
THEOREM TypeCorrect == Spec => []TypeOK
<1>1. IInv => TypeOK
  BY DEF IInv
<1> QED BY <1>1, Inductive, PTL

\* Both slices of the book are in price-time order at every step of every
\* call (orderbook.go: "Sort order (lock held at all times)"), so the head
\* that GetBestBid, GetBestAsk and the match loops take is the best order.
THEOREM BookStaysSorted == Spec => []BookSorted
<1>1. IInv => BookSorted
  BY DEF IInv
<1> QED BY <1>1, Inductive, PTL

\* Whenever a bid and an ask that cross rest together, placeLimit's self-match
\* branch put one of them there.
THEOREM CrossingComesFromParking == Spec => []CrossedOnlyByParked
<1>1. IInv => CrossedOnlyByParked
  BY DEF IInv
<1> QED BY <1>1, Inductive, PTL

----------------------------------------------------------------------------
(* RestingConserved, SelfTradeOnlyBehindOther, LostOnlyToOwnIOC rest on    *)
(* a second inductive invariant: the accounts of ids and quantities.  None *)
(* of the three is inductive alone, for a step trusts that ids name one    *)
(* order, that the running order is on no slice, and that what is skipped  *)
(* is not on a slice too.                                                  *)

\* The ids on a slice, and that none is there twice.
IdsOf(s) == {r.id : r \in ToSet(s)}
NoIdTwice(s) == \A i, j \in 1..Len(s) : s[i].id = s[j].id => i = j

\* A new order joins what is on the slice.
LEMMA InsertIds ==
  ASSUME NEW side, NEW s \in Seq(Order), NEW o \in Order,
         NEW t \in insertSorted(side, s, o)
  PROVE  /\ t \in Seq(Order) /\ ToSet(t) = ToSet(s) \cup {o}
         /\ (NoIdTwice(s) /\ o.id \notin IdsOf(s)) => NoIdTwice(t)
<1>1. PICK i \in SearchPoints(side, s, o) : t = InsertAt(s, i, o)
  BY DEF insertSorted
<1>2. i \in 1..(Len(s) + 1) /\ Len(s) \in Nat
  BY SeqElements DEF SearchPoints
<1>3. /\ t \in Seq(Order) /\ Len(t) = Len(s) + 1
      /\ \A j \in 1..(Len(s) + 1) :
           t[j] = IF j < i THEN s[j] ELSE IF j = i THEN o ELSE s[j - 1]
  <2>1. /\ InsertAt(s, i, o) \in Seq(Order)
        /\ Len(InsertAt(s, i, o)) = Len(s) + 1
        /\ \A j \in 1..(Len(s) + 1) :
             InsertAt(s, i, o)[j] = IF j < i THEN s[j]
                                    ELSE IF j = i THEN o ELSE s[j - 1]
    BY <1>2, InsertAtProperties
  <2> QED BY <1>1, <2>1, Zenon
<1> DEFINE from(j) == IF j < i THEN j ELSE j - 1
           to(k) == IF k < i THEN k ELSE k + 1
<1>4. \A j \in 1..Len(t) : j # i => from(j) \in 1..Len(s) /\ t[j] = s[from(j)]
  BY <1>2, <1>3
<1>5. \A k \in 1..Len(s) : to(k) \in 1..Len(t) /\ t[to(k)] = s[k]
  BY <1>2, <1>3
<1>6. t[i] = o /\ i \in 1..Len(t)
  BY <1>2, <1>3
<1>7. ToSet(t) = ToSet(s) \cup {o}
  <2>1. ASSUME NEW x \in ToSet(t) PROVE x \in ToSet(s) \cup {o}
    <3>1. PICK j \in 1..Len(t) : x = t[j]
      BY <1>3, SeqElements
    <3> HIDE DEF from
    <3> QED BY <1>4, <1>6, <3>1, SeqElements
  <2>2. ASSUME NEW x \in ToSet(s) PROVE x \in ToSet(t)
    <3>1. PICK k \in 1..Len(s) : x = s[k]
      BY SeqElements
    <3> HIDE DEF to
    <3> QED BY <1>3, <1>5, <3>1, SeqElements
  <2>3. o \in ToSet(t)
    BY <1>3, <1>6, SeqElements
  <2> QED BY <2>1, <2>2, <2>3
<1>8. ASSUME NoIdTwice(s), o.id \notin IdsOf(s),
             NEW j \in 1..Len(t), NEW k \in 1..Len(t), t[j].id = t[k].id
      PROVE  j = k
  <2>1. \A m \in 1..Len(s) : s[m].id # o.id
    BY <1>8, SeqElements DEF IdsOf
  <2>2. CASE j = i \/ k = i
    <3> HIDE DEF from
    <3> QED BY <1>4, <1>6, <1>8, <2>1, <2>2
  <2>3. CASE j # i /\ k # i
    <3>1. from(j) = from(k)
      <4> HIDE DEF from
      <4> QED BY <1>4, <1>8, <2>3 DEF NoIdTwice
    <3> QED BY <1>2, <2>3, <3>1, <1>3
  <2> QED BY <2>2, <2>3
<1> QED BY <1>3, <1>7, <1>8 DEF NoIdTwice

\* Popping takes the head, and only the head, off the slice.
LEMMA PopIds ==
  ASSUME NEW s \in Seq(Order), s # <<>>
  PROVE  /\ Head(s) \in Order /\ Tail(s) \in Seq(Order)
         /\ ToSet(s) = ToSet(Tail(s)) \cup {Head(s)}
         /\ NoIdTwice(s) => NoIdTwice(Tail(s)) /\ Head(s).id \notin IdsOf(Tail(s))
<1> DEFINE t == Tail(s)
<1>1. /\ Head(s) \in Order /\ t \in Seq(Order) /\ Len(t) = Len(s) - 1
      /\ \A i \in 1..Len(t) : t[i] = s[i + 1]
  BY HeadTailProperties
<1>2. Len(s) \in Nat /\ Len(s) # 0
  BY LenProperties, EmptySeq
<1>3. Head(s) = s[1] /\ 1 \in 1..Len(s)
  BY <1>2
<1> HIDE DEF t
<1>4. \A i \in 1..Len(t) : i + 1 \in 1..Len(s) /\ i + 1 # 1
  BY <1>1, <1>2
<1>5. ToSet(s) = ToSet(t) \cup {s[1]}
  <2>1. ASSUME NEW x \in ToSet(s) PROVE x \in ToSet(t) \cup {s[1]}
    <3>1. PICK k \in 1..Len(s) : x = s[k]
      BY SeqElements
    <3>2. CASE k # 1
      <4>1. k - 1 \in 1..Len(t) /\ (k - 1) + 1 = k
        BY <1>1, <1>2, <3>2
      <4>2. t[k - 1] = x
        BY <1>1, <3>1, <4>1
      <4> QED BY <1>1, <4>1, <4>2, SeqElements
    <3> QED BY <3>1, <3>2
  <2>2. ASSUME NEW x \in ToSet(t) PROVE x \in ToSet(s)
    <3>1. PICK k \in 1..Len(t) : x = t[k]
      BY <1>1, SeqElements
    <3> QED BY <1>1, <1>4, <3>1, SeqElements
  <2>3. s[1] \in ToSet(s)
    BY <1>3, SeqElements
  <2> QED BY <2>1, <2>2, <2>3
<1>6. ASSUME NoIdTwice(s)
      PROVE  NoIdTwice(t) /\ s[1].id \notin IdsOf(t)
  <2>1. NoIdTwice(t)
    <3> SUFFICES ASSUME NEW i \in 1..Len(t), NEW j \in 1..Len(t), t[i].id = t[j].id
                 PROVE  i = j
      BY DEF NoIdTwice
    <3>1. i + 1 = j + 1
      BY <1>1, <1>4, <1>6 DEF NoIdTwice
    <3> QED BY <3>1
  <2>2. ASSUME NEW x \in ToSet(t) PROVE x.id # s[1].id
    <3>1. PICK k \in 1..Len(t) : x = t[k]
      BY <1>1, SeqElements
    <3> QED BY <1>1, <1>3, <1>4, <1>6, <3>1 DEF NoIdTwice
  <2> QED BY <2>1, <2>2 DEF IdsOf
<1> QED BY <1>1, <1>3, <1>5, <1>6 DEF t

\* A fill in place leaves the head smaller or takes it off.
LEMMA consumeHeadIds ==
  ASSUME NEW s \in Seq(Order), s # <<>>, NEW q \in Int, NoIdTwice(s)
  PROVE  LET t == consumeHead(s, q)
             h == [Head(s) EXCEPT !.qty = @ - q]
         IN  /\ NoIdTwice(t)
             /\ ToSet(t) = ToSet(Tail(s)) \cup (IF q = Head(s).qty THEN {} ELSE {h})
<1> DEFINE h == [Head(s) EXCEPT !.qty = @ - q]
           t == <<h>> \o Tail(s)
<1>1. /\ Head(s) \in Order /\ Tail(s) \in Seq(Order)
      /\ NoIdTwice(Tail(s)) /\ Head(s).id \notin IdsOf(Tail(s))
  BY PopIds
<1>2. CASE q = Head(s).qty
  BY <1>1, <1>2 DEF consumeHead
<1>3. CASE q # Head(s).qty
  <2>1. h \in Order /\ h.id = Head(s).id
    BY <1>1, SmallerOrder DEF SameOrder
  <2> HIDE DEF h
  <2>2. /\ t \in Seq(Order) /\ Len(t) = Len(s) /\ Len(s) \in Nat
        /\ \A j \in 1..Len(s) : t[j] = IF j = 1 THEN h ELSE s[j]
    BY <2>1, NewHeadProperties, LenProperties
  <2>3. /\ Len(Tail(s)) = Len(s) - 1 /\ Head(s) = s[1] /\ 1 \in 1..Len(s)
        /\ \A i \in 1..Len(Tail(s)) : Tail(s)[i] = s[i + 1]
    <3>1. Len(s) # 0
      BY <2>2, EmptySeq
    <3> QED BY <2>2, <3>1, HeadTailProperties
  <2> HIDE DEF t
  <2>4. NoIdTwice(t)
    <3>1. \A j \in 1..Len(s) : t[j].id = s[j].id
      BY <2>1, <2>2, <2>3
    <3> QED BY <2>2, <3>1 DEF NoIdTwice
  <2>5. ASSUME NEW x \in ToSet(t) PROVE x \in ToSet(Tail(s)) \cup {h}
    <3>1. PICK j \in 1..Len(t) : x = t[j]
      BY <2>2, SeqElements
    <3>2. CASE j = 1
      BY <2>2, <3>1, <3>2
    <3>3. CASE j # 1
      <4>1. j - 1 \in 1..Len(Tail(s)) /\ Tail(s)[j - 1] = s[j] /\ x = s[j]
        BY <2>2, <2>3, <3>1, <3>3
      <4> QED BY <1>1, <4>1, SeqElements
    <3> QED BY <3>2, <3>3
  <2>6. ASSUME NEW x \in ToSet(Tail(s)) PROVE x \in ToSet(t)
    <3>1. PICK i \in 1..Len(Tail(s)) : x = Tail(s)[i]
      BY <1>1, SeqElements
    <3>2. i + 1 \in 1..Len(t) /\ t[i + 1] = x
      BY <2>2, <2>3, <3>1
    <3> QED BY <2>2, <3>2, SeqElements
  <2>7. h \in ToSet(t)
    <3>1. t[1] = h /\ 1 \in 1..Len(t)
      BY <2>2, <2>3
    <3> QED BY <2>2, <3>1, SeqElements
  <2>8. consumeHead(s, q) = t
    BY <1>3 DEF consumeHead, t, h
  <2>9. ToSet(t) = ToSet(Tail(s)) \cup {h}
    BY <2>5, <2>6, <2>7
  <2> QED BY <1>3, <2>4, <2>8, <2>9 DEF h
<1> QED BY <1>2, <1>3

\* So does a sweep, which puts what is left of the head back.
LEMMA popAndRestIds ==
  ASSUME NEW side, NEW s \in Seq(Order), s # <<>>, NEW q \in Int, NoIdTwice(s),
         NEW t \in popAndRest(side, s, q)
  PROVE  /\ NoIdTwice(t)
         /\ ToSet(t) = ToSet(Tail(s))
                         \cup (IF q = Head(s).qty THEN {}
                               ELSE {[Head(s) EXCEPT !.qty = @ - q]})
<1> DEFINE h == [Head(s) EXCEPT !.qty = @ - q]
           u == Tail(s)
<1>1. /\ Head(s) \in Order /\ u \in Seq(Order)
      /\ NoIdTwice(u) /\ Head(s).id \notin IdsOf(u)
  BY PopIds
<1>2. CASE q = Head(s).qty
  BY <1>1, <1>2 DEF popAndRest
<1>3. CASE q # Head(s).qty
  <2>1. h \in Order /\ h.id = Head(s).id
    BY <1>1, SmallerOrder DEF SameOrder
  <2>2. t \in insertSorted(side, u, h)
    BY <1>3 DEF popAndRest
  <2> HIDE DEF h, u
  <2>3. NoIdTwice(t) /\ ToSet(t) = ToSet(u) \cup {h}
    BY <1>1, <2>1, <2>2, InsertIds
  <2> QED BY <1>3, <2>3 DEF h, u
<1> QED BY <1>2, <1>3

\* Removal by id takes every order of that id off a slice without duplicates.
LEMMA removeByIDIds ==
  ASSUME NEW s \in Seq(Order), NEW id, NEW t \in removeByID(s, id), NoIdTwice(s)
  PROVE  NoIdTwice(t) /\ ToSet(t) = {r \in ToSet(s) : r.id # id}
<1>1. PICK i \in 1..Len(s) : t = RemoveAt(s, i) /\ s[i].id = id
  BY DEF removeByID
<1>2. /\ t \in Seq(Order) /\ Len(t) = Len(s) - 1 /\ Len(s) \in Nat
      /\ \A j \in 1..(Len(s) - 1) : t[j] = IF j < i THEN s[j] ELSE s[j + 1]
  BY <1>1, RemoveAtProperties, LenProperties
<1> DEFINE from(j) == IF j < i THEN j ELSE j + 1
           to(k) == IF k < i THEN k ELSE k - 1
<1>3. \A j \in 1..Len(t) : from(j) \in 1..Len(s) /\ t[j] = s[from(j)] /\ from(j) # i
  BY <1>2
<1>4. \A k \in 1..Len(s) : k # i => to(k) \in 1..Len(t) /\ t[to(k)] = s[k]
  BY <1>2
<1>5. NoIdTwice(t)
  <2> SUFFICES ASSUME NEW j \in 1..Len(t), NEW k \in 1..Len(t), t[j].id = t[k].id
               PROVE  j = k
    BY DEF NoIdTwice
  <2>1. from(j) = from(k)
    <3> HIDE DEF from
    <3> QED BY <1>3 DEF NoIdTwice
  <2> QED BY <1>2, <2>1
<1> HIDE DEF from, to
<1>6. ASSUME NEW x \in ToSet(t) PROVE x \in ToSet(s) /\ x.id # id
  <2>1. PICK j \in 1..Len(t) : x = t[j]
    BY <1>2, SeqElements
  <2> QED BY <1>1, <1>3, <2>1, SeqElements DEF NoIdTwice
<1>7. ASSUME NEW x \in ToSet(s), x.id # id PROVE x \in ToSet(t)
  <2>1. PICK k \in 1..Len(s) : x = s[k]
    BY SeqElements
  <2> QED BY <1>1, <1>2, <1>4, <1>7, <2>1, SeqElements
<1> QED BY <1>5, <1>6, <1>7

\* As many ids as places.
LEMMA CountIds ==
  ASSUME NEW s \in Seq(Order), NoIdTwice(s)
  PROVE  IsFiniteSet(IdsOf(s)) /\ Cardinality(IdsOf(s)) = Len(s)
<1> DEFINE n == Len(s)
           f == [i \in 1..n |-> s[i].id]
<1>1. n \in Nat
  BY SeqElements
<1>2. f \in Bijection(1..n, IdsOf(s))
  <2>1. f \in [1..n -> IdsOf(s)]
    BY SeqElements DEF IdsOf
  <2>2. \A i, j \in 1..n : f[i] = f[j] => i = j
    BY DEF NoIdTwice
  <2>3. \A x \in IdsOf(s) : \E i \in 1..n : f[i] = x
    BY SeqElements DEF IdsOf
  <2> HIDE DEF f, n
  <2> QED BY <2>1, <2>2, <2>3 DEF Bijection, Injection, Surjection, IsInjective
<1> HIDE DEF f, n
<1>3. ExistsBijection(1..n, IdsOf(s))
  BY <1>2 DEF ExistsBijection
<1> QED BY <1>1, <1>3, FS_CountingElements, FS_NatBijection DEF n

----------------------------------------------------------------------------
(* What rests is what was placed less what was traded.                     *)

\* Order p with n left to fill.
WithLeft(p, n) == [p EXCEPT !.qty = n]

\* Only the quantity differs.
LEMMA WithLeftFields ==
  ASSUME NEW p \in Order, NEW n \in Int
  PROVE  /\ WithLeft(p, n) \in Order
         /\ WithLeft(p, n).id = p.id /\ WithLeft(p, n).user = p.user
         /\ WithLeft(p, n).side = p.side /\ WithLeft(p, n).type = p.type
         /\ WithLeft(p, n).qty = n
         /\ \A m \in Int : WithLeft(WithLeft(p, n), m) = WithLeft(p, m)
         /\ WithLeft(p, p.qty) = p
BY DEF WithLeft, Order

OneOrderPerId == \A p, q \in placed : p.id = q.id => p = q

FreshUntouched ==
  \A id \in Ids : Fresh(id) => filled[id] = 0 /\ id \notin cancelled

FilledBounded == \A p \in placed : filled[p.id] \in 0..p.qty

RestingIsLeft ==
  \A r \in Present :
    /\ r.id \notin cancelled
    /\ r.qty > 0
    /\ \E p \in placed : p.type = "limit" /\ r = WithLeft(p, p.qty - filled[p.id])

\* No id is twice on a slice or among the skipped, nor on a slice and among
\* the skipped.
OnePlace ==
  /\ NoIdTwice(skipped)
  /\ \A side \in Sides : /\ NoIdTwice(book[side])
                         /\ IdsOf(skipped) \cap IdsOf(book[side]) = {}

\* The running call's order is not on the book before the call is done, and
\* what is left of it is what it has not traded.
CallAccounted ==
  pc # "idle" =>
    /\ cur \in placed
    /\ remaining = cur.qty - filled[cur.id]
    /\ cur.id \notin cancelled
    /\ pc # "done" => cur.id \notin PresentIds
    /\ pc \in {"match", "sweep"} => remaining > 0
    /\ pc = "match" => cur.type = "limit"
    /\ \A r \in ToSet(skipped) : r.user = cur.user

Accounts ==
  /\ OneOrderPerId /\ FreshUntouched /\ FilledBounded
  /\ RestingIsLeft /\ OnePlace /\ CallAccounted

\* Before the first call there is nothing to account for.
LEMMA InitAccounts == Init => Accounts
<1> SUFFICES ASSUME Init PROVE Accounts
  OBVIOUS
<1>1. Len(<<>>) = 0 /\ ToSet(<<>>) = {}
  BY DEF ToSet
<1>2. Present = {}
  BY <1>1 DEF Init, Present, Sides
<1>3. OnePlace
  BY <1>1 DEF Init, OnePlace, NoIdTwice, IdsOf
<1> QED BY <1>2, <1>3 DEF Init, Accounts, OneOrderPerId, FreshUntouched,
           FilledBounded, RestingIsLeft, CallAccounted

\* Two resting orders of one id are one order.
LEMMA PresentDetermined ==
  ASSUME IInv, Accounts
  PROVE  /\ Present \subseteq Order
         /\ \A x, y \in Present : x.id = y.id => x = y
         /\ \A x \in Present : \E p \in placed :
              /\ p.id = x.id /\ p.side = x.side /\ p.user = x.user
              /\ p.type = "limit" /\ x = WithLeft(p, p.qty - filled[p.id])
         /\ \A p \in placed : p \in Order /\ p.id \in Ids /\ filled[p.id] \in Int
<1>1. \A p \in placed : p \in Order /\ p.id \in Ids /\ filled[p.id] \in Int
  BY DEF IInv, TypeOK, Order
<1>2. ASSUME NEW x \in Present
      PROVE  \E p \in placed :
              /\ p.id = x.id /\ p.side = x.side /\ p.user = x.user
              /\ p.type = "limit" /\ x = WithLeft(p, p.qty - filled[p.id])
              /\ x \in Order
  <2>1. PICK p \in placed : p.type = "limit" /\ x = WithLeft(p, p.qty - filled[p.id])
    BY DEF Accounts, RestingIsLeft
  <2>2. p \in Order /\ p.qty - filled[p.id] \in Int
    BY <1>1, OrderFields
  <2> QED BY <2>1, <2>2, WithLeftFields
<1>3. ASSUME NEW x \in Present, NEW y \in Present, x.id = y.id PROVE x = y
  <2>1. PICK p \in placed : p.id = x.id /\ x = WithLeft(p, p.qty - filled[p.id])
    BY <1>2
  <2>2. PICK q \in placed : q.id = y.id /\ y = WithLeft(q, q.qty - filled[q.id])
    BY <1>2
  <2>3. p = q
    BY <1>3, <2>1, <2>2 DEF Accounts, OneOrderPerId
  <2> QED BY <2>1, <2>2, <2>3
<1> QED BY <1>1, <1>2, <1>3

\* Ids name orders.
LEMMA OriginalOf ==
  ASSUME OneOrderPerId, NEW p \in placed
  PROVE  Original(p.id) = p
BY DEF OneOrderPerId, Original

\* What is present after one slice has changed.
LEMMA PresentAfter ==
  ASSUME TypeOK, NEW side \in Sides, NEW t, book' = [book EXCEPT ![side] = t]
  PROVE  /\ Present' = ToSet(t) \cup ToSet(book[Opp(side)]) \cup ToSet(skipped')
         /\ Present = ToSet(book[side]) \cup ToSet(book[Opp(side)]) \cup ToSet(skipped)
         /\ book'[side] = t /\ book'[Opp(side)] = book[Opp(side)]
         /\ \A s \in Sides : s = side \/ s = Opp(side)
<1>1. /\ book'[side] = t /\ book'[Opp(side)] = book[Opp(side)]
      /\ \A s \in Sides : s = side \/ s = Opp(side)
  BY DEF TypeOK, Opp, Sides
<1> QED BY <1>1 DEF Present, Opp, Sides

\* A call that starts brings in a fresh id, on the book only when it parks.
LEMMA StartKeepsAccounts ==
  ASSUME IInv, Accounts, NEW o \in Acceptable, pc = "idle",
         ParkLimit(o) \/ StartLimit(o) \/ StartSweep(o)
  PROVE  Accounts' /\ PresentIds \subseteq PresentIds'
<1>1. /\ o \in Order /\ o.qty \in Nat /\ o.qty > 0 /\ o.id \in Ids /\ Fresh(o.id)
      /\ o.side \in Sides
  <2>1. o \in Submission /\ Valid(o) /\ Fresh(o.id)
    BY DEF Acceptable
  <2>2. o \in Order /\ o.id \in Ids /\ o.side \in Sides /\ o.qty \in Int /\ o.qty > 0
    BY <2>1, ConstantsAssumption DEF Submission, Order, Valid
  <2> QED BY <2>1, <2>2
<1>2. /\ pc' \in {"match", "sweep", "done"}
      /\ cur' = o /\ remaining' = o.qty /\ skipped' = <<>>
      /\ placed' = placed \cup {o} /\ UNCHANGED <<filled, cancelled>>
      /\ pc' \in {"match", "done"} => o.type = "limit"
  BY DEF ParkLimit, StartLimit, StartSweep, Begin
<1>3. filled[o.id] = 0 /\ o.id \notin cancelled /\ o.id \notin PresentIds
  <2>1. filled[o.id] = 0 /\ o.id \notin cancelled
    BY <1>1 DEF Accounts, FreshUntouched
  <2> QED BY <1>1, <2>1, PresentDetermined DEF PresentIds, Fresh
<1>4. OneOrderPerId' /\ FreshUntouched' /\ FilledBounded'
  <2>1. OneOrderPerId'
    BY <1>1, <1>2 DEF Accounts, OneOrderPerId, Fresh
  <2>2. FreshUntouched'
    BY <1>2 DEF Accounts, FreshUntouched, Fresh
  <2>3. FilledBounded'
    BY <1>1, <1>2, <1>3 DEF Accounts, FilledBounded
  <2> QED BY <2>1, <2>2, <2>3
<1>5. skipped = <<>> /\ ToSet(<<>>) = {} /\ IdsOf(<<>>) = {} /\ NoIdTwice(<<>>)
  BY DEF IInv, SkippedInSweep, ToSet, IdsOf, NoIdTwice
<1>6. /\ \A side \in Sides : NoIdTwice(book'[side])
      /\ Present' = IF pc' = "done" THEN Present \cup {o} ELSE Present
  <2>1. CASE ParkLimit(o)
    <3>1. PICK s \in insertSorted(o.side, book[o.side], o) :
            book' = [book EXCEPT ![o.side] = s]
      BY <2>1 DEF ParkLimit
    <3>2. book[o.side] \in Seq(Order) /\ NoIdTwice(book[o.side])
          /\ o.id \notin IdsOf(book[o.side])
      <4>1. ToSet(book[o.side]) \subseteq Present
        BY <1>1 DEF Present, Sides
      <4> QED BY <1>1, <1>3, <4>1 DEF IInv, TypeOK, Accounts, OnePlace, IdsOf, PresentIds
    <3>3. NoIdTwice(s) /\ ToSet(s) = ToSet(book[o.side]) \cup {o}
      BY <1>1, <3>1, <3>2, InsertIds
    <3>4. pc' = "done"
      BY <2>1 DEF ParkLimit, Begin
    <3>5. /\ Present' = ToSet(s) \cup ToSet(book[Opp(o.side)]) \cup ToSet(skipped')
          /\ Present = ToSet(book[o.side]) \cup ToSet(book[Opp(o.side)]) \cup ToSet(skipped)
          /\ book'[o.side] = s /\ book'[Opp(o.side)] = book[Opp(o.side)]
          /\ \A side \in Sides : side = o.side \/ side = Opp(o.side)
      BY <1>1, <3>1, PresentAfter DEF IInv
    <3>6. \A side \in Sides : NoIdTwice(book'[side])
      BY <3>3, <3>5 DEF Accounts, OnePlace
    <3> QED BY <1>2, <1>5, <3>3, <3>4, <3>5, <3>6
  <2>2. CASE StartLimit(o) \/ StartSweep(o)
    <3>1. book' = book /\ pc' # "done"
      BY <2>2 DEF StartLimit, StartSweep, Begin
    <3> QED BY <1>2, <1>5, <3>1 DEF Present, Accounts, OnePlace
  <2> QED BY <2>1, <2>2
<1>7. OnePlace'
  BY <1>2, <1>5, <1>6 DEF OnePlace
<1>8. RestingIsLeft'
  <2> SUFFICES ASSUME NEW r \in Present'
               PROVE  /\ r.id \notin cancelled' /\ r.qty > 0
                      /\ \E p \in placed' :
                           p.type = "limit" /\ r = WithLeft(p, p.qty - filled'[p.id])
    BY DEF RestingIsLeft
  <2>1. CASE r \in Present
    BY <1>2, <2>1 DEF Accounts, RestingIsLeft
  <2>2. CASE r = o /\ pc' = "done"
    <3>1. o = WithLeft(o, o.qty - filled'[o.id])
      BY <1>1, <1>2, <1>3, WithLeftFields
    <3> QED BY <1>1, <1>2, <1>3, <2>2, <3>1
  <2> QED BY <1>6, <2>1, <2>2
<1>9. CallAccounted'
  <2>1. pc' # "done" => cur'.id \notin PresentIds'
    BY <1>2, <1>3, <1>6 DEF PresentIds
  <2> QED BY <1>1, <1>2, <1>3, <1>5, <2>1 DEF CallAccounted
<1> QED BY <1>4, <1>6, <1>7, <1>8, <1>9 DEF Accounts, PresentIds

\* A fill, in place or by a sweep: the head r trades q and t is what is left
\* of its slice.
LEMMA FillKeepsAccounts ==
  ASSUME IInv, Accounts, pc \in {"match", "sweep"}, OppBook # <<>>,
         NEW r, r = Head(OppBook), NEW q, q = FillQty(r), Execute(r, q),
         NEW t, book' = [book EXCEPT ![Opp(cur.side)] = t], NoIdTwice(t),
         ToSet(t) = ToSet(Tail(OppBook))
                      \cup (IF q = r.qty THEN {} ELSE {[r EXCEPT !.qty = @ - q]}),
         pc' \in IF q = remaining THEN {"done", "reinsert"} ELSE {pc},
         UNCHANGED <<cur, skipped, placed, cancelled>>
  PROVE  /\ Accounts'
         /\ \A id \in PresentIds \ PresentIds' : filled'[id] = Original(id).qty
<1> DEFINE side == Opp(cur.side)
           h == [r EXCEPT !.qty = @ - q]
<1>1. /\ cur \in Order /\ side \in Sides /\ OppBook = book[side]
      /\ OppBook \in Seq(Order) /\ ToSet(OppBook) \subseteq Present
      /\ \A x \in ToSet(OppBook) : x.side = side
  BY RunningFacts
<1>2. /\ r \in Order /\ ToSet(OppBook) = ToSet(Tail(OppBook)) \cup {r}
      /\ r.id \notin IdsOf(Tail(OppBook)) /\ r \in Present
      /\ NoIdTwice(OppBook) /\ r \in ToSet(book[side])
  <2>1. NoIdTwice(OppBook)
    BY <1>1 DEF Accounts, OnePlace
  <2> QED BY <1>1, <2>1, PopIds
<1>3. PICK p \in placed : /\ p.id = r.id /\ p.type = "limit" /\ p \in Order
                          /\ r = WithLeft(p, p.qty - filled[p.id])
                          /\ p.qty \in Int /\ filled[p.id] \in Int
  BY <1>2, PresentDetermined, OrderFields
<1>4. /\ cur \in placed /\ remaining \in Int /\ remaining > 0
      /\ remaining = cur.qty - filled[cur.id] /\ cur.id \notin PresentIds
      /\ cur.id # r.id /\ cur.id \in Ids /\ r.id \in Ids
      /\ cur.qty \in Int /\ filled[cur.id] \in Int
  <2>1. /\ cur \in placed /\ remaining > 0 /\ remaining = cur.qty - filled[cur.id]
        /\ cur.id \notin PresentIds
    BY DEF Accounts, CallAccounted
  <2>2. remaining \in Int
    BY DEF IInv, TypeOK
  <2>3. cur.id \in Ids /\ r.id \in Ids /\ cur.qty \in Int
    BY <1>1, <1>2 DEF Order
  <2>4. filled[cur.id] \in Int
    BY <2>3 DEF IInv, TypeOK
  <2>5. cur.id # r.id
    BY <1>2, <2>1 DEF PresentIds
  <2> QED BY <2>1, <2>2, <2>3, <2>4, <2>5
<1>5. /\ r.qty \in Int /\ r.qty > 0 /\ r.qty = p.qty - filled[p.id]
      /\ q \in Int /\ q > 0 /\ q <= r.qty /\ q <= remaining
  <2>1. r.qty \in Int /\ r.qty > 0
    BY <1>2, OrderFields DEF Accounts, RestingIsLeft
  <2>2. r.qty = p.qty - filled[p.id]
    BY <1>3, WithLeftFields
  <2> QED BY <1>4, <2>1, <2>2 DEF FillQty
<1>6. \A id \in Ids :
        filled'[id] = IF id = cur.id \/ id = r.id THEN filled[id] + q ELSE filled[id]
  BY <1>4 DEF Execute, IInv, TypeOK
<1>7. /\ Present' = ToSet(t) \cup ToSet(book[Opp(side)]) \cup ToSet(skipped)
      /\ Present = ToSet(book[side]) \cup ToSet(book[Opp(side)]) \cup ToSet(skipped)
      /\ book'[side] = t /\ book'[Opp(side)] = book[Opp(side)]
      /\ \A s \in Sides : s = side \/ s = Opp(side)
  BY <1>1, PresentAfter DEF IInv
<1> HIDE DEF side, h
<1>8. ASSUME NEW x \in Present'
      PROVE  (x \in Present /\ x.id # r.id) \/ (x = h /\ q # r.qty)
  <2>1. CASE x \in ToSet(Tail(OppBook))
    BY <1>1, <1>2, <2>1 DEF IdsOf
  <2>2. CASE x \in ToSet(book[Opp(side)])
    <3>1. x \in Present /\ x.side # r.side
      BY <1>1, <1>2, <1>7, <2>2, OppSide DEF IInv, SidesKept
    <3> QED BY <1>2, <3>1, PresentDetermined
  <2>3. CASE x \in ToSet(skipped)
    BY <1>1, <1>2, <1>7, <2>3 DEF Accounts, OnePlace, IdsOf
  <2> QED BY <1>7, <2>1, <2>2, <2>3 DEF h
<1>9. h = WithLeft(p, p.qty - (filled[p.id] + q)) /\ h.qty = r.qty - q /\ h.id = r.id
  <2>1. h = WithLeft(r, r.qty - q)
    BY <1>2 DEF h, WithLeft
  <2>2. r.qty - q \in Int /\ r.qty - q = p.qty - (filled[p.id] + q)
    BY <1>3, <1>5
  <2>3. WithLeft(r, r.qty - q) = WithLeft(p, r.qty - q)
    BY <1>3, <2>2, WithLeftFields
  <2>4. WithLeft(r, r.qty - q).qty = r.qty - q /\ WithLeft(r, r.qty - q).id = r.id
    BY <1>2, <2>2, WithLeftFields
  <2> QED BY <2>1, <2>2, <2>3, <2>4
<1>10. OneOrderPerId' /\ FreshUntouched' /\ FilledBounded'
  <2>1. OneOrderPerId'
    BY DEF Accounts, OneOrderPerId
  <2>2. FreshUntouched'
    BY <1>3, <1>4, <1>6 DEF Accounts, FreshUntouched, Fresh
  <2>3. ASSUME NEW p1 \in placed PROVE filled'[p1.id] \in 0..p1.qty
    <3>1. /\ p1.id \in Ids /\ filled[p1.id] \in 0..p1.qty
          /\ p1 \in Order /\ p1.qty \in Int /\ filled[p1.id] \in Int
      BY PresentDetermined, OrderFields DEF Accounts, FilledBounded
    <3>2. CASE p1.id = cur.id
      <4>1. p1 = cur
        BY <1>4, <3>2 DEF Accounts, OneOrderPerId
      <4> QED BY <1>4, <1>5, <1>6, <3>1, <4>1
    <3>3. CASE p1.id = r.id
      <4>1. p1 = p
        BY <1>3, <3>3 DEF Accounts, OneOrderPerId
      <4> QED BY <1>3, <1>5, <1>6, <3>1, <3>3, <4>1
    <3>4. CASE p1.id # cur.id /\ p1.id # r.id
      BY <1>6, <3>1, <3>4
    <3> QED BY <3>2, <3>3, <3>4
  <2> QED BY <2>1, <2>2, <2>3 DEF FilledBounded
<1>11. OnePlace'
  <2>1. IdsOf(t) \subseteq IdsOf(OppBook)
    BY <1>2, <1>9 DEF IdsOf, h
  <2> QED BY <1>1, <1>7, <2>1 DEF Accounts, OnePlace, IdsOf
<1>12. RestingIsLeft'
  <2> SUFFICES ASSUME NEW x \in Present'
               PROVE  /\ x.id \notin cancelled /\ x.qty > 0
                      /\ \E p1 \in placed :
                           /\ p1.type = "limit"
                           /\ x = WithLeft(p1, p1.qty - filled'[p1.id])
    BY DEF RestingIsLeft
  <2>1. CASE x \in Present /\ x.id # r.id
    <3>1. PICK p1 \in placed : /\ p1.id = x.id /\ p1.type = "limit"
                               /\ x = WithLeft(p1, p1.qty - filled[p1.id])
                               /\ p1.id \in Ids
      BY <2>1, PresentDetermined
    <3>2. filled'[p1.id] = filled[p1.id]
      BY <1>4, <1>6, <2>1, <3>1 DEF PresentIds
    <3> QED BY <2>1, <3>1, <3>2 DEF Accounts, RestingIsLeft
  <2>2. CASE x = h /\ q # r.qty
    <3>1. filled'[p.id] = filled[p.id] + q
      BY <1>3, <1>4, <1>6
    <3>2. x.id \notin cancelled
      BY <1>2, <1>9, <2>2 DEF Accounts, RestingIsLeft
    <3>3. x.qty > 0
      BY <1>5, <1>9, <2>2
    <3> QED BY <1>3, <1>9, <2>2, <3>1, <3>2, <3>3
  <2> QED BY <1>8, <2>1, <2>2
<1>13. CallAccounted'
  <2>1. cur \in placed /\ cur.id \notin cancelled
        /\ \A x \in ToSet(skipped) : x.user = cur.user
    BY DEF Accounts, CallAccounted
  <2>2. remaining' = remaining - q /\ filled'[cur.id] = filled[cur.id] + q
    BY <1>4, <1>6 DEF Execute
  <2>3. remaining' = cur.qty - filled'[cur.id]
    BY <1>4, <1>5, <2>2
  <2>4. cur.id \notin PresentIds'
    BY <1>4, <1>8, <1>9 DEF PresentIds
  <2>5. pc' \in {"match", "sweep"} => remaining' > 0 /\ pc' = pc
    BY <1>4, <1>5, <2>2
  <2>6. pc' = "match" => cur.type = "limit"
    BY <2>5 DEF Accounts, CallAccounted
  <2> QED BY <2>1, <2>3, <2>4, <2>5, <2>6 DEF CallAccounted
<1>14. ASSUME NEW x \in Present, x.id \notin PresentIds'
       PROVE  filled'[x.id] = Original(x.id).qty
  <2>1. x = r
    BY <1>1, <1>2, <1>7, <1>14 DEF PresentIds
  <2>2. q = r.qty
    BY <1>7, <1>9, <1>14, <2>1 DEF PresentIds, h
  <2>3. filled'[p.id] = p.qty
    BY <1>3, <1>4, <1>5, <1>6, <2>2
  <2> QED BY <1>3, <2>1, <2>3, OriginalOf DEF Accounts
<1> QED BY <1>10, <1>11, <1>12, <1>13, <1>14 DEF Accounts, PresentIds

\* A turn of matchBuy or matchSell.
LEMMA FillLimitKeepsAccounts ==
  ASSUME IInv, Accounts, FillLimit
  PROVE  /\ Accounts'
         /\ \A id \in PresentIds \ PresentIds' : filled'[id] = Original(id).qty
<1> DEFINE r == Head(OppBook)
           q == FillQty(r)
           t == consumeHead(OppBook, q)
<1>1. pc = "match" /\ OppBook # <<>> /\ pc # "idle"
  BY DEF FillLimit, HeadCrosses
<1>2. OppBook \in Seq(Order) /\ OppBook = book[Opp(cur.side)] /\ NoIdTwice(OppBook)
  BY <1>1, RunningFacts DEF Accounts, OnePlace
<1>3. r \in Order /\ Execute(r, q)
  BY <1>1, <1>2, PopIds DEF FillLimit
<1>4. q \in Int
  BY <1>1, <1>3, ExecuteFacts
<1>5. /\ NoIdTwice(t)
      /\ ToSet(t) = ToSet(Tail(OppBook))
                      \cup (IF q = r.qty THEN {} ELSE {[r EXCEPT !.qty = @ - q]})
  BY <1>1, <1>2, <1>4, consumeHeadIds
<1>6. /\ book' = [book EXCEPT ![Opp(cur.side)] = t]
      /\ pc' \in IF q = remaining THEN {"done", "reinsert"} ELSE {pc}
      /\ UNCHANGED <<cur, skipped, placed, cancelled>>
  BY <1>1, <1>2 DEF FillLimit
<1> HIDE DEF t
<1> QED BY <1>1, <1>3, <1>5, <1>6, FillKeepsAccounts

\* A fill of a market or IOC order.
LEMMA FillSweepKeepsAccounts ==
  ASSUME IInv, Accounts, FillSweep
  PROVE  /\ Accounts'
         /\ \A id \in PresentIds \ PresentIds' : filled'[id] = Original(id).qty
<1> DEFINE r == Head(OppBook)
           q == FillQty(r)
<1>1. pc = "sweep" /\ OppBook # <<>> /\ pc # "idle"
  BY DEF FillSweep, SweepGoesOn
<1>2. OppBook \in Seq(Order) /\ OppBook = book[Opp(cur.side)] /\ NoIdTwice(OppBook)
  BY <1>1, RunningFacts DEF Accounts, OnePlace
<1>3. r \in Order /\ Execute(r, q)
  BY <1>1, <1>2, PopIds DEF FillSweep
<1>4. q \in Int
  BY <1>1, <1>3, ExecuteFacts
<1>5. PICK t \in popAndRest(Opp(cur.side), OppBook, q) :
        book' = [book EXCEPT ![Opp(cur.side)] = t]
  BY DEF FillSweep
<1>6. /\ NoIdTwice(t)
      /\ ToSet(t) = ToSet(Tail(OppBook))
                      \cup (IF q = r.qty THEN {} ELSE {[r EXCEPT !.qty = @ - q]})
  <2> HIDE DEF q
  <2> QED BY <1>1, <1>2, <1>4, <1>5, popAndRestIds
<1>7. /\ pc' \in IF q = remaining THEN {"done", "reinsert"} ELSE {pc}
      /\ UNCHANGED <<cur, skipped, placed, cancelled>>
  BY <1>1 DEF FillSweep
<1> QED BY <1>1, <1>3, <1>5, <1>6, <1>7, FillKeepsAccounts

\* The remainder of a limit order rests as what it has not traded.
LEMMA RestLimitKeepsAccounts ==
  ASSUME IInv, Accounts, RestLimit
  PROVE  Accounts' /\ Present' = Present \cup {[cur EXCEPT !.qty = remaining]}
<1> DEFINE o == [cur EXCEPT !.qty = remaining]
<1>1. /\ pc = "match" /\ pc # "idle" /\ pc' = "done" /\ skipped = <<>>
      /\ UNCHANGED <<cur, remaining, skipped, trades, err, placed, filled, cancelled>>
  BY DEF RestLimit, callVars, IInv, SkippedInSweep
<1>2. cur \in Order /\ cur.side \in Sides
  BY <1>1, RunningFacts
<1>3. /\ cur \in placed /\ remaining \in Int /\ remaining > 0
      /\ remaining = cur.qty - filled[cur.id]
      /\ cur.id \notin PresentIds /\ cur.id \notin cancelled /\ cur.type = "limit"
  BY <1>1 DEF Accounts, CallAccounted, IInv, TypeOK
<1>4. o = WithLeft(cur, cur.qty - filled[cur.id]) /\ o \in Order /\ o.id = cur.id
      /\ o.qty = remaining
  <2>1. o = WithLeft(cur, remaining)
    BY DEF WithLeft
  <2> HIDE DEF o
  <2> QED BY <1>2, <1>3, <2>1, WithLeftFields
<1>5. PICK s \in insertSorted(cur.side, book[cur.side], o) :
        book' = [book EXCEPT ![cur.side] = s]
  BY DEF RestLimit
<1> HIDE DEF o
<1>6. /\ Present' = ToSet(s) \cup ToSet(book[Opp(cur.side)]) \cup ToSet(skipped')
      /\ Present = ToSet(book[cur.side]) \cup ToSet(book[Opp(cur.side)]) \cup ToSet(skipped)
      /\ book'[cur.side] = s /\ book'[Opp(cur.side)] = book[Opp(cur.side)]
      /\ \A t \in Sides : t = cur.side \/ t = Opp(cur.side)
  BY <1>2, <1>5, PresentAfter DEF IInv
<1>7. NoIdTwice(s) /\ ToSet(s) = ToSet(book[cur.side]) \cup {o}
  <2>1. book[cur.side] \in Seq(Order) /\ NoIdTwice(book[cur.side])
    BY <1>2 DEF IInv, TypeOK, Accounts, OnePlace
  <2>2. o.id \notin IdsOf(book[cur.side])
    BY <1>3, <1>4, <1>6 DEF IdsOf, PresentIds
  <2> DEFINE b == book[cur.side]
             side == cur.side
  <2>3. b \in Seq(Order) /\ NoIdTwice(b) /\ o.id \notin IdsOf(b)
        /\ s \in insertSorted(side, b, o) /\ o \in Order
    BY <1>4, <1>5, <2>1, <2>2
  <2> HIDE DEF b, side
  <2>4. NoIdTwice(s) /\ ToSet(s) = ToSet(b) \cup {o}
    BY <2>3, InsertIds
  <2> QED BY <2>4 DEF b
<1>8. Present' = Present \cup {o}
  BY <1>1, <1>6, <1>7
<1>9. OneOrderPerId' /\ FreshUntouched' /\ FilledBounded'
  BY <1>1 DEF Accounts, OneOrderPerId, FreshUntouched, Fresh, FilledBounded
<1>10. OnePlace'
  <2>1. IdsOf(<<>>) = {} /\ NoIdTwice(<<>>)
    BY DEF IdsOf, ToSet, NoIdTwice
  <2>2. \A t \in Sides : NoIdTwice(book'[t])
    BY <1>6, <1>7 DEF Accounts, OnePlace
  <2> QED BY <1>1, <2>1, <2>2 DEF OnePlace
<1>11. RestingIsLeft'
  BY <1>1, <1>3, <1>4, <1>8 DEF Accounts, RestingIsLeft
<1>12. CallAccounted'
  BY <1>1 DEF Accounts, CallAccounted
<1> QED BY <1>8, <1>9, <1>10, <1>11, <1>12 DEF Accounts, o

\* A step that moves orders between the slices and the skipped, or drops
\* some, and leaves the running call's figures alone.
LEMMA MoveKeepsAccounts ==
  ASSUME IInv, Accounts, Present' \subseteq Present, OnePlace', CallAccounted',
         UNCHANGED <<placed, filled, cancelled>>
  PROVE  Accounts'
<1>1. OneOrderPerId' /\ FreshUntouched' /\ FilledBounded'
  BY DEF Accounts, OneOrderPerId, FreshUntouched, Fresh, FilledBounded
<1>2. RestingIsLeft'
  BY DEF Accounts, RestingIsLeft
<1> QED BY <1>1, <1>2 DEF Accounts

\* Appending brings in one order.
LEMMA AppendIds ==
  ASSUME NEW s \in Seq(Order), NEW o \in Order
  PROVE  /\ ToSet(Append(s, o)) = ToSet(s) \cup {o}
         /\ (NoIdTwice(s) /\ o.id \notin IdsOf(s)) => NoIdTwice(Append(s, o))
<1> DEFINE t == Append(s, o)
<1>1. /\ t \in Seq(Order) /\ Len(t) = Len(s) + 1 /\ Len(s) \in Nat
      /\ \A i \in 1..Len(s) : t[i] = s[i]
      /\ t[Len(s) + 1] = o
  BY AppendProperties, LenProperties
<1> HIDE DEF t
<1>2. \A i \in 1..Len(t) : i \in 1..Len(s) \/ i = Len(s) + 1
  BY <1>1
<1>3. ASSUME NEW x \in ToSet(t) PROVE x \in ToSet(s) \cup {o}
  <2>1. PICK i \in 1..Len(t) : x = t[i]
    BY <1>1, SeqElements
  <2> QED BY <1>1, <1>2, <2>1, SeqElements
<1>4. ASSUME NEW x \in ToSet(s) PROVE x \in ToSet(t)
  <2>1. PICK i \in 1..Len(s) : x = s[i]
    BY SeqElements
  <2>2. i \in 1..Len(t) /\ t[i] = x
    BY <1>1, <2>1
  <2> QED BY <1>1, <2>2, SeqElements
<1>5. o \in ToSet(t)
  <2>1. Len(s) + 1 \in 1..Len(t)
    BY <1>1
  <2> QED BY <1>1, <2>1, SeqElements
<1>6. ASSUME NoIdTwice(s), o.id \notin IdsOf(s) PROVE NoIdTwice(t)
  <2>1. \A i \in 1..Len(s) : s[i].id # o.id
    BY <1>6, SeqElements DEF IdsOf
  <2>2. ASSUME NEW i \in 1..Len(t), NEW j \in 1..Len(t), t[i].id = t[j].id
        PROVE  i = j
    BY <1>1, <1>2, <1>6, <2>1, <2>2 DEF NoIdTwice
  <2> QED BY <2>2 DEF NoIdTwice
<1>7. ToSet(t) = ToSet(s) \cup {o}
  BY <1>3, <1>4, <1>5
<1> QED BY <1>6, <1>7 DEF t

\* An own order is set aside: it is in one place still.
LEMMA SkipOwnKeepsAccounts ==
  ASSUME IInv, Accounts, SkipOwn
  PROVE  Accounts' /\ Present' = Present
<1> DEFINE side == Opp(cur.side)
           h == Head(OppBook)
           t == Tail(OppBook)
<1>1. /\ pc = "sweep" /\ pc # "idle" /\ OppBook # <<>>
      /\ skipped' = Append(skipped, h) /\ h.user = cur.user
      /\ UNCHANGED <<pc, cur, remaining, trades, placed, filled, cancelled>>
  BY DEF SkipOwn, SweepGoesOn
<1>2. side \in Sides /\ OppBook = book[side] /\ OppBook \in Seq(Order)
  BY <1>1, RunningFacts
<1>3. /\ h \in Order /\ ToSet(book[side]) = ToSet(t) \cup {h}
      /\ NoIdTwice(t) /\ h.id \notin IdsOf(t)
  BY <1>1, <1>2, PopIds DEF Accounts, OnePlace
<1>4. book' = [book EXCEPT ![side] = t]
  BY <1>2 DEF SkipOwn
<1> HIDE DEF t, h, side
<1>5. /\ Present' = ToSet(t) \cup ToSet(book[Opp(side)]) \cup ToSet(skipped')
      /\ Present = ToSet(book[side]) \cup ToSet(book[Opp(side)]) \cup ToSet(skipped)
      /\ book'[side] = t /\ book'[Opp(side)] = book[Opp(side)]
      /\ \A s \in Sides : s = side \/ s = Opp(side)
  BY <1>2, <1>4, PresentAfter DEF IInv
<1>6. h.id \notin IdsOf(skipped)
  BY <1>2, <1>3 DEF Accounts, OnePlace, IdsOf
<1>7. ToSet(skipped') = ToSet(skipped) \cup {h} /\ NoIdTwice(skipped')
  <2>1. skipped \in Seq(Order) /\ NoIdTwice(skipped)
    BY DEF IInv, TypeOK, Accounts, OnePlace
  <2> QED BY <1>1, <1>3, <1>6, <2>1, AppendIds
<1>8. Present' = Present
  BY <1>3, <1>5, <1>7
<1>9. OnePlace'
  <2>1. ASSUME NEW x \in ToSet(book[Opp(side)]) PROVE x.id # h.id
    <3>1. h \in Present /\ x \in Present /\ h.side = side /\ x.side = Opp(side)
      BY <1>2, <1>3, <1>5, OppSide DEF IInv, SidesKept
    <3>2. h # x
      BY <1>2, <3>1, OppSide
    <3> QED BY <3>1, <3>2, PresentDetermined
  <2>2. IdsOf(skipped') \cap IdsOf(t) = {}
    BY <1>2, <1>3, <1>7 DEF Accounts, OnePlace, IdsOf
  <2>3. IdsOf(skipped') \cap IdsOf(book[Opp(side)]) = {}
    BY <1>2, <1>7, <2>1, OppSide DEF Accounts, OnePlace, IdsOf
  <2> QED BY <1>2, <1>3, <1>5, <1>7, <2>2, <2>3 DEF Accounts, OnePlace
<1>10. CallAccounted'
  BY <1>1, <1>7, <1>8 DEF Accounts, CallAccounted, PresentIds
<1> QED BY <1>1, <1>8, <1>9, <1>10, MoveKeepsAccounts

\* A skipped order goes back on its slice.
LEMMA ReinsertKeepsAccounts ==
  ASSUME IInv, Accounts, Reinsert
  PROVE  Accounts' /\ Present' = Present
<1> DEFINE side == Opp(cur.side)
           h == Head(skipped)
           t == Tail(skipped)
<1>1. /\ pc = "reinsert" /\ pc # "idle" /\ skipped # <<>> /\ skipped' = t
      /\ UNCHANGED <<pc, cur, remaining, trades, placed, filled, cancelled>>
  BY DEF Reinsert
<1>2. side \in Sides /\ OppBook = book[side] /\ OppBook \in Seq(Order)
      /\ NoIdTwice(OppBook)
  BY <1>1, RunningFacts DEF Accounts, OnePlace
<1>3. /\ h \in Order /\ t \in Seq(Order) /\ ToSet(skipped) = ToSet(t) \cup {h}
      /\ NoIdTwice(t) /\ h.id \notin IdsOf(t)
  BY <1>1, PopIds DEF IInv, TypeOK, Accounts, OnePlace
<1>4. PICK s \in insertSorted(side, OppBook, h) : book' = [book EXCEPT ![side] = s]
  BY DEF Reinsert
<1>5. h.side = side
  BY <1>1, <1>3 DEF IInv, SidesKept
<1> HIDE DEF t, h, side
<1>6. /\ Present' = ToSet(s) \cup ToSet(book[Opp(side)]) \cup ToSet(skipped')
      /\ Present = ToSet(book[side]) \cup ToSet(book[Opp(side)]) \cup ToSet(skipped)
      /\ book'[side] = s /\ book'[Opp(side)] = book[Opp(side)]
      /\ \A u \in Sides : u = side \/ u = Opp(side)
  BY <1>2, <1>4, PresentAfter DEF IInv
<1>7. h.id \notin IdsOf(OppBook)
  BY <1>2, <1>3 DEF Accounts, OnePlace, IdsOf
<1>8. ToSet(s) = ToSet(OppBook) \cup {h} /\ NoIdTwice(s)
  BY <1>2, <1>3, <1>4, <1>7, InsertIds
<1>9. Present' = Present
  BY <1>1, <1>2, <1>3, <1>6, <1>8
<1>10. OnePlace'
  <2>1. IdsOf(t) \cap IdsOf(s) = {}
    <3>1. \A x \in ToSet(t) : \A y \in ToSet(OppBook) : x.id # y.id
      BY <1>2, <1>3 DEF Accounts, OnePlace, IdsOf
    <3>2. \A x \in ToSet(t) : x.id # h.id
      BY <1>3 DEF IdsOf
    <3> QED BY <1>8, <3>1, <3>2 DEF IdsOf
  <2>2. IdsOf(t) \cap IdsOf(book[Opp(side)]) = {}
    BY <1>2, <1>3, OppSide DEF Accounts, OnePlace, IdsOf
  <2> QED BY <1>1, <1>2, <1>3, <1>6, <1>8, <2>1, <2>2 DEF Accounts, OnePlace
<1>11. CallAccounted'
  BY <1>1, <1>3, <1>9 DEF Accounts, CallAccounted, PresentIds
<1> QED BY <1>1, <1>9, <1>10, <1>11, MoveKeepsAccounts

\* placeIOC's early return drops what it skipped and only that.
LEMMA ReturnEarlyIOCKeepsAccounts ==
  ASSUME IInv, Accounts, ReturnEarlyIOC
  PROVE  Accounts' /\ Present' = Present \ ToSet(skipped)
<1> DEFINE side == Opp(cur.side)
<1>1. /\ pc = "sweep" /\ pc # "idle" /\ pc' = "done" /\ skipped' = <<>>
      /\ UNCHANGED <<cur, remaining, trades, placed, filled, cancelled>>
  BY DEF ReturnEarlyIOC
<1>2. side \in Sides /\ OppBook = book[side] /\ OppBook \in Seq(Order)
      /\ NoIdTwice(OppBook)
  BY <1>1, RunningFacts DEF Accounts, OnePlace
<1>3. PICK s : /\ book' = [book EXCEPT ![side] = s]
               /\ ToSet(s) = ToSet(OppBook) /\ NoIdTwice(s)
  <2>1. CASE UNCHANGED book
    <3>1. book' = [book EXCEPT ![side] = OppBook]
      BY <1>2, <2>1 DEF IInv, TypeOK
    <3> QED BY <1>2, <3>1
  <2>2. CASE ~UNCHANGED book
    <3> DEFINE h == Head(OppBook)
               t == Tail(OppBook)
    <3>1. OppBook # <<>>
      BY <2>2 DEF ReturnEarlyIOC
    <3>2. PICK s \in insertSorted(side, t, h) : book' = [book EXCEPT ![side] = s]
      BY <2>2 DEF ReturnEarlyIOC
    <3>3. /\ h \in Order /\ t \in Seq(Order) /\ ToSet(OppBook) = ToSet(t) \cup {h}
          /\ NoIdTwice(t) /\ h.id \notin IdsOf(t)
      BY <1>2, <3>1, PopIds
    <3> HIDE DEF h, t
    <3>4. ToSet(s) = ToSet(OppBook) /\ NoIdTwice(s)
      BY <3>2, <3>3, InsertIds
    <3> QED BY <3>2, <3>4
  <2> QED BY <2>1, <2>2
<1> HIDE DEF side
<1>4. /\ Present' = ToSet(s) \cup ToSet(book[Opp(side)]) \cup ToSet(skipped')
      /\ Present = ToSet(book[side]) \cup ToSet(book[Opp(side)]) \cup ToSet(skipped)
      /\ book'[side] = s /\ book'[Opp(side)] = book[Opp(side)]
      /\ \A u \in Sides : u = side \/ u = Opp(side)
  BY <1>2, <1>3, PresentAfter DEF IInv
<1>5. ToSet(skipped') = {} /\ NoIdTwice(skipped')
  BY <1>1 DEF ToSet, NoIdTwice
<1>6. Present' = Present \ ToSet(skipped)
  <2>1. \A u \in Sides : ToSet(book[u]) \cap ToSet(skipped) = {}
    BY DEF Accounts, OnePlace, IdsOf
  <2> QED BY <1>2, <1>3, <1>4, <1>5, <2>1, OppSide
<1>7. OnePlace'
  BY <1>3, <1>4, <1>5 DEF Accounts, OnePlace, IdsOf
<1>8. CallAccounted'
  BY <1>1, <1>5 DEF Accounts, CallAccounted
<1> QED BY <1>1, <1>6, <1>7, <1>8, MoveKeepsAccounts

\* These steps leave the book, the skipped orders and the figures alone.
LEMMA OtherStepsKeepAccounts ==
  ASSUME IInv, Accounts, SweepRunsDry \/ FinishSweep \/ Return
  PROVE  Accounts' /\ Present' = Present
<1>1. /\ UNCHANGED <<book, skipped, placed, filled, cancelled>>
      /\ pc # "idle"
      /\ \/ pc' = "idle"
         \/ pc' \in {"reinsert", "done"} /\ UNCHANGED <<cur, remaining>> /\ pc # "done"
  BY DEF SweepRunsDry, FinishSweep, Return, callVars
<1>2. Present' = Present
  BY <1>1 DEF Present
<1>3. OnePlace'
  BY <1>1 DEF Accounts, OnePlace
<1>4. CallAccounted'
  BY <1>1, <1>2 DEF Accounts, CallAccounted, PresentIds
<1> QED BY <1>1, <1>2, <1>3, <1>4, MoveKeepsAccounts

\* Cancelling takes the orders of one id off the book, and there is one.
LEMMA CancelKeepsAccounts ==
  ASSUME IInv, Accounts, NEW id \in Ids, pc = "idle", CancelFound(id)
  PROVE  Accounts' /\ Present' = {r \in Present : r.id # id}
<1>1. /\ cancelled' = cancelled \cup {id} /\ skipped = <<>>
      /\ UNCHANGED <<pc, cur, remaining, skipped, trades, placed, filled>>
  BY DEF CancelFound, callVars, IInv, SkippedInSweep
<1>2. PICK side \in Sides : \E s \in removeByID(book[side], id) :
        book' = [book EXCEPT ![side] = s]
  BY DEF CancelFound
<1>3. PICK s \in removeByID(book[side], id) : book' = [book EXCEPT ![side] = s]
  BY <1>2
<1>4. /\ book[side] \in Seq(Order) /\ NoIdTwice(book[side])
      /\ \E r \in ToSet(book[side]) : r.id = id
  <2>1. book[side] \in Seq(Order) /\ NoIdTwice(book[side])
    BY DEF IInv, TypeOK, Accounts, OnePlace
  <2> QED BY <1>3, <2>1, SeqElements DEF removeByID
<1>5. NoIdTwice(s) /\ ToSet(s) = {r \in ToSet(book[side]) : r.id # id}
  BY <1>3, <1>4, removeByIDIds
<1>6. /\ Present' = ToSet(s) \cup ToSet(book[Opp(side)]) \cup ToSet(skipped')
      /\ Present = ToSet(book[side]) \cup ToSet(book[Opp(side)]) \cup ToSet(skipped)
      /\ book'[side] = s /\ book'[Opp(side)] = book[Opp(side)]
      /\ \A u \in Sides : u = side \/ u = Opp(side)
  BY <1>3, PresentAfter DEF IInv
<1>7. ToSet(skipped') = {} /\ NoIdTwice(skipped') /\ ToSet(skipped) = {}
  BY <1>1 DEF ToSet, NoIdTwice
<1>8. ASSUME NEW x \in ToSet(book[Opp(side)]) PROVE x.id # id
  <2>1. PICK r \in ToSet(book[side]) : r.id = id
    BY <1>4
  <2>2. r \in Present /\ x \in Present /\ r.side # x.side
    BY <1>6, OppSide DEF IInv, SidesKept
  <2> QED BY <2>1, <2>2, PresentDetermined
<1>9. Present' = {r \in Present : r.id # id}
  BY <1>5, <1>6, <1>7, <1>8
<1>10. \E p \in placed : p.id = id
  <2>1. PICK r \in Present : r.id = id
    BY <1>4, <1>6
  <2> QED BY <2>1, PresentDetermined
<1>11. OneOrderPerId' /\ FreshUntouched' /\ FilledBounded'
  BY <1>1, <1>10 DEF Accounts, OneOrderPerId, FreshUntouched, Fresh, FilledBounded
<1>12. OnePlace'
  BY <1>5, <1>6, <1>7 DEF Accounts, OnePlace, IdsOf
<1>13. RestingIsLeft'
  BY <1>1, <1>9 DEF Accounts, RestingIsLeft
<1>14. CallAccounted'
  BY <1>1 DEF CallAccounted
<1> QED BY <1>9, <1>11, <1>12, <1>13, <1>14 DEF Accounts

\* Every step keeps the accounts.
LEMMA NextKeepsAccounts ==
  ASSUME IInv, Accounts, [Next]_vars
  PROVE  Accounts'
<1>1. CASE PlaceOrder
  BY <1>1, StartKeepsAccounts DEF PlaceOrder
<1>2. CASE Step
  BY <1>2, FillLimitKeepsAccounts, FillSweepKeepsAccounts, RestLimitKeepsAccounts,
     SkipOwnKeepsAccounts, ReinsertKeepsAccounts, ReturnEarlyIOCKeepsAccounts,
     OtherStepsKeepAccounts DEF Step
<1>3. ASSUME NEW id \in Ids, CancelOrder(id) PROVE Accounts'
  <2>1. CASE CancelFound(id)
    BY <1>3, <2>1, CancelKeepsAccounts DEF CancelOrder
  <2>2. CASE UNCHANGED vars
    BY <2>2 DEF vars, callVars, Accounts, OneOrderPerId, FreshUntouched, Fresh,
       FilledBounded, RestingIsLeft, OnePlace, CallAccounted, Present, PresentIds
  <2> QED BY <1>3, <2>1, <2>2 DEF CancelOrder, CancelNotFound
<1>4. CASE UNCHANGED vars
  BY <1>4 DEF vars, callVars, Accounts, OneOrderPerId, FreshUntouched, Fresh,
     FilledBounded, RestingIsLeft, OnePlace, CallAccounted, Present, PresentIds
<1> QED BY <1>1, <1>2, <1>3, <1>4 DEF Next

\* Only a fill, a cancellation and placeIOC's early return take an id off.
LEMMA WhoLoses ==
  ASSUME IInv, Accounts, [Next]_vars, NEW id \in PresentIds \ PresentIds'
  PROVE  \/ filled'[id] = Original(id).qty
         \/ id \in cancelled'
         \/ /\ pc = "sweep" /\ cur.type = "ioc" /\ remaining > 0
            /\ cur.user = Original(id).user
<1>1. PICK x \in Present : x.id = id /\ x \notin Present'
  BY DEF PresentIds
<1>2. CASE PlaceOrder
  BY <1>2, StartKeepsAccounts DEF PlaceOrder
<1>3. CASE FillLimit \/ FillSweep
  BY <1>3, FillLimitKeepsAccounts, FillSweepKeepsAccounts
<1>4. CASE ReturnEarlyIOC
  <2>1. x \in ToSet(skipped)
    BY <1>1, <1>4, ReturnEarlyIOCKeepsAccounts
  <2>2. pc = "sweep" /\ cur.type = "ioc" /\ remaining > 0 /\ x.user = cur.user
    BY <1>4, <2>1 DEF ReturnEarlyIOC, Accounts, CallAccounted
  <2>3. PICK p \in placed : p.id = x.id /\ p.user = x.user
    BY <1>1, PresentDetermined
  <2>4. Original(id) = p
    BY <1>1, <2>3, OriginalOf DEF Accounts
  <2> QED BY <2>2, <2>3, <2>4
<1>5. CASE RestLimit \/ SkipOwn \/ Reinsert \/ SweepRunsDry \/ FinishSweep \/ Return
  BY <1>1, <1>5, RestLimitKeepsAccounts, SkipOwnKeepsAccounts,
     ReinsertKeepsAccounts, OtherStepsKeepAccounts
<1>6. ASSUME NEW other \in Ids, CancelOrder(other), ~UNCHANGED vars
      PROVE  id \in cancelled'
  <2>1. CancelFound(other) /\ pc = "idle"
    BY <1>6 DEF CancelOrder, CancelNotFound
  <2>2. id = other
    BY <1>1, <2>1, CancelKeepsAccounts
  <2> QED BY <2>1, <2>2 DEF CancelFound
<1>7. CASE UNCHANGED vars
  BY <1>1, <1>7 DEF vars, callVars, Present
<1> QED BY <1>2, <1>3, <1>4, <1>5, <1>6, <1>7 DEF Next, Step

\* Disjoint sets count separately.
LEMMA DisjointUnion ==
  ASSUME NEW S, NEW T, IsFiniteSet(S), IsFiniteSet(T), S \cap T = {}
  PROVE  /\ IsFiniteSet(S \cup T)
         /\ Cardinality(S \cup T) = Cardinality(S) + Cardinality(T)
<1>1. /\ IsFiniteSet(S \cup T)
      /\ Cardinality(S \cup T) = Cardinality(S) + Cardinality(T) - Cardinality(S \cap T)
  BY FS_Union, Zenon
<1>2. Cardinality(S \cap T) = 0
  BY FS_EmptySet
<1>3. Cardinality(S) \in Nat /\ Cardinality(T) \in Nat
  BY FS_CardinalityType
<1> QED BY <1>1, <1>2, <1>3

\* The slices and the skipped hold as many orders as there are ids on them.
LEMMA OneCountPerId ==
  ASSUME IInv, Accounts
  PROVE  Cardinality(PresentIds)
           = Len(book["buy"]) + Len(book["sell"]) + Len(skipped)
<1> DEFINE b == book["buy"]
           s == book["sell"]
           A == IdsOf(b)
           B == IdsOf(s)
           C == IdsOf(skipped)
<1>1. /\ b \in Seq(Order) /\ s \in Seq(Order) /\ skipped \in Seq(Order)
      /\ NoIdTwice(b) /\ NoIdTwice(s) /\ NoIdTwice(skipped)
      /\ A \cap C = {} /\ B \cap C = {}
  BY DEF IInv, TypeOK, Accounts, OnePlace, Sides
<1>2. A \cap B = {}
  <2>1. ASSUME NEW x \in ToSet(b), NEW y \in ToSet(s) PROVE x.id # y.id
    <3>1. x \in Present /\ y \in Present /\ x.side # y.side
      BY DEF Present, IInv, SidesKept, Sides
    <3> QED BY <3>1, PresentDetermined
  <2> QED BY <2>1 DEF IdsOf
<1>3. PresentIds = (A \cup B) \cup C
  BY DEF PresentIds, Present, IdsOf
<1>4. /\ IsFiniteSet(A) /\ Cardinality(A) = Len(b)
      /\ IsFiniteSet(B) /\ Cardinality(B) = Len(s)
      /\ IsFiniteSet(C) /\ Cardinality(C) = Len(skipped)
      /\ Len(b) \in Nat /\ Len(s) \in Nat /\ Len(skipped) \in Nat
  BY <1>1, CountIds, LenProperties
<1> HIDE DEF A, B, C, b, s
<1>5. IsFiniteSet(A \cup B) /\ Cardinality(A \cup B) = Len(b) + Len(s)
  <2>1. /\ IsFiniteSet(A \cup B)
        /\ Cardinality(A \cup B) = Cardinality(A) + Cardinality(B)
    BY <1>2, <1>4, DisjointUnion, Zenon
  <2> QED BY <1>4, <2>1
<1>6. Cardinality((A \cup B) \cup C) = Len(b) + Len(s) + Len(skipped)
  <2> DEFINE D == A \cup B
  <2>1. IsFiniteSet(D) /\ D \cap C = {} /\ Cardinality(D) = Len(b) + Len(s)
    BY <1>1, <1>5
  <2> HIDE DEF D
  <2>2. Cardinality(D \cup C) = Cardinality(D) + Cardinality(C)
    BY <1>4, <2>1, DisjointUnion, Zenon
  <2> QED BY <1>4, <2>1, <2>2 DEF D
<1> QED BY <1>3, <1>6 DEF b, s

\* The accounts are what RestingConserved says and what it needs.
LEMMA AccountsConserve ==
  ASSUME IInv, Accounts
  PROVE  RestingConserved
<1>1. \A r \in Present : \E p \in placed :
        r = [p EXCEPT !.qty = p.qty - filled[p.id]] /\ r.qty > 0 /\ p.type = "limit"
  BY DEF Accounts, RestingIsLeft, WithLeft
<1>2. PresentIds \cap cancelled = {}
  BY DEF Accounts, RestingIsLeft, PresentIds
<1> QED BY <1>1, <1>2, OneCountPerId DEF RestingConserved, Accounts, FilledBounded

----------------------------------------------------------------------------
(* Who trades with whom.                                                   *)

\* The makers of the running call are placed orders, of other users when the
\* call sweeps and in its first trade; and a call that is about to make its
\* first trade does not make it with an own order.
MakersKnown ==
  pc # "idle" =>
    /\ \A i \in 1..Len(trades) : \E p \in placed :
         /\ Maker(trades[i]) = p.id
         /\ (i = 1 \/ cur.type # "limit") => p.user # cur.user
    /\ (pc = "match" /\ trades = <<>> /\ HeadCrosses)
         => Head(OppBook).user # cur.user

\* A trade with a placed order joins the list.
LEMMA ExecuteKeepsMakers ==
  ASSUME TypeOK, MakersKnown, pc # "idle", UNCHANGED <<cur, placed>>,
         NEW r, NEW q, Execute(r, q), TradeOf(cur, r, q) \in Trade,
         NEW p \in placed, p.id = r.id,
         (trades = <<>> \/ cur.type # "limit") => p.user # cur.user
  PROVE  MakersKnown'
<1> DEFINE new == TradeOf(cur, r, q)
<1>1. /\ trades \in Seq(Trade) /\ trades' = Append(trades, new) /\ new \in Trade
  BY DEF TypeOK, Execute
<1>2. Maker(new) = r.id
  BY DEF Maker, TradeOf
<1> HIDE DEF new
<1>3. /\ Len(trades') = Len(trades) + 1 /\ Len(trades) \in Nat
      /\ \A i \in 1..Len(trades) : trades'[i] = trades[i]
      /\ trades'[Len(trades) + 1] = new
      /\ trades = <<>> <=> Len(trades) = 0
  BY <1>1, AppendProperties, LenProperties, EmptySeq
<1>4. \A t : Maker(t) = IF cur.side = "buy" THEN t.sell ELSE t.buy
  BY DEF Maker
<1>5. ASSUME NEW i \in 1..Len(trades')
      PROVE  \E p1 \in placed :
               /\ (IF cur.side = "buy" THEN trades'[i].sell ELSE trades'[i].buy) = p1.id
               /\ (i = 1 \/ cur.type # "limit") => p1.user # cur.user
  <2>1. CASE i \in 1..Len(trades)
    BY <1>3, <1>4, <2>1 DEF MakersKnown
  <2>2. CASE i = Len(trades) + 1
    <3>1. i = 1 => trades = <<>>
      BY <1>3, <2>2
    <3> QED BY <1>2, <1>3, <1>4, <2>2, <3>1
  <2> QED BY <1>3, <2>1, <2>2
<1>6. trades' # <<>>
  BY <1>1, <1>3
<1> QED BY <1>5, <1>6 DEF MakersKnown, Maker

\* Both kinds of fill trade with a placed order.
LEMMA FillKeepsMakers ==
  ASSUME IInv, Accounts, MakersKnown, FillLimit \/ FillSweep
  PROVE  MakersKnown'
<1> DEFINE r == Head(OppBook)
           q == FillQty(r)
<1>1. /\ pc # "idle" /\ OppBook # <<>> /\ UNCHANGED <<cur, placed>> /\ Execute(r, q)
      /\ (trades = <<>> \/ cur.type # "limit") => r.user # cur.user
  <2>1. CASE FillLimit
    <3>1. pc = "match" /\ HeadCrosses
      BY <2>1 DEF FillLimit
    <3>2. cur.type = "limit"
      BY <3>1 DEF Accounts, CallAccounted
    <3>3. trades = <<>> => r.user # cur.user
      BY <3>1 DEF MakersKnown
    <3> QED BY <2>1, <3>2, <3>3 DEF FillLimit, HeadCrosses
  <2>2. CASE FillSweep
    BY <2>2 DEF FillSweep, SweepGoesOn
  <2> QED BY <2>1, <2>2
<1>2. r \in Order /\ r \in Present
  <2>1. OppBook \in Seq(Order) /\ ToSet(OppBook) \subseteq Present
    BY <1>1, RunningFacts
  <2> QED BY <1>1, <2>1, PopIds
<1>3. PICK p \in placed : p.id = r.id /\ p.user = r.user
  BY <1>2, PresentDetermined
<1>4. TradeOf(cur, r, q) \in Trade
  <2>1. q \in Int
    BY <1>1, <1>2, ExecuteFacts
  <2> HIDE DEF r, q
  <2>2. cur \in Order
    BY <1>1 DEF IInv, TypeOK
  <2> QED BY <1>2, <2>1, <2>2 DEF TradeOf, Trade, Order
<1> HIDE DEF r, q
<1> QED BY <1>1, <1>3, <1>4, ExecuteKeepsMakers DEF IInv

\* Every step keeps what is known of the makers.
LEMMA NextKeepsMakers ==
  ASSUME IInv, Accounts, MakersKnown, [Next]_vars
  PROVE  MakersKnown'
<1>1. CASE FillLimit \/ FillSweep
  BY <1>1, FillKeepsMakers
<1>2. CASE \/ RestLimit \/ SkipOwn \/ Reinsert \/ SweepRunsDry \/ ReturnEarlyIOC
           \/ FinishSweep
  <2>1. UNCHANGED <<cur, trades, placed>> /\ pc # "idle" /\ pc' # "match"
    BY <1>2 DEF RestLimit, SkipOwn, SweepGoesOn, Reinsert, SweepRunsDry,
       ReturnEarlyIOC, FinishSweep, callVars
  <2> QED BY <2>1 DEF MakersKnown, Maker
<1>3. CASE Return
  BY <1>3 DEF Return, MakersKnown
<1>4. ASSUME NEW o \in Acceptable, ParkLimit(o) \/ StartLimit(o) \/ StartSweep(o)
      PROVE  MakersKnown'
  <2>1. trades' = <<>> /\ cur' = o /\ Len(<<>>) = 0
    BY <1>4 DEF ParkLimit, StartLimit, StartSweep, Begin
  <2>2. pc' = "match" => UNCHANGED book /\ ~OwnHeadCrosses(o)
    BY <1>4 DEF ParkLimit, StartLimit, StartSweep, Begin
  <2>3. (pc' = "match" /\ HeadCrosses') => Head(OppBook').user # cur'.user
    BY <2>1, <2>2 DEF HeadCrosses, OppBook, OwnHeadCrosses
  <2> QED BY <2>1, <2>3 DEF MakersKnown
<1>5. ASSUME NEW id \in Ids, CancelOrder(id) PROVE MakersKnown'
  <2>1. pc = "idle" /\ UNCHANGED pc
    BY <1>5 DEF CancelOrder, CancelFound, CancelNotFound, vars
  <2> QED BY <2>1 DEF MakersKnown
<1>6. CASE UNCHANGED vars
  BY <1>6 DEF vars, callVars, MakersKnown, Maker, HeadCrosses, OppBook
<1> QED BY <1>1, <1>2, <1>3, <1>4, <1>5, <1>6 DEF Next, Step, PlaceOrder

----------------------------------------------------------------------------
(* The theorems that rest on the accounts.                                 *)

\* The invariants of this module hold together.
THEOREM AccountsHold == Spec => [](IInv /\ Accounts /\ MakersKnown)
<1>1. Init => IInv /\ Accounts /\ MakersKnown
  BY InitInv, InitAccounts DEF Init, MakersKnown
<1>2. IInv /\ Accounts /\ MakersKnown /\ [Next]_vars
        => (IInv /\ Accounts /\ MakersKnown)'
  BY NextKeepsInv, NextKeepsAccounts, NextKeepsMakers
<1> QED BY <1>1, <1>2, PTL DEF Spec

\* Through every fill, sweep, re-insertion and cancellation, what rests is what
\* was submitted less what was traded, on the book once, and no order trades
\* more than its quantity.
THEOREM NothingIsLostOrDoubled == Spec => []RestingConserved
<1>1. IInv /\ Accounts => RestingConserved
  BY AccountsConserve
<1> QED BY <1>1, AccountsHold, PTL

\* The look at the first head that placeLimit takes, and the skipping of the
\* sweeps, leave self-trades only to limit orders behind somebody else's.
THEOREM SelfTradesComeSecond == Spec => []SelfTradeOnlyBehindOther
<1>1. IInv /\ Accounts /\ MakersKnown => SelfTradeOnlyBehindOther
  <2> SUFFICES ASSUME IInv, Accounts, MakersKnown, NEW i \in 1..Len(trades),
                      pc # "idle", Original(Maker(trades[i])).user = cur.user
               PROVE  /\ cur.type = "limit"
                      /\ Original(Maker(trades[1])).user # cur.user
    BY DEF SelfTradeOnlyBehindOther
  <2>1. PICK p \in placed : /\ Maker(trades[i]) = p.id
                            /\ (i = 1 \/ cur.type # "limit") => p.user # cur.user
    BY DEF MakersKnown
  <2>2. p.user = cur.user
    BY <2>1, OriginalOf DEF Accounts
  <2>3. 1 \in 1..Len(trades)
    BY SeqElements DEF IInv, TypeOK
  <2>4. PICK p1 \in placed : Maker(trades[1]) = p1.id /\ p1.user # cur.user
    BY <2>3 DEF MakersKnown
  <2>5. Original(Maker(trades[1])) = p1
    BY <2>4, OriginalOf DEF Accounts
  <2> QED BY <2>1, <2>2, <2>4, <2>5
<1> QED BY <1>1, AccountsHold, PTL

\* An order leaves the book filled, cancelled, or dropped by placeIOC's early
\* return for an order of its own user.
THEOREM OnlyOwnIOCLoses == Spec => LostOnlyToOwnIOC
<1>1. IInv /\ Accounts /\ [Next]_vars =>
        [\A id \in PresentIds \ PresentIds' :
           \/ filled'[id] = Original(id).qty
           \/ id \in cancelled'
           \/ /\ pc = "sweep" /\ cur.type = "ioc" /\ remaining > 0
              /\ cur.user = Original(id).user]_vars
  BY WhoLoses
<1> QED BY <1>1, AccountsHold, PTL DEF Spec, LostOnlyToOwnIOC

----------------------------------------------------------------------------
(* Quantities of sets of orders.                                           *)

\* The quantities of S, as a function.
Qtys(S) == [x \in S |-> x.qty]

\* Quantity, like any sum that chooses its order, is the sum of a function.
LEMMA QuantityIsSum ==
  ASSUME NEW S, IsFiniteSet(S)
  PROVE  Quantity(S) = Sum(Qtys(S), S)
<1> DEFINE f == Qtys(S)
           Adds(g) == g = [s \in SUBSET S |->
                             IF s = {} THEN 0 ELSE First(s).qty + g[s \ {First(s)}]]
           q == CHOOSE g : Adds(g)
           P == {s \in SUBSET S : q[s] = Part(f, S)[s]}
<1>1. Quantity(S) = q[S]
  BY DEF Quantity, MapThenSumSet, MapThenFoldSet, First
<1>2. PartAdds(f, S)
  BY PartUnfolds
<1>3. PICK g : IsSum(g, f, S)
  BY SumExists
<1>4. \A s \in SUBSET S : s # {} => f[First(s)] = First(s).qty
  <2>1. \A s \in SUBSET S : s # {} => First(s) \in S
    BY Picked
  <2> QED BY <2>1 DEF Qtys
<1>5. Adds(g)
  <2>1. g = [s \in SUBSET S |-> IF s = {} THEN 0 ELSE f[First(s)] + g[s \ {First(s)}]]
    BY <1>3, Zenon DEF IsSum
  <2> HIDE DEF f
  <2> QED BY <1>4, <2>1
<1>6. Adds(q)
  <2> HIDE DEF Adds
  <2> QED BY <1>5
<1>7. \A s \in SUBSET S :
        q[s] = IF s = {} THEN 0 ELSE First(s).qty + q[s \ {First(s)}]
  <2> HIDE DEF q
  <2> QED BY <1>6, Zenon
<1> HIDE DEF q, f
<1>8. {} \in P
  <2>1. q[{}] = 0 /\ Part(f, S)[{}] = 0
    BY <1>2, <1>7, Zenon DEF PartAdds
  <2> QED BY <2>1
<1>9. ASSUME NEW s \in SUBSET S, s # {}, s \ {First(s)} \in P PROVE s \in P
  <2>1. /\ q[s] = First(s).qty + q[s \ {First(s)}]
        /\ Part(f, S)[s] = f[First(s)] + Part(f, S)[s \ {First(s)}]
    BY <1>2, <1>7, <1>9, Zenon DEF PartAdds
  <2>2. f[First(s)] = First(s).qty
    BY <1>4, <1>9
  <2> QED BY <1>9, <2>1, <2>2
<1> HIDE DEF P
<1>10. SUBSET S \subseteq P
  BY <1>8, <1>9, SubsetInduction
<1>11. q[S] = Part(f, S)[S]
  BY <1>10 DEF P
<1>12. Sum(f, S) = Part(f, S)[S]
  BY SumIsPart
<1> QED BY <1>1, <1>11, <1>12, Zenon DEF f

\* No orders, no quantity.
LEMMA QuantityOfNone == Quantity({}) = 0
<1>1. IsFiniteSet({})
  BY FS_EmptySet
<1>2. Sum(Qtys({}), {}) = 0
  BY SumOfNone
<1> QED BY <1>1, <1>2, QuantityIsSum, Zenon

\* A finite set of things with a quantity.
Countable(S) == IsFiniteSet(S) /\ \A x \in S : x.qty \in Nat

\* Quantities add up to a quantity.
LEMMA QuantityIsNat ==
  ASSUME NEW S, Countable(S)
  PROVE  Quantity(S) \in Nat
<1>1. \A x \in S : Qtys(S)[x] \in Nat
  BY DEF Countable, Qtys
<1>2. Sum(Qtys(S), S) \in Nat
  BY <1>1, SumIsNat DEF Countable
<1> QED BY <1>2, QuantityIsSum, Zenon DEF Countable

\* One more adds what it has.
LEMMA QuantityGrows ==
  ASSUME NEW S, Countable(S), NEW x, x \notin S, x.qty \in Nat
  PROVE  Quantity(S \cup {x}) = Quantity(S) + x.qty
<1> DEFINE f == Qtys(S)
           T == S \cup {x}
           g == Qtys(T)
<1>1. g[x] = x.qty /\ \A y \in S : f[y] = y.qty /\ g[y] = y.qty
  BY DEF Qtys
<1>2. IsFiniteSet(S) /\ IsFiniteSet(T)
  BY FS_AddElement DEF Countable
<1>3. OneMore(f, g, S, x)
  <2> HIDE DEF f, g
  <2> QED BY <1>1, <1>2 DEF OneMore, Countable
<1>4. Sum(g, T) = Sum(f, S) + g[x]
  BY <1>3, SumGrows DEF SumIsMore
<1>5. Quantity(T) = Sum(g, T) /\ Quantity(S) = Sum(f, S)
  BY <1>2, QuantityIsSum
<1> QED BY <1>1, <1>4, <1>5, Zenon

\* More cannot come to less.
LEMMA QuantityOfPart ==
  ASSUME NEW S, Countable(S), NEW T, T \subseteq S
  PROVE  Countable(T) /\ Quantity(T) <= Quantity(S)
<1> DEFINE R == S \ T
           P == {s \in SUBSET R : Quantity(T) <= Quantity(T \cup s)}
<1>1. IsFiniteSet(T) /\ IsFiniteSet(R)
  BY FS_Subset DEF Countable
<1>2. \A s \in SUBSET S : Countable(s) /\ Quantity(s) \in Nat
  BY FS_Subset, QuantityIsNat DEF Countable
<1>3. {} \in P
  BY <1>2
<1>4. ASSUME NEW s \in SUBSET R, s # {}, s \ {First(s)} \in P PROVE s \in P
  <2> DEFINE x == First(s)
             u == T \cup (s \ {x})
  <2>1. x \in s
    BY <1>4, Picked
  <2>2. u \in SUBSET S /\ x \notin u /\ x \in S /\ x.qty \in Nat /\ T \cup s = u \cup {x}
    BY <2>1 DEF Countable
  <2>3. Quantity(u \cup {x}) = Quantity(u) + x.qty
    BY <1>2, <2>2, QuantityGrows
  <2>4. Quantity(T) <= Quantity(u)
    BY <1>4
  <2>5. Quantity(T) \in Nat /\ Quantity(u) \in Nat
    BY <1>2, <2>2
  <2>6. Quantity(T) <= Quantity(T \cup s)
    <3> DEFINE a == Quantity(T)
               b == Quantity(u)
               c == Quantity(T \cup s)
               d == x.qty
    <3>1. /\ a \in Nat /\ b \in Nat /\ d \in Nat
          /\ c = b + d /\ a <= b
      BY <2>2, <2>3, <2>4, <2>5, Zenon
    <3> HIDE DEF a, b, c, d
    <3>2. a <= c
      BY <3>1
    <3> QED BY <3>2 DEF a, c
  <2> QED BY <2>6
<1> HIDE DEF P
<1>5. SUBSET R \subseteq P
  BY <1>1, <1>3, <1>4, SubsetInduction
<1>6. Quantity(T) <= Quantity(T \cup R)
  BY <1>5 DEF P
<1>7. T \cup R = S
  OBVIOUS
<1> QED BY <1>2, <1>6, <1>7

----------------------------------------------------------------------------
(* AtomicBook states what an order gets from the book it meets, order by   *)
(* order, and says nothing of how.  Here are its operators for a book R,   *)
(* and what they come to when the orders D were taken one after the other, *)
(* best first: each got its share, and what is left of o is what is left   *)
(* when all they had is counted off.                                       *)

\* What AtomicBook says of an order o that meets the book R.
CrossingIn(R, o) ==
  {r \in R : r.side = Opp(o.side) /\ (o.type = "market" \/ Crosses(o, r))}
TradableIn(R, o) == {r \in CrossingIn(R, o) : o.type = "limit" \/ r.user # o.user}
AheadIn(R, o, r) == {s \in TradableIn(R, o) : Less(Opp(o.side), s, r)}
ShareIn(R, o, r) == Max({0, Min({r.qty, o.qty - Quantity(AheadIn(R, o, r))})})
UnfilledIn(R, o) == Max({0, o.qty - Quantity(TradableIn(R, o))})
ParksIn(R, o) ==
  o.type = "limit" /\ \E r \in CrossingIn(R, o) : r.user = o.user /\ AheadIn(R, o, r) = {}
TradeWith(R, o, r) == TradeOf(o, r, ShareIn(R, o, r))

\* The order that o trades with in t.
MakerOf(o, t) == IF o.side = "buy" THEN t.sell ELSE t.buy

\* A book that a call for o may find.
Found(R, o) ==
  /\ o \in Order /\ o.qty > 0
  /\ IsFiniteSet(R) /\ R \subseteq Order
  /\ \A r \in R : r.qty > 0 /\ r.id # o.id
  /\ \A r, s \in R : r.id = s.id => r = s

\* D is the beginning of the orders that o trades with.
BestOf(R, o, D) ==
  /\ D \subseteq TradableIn(R, o)
  /\ \A d \in D, x \in TradableIn(R, o) \ D : Less(Opp(o.side), d, x)

\* D leaves rem of o, if it leaves anything.
Counted(o, D, rem) ==
  /\ rem \in Nat
  /\ rem > 0 => rem = o.qty - Quantity(D)
  /\ rem = 0 => Quantity(D) >= o.qty

\* The book when o has traded with D.
LeftBy(R, o, D) ==
  (R \ D) \cup {WithLeft(d, d.qty - ShareIn(R, o, d)) :
                  d \in {e \in D : ShareIn(R, o, e) < e.qty}}

\* The trades with D, in order.
TradesWith(R, o, D, ts) ==
  /\ \A d \in D : ShareIn(R, o, d) > 0
  /\ ToSet(ts) = {TradeWith(R, o, d) : d \in D}
  /\ \A i, j \in 1..Len(ts) : \A r, s \in D :
       (i < j /\ ts[i] = TradeWith(R, o, r) /\ ts[j] = TradeWith(R, o, s))
         => Less(Opp(o.side), r, s)

\* Ids decide last, so ranks are total.
LEMMA RankTotal ==
  ASSUME NEW side, NEW a \in Order, NEW b \in Order
  PROVE  /\ ~Less(side, a, a)
         /\ a.id # b.id => Less(side, a, b) \/ Less(side, b, a)
BY OrderFields DEF Less, bidLess, askLess, Earlier

\* What Max and Min choose, where AtomicBook uses them.
LEMMA MinMax ==
  ASSUME NEW a \in Int, NEW b \in Int
  PROVE  /\ Max({0, a}) = IF a > 0 THEN a ELSE 0
         /\ Min({a, b}) = IF a < b THEN a ELSE b
<1>1. Max({0, a}) = IF a > 0 THEN a ELSE 0
  <2> DEFINE m == IF a > 0 THEN a ELSE 0
  <2>1. \A x : (x \in {0, a} /\ \A y \in {0, a} : x >= y) <=> x = m
    OBVIOUS
  <2> HIDE DEF m
  <2> QED BY <2>1 DEF Max, m
<1>2. Min({a, b}) = IF a < b THEN a ELSE b
  <2> DEFINE m == IF a < b THEN a ELSE b
  <2>1. \A x : (x \in {a, b} /\ \A y \in {a, b} : x =< y) <=> x = m
    OBVIOUS
  <2> HIDE DEF m
  <2> QED BY <2>1 DEF Min, m
<1> QED BY <1>1, <1>2

\* Orders that o may trade with, and their quantities, are as expected.
LEMMA FoundFacts ==
  ASSUME NEW R, NEW o, Found(R, o)
  PROVE  /\ TradableIn(R, o) \subseteq R
         /\ \A S \in SUBSET R : Countable(S) /\ Quantity(S) \in Nat
         /\ \A r \in R : r \in Order /\ r.qty \in Nat \ {0}
         /\ o.qty \in Nat \ {0}
<1>1. TradableIn(R, o) \subseteq R
  BY DEF TradableIn, CrossingIn
<1>2. (\A r \in R : r \in Order /\ r.qty \in Nat \ {0}) /\ o.qty \in Nat \ {0}
  BY OrderFields DEF Found
<1>3. \A S \in SUBSET R : Countable(S)
  BY <1>2, FS_Subset DEF Found, Countable
<1>4. \A S \in SUBSET R : Quantity(S) \in Nat
  BY <1>3, QuantityIsNat
<1> QED BY <1>1, <1>2, <1>3, <1>4

\* The share of r: what those ahead leave of o, within 0 and what r has.
LEMMA ShareValue ==
  ASSUME NEW R, NEW o, Found(R, o), NEW r \in R,
         NEW n, n = o.qty - Quantity(AheadIn(R, o, r))
  PROVE  /\ n \in Int
         /\ ShareIn(R, o, r) = IF n < 0 THEN 0 ELSE IF r.qty < n THEN r.qty ELSE n
         /\ ShareIn(R, o, r) \in 0..r.qty
<1>1. AheadIn(R, o, r) \in SUBSET R
  BY FoundFacts DEF AheadIn
<1>2. Quantity(AheadIn(R, o, r)) \in Nat /\ r.qty \in Nat \ {0} /\ o.qty \in Nat \ {0}
  BY <1>1, FoundFacts
<1>3. n \in Int
  BY <1>2
<1> DEFINE m == Min({r.qty, n})
<1>4. m = IF r.qty < n THEN r.qty ELSE n
  <2>1. r.qty \in Int
    BY <1>2
  <2> QED BY <1>3, <2>1, MinMax, Zenon
<1>5. m \in Int
  BY <1>2, <1>3, <1>4
<1>6. ShareIn(R, o, r) = Max({0, m})
  BY DEF ShareIn
<1> HIDE DEF m
<1>7. ShareIn(R, o, r) = IF m > 0 THEN m ELSE 0
  BY <1>5, <1>6, MinMax
<1> QED BY <1>2, <1>3, <1>4, <1>5, <1>7

\* As long as o has something left, those it traded with got all they have.
LEMMA FullShares ==
  ASSUME NEW R, NEW o, Found(R, o), NEW D, BestOf(R, o, D), Quantity(D) <= o.qty,
         NEW d \in D
  PROVE  ShareIn(R, o, d) = d.qty
<1> DEFINE A == AheadIn(R, o, d)
<1>1. D \in SUBSET R /\ d \in R /\ d \in TradableIn(R, o)
  BY FoundFacts DEF BestOf
<1>2. d \notin A
  BY <1>1, FoundFacts, RankTotal DEF AheadIn
<1>3. A \subseteq D
  <2> SUFFICES ASSUME NEW s \in A, s \notin D PROVE FALSE
    OBVIOUS
  <2>1. s \in TradableIn(R, o) /\ Less(Opp(o.side), s, d)
    BY DEF AheadIn
  <2>2. Less(Opp(o.side), d, s)
    BY <2>1 DEF BestOf
  <2> QED BY <1>1, <2>1, <2>2, FoundFacts, LessAsymmetric
<1> HIDE DEF A
<1>4. A \in SUBSET R /\ A \cup {d} \in SUBSET D
  BY <1>1, <1>3
<1>5. Quantity(A \cup {d}) = Quantity(A) + d.qty
  BY <1>1, <1>2, <1>4, FoundFacts, QuantityGrows
<1>6. Quantity(A \cup {d}) <= Quantity(D)
  BY <1>1, <1>4, FoundFacts, QuantityOfPart
<1>7. /\ Quantity(A) \in Nat /\ Quantity(D) \in Nat /\ d.qty \in Nat \ {0}
      /\ o.qty \in Nat /\ Quantity(A \cup {d}) \in Nat
  BY <1>1, <1>4, FoundFacts
<1> DEFINE n == o.qty - Quantity(A)
<1>8. n \in Int /\ d.qty <= n
  <2> DEFINE a == Quantity(A)
             b == Quantity(D)
             c == Quantity(A \cup {d})
  <2>1. a \in Nat /\ b \in Nat /\ c \in Nat /\ c = a + d.qty /\ c <= b /\ b <= o.qty
    BY <1>5, <1>6, <1>7
  <2> HIDE DEF a, b, c
  <2>2. o.qty - a \in Int /\ d.qty <= o.qty - a
    BY <1>7, <2>1
  <2> QED BY <2>2 DEF a
<1>9. ShareIn(R, o, d) = IF n < 0 THEN 0 ELSE IF d.qty < n THEN d.qty ELSE n
  BY <1>1, ShareValue DEF A
<1> HIDE DEF n
<1> QED BY <1>7, <1>8, <1>9

\* Once o is filled there is nothing for those behind.
LEMMA NoSharesBehind ==
  ASSUME NEW R, NEW o, Found(R, o), NEW D, BestOf(R, o, D), Quantity(D) >= o.qty,
         NEW x \in TradableIn(R, o) \ D
  PROVE  ShareIn(R, o, x) = 0
<1> DEFINE A == AheadIn(R, o, x)
           n == o.qty - Quantity(A)
<1>1. D \subseteq A /\ A \in SUBSET R /\ D \in SUBSET R /\ x \in R
  BY FoundFacts DEF BestOf, AheadIn
<1>2. Quantity(D) <= Quantity(A)
  BY <1>1, FoundFacts, QuantityOfPart
<1>3. Quantity(D) \in Nat /\ Quantity(A) \in Nat /\ o.qty \in Nat /\ x.qty \in Nat \ {0}
  BY <1>1, FoundFacts
<1>4. ShareIn(R, o, x) = IF n < 0 THEN 0 ELSE IF x.qty < n THEN x.qty ELSE n
  BY <1>1, ShareValue
<1>5. n <= 0 /\ n \in Int
  <2> HIDE DEF A
  <2> QED BY <1>2, <1>3
<1> HIDE DEF n
<1> QED BY <1>3, <1>4, <1>5

\* r comes after D, and q is filled of what o has left.
NextFill(R, o, D, r, rem, q) ==
  /\ Found(R, o) /\ BestOf(R, o, D)
  /\ r \in TradableIn(R, o) \ D /\ BestOf(R, o, D \cup {r})
  /\ Counted(o, D, rem) /\ rem > 0
  /\ q = IF r.qty < rem THEN r.qty ELSE rem

\* The fill is what AtomicBook gives r, and what is left is counted again.
FillIsShare(R, o, D, r, rem, q) ==
  /\ ShareIn(R, o, r) = q
  /\ q > 0 /\ q \in Nat /\ q <= rem /\ q <= r.qty
  /\ Counted(o, D \cup {r}, rem - q)

\* The next one gets what is left, up to what it has.
LEMMA NextShare ==
  ASSUME NEW R, NEW o, NEW D, NEW r, NEW rem, NEW q, NextFill(R, o, D, r, rem, q)
  PROVE  FillIsShare(R, o, D, r, rem, q)
<1> USE DEF NextFill
<1> DEFINE A == AheadIn(R, o, r)
<1>1. D \in SUBSET R /\ r \in R
  BY FoundFacts DEF BestOf
<1>2. A = D
  <2>1. D \subseteq A
    BY DEF BestOf, AheadIn
  <2>2. ASSUME NEW s \in A, s \notin D PROVE FALSE
    <3>1. s \in TradableIn(R, o) /\ Less(Opp(o.side), s, r) /\ s \in R
      BY FoundFacts DEF AheadIn
    <3>2. s # r
      BY <1>1, <3>1, FoundFacts, RankTotal
    <3>3. Less(Opp(o.side), r, s)
      BY <2>2, <3>1, <3>2 DEF BestOf
    <3> QED BY <1>1, <3>1, <3>3, FoundFacts, LessAsymmetric
  <2> QED BY <2>1, <2>2
<1>3. /\ Quantity(D) \in Nat /\ r.qty \in Nat \ {0} /\ o.qty \in Nat
      /\ rem \in Nat /\ rem = o.qty - Quantity(D)
  BY <1>1, FoundFacts DEF Counted
<1>4. Quantity(D \cup {r}) = Quantity(D) + r.qty
  BY <1>1, FoundFacts, QuantityGrows
<1>5. ShareIn(R, o, r) = IF rem < 0 THEN 0 ELSE IF r.qty < rem THEN r.qty ELSE rem
  BY <1>1, <1>2, <1>3, ShareValue
<1>6. ShareIn(R, o, r) = q /\ q > 0 /\ q \in Nat /\ q <= rem /\ q <= r.qty
  BY <1>3, <1>5
<1>7. Counted(o, D \cup {r}, rem - q)
  <2> DEFINE a == Quantity(D)
             b == Quantity(D \cup {r})
  <2>1. a \in Nat /\ b = a + r.qty /\ rem = o.qty - a
    BY <1>3, <1>4
  <2> HIDE DEF a, b
  <2>2. /\ rem - q \in Nat
        /\ rem - q > 0 => rem - q = o.qty - b
        /\ rem - q = 0 => b >= o.qty
    BY <1>3, <2>1
  <2> QED BY <2>2 DEF Counted, b
<1> QED BY <1>6, <1>7 DEF FillIsShare

\* What is left by D and the next one.
LeftGoesOn(R, o, D, r, q) ==
  /\ LeftBy(R, o, D) = R \ D
  /\ LeftBy(R, o, D \cup {r})
       = (R \ (D \cup {r})) \cup (IF q = r.qty THEN {} ELSE {WithLeft(r, r.qty - q)})

\* Those taken so far are gone; the next one goes, or is left smaller.
LEMMA LeftGrows ==
  ASSUME NEW R, NEW o, NEW D, NEW r, NEW rem, NEW q, NextFill(R, o, D, r, rem, q)
  PROVE  LeftGoesOn(R, o, D, r, q)
<1> USE DEF NextFill
<1>1. /\ D \in SUBSET R /\ r \in R /\ r.qty \in Nat /\ Quantity(D) \in Nat
      /\ rem = o.qty - Quantity(D) /\ o.qty \in Nat
  BY FoundFacts DEF BestOf, Counted
<1>2. Quantity(D) <= o.qty
  BY <1>1
<1>3. \A d \in D : ShareIn(R, o, d) = d.qty /\ d.qty \in Nat
  BY <1>1, <1>2, FullShares, FoundFacts
<1>4. ShareIn(R, o, r) = q /\ q <= r.qty /\ q \in Nat
  <2>1. ShareIn(R, o, r) = q /\ q > 0 /\ q \in Nat /\ q <= rem /\ q <= r.qty
    <3> HIDE DEF NextFill
    <3>1. FillIsShare(R, o, D, r, rem, q)
      BY NextShare, Zenon
    <3> QED BY <3>1 DEF FillIsShare
  <2> QED BY <2>1
<1>5. {e \in D : ShareIn(R, o, e) < e.qty} = {}
  BY <1>3
<1>6. {e \in D \cup {r} : ShareIn(R, o, e) < e.qty} = IF q = r.qty THEN {} ELSE {r}
  BY <1>1, <1>3, <1>4
<1>7. LeftBy(R, o, D) = R \ D
  BY <1>5 DEF LeftBy
<1>8. LeftBy(R, o, D \cup {r})
        = (R \ (D \cup {r})) \cup (IF q = r.qty THEN {} ELSE {WithLeft(r, r.qty - q)})
  BY <1>4, <1>6 DEF LeftBy
<1> QED BY <1>7, <1>8 DEF LeftGoesOn

\* A trade more.
LEMMA TradesGrow ==
  ASSUME NEW R, NEW o, Found(R, o), NEW D, BestOf(R, o, D),
         NEW r \in TradableIn(R, o) \ D, BestOf(R, o, D \cup {r}),
         ShareIn(R, o, r) > 0,
         NEW ts \in Seq(Trade), TradesWith(R, o, D, ts), TradeWith(R, o, r) \in Trade
  PROVE  TradesWith(R, o, D \cup {r}, Append(ts, TradeWith(R, o, r)))
<1> DEFINE us == Append(ts, TradeWith(R, o, r))
           W(d) == TradeWith(R, o, d)
           n == Len(ts)
           Behind(i, j, d, e) == (i < j /\ us[i] = W(d) /\ us[j] = W(e)) => Less(Opp(o.side), d, e)
<1>1. /\ n \in Nat /\ Len(us) = n + 1 /\ us[n + 1] = W(r)
      /\ \A i \in 1..n : us[i] = ts[i] /\ ts[i] \in ToSet(ts)
  BY AppendProperties DEF ToSet
<1>2. ToSet(us) = ToSet(ts) \cup {W(r)}
  <2>1. ToSet(us) = {us[i] : i \in 1..(n + 1)} /\ ToSet(ts) = {ts[i] : i \in 1..n}
    <3>1. \A s \in Seq(Trade) : DOMAIN s = 1..Len(s)
      OBVIOUS
    <3>2. us \in Seq(Trade)
      BY AppendProperties
    <3> QED BY <1>1, <3>1, <3>2 DEF ToSet
  <2> HIDE DEF us, n, W
  <2> QED BY <1>1, <2>1
<1>3. \A d, e \in D \cup {r} : W(d) = W(e) => d = e
  <2>1. \A d \in D \cup {r} : d \in R /\ MakerOf(o, W(d)) = d.id
    BY FoundFacts DEF BestOf, MakerOf, TradeWith, TradeOf
  <2> HIDE DEF W
  <2> QED BY <2>1 DEF Found
<1>4. \A i \in 1..n : \E d \in D : ts[i] = W(d)
  BY <1>1 DEF TradesWith
<1>5. \A i, j \in 1..(n + 1) : \A d, e \in D \cup {r} : Behind(i, j, d, e)
  <2> SUFFICES ASSUME NEW i \in 1..(n + 1), NEW j \in 1..(n + 1),
                      NEW d \in D \cup {r}, NEW e \in D \cup {r},
                      i < j, us[i] = W(d), us[j] = W(e)
               PROVE  Less(Opp(o.side), d, e)
    OBVIOUS
  <2>1. i \in 1..n
    BY <1>1
  <2>2. ts[i] = W(d) /\ d \in D
    BY <1>1, <1>3, <1>4, <2>1
  <2>3. CASE j = n + 1
    <3>1. e = r
      BY <1>1, <1>3, <2>3
    <3> QED BY <2>2, <3>1 DEF BestOf
  <2>4. CASE j # n + 1
    <3>1. j \in 1..n
      BY <1>1, <2>4
    <3>2. ts[j] = W(e) /\ e \in D
      BY <1>1, <1>3, <1>4, <3>1
    <3>3. i \in 1..Len(ts) /\ j \in 1..Len(ts) /\ i < j
      BY <2>1, <3>1
    <3> QED BY <2>2, <3>2, <3>3, Zenon DEF TradesWith
  <2> QED BY <2>3, <2>4
<1>6. {W(d) : d \in D \cup {r}} = ToSet(us)
  BY <1>2 DEF TradesWith
<1> QED BY <1>1, <1>5, <1>6 DEF TradesWith

\* What AtomicBook says of a call that is over: with whom o trades, what it
\* leaves.
LEMMA EndOfCall ==
  ASSUME NEW R, NEW o, Found(R, o), NEW D, BestOf(R, o, D), NEW rem, Counted(o, D, rem),
         rem = 0 \/ D = TradableIn(R, o), \A d \in D : ShareIn(R, o, d) > 0
  PROVE  /\ UnfilledIn(R, o) = rem
         /\ {r \in TradableIn(R, o) : ShareIn(R, o, r) > 0} = D
         /\ LeftBy(R, o, D)
              = {[r EXCEPT !.qty = @ - ShareIn(R, o, r)] :
                   r \in {s \in TradableIn(R, o) : ShareIn(R, o, s) < s.qty}}
                \cup (R \ TradableIn(R, o))
<1> DEFINE T == TradableIn(R, o)
           S(r) == ShareIn(R, o, r)
<1>1. /\ T \in SUBSET R /\ D \in SUBSET T /\ o.qty \in Nat
      /\ \A r \in R : r \in Order /\ r.qty \in Nat \ {0}
      /\ Quantity(T) \in Nat /\ Quantity(D) \in Nat /\ Quantity(D) <= Quantity(T)
  BY FoundFacts, QuantityOfPart DEF BestOf
<1>2. \A x \in T \ D : S(x) = 0
  <2>1. CASE rem = 0
    BY <2>1, NoSharesBehind DEF Counted
  <2> QED BY <2>1
<1>3. UnfilledIn(R, o) = rem
  <2> DEFINE n == o.qty - Quantity(T)
  <2>1. n \in Int /\ rem = IF n > 0 THEN n ELSE 0
    <3>1. CASE rem = 0
      BY <1>1, <3>1 DEF Counted
    <3>2. CASE rem # 0
      BY <1>1, <3>2 DEF Counted
    <3> QED BY <3>1, <3>2
  <2>2. UnfilledIn(R, o) = Max({0, n})
    BY DEF UnfilledIn
  <2> HIDE DEF n
  <2> QED BY <2>1, <2>2, MinMax
<1>4. {r \in T : S(r) > 0} = D
  BY <1>1, <1>2
<1>5. \A r \in R : [r EXCEPT !.qty = @ - S(r)] = WithLeft(r, r.qty - S(r))
  BY <1>1 DEF WithLeft, Order
<1>6. \A x \in T \ D : S(x) < x.qty /\ WithLeft(x, x.qty - S(x)) = x
  <2> SUFFICES ASSUME NEW x \in T \ D PROVE S(x) < x.qty /\ WithLeft(x, x.qty - S(x)) = x
    OBVIOUS
  <2>1. S(x) = 0 /\ x.qty \in Nat \ {0} /\ x \in Order
    BY <1>1, <1>2
  <2>2. x.qty - S(x) = x.qty
    BY <2>1
  <2> QED BY <2>1, <2>2, WithLeftFields
<1>7. {[r EXCEPT !.qty = @ - S(r)] : r \in {s \in T : S(s) < s.qty}}
        = {WithLeft(r, r.qty - S(r)) : r \in {s \in T : S(s) < s.qty}}
  BY <1>1, <1>5
<1> HIDE DEF S, T
<1>8. (R \ D) \cup {WithLeft(d, d.qty - S(d)) : d \in {e \in D : S(e) < e.qty}}
        = {WithLeft(r, r.qty - S(r)) : r \in {s \in T : S(s) < s.qty}} \cup (R \ T)
  BY <1>1, <1>6
<1> QED BY <1>3, <1>4, <1>7, <1>8 DEF LeftBy, S, T

----------------------------------------------------------------------------
(* The running call follows AtomicBook: for some book R and some of its    *)
(* orders D, the call met R, its trades so far are the shares of D, and    *)
(* what is present is what they leave.  This is the third inductive        *)
(* invariant; KeepsPromise needs it because the one step that callers see  *)
(* is the call's last, and speaks of all that went before.                 *)

\* A call is at work: the caller has no answer yet.
Running == pc \in {"match", "sweep", "reinsert"}

\* What is left of the orders of R is what was placed less what was traded,
\* but for the trades of the running call, which are those with D.
Dated(R, D) ==
  \A r \in R : \E p \in placed :
    r = WithLeft(p, p.qty - filled[p.id]
                      + (IF r \in D THEN ShareIn(R, cur, r) ELSE 0))

\* The running call found R and has traded with D.
Follows(R, D) ==
  /\ Found(R, cur) /\ ~ParksIn(R, cur)
  /\ BestOf(R, cur, D) /\ Counted(cur, D, remaining)
  /\ TradesWith(R, cur, D, trades)
  /\ Present = LeftBy(R, cur, D)
  /\ Dated(R, D)
  /\ ToSet(skipped) \subseteq CrossingIn(R, cur)
  /\ pc = "reinsert" => remaining = 0 \/ D = TradableIn(R, cur)

\* The running call's order was submitted and accepted; only a market order
\* leaves its sweep with something left, and only that is an error, at the end.
CallKnown ==
  pc # "idle" =>
    /\ cur \in Submission /\ Valid(cur)
    /\ pc \in {"sweep", "reinsert"} => cur.type \in {"market", "ioc"}
    /\ (pc = "reinsert" /\ remaining > 0) => cur.type = "market"
    /\ pc # "done" => err = "none"

\* The third inductive invariant.
FollowInv == CallKnown /\ (Running => \E R, D : Follows(R, D))

\* While the loop goes on, the orders it has not traded with are all there,
\* those it may trade with on the other side.
LEMMA StillThere ==
  ASSUME IInv, Accounts, CallKnown, NEW R, NEW D, Follows(R, D), pc \in {"match", "sweep"}
  PROVE  /\ Present = R \ D
         /\ TradableIn(R, cur) \ D \subseteq ToSet(OppBook)
<1>1. /\ Found(R, cur) /\ BestOf(R, cur, D) /\ Counted(cur, D, remaining)
      /\ Present = LeftBy(R, cur, D)
  BY DEF Follows
<1>2. remaining > 0 /\ pc # "idle"
  BY DEF Accounts, CallAccounted
<1>3. Present = R \ D
  <2>1. D \in SUBSET R
    BY <1>1, FoundFacts DEF BestOf
  <2>2. Quantity(D) \in Nat /\ cur.qty \in Nat /\ remaining = cur.qty - Quantity(D)
    BY <1>1, <1>2, <2>1, FoundFacts DEF Counted
  <2>3. Quantity(D) <= cur.qty
    BY <1>2, <2>2
  <2>4. \A d \in D : ShareIn(R, cur, d) = d.qty /\ d.qty \in Nat
    BY <1>1, <2>1, <2>3, FullShares, FoundFacts
  <2>5. {e \in D : ShareIn(R, cur, e) < e.qty} = {}
    BY <2>4
  <2> QED BY <1>1, <2>5 DEF LeftBy
<1>4. ASSUME NEW x \in TradableIn(R, cur) \ D PROVE x \in ToSet(OppBook)
  <2>1. x \in Present /\ x.side = Opp(cur.side) /\ (cur.type = "limit" \/ x.user # cur.user)
    BY <1>3 DEF TradableIn, CrossingIn
  <2>2. x \notin ToSet(skipped)
    <3>1. CASE pc = "match"
      BY <3>1 DEF IInv, SkippedInSweep, ToSet
    <3>2. CASE pc = "sweep"
      BY <1>2, <2>1, <3>2 DEF CallKnown, Accounts, CallAccounted
    <3> QED BY <3>1, <3>2
  <2>3. x \notin ToSet(book[cur.side])
    BY <1>2, <2>1, RunningFacts DEF IInv, SidesKept
  <2>4. cur.side \in Sides /\ OppBook = book[Opp(cur.side)]
    BY <1>2, RunningFacts
  <2> QED BY <2>1, <2>2, <2>3, <2>4 DEF Present, Sides, Opp
<1> QED BY <1>3, <1>4

\* The head that is filled comes after those filled before.
LEMMA HeadIsNext ==
  ASSUME IInv, Accounts, CallKnown, NEW R, NEW D, Follows(R, D), pc \in {"match", "sweep"},
         OppBook # <<>>, NEW r, r = Head(OppBook), cur.type = "market" \/ Crosses(cur, r),
         pc = "sweep" => r.user # cur.user
  PROVE  r \in TradableIn(R, cur) \ D /\ BestOf(R, cur, D \cup {r})
<1>1. pc # "idle" /\ (pc = "match" => cur.type = "limit")
  BY DEF Accounts, CallAccounted
<1>2. /\ OppBook \in Seq(Order) /\ Sorted(Opp(cur.side), OppBook)
      /\ \A x \in ToSet(OppBook) : x.side = Opp(cur.side)
      /\ ToSet(OppBook) \subseteq Present
  BY <1>1, RunningFacts
<1>3. r \in Order /\ r = OppBook[1] /\ r \in ToSet(OppBook)
  BY <1>2, PopKeepsOrder
<1>4. Present = R \ D /\ TradableIn(R, cur) \ D \subseteq ToSet(OppBook)
  BY StillThere
<1>5. r \in TradableIn(R, cur) \ D
  BY <1>1, <1>2, <1>3, <1>4 DEF TradableIn, CrossingIn
<1>6. BestOf(R, cur, D)
  BY DEF Follows
<1>7. ASSUME NEW x \in TradableIn(R, cur) \ (D \cup {r}) PROVE Less(Opp(cur.side), r, x)
  <2>1. PICK i \in 1..Len(OppBook) : x = OppBook[i]
    BY <1>2, <1>4, SeqElements
  <2>2. i # 1 /\ Len(OppBook) \in Nat
    BY <1>2, <1>3, <2>1, SeqElements
  <2>3. ~Less(Opp(cur.side), x, r)
    BY <1>2, <1>3, <2>1, <2>2 DEF Sorted
  <2>4. x \in R /\ r \in R /\ x # r /\ Found(R, cur)
    BY <1>4, <1>5, <1>2, <1>3 DEF Follows
  <2>5. x \in Order /\ x.id # r.id
    BY <2>4 DEF Found
  <2> QED BY <1>3, <2>3, <2>5, RankTotal
<1> QED BY <1>5, <1>6, <1>7 DEF BestOf

\* A fill of q with the head r.
LEMMA FillFollows ==
  ASSUME IInv, Accounts, CallKnown, NEW R, NEW D, Follows(R, D), pc \in {"match", "sweep"},
         OppBook # <<>>, NEW r, r = Head(OppBook), cur.type = "market" \/ Crosses(cur, r),
         pc = "sweep" => r.user # cur.user,
         NEW q, q = FillQty(r), Execute(r, q),
         NEW t, book' = [book EXCEPT ![Opp(cur.side)] = t],
         ToSet(t) = ToSet(Tail(OppBook))
                      \cup (IF q = r.qty THEN {} ELSE {[r EXCEPT !.qty = @ - q]}),
         pc' = "reinsert" => q = remaining,
         UNCHANGED <<cur, skipped, placed>>
  PROVE  Follows(R, D \cup {r})'
<1> DEFINE E == D \cup {r}
           side == Opp(cur.side)
<1>1. pc # "idle" /\ remaining > 0 /\ cur \in placed /\ cur.id \notin PresentIds
  BY DEF Accounts, CallAccounted
<1>2. r \in TradableIn(R, cur) \ D /\ BestOf(R, cur, E)
  BY HeadIsNext
<1>3. NextFill(R, cur, D, r, remaining, q)
  BY <1>1, <1>2 DEF NextFill, Follows, FillQty
<1>4. FillIsShare(R, cur, D, r, remaining, q)
  BY <1>3, NextShare
<1>5. /\ trades' = Append(trades, TradeOf(cur, r, q))
      /\ remaining' = remaining - q
      /\ filled' = [filled EXCEPT ![cur.id] = @ + q, ![r.id] = @ + q]
  BY DEF Execute
<1>6. Found(R, cur') /\ ~ParksIn(R, cur') /\ BestOf(R, cur', E) /\ Counted(cur', E, remaining')
  BY <1>2, <1>4, <1>5 DEF Follows, FillIsShare
<1>7. TradesWith(R, cur', E, trades')
  <2>1. TradeOf(cur, r, q) = TradeWith(R, cur, r)
    BY <1>4 DEF FillIsShare, TradeWith
  <2>2. trades \in Seq(Trade) /\ trades' \in Seq(Trade)
    <3>1. OppBook \in Seq(Order)
      BY <1>1, RunningFacts
    <3>2. r \in Order
      BY <3>1, PopIds
    <3> QED BY <1>1, <3>2, ExecuteFacts DEF IInv, TypeOK
  <2>3. TradeOf(cur, r, q) \in Trade
    <3>1. OppBook \in Seq(Order)
      BY <1>1, RunningFacts
    <3>2. r \in Order /\ cur \in Order /\ q \in Int
      BY <1>1, <1>4, <3>1, PopIds, RunningFacts DEF FillIsShare
    <3> QED BY <3>2 DEF TradeOf, Trade, Order
  <2>4. Found(R, cur) /\ BestOf(R, cur, D) /\ TradesWith(R, cur, D, trades)
    BY DEF Follows
  <2>5. ShareIn(R, cur, r) > 0
    BY <1>4 DEF FillIsShare
  <2> HIDE DEF E
  <2>6. TradesWith(R, cur, E, Append(trades, TradeWith(R, cur, r)))
    BY <1>2, <2>1, <2>2, <2>3, <2>4, <2>5, TradesGrow DEF E
  <2> QED BY <1>5, <2>1, <2>6
<1>8. Present' = LeftBy(R, cur', E)
  <2>1. /\ LeftBy(R, cur, D) = R \ D
        /\ LeftBy(R, cur, E)
             = (R \ E) \cup (IF q = r.qty THEN {} ELSE {WithLeft(r, r.qty - q)})
    <3>1. LeftGoesOn(R, cur, D, r, q)
      BY <1>3, LeftGrows
    <3> QED BY <3>1 DEF LeftGoesOn
  <2>2. /\ side \in Sides /\ OppBook = book[side] /\ OppBook \in Seq(Order)
        /\ NoIdTwice(OppBook)
    BY <1>1, RunningFacts DEF Accounts, OnePlace
  <2>3. /\ r \in Order /\ ToSet(OppBook) = ToSet(Tail(OppBook)) \cup {r}
        /\ r \notin ToSet(Tail(OppBook))
    BY <2>2, PopIds DEF IdsOf
  <2>4. [r EXCEPT !.qty = @ - q] = WithLeft(r, r.qty - q)
    BY <2>3 DEF WithLeft, Order
  <2>5. /\ Present' = ToSet(t) \cup ToSet(book[Opp(side)]) \cup ToSet(skipped)
        /\ Present = ToSet(book[side]) \cup ToSet(book[Opp(side)]) \cup ToSet(skipped)
    BY <2>2, PresentAfter DEF IInv
  <2>6. r \notin ToSet(book[Opp(side)]) \cup ToSet(skipped)
    <3>1. r \notin ToSet(skipped)
      <4>1. r.id \in IdsOf(book[side])
        BY <2>2, <2>3 DEF IdsOf
      <4> QED BY <2>2, <4>1 DEF Accounts, OnePlace, IdsOf
    <3>2. r \notin ToSet(book[Opp(side)])
      BY <2>2, <2>3, OppSide DEF IInv, SidesKept
    <3> QED BY <3>1, <3>2
  <2>7. Present = R \ D
    BY <2>1 DEF Follows
  <2> HIDE DEF E, side
  <2>8. Present' = (Present \ {r}) \cup (IF q = r.qty THEN {} ELSE {WithLeft(r, r.qty - q)})
    BY <2>2, <2>3, <2>4, <2>5, <2>6
  <2> QED BY <2>1, <2>7, <2>8 DEF E
<1>9. Dated(R, E)'
  <2>1. /\ R \subseteq Order /\ r \in R /\ cur.id \in Ids /\ r.id \in Ids
        /\ \A x \in R : x.id # cur.id /\ (x.id = r.id => x = r)
    BY <1>2, FoundFacts DEF Follows, Found, Order
  <2>2. \A x \in R : filled'[x.id] = IF x = r THEN filled[x.id] + q ELSE filled[x.id]
    BY <1>5, <2>1 DEF IInv, TypeOK, Order
  <2>3. ShareIn(R, cur, r) = q /\ q \in Int /\ r \notin D
    BY <1>2, <1>4 DEF FillIsShare
  <2> SUFFICES ASSUME NEW x \in R
               PROVE  \E p \in placed :
                        x = WithLeft(p, p.qty - filled'[p.id]
                                          + (IF x \in E THEN ShareIn(R, cur, x) ELSE 0))
    BY DEF Dated
  <2>4. PICK p \in placed :
          x = WithLeft(p, p.qty - filled[p.id] + (IF x \in D THEN ShareIn(R, cur, x) ELSE 0))
    BY DEF Follows, Dated
  <2>5. p.id = x.id /\ p \in Order /\ filled[p.id] \in Int /\ p.qty \in Int
    BY <2>4, OrderFields DEF WithLeft, IInv, TypeOK, Order
  <2>6. CASE x = r
    <3>1. p.qty - filled'[p.id] + q = p.qty - filled[p.id] + 0
      BY <2>1, <2>2, <2>3, <2>5, <2>6
    <3> QED BY <2>3, <2>4, <2>6, <3>1
  <2>7. CASE x # r
    <3>1. filled'[p.id] = filled[p.id] /\ (x \in E <=> x \in D)
      BY <2>2, <2>5, <2>7
    <3> QED BY <2>4, <3>1
  <2> QED BY <2>6, <2>7
<1>10. /\ ToSet(skipped') \subseteq CrossingIn(R, cur')
       /\ pc' = "reinsert" => remaining' = 0
  BY <1>1, <1>5 DEF Follows, IInv, TypeOK
<1> QED BY <1>6, <1>7, <1>8, <1>9, <1>10 DEF Follows

\* A step that trades nothing and keeps what is present.
LEMMA SameFollows ==
  ASSUME NEW R, NEW D, Follows(R, D), Present' = Present,
         UNCHANGED <<cur, remaining, trades, placed, filled>>,
         ToSet(skipped') \subseteq CrossingIn(R, cur),
         pc' = "reinsert" => remaining = 0 \/ D = TradableIn(R, cur)
  PROVE  Follows(R, D)'
<1>1. Dated(R, D)'
  BY DEF Follows, Dated
<1> QED BY <1>1 DEF Follows

\* An own order that a sweep sets aside is one that it crosses.
LEMMA SkipOwnFollows ==
  ASSUME IInv, Accounts, CallKnown, NEW R, NEW D, Follows(R, D), SkipOwn
  PROVE  Follows(R, D)'
<1> DEFINE h == Head(OppBook)
<1>1. /\ pc = "sweep" /\ pc # "idle" /\ OppBook # <<>> /\ skipped' = Append(skipped, h)
      /\ UNCHANGED <<pc, cur, remaining, trades, placed, filled>>
      /\ cur.type = "ioc" => Crosses(cur, h)
  BY DEF SkipOwn, SweepGoesOn
<1>2. Present' = Present
  BY SkipOwnKeepsAccounts
<1>3. /\ OppBook \in Seq(Order) /\ skipped \in Seq(Order)
      /\ \A x \in ToSet(OppBook) : x.side = Opp(cur.side)
      /\ ToSet(OppBook) \subseteq Present
  BY <1>1, RunningFacts DEF IInv, TypeOK
<1>4. h \in Order /\ h \in ToSet(OppBook)
  BY <1>1, <1>3, PopIds
<1>5. cur.type \in {"market", "ioc"} /\ Present = R \ D
  BY <1>1, StillThere DEF CallKnown
<1>6. h \in CrossingIn(R, cur)
  BY <1>1, <1>3, <1>4, <1>5 DEF CrossingIn
<1>7. ToSet(skipped') = ToSet(skipped) \cup {h}
  BY <1>1, <1>3, <1>4, AppendIds
<1>8. ToSet(skipped') \subseteq CrossingIn(R, cur)
  BY <1>6, <1>7 DEF Follows
<1> QED BY <1>1, <1>2, <1>8, SameFollows

\* Putting a skipped order back trades nothing.
LEMMA ReinsertFollows ==
  ASSUME IInv, Accounts, NEW R, NEW D, Follows(R, D), Reinsert
  PROVE  Follows(R, D)'
<1>1. /\ skipped # <<>> /\ skipped' = Tail(skipped) /\ pc = "reinsert"
      /\ UNCHANGED <<pc, cur, remaining, trades, placed, filled>>
  BY DEF Reinsert
<1>2. Present' = Present
  BY ReinsertKeepsAccounts
<1>3. ToSet(skipped') \subseteq ToSet(skipped)
  BY <1>1, PopIds DEF IInv, TypeOK
<1>4. ToSet(skipped') \subseteq CrossingIn(R, cur)
  BY <1>3 DEF Follows
<1>5. remaining = 0 \/ D = TradableIn(R, cur)
  BY <1>1 DEF Follows
<1> QED BY <1>1, <1>2, <1>4, <1>5, SameFollows

\* When a loop ends for want of orders, it has traded with all that cross.
LEMMA AllTraded ==
  ASSUME IInv, Accounts, CallKnown, NEW R, NEW D, Follows(R, D), pc \in {"match", "sweep"},
         OppBook # <<>> => cur.type # "market" /\ ~Crosses(cur, Head(OppBook))
  PROVE  /\ D = TradableIn(R, cur)
         /\ pc = "sweep" => \A x \in CrossingIn(R, cur) :
                              x.user = cur.user => x \in ToSet(skipped)
<1>1. pc # "idle" /\ (pc = "match" => cur.type = "limit")
  BY DEF Accounts, CallAccounted
<1>2. /\ OppBook \in Seq(Order) /\ Sorted(Opp(cur.side), OppBook)
      /\ cur \in Order /\ cur.side \in Sides /\ OppBook = book[Opp(cur.side)]
  BY <1>1, RunningFacts
<1>3. ASSUME NEW x \in CrossingIn(R, cur), x \in ToSet(OppBook) PROVE FALSE
  <2>1. PICK i \in 1..Len(OppBook) : x = OppBook[i]
    BY <1>2, <1>3, SeqElements
  <2>2. OppBook # <<>>
    BY <2>1
  <2>3. Head(OppBook) = OppBook[1] /\ Head(OppBook) \in Order /\ x \in Order
    BY <1>2, <2>1, <2>2, PopKeepsOrder, SeqElements
  <2>4. ~Crosses(cur, Head(OppBook)) /\ Crosses(cur, x)
    BY <1>3, <2>2 DEF CrossingIn
  <2>5. i = 1 \/ ~Less(Opp(cur.side), x, Head(OppBook))
    <3>1. Len(OppBook) \in Nat
      BY <1>2, SeqElements
    <3> QED BY <1>2, <2>1, <2>3, <3>1 DEF Sorted
  <2> QED BY <1>2, <2>1, <2>3, <2>4, <2>5, OrderFields DEF Crosses, Less, bidLess, askLess, Opp, Sides
<1>4. BestOf(R, cur, D) /\ Present = R \ D
  BY StillThere DEF Follows
<1>5. D = TradableIn(R, cur)
  <2>1. TradableIn(R, cur) \ D \subseteq ToSet(OppBook)
    BY StillThere
  <2>2. TradableIn(R, cur) \subseteq CrossingIn(R, cur)
    BY DEF TradableIn
  <2> QED BY <1>3, <1>4, <2>1, <2>2 DEF BestOf
<1>6. ASSUME pc = "sweep", NEW x \in CrossingIn(R, cur), x.user = cur.user
      PROVE  x \in ToSet(skipped)
  <2>1. x \in R /\ x.side = Opp(cur.side)
    BY DEF CrossingIn
  <2>2. x \notin D
    BY <1>1, <1>4, <1>6 DEF BestOf, TradableIn, CallKnown
  <2>3. x \in Present
    BY <1>4, <2>1, <2>2
  <2>4. x \notin ToSet(book[cur.side])
    BY <1>2, <2>1, OppSide DEF IInv, SidesKept
  <2> QED BY <1>2, <1>3, <2>3, <2>4 DEF Present, Sides, Opp
<1> QED BY <1>5, <1>6

\* placeMarket leaves its loop when it has traded with all it may.
LEMMA RunsDryFollows ==
  ASSUME IInv, Accounts, CallKnown, NEW R, NEW D, Follows(R, D), SweepRunsDry
  PROVE  Follows(R, D)'
<1>1. /\ OppBook = <<>> /\ pc = "sweep" /\ skipped' = skipped
      /\ UNCHANGED <<cur, remaining, trades, placed, filled>>
  BY DEF SweepRunsDry, callVars
<1>2. Present' = Present
  BY OtherStepsKeepAccounts
<1>3. D = TradableIn(R, cur)
  BY <1>1, AllTraded
<1>4. ToSet(skipped') \subseteq CrossingIn(R, cur)
  BY <1>1 DEF Follows
<1> QED BY <1>1, <1>2, <1>3, <1>4, SameFollows

\* A slice has finitely many orders.
LEMMA FiniteSlice ==
  ASSUME NEW s \in Seq(Order)
  PROVE  IsFiniteSet(ToSet(s))
<1> DEFINE n == Len(s)
           f == [i \in 1..n |-> s[i]]
<1>1. n \in Nat
  BY SeqElements
<1>2. IsFiniteSet(1..n)
  BY <1>1, FS_Interval
<1>3. f \in Surjection(1..n, ToSet(s))
  <2>1. f \in [1..n -> ToSet(s)]
    BY SeqElements
  <2>2. \A x \in ToSet(s) : \E i \in 1..n : f[i] = x
    BY SeqElements
  <2> HIDE DEF f, n
  <2> QED BY <2>1, <2>2 DEF Surjection
<1> HIDE DEF f, n
<1> QED BY <1>2, <1>3, FS_Surjection

\* A call that does not park finds what is present.
LEMMA StartFollows ==
  ASSUME IInv, Accounts, NEW o \in Acceptable, pc = "idle", StartLimit(o) \/ StartSweep(o),
         NEW R, R = Present
  PROVE  Follows(R, {})'
<1>1. /\ o \in Order /\ o.qty \in Nat /\ o.qty > 0 /\ o.id \in Ids /\ Fresh(o.id)
      /\ o.side \in Sides
  <2>1. o \in Submission /\ Valid(o) /\ Fresh(o.id)
    BY DEF Acceptable
  <2>2. o \in Order /\ o.id \in Ids /\ o.side \in Sides /\ o.qty \in Int /\ o.qty > 0
    BY <2>1, ConstantsAssumption DEF Submission, Order, Valid
  <2> QED BY <2>1, <2>2
<1>2. /\ cur' = o /\ remaining' = o.qty /\ skipped' = <<>> /\ trades' = <<>>
      /\ placed' = placed \cup {o} /\ UNCHANGED <<filled, book>>
      /\ pc' \in {"match", "sweep"}
      /\ o.type = "limit" => ~OwnHeadCrosses(o)
  BY DEF StartLimit, StartSweep, Begin
<1>3. skipped = <<>>
  BY DEF IInv, SkippedInSweep
<1>4. Present' = R
  BY <1>2, <1>3 DEF Present
<1>5. /\ R \subseteq Order
      /\ \A x, y \in R : x.id = y.id => x = y
      /\ \A x \in R : \E p \in placed :
           p.id = x.id /\ x = WithLeft(p, p.qty - filled[p.id])
      /\ \A p \in placed : p \in Order /\ filled[p.id] \in Int
  BY PresentDetermined
<1>6. Found(R, o)
  <2>1. IsFiniteSet(R)
    <3>1. /\ book["buy"] \in Seq(Order) /\ book["sell"] \in Seq(Order) /\ skipped \in Seq(Order)
      BY DEF IInv, TypeOK, Sides
    <3> QED BY <3>1, FiniteSlice, FS_Union DEF Present
  <2>2. \A x \in R : x.qty > 0 /\ x.id # o.id
    BY <1>1, <1>5 DEF Accounts, RestingIsLeft, Fresh
  <2> QED BY <1>1, <1>5, <2>1, <2>2 DEF Found
<1>7. ~ParksIn(R, o)
  <2> SUFFICES ASSUME o.type = "limit", NEW r \in CrossingIn(R, o),
                      r.user = o.user, AheadIn(R, o, r) = {}
               PROVE  FALSE
    BY DEF ParksIn
  <2> DEFINE s == book[Opp(o.side)]
  <2>1. r \in R /\ r.side = Opp(o.side) /\ r \in Order /\ Crosses(o, r)
    BY <1>5 DEF CrossingIn
  <2>2. /\ s \in Seq(Order) /\ Sorted(Opp(o.side), s)
        /\ \A x \in ToSet(s) : x.side = Opp(o.side)
        /\ ToSet(s) \subseteq R
    BY <1>1, OppSide DEF IInv, TypeOK, BookSorted, SidesKept, Present, Sides, Opp
  <2>3. r \in ToSet(s)
    <3>1. r \notin ToSet(book[o.side])
      BY <1>1, <2>1, OppSide DEF IInv, SidesKept
    <3>2. r \notin ToSet(skipped)
      BY <1>3 DEF ToSet
    <3> QED BY <1>1, <2>1, <3>1, <3>2 DEF Present, Sides, Opp
  <2> HIDE DEF s
  <2>4. PICK i \in 1..Len(s) : r = s[i]
    BY <2>2, <2>3, SeqElements
  <2>5. s # <<>> /\ Len(s) \in Nat
    BY <2>2, <2>4, SeqElements
  <2> DEFINE h == Head(s)
  <2>6. h \in Order /\ h = s[1] /\ h \in ToSet(s)
    BY <2>2, <2>5, PopKeepsOrder
  <2>7. h = r \/ ~Less(Opp(o.side), r, h)
    BY <2>2, <2>4, <2>5, <2>6 DEF Sorted
  <2> HIDE DEF h
  <2>8. Crosses(o, h)
    BY <1>1, <2>1, <2>6, <2>7, OrderFields DEF Crosses, Less, bidLess, askLess, Opp, Sides
  <2>9. h \in TradableIn(R, o)
    BY <2>2, <2>6, <2>8 DEF TradableIn, CrossingIn
  <2>10. h = r
    <3>1. ~Less(Opp(o.side), h, r)
      BY <2>9 DEF AheadIn
    <3>2. h.id = r.id
      BY <2>1, <2>6, <2>7, <3>1, RankTotal
    <3> QED BY <1>5, <2>1, <2>2, <2>6, <3>2
  <2> QED BY <1>2, <2>5, <2>8, <2>10 DEF OwnHeadCrosses, s, h
<1>8. BestOf(R, o, {}) /\ Counted(o, {}, o.qty)
  BY <1>1, QuantityOfNone DEF BestOf, Counted
<1>9. TradesWith(R, o, {}, <<>>)
  BY DEF TradesWith, ToSet
<1>10. LeftBy(R, o, {}) = R
  BY DEF LeftBy
<1>11. Dated(R, {})'
  <2> SUFFICES ASSUME NEW x \in R
               PROVE  \E p \in placed' : x = WithLeft(p, p.qty - filled'[p.id] + 0)
    BY DEF Dated
  <2>1. PICK p \in placed : x = WithLeft(p, p.qty - filled[p.id])
    BY <1>5
  <2>2. p.qty - filled[p.id] + 0 = p.qty - filled[p.id]
    BY <1>5, OrderFields
  <2> QED BY <1>2, <2>1, <2>2
<1>12. ToSet(skipped') = {}
  BY <1>2 DEF ToSet
<1> QED BY <1>2, <1>4, <1>6, <1>7, <1>8, <1>9, <1>10, <1>11, <1>12 DEF Follows

\* Callers still see the book that the running call found.
LEMMA StillSeen ==
  ASSUME IInv, Accounts, Running, NEW R, NEW D, Follows(R, D)
  PROVE  Visible = R
<1> DEFINE Made == {Maker(t) : t \in ToSet(trades)}
           Was(id) == [Original(id) EXCEPT !.qty = @ - filled[id] + TradedWith(id)]
<1>1. /\ Found(R, cur) /\ BestOf(R, cur, D) /\ Present = LeftBy(R, cur, D)
      /\ ToSet(trades) = {TradeWith(R, cur, d) : d \in D}
  BY DEF Follows, TradesWith
<1>2. D \in SUBSET R /\ R \subseteq Order
  BY <1>1, FoundFacts DEF BestOf
<1>3. \A d \in R : /\ Maker(TradeWith(R, cur, d)) = d.id
                   /\ TradeWith(R, cur, d).qty = ShareIn(R, cur, d)
                   /\ ShareIn(R, cur, d) \in Nat
  <2>1. \A d \in R : ShareIn(R, cur, d) \in 0..d.qty /\ d.qty \in Nat
    BY <1>1, ShareValue, FoundFacts
  <2> QED BY <2>1 DEF Maker, TradeWith, TradeOf
<1>4. PresentIds \cup Made = {r.id : r \in R}
  <2>1. Made = {d.id : d \in D}
    BY <1>1, <1>2, <1>3
  <2>2. \A d \in D : \A n : WithLeft(d, n).id = d.id
    BY <1>2 DEF WithLeft, Order
  <2>3. PresentIds \subseteq {r.id : r \in R}
    BY <1>1, <1>2, <2>2 DEF PresentIds, LeftBy
  <2>4. {r.id : r \in R \ D} \subseteq PresentIds
    BY <1>1 DEF PresentIds, LeftBy
  <2> QED BY <1>2, <2>1, <2>3, <2>4
<1>5. ASSUME NEW r \in R PROVE Was(r.id) = r
  <2> DEFINE n == IF r \in D THEN ShareIn(R, cur, r) ELSE 0
             T == {t \in ToSet(trades) : Maker(t) = r.id}
  <2>1. T = IF r \in D THEN {TradeWith(R, cur, r)} ELSE {}
    <3>1. \A d \in D : d.id = r.id => d = r
      BY <1>1, <1>2 DEF Found
    <3> QED BY <1>1, <1>2, <1>3, <3>1
  <2>2. TradedWith(r.id) = n
    <3>1. CASE r \in D
      <4> DEFINE t == TradeWith(R, cur, r)
      <4>1. t.qty = n /\ n \in Nat /\ T = {} \cup {t}
        BY <1>3, <2>1, <3>1
      <4>2. Countable({})
        BY FS_EmptySet DEF Countable
      <4> HIDE DEF t, n, T
      <4>3. Quantity({} \cup {t}) = Quantity({}) + t.qty
        BY <4>1, <4>2, QuantityGrows
      <4>4. Quantity({} \cup {t}) = n
        BY <4>1, <4>3, QuantityOfNone
      <4> QED BY <4>1, <4>4 DEF TradedWith, T
    <3>2. CASE r \notin D
      BY <2>1, <3>2, QuantityOfNone DEF TradedWith
    <3> QED BY <3>1, <3>2
  <2>3. PICK p \in placed : r = WithLeft(p, p.qty - filled[p.id] + n)
    BY DEF Follows, Dated
  <2>4. p \in Order /\ p.id = r.id /\ Original(p.id) = p
    <3>1. p \in Order
      BY DEF IInv, TypeOK
    <3>2. p.id = r.id
      BY <2>3, <3>1 DEF WithLeft, Order
    <3> QED BY <3>1, <3>2, OriginalOf DEF Accounts
  <2> HIDE DEF n
  <2> QED BY <2>2, <2>3, <2>4 DEF WithLeft, Order
<1>6. Visible = {Was(id) : id \in PresentIds \cup Made}
  BY DEF Visible, Running
<1> HIDE DEF Was, Made
<1> QED BY <1>4, <1>5, <1>6

\* Every step keeps what is known of the running call.
LEMMA NextKeepsCallKnown ==
  ASSUME IInv, Accounts, CallKnown, [Next]_vars
  PROVE  CallKnown'
<1>1. ASSUME NEW o \in Acceptable, ParkLimit(o) \/ StartLimit(o) \/ StartSweep(o)
      PROVE  CallKnown'
  <2>1. /\ cur' = o /\ pc' \in {"done", "match", "sweep"} /\ o \in Submission /\ Valid(o)
        /\ err' = "none"
    BY <1>1 DEF ParkLimit, StartLimit, StartSweep, Begin, Acceptable
  <2>2. pc' = "sweep" => o.type \in {"market", "ioc"}
    BY <1>1 DEF ParkLimit, StartLimit, StartSweep, Begin
  <2> QED BY <2>1, <2>2 DEF CallKnown
<1>2. CASE FillLimit
  BY <1>2 DEF FillLimit, CallKnown
<1>3. CASE FillSweep
  <2>1. pc = "sweep" /\ UNCHANGED <<cur, err>> /\ remaining \in Nat
    BY <1>3 DEF FillSweep, SweepGoesOn, IInv, TypeOK
  <2>2. pc' = "sweep" \/ (pc' = "reinsert" /\ remaining' = 0)
    BY <1>3, <2>1 DEF FillSweep, Execute
  <2> QED BY <2>1, <2>2 DEF CallKnown
<1>4. CASE SkipOwn \/ Reinsert \/ SweepRunsDry
  BY <1>4 DEF SkipOwn, SweepGoesOn, Reinsert, SweepRunsDry, callVars, CallKnown
<1>5. CASE RestLimit \/ ReturnEarlyIOC \/ FinishSweep
  BY <1>5 DEF RestLimit, ReturnEarlyIOC, FinishSweep, callVars, CallKnown
<1>6. CASE Return
  BY <1>6 DEF Return, CallKnown
<1>7. ASSUME NEW id \in Ids, CancelOrder(id) PROVE CallKnown'
  BY <1>7 DEF CancelOrder, CancelFound, CancelNotFound, vars, CallKnown
<1>8. CASE UNCHANGED vars
  BY <1>8 DEF vars, callVars, CallKnown
<1> QED BY <1>1, <1>2, <1>3, <1>4, <1>5, <1>6, <1>7, <1>8 DEF Next, Step, PlaceOrder

\* A turn of matchBuy or matchSell trades with the next order of the call.
LEMMA FillLimitFollows ==
  ASSUME IInv, Accounts, CallKnown, NEW R, NEW D, Follows(R, D), FillLimit
  PROVE  \E E : Follows(R, E)'
<1>0. PICK r, q, t : r = Head(OppBook) /\ q = FillQty(r) /\ t = consumeHead(OppBook, q)
  OBVIOUS
<1>1. pc = "match" /\ OppBook # <<>> /\ pc # "idle" /\ Crosses(cur, r)
  BY <1>0 DEF FillLimit, HeadCrosses
<1>2. OppBook \in Seq(Order) /\ OppBook = book[Opp(cur.side)] /\ NoIdTwice(OppBook)
  BY <1>0, <1>1, RunningFacts DEF Accounts, OnePlace
<1>3. r \in Order /\ Execute(r, q)
  BY <1>0, <1>1, <1>2, PopIds DEF FillLimit
<1>4. q \in Int
  BY <1>0, <1>1, <1>3, ExecuteFacts
<1>5. ToSet(t) = ToSet(Tail(OppBook))
                   \cup (IF q = r.qty THEN {} ELSE {[r EXCEPT !.qty = @ - q]})
  BY <1>0, <1>1, <1>2, <1>4, consumeHeadIds
<1>6. /\ book' = [book EXCEPT ![Opp(cur.side)] = t]
      /\ pc' # "reinsert"
      /\ UNCHANGED <<cur, skipped, placed>>
  BY <1>0, <1>1, <1>2 DEF FillLimit
<1>7. Follows(R, D \cup {r})'
  BY <1>0, <1>1, <1>3, <1>5, <1>6, FillFollows
<1> QED BY <1>7

\* So does a fill of a market or IOC order.
LEMMA FillSweepFollows ==
  ASSUME IInv, Accounts, CallKnown, NEW R, NEW D, Follows(R, D), FillSweep
  PROVE  \E E : Follows(R, E)'
<1>0. PICK r, q : r = Head(OppBook) /\ q = FillQty(r)
  OBVIOUS
<1>1. /\ pc = "sweep" /\ OppBook # <<>> /\ pc # "idle" /\ r.user # cur.user
      /\ cur.type = "market" \/ Crosses(cur, r)
  BY <1>0 DEF FillSweep, SweepGoesOn, CallKnown
<1>2. OppBook \in Seq(Order) /\ OppBook = book[Opp(cur.side)] /\ NoIdTwice(OppBook)
  BY <1>0, <1>1, RunningFacts DEF Accounts, OnePlace
<1>3. r \in Order /\ Execute(r, q)
  BY <1>0, <1>1, <1>2, PopIds DEF FillSweep
<1>4. q \in Int
  BY <1>0, <1>1, <1>3, ExecuteFacts
<1>5. PICK t \in popAndRest(Opp(cur.side), OppBook, q) :
        book' = [book EXCEPT ![Opp(cur.side)] = t]
  BY <1>0 DEF FillSweep
<1>6. ToSet(t) = ToSet(Tail(OppBook))
                   \cup (IF q = r.qty THEN {} ELSE {[r EXCEPT !.qty = @ - q]})
  <2>1. ToSet(t) = ToSet(Tail(OppBook))
                     \cup (IF q = Head(OppBook).qty THEN {}
                           ELSE {[Head(OppBook) EXCEPT !.qty = @ - q]})
    <3>1. t \in popAndRest(Opp(cur.side), OppBook, q)
      BY <1>5
    <3>2. OppBook # <<>> /\ OppBook \in Seq(Order) /\ NoIdTwice(OppBook)
      BY <1>1, <1>2
    <3> QED BY <1>4, <3>1, <3>2, popAndRestIds
  <2> QED BY <1>0, <2>1
<1>7. /\ pc' = "reinsert" => q = remaining
      /\ UNCHANGED <<cur, skipped, placed>>
  BY <1>0, <1>1 DEF FillSweep
<1>8. Follows(R, D \cup {r})'
  BY <1>0, <1>1, <1>3, <1>5, <1>6, <1>7, FillFollows
<1> QED BY <1>8

\* Every step keeps following the calls.
LEMMA NextKeepsFollowing ==
  ASSUME IInv, Accounts, FollowInv, [Next]_vars
  PROVE  FollowInv'
<1>1. CallKnown /\ CallKnown'
  BY NextKeepsCallKnown DEF FollowInv
<1> SUFFICES ASSUME Running' PROVE \E R, D : Follows(R, D)'
  BY <1>1 DEF FollowInv
<1>2. ASSUME NEW o \in Acceptable, pc = "idle", ParkLimit(o) \/ StartLimit(o) \/ StartSweep(o)
      PROVE  \E R, D : Follows(R, D)'
  <2>1. ~ParkLimit(o)
    BY DEF ParkLimit, Begin, Running
  <2>2. \A R : R = Present => Follows(R, {})'
    BY <1>2, <2>1, StartFollows
  <2> QED BY <2>2
<1>3. ASSUME Step PROVE \E R, D : Follows(R, D)'
  <2>1. ~(RestLimit \/ ReturnEarlyIOC \/ FinishSweep \/ Return)
    BY DEF RestLimit, ReturnEarlyIOC, FinishSweep, Return, Running
  <2>2. Running
    BY <1>3, <2>1 DEF Step, FillLimit, SkipOwn, FillSweep, SweepGoesOn, SweepRunsDry,
       Reinsert, Running
  <2>3. PICK R, D : Follows(R, D)
    BY <2>2 DEF FollowInv
  <2> QED BY <1>1, <1>3, <2>1, <2>3, FillLimitFollows, FillSweepFollows, SkipOwnFollows,
          ReinsertFollows, RunsDryFollows DEF Step
<1>4. ASSUME NEW id \in Ids, CancelOrder(id) PROVE FALSE
  BY <1>4 DEF CancelOrder, CancelFound, CancelNotFound, vars, Running
<1>5. CASE UNCHANGED vars
  <2>1. Running /\ Present' = Present
    BY <1>5 DEF vars, callVars, Running, Present
  <2>2. PICK R, D : Follows(R, D)
    BY <2>1 DEF FollowInv
  <2>3. /\ UNCHANGED <<cur, remaining, trades, placed, filled, skipped, pc>>
    BY <1>5 DEF vars, callVars
  <2>4. /\ ToSet(skipped') \subseteq CrossingIn(R, cur)
        /\ pc' = "reinsert" => remaining = 0 \/ D = TradableIn(R, cur)
    BY <2>2, <2>3 DEF Follows
  <2> QED BY <2>1, <2>2, <2>3, <2>4, SameFollows
<1> QED BY <1>2, <1>3, <1>4, <1>5 DEF Next, PlaceOrder

----------------------------------------------------------------------------
(* The end of a call is AtomicBook's step.                                 *)

\* What an IOC order takes with it, and which trades answer o.
AbandonedIn(R, o) ==
  IF o.type = "ioc" /\ UnfilledIn(R, o) > 0
  THEN {r \in CrossingIn(R, o) : r.user = o.user} ELSE {}

AnswersIn(R, o, ts) ==
  LET got     == {r \in TradableIn(R, o) : ShareIn(R, o, r) > 0}
      With(r) == TradeOf(o, r, ShareIn(R, o, r))
  IN  /\ ToSet(ts) = {With(r) : r \in got}
      /\ \A i, j \in 1..Len(ts) : \A r, s \in got :
           (i < j /\ ts[i] = With(r) /\ ts[j] = With(s)) => Less(Opp(o.side), r, s)

\* What AtomicBook makes of the book R, S, and what it answers.
MatchIn(R, o, S, ts, e) ==
  /\ ~ParksIn(R, o)
  /\ S = {[r EXCEPT !.qty = @ - ShareIn(R, o, r)] :
            r \in {s \in TradableIn(R, o) : ShareIn(R, o, s) < s.qty}}
         \cup (R \ (TradableIn(R, o) \cup AbandonedIn(R, o)))
         \cup {r \in {[o EXCEPT !.qty = UnfilledIn(R, o)]} : o.type = "limit" /\ r.qty > 0}
  /\ AnswersIn(R, o, ts)
  /\ e = IF o.type = "market" /\ UnfilledIn(R, o) > 0 THEN "no_liquidity" ELSE "none"

\* A call for o that has found R and has traded with D, rem being left of o,
\* takes Lost off the book, adds Rests to it and ends.
Ends(R, o, D, rem, Lost, Rests) ==
  /\ rem = 0 \/ D = TradableIn(R, o)
  /\ Lost = IF o.type = "ioc" /\ rem > 0
            THEN {r \in CrossingIn(R, o) : r.user = o.user} ELSE {}
  /\ Rests = IF o.type = "limit" /\ rem > 0 THEN {WithLeft(o, rem)} ELSE {}

\* Ending like this is what AtomicBook states.
LEMMA EndMeets ==
  ASSUME NEW R, NEW o, Found(R, o), ~ParksIn(R, o), NEW D, BestOf(R, o, D),
         NEW rem, Counted(o, D, rem), NEW ts, TradesWith(R, o, D, ts),
         NEW Lost, NEW Rests, Ends(R, o, D, rem, Lost, Rests),
         NEW S, S = (LeftBy(R, o, D) \ Lost) \cup Rests,
         NEW e, e = IF o.type = "market" /\ rem > 0 THEN "no_liquidity" ELSE "none"
  PROVE  MatchIn(R, o, S, ts, e)
<1> DEFINE T == TradableIn(R, o)
           X == {[r EXCEPT !.qty = @ - ShareIn(R, o, r)] :
                   r \in {s \in T : ShareIn(R, o, s) < s.qty}}
<1>1. /\ UnfilledIn(R, o) = rem
      /\ {r \in T : ShareIn(R, o, r) > 0} = D
      /\ LeftBy(R, o, D) = X \cup (R \ T)
  BY EndOfCall DEF Ends, TradesWith
<1>2. rem \in Nat
  BY DEF Counted
<1>3. AbandonedIn(R, o) = Lost
  BY <1>1 DEF AbandonedIn, Ends
<1>4. \A x \in X : x \notin Lost
  <2> SUFFICES ASSUME NEW r \in T, [r EXCEPT !.qty = @ - ShareIn(R, o, r)] \in Lost
               PROVE  FALSE
    OBVIOUS
  <2>1. o.type = "ioc" /\ [r EXCEPT !.qty = @ - ShareIn(R, o, r)].user = o.user
    BY DEF Ends
  <2>2. r \in Order
    BY DEF TradableIn, CrossingIn, Found
  <2> QED BY <2>1, <2>2 DEF TradableIn, Order
<1>5. {r \in {[o EXCEPT !.qty = rem]} : o.type = "limit" /\ r.qty > 0} = Rests
  <2>1. [o EXCEPT !.qty = rem] = WithLeft(o, rem) /\ WithLeft(o, rem).qty = rem
    BY DEF WithLeft, Found, Order
  <2> QED BY <2>1 DEF Ends
<1>6. AnswersIn(R, o, ts)
  BY <1>1 DEF AnswersIn, TradesWith, TradeWith
<1> HIDE DEF X, T
<1>7. S = X \cup (R \ (T \cup AbandonedIn(R, o))) \cup Rests
  BY <1>1, <1>3, <1>4
<1> QED BY <1>1, <1>5, <1>6, <1>7 DEF MatchIn, X, T

\* The operators of Orders are the same seen through AtomicBook.
LEMMA SameOrderOps ==
  /\ \A s : Promise!Opp(s) = Opp(s)
  /\ \A o, r : Promise!Crosses(o, r) = Crosses(o, r)
  /\ \A s, a, b : Promise!Less(s, a, b) = Less(s, a, b)
  /\ \A o, r, q : Promise!TradeOf(o, r, q) = TradeOf(o, r, q)
  /\ \A o : Promise!Valid(o) = Valid(o)
  /\ Promise!Submission = Submission
BY DEF Promise!Opp, Opp, Promise!Crosses, Crosses, Promise!Less, Less, Promise!bidLess,
   bidLess, Promise!askLess, askLess, Promise!Earlier, Earlier, Promise!TradeOf, TradeOf,
   Promise!Valid, Valid, Promise!KnownTypes, KnownTypes, Promise!Submission, Submission,
   Promise!Sides, Sides

\* So are those of the community modules.
LEMMA SameSums ==
  /\ \A S : Promise!Quantity(S) = Quantity(S)
  /\ \A S : Promise!Max(S) = Max(S)
  /\ \A S : Promise!Min(S) = Min(S)
  /\ \A s : Promise!ToSet(s) = ToSet(s)
<1>1. \A S : Promise!Quantity(S) = Quantity(S)
  BY DEF Promise!Quantity, Quantity, Promise!MapThenSumSet, MapThenSumSet,
     Promise!MapThenFoldSet, MapThenFoldSet
<1>2. \A S : Promise!Max(S) = Max(S) /\ Promise!Min(S) = Min(S)
  BY DEF Promise!Max, Max, Promise!Min, Min
<1>3. \A s : Promise!ToSet(s) = ToSet(s)
  BY DEF Promise!ToSet, ToSet
<1> QED BY <1>1, <1>2, <1>3

\* AtomicBook, put on this book, speaks of the book that callers see.
LEMMA PromiseOps ==
  /\ \A o : Promise!Crossing(o) = CrossingIn(Visible, o)
  /\ \A o : Promise!Tradable(o) = TradableIn(Visible, o)
  /\ \A o, r : Promise!Ahead(o, r) = AheadIn(Visible, o, r)
  /\ \A o, r : Promise!Share(o, r) = ShareIn(Visible, o, r)
  /\ \A o : Promise!Unfilled(o) = UnfilledIn(Visible, o)
  /\ \A o : Promise!Parks(o) = ParksIn(Visible, o)
  /\ \A o : Promise!Abandoned(o) = AbandonedIn(Visible, o)
  /\ \A o, ts : Promise!Answers(o, ts) = AnswersIn(Visible, o, ts)
<1>1. \A o : Promise!Crossing(o) = CrossingIn(Visible, o)
  BY SameOrderOps DEF Promise!Crossing, CrossingIn
<1>2. \A o : Promise!Tradable(o) = TradableIn(Visible, o)
  BY <1>1 DEF Promise!Tradable, TradableIn
<1>3. \A o, r : Promise!Ahead(o, r) = AheadIn(Visible, o, r)
  BY <1>2, SameOrderOps DEF Promise!Ahead, AheadIn
<1>4. \A o, r : Promise!Share(o, r) = ShareIn(Visible, o, r)
  BY <1>3, SameSums, Zenon DEF Promise!Share, ShareIn
<1>5. \A o : Promise!Unfilled(o) = UnfilledIn(Visible, o)
  BY <1>2, SameSums, Zenon DEF Promise!Unfilled, UnfilledIn
<1>6. \A o : Promise!Parks(o) = ParksIn(Visible, o)
  BY <1>1, <1>3 DEF Promise!Parks, ParksIn
<1>7. \A o : Promise!Abandoned(o) = AbandonedIn(Visible, o)
  BY <1>1, <1>5 DEF Promise!Abandoned, AbandonedIn
<1>8. \A o, ts : Promise!Answers(o, ts) = AnswersIn(Visible, o, ts)
  BY <1>2, <1>4, SameSums, SameOrderOps DEF Promise!Answers, AnswersIn
<1> QED BY <1>1, <1>2, <1>3, <1>4, <1>5, <1>6, <1>7, <1>8

\* A call that meets R and answers as it ends.
Meets(R, o, S, ts, e) ==
  \/ MatchIn(R, o, S, ts, e)
  \/ ParksIn(R, o) /\ S = R \cup {o} /\ ts = <<>> /\ e = "none"

\* What a call answers is what AtomicBook's PlaceOrder does.
LEMMA AnswerIsPlacing ==
  ASSUME pc # "done", pc' = "done", cur' \in Submission, Valid(cur'),
         \A r \in Visible : r.id # cur'.id,
         Meets(Visible, cur', Visible', trades', err')
  PROVE  Promise!Next
<1>1. ~Answered /\ Answered'
  BY DEF Answered
<1>2. Promise!Park(cur') \/ Promise!Match(cur')
  <2>1. CASE MatchIn(Visible, cur', Visible', trades', err')
    <3>1. Promise!Match(cur')
      BY <1>1, <2>1, PromiseOps, Zenon DEF Promise!Match, MatchIn
    <3> QED BY <3>1
  <2>2. CASE ParksIn(Visible, cur') /\ Visible' = Visible \cup {cur'}
               /\ trades' = <<>> /\ err' = "none"
    <3>1. Promise!Park(cur')
      BY <1>1, <2>2, PromiseOps, Zenon DEF Promise!Park
    <3> QED BY <3>1
  <2> QED BY <2>1, <2>2 DEF Meets
<1>3. Promise!PlaceOrder(cur')
  BY <1>1, <1>2, SameOrderOps DEF Promise!PlaceOrder
<1>4. cur' \in Promise!Submission
  BY SameOrderOps
<1> QED BY <1>1, <1>3, <1>4 DEF Promise!Next

\* A step that ends no call and shows no change is none for the caller.
LEMMA NothingSeen ==
  ASSUME pc # "done", pc' # "done", Visible' = Visible
  PROVE  UNCHANGED Promise!vars
BY DEF Promise!vars, Answered
\* Between calls and when one is done, callers see what is present.
LEMMA SeenAtRest == pc \in {"idle", "done"} => Visible = Present
BY DEF Visible

\* A running call's last step.
LEMMA EndAnswers ==
  ASSUME IInv, Accounts, CallKnown, Running, NEW R, NEW D, Follows(R, D),
         pc' = "done", cur' = cur,
         NEW E, BestOf(R, cur, E), Counted(cur, E, remaining'),
         TradesWith(R, cur, E, trades'),
         NEW Lost, NEW Rests, Ends(R, cur, E, remaining', Lost, Rests),
         Present' = (LeftBy(R, cur, E) \ Lost) \cup Rests,
         err' = IF cur.type = "market" /\ remaining' > 0 THEN "no_liquidity" ELSE "none"
  PROVE  Promise!Next
<1>1. Visible = R
  BY StillSeen
<1>2. Visible' = Present'
  BY DEF Visible
<1>3. Found(R, cur) /\ ~ParksIn(R, cur)
  BY DEF Follows
<1>4. MatchIn(R, cur, Visible', trades', err')
  BY <1>2, <1>3, EndMeets
<1>5. cur \in Submission /\ Valid(cur) /\ pc # "done"
  BY DEF CallKnown, Running
<1>6. \A r \in R : r.id # cur.id
  BY <1>3 DEF Found
<1> QED BY <1>1, <1>4, <1>5, <1>6, AnswerIsPlacing, Zenon DEF Meets

\* matchBuy and matchSell end when nothing is left of the order.
LEMMA FillEnds ==
  ASSUME IInv, Accounts, FollowInv, FillLimit, pc' = "done"
  PROVE  Promise!Next
<1>1. Running /\ CallKnown
  BY DEF FillLimit, Running, FollowInv
<1>2. PICK R, D : Follows(R, D)
  BY <1>1 DEF FollowInv
<1>3. PICK E : Follows(R, E)'
  BY <1>1, <1>2, FillLimitFollows
<1>4. cur' = cur /\ remaining' = 0 /\ err' = "none"
  BY <1>1 DEF FillLimit, Execute, IInv, TypeOK, CallKnown, Running
<1>5. /\ BestOf(R, cur, E) /\ Counted(cur, E, remaining') /\ TradesWith(R, cur, E, trades')
      /\ Present' = LeftBy(R, cur, E)
  BY <1>3, <1>4 DEF Follows
<1>6. Ends(R, cur, E, remaining', {}, {})
  BY <1>4 DEF Ends
<1>7. Present' = (LeftBy(R, cur, E) \ {}) \cup {}
  BY <1>5
<1> QED BY <1>1, <1>2, <1>4, <1>5, <1>6, <1>7, EndAnswers

\* Or nothing crosses any more, and the remainder comes to rest.
LEMMA RestEnds ==
  ASSUME IInv, Accounts, FollowInv, RestLimit
  PROVE  Promise!Next
<1>1. Running /\ CallKnown /\ pc = "match" /\ pc # "idle" /\ ~HeadCrosses
  BY DEF RestLimit, Running, FollowInv
<1>2. PICK R, D : Follows(R, D)
  BY <1>1 DEF FollowInv
<1>3. /\ UNCHANGED <<cur, remaining, trades, err>> /\ pc' = "done"
  BY DEF RestLimit, callVars
<1>4. cur.type = "limit" /\ remaining > 0
  BY <1>1 DEF Accounts, CallAccounted
<1>5. D = TradableIn(R, cur)
  BY <1>1, <1>2, <1>4, AllTraded DEF HeadCrosses
<1>6. /\ BestOf(R, cur, D) /\ Counted(cur, D, remaining') /\ TradesWith(R, cur, D, trades')
      /\ Present = LeftBy(R, cur, D)
  BY <1>2, <1>3 DEF Follows
<1> DEFINE Rests == {WithLeft(cur, remaining)}
<1>7. Ends(R, cur, D, remaining', {}, Rests)
  BY <1>3, <1>4, <1>5 DEF Ends
<1>8. Present' = (LeftBy(R, cur, D) \ {}) \cup Rests
  BY <1>6, RestLimitKeepsAccounts DEF WithLeft
<1>9. err' = IF cur.type = "market" /\ remaining' > 0 THEN "no_liquidity" ELSE "none"
  BY <1>1, <1>3, <1>4 DEF CallKnown
<1>10. cur' = cur
  BY <1>3
<1> HIDE DEF Rests
<1> QED BY <1>1, <1>2, <1>3, <1>6, <1>7, <1>8, <1>9, <1>10, EndAnswers

\* placeIOC returns early: all it skipped, and no more, is lost.
LEMMA EarlyReturnEnds ==
  ASSUME IInv, Accounts, FollowInv, ReturnEarlyIOC
  PROVE  Promise!Next
<1>1. Running /\ CallKnown /\ pc = "sweep" /\ pc # "idle" /\ cur.type = "ioc"
  BY DEF ReturnEarlyIOC, Running, FollowInv
<1>2. PICK R, D : Follows(R, D)
  BY <1>1 DEF FollowInv
<1>3. /\ UNCHANGED <<cur, remaining, trades, err>> /\ pc' = "done"
  BY DEF ReturnEarlyIOC
<1>4. remaining > 0
  BY <1>1 DEF Accounts, CallAccounted
<1>5. OppBook # <<>> => cur.type # "market" /\ ~Crosses(cur, Head(OppBook))
  BY <1>1 DEF ReturnEarlyIOC
<1>6. /\ D = TradableIn(R, cur)
      /\ \A x \in CrossingIn(R, cur) : x.user = cur.user => x \in ToSet(skipped)
  BY <1>1, <1>2, <1>5, AllTraded
<1> DEFINE Lost == {r \in CrossingIn(R, cur) : r.user = cur.user}
<1>7. ToSet(skipped) = Lost
  BY <1>1, <1>2, <1>6 DEF Follows, Accounts, CallAccounted
<1>8. /\ BestOf(R, cur, D) /\ Counted(cur, D, remaining') /\ TradesWith(R, cur, D, trades')
      /\ Present = LeftBy(R, cur, D)
  BY <1>2, <1>3 DEF Follows
<1>9. Ends(R, cur, D, remaining', Lost, {})
  BY <1>1, <1>3, <1>4, <1>6 DEF Ends
<1>10. Present' = (LeftBy(R, cur, D) \ Lost) \cup {}
  BY <1>7, <1>8, ReturnEarlyIOCKeepsAccounts
<1>11. err' = IF cur.type = "market" /\ remaining' > 0 THEN "no_liquidity" ELSE "none"
  BY <1>1, <1>3 DEF CallKnown
<1>12. cur' = cur
  BY <1>3
<1> HIDE DEF Lost
<1> QED BY <1>1, <1>2, <1>3, <1>8, <1>9, <1>10, <1>11, <1>12, EndAnswers

\* A sweep is over when the skipped orders are back.
LEMMA SweepEnds ==
  ASSUME IInv, Accounts, FollowInv, FinishSweep
  PROVE  Promise!Next
<1>1. Running /\ CallKnown /\ pc = "reinsert" /\ pc # "idle"
  BY DEF FinishSweep, Running, FollowInv
<1>2. PICK R, D : Follows(R, D)
  BY <1>1 DEF FollowInv
<1>3. /\ UNCHANGED <<cur, remaining, trades>> /\ pc' = "done"
      /\ err' = IF cur.type = "market" /\ remaining > 0 THEN "no_liquidity" ELSE "none"
  BY DEF FinishSweep
<1>4. cur.type \in {"market", "ioc"} /\ (remaining > 0 => cur.type = "market")
  BY <1>1 DEF CallKnown
<1>5. /\ BestOf(R, cur, D) /\ Counted(cur, D, remaining') /\ TradesWith(R, cur, D, trades')
      /\ Present = LeftBy(R, cur, D)
      /\ remaining = 0 \/ D = TradableIn(R, cur)
  BY <1>1, <1>2, <1>3 DEF Follows
<1>6. Ends(R, cur, D, remaining', {}, {})
  BY <1>3, <1>4, <1>5 DEF Ends
<1>7. Present' = (LeftBy(R, cur, D) \ {}) \cup {}
  BY <1>5, OtherStepsKeepAccounts
<1>8. err' = IF cur.type = "market" /\ remaining' > 0 THEN "no_liquidity" ELSE "none"
  BY <1>3
<1>9. cur' = cur
  BY <1>3
<1> QED BY <1>1, <1>2, <1>3, <1>5, <1>6, <1>7, <1>8, <1>9, EndAnswers

\* The self-match branch of placeLimit: the head of the other side is the
\* best order that crosses.
LEMMA ParkAnswers ==
  ASSUME IInv, Accounts, NEW o \in Acceptable, pc = "idle", ParkLimit(o)
  PROVE  Promise!Next
<1> DEFINE R == Present
           s == book[Opp(o.side)]
           h == Head(s)
<1>1. /\ o \in Submission /\ Valid(o) /\ o \in Order /\ o.side \in Sides /\ Fresh(o.id)
  BY ConstantsAssumption DEF Acceptable, Submission, Order, Valid
<1>2. /\ cur' = o /\ pc' = "done" /\ trades' = <<>> /\ err' = "none" /\ skipped' = <<>>
      /\ o.type = "limit" /\ OwnHeadCrosses(o) /\ skipped = <<>>
  BY DEF ParkLimit, Begin, IInv, SkippedInSweep
<1>3. PICK t \in insertSorted(o.side, book[o.side], o) : book' = [book EXCEPT ![o.side] = t]
  BY DEF ParkLimit
<1>4. Present' = R \cup {o}
  <2>1. book[o.side] \in Seq(Order)
    BY <1>1 DEF IInv, TypeOK
  <2>2. ToSet(t) = ToSet(book[o.side]) \cup {o}
    BY <1>1, <1>3, <2>1, InsertIds
  <2>3. /\ Present' = ToSet(t) \cup ToSet(book[Opp(o.side)]) \cup ToSet(skipped')
        /\ Present = ToSet(book[o.side]) \cup ToSet(book[Opp(o.side)]) \cup ToSet(skipped)
    BY <1>1, <1>3, PresentAfter DEF IInv
  <2> QED BY <1>2, <2>2, <2>3
<1>5. /\ s \in Seq(Order) /\ Sorted(Opp(o.side), s) /\ s # <<>>
      /\ \A x \in ToSet(s) : x.side = Opp(o.side)
      /\ ToSet(s) \subseteq R
  BY <1>1, <1>2, OppSide DEF IInv, TypeOK, BookSorted, SidesKept, Present, Sides, Opp,
     OwnHeadCrosses
<1>6. h.user = o.user /\ Crosses(o, h)
  BY <1>2 DEF OwnHeadCrosses
<1> HIDE DEF s
<1>7. h \in Order /\ h = s[1] /\ h \in ToSet(s)
  BY <1>5, PopKeepsOrder
<1> HIDE DEF h
<1>8. h \in CrossingIn(R, o)
  BY <1>5, <1>6, <1>7 DEF CrossingIn
<1>9. ASSUME NEW x \in AheadIn(R, o, h) PROVE FALSE
  <2>1. x \in R /\ x.side = Opp(o.side) /\ Less(Opp(o.side), x, h)
    BY DEF AheadIn, TradableIn, CrossingIn
  <2>2. x \in ToSet(s)
    <3>1. x \notin ToSet(book[o.side])
      BY <1>1, <2>1, OppSide DEF IInv, SidesKept
    <3>2. x \notin ToSet(skipped)
      BY <1>2 DEF ToSet
    <3> QED BY <1>1, <2>1, <3>1, <3>2 DEF Present, Sides, Opp, s
  <2>3. PICK i \in 1..Len(s) : x = s[i]
    BY <1>5, <2>2, SeqElements
  <2>4. Len(s) \in Nat
    BY <1>5, SeqElements
  <2>5. i = 1
    BY <1>5, <1>7, <2>1, <2>3, <2>4 DEF Sorted
  <2> QED BY <1>7, <2>1, <2>3, <2>5, RankTotal
<1>10. ParksIn(R, o)
  BY <1>2, <1>6, <1>8, <1>9 DEF ParksIn
<1>11. \A r \in R : r.id # o.id
  BY <1>1, PresentDetermined DEF Fresh
<1>12. Visible = R /\ Visible' = Present'
  BY <1>2 DEF Visible
<1>13. Meets(Visible, cur', Visible', trades', err')
  BY <1>2, <1>4, <1>10, <1>12 DEF Meets
<1> QED BY <1>1, <1>2, <1>11, <1>12, <1>13, AnswerIsPlacing

\* As long as a call runs, callers see what it found.
SeenWhileRunning ==
  \A R, D : (IInv /\ Accounts /\ Running /\ Follows(R, D)) => Visible = R

\* That holds after every step as well.
LEMMA SeenThen == SeenWhileRunning'
<1>1. SeenWhileRunning
  BY StillSeen DEF SeenWhileRunning
<1> QED BY <1>1, PTL

\* A call that starts changes nothing for callers.
LEMMA StartUnseen ==
  ASSUME IInv, Accounts, NEW o \in Acceptable, pc = "idle", StartLimit(o) \/ StartSweep(o)
  PROVE  UNCHANGED Promise!vars
<1>1. PICK R : R = Present
  OBVIOUS
<1>2. Follows(R, {})'
  BY <1>1, StartFollows
<1>3. IInv' /\ Accounts'
  BY StartKeepsInv, StartKeepsAccounts
<1>4. Running' /\ pc' # "done"
  BY DEF StartLimit, StartSweep, Begin, Running
<1>5. \A Q, D : (IInv' /\ Accounts' /\ Running' /\ Follows(Q, D)') => Visible' = Q
  BY SeenThen DEF SeenWhileRunning
<1>6. Visible' = R
  BY <1>2, <1>3, <1>4, <1>5
<1>7. Visible = R
  BY <1>1, SeenAtRest
<1> QED BY <1>4, <1>6, <1>7, NothingSeen

\* A step within a call changes nothing for callers.
LEMMA RunningUnseen ==
  ASSUME IInv, Accounts, FollowInv, [Next]_vars, Step, Running'
  PROVE  UNCHANGED Promise!vars
<1>1. ~(RestLimit \/ ReturnEarlyIOC \/ FinishSweep \/ Return)
  BY DEF RestLimit, ReturnEarlyIOC, FinishSweep, Return, Running
<1>2. Running
  BY <1>1 DEF Step, FillLimit, SkipOwn, FillSweep, SweepGoesOn, SweepRunsDry,
     Reinsert, Running
<1>3. PICK R, D : Follows(R, D)
  BY <1>2 DEF FollowInv
<1>4. CallKnown
  BY DEF FollowInv
<1>5. \E E : Follows(R, E)'
  BY <1>1, <1>3, <1>4, FillLimitFollows, FillSweepFollows, SkipOwnFollows,
     ReinsertFollows, RunsDryFollows DEF Step
<1>6. PICK E : Follows(R, E)'
  BY <1>5
<1>7. IInv' /\ Accounts'
  BY NextKeepsInv, NextKeepsAccounts
<1>8. \A Q, F : (IInv' /\ Accounts' /\ Running' /\ Follows(Q, F)') => Visible' = Q
  BY SeenThen DEF SeenWhileRunning
<1>9. Visible' = R
  BY <1>6, <1>7, <1>8
<1>10. Visible = R
  BY <1>2, <1>3, StillSeen
<1>11. pc # "done" /\ pc' # "done"
  BY <1>2 DEF Running
<1> QED BY <1>9, <1>10, <1>11, NothingSeen

\* The answer is taken.
LEMMA ReturnReturns ==
  ASSUME IInv, Accounts, Return
  PROVE  Promise!Next
<1>1. /\ pc = "done" /\ pc' = "idle" /\ trades' = <<>> /\ err' = "none"
      /\ cur # NoOrder
  BY NoOrderAssumption DEF Return, IInv, TypeOK
<1>2. Present' = Present
  BY OtherStepsKeepAccounts
<1>3. Visible' = Visible
  BY <1>1, <1>2 DEF Visible
<1>4. Answered /\ ~Answered'
  BY <1>1 DEF Answered
<1>5. Promise!Return
  BY <1>1, <1>3, <1>4 DEF Promise!Return
<1> QED BY <1>5 DEF Promise!Next

\* CancelOrder takes the id off the book that callers see.
LEMMA CancelCancels ==
  ASSUME IInv, Accounts, NEW id \in Ids, pc = "idle", CancelFound(id)
  PROVE  Promise!Next
<1>1. pc' = "idle"
  BY DEF CancelFound
<1>2. Present' = {r \in Present : r.id # id}
  BY CancelKeepsAccounts
<1>3. Visible' = {r \in Visible : r.id # id}
  BY <1>1, <1>2 DEF Visible
<1>4. ~Answered /\ ~Answered'
  BY <1>1 DEF Answered
<1>5. Promise!CancelOrder(id)
  BY <1>3, <1>4 DEF Promise!CancelOrder
<1> QED BY <1>5 DEF Promise!Next

\* Nor does a step that changes nothing.
LEMMA NothingDone ==
  ASSUME UNCHANGED vars
  PROVE  UNCHANGED Promise!vars
<1>1. UNCHANGED <<book, pc, cur, skipped, trades, err, placed, filled>>
  BY DEF vars, callVars
<1>2. Present' = Present /\ PresentIds' = PresentIds
  BY <1>1 DEF Present, PresentIds
<1>3. Visible' = Visible
  BY <1>1, <1>2 DEF Visible, Original, TradedWith, Maker
<1> QED BY <1>1, <1>3 DEF Promise!vars, Answered

\* Every step is one of AtomicBook's or none.
LEMMA StepMeets ==
  ASSUME IInv, Accounts, FollowInv, [Next]_vars
  PROVE  [Promise!Next]_(Promise!vars)
<1>1. CASE PlaceOrder
  BY <1>1, ParkAnswers, StartUnseen DEF PlaceOrder
<1>2. CASE Step
  <2>1. CASE Running'
    BY <1>2, <2>1, RunningUnseen
  <2>2. CASE ~Running'
    <3>1. FillLimit => pc' = "done"
      BY <2>2 DEF FillLimit, Running
    <3>2. ~(SkipOwn \/ FillSweep \/ SweepRunsDry \/ Reinsert)
      BY <2>2 DEF SkipOwn, FillSweep, SweepGoesOn, SweepRunsDry, Reinsert, Running
    <3> QED BY <1>2, <3>1, <3>2, FillEnds, RestEnds, EarlyReturnEnds, SweepEnds,
            ReturnReturns DEF Step
  <2> QED BY <2>1, <2>2
<1>3. ASSUME NEW id \in Ids, CancelOrder(id) PROVE [Promise!Next]_(Promise!vars)
  BY <1>3, CancelCancels, NothingDone DEF CancelOrder, CancelNotFound
<1>4. CASE UNCHANGED vars
  BY <1>4, NothingDone
<1> QED BY <1>1, <1>2, <1>3, <1>4 DEF Next

\* Both begin with nothing on the book.
LEMMA InitMeets == Init => Promise!Init /\ FollowInv
<1> SUFFICES ASSUME Init PROVE Promise!Init /\ FollowInv
  OBVIOUS
<1>1. Visible = {}
  BY DEF Init, Visible, Present, ToSet, Sides
<1> QED BY <1>1 DEF Init, Promise!Init, Answered, FollowInv, CallKnown, Running

\* Every behaviour of the engine, with its loops, its pops and its
\* insertions, is one of AtomicBook to its callers: each PlaceOrder and each
\* CancelOrder takes effect at once, on the orders and by the amounts that
\* price-time priority gives, for any number of orders.
THEOREM EngineKeepsPromise == Spec => KeepsPromise
<1>1. Init => Promise!Init /\ IInv /\ Accounts /\ FollowInv
  BY InitMeets, InitInv, InitAccounts
<1>2. IInv /\ Accounts /\ FollowInv /\ [Next]_vars
        => (IInv /\ Accounts /\ FollowInv)' /\ [Promise!Next]_(Promise!vars)
  BY NextKeepsInv, NextKeepsAccounts, NextKeepsFollowing, StepMeets
<1> QED BY <1>1, <1>2, PTL DEF Spec, KeepsPromise, Promise!Spec

=============================================================================
