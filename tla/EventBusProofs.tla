---------------------------- MODULE EventBusProofs ----------------------------
(***************************************************************************)
(* What holds of the event bus for any publishers, channels, event types   *)
(* and buffer size.                                                        *)
(***************************************************************************)
EXTENDS EventBus, SequenceTheorems, FiniteSetTheorems, TLAPS

\* A channel is on one list at most.
ListedOnce ==
  \A ty1, ty2 \in Types : \A c \in subscribers[ty1] :
    c \in subscribers[ty2] => ty1 = ty2

\* A listed channel is open.
ListedOpen == \A ty \in Types : \A c \in subscribers[ty] : channel[c] = "open"

\* While a publisher holds the read lock, the channels it has left to visit
\* stay listed.
VisitedListed ==
  \A p \in Publishers : \A c \in visit[p].todo :
    \E ty \in Types : c \in subscribers[ty]

IInv == TypeOK /\ ListedOnce /\ ListedOpen /\ VisitedListed /\ NeverPanics

----------------------------------------------------------------------------

\* The event that StartPublish makes is an event.
LEMMA NewEvent ==
  ASSUME TypeOK, NEW p \in Publishers, NEW ty \in Types, sent[p] < MaxEvents
  PROVE  /\ sent[p] + 1 \in 1..MaxEvents
         /\ [from |-> p, n |-> sent[p] + 1, type |-> ty] \in Event
<1>1. sent[p] \in 0..MaxEvents /\ MaxEvents \in Nat
  BY BusAssumption DEF TypeOK
<1>2. sent[p] + 1 \in 1..MaxEvents
  BY <1>1
<1> QED
  BY <1>2 DEF Event

\* A publisher with somebody left to visit is not idle.
LEMMA Visiting ==
  ASSUME TypeOK, NEW p \in Publishers, NEW c \in visit[p].todo
  PROVE  /\ visit[p] \in [event : Event, todo : SUBSET Channels]
         /\ c \in Channels
         /\ visit[p] # Idle
<1>1. visit[p] # Idle
  BY DEF Idle
<1> QED
  BY <1>1 DEF TypeOK

LEMMA InitHolds == Init => IInv
<1> SUFFICES ASSUME Init PROVE IInv
  OBVIOUS
<1>1. TypeOK
  <2>1. visit \in [Publishers -> {Idle} \cup [event : Event, todo : SUBSET Channels]]
    BY DEF Init
  <2>2. /\ buffer \in [Channels -> Seq(Event)]
        /\ \A c \in Channels : Len(buffer[c]) <= BufferSize
        /\ received \in [Channels -> Seq(Event)]
    <3>1. /\ <<>> \in Seq(Event)
          /\ Len(<<>>) = 0
          /\ 0 <= BufferSize
      BY BusAssumption
    <3> QED
      BY <3>1 DEF Init
  <2>3. closes \in 0..MaxCloses /\ sent \in [Publishers -> 0..MaxEvents]
    BY BusAssumption DEF Init
  <2> QED
    BY <2>1, <2>2, <2>3 DEF Init, TypeOK
<1>2. VisitedListed
  BY DEF Init, VisitedListed, Idle
<1> QED
  BY <1>1, <1>2 DEF Init, IInv, ListedOnce, ListedOpen, NeverPanics

----------------------------------------------------------------------------
(* One lemma for each action.                                              *)

LEMMA SubscribeKeeps ==
  ASSUME IInv, NEW c \in Channels, NEW ty \in Types, Subscribe(c, ty)
  PROVE  IInv'
<1> USE DEF IInv, Subscribe, historyVars, consumerVars
<1>1. \A p \in Publishers : visit'[p].todo = {}
  BY DEF WriteLockFree, Idle
<1>2. VisitedListed' /\ NeverPanics'
  BY <1>1 DEF VisitedListed, NeverPanics
<1>3. UNCHANGED <<closed, buffer, visit, panicked, sent, due, dropped, received,
                  left, closes>>
  OBVIOUS
<1>4. CASE closed
  <2>1. channel' = [channel EXCEPT ![c] = "closed"] /\ UNCHANGED subscribers
    BY <1>4
  <2>2. TypeOK'
    BY <1>3, <2>1 DEF TypeOK
  <2>3. ListedOnce' /\ ListedOpen'
    BY <2>1 DEF TypeOK, ListedOnce, ListedOpen
  <2> QED
    BY <1>2, <2>2, <2>3
<1>5. CASE ~closed
  <2>1. /\ channel' = [channel EXCEPT ![c] = "open"]
        /\ subscribers' = [subscribers EXCEPT ![ty] = subscribers[ty] \cup {c}]
    BY <1>5
  <2>2. TypeOK'
    BY <1>3, <2>1 DEF TypeOK
  <2>3. \A tz \in Types : c \notin subscribers[tz]
    BY DEF ListedOpen
  <2>4. ListedOnce'
    BY <2>1, <2>3 DEF TypeOK, ListedOnce
  <2>5. ListedOpen'
    BY <2>1, <2>3 DEF TypeOK, ListedOpen
  <2> QED
    BY <1>2, <2>2, <2>4, <2>5
<1> QED
  BY <1>4, <1>5

LEMMA UnsubscribeKeeps ==
  ASSUME IInv, NEW c \in Channels, NEW ty \in Types, Unsubscribe(c, ty)
  PROVE  IInv'
<1> USE DEF IInv, Unsubscribe, CloseChannels, historyVars, consumerVars
<1>1. TypeOK'
  BY DEF TypeOK
<1>2. ListedOnce'
  BY DEF TypeOK, ListedOnce
<1>3. ListedOpen'
  BY DEF TypeOK, ListedOnce, ListedOpen
<1>4. VisitedListed'
  <2>1. \A p \in Publishers : visit'[p].todo = {}
    BY DEF WriteLockFree, Idle
  <2> QED
    BY <2>1 DEF VisitedListed
<1>5. NeverPanics'
  BY DEF NeverPanics, ListedOpen
<1> QED
  BY <1>1, <1>2, <1>3, <1>4, <1>5

LEMMA CloseKeeps ==
  ASSUME IInv, Close
  PROVE  IInv'
<1> USE DEF IInv, Close, CloseChannels, historyVars, consumerVars
<1>1. TypeOK'
  BY BusAssumption DEF TypeOK
<1>2. ListedOnce' /\ ListedOpen'
  BY DEF ListedOnce, ListedOpen
<1>3. VisitedListed'
  <2>1. \A p \in Publishers : visit'[p].todo = {}
    BY DEF WriteLockFree, Idle
  <2> QED
    BY <2>1 DEF VisitedListed
<1>4. NeverPanics'
  BY DEF NeverPanics, ListedOpen
<1> QED
  BY <1>1, <1>2, <1>3, <1>4

LEMMA StartPublishKeeps ==
  ASSUME IInv, NEW p \in Publishers, NEW ty \in Types, StartPublish(p, ty)
  PROVE  IInv'
<1> USE DEF IInv, StartPublish, historyVars, consumerVars
<1> DEFINE e == [from |-> p, n |-> sent[p] + 1, type |-> ty]
<1>1. sent[p] + 1 \in 0..MaxEvents /\ e \in Event /\ sent' = [sent EXCEPT ![p] = sent[p] + 1]
  BY NewEvent, BusAssumption
<1>2. sent'[p] = sent[p] + 1
  BY <1>1 DEF TypeOK
<1>3. \/ visit' = visit /\ due' = due
      \/ /\ visit' = [visit EXCEPT ![p] = [event |-> e, todo |-> subscribers[ty]]]
         /\ due' = [c \in Channels |->
                      IF c \in subscribers[ty] THEN due[c] + 1 ELSE due[c]]
  BY <1>2
<1>4. subscribers[ty] \in SUBSET Channels
  BY DEF TypeOK
<1>5. due' \in [Channels -> Nat]
  <2>1. due \in [Channels -> Nat]
    BY DEF TypeOK
  <2>2. [c \in Channels |-> IF c \in subscribers[ty] THEN due[c] + 1 ELSE due[c]]
          \in [Channels -> Nat]
    BY <2>1
  <2> QED
    BY <1>3, <2>1, <2>2
<1> HIDE DEF e
<1>6. visit' \in [Publishers -> {Idle} \cup [event : Event, todo : SUBSET Channels]]
  <2>1. [event |-> e, todo |-> subscribers[ty]] \in [event : Event, todo : SUBSET Channels]
    BY <1>1, <1>4
  <2>2. visit \in [Publishers -> {Idle} \cup [event : Event, todo : SUBSET Channels]]
    BY DEF TypeOK
  <2> HIDE DEF IInv, StartPublish
  <2> DEFINE v == [event |-> e, todo |-> subscribers[ty]]
  <2>3. v \in {Idle} \cup [event : Event, todo : SUBSET Channels]
    BY <2>1
  <2> HIDE DEF v
  <2>4. CASE visit' = visit
    BY <2>2, <2>4
  <2>5. CASE visit' = [visit EXCEPT ![p] = v]
    BY <2>2, <2>3, <2>5
  <2> QED
    BY <1>3, <2>4, <2>5 DEF v
<1>7. sent' \in [Publishers -> 0..MaxEvents]
  BY <1>1 DEF TypeOK
<1>8. TypeOK'
  BY <1>5, <1>6, <1>7 DEF TypeOK
<1>9. VisitedListed'
  <2>1. \A q \in Publishers : visit'[q].todo = visit[q].todo
                              \/ visit'[q].todo = subscribers[ty]
    <3>1. visit \in [Publishers -> {Idle} \cup [event : Event, todo : SUBSET Channels]]
      BY DEF TypeOK
    <3>2. CASE visit' = visit
      BY <3>2
    <3> DEFINE v == [event |-> e, todo |-> subscribers[ty]]
    <3>3. v.todo = subscribers[ty]
      OBVIOUS
    <3> HIDE DEF v
    <3>4. CASE visit' = [visit EXCEPT ![p] = v]
      BY <3>1, <3>3, <3>4
    <3> QED
      BY <1>3, <3>2, <3>4 DEF v
  <2> QED
    BY <2>1 DEF VisitedListed
<1> QED
  BY <1>8, <1>9 DEF ListedOnce, ListedOpen, NeverPanics

LEMMA SendKeeps ==
  ASSUME IInv, NEW p \in Publishers, NEW c \in Channels, Send(p, c)
  PROVE  IInv'
<1> USE DEF IInv, Send, historyVars, consumerVars
<1>1. /\ visit[p] \in [event : Event, todo : SUBSET Channels]
      /\ channel[c] = "open"
  BY Visiting DEF VisitedListed, ListedOpen
<1>2. visit' \in [Publishers -> {Idle} \cup [event : Event, todo : SUBSET Channels]]
  <2> DEFINE v == [event |-> visit[p].event, todo |-> visit[p].todo \ {c}]
  <2>1. v \in [event : Event, todo : SUBSET Channels]
    BY <1>1
  <2>2. visit' = [visit EXCEPT ![p] = v]
    OBVIOUS
  <2> QED
    BY <2>1, <2>2 DEF TypeOK
<1>3. /\ buffer' \in [Channels -> Seq(Event)]
      /\ \A d \in Channels : Len(buffer'[d]) <= BufferSize
  <2>1. visit[p].event \in Event
    BY <1>1
  <2>2. CASE Len(buffer[c]) < BufferSize
    <3>1. buffer' = [buffer EXCEPT ![c] = Append(buffer[c], visit[p].event)]
      BY <1>1, <2>2
    <3>2. buffer[c] \in Seq(Event) /\ Len(buffer[c]) \in Nat /\ BufferSize \in Nat
      BY BusAssumption DEF TypeOK
    <3>3. /\ Append(buffer[c], visit[p].event) \in Seq(Event)
          /\ Len(Append(buffer[c], visit[p].event)) = Len(buffer[c]) + 1
      BY <2>1, <3>2
    <3>4. Len(buffer[c]) + 1 <= BufferSize
      BY <2>2, <3>2
    <3> QED
      BY <3>1, <3>3, <3>4 DEF TypeOK
  <2>3. CASE ~(Len(buffer[c]) < BufferSize)
    BY <2>3 DEF TypeOK
  <2> QED
    BY <2>2, <2>3
<1>4. dropped' \in [Channels -> Nat]
  BY DEF TypeOK
<1>5. TypeOK'
  BY <1>1, <1>2, <1>3, <1>4 DEF TypeOK
<1>6. VisitedListed'
  <2>1. \A q \in Publishers : visit'[q].todo \subseteq visit[q].todo
    BY <1>1 DEF TypeOK
  <2> QED
    BY <2>1 DEF VisitedListed
<1>7. NeverPanics'
  BY <1>1 DEF NeverPanics
<1> QED
  BY <1>5, <1>6, <1>7 DEF ListedOnce, ListedOpen

LEMMA EndPublishKeeps ==
  ASSUME IInv, NEW p \in Publishers, EndPublish(p)
  PROVE  IInv'
<1> USE DEF IInv, EndPublish, historyVars, consumerVars
<1>1. TypeOK'
  BY DEF TypeOK
<1>2. \A q \in Publishers : visit'[q].todo \subseteq visit[q].todo
  BY DEF TypeOK, Idle
<1> QED
  BY <1>1, <1>2 DEF VisitedListed, ListedOnce, ListedOpen, NeverPanics

LEMMA ConsumerKeeps ==
  ASSUME IInv, NEW c \in Channels, Receive(c) \/ Leave(c)
  PROVE  IInv'
<1> USE DEF IInv, historyVars
<1>1. CASE Receive(c)
  <2>1. /\ Head(buffer[c]) \in Event
        /\ Tail(buffer[c]) \in Seq(Event)
        /\ Len(Tail(buffer[c])) <= BufferSize
    <3>1. buffer[c] \in Seq(Event) /\ buffer[c] # <<>> /\ Len(buffer[c]) <= BufferSize
      BY <1>1 DEF Receive, TypeOK
    <3>2. Len(Tail(buffer[c])) = Len(buffer[c]) - 1 /\ Len(buffer[c]) \in Nat
      BY <3>1
    <3>3. BufferSize \in Nat
      BY BusAssumption
    <3> QED
      BY <3>1, <3>2, <3>3
  <2>2. Append(received[c], Head(buffer[c])) \in Seq(Event)
    BY <2>1 DEF TypeOK
  <2>3. TypeOK'
    BY <1>1, <2>1, <2>2 DEF Receive, TypeOK
  <2> QED
    BY <1>1, <2>3 DEF Receive, VisitedListed, ListedOnce, ListedOpen, NeverPanics
<1>2. CASE Leave(c)
  <2>1. TypeOK'
    BY <1>2 DEF Leave, TypeOK
  <2> QED
    BY <1>2, <2>1 DEF Leave, VisitedListed, ListedOnce, ListedOpen, NeverPanics
<1> QED
  BY <1>1, <1>2

----------------------------------------------------------------------------

LEMMA NextKeeps == IInv /\ [Next]_vars => IInv'
<1> SUFFICES ASSUME IInv, [Next]_vars PROVE IInv'
  OBVIOUS
<1>1. CASE UNCHANGED vars
  BY <1>1 DEF vars, historyVars, consumerVars, IInv, TypeOK, ListedOnce,
              ListedOpen, VisitedListed, NeverPanics
<1>2. ASSUME NEW c \in Channels, NEW ty \in Types, Subscribe(c, ty) \/ Unsubscribe(c, ty)
      PROVE IInv'
  BY <1>2, SubscribeKeeps, UnsubscribeKeeps
<1>3. CASE Close
  BY <1>3, CloseKeeps
<1>4. ASSUME NEW p \in Publishers, PublishStep(p) PROVE IInv'
  BY <1>4, EndPublishKeeps, SendKeeps DEF PublishStep
<1>5. ASSUME NEW p \in Publishers, NEW ty \in Types, StartPublish(p, ty) PROVE IInv'
  BY <1>5, StartPublishKeeps
<1>6. ASSUME NEW c \in Channels, Receive(c) \/ Leave(c) PROVE IInv'
  BY <1>6, ConsumerKeeps
<1> QED
  BY <1>1, <1>2, <1>3, <1>4, <1>5, <1>6 DEF Next

LEMMA Invariance == Spec => []IInv
  BY InitHolds, NextKeeps, PTL DEF Spec

\* Every variable of the bus keeps its type, and no buffer outgrows its
\* channel's capacity.
THEOREM TypeCorrect == Spec => []TypeOK
<1>1. IInv => TypeOK
  BY DEF IInv
<1> QED
  BY <1>1, Invariance, PTL

\* Publish, Unsubscribe and Close never meet a closed channel: the read lock
\* keeps what a publisher has left to visit on the lists, and what is on a
\* list is open.
THEOREM PublishNeverPanics == Spec => []NeverPanics
<1>1. IInv => NeverPanics
  BY DEF IInv
<1> QED
  BY <1>1, Invariance, PTL

----------------------------------------------------------------------------
(* InPublishingOrder is not inductive alone: a visit appends an event, and *)
(* that this one is newer than what the subscriber has seen of its         *)
(* publisher, and of the same type, is in the publisher's state.           *)

\* What the consumer of c has taken and what it will find.
Seen(c) == received[c] \o buffer[c]

EventsNumbered ==
  \A p \in Publishers : visit[p] # Idle =>
    visit[p].event.from = p /\ visit[p].event.n = sent[p]

\* A publisher visits the channels that are listed under its event's type.
VisitsItsType ==
  \A p \in Publishers : \A c \in visit[p].todo : c \in subscribers[visit[p].event.type]

UnmadeIsEmpty == \A c \in Channels : channel[c] = "unmade" => Seen(c) = <<>>

\* What is seen was sent, before the event that still has to be brought, and
\* is of the type the channel is listed under.
SeenIsOld ==
  \A c \in Channels : \A i \in 1..Len(Seen(c)) :
    /\ Seen(c)[i].n <= sent[Seen(c)[i].from]
    /\ c \in visit[Seen(c)[i].from].todo => Seen(c)[i].n < sent[Seen(c)[i].from]
    /\ \A ty \in Types : c \in subscribers[ty] => Seen(c)[i].type = ty

Orderly ==
  EventsNumbered /\ VisitsItsType /\ UnmadeIsEmpty /\ SeenIsOld /\ InPublishingOrder

\* The elements of a sequence of events.
LEMMA EventsOfSeq ==
  ASSUME NEW s \in Seq(Event)
  PROVE  /\ Len(s) \in Nat
         /\ \A i \in 1..Len(s) : /\ s[i] \in Event /\ s[i].from \in Publishers
                                 /\ s[i].n \in Int
<1>1. Len(s) \in Nat /\ \A i \in 1..Len(s) : s[i] \in Event
  BY LenProperties, ElementOfSeq
<1>2. \A e \in Event : e.from \in Publishers /\ e.n \in Int
  BY DEF Event
<1> QED BY <1>1, <1>2

\* An event that joins the buffer is seen last.
LEMMA SeenWhenSent ==
  ASSUME NEW s \in Seq(Event), NEW b \in Seq(Event), NEW e \in Event
  PROVE  s \o Append(b, e) = Append(s \o b, e)
<1>1. <<e>> \in Seq(Event)
  OBVIOUS
<1>2. s \o b \in Seq(Event)
  BY ConcatProperties
<1>3. Append(b, e) = b \o <<e>> /\ Append(s \o b, e) = (s \o b) \o <<e>>
  BY <1>2, AppendIsConcat
<1>4. (s \o b) \o <<e>> = s \o (b \o <<e>>)
  BY <1>1, ConcatAssociative
<1> QED BY <1>3, <1>4

\* Taking an event from the buffer does not change what is seen.
LEMMA SeenWhenReceived ==
  ASSUME NEW s \in Seq(Event), NEW b \in Seq(Event), b # <<>>
  PROVE  Append(s, Head(b)) \o Tail(b) = s \o b
<1> DEFINE h == Head(b)
           t == Tail(b)
<1>1. /\ h \in Event /\ t \in Seq(Event) /\ Len(t) = Len(b) - 1
      /\ \A i \in 1..Len(t) : t[i] = b[i + 1]
      /\ Len(b) \in Nat /\ Len(b) # 0 /\ h = b[1]
  <2>1. Len(b) \in Nat /\ Len(b) # 0
    BY LenProperties, EmptySeq
  <2>2. h = b[1]
    BY <2>1
  <2>3. /\ h \in Event /\ t \in Seq(Event) /\ Len(t) = Len(b) - 1
        /\ \A i \in 1..Len(t) : t[i] = b[i + 1]
    BY HeadTailProperties
  <2> QED BY <2>1, <2>2, <2>3
<1> HIDE DEF h, t
<1> DEFINE g == <<h>>
<1>2. g \in Seq(Event) /\ Len(g) = 1 /\ g[1] = h
  BY <1>1
<1> HIDE DEF g
<1>3. /\ g \o t \in Seq(Event) /\ Len(g \o t) = Len(g) + Len(t)
      /\ \A i \in 1..(Len(g) + Len(t)) :
           (g \o t)[i] = IF i <= Len(g) THEN g[i] ELSE t[i - Len(g)]
  <2>1. g \in Seq(Event) /\ t \in Seq(Event)
    BY <1>1, <1>2
  <2> QED BY <2>1, ConcatProperties, ZenonT(30)
<1>4. g \o t = b
  <2> DEFINE u == g \o t
  <2>1. u \in Seq(Event) /\ Len(u) = Len(b)
    BY <1>1, <1>2, <1>3
  <2>2. \A i \in 1..Len(u) : u[i] = b[i]
    <3> SUFFICES ASSUME NEW i \in 1..Len(u) PROVE u[i] = b[i]
      OBVIOUS
    <3>1. u[i] = IF i <= 1 THEN g[1] ELSE t[i - 1]
      BY <1>1, <1>2, <1>3, <2>1
    <3>2. CASE i = 1
      BY <1>1, <1>2, <3>1, <3>2
    <3>3. CASE i # 1
      <4>1. i - 1 \in 1..Len(t) /\ (i - 1) + 1 = i /\ ~(i <= 1)
        BY <1>1, <2>1, <3>3
      <4> QED BY <1>1, <3>1, <4>1
    <3> QED BY <3>2, <3>3
  <2> HIDE DEF u
  <2>3. u = b
    BY <2>1, <2>2, SeqEqual
  <2> QED BY <2>3 DEF u
<1>5. Append(s, h) = s \o g /\ (s \o g) \o t = s \o (g \o t)
  BY <1>1, <1>2, AppendIsConcat, ConcatAssociative DEF g
<1> QED BY <1>4, <1>5 DEF h, t

\* One consumer's view is in order.
InOrder(s) ==
  \A i, j \in 1..Len(s) :
    /\ s[i].type = s[j].type
    /\ (i < j /\ s[i].from = s[j].from) => s[i].n < s[j].n

\* InPublishingOrder, said of what each channel has seen.
LEMMA OrderOfViews ==
  /\ InPublishingOrder <=> \A c \in Channels : InOrder(Seen(c))
  /\ InPublishingOrder' <=> \A c \in Channels : InOrder(received'[c] \o buffer'[c])
BY DEF InPublishingOrder, InOrder, Seen

\* What is seen of a channel is a sequence of events.
LEMMA SeenEvents ==
  ASSUME TypeOK
  PROVE  \A c \in Channels : /\ Seen(c) \in Seq(Event) /\ Len(Seen(c)) \in Nat
                             /\ received[c] \in Seq(Event) /\ buffer[c] \in Seq(Event)
<1> SUFFICES ASSUME NEW c \in Channels
             PROVE  /\ Seen(c) \in Seq(Event) /\ Len(Seen(c)) \in Nat
                    /\ received[c] \in Seq(Event) /\ buffer[c] \in Seq(Event)
  OBVIOUS
<1>1. received[c] \in Seq(Event) /\ buffer[c] \in Seq(Event)
  BY DEF TypeOK
<1> QED BY <1>1, ConcatProperties, LenProperties DEF Seen

\* Nothing has been seen yet.
LEMMA InitOrderly == Init => Orderly
<1> SUFFICES ASSUME Init PROVE Orderly
  OBVIOUS
<1>1. \A c \in Channels : Seen(c) = <<>> /\ Len(Seen(c)) = 0
  <2> SUFFICES ASSUME NEW c \in Channels PROVE Seen(c) = <<>> /\ Len(Seen(c)) = 0
    OBVIOUS
  <2>1. Seen(c) = <<>> \o <<>>
    BY DEF Init, Seen
  <2>2. <<>> \o <<>> = <<>>
    <3>1. <<>> \in Seq(Event)
      OBVIOUS
    <3> QED BY <3>1, ConcatEmptySeq, Zenon
  <2> QED BY <2>1, <2>2
<1>2. UnmadeIsEmpty /\ SeenIsOld
  BY <1>1 DEF UnmadeIsEmpty, SeenIsOld
<1>3. InPublishingOrder
  BY <1>1, OrderOfViews DEF InOrder
<1>4. EventsNumbered /\ VisitsItsType
  BY DEF Init, EventsNumbered, VisitsItsType, Idle
<1> QED BY <1>2, <1>3, <1>4 DEF Orderly

\* A step after which every channel has seen what it had seen before.
LEMMA UnseenStepOrderly ==
  ASSUME IInv, Orderly, EventsNumbered', VisitsItsType', sent' \in [Publishers -> Int],
         \A c \in Channels : received'[c] \o buffer'[c] = Seen(c),
         \A c \in Channels : channel'[c] = "unmade" => channel[c] = "unmade",
         \A p \in Publishers :
           /\ sent[p] <= sent'[p]
           /\ \A c \in visit'[p].todo : c \in visit[p].todo \/ sent[p] < sent'[p],
         \A c \in Channels, ty \in Types :
           c \in subscribers'[ty] => c \in subscribers[ty] \/ channel[c] = "unmade"
  PROVE  Orderly'
<1>1. UnmadeIsEmpty'
  BY DEF Orderly, UnmadeIsEmpty, Seen
<1>2. InPublishingOrder'
  BY OrderOfViews DEF Orderly
<1>3. SeenIsOld'
  <2> SUFFICES ASSUME NEW c \in Channels, NEW i \in 1..Len(Seen(c))
               PROVE  /\ Seen(c)[i].n <= sent'[Seen(c)[i].from]
                      /\ c \in visit'[Seen(c)[i].from].todo
                           => Seen(c)[i].n < sent'[Seen(c)[i].from]
                      /\ \A ty \in Types : c \in subscribers'[ty] => Seen(c)[i].type = ty
    BY DEF SeenIsOld, Seen
  <2> DEFINE e == Seen(c)[i]
  <2>1. e.from \in Publishers /\ e.n \in Int /\ Seen(c) # <<>>
    <3>1. Seen(c) \in Seq(Event)
      BY SeenEvents DEF IInv
    <3> QED BY <3>1, EventsOfSeq
  <2>2. /\ e.n <= sent[e.from] /\ (c \in visit[e.from].todo => e.n < sent[e.from])
        /\ \A ty \in Types : c \in subscribers[ty] => e.type = ty
    BY DEF Orderly, SeenIsOld
  <2>3. channel[c] # "unmade"
    BY <2>1 DEF Orderly, UnmadeIsEmpty
  <2> HIDE DEF e
  <2>4. sent[e.from] \in Int /\ sent'[e.from] \in Int /\ sent[e.from] <= sent'[e.from]
    BY <2>1 DEF IInv, TypeOK
  <2>5. e.n <= sent'[e.from] /\ (c \in visit'[e.from].todo => e.n < sent'[e.from])
    BY <2>1, <2>2, <2>4
  <2> QED BY <2>2, <2>3, <2>5 DEF e
<1> QED BY <1>1, <1>2, <1>3 DEF Orderly

\* Close, Subscribe and Unsubscribe run while nobody publishes.
LEMMA ListStepOrderly ==
  ASSUME IInv, Orderly,
         \/ Close
         \/ \E c \in Channels, ty \in Types : Subscribe(c, ty) \/ Unsubscribe(c, ty)
  PROVE  Orderly'
<1>1. /\ UNCHANGED <<visit, sent, received, buffer>> /\ WriteLockFree
      /\ \A c \in Channels, ty \in Types :
           c \in subscribers'[ty] => c \in subscribers[ty] \/ channel[c] = "unmade"
      /\ \A c \in Channels : channel'[c] = "unmade" => channel[c] = "unmade"
  <2>1. CASE Close
    BY <2>1 DEF Close, CloseChannels, historyVars, consumerVars
  <2>2. ASSUME NEW d \in Channels, NEW tz \in Types, Subscribe(d, tz)
        PROVE  <1>1!:
    <3>1. /\ UNCHANGED <<visit, sent, received, buffer>> /\ WriteLockFree
          /\ channel[d] = "unmade"
          /\ \/ channel' = [channel EXCEPT ![d] = "closed"]
             \/ channel' = [channel EXCEPT ![d] = "open"]
          /\ \/ subscribers' = subscribers
             \/ subscribers' = [subscribers EXCEPT ![tz] = subscribers[tz] \cup {d}]
      BY <2>2 DEF Subscribe, historyVars, consumerVars
    <3>2. \A c \in Channels, ty \in Types :
            c \in subscribers'[ty] => c \in subscribers[ty] \/ channel[c] = "unmade"
      <4>1. subscribers \in [Types -> SUBSET Channels]
        BY DEF IInv, TypeOK
      <4>2. CASE subscribers' = [subscribers EXCEPT ![tz] = subscribers[tz] \cup {d}]
        <5>1. \A ty \in Types : subscribers'[ty] \subseteq subscribers[ty] \cup {d}
          BY <4>1, <4>2
        <5> QED BY <3>1, <5>1
      <4> QED BY <3>1, <4>2
    <3>3. \A c \in Channels : channel'[c] = "unmade" => channel[c] = "unmade"
      BY <3>1 DEF IInv, TypeOK
    <3> QED BY <3>1, <3>2, <3>3
  <2>3. ASSUME NEW d \in Channels, NEW tz \in Types, Unsubscribe(d, tz)
        PROVE  <1>1!:
    BY <2>3 DEF Unsubscribe, CloseChannels, historyVars, consumerVars, IInv, TypeOK
  <2> QED BY <2>1, <2>2, <2>3
<1>2. EventsNumbered' /\ VisitsItsType'
  BY <1>1 DEF Orderly, EventsNumbered, VisitsItsType, WriteLockFree, Idle
<1>3. \A p \in Publishers : sent[p] \in Int
  BY DEF IInv, TypeOK
<1>4. sent' \in [Publishers -> Int]
  BY <1>1 DEF IInv, TypeOK
<1>5. \A c \in Channels : received'[c] \o buffer'[c] = Seen(c)
  BY <1>1 DEF Seen
<1>6. \A p \in Publishers :
           /\ sent[p] <= sent'[p]
           /\ \A c \in visit'[p].todo : c \in visit[p].todo \/ sent[p] < sent'[p]
  BY <1>1, <1>3
<1> QED BY <1>1, <1>2, <1>4, <1>5, <1>6, UnseenStepOrderly

\* A publisher that starts has the newest event.
LEMMA StartPublishOrderly ==
  ASSUME IInv, Orderly, NEW p \in Publishers, NEW ty \in Types, StartPublish(p, ty)
  PROVE  Orderly'
<1> DEFINE v == [event |-> [from |-> p, n |-> sent[p] + 1, type |-> ty],
                 todo |-> subscribers[ty]]
<1>1. /\ sent' = [sent EXCEPT ![p] = sent[p] + 1]
      /\ UNCHANGED <<subscribers, channel, received, buffer>>
      /\ visit[p] = Idle
      /\ visit' = visit \/ visit' = [visit EXCEPT ![p] = v]
  <2>1. sent' = [sent EXCEPT ![p] = sent[p] + 1] /\ sent'[p] = sent[p] + 1
    BY DEF StartPublish, IInv, TypeOK
  <2> QED BY <2>1 DEF StartPublish, consumerVars
<1>2. /\ sent' \in [Publishers -> Int] /\ sent'[p] = sent[p] + 1
      /\ \A q \in Publishers : /\ sent[q] \in Int
                               /\ sent'[q] = IF q = p THEN sent[q] + 1 ELSE sent[q]
      /\ sent[p] < sent'[p]
  BY <1>1 DEF IInv, TypeOK
<1>3. /\ v.event.from = p /\ v.event.n = sent[p] + 1 /\ v.event.type = ty
      /\ v.todo = subscribers[ty]
  OBVIOUS
<1>4. Idle.todo = {} /\ v # Idle
  BY DEF Idle
<1> HIDE DEF v
<1>5. \A q \in Publishers : \/ q # p /\ visit'[q] = visit[q]
                            \/ q = p /\ visit'[q] \in {Idle, v}
  BY <1>1 DEF IInv, TypeOK
<1>6. EventsNumbered'
  BY <1>2, <1>3, <1>5 DEF Orderly, EventsNumbered
<1>7. VisitsItsType'
  BY <1>1, <1>3, <1>4, <1>5 DEF Orderly, VisitsItsType
<1>8. \A q \in Publishers :
           /\ sent[q] <= sent'[q]
           /\ \A c \in visit'[q].todo : c \in visit[q].todo \/ sent[q] < sent'[q]
  BY <1>2, <1>5
<1>9. \A c \in Channels : received'[c] \o buffer'[c] = Seen(c)
  BY <1>1 DEF Seen
<1> QED BY <1>1, <1>2, <1>6, <1>7, <1>8, <1>9, UnseenStepOrderly

\* The end of a publication and the consumers bring nothing new.
LEMMA QuietStepOrderly ==
  ASSUME IInv, Orderly,
         \/ \E p \in Publishers : EndPublish(p)
         \/ \E c \in Channels : Receive(c) \/ Leave(c)
  PROVE  Orderly'
<1>1. /\ UNCHANGED <<subscribers, channel, sent>>
      /\ \A p \in Publishers : visit'[p] = visit[p] \/ visit'[p] = Idle
  <2>1. ASSUME NEW p \in Publishers, EndPublish(p) PROVE <1>1!:
    BY <2>1 DEF EndPublish, historyVars, IInv, TypeOK
  <2>2. ASSUME NEW c \in Channels, Receive(c) \/ Leave(c) PROVE <1>1!:
    BY <2>2 DEF Receive, Leave, historyVars
  <2> QED BY <2>1, <2>2
<1>2. \A d \in Channels : received'[d] \o buffer'[d] = Seen(d)
  <2>1. CASE UNCHANGED <<received, buffer>>
    BY <2>1 DEF Seen
  <2>2. ASSUME NEW c \in Channels, Receive(c), NEW d \in Channels
        PROVE  received'[d] \o buffer'[d] = Seen(d)
    <3>1. /\ received \in [Channels -> Seq(Event)] /\ buffer \in [Channels -> Seq(Event)]
          /\ buffer[c] # <<>>
          /\ received' = [received EXCEPT ![c] = Append(received[c], Head(buffer[c]))]
          /\ buffer' = [buffer EXCEPT ![c] = Tail(buffer[c])]
      BY <2>2 DEF Receive, IInv, TypeOK
    <3>2. CASE d # c
      BY <3>1, <3>2 DEF Seen
    <3>3. CASE d = c
      <4> DEFINE s == received[c]
                 b == buffer[c]
      <4>1. s \in Seq(Event) /\ b \in Seq(Event) /\ b # <<>>
        BY <3>1
      <4>2. received'[c] = Append(s, Head(b)) /\ buffer'[c] = Tail(b)
        BY <3>1
      <4>3. Seen(c) = s \o b
        BY DEF Seen
      <4> HIDE DEF s, b
      <4>4. Append(s, Head(b)) \o Tail(b) = s \o b
        BY <4>1, SeenWhenReceived
      <4> QED BY <3>3, <4>2, <4>3, <4>4
    <3> QED BY <3>2, <3>3
  <2>3. UNCHANGED <<received, buffer>> \/ \E c \in Channels : Receive(c)
    BY DEF EndPublish, Leave, consumerVars
  <2> QED BY <2>1, <2>2, <2>3
<1>3. Idle.todo = {}
  BY DEF Idle
<1>4. \A p \in Publishers : visit'[p] = Idle \/ visit'[p] = visit[p]
  BY <1>1
<1>5. EventsNumbered' /\ VisitsItsType'
  BY <1>1, <1>3 DEF Orderly, EventsNumbered, VisitsItsType
<1>6. sent' \in [Publishers -> Int] /\ \A p \in Publishers : sent[p] \in Int
  BY <1>1 DEF IInv, TypeOK
<1>7. \A p \in Publishers :
           /\ sent[p] <= sent'[p]
           /\ \A c \in visit'[p].todo : c \in visit[p].todo \/ sent[p] < sent'[p]
  BY <1>1, <1>3, <1>6
<1> QED BY <1>1, <1>2, <1>5, <1>6, <1>7, UnseenStepOrderly

\* A visit brings c an event that is newer than all it has seen of p.
LEMMA SendOrderly ==
  ASSUME IInv, Orderly, NEW p \in Publishers, NEW c \in Channels, Send(p, c)
  PROVE  Orderly'
<1> DEFINE e == visit[p].event
           w == [event |-> e, todo |-> visit[p].todo \ {c}]
<1>1. /\ visit' = [visit EXCEPT ![p] = w]
      /\ UNCHANGED <<subscribers, channel, sent, received>>
      /\ \/ buffer' = [buffer EXCEPT ![c] = Append(buffer[c], e)]
         \/ buffer' = buffer
      /\ c \in visit[p].todo
  BY DEF Send, consumerVars
<1>2. /\ visit[p] \in [event : Event, todo : SUBSET Channels] /\ visit[p] # Idle
      /\ e \in Event
  <2>1. visit[p] \in [event : Event, todo : SUBSET Channels] /\ visit[p] # Idle
    BY <1>1, Visiting DEF IInv
  <2> QED BY <2>1
<1>3. /\ e.from = p /\ e.n = sent[p] /\ c \in subscribers[e.type] /\ e.type \in Types
      /\ channel[c] = "open"
  <2>1. e.from = p /\ e.n = sent[p] /\ c \in subscribers[e.type]
    BY <1>1, <1>2 DEF Orderly, EventsNumbered, VisitsItsType
  <2>2. e.type \in Types
    BY <1>2 DEF Event
  <2> QED BY <2>1, <2>2 DEF IInv, ListedOpen
<1>4. w.event = e /\ w.todo = visit[p].todo \ {c}
  OBVIOUS
<1> HIDE DEF w
<1>5. \A q \in Publishers :
        /\ visit'[q].todo = IF q = p THEN visit[p].todo \ {c} ELSE visit[q].todo
        /\ visit'[q] # Idle => visit[q] # Idle /\ visit'[q].event = visit[q].event
        /\ visit'[q].todo # {} => visit'[q].event = visit[q].event
  <2> SUFFICES ASSUME NEW q \in Publishers PROVE <1>5!(q)
    OBVIOUS
  <2>1. visit'[q] = IF q = p THEN w ELSE visit[q]
    BY <1>1 DEF IInv, TypeOK
  <2> QED BY <1>2, <1>4, <2>1 DEF e
<1>6. EventsNumbered'
  BY <1>1, <1>5 DEF Orderly, EventsNumbered
<1>7. VisitsItsType'
  BY <1>1, <1>5 DEF Orderly, VisitsItsType
<1> HIDE DEF e
<1>8. \A d \in Channels : /\ Seen(d) \in Seq(Event) /\ Len(Seen(d)) \in Nat
                          /\ received[d] \in Seq(Event) /\ buffer[d] \in Seq(Event)
  BY SeenEvents DEF IInv
<1>9. \A d \in Channels : \/ received'[d] \o buffer'[d] = Seen(d)
                          \/ d = c /\ received'[d] \o buffer'[d] = Append(Seen(d), e)
  <2> SUFFICES ASSUME NEW d \in Channels PROVE <1>9!(d)
    OBVIOUS
  <2>1. CASE buffer'[d] = buffer[d]
    BY <1>1, <2>1 DEF Seen
  <2>2. CASE buffer'[d] # buffer[d]
    <3>1. d = c /\ buffer'[d] = Append(buffer[d], e)
      BY <1>1, <2>2 DEF IInv, TypeOK
    <3>2. received[d] \o Append(buffer[d], e) = Append(received[d] \o buffer[d], e)
      <4> DEFINE s == received[d]
                 b == buffer[d]
      <4>1. s \in Seq(Event) /\ b \in Seq(Event)
        BY <1>8
      <4> HIDE DEF s, b
      <4>2. s \o Append(b, e) = Append(s \o b, e)
        BY <1>2, <4>1, SeenWhenSent
      <4> QED BY <4>2 DEF s, b
    <3> QED BY <1>1, <3>1, <3>2 DEF Seen
  <2> QED BY <2>1, <2>2
<1>10. UnmadeIsEmpty'
  BY <1>1, <1>3, <1>9 DEF Orderly, UnmadeIsEmpty, Seen
<1> DEFINE s == Seen(c)
           t == Append(Seen(c), e)
<1>11. /\ t \in Seq(Event) /\ Len(t) = Len(s) + 1 /\ Len(s) \in Nat
       /\ \A i \in 1..Len(s) : t[i] = s[i]
       /\ t[Len(s) + 1] = e
  BY <1>2, <1>8, AppendProperties
<1>12. \A i \in 1..Len(s) : /\ s[i].from \in Publishers /\ s[i].n \in Int
                            /\ s[i].n <= sent[s[i].from]
                            /\ s[i].from = p => s[i].n < sent[p]
                            /\ \A ty \in Types : c \in subscribers[ty] => s[i].type = ty
  <2>1. \A i \in 1..Len(s) : s[i].from \in Publishers /\ s[i].n \in Int
    BY <1>8, EventsOfSeq
  <2> QED BY <1>1, <2>1 DEF Orderly, SeenIsOld
<1>13. \A q \in Publishers : sent[q] \in Int
  BY DEF IInv, TypeOK
<1> HIDE DEF s, t
<1>14. \A i \in 1..Len(t) : \/ i \in 1..Len(s) /\ t[i] = s[i]
                            \/ i = Len(s) + 1 /\ t[i] = e
  BY <1>11
<1>15. InOrder(s) => InOrder(t)
  <2> SUFFICES ASSUME InOrder(s), NEW i \in 1..Len(t), NEW j \in 1..Len(t)
               PROVE  /\ t[i].type = t[j].type
                      /\ (i < j /\ t[i].from = t[j].from) => t[i].n < t[j].n
    BY DEF InOrder
  <2>1. CASE i \in 1..Len(s) /\ j \in 1..Len(s)
    BY <1>11, <2>1 DEF InOrder
  <2>2. CASE i \in 1..Len(s) /\ j = Len(s) + 1
    BY <1>3, <1>11, <1>12, <2>2
  <2>3. CASE i = Len(s) + 1 /\ j \in 1..Len(s)
    BY <1>3, <1>11, <1>12, <2>3
  <2>4. CASE i = Len(s) + 1 /\ j = Len(s) + 1
    BY <2>4
  <2> QED BY <1>14, <2>1, <2>2, <2>3, <2>4
<1>16. InPublishingOrder'
  <2>1. \A d \in Channels : InOrder(Seen(d))
    BY OrderOfViews DEF Orderly
  <2>2. InOrder(Append(Seen(c), e))
    BY <1>15, <2>1 DEF s, t
  <2>3. \A d \in Channels : InOrder(received'[d] \o buffer'[d])
    BY <1>9, <2>1, <2>2
  <2> QED BY <2>3, OrderOfViews
<1>17. ASSUME NEW d \in Channels, NEW i \in 1..Len(Seen(d)')
       PROVE  /\ Seen(d)'[i].n <= sent'[Seen(d)'[i].from]
              /\ d \in visit'[Seen(d)'[i].from].todo
                   => Seen(d)'[i].n < sent'[Seen(d)'[i].from]
              /\ \A ty \in Types : d \in subscribers'[ty] => Seen(d)'[i].type = ty
  <2>1. CASE Seen(d)' = Seen(d)
    <3>1. i \in 1..Len(Seen(d)) /\ Seen(d)[i].from \in Publishers
      BY <1>8, <1>17, <2>1, EventsOfSeq
    <3> DEFINE f == Seen(d)[i]
    <3>2. /\ f.n <= sent[f.from] /\ (d \in visit[f.from].todo => f.n < sent[f.from])
          /\ \A ty \in Types : d \in subscribers[ty] => f.type = ty
      BY <3>1 DEF Orderly, SeenIsOld
    <3>3. d \in visit'[f.from].todo => d \in visit[f.from].todo
      BY <1>5, <3>1
    <3>4. Seen(d)'[i] = f
      BY <2>1
    <3> HIDE DEF f
    <3> QED BY <1>1, <3>2, <3>3, <3>4
  <2>2. CASE d = c /\ Seen(d)' = Append(Seen(d), e)
    <3>1. Seen(d)' = t /\ i \in 1..Len(t)
      BY <1>17, <2>2 DEF t
    <3>2. c \notin visit'[p].todo
      BY <1>5
    <3>3. CASE t[i] = e
      <4>1. e.n <= sent[e.from] /\ c \notin visit'[e.from].todo
        BY <1>3, <1>13, <3>2
      <4>2. \A ty \in Types : c \in subscribers[ty] => e.type = ty
        BY <1>3 DEF IInv, ListedOnce
      <4> QED BY <1>1, <2>2, <3>1, <3>3, <4>1, <4>2
    <3>4. CASE i \in 1..Len(s) /\ t[i] = s[i]
      <4> DEFINE f == s[i]
      <4>1. /\ f.n <= sent[f.from] /\ f.from \in Publishers
            /\ \A ty \in Types : c \in subscribers[ty] => f.type = ty
        BY <1>12, <3>4
      <4>2. c \in visit'[f.from].todo => f.n < sent[f.from]
        <5>1. c \in visit[f.from].todo => f.n < sent[f.from]
          BY <3>4 DEF Orderly, SeenIsOld, s
        <5> QED BY <1>5, <4>1, <5>1
      <4>3. Seen(d)'[i] = f
        BY <3>1, <3>4
      <4> HIDE DEF f
      <4> QED BY <1>1, <2>2, <4>1, <4>2, <4>3
    <3> QED BY <1>14, <3>1, <3>3, <3>4
  <2>3. Seen(d)' = Seen(d) \/ (d = c /\ Seen(d)' = Append(Seen(d), e))
    BY <1>9 DEF Seen
  <2> QED BY <2>1, <2>2, <2>3
<1>18. SeenIsOld'
  BY <1>17 DEF SeenIsOld
<1> QED BY <1>6, <1>7, <1>10, <1>16, <1>18 DEF Orderly

\* Every step keeps the order of what is seen.
LEMMA NextOrderly ==
  ASSUME IInv, Orderly, [Next]_vars
  PROVE  Orderly'
<1>1. CASE UNCHANGED vars
  <2>1. UNCHANGED <<subscribers, channel, buffer, visit, sent, received>>
    BY <1>1 DEF vars, historyVars, consumerVars
  <2>2. EventsNumbered' /\ VisitsItsType' /\ UnmadeIsEmpty'
    BY <2>1 DEF Orderly, EventsNumbered, VisitsItsType, UnmadeIsEmpty, Seen
  <2>4. SeenIsOld'
    <3>1. \A c \in Channels : Seen(c)' = Seen(c)
      BY <2>1 DEF Seen
    <3> QED BY <2>1, <3>1, Zenon DEF Orderly, SeenIsOld
  <2>3. InPublishingOrder'
    BY <2>1, OrderOfViews DEF Orderly, Seen
  <2> QED BY <2>2, <2>3, <2>4 DEF Orderly
<1>2. CASE Next
  BY <1>2, ListStepOrderly, StartPublishOrderly, QuietStepOrderly, SendOrderly
     DEF Next, PublishStep
<1> QED BY <1>1, <1>2

----------------------------------------------------------------------------
(* The events published while a channel was listed.                        *)

\* The publishers that have still to visit c.
Coming(c) == {p \in Publishers : c \in visit[p].todo}

Accounted ==
  /\ \A c \in Channels : IsFiniteSet(Coming(c))
  /\ EveryEventAccounted

\* Nothing is due yet and nobody is on the way.
LEMMA InitAccounted == Init => Accounted
<1> SUFFICES ASSUME Init PROVE Accounted
  OBVIOUS
<1>1. \A c \in Channels : Coming(c) = {}
  BY DEF Init, Coming, Idle
<1>2. \A c \in Channels : due[c] = 0 /\ dropped[c] = 0 /\ Len(received[c]) = 0
                          /\ Len(buffer[c]) = 0
  BY DEF Init
<1>3. \A c \in Channels : IsFiniteSet(Coming(c))
  BY <1>1, FS_EmptySet, Zenon
<1>5. \A c \in Channels : Cardinality(Coming(c)) = 0
  BY <1>1, FS_EmptySet, Zenon
<1> SUFFICES ASSUME NEW c \in Channels
             PROVE  /\ IsFiniteSet(Coming(c))
                    /\ due[c] = Len(received[c]) + Len(buffer[c]) + dropped[c]
                                  + Cardinality(Coming(c))
  BY DEF Accounted, EveryEventAccounted, Coming
<1>4. due[c] = Len(received[c]) + Len(buffer[c]) + dropped[c] + Cardinality(Coming(c))
  <2>1. /\ due[c] = 0 /\ dropped[c] = 0 /\ Len(received[c]) = 0
        /\ Len(buffer[c]) = 0 /\ Cardinality(Coming(c)) = 0
    BY <1>2, <1>5, Zenon
  <2> QED BY <2>1
<1> QED BY <1>3, <1>4

\* One channel's account is kept by a step that leaves its publishers alone.
LEMMA SameComing ==
  ASSUME Accounted, NEW c \in Channels,
         \A p \in Publishers : c \in visit'[p].todo <=> c \in visit[p].todo
  PROVE  Coming(c)' = Coming(c) /\ IsFiniteSet(Coming(c)')
BY DEF Coming, Accounted

\* The numbers the accounts add up.
LEMMA CountsAreNumbers ==
  ASSUME TypeOK, Accounted
  PROVE  \A c \in Channels :
           /\ due[c] \in Nat /\ dropped[c] \in Nat
           /\ Len(received[c]) \in Nat /\ Len(buffer[c]) \in Nat
           /\ Cardinality(Coming(c)) \in Nat
           /\ due[c] = Len(received[c]) + Len(buffer[c]) + dropped[c]
                         + Cardinality(Coming(c))
<1>1. \A c \in Channels : Cardinality(Coming(c)) \in Nat
  BY FS_CardinalityType DEF Accounted
<1>2. \A c \in Channels : Len(received[c]) \in Nat /\ Len(buffer[c]) \in Nat
  BY SeenEvents, EventsOfSeq
<1> QED BY <1>1, <1>2 DEF TypeOK, Accounted, EveryEventAccounted, Coming

\* A step that publishes nothing and visits nobody.
LEMMA QuietStepAccounted ==
  ASSUME IInv, Accounted,
         \/ Close
         \/ \E c \in Channels, ty \in Types : Subscribe(c, ty) \/ Unsubscribe(c, ty)
         \/ \E p \in Publishers : EndPublish(p)
         \/ \E c \in Channels : Receive(c) \/ Leave(c)
         \/ UNCHANGED vars
  PROVE  Accounted'
<1>1. /\ UNCHANGED <<due, dropped>>
      /\ \A p \in Publishers : visit'[p].todo = visit[p].todo
  <2>1. ASSUME NEW p \in Publishers, EndPublish(p) PROVE <1>1!:
    <3>1. visit' = [visit EXCEPT ![p] = Idle] /\ visit[p].todo = {} /\ Idle.todo = {}
      BY <2>1 DEF EndPublish, Idle
    <3>2. \A q \in Publishers : visit'[q].todo = visit[q].todo
      <4> HIDE DEF Idle
      <4> QED BY <3>1 DEF IInv, TypeOK
    <3> QED BY <2>1, <3>2 DEF EndPublish, historyVars
  <2> QED BY <2>1 DEF Close, Subscribe, Unsubscribe, Receive, Leave, vars, historyVars
<1>2. ASSUME NEW d \in Channels
      PROVE  Len(received'[d]) + Len(buffer'[d]) = Len(received[d]) + Len(buffer[d])
  <2>1. CASE UNCHANGED <<received, buffer>>
    BY <2>1
  <2>2. ASSUME NEW c \in Channels, Receive(c)
        PROVE  Len(received'[d]) + Len(buffer'[d]) = Len(received[d]) + Len(buffer[d])
    <3>1. /\ received \in [Channels -> Seq(Event)] /\ buffer \in [Channels -> Seq(Event)]
          /\ buffer[c] # <<>>
          /\ received' = [received EXCEPT ![c] = Append(received[c], Head(buffer[c]))]
          /\ buffer' = [buffer EXCEPT ![c] = Tail(buffer[c])]
      BY <2>2 DEF Receive, IInv, TypeOK
    <3>2. CASE d # c
      BY <3>1, <3>2
    <3>3. CASE d = c
      <4>1. received[c] \in Seq(Event) /\ buffer[c] \in Seq(Event)
        BY <3>1
      <4>2. /\ Len(Tail(buffer[c])) = Len(buffer[c]) - 1 /\ Head(buffer[c]) \in Event
            /\ Len(buffer[c]) \in Nat /\ Len(received[c]) \in Nat
        BY <3>1, <4>1, HeadTailProperties, LenProperties
      <4>3. Len(Append(received[c], Head(buffer[c]))) = Len(received[c]) + 1
        BY <4>1, <4>2, AppendProperties
      <4> QED BY <3>1, <3>3, <4>2, <4>3
    <3> QED BY <3>2, <3>3
  <2>3. UNCHANGED <<received, buffer>> \/ \E c \in Channels : Receive(c)
    BY DEF Close, Subscribe, Unsubscribe, EndPublish, Leave, vars, consumerVars
  <2> QED BY <2>1, <2>2, <2>3
<1>3. \A c \in Channels : Coming(c)' = Coming(c) /\ IsFiniteSet(Coming(c)')
  BY <1>1, SameComing
<1>4. TypeOK /\ TypeOK'
  BY NextKeeps DEF IInv, Next, PublishStep
<1>5. \A c \in Channels : Len(received'[c]) \in Nat /\ Len(buffer'[c]) \in Nat
  BY <1>4, LenProperties DEF TypeOK
<1>6. EveryEventAccounted'
  <2> SUFFICES ASSUME NEW c \in Channels
               PROVE  due'[c] = Len(received'[c]) + Len(buffer'[c]) + dropped'[c]
                                  + Cardinality(Coming(c)')
    BY DEF EveryEventAccounted, Coming
  <2> QED BY <1>1, <1>2, <1>3, <1>4, <1>5, CountsAreNumbers
<1> QED BY <1>3, <1>6 DEF Accounted

\* A publication is due to every channel on its list, and comes to each.
LEMMA StartPublishAccounted ==
  ASSUME IInv, Accounted, NEW p \in Publishers, NEW ty \in Types, StartPublish(p, ty)
  PROVE  Accounted'
<1> SUFFICES ASSUME NEW c \in Channels
             PROVE  /\ IsFiniteSet(Coming(c)')
                    /\ due'[c] = Len(received'[c]) + Len(buffer'[c]) + dropped'[c]
                                  + Cardinality(Coming(c)')
  BY DEF Accounted, EveryEventAccounted, Coming
<1> DEFINE v == [event |-> [from |-> p, n |-> sent'[p], type |-> ty],
                 todo |-> subscribers[ty]]
<1>1. UNCHANGED <<received, buffer, dropped>> /\ visit[p] = Idle /\ Idle.todo = {}
  BY DEF StartPublish, consumerVars, Idle
<1>2. p \notin Coming(c) /\ IsFiniteSet(Coming(c))
  BY <1>1 DEF Coming, Accounted
<1>3. v.todo = subscribers[ty]
  OBVIOUS
<1>4. \/ UNCHANGED <<visit, due>>
      \/ /\ visit' = [visit EXCEPT ![p] = v]
         /\ due' = [d \in Channels |->
                      IF d \in subscribers[ty] THEN due[d] + 1 ELSE due[d]]
  BY DEF StartPublish
<1> HIDE DEF v
<1>5. CASE UNCHANGED <<visit, due>>
  <2>1. Coming(c)' = Coming(c)
    BY <1>5 DEF Coming
  <2> QED BY <1>1, <1>2, <1>5, <2>1, CountsAreNumbers DEF IInv
<1>6. CASE /\ visit' = [visit EXCEPT ![p] = v]
           /\ due' = [d \in Channels |->
                        IF d \in subscribers[ty] THEN due[d] + 1 ELSE due[d]]
  <2>1. \A q \in Publishers : visit'[q].todo = IF q = p THEN subscribers[ty]
                                                        ELSE visit[q].todo
    BY <1>3, <1>6 DEF IInv, TypeOK
  <2>2. due'[c] = IF c \in subscribers[ty] THEN due[c] + 1 ELSE due[c]
    BY <1>6
  <2>3. CASE c \in subscribers[ty]
    <3>1. Coming(c)' = Coming(c) \cup {p}
      BY <2>1, <2>3 DEF Coming
    <3>2. /\ IsFiniteSet(Coming(c) \cup {p})
          /\ Cardinality(Coming(c) \cup {p}) = Cardinality(Coming(c)) + 1
      BY <1>2, FS_AddElement
    <3>3. /\ due'[c] = due[c] + 1
          /\ Cardinality(Coming(c)') = Cardinality(Coming(c)) + 1
      BY <2>2, <2>3, <3>1, <3>2, Zenon
    <3>7. IsFiniteSet(Coming(c)')
      BY <3>1, <3>2, Zenon
    <3>4. /\ due[c] \in Nat /\ dropped[c] \in Nat
          /\ Len(received[c]) \in Nat /\ Len(buffer[c]) \in Nat
          /\ Cardinality(Coming(c)) \in Nat
          /\ due[c] = Len(received[c]) + Len(buffer[c]) + dropped[c]
                        + Cardinality(Coming(c))
      BY CountsAreNumbers DEF IInv
    <3>5. received'[c] = received[c] /\ buffer'[c] = buffer[c] /\ dropped'[c] = dropped[c]
      BY <1>1
    <3>6. due'[c] = Len(received'[c]) + Len(buffer'[c]) + dropped'[c]
                     + Cardinality(Coming(c)')
      <4> DEFINE d0 == due[c]  r0 == Len(received[c])  b0 == Len(buffer[c])
                 x0 == dropped[c]  n0 == Cardinality(Coming(c))
                 d1 == due'[c]  r1 == Len(received'[c])  b1 == Len(buffer'[c])
                 x1 == dropped'[c]  n1 == Cardinality(Coming(c)')
      <4>1. /\ d0 \in Nat /\ r0 \in Nat /\ b0 \in Nat /\ x0 \in Nat /\ n0 \in Nat
            /\ d0 = r0 + b0 + x0 + n0
        BY <3>3, <3>4, <3>5, Zenon
      <4>2. d1 = d0 + 1 /\ r1 = r0 /\ b1 = b0 /\ x1 = x0 /\ n1 = n0 + 1
        BY <3>3, <3>4, <3>5, Zenon
      <4> HIDE DEF d0, r0, b0, x0, n0, d1, r1, b1, x1, n1
      <4>3. d1 = r1 + b1 + x1 + n1
        BY <4>1, <4>2
      <4> QED BY <4>3 DEF d1, r1, b1, x1, n1
    <3> QED BY <3>7, <3>6
  <2>4. CASE c \notin subscribers[ty]
    <3>1. Coming(c)' = Coming(c)
      BY <1>2, <2>1, <2>4 DEF Coming
    <3> QED BY <1>1, <1>2, <2>2, <2>4, <3>1, CountsAreNumbers DEF IInv
  <2> QED BY <2>3, <2>4
<1> QED BY <1>4, <1>5, <1>6

\* A visit puts the event into the buffer or counts it as dropped.
LEMMA SendAccounted ==
  ASSUME IInv, Accounted, NEW p \in Publishers, NEW d \in Channels, Send(p, d)
  PROVE  Accounted'
<1> SUFFICES ASSUME NEW c \in Channels
             PROVE  /\ IsFiniteSet(Coming(c)')
                    /\ due'[c] = Len(received'[c]) + Len(buffer'[c]) + dropped'[c]
                                  + Cardinality(Coming(c)')
  BY DEF Accounted, EveryEventAccounted, Coming
<1> DEFINE e == visit[p].event
           w == [event |-> e, todo |-> visit[p].todo \ {d}]
<1>1. /\ visit' = [visit EXCEPT ![p] = w] /\ d \in visit[p].todo
      /\ UNCHANGED <<due, received>>
      /\ \/ /\ buffer' = [buffer EXCEPT ![d] = Append(buffer[d], e)]
            /\ UNCHANGED dropped
         \/ /\ dropped' = [dropped EXCEPT ![d] = dropped[d] + 1]
            /\ UNCHANGED buffer
  BY DEF Send, consumerVars
<1>2. e \in Event /\ w.todo = visit[p].todo \ {d}
  <2>1. visit[p] \in [event : Event, todo : SUBSET Channels]
    BY <1>1, Visiting DEF IInv
  <2> QED BY <2>1
<1> HIDE DEF e, w
<1>3. \A q \in Publishers : visit'[q].todo = IF q = p THEN visit[p].todo \ {d}
                                                      ELSE visit[q].todo
  BY <1>1, <1>2 DEF IInv, TypeOK
<1>4. IsFiniteSet(Coming(c)) /\ TypeOK
  BY DEF Accounted, IInv
<1>5. CASE c # d
  <2>1. Coming(c)' = Coming(c)
    BY <1>3, <1>5 DEF Coming
  <2>2. dropped'[c] = dropped[c] /\ buffer'[c] = buffer[c]
    BY <1>1, <1>5 DEF IInv, TypeOK
  <2> QED BY <1>1, <1>4, <2>1, <2>2, CountsAreNumbers
<1>6. CASE c = d
  <2>1. Coming(c)' = Coming(c) \ {p} /\ p \in Coming(c)
    BY <1>1, <1>3, <1>6 DEF Coming
  <2>2. /\ IsFiniteSet(Coming(c) \ {p})
        /\ Cardinality(Coming(c) \ {p}) = Cardinality(Coming(c)) - 1
    BY <1>4, <2>1, FS_RemoveElement
  <2>3. Len(buffer'[c]) + dropped'[c] = Len(buffer[c]) + dropped[c] + 1
        /\ Len(buffer'[c]) \in Nat /\ dropped'[c] \in Nat
    <3>1. /\ buffer \in [Channels -> Seq(Event)] /\ dropped \in [Channels -> Nat]
          /\ buffer[c] \in Seq(Event) /\ Len(buffer[c]) \in Nat
      BY LenProperties DEF IInv, TypeOK
    <3>2. Len(Append(buffer[c], e)) = Len(buffer[c]) + 1
      BY <1>2, <3>1, AppendProperties
    <3>3. CASE /\ buffer' = [buffer EXCEPT ![d] = Append(buffer[d], e)]
               /\ UNCHANGED dropped
      <4>1. buffer'[c] = Append(buffer[c], e) /\ dropped'[c] = dropped[c]
        BY <1>6, <3>1, <3>3
      <4>2. /\ dropped'[c] = dropped[c] /\ Len(buffer'[c]) = Len(buffer[c]) + 1
            /\ Len(buffer[c]) \in Nat
        BY <3>1, <3>2, <4>1, Zenon
      <4>3. dropped[c] \in Nat
        BY <3>1
      <4> QED BY <4>2, <4>3
    <3>4. CASE /\ dropped' = [dropped EXCEPT ![d] = dropped[d] + 1]
               /\ UNCHANGED buffer
      BY <1>6, <3>1, <3>4
    <3> QED BY <1>1, <3>3, <3>4
  <2>4. /\ due[c] \in Nat /\ dropped[c] \in Nat
        /\ Len(received[c]) \in Nat /\ Len(buffer[c]) \in Nat
        /\ Cardinality(Coming(c)) \in Nat
        /\ due[c] = Len(received[c]) + Len(buffer[c]) + dropped[c]
                      + Cardinality(Coming(c))
    BY <1>4, CountsAreNumbers
  <2>5. /\ due'[c] = due[c] /\ Len(received'[c]) = Len(received[c])
        /\ Cardinality(Coming(c)') = Cardinality(Coming(c)) - 1
    BY <1>1, <2>1, <2>2, Zenon
  <2>7. IsFiniteSet(Coming(c)')
    BY <2>1, <2>2, Zenon
  <2>6. due'[c] = Len(received'[c]) + Len(buffer'[c]) + dropped'[c]
                   + Cardinality(Coming(c)')
    <3> DEFINE d0 == due[c]  r0 == Len(received[c])  b0 == Len(buffer[c])
               x0 == dropped[c]  n0 == Cardinality(Coming(c))
               d1 == due'[c]  r1 == Len(received'[c])  b1 == Len(buffer'[c])
               x1 == dropped'[c]  n1 == Cardinality(Coming(c)')
    <3>1. /\ d0 \in Nat /\ r0 \in Nat /\ b0 \in Nat /\ x0 \in Nat /\ n0 \in Nat
          /\ d0 = r0 + b0 + x0 + n0
      BY <2>3, <2>4, <2>5, Zenon
    <3>2. d1 = d0 /\ r1 = r0 /\ b1 + x1 = b0 + x0 + 1 /\ n1 = n0 - 1
           /\ b1 \in Nat /\ x1 \in Nat
      BY <2>3, <2>4, <2>5, Zenon
    <3> HIDE DEF d0, r0, b0, x0, n0, d1, r1, b1, x1, n1
    <3>3. d1 = r1 + b1 + x1 + n1
      BY <3>1, <3>2
    <3> QED BY <3>3 DEF d1, r1, b1, x1, n1
  <2> QED BY <2>7, <2>6
<1> QED BY <1>5, <1>6

\* Every step keeps the accounts.
LEMMA NextAccounted ==
  ASSUME IInv, Accounted, [Next]_vars
  PROVE  Accounted'
BY QuietStepAccounted, StartPublishAccounted, SendAccounted DEF Next, PublishStep

----------------------------------------------------------------------------

\* A subscriber sees each publisher's events in the order of publication,
\* none twice, whatever is dropped for it and whoever publishes meanwhile.
THEOREM SeenInOrder == Spec => []InPublishingOrder
<1>1. Init => IInv /\ Orderly
  BY InitHolds, InitOrderly
<1>2. IInv /\ Orderly /\ [Next]_vars => (IInv /\ Orderly)'
  BY NextKeeps, NextOrderly
<1>3. Orderly => InPublishingOrder
  BY DEF Orderly
<1> QED BY <1>1, <1>2, <1>3, PTL DEF Spec

\* No event is lost on the way: what was published while a channel was
\* listed is taken, in the buffer, counted as dropped or still coming.
THEOREM NoEventVanishes == Spec => []EveryEventAccounted
<1>1. Init => IInv /\ Accounted
  BY InitHolds, InitAccounted
<1>2. IInv /\ Accounted /\ [Next]_vars => (IInv /\ Accounted)'
  BY NextKeeps, NextAccounted
<1>3. Accounted => EveryEventAccounted
  BY DEF Accounted
<1> QED BY <1>1, <1>2, <1>3, PTL DEF Spec

=============================================================================
