------------------------------- MODULE EventBus -------------------------------
(***************************************************************************)
(* The publish/subscribe bus of internal/events.  Publish holds the bus's  *)
(* read lock while it visits its subscribers, so several publishers run at *)
(* once and a step of each is one visit; Subscribe, Unsubscribe and Close  *)
(* hold the write lock and are one step.  Consumers take events from their *)
(* channel whenever they like.                                             *)
(*                                                                         *)
(* A list of subscribers is a set here: a channel is on a list at most     *)
(* once, and nothing but the order of one publisher's visits depends on    *)
(* its place, so a publisher visits in any order.                          *)
(***************************************************************************)
EXTENDS Integers, Sequences, FiniteSets, SequencesExt

CONSTANTS
  Publishers,   \* goroutines that call Publish
  Channels,     \* the channels that Subscribe may make
  Types,        \* event types
  BufferSize,   \* capacity of a channel
  MaxEvents,    \* bound: events given to Publish by one goroutine
  MaxCloses     \* bound: calls of Close

ASSUME BusAssumption ==
  /\ BufferSize \in Nat \ {0}
  /\ MaxEvents \in Nat
  /\ MaxCloses \in Nat

\* The n-th event of a publisher.
Event == [from : Publishers, n : 1..MaxEvents, type : Types]

VARIABLES
  subscribers,  \* the channels listed under each event type
  closed,       \* the bus has been closed
  channel,      \* channel[c] is "unmade", "open" or "closed"
  buffer,       \* the events in each channel
  visit,        \* visit[p]: the event p is publishing and who is left to visit
  panicked,     \* a closed channel has been sent on or closed
  sent,         \* history: number of events each goroutine gave to Publish
  due,          \* history: number of events published while c was listed
  dropped,      \* history: number of them dropped
  received,     \* history: the events the consumer of c has taken
  left,         \* channels whose consumer has left its range loop
  closes        \* history: number of calls of Close

consumerVars == <<received, left>>
historyVars == <<sent, due, dropped>>
vars == <<subscribers, closed, channel, buffer, visit, panicked, historyVars,
          consumerVars, closes>>

\* Between calls of Publish.
Idle == [todo |-> {}]

\* Fault: Publish copies the list and lets go of the lock.
FaultNoReadLock == TRUE

\* No publisher holds the read lock, so the write lock can be taken.
WriteLockFree == \A p \in Publishers : visit[p] = Idle

Init ==
  /\ subscribers = [ty \in Types |-> {}]
  /\ closed = FALSE
  /\ channel = [c \in Channels |-> "unmade"]
  /\ buffer = [c \in Channels |-> <<>>]
  /\ visit = [p \in Publishers |-> Idle]
  /\ panicked = FALSE
  /\ sent = [p \in Publishers |-> 0]
  /\ due = [c \in Channels |-> 0]
  /\ dropped = [c \in Channels |-> 0]
  /\ received = [c \in Channels |-> <<>>]
  /\ left = {}
  /\ closes = 0

----------------------------------------------------------------------------
(* Subscribers come and go.                                                *)

\* Fault: after Close a subscriber gets a channel that nobody will close.
FaultOpenAfterClose(c, ty) ==
  /\ WriteLockFree
  /\ channel[c] = "unmade"
  /\ channel' = [channel EXCEPT ![c] = "open"]
  /\ subscribers' = IF closed THEN subscribers
                    ELSE [subscribers EXCEPT ![ty] = @ \cup {c}]
  /\ UNCHANGED <<closed, buffer, visit, panicked, historyVars, consumerVars, closes>>

\* After Close the channel that Subscribe returns is closed already.
Subscribe(c, ty) ==
  /\ WriteLockFree
  /\ channel[c] = "unmade"
  /\ IF closed
     THEN /\ channel' = [channel EXCEPT ![c] = "closed"]
          /\ UNCHANGED subscribers
     ELSE /\ channel' = [channel EXCEPT ![c] = "open"]
          /\ subscribers' = [subscribers EXCEPT ![ty] = @ \cup {c}]
  /\ UNCHANGED <<closed, buffer, visit, panicked, historyVars, consumerVars, closes>>

\* close(c) panics on a closed channel.
CloseChannels(cs) ==
  /\ channel' = [c \in Channels |-> IF c \in cs THEN "closed" ELSE channel[c]]
  /\ panicked' = (panicked \/ \E c \in cs : channel[c] = "closed")

\* A channel that is not on the list (wrong type, or removed before) is left
\* alone.
Unsubscribe(c, ty) ==
  /\ WriteLockFree
  /\ c \in subscribers[ty]
  /\ subscribers' = [subscribers EXCEPT ![ty] = @ \ {c}]
  /\ CloseChannels({c})
  /\ UNCHANGED <<closed, buffer, visit, historyVars, consumerVars, closes>>

\* Every listed channel is closed, the lists are emptied.
Close ==
  /\ WriteLockFree
  /\ closes < MaxCloses
  /\ CloseChannels(UNION {subscribers[ty] : ty \in Types})
  /\ subscribers' = [ty \in Types |-> {}]
  /\ closed' = TRUE
  /\ closes' = closes + 1
  /\ UNCHANGED <<buffer, visit, historyVars, consumerVars>>

----------------------------------------------------------------------------
(* Publish.                                                                *)

\* Publish takes the read lock; on a closed bus it returns at once.
StartPublish(p, ty) ==
  /\ visit[p] = Idle
  /\ sent[p] < MaxEvents
  /\ sent' = [sent EXCEPT ![p] = @ + 1]
  /\ IF closed
     THEN UNCHANGED <<visit, due>>
     ELSE /\ visit' = [visit EXCEPT ![p] =
                         [event |-> [from |-> p, n |-> sent'[p], type |-> ty],
                          todo  |-> subscribers[ty]]]
          /\ due' = [c \in Channels |->
                       IF c \in subscribers[ty] THEN due[c] + 1 ELSE due[c]]
  /\ UNCHANGED <<subscribers, closed, channel, buffer, panicked, dropped,
                 consumerVars, closes>>

\* Fault: the send blocks while the buffer is full.
FaultBlockingSend(p, c) ==
  /\ c \in visit[p].todo
  /\ Len(buffer[c]) < BufferSize
  /\ visit' = [visit EXCEPT ![p].todo = @ \ {c}]
  /\ buffer' = [buffer EXCEPT ![c] = Append(@, visit[p].event)]
  /\ UNCHANGED <<subscribers, closed, channel, panicked, historyVars,
                 consumerVars, closes>>

\* Fault: the first full buffer ends the loop.
FaultStopAtFull(p, c) ==
  /\ c \in visit[p].todo
  /\ IF Len(buffer[c]) < BufferSize
     THEN /\ buffer' = [buffer EXCEPT ![c] = Append(@, visit[p].event)]
          /\ visit' = [visit EXCEPT ![p].todo = @ \ {c}]
          /\ UNCHANGED dropped
     ELSE /\ dropped' = [dropped EXCEPT ![c] = @ + 1]
          /\ visit' = [visit EXCEPT ![p].todo = {}]
          /\ UNCHANGED buffer
  /\ UNCHANGED <<subscribers, closed, channel, panicked, sent, due,
                 consumerVars, closes>>

\* Fault: a channel takes one event more than its capacity.
FaultOneTooMany(p, c) ==
  /\ c \in visit[p].todo
  /\ Len(buffer[c]) <= BufferSize
  /\ visit' = [visit EXCEPT ![p].todo = @ \ {c}]
  /\ buffer' = [buffer EXCEPT ![c] = Append(@, visit[p].event)]
  /\ UNCHANGED <<subscribers, closed, channel, panicked, historyVars,
                 consumerVars, closes>>

\* Fault: the loop does not move on from a channel that has taken the event.
FaultSendTwice(p, c) ==
  /\ c \in visit[p].todo
  /\ IF Len(buffer[c]) < BufferSize
     THEN /\ buffer' = [buffer EXCEPT ![c] = Append(@, visit[p].event)]
          /\ UNCHANGED visit
     ELSE /\ visit' = [visit EXCEPT ![p].todo = @ \ {c}]
          /\ UNCHANGED buffer
  /\ UNCHANGED <<subscribers, closed, channel, panicked, historyVars,
                 consumerVars, closes>>

\* One visit: the event is put into the buffer, or dropped when that is full.
\* A send on a closed channel panics.
Send(p, c) ==
  /\ c \in visit[p].todo
  /\ visit' = [visit EXCEPT ![p] = [event |-> @.event, todo |-> @.todo \ {c}]]
  /\ panicked' = (panicked \/ channel[c] = "closed")
  /\ IF channel[c] = "open" /\ Len(buffer[c]) < BufferSize
     THEN /\ buffer' = [buffer EXCEPT ![c] = Append(@, visit[p].event)]
          /\ UNCHANGED dropped
     ELSE /\ dropped' = [dropped EXCEPT ![c] = @ + 1]
          /\ UNCHANGED buffer
  /\ UNCHANGED <<subscribers, closed, channel, sent, due, consumerVars, closes>>

\* The loop is over and the read lock is released.
EndPublish(p) ==
  /\ visit[p] # Idle
  /\ visit[p].todo = {}
  /\ visit' = [visit EXCEPT ![p] = Idle]
  /\ UNCHANGED <<subscribers, closed, channel, buffer, panicked, historyVars,
                 consumerVars, closes>>

----------------------------------------------------------------------------
(* Consumers range over their channel: a closed channel still yields what  *)
(* it holds, and then ends the loop.                                       *)

Receive(c) ==
  /\ buffer[c] # <<>>
  /\ received' = [received EXCEPT ![c] = Append(@, Head(buffer[c]))]
  /\ buffer' = [buffer EXCEPT ![c] = Tail(@)]
  /\ UNCHANGED <<subscribers, closed, channel, visit, panicked, historyVars,
                 left, closes>>

Leave(c) ==
  /\ channel[c] = "closed"
  /\ buffer[c] = <<>>
  /\ c \notin left
  /\ left' = left \cup {c}
  /\ UNCHANGED <<subscribers, closed, channel, buffer, visit, panicked,
                 historyVars, received, closes>>

----------------------------------------------------------------------------

PublishStep(p) == EndPublish(p) \/ \E c \in Channels : Send(p, c)

Next ==
  \/ \E c \in Channels, ty \in Types : Subscribe(c, ty) \/ Unsubscribe(c, ty)
  \/ Close
  \/ \E p \in Publishers :
       PublishStep(p) \/ \E ty \in Types : StartPublish(p, ty)
  \/ \E c \in Channels : Receive(c) \/ Leave(c)

Spec == Init /\ [][Next]_vars

\* A publisher inside Publish runs on.  Consumers may be as slow as they like,
\* or stop, while the bus is open; once it is closed they finish their loops.
FairSpec ==
  /\ Spec
  /\ \A p \in Publishers : WF_vars(PublishStep(p))
  /\ \A c \in Channels : WF_vars(closed /\ (Receive(c) \/ Leave(c)))

----------------------------------------------------------------------------
(* Properties.                                                             *)

\* Type invariant.
TypeOK ==
  /\ subscribers \in [Types -> SUBSET Channels]
  /\ closed \in BOOLEAN
  /\ channel \in [Channels -> {"unmade", "open", "closed"}]
  /\ buffer \in [Channels -> Seq(Event)]
  /\ \A c \in Channels : Len(buffer[c]) <= BufferSize
  /\ visit \in [Publishers -> {Idle} \cup [event : Event, todo : SUBSET Channels]]
  /\ panicked \in BOOLEAN
  /\ sent \in [Publishers -> 0..MaxEvents]
  /\ due \in [Channels -> Nat]
  /\ dropped \in [Channels -> Nat]
  /\ received \in [Channels -> Seq(Event)]
  /\ left \subseteq Channels
  /\ closes \in 0..MaxCloses

\* "It never blocks and never panics": no channel is closed twice and no
\* publisher ever reaches a closed channel, whatever subscribers and Close do
\* while publishers run.
NeverPanics == ~panicked

\* Every event published while a channel was listed is received, in the
\* buffer, dropped for that subscriber, or still on its way: one slow
\* subscriber costs the others nothing.
EveryEventAccounted ==
  \A c \in Channels :
    due[c] = Len(received[c]) + Len(buffer[c]) + dropped[c]
               + Cardinality({p \in Publishers : c \in visit[p].todo})

\* A subscriber sees the events of one publisher in the order in which they
\* were published, none twice, and only events of its own type.
InPublishingOrder ==
  \A c \in Channels :
    LET seen == received[c] \o buffer[c]
    IN  \A i, j \in 1..Len(seen) :
          /\ seen[i].type = seen[j].type
          /\ (i < j /\ seen[i].from = seen[j].from) => seen[i].n < seen[j].n

\* A publisher gets through, also when no consumer ever takes an event: "a
\* slow subscriber never blocks a publisher".
PublishReturns == \A p \in Publishers : (visit[p] # Idle) ~> (visit[p] = Idle)

\* After Close every consumer gets what its channel still holds and leaves
\* its loop: "consumers ranging over them exit cleanly".
ConsumersLeave ==
  \A c \in Channels :
    (closed /\ channel[c] # "unmade") ~> (c \in left /\ buffer[c] = <<>>)

=============================================================================
