------------------------------ MODULE Semaphore ------------------------------
(***************************************************************************)
(* warmup's semaphore: a buffered channel whose items are the slots taken. *)
(* A send on the full channel waits, and a receive hands the slot it frees *)
(* to the goroutine that has waited longest, as Go's channels do.  Callers *)
(* release what they have acquired, once.                                  *)
(***************************************************************************)
EXTENDS Integers, FiniteSets, Sequences, SequencesExt

CONSTANTS
  Callers,     \* the goroutines that use the semaphore
  Capacities   \* the capacities it may be made with

VARIABLES
  capacity,   \* the capacity
  taken,      \* the items in the channel
  queue,      \* the goroutines that wait to send, first come first
  at          \* where each goroutine is

vars == <<capacity, taken, queue, at>>

Init ==
  /\ capacity \in Capacities
  /\ taken = 0
  /\ queue = <<>>
  /\ at = [c \in Callers |-> "out"]

\* There is room in the channel.
Take(c) ==
  /\ at[c] = "out"
  /\ taken < capacity
  /\ taken' = taken + 1
  /\ at' = [at EXCEPT ![c] = "holding"]
  /\ UNCHANGED <<capacity, queue>>

\* There is none: the send waits, in a select with a context or not.
Wait(c, where) ==
  /\ at[c] = "out"
  /\ taken >= capacity
  /\ queue' = Append(queue, c)
  /\ at' = [at EXCEPT ![c] = where]
  /\ UNCHANGED <<capacity, taken>>

Acquire(c) == Take(c) \/ Wait(c, "waiting")

\* Fault: the context is looked at when the slot has been taken.
FaultRefused(c) ==
  /\ at[c] = "out"
  /\ taken < capacity
  /\ taken' = taken + 1
  /\ UNCHANGED <<capacity, queue, at>>

\* The context is done already: the select may return its error even if there
\* is room.
Refused(c) == at[c] = "out" /\ UNCHANGED vars

AcquireCtx(c) == Take(c) \/ Wait(c, "waitingCtx") \/ Refused(c)

\* The context of a waiting select is done: its send is withdrawn.
ContextDone(c) ==
  /\ at[c] = "waitingCtx"
  /\ \E n \in 1..Len(queue) : queue[n] = c /\ queue' = RemoveAt(queue, n)
  /\ at' = [at EXCEPT ![c] = "out"]
  /\ UNCHANGED <<capacity, taken>>

\* What frees a slot gives it to the first that waits for one.
Release(c) ==
  /\ at[c] = "holding"
  /\ \/ /\ queue = <<>>
        /\ taken' = taken - 1
        /\ at' = [at EXCEPT ![c] = "out"]
        /\ UNCHANGED queue
     \/ /\ queue # <<>>
        /\ queue' = Tail(queue)
        /\ at' = [at EXCEPT ![c] = "out", ![Head(queue)] = "holding"]
        /\ UNCHANGED taken
  /\ UNCHANGED capacity

Next ==
  \E c \in Callers : Acquire(c) \/ AcquireCtx(c) \/ ContextDone(c) \/ Release(c)

Spec == Init /\ [][Next]_vars

----------------------------------------------------------------------------

\* As many slots are taken as there are goroutines that hold one, and nobody
\* waits beside a free one: no slot is lost to a call that was given up.
SlotsAreHeld ==
  /\ taken = Cardinality({c \in Callers : at[c] = "holding"})
  /\ taken <= capacity
  /\ queue # <<>> => taken = capacity

=============================================================================
