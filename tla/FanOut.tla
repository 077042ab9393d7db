-------------------------------- MODULE FanOut --------------------------------
(***************************************************************************)
(* warmup's FanOutFanIn: workers that range over one input channel, apply  *)
(* a function and send on one unbuffered output channel, which a goroutine *)
(* of its own closes when all of them are done.  The inputs are numbered   *)
(* in the order of the input channel, which is closed behind the last one. *)
(* Collect, the consumer, reads until the output is closed; another one    *)
(* may stop before.                                                        *)
(***************************************************************************)
EXTENDS Integers, Sequences, SequencesExt

CONSTANTS
  Workers,     \* the worker goroutines
  InputCount   \* bound: the number of inputs

VARIABLES
  next,      \* the next input in the channel
  at,        \* where each worker is in its loop
  item,      \* the input it has taken, 0 for none
  out,       \* history: the inputs whose results the consumer has read
  closed,    \* the output channel is closed
  reading    \* the consumer still reads

vars == <<next, at, item, out, closed, reading>>

Init ==
  /\ next = 1
  /\ at = [w \in Workers |-> "receive"]
  /\ item = [w \in Workers |-> 0]
  /\ out = <<>>
  /\ closed = FALSE
  /\ reading = TRUE

Take(w) ==
  /\ at[w] = "receive"
  /\ next <= InputCount
  /\ at' = [at EXCEPT ![w] = "apply"]
  /\ item' = [item EXCEPT ![w] = next]
  /\ next' = next + 1
  /\ UNCHANGED <<out, closed, reading>>

\* fn returns; what it does is the caller's.
Apply(w) ==
  /\ at[w] = "apply"
  /\ at' = [at EXCEPT ![w] = "send"]
  /\ UNCHANGED <<next, item, out, closed, reading>>

\* The consumer, while it reads, appends what it is sent.
Collect(i) ==
  /\ reading
  /\ out' = Append(out, i)

\* The consumer and a worker meet on the unbuffered channel.
Send(w) ==
  /\ at[w] = "send"
  /\ Collect(item[w])
  /\ at' = [at EXCEPT ![w] = "receive"]
  /\ item' = [item EXCEPT ![w] = 0]
  /\ UNCHANGED <<next, closed, reading>>

\* Fault: a worker whose function panicked is not counted as done.
FaultDone(w) ==
  /\ at[w] = "receive"
  /\ next > InputCount
  /\ w # CHOOSE v \in Workers : TRUE
  /\ at' = [at EXCEPT ![w] = "done"]
  /\ UNCHANGED <<next, item, out, closed, reading>>

\* The input is closed and drained: the loop ends, wg.Done.
Done(w) ==
  /\ at[w] = "receive"
  /\ next > InputCount
  /\ at' = [at EXCEPT ![w] = "done"]
  /\ UNCHANGED <<next, item, out, closed, reading>>

\* Fault: the output is closed as soon as the input is drained.
FaultCloseEarly ==
  /\ ~closed
  /\ next > InputCount
  /\ closed' = TRUE
  /\ UNCHANGED <<next, at, item, out, reading>>

\* wg.Wait returns when every worker is done.
CloseOut ==
  /\ ~closed
  /\ \A w \in Workers : at[w] = "done"
  /\ closed' = TRUE
  /\ UNCHANGED <<next, at, item, out, reading>>

\* A consumer other than Collect stops before the output is closed.
StopReading ==
  /\ reading
  /\ ~closed
  /\ reading' = FALSE
  /\ UNCHANGED <<next, at, item, out, closed>>

----------------------------------------------------------------------------

\* A closed output has given the result of every input exactly once, whoever
\* was quicker, and nobody sends on it any more, which would panic.
ClosedIsComplete ==
  closed => /\ ToSet(out) = 1..InputCount
            /\ Len(out) = InputCount
            /\ \A w \in Workers : at[w] = "done"

=============================================================================
