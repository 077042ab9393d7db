------------------------------ MODULE Debouncer ------------------------------
(***************************************************************************)
(* warmup's debouncer.  Each Trigger stops the timer of the one before and *)
(* starts a new one; a timer that has run down fires at that moment or     *)
(* later, unless it is stopped first, and starts a goroutine that runs fn. *)
(* Stopping a timer that has fired changes nothing.                        *)
(***************************************************************************)
EXTENDS Timing

VARIABLES
  timers,      \* the timers that run: those that Trigger number n started, and
               \* the ticks they have left
  triggers,    \* the number of calls of Trigger
  starting,    \* the calls whose goroutines have not called fn yet
  ran,         \* history: the calls for which fn was called
  sinceFired   \* history: the ticks since a timer fired, Interval for as many
               \* or more

vars == <<timers, triggers, starting, ran, sinceFired>>

Init ==
  /\ timers = {}
  /\ triggers = 0
  /\ starting = {}
  /\ ran = {}
  /\ sinceFired = Interval

\* Fault: the timer of the call before goes on.
FaultStopped == timers

\* timer.Stop, on the one timer that d.timer may be.
Stopped == {t \in timers : t.call # triggers}

Trigger ==
  /\ triggers < MaxTriggers
  /\ triggers' = triggers + 1
  /\ timers' = Stopped \cup {[call |-> triggers', left |-> Interval]}
  /\ UNCHANGED <<starting, ran, sinceFired>>

Fire(t) ==
  /\ t \in timers
  /\ t.left = 0
  /\ timers' = timers \ {t}
  /\ starting' = starting \cup {t.call}
  /\ sinceFired' = 0
  /\ UNCHANGED <<triggers, ran>>

\* The goroutine that a timer has started calls fn.
Run(call) ==
  /\ call \in starting
  /\ starting' = starting \ {call}
  /\ ran' = ran \cup {call}
  /\ UNCHANGED <<timers, triggers, sinceFired>>

Tick ==
  /\ sinceFired < Interval \/ \E t \in timers : t.left > 0
  /\ timers' = {[t EXCEPT !.left = IF @ > 0 THEN @ - 1 ELSE 0] : t \in timers}
  /\ sinceFired' = IF sinceFired < Interval THEN sinceFired + 1 ELSE Interval
  /\ UNCHANGED <<triggers, starting, ran>>

Next ==
  \/ Trigger
  \/ \E t \in timers : Fire(t)
  \/ \E call \in starting : Run(call)
  \/ Tick

Spec == Init /\ [][Next]_vars

----------------------------------------------------------------------------

\* The timer fires at most once per interval, late or not: what is left of a
\* running timer and the time since one fired make up an interval.  And "last
\* call wins": the last call is never lost, fn has run for it, is about to, or
\* its timer is running.
LastCallWins ==
  /\ \A t \in timers : t.left + sinceFired >= Interval
  /\ triggers > 0 =>
       \/ triggers \in ran \cup starting
       \/ \E t \in timers : t.call = triggers

=============================================================================
