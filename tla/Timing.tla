-------------------------------- MODULE Timing --------------------------------
(***************************************************************************)
(* The constants of the two practice parts that measure time, the rate     *)
(* limiter and the debouncer.                                              *)
(***************************************************************************)
EXTENDS Integers

CONSTANTS
  Token,        \* the units of one token of the rate limiter
  Rate,         \* the units that a tick of the clock adds
  Burst,        \* the most units that accumulate
  Loss,         \* the most that a conversion loses
  MaxClock,     \* bound: the last tick
  MaxGrants     \* bound: the number of requests allowed

ASSUME RateLimiterAssumption ==
  /\ {Rate, Burst, Loss, MaxClock, MaxGrants} \subseteq Nat
  /\ Token \in Nat \ {0}

CONSTANTS
  Interval,     \* the ticks of the debouncer's interval
  MaxTriggers   \* bound: the calls of Trigger

ASSUME DebouncerAssumption == Interval \in Nat \ {0} /\ MaxTriggers \in Nat

=============================================================================
