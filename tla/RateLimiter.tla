----------------------------- MODULE RateLimiter -----------------------------
(***************************************************************************)
(* warmup's token bucket.  Tokens are counted in whole units, as the code  *)
(* stores them (a billion units are a token there), and are a float64 only *)
(* within Allow: each conversion back to units rounds down, and loses up   *)
(* to Loss units.  lastFill moves on all the same, so what is lost is      *)
(* never made up for.  Allow reads the clock inside the mutex.             *)
(***************************************************************************)
EXTENDS Timing, Sequences

VARIABLES
  clock,      \* time.Now
  tokens,     \* the units in the bucket
  lastFill,   \* the time of the latest Allow
  granted     \* history: when a request was allowed, latest last

vars == <<clock, tokens, lastFill, granted>>

\* The bucket starts full.
Init ==
  /\ clock = 0
  /\ tokens = Burst
  /\ lastFill = 0
  /\ granted = <<>>

\* What the time since lastFill makes of the tokens.
Refilled ==
  LET t == tokens + Rate * (clock - lastFill)
  IN  IF t > Burst THEN Burst ELSE t

\* Fault: time counts from the latest request that was allowed.
FaultAsNanos(t) ==
  /\ tokens' \in {t - e : e \in 0..Loss} \cap Nat
  /\ lastFill' = IF t < Token THEN lastFill ELSE clock

\* tokens.Store(tokensAsNanos(t)), and lastFill is the time that t is for.
tokensAsNanos(t) ==
  /\ tokens' \in {t - e : e \in 0..Loss} \cap Nat
  /\ lastFill' = clock

Grant ==
  /\ Len(granted) < MaxGrants
  /\ Refilled >= Token
  /\ tokensAsNanos(Refilled - Token)
  /\ granted' = Append(granted, clock)
  /\ UNCHANGED clock

Deny ==
  /\ Refilled < Token
  /\ tokensAsNanos(Refilled)
  /\ UNCHANGED <<granted, clock>>

Allow == Grant \/ Deny

Tick ==
  /\ clock < MaxClock
  /\ clock' = clock + 1
  /\ UNCHANGED <<tokens, lastFill, granted>>

Next == Allow \/ Tick

Spec == Init /\ [][Next]_vars

----------------------------------------------------------------------------

\* Between any two moments no more requests are allowed than a full bucket
\* and what the rate adds in that time can pay for ("tokens refill at rate per
\* second, capped at burst"), however often the limiter is asked in between,
\* with success or without.
WindowBound ==
  \A i \in 1..Len(granted) :
    (Len(granted) - i + 1) * Token <= Burst + Rate * (clock - granted[i])

=============================================================================
