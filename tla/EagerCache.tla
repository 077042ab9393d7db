------------------------------ MODULE EagerCache ------------------------------
(***************************************************************************)
(* What the idempotency guard promises: a response can be found until its  *)
(* time is over, and at that moment it is gone.                            *)
(***************************************************************************)
EXTENDS Integers

CONSTANTS Keys, Responses, NoRecord, Ttl

VARIABLES
  live,     \* live[k]: the response to be found under k and its time, or none
  now,
  found     \* what the latest Get returned

vars == <<live, now, found>>

Init ==
  /\ live = [k \in Keys |-> NoRecord]
  /\ now = 0
  /\ found = NoRecord

Get(k) ==
  /\ found' = live[k]
  /\ UNCHANGED <<live, now>>

Put(k, r) ==
  /\ live' = [live EXCEPT ![k] = [response |-> r, expiresAt |-> now + Ttl]]
  /\ UNCHANGED <<now, found>>

\* As time passes, what is over disappears at once.
Tick ==
  /\ now' = now + 1
  /\ live' = [k \in Keys |->
                IF live[k] # NoRecord /\ live[k].expiresAt < now'
                THEN NoRecord ELSE live[k]]
  /\ UNCHANGED found

Next ==
  \/ \E k \in Keys : Get(k) \/ \E r \in Responses : Put(k, r)
  \/ Tick

Spec == Init /\ [][Next]_vars

=============================================================================
