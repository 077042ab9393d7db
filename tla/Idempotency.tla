----------------------------- MODULE Idempotency -----------------------------
(***************************************************************************)
(* internal/idempotency: responses kept by key for some time.  Lookup,     *)
(* Store and Sweep are critical sections of the guard's mutex and read the *)
(* clock inside it, so each is one step.  Lookup and Sweep remove expired  *)
(* entries, nothing else does.                                             *)
(***************************************************************************)
EXTENDS Integers

CONSTANTS
  Keys,        \* idempotency keys
  Responses,   \* the responses stored
  NoRecord,    \* the value of an absent entry
  Ttl,         \* how long a response is kept, five minutes in the API
  MaxTime      \* bound: the last moment of the clock

ASSUME GuardAssumption ==
  /\ Ttl \in Nat
  /\ MaxTime \in Nat
  /\ NoRecord \notin [response : Responses, expiresAt : Nat]

Record == [response : Responses, expiresAt : Nat]

VARIABLES
  store,   \* store[k]: the record kept under k, or NoRecord
  now,     \* the clock
  found    \* what the latest Lookup returned

vars == <<store, now, found>>

Init ==
  /\ store = [k \in Keys |-> NoRecord]
  /\ now = 0
  /\ found = NoRecord

\* Fault: an entry is over in the last moment of its time already.
FaultExpiredAt(k) == store[k] # NoRecord /\ now >= store[k].expiresAt

\* The clock is after the entry's time.
Expired(k) == store[k] # NoRecord /\ now > store[k].expiresAt

----------------------------------------------------------------------------

\* An expired entry is deleted and not returned.
Lookup(k) ==
  /\ found' = IF Expired(k) THEN NoRecord ELSE store[k]
  /\ store' = [store EXCEPT ![k] = IF Expired(k) THEN NoRecord ELSE @]
  /\ UNCHANGED now

\* Overwrites whatever is there.
Store(k, r) ==
  /\ store' = [store EXCEPT ![k] = [response |-> r, expiresAt |-> now + Ttl]]
  /\ UNCHANGED <<now, found>>

\* Every expired entry is removed.
Sweep ==
  /\ store' = [k \in Keys |-> IF Expired(k) THEN NoRecord ELSE store[k]]
  /\ UNCHANGED <<now, found>>

Tick ==
  /\ now < MaxTime
  /\ now' = now + 1
  /\ UNCHANGED <<store, found>>

Next ==
  \/ \E k \in Keys : Lookup(k) \/ \E r \in Responses : Store(k, r)
  \/ Sweep
  \/ Tick

Spec == Init /\ [][Next]_vars

----------------------------------------------------------------------------
(* Properties.                                                             *)

\* Type invariant.
TypeOK ==
  /\ store \in [Keys -> Record \cup {NoRecord}]
  /\ now \in Nat
  /\ found \in Record \cup {NoRecord}

\* Deleting expired entries late, on Lookup or in a Sweep, cannot be told from
\* deleting each at the moment it expires: a response is found through the
\* last moment of its time and never after, whatever is stored over it.
Promise == INSTANCE EagerCache WITH
  live <- [k \in Keys |-> IF Expired(k) THEN NoRecord ELSE store[k]]

KeepsPromise == Promise!Spec

=============================================================================
