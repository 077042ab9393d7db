-------------------------- MODULE IdempotencyProofs --------------------------
(***************************************************************************)
(* The guard, which deletes expired entries late, implements a cache that  *)
(* deletes them at once, for any keys, responses and time to live.         *)
(***************************************************************************)
EXTENDS Idempotency, TLAPS

\* What EagerCache holds when the guard holds store.
live == [k \in Keys |-> IF Expired(k) THEN NoRecord ELSE store[k]]

LEMMA InitHolds == Init => TypeOK /\ Promise!Init
  BY DEF Init, TypeOK, Promise!Init, Expired

LEMMA LookupStep ==
  ASSUME TypeOK, NEW k \in Keys, Lookup(k)
  PROVE  TypeOK' /\ Promise!Get(k)
<1>1. TypeOK'
  BY DEF TypeOK, Lookup
<1>2. live' = live
  BY DEF live, TypeOK, Lookup, Expired
<1>3. found' = live[k]
  BY DEF live, Lookup
<1> QED
  BY <1>1, <1>2, <1>3 DEF Promise!Get, live, Lookup

LEMMA StoreStep ==
  ASSUME TypeOK, NEW k \in Keys, NEW r \in Responses, Store(k, r)
  PROVE  TypeOK' /\ Promise!Put(k, r)
<1> DEFINE new == [response |-> r, expiresAt |-> now + Ttl]
<1>1. new \in Record /\ new # NoRecord /\ now' = now /\ found' = found
  BY GuardAssumption DEF TypeOK, Record, Store
<1>2. ~(now > new.expiresAt)
  BY GuardAssumption DEF TypeOK
<1>3. store' = [store EXCEPT ![k] = new]
  BY DEF Store
<1> HIDE DEF new
<1>4. TypeOK'
  BY <1>1, <1>3 DEF TypeOK
<1>5. live' = [live EXCEPT ![k] = new]
  BY <1>1, <1>2, <1>3 DEF live, TypeOK, Expired
<1> QED
  BY <1>1, <1>4, <1>5 DEF Promise!Put, live, new

LEMMA SweepStep ==
  ASSUME TypeOK, Sweep
  PROVE  TypeOK' /\ UNCHANGED Promise!vars
<1>1. TypeOK'
  BY DEF TypeOK, Sweep
<1>2. live' = live
  BY DEF live, TypeOK, Sweep, Expired
<1> QED
  BY <1>1, <1>2 DEF Promise!vars, live, Sweep

LEMMA TickStep ==
  ASSUME TypeOK, Tick
  PROVE  TypeOK' /\ Promise!Tick
<1>1. TypeOK'
  BY DEF TypeOK, Tick
<1>2. ASSUME NEW k \in Keys
      PROVE  (IF Expired(k) THEN NoRecord ELSE store[k])'
               = IF live[k] # NoRecord /\ live[k].expiresAt < now'
                 THEN NoRecord ELSE live[k]
  <2>1. now \in Nat /\ now' = now + 1 /\ store' = store
    BY DEF TypeOK, Tick
  <2>2. CASE store[k] = NoRecord
    BY <2>1, <2>2 DEF live, Expired
  <2>3. CASE store[k] # NoRecord
    <3>1. store[k].expiresAt \in Nat
      BY <2>3 DEF TypeOK, Record
    <3>2. Expired(k) <=> now > store[k].expiresAt
      BY <2>3 DEF Expired
    <3>3. Expired(k)' <=> now + 1 > store[k].expiresAt
      BY <2>1, <2>3 DEF Expired
    <3>4. CASE Expired(k)
      BY <2>1, <3>1, <3>2, <3>3, <3>4 DEF live
    <3>5. CASE ~Expired(k)
      BY <2>1, <2>3, <3>1, <3>3, <3>5 DEF live
    <3> QED
      BY <3>4, <3>5
  <2> QED
    BY <2>2, <2>3
<1>3. live' = [k \in Keys |-> IF live[k] # NoRecord /\ live[k].expiresAt < now'
                              THEN NoRecord ELSE live[k]]
  BY <1>2 DEF live
<1> QED
  BY <1>1, <1>3 DEF Promise!Tick, live, Tick

\* A step of the guard keeps the types and is a step of the promise.
LEMMA NextStep == TypeOK /\ [Next]_vars => TypeOK' /\ [Promise!Next]_(Promise!vars)
<1> SUFFICES ASSUME TypeOK, [Next]_vars
             PROVE  TypeOK' /\ [Promise!Next]_(Promise!vars)
  OBVIOUS
<1>1. CASE UNCHANGED vars
  <2>1. TypeOK'
    BY <1>1 DEF vars, TypeOK
  <2>2. UNCHANGED Promise!vars
    BY <1>1 DEF vars, Promise!vars, Expired
  <2> QED
    BY <2>1, <2>2
<1>2. ASSUME NEW k \in Keys, Lookup(k) PROVE TypeOK' /\ Promise!Next
  BY <1>2, LookupStep DEF Promise!Next
<1>3. ASSUME NEW k \in Keys, NEW r \in Responses, Store(k, r)
      PROVE  TypeOK' /\ Promise!Next
  BY <1>3, StoreStep DEF Promise!Next
<1>4. CASE Sweep
  BY <1>4, SweepStep
<1>5. CASE Tick
  BY <1>5, TickStep DEF Promise!Next
<1> QED
  BY <1>1, <1>2, <1>3, <1>4, <1>5 DEF Next

\* Every variable of the guard keeps its type.
THEOREM TypeCorrect == Spec => []TypeOK
  BY InitHolds, NextStep, PTL DEF Spec

\* Whoever calls Lookup cannot tell that expired entries are deleted late.
THEOREM ImplementsEagerCache == Spec => KeepsPromise
  BY InitHolds, NextStep, PTL DEF Spec, KeepsPromise, Promise!Spec

=============================================================================
