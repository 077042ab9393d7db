--------------------------------- MODULE LRU ---------------------------------
(***************************************************************************)
(* warmup's LRU cache: a map from keys to the elements of a list, most     *)
(* recently used first.  Get and Put are critical sections of one mutex.   *)
(***************************************************************************)
EXTENDS Integers, Sequences, SequencesExt, Functions

CONSTANTS
  Keys, Values,
  Capacities    \* the capacities a cache may be made with

VARIABLES
  cap,       \* the capacity
  items,     \* the keys in the map, with the values of their elements
  recency,   \* the keys in the order of the list
  used,      \* history: all keys ever hit or put, latest first
  written    \* history: the value put last under each of them

vars == <<cap, items, recency, used, written>>

Init ==
  /\ cap \in Capacities
  /\ items = <<>>
  /\ recency = <<>>
  /\ used = <<>>
  /\ written = <<>>

\* s without key, which it has once or not at all.
Without(s, key) ==
  IF \E n \in 1..Len(s) : s[n] = key
  THEN RemoveAt(s, CHOOSE n \in 1..Len(s) : s[n] = key)
  ELSE s

\* Fault: the element stays where it is.
FaultMoveToFront(key, s) == s

\* list.MoveToFront, or PushFront of a new key.
MoveToFront(key, s) == <<key>> \o Without(s, key)

Note(key) == used' = <<key>> \o Without(used, key)

Hit(key) ==
  /\ key \in DOMAIN items
  /\ recency' = MoveToFront(key, recency)
  /\ Note(key)
  /\ UNCHANGED <<cap, items, written>>

Miss(key) ==
  /\ key \notin DOMAIN items
  /\ UNCHANGED vars

Get(key) == Hit(key) \/ Miss(key)

\* The value of key in f becomes val, whether or not f has the key.
Assign(f, key, val) == [k \in DOMAIN f \cup {key} |-> IF k = key THEN val ELSE f[k]]

Update(key, val) ==
  /\ key \in DOMAIN items
  /\ items' = Assign(items, key, val)
  /\ recency' = MoveToFront(key, recency)

\* The last of the list makes room, if the list is as long as it may be and
\* has a last.
Evicted == IF Len(recency) >= cap /\ recency # <<>> THEN {Last(recency)} ELSE {}

Insert(key, val) ==
  /\ key \notin DOMAIN items
  /\ items' = Assign(Restrict(items, DOMAIN items \ Evicted), key, val)
  /\ recency' = <<key>> \o IF Evicted = {} THEN recency ELSE Front(recency)

Put(key, val) ==
  /\ Update(key, val) \/ Insert(key, val)
  /\ Note(key)
  /\ written' = Assign(written, key, val)
  /\ UNCHANGED cap

Next == \E key \in Keys : Get(key) \/ \E val \in Values : Put(key, val)

Spec == Init /\ [][Next]_vars

----------------------------------------------------------------------------

\* A cache of capacity zero holds one item.
Size == IF cap = 0 THEN 1 ELSE cap

\* The cache holds exactly the keys used last, as many as it has room for,
\* each with the value put last, and the map and the list agree: whatever was
\* evicted, put again or only read, an older key never outlives a younger one.
HoldsMostRecent ==
  /\ recency = SubSeq(used, 1, IF Len(used) < Size THEN Len(used) ELSE Size)
  /\ items = Restrict(written, ToSet(recency))

=============================================================================
