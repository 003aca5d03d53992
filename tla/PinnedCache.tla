----------------------------- MODULE PinnedCache -----------------------------
(***************************************************************************)
(* What HashKeyedCache (src/src/utils/cache.h) promises the threads that   *)
(* use it through MemCache (src/src/neural/memcache.cc): a map from keys   *)
(* to the values it owns, first in first out within a capacity that may    *)
(* change, in which a pinned value outlives its eviction until the last    *)
(* pin is gone. The hash table is left to HashCache, which implements this *)
(* specification.                                                          *)
(*                                                                         *)
(* mutex_ covers an operation, so each is one step; only capacity_ is read *)
(* before the lock is taken, which makes a call a step of its own.         *)
(***************************************************************************)
EXTENDS CacheCalls

VARIABLES
  value,            \* value of each key in the cache, or None
  pins,             \* how often each value is pinned
  evicted           \* evicted_: values evicted while pinned

cache == <<capacity, insertion_order, value, evicted, allocated>>
vars == <<cache, pins, op, key, holding>>

-----------------------------------------------------------------------------
Cached == {value[k] : k \in Key} \ {None}
Alive == Cached \cup evicted

Seen == {insertion_order[i] : i \in DOMAIN insertion_order}

-----------------------------------------------------------------------------
\* Mutant of Excess: one key too many is kept.
ExcessLate(size, limit) == IF size > limit + 1 THEN size - limit ELSE 0

\* How many of so many keys go.
Excess(size, limit) == IF size > limit THEN size - limit ELSE 0

\* Mutant of EvictToCapacity: a value is freed even if it is pinned.
EvictToCapacityFreeing(limit, order, table, count) ==
  LET excess == Excess(Len(order), limit)
      gone == {order[i] : i \in 1..excess}
  IN /\ insertion_order' = SubSeq(order, excess + 1, Len(order))
     /\ value' = [k \in Key |-> IF k \in gone THEN None ELSE table[k]]
     /\ allocated' = count - excess
     /\ UNCHANGED evicted

\* EvictToCapacity(): the oldest keys go; their values are freed unless pinned.
\* order, table and count are insertion_order, value and allocated so far.
EvictToCapacity(limit, order, table, count) ==
  LET excess == Excess(Len(order), limit)
      gone == {order[i] : i \in 1..excess}
      values == {table[k] : k \in gone}
  IN /\ insertion_order' = SubSeq(order, excess + 1, Len(order))
     /\ value' = [k \in Key |-> IF k \in gone THEN None ELSE table[k]]
     /\ evicted' = evicted \cup {v \in values : pins[v] > 0}
     /\ allocated' = count - Cardinality({v \in values : pins[v] = 0})

-----------------------------------------------------------------------------
\* A thread calls Insert() or LookupAndPin(), which do nothing if capacity_ is 0.
Call(t, o, k) ==
  /\ Idle(t) /\ capacity # 0
  /\ op' = [op EXCEPT ![t] = o]
  /\ key' = [key EXCEPT ![t] = k]
  /\ UNCHANGED <<cache, pins, holding>>

\* The value of a new key is added; another value for a key is thrown away.
Insert(t, v) ==
  /\ op[t] = "insert" /\ v \in Value \ Alive
  /\ IF value[key[t]] = None
     THEN EvictToCapacity(capacity, Append(insertion_order, key[t]),
                          [value EXCEPT ![key[t]] = v], allocated + 1)
     ELSE UNCHANGED <<insertion_order, value, evicted, allocated>>
  /\ Return(t)
  /\ UNCHANGED <<capacity, pins, holding>>

LookupAndPin(t) ==
  /\ op[t] = "lookup"
  /\ IF value[key[t]] = None
     THEN Return(t) /\ UNCHANGED <<pins, holding>>
     ELSE /\ pins' = [pins EXCEPT ![value[key[t]]] = @ + 1]
          /\ holding' = [holding EXCEPT ![t] = value[key[t]]]
          /\ op' = [op EXCEPT ![t] = "none"]
          /\ UNCHANGED key
  /\ UNCHANGED cache

\* Mutant of Unpin: an evicted value is kept although its last pin is gone.
UnpinKeeping(t) ==
  LET v == holding[t] IN
  /\ v # None
  /\ pins' = [pins EXCEPT ![v] = @ - 1]
  /\ holding' = [holding EXCEPT ![t] = None]
  /\ Return(t)
  /\ UNCHANGED cache

\* An evicted value is freed with its last pin.
Unpin(t) ==
  LET v == holding[t] IN
  /\ v # None
  /\ pins' = [pins EXCEPT ![v] = @ - 1]
  /\ IF v \in evicted /\ pins[v] = 1
     THEN evicted' = evicted \ {v} /\ allocated' = allocated - 1
     ELSE UNCHANGED <<evicted, allocated>>
  /\ holding' = [holding EXCEPT ![t] = None]
  /\ Return(t)
  /\ UNCHANGED <<capacity, insertion_order, value>>

SetCapacity(c) ==
  /\ c # capacity
  /\ EvictToCapacity(c, insertion_order, value, allocated)
  /\ capacity' = c
  /\ UNCHANGED <<pins, op, key, holding>>

Clear ==
  /\ EvictToCapacity(0, insertion_order, value, allocated)
  /\ UNCHANGED <<capacity, pins, op, key, holding>>

-----------------------------------------------------------------------------
Init ==
  /\ capacity \in Capacities
  /\ insertion_order = <<>>
  /\ value = [k \in Key |-> None]
  /\ pins = [v \in Value |-> 0]
  /\ evicted = {} /\ allocated = 0
  /\ op = [t \in Thread |-> "none"]
  /\ key = [t \in Thread |-> None]
  /\ holding = [t \in Thread |-> None]

ThreadStep(t) ==
  \/ \E o \in {"insert", "lookup"}, k \in Key : Call(t, o, k)
  \/ \E v \in Value : Insert(t, v)
  \/ LookupAndPin(t)
  \/ Unpin(t)

Next ==
  \/ \E t \in Thread : ThreadStep(t)
  \/ \E c \in Capacities : SetCapacity(c)
  \/ Clear

Spec == Init /\ [][Next]_vars

-----------------------------------------------------------------------------
(* Invariants.                                                             *)

TypeOK ==
  /\ capacity \in Nat
  /\ insertion_order \in Seq(Key)
  /\ value \in [Key -> Value \cup {None}]
  /\ pins \in [Value -> Nat]
  /\ evicted \subseteq Value
  /\ allocated \in Nat
  /\ op \in [Thread -> {"none", "insert", "lookup"}]
  /\ key \in [Thread -> Key \cup {None}]
  /\ holding \in [Thread -> Value \cup {None}]

\* cache.h:39: values are deleted upon eviction, so using them requires pinning them:
\* no thread reads a value that was freed, however the cache was changed meanwhile.
HeldIsAlive == \A t \in Thread : holding[t] \in Alive \cup {None}

\* Each lock accounts for one pin, also after the key was inserted anew.
PinsMatchHolders == \A v \in Value : pins[v] = Cardinality(Holders(v))

\* The keys in the order are those in the table, each once, within the capacity.
OrderMatchesTable ==
  /\ Seen = {k \in Key : value[k] # None}
  /\ \A i, j \in DOMAIN insertion_order : insertion_order[i] = insertion_order[j] => i = j
  /\ Len(insertion_order) <= capacity

\* Nothing leaks: allocated_ counts the values that exist, which the destructor relies
\* upon, and an evicted one exists only as long as somebody has it pinned.
AllocatedExact ==
  /\ allocated = Cardinality(Alive)
  /\ \A v \in evicted : pins[v] > 0

-----------------------------------------------------------------------------
(* Properties of steps.                                                    *)

\* cache.h:44: "Does not support replace!"
NeverReplaced ==
  [][\A k \in Key : value[k] # None => value'[k] \in {value[k], None}]_vars
==============================================================================
