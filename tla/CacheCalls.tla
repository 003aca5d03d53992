------------------------------ MODULE CacheCalls ------------------------------
(***************************************************************************)
(* What PinnedCache and HashCache have in common: the threads that call    *)
(* HashKeyedCache (src/src/utils/cache.h), and those of its members that   *)
(* both keep.                                                              *)
(***************************************************************************)
EXTENDS Naturals, Sequences, FiniteSets

CONSTANTS
  Thread,     \* threads that look up and insert
  Key,
  Value,      \* addresses of values; a freed one may be allocated again
  Capacities, \* what SetCapacity() is called with
  None        \* no key or no value

ASSUME CacheAssumption ==
  /\ IsFiniteSet(Thread) /\ IsFiniteSet(Value)
  /\ None \notin Key \cup Value
  /\ Capacities \subseteq Nat

VARIABLES
  capacity,         \* capacity_
  insertion_order,  \* insertion_order_: the keys in the cache, oldest first
  allocated,        \* allocated_
  op,               \* what each thread is about to do, and ...
  key,              \* ... with which key
  holding           \* value its HashKeyedCacheLock holds, or None

Holders(v) == {t \in Thread : holding[t] = v}

Idle(t) == op[t] = "none" /\ holding[t] = None

\* The operation is over; only a lock remembers its key.
Return(t) == op' = [op EXCEPT ![t] = "none"] /\ key' = [key EXCEPT ![t] = None]
==============================================================================
