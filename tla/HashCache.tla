------------------------------ MODULE HashCache ------------------------------
(***************************************************************************)
(* HashKeyedCache (src/src/utils/cache.h) with its hash table: open        *)
(* addressing with linear probing, and evictions that move later entries   *)
(* back over the gap they leave. It implements PinnedCache, whose          *)
(* variables are named the same where they are the same.                   *)
(***************************************************************************)
EXTENDS CacheCalls, FiniteSetsExt, SequencesExt

\* Keys are hashes of positions.
ASSUME HashCacheAssumption ==
  /\ Key \subseteq Nat
  /\ None \notin [key : Key, value : Value, pins : Nat]

VARIABLES
  size,      \* size_
  hash,      \* hash_: an entry or None (not in_use) at each index
  evicted_   \* entries evicted while pinned

hash_vars == <<capacity, insertion_order, allocated, op, key, holding, size, hash, evicted_>>
call == <<op, key, holding>>

-----------------------------------------------------------------------------
(* The hash table. An operator that returns a table takes one, too.        *)

\* Mutant of HashSize: no spare room.
HashSizeTight(limit) == IF limit = 0 THEN 1 ELSE limit

\* kLoadFactor leaves room for probing.
HashSize(limit) == (limit * 19) \div 10 + 1

EmptyHash(limit) == [i \in 0..HashSize(limit) - 1 |-> None]

Slots(h) == Cardinality(DOMAIN h)

Entry(k, v, p) == [key |-> k, value |-> v, pins |-> p]

\* The slots probed for a key.
Probe(h, k, i) == (k + i) % Slots(h)

\* Where probing ends: at the key, or else at a slot that is not in use.
Find(h, k) ==
  Probe(h, k, Min({i \in DOMAIN h :
                     h[Probe(h, k, i)] = None \/ h[Probe(h, k, i)].key = k}))

\* EvictItem() does not stop at free slots: the key is somewhere.
Locate(h, k) ==
  Probe(h, k, Min({i \in DOMAIN h :
                     h[Probe(h, k, i)] # None /\ h[Probe(h, k, i)].key = k}))

Found(h, k) == h[Find(h, k)] # None

Put(h, entry) == [h EXCEPT ![Find(h, entry.key)] = entry]

InRange(target, start, end) ==
  IF start <= end THEN target \in start..end ELSE target >= start \/ target <= end

\* Mutant of CloseGap: the gap is left open.
LeaveGap(gap, next) == gap

\* One turn of the loop that closes the gap at idx: an entry whose probing would
\* start before the gap, or at it, moves into it.
CloseGap(gap, next) ==
  IF gap.closed \/ gap.hash[next] = None THEN [gap EXCEPT !.closed = TRUE]
  ELSE IF InRange(gap.hash[next].key % Slots(gap.hash), gap.idx + 1, next) THEN gap
  ELSE [gap EXCEPT !.hash[next] = None, !.hash[gap.idx] = gap.hash[next], !.idx = next]

\* The table without an entry.
Vacate(h, idx) ==
  FoldLeft(CloseGap, [hash |-> [h EXCEPT ![idx] = None], idx |-> idx, closed |-> FALSE],
           [i \in 1..2 * Slots(h) |-> (idx + i) % Slots(h)]).hash

\* SetCapacity() moves every entry to a table of another size, in slot order.
Rehash(h, limit) ==
  FoldLeft(LAMBDA g, entry : IF entry = None THEN g ELSE Put(g, entry),
           EmptyHash(limit), [i \in 1..Slots(h) |-> h[i - 1]])

\* EvictItem().
EvictItem(c) ==
  LET idx == Locate(c.hash, Head(c.order))
      item == c.hash[idx]
  IN [hash |-> Vacate(c.hash, idx),
      order |-> Tail(c.order),
      evicted |-> IF item.pins = 0 THEN c.evicted ELSE c.evicted \cup {item},
      allocated |-> IF item.pins = 0 THEN c.allocated - 1 ELSE c.allocated,
      size |-> c.size - 1]

EvictedToCapacity(limit, c) ==
  FoldLeft(LAMBDA d, i : IF d.size > limit THEN EvictItem(d) ELSE d, c,
           [i \in 1..c.size |-> i])

Current == [hash |-> hash, order |-> insertion_order, evicted |-> evicted_,
            allocated |-> allocated, size |-> size]

Becomes(c) ==
  /\ hash' = c.hash /\ insertion_order' = c.order /\ evicted_' = c.evicted
  /\ allocated' = c.allocated /\ size' = c.size

-----------------------------------------------------------------------------
Entries == {hash[i] : i \in DOMAIN hash} \ {None}
HashAlive == {e.value : e \in Entries \cup evicted_}

HashCall(t, o, k) ==
  /\ Idle(t) /\ capacity # 0
  /\ op' = [op EXCEPT ![t] = o]
  /\ key' = [key EXCEPT ![t] = k]
  /\ UNCHANGED <<capacity, insertion_order, allocated, holding, size, hash, evicted_>>

HashInsert(t, v) ==
  /\ op[t] = "insert" /\ v \in Value \ HashAlive
  /\ IF Found(hash, key[t])
     THEN UNCHANGED <<insertion_order, allocated, size, hash, evicted_>>
     ELSE Becomes(EvictedToCapacity(capacity,
            [Current EXCEPT !.hash = Put(@, Entry(key[t], v, 0)),
                            !.order = Append(@, key[t]),
                            !.size = @ + 1, !.allocated = @ + 1]))
  /\ Return(t)
  /\ UNCHANGED <<capacity, holding>>

HashLookupAndPin(t) ==
  LET idx == Find(hash, key[t]) IN
  /\ op[t] = "lookup"
  /\ IF hash[idx] = None
     THEN Return(t) /\ UNCHANGED <<hash, holding>>
     ELSE /\ hash' = [hash EXCEPT ![idx].pins = @ + 1]
          /\ holding' = [holding EXCEPT ![t] = hash[idx].value]
          /\ op' = [op EXCEPT ![t] = "none"]
          /\ UNCHANGED key
  /\ UNCHANGED <<capacity, insertion_order, allocated, size, evicted_>>

\* The evicted entry a lock holds, if it was evicted.
HeldEvicted(t) == {e \in evicted_ : e.key = key[t] /\ e.value = holding[t]}

\* The evicted entries are searched first, then the table, for this very value.
HashUnpin(t) ==
  /\ holding[t] # None
  /\ \/ \E e \in HeldEvicted(t) :
          /\ evicted_' = (evicted_ \ {e}) \cup
               {d \in {[e EXCEPT !.pins = @ - 1]} : d.pins > 0}
          /\ allocated' = IF e.pins = 1 THEN allocated - 1 ELSE allocated
          /\ UNCHANGED hash
     \/ /\ HeldEvicted(t) = {}
        /\ hash' = [hash EXCEPT ![Find(hash, key[t])].pins = @ - 1]
        /\ UNCHANGED <<evicted_, allocated>>
  /\ holding' = [holding EXCEPT ![t] = None]
  /\ Return(t)
  /\ UNCHANGED <<capacity, insertion_order, size>>

HashSetCapacity(c) ==
  /\ c # capacity
  /\ LET left == EvictedToCapacity(c, Current) IN
       Becomes([left EXCEPT !.hash = Rehash(@, c)])
  /\ capacity' = c
  /\ UNCHANGED call

HashClear ==
  /\ Becomes(EvictedToCapacity(0, Current))
  /\ UNCHANGED <<capacity, call>>

-----------------------------------------------------------------------------
HashInit ==
  /\ capacity \in Capacities
  /\ hash = EmptyHash(capacity)
  /\ insertion_order = <<>> /\ size = 0 /\ allocated = 0 /\ evicted_ = {}
  /\ op = [t \in Thread |-> "none"]
  /\ key = [t \in Thread |-> None]
  /\ holding = [t \in Thread |-> None]

HashThreadStep(t) ==
  \/ \E o \in {"insert", "lookup"}, k \in Key : HashCall(t, o, k)
  \/ \E v \in Value : HashInsert(t, v)
  \/ HashLookupAndPin(t)
  \/ HashUnpin(t)

HashNext ==
  \/ \E t \in Thread : HashThreadStep(t)
  \/ \E c \in Capacities : HashSetCapacity(c)
  \/ HashClear

HashSpec == HashInit /\ [][HashNext]_hash_vars

-----------------------------------------------------------------------------
(* Properties.                                                             *)

EntryType == [key : Key, value : Value, pins : Nat]

HashTypeOK ==
  /\ capacity \in Nat /\ size \in Nat /\ allocated \in Int
  /\ insertion_order \in Seq(Key)
  /\ hash \in [0..HashSize(capacity) - 1 -> EntryType \cup {None}]
  /\ evicted_ \subseteq EntryType
  /\ op \in [Thread -> {"none", "insert", "lookup"}]
  /\ key \in [Thread -> Key \cup {None}]
  /\ holding \in [Thread -> Value \cup {None}]

\* Whoever takes the lock can probe for any key: the loops of Insert(), LookupAndPin(),
\* ContainsKey() and Unpin() have no other end than a slot that is not in use.
ProbingEnds == \E i \in DOMAIN hash : hash[i] = None

-----------------------------------------------------------------------------
(* Refinement: the table as a function from keys to values.                *)

Lookup(k) == {e \in Entries : e.key = k}
HaveValue(v) == {e \in Entries \cup evicted_ : e.value = v}

ValueOfKey ==
  [k \in Key |-> IF Lookup(k) = {} THEN None ELSE (CHOOSE e \in Lookup(k) : TRUE).value]
PinsOfValue ==
  [v \in Value |-> IF HaveValue(v) = {} THEN 0 ELSE (CHOOSE e \in HaveValue(v) : TRUE).pins]
EvictedValues == {e.value : e \in evicted_}

Cache == INSTANCE PinnedCache WITH
  value <- ValueOfKey, pins <- PinsOfValue, evicted <- EvictedValues

\* The hash table keeps every promise of PinnedCache.
ImplementsPinnedCache == Cache!Spec
==============================================================================
