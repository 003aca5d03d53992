----------------------------- MODULE CacheProofs -----------------------------
(***************************************************************************)
(* Theorems about PinnedCache and HashCache for all threads, keys, values  *)
(* and capacities.                                                         *)
(*                                                                         *)
(* PinnedCache: a pinned value is safe because pins are counted exactly    *)
(* and no two keys share a value; that the books of the cache agree        *)
(* (Consistent) is what makes the eviction of the oldest keys hit what     *)
(* they stand for.                                                         *)
(*                                                                         *)
(* HashCache: the table is Good at all times, that is no free slot comes   *)
(* before an entry on the way from its home. What is hard is that removing *)
(* an entry keeps it so. Seen from any free slot the circle of slots is a  *)
(* line (Linear), and along that line the loop that closes the gap has an  *)
(* ordinary invariant (Gap). A full table has no such slot, but can only   *)
(* have one slot or two. With that, probing ends (ProbingAlwaysEnds), and  *)
(* every step is a step of PinnedCache (HashRefined).                      *)
(***************************************************************************)
EXTENDS PinnedCache, HashCache, Integers, FiniteSetTheorems, SequenceTheorems, TLAPS

-----------------------------------------------------------------------------
(* The inductive invariant of PinnedCache.                                 *)

Values(table) == {table[k] : k \in Key} \ {None}

\* The books agree: order, table, away and count stand for insertion_order, value,
\* evicted and allocated.
Consistent(order, table, away, count) ==
  /\ order \in Seq(Key)
  /\ table \in [Key -> Value \cup {None}]
  /\ away \subseteq Value
  /\ \A i \in 1..Len(order) : table[order[i]] # None
  /\ \A k \in Key : table[k] # None => \E i \in 1..Len(order) : order[i] = k
  /\ \A i, j \in 1..Len(order) : order[i] = order[j] => i = j
  /\ \A j, k \in Key : table[j] = table[k] /\ table[j] # None => j = k
  /\ \A k \in Key : table[k] \notin away
  /\ \A v \in away : pins[v] > 0
  /\ \A t \in Thread : holding[t] \in Values(table) \cup away \cup {None}
  /\ count = Cardinality(Values(table) \cup away)

\* Pins are counted exactly.
PinsCounted ==
  /\ pins \in [Value -> Nat]
  /\ holding \in [Thread -> Value \cup {None}]
  /\ PinsMatchHolders

\* A call carries its key, and its thread holds nothing yet.
CallsInOrder ==
  /\ op \in [Thread -> {"none", "insert", "lookup"}]
  /\ key \in [Thread -> Key \cup {None}]
  /\ \A t \in Thread : op[t] # "none" => key[t] \in Key /\ holding[t] = None

CacheInv ==
  /\ capacity \in Nat /\ Len(insertion_order) <= capacity
  /\ Consistent(insertion_order, value, evicted, allocated)
  /\ PinsCounted
  /\ CallsInOrder

-----------------------------------------------------------------------------
(* Lemmas about the operators.                                             *)

\* Holders are finitely many, and a held value has a holder.
LEMMA HoldersFinite ==
  ASSUME NEW v
  PROVE  /\ IsFiniteSet(Holders(v)) /\ Cardinality(Holders(v)) \in Nat
         /\ \A t \in Thread : holding[t] = v => Cardinality(Holders(v)) > 0
<1>1. Holders(v) \subseteq Thread
    BY DEF Holders
<1>2. IsFiniteSet(Holders(v)) /\ Cardinality(Holders(v)) \in Nat
    BY <1>1, CacheAssumption, FS_Subset, FS_CardinalityType
<1>3. ASSUME NEW t \in Thread, holding[t] = v PROVE Cardinality(Holders(v)) > 0
  <2>1. t \in Holders(v)
      BY <1>3 DEF Holders
  <2>2. Cardinality(Holders(v)) # 0
      BY <2>1, <1>2, FS_EmptySet
  <2> QED
      BY <2>2, <1>2
<1> QED
    BY <1>2, <1>3

\* The values the cache owns are finitely many.
LEMMA ValuesFinite ==
  ASSUME NEW table \in [Key -> Value \cup {None}], NEW away \in SUBSET Value
  PROVE  IsFiniteSet(Values(table) \cup away)
<1>1. Values(table) \cup away \subseteq Value
    BY DEF Values
<1> QED
    BY <1>1, CacheAssumption, FS_Subset

\* Taking a part out of a finite set takes its cardinality off.
LEMMA CardinalityLess ==
  ASSUME NEW S, NEW T \in SUBSET S, IsFiniteSet(S)
  PROVE  /\ Cardinality(S \ T) = Cardinality(S) - Cardinality(T)
         /\ Cardinality(S \ T) \in Nat
<1>1. IsFiniteSet(T) /\ IsFiniteSet(S \ T)
    BY FS_Subset
<1>2. Cardinality(T) \in Nat /\ Cardinality(S \ T) \in Nat /\ Cardinality(S) \in Nat
    BY <1>1, FS_CardinalityType
<1>3. (S \ T) \cup T = S /\ (S \ T) \cap T = {}
    OBVIOUS
<1>4. Cardinality((S \ T) \cup T)
        = Cardinality(S \ T) + Cardinality(T) - Cardinality((S \ T) \cap T)
    BY <1>1, FS_Union
<1>5. Cardinality(S) = Cardinality(S \ T) + Cardinality(T) - 0
    BY <1>3, <1>4, FS_EmptySet
<1> QED
    BY <1>2, <1>5

\* What is left of the order starts after the excess.
LEMMA OrderLeft ==
  ASSUME NEW order \in Seq(Key), NEW limit \in Nat, NEW rest,
         rest = SubSeq(order, Excess(Len(order), limit) + 1, Len(order))
  PROVE  /\ Excess(Len(order), limit) \in 0..Len(order)
         /\ rest \in Seq(Key)
         /\ Len(rest) = Len(order) - Excess(Len(order), limit)
         /\ Len(rest) <= limit
         /\ \A i \in 1..Len(rest) : rest[i] = order[i + Excess(Len(order), limit)]
<1> DEFINE excess == Excess(Len(order), limit)
<1>1. Len(order) \in Nat /\ \A i \in 1..Len(order) : order[i] \in Key
    OBVIOUS
<1>2. excess \in 0..Len(order) /\ Len(order) - excess <= limit
    BY <1>1 DEF Excess
<1> HIDE DEF excess
<1>3. /\ SubSeq(order, excess + 1, Len(order)) \in Seq(Key)
      /\ Len(SubSeq(order, excess + 1, Len(order)))
           = IF excess + 1 <= Len(order) THEN Len(order) - (excess + 1) + 1 ELSE 0
      /\ \A i \in 1..Len(order) - (excess + 1) + 1 :
           SubSeq(order, excess + 1, Len(order))[i] = order[excess + 1 + i - 1]
  <2>1. \A i \in excess + 1..Len(order) : order[i] \in Key
      BY <1>1, <1>2
  <2> QED
      BY <1>1, <1>2, <2>1, SubSeqProperties
<1>4. /\ rest \in Seq(Key)
      /\ Len(rest) = IF excess + 1 <= Len(order) THEN Len(order) - (excess + 1) + 1 ELSE 0
      /\ \A i \in 1..Len(order) - (excess + 1) + 1 : rest[i] = order[excess + 1 + i - 1]
    BY <1>3, Zenon DEF excess
<1> DEFINE n == Len(order)
           m == Len(rest)
<1>5. n \in Nat /\ excess \in 0..n /\ m = IF excess + 1 <= n THEN n - (excess + 1) + 1 ELSE 0
    BY <1>1, <1>2, <1>4
<1>6. m = n - excess
  <2> HIDE DEF n, m
  <2> QED
      BY <1>5
<1>7. \A i \in 1..m : i \in 1..n - (excess + 1) + 1 /\ excess + 1 + i - 1 = i + excess
  <2> HIDE DEF n, m
  <2> QED
      BY <1>5, <1>6
<1>8. \A i \in 1..Len(rest) : rest[i] = order[i + excess]
    BY <1>4, <1>7
<1> QED
    BY <1>2, <1>4, <1>6, <1>8 DEF excess

-----------------------------------------------------------------------------
(* Eviction keeps the books.                                               *)

Gone(order, limit) == {order[i] : i \in 1..Excess(Len(order), limit)}

Freed(order, table, limit) == {v \in {table[k] : k \in Gone(order, limit)} : pins[v] = 0}

\* What EvictToCapacity() makes of books that agree still agrees, within the capacity:
\* in particular, whatever a thread holds is kept.
LEMMA Eviction ==
  ASSUME NEW order, NEW table, NEW count, NEW limit \in Nat,
         Consistent(order, table, evicted, count), PinsCounted,
         EvictToCapacity(limit, order, table, count)
  PROVE  /\ Consistent(insertion_order', value', evicted', allocated')
         /\ Len(insertion_order') <= limit
<1> DEFINE excess == Excess(Len(order), limit)
           gone == Gone(order, limit)
           freed == Freed(order, table, limit)
<1>1. /\ order \in Seq(Key) /\ table \in [Key -> Value \cup {None}] /\ evicted \subseteq Value
      /\ Len(order) \in Nat
    BY DEF Consistent
<1>2. /\ insertion_order' = SubSeq(order, excess + 1, Len(order))
      /\ value' = [k \in Key |-> IF k \in gone THEN None ELSE table[k]]
      /\ evicted' = evicted \cup {v \in {table[k] : k \in gone} : pins[v] > 0}
      /\ allocated' = count - Cardinality(freed)
    BY DEF EvictToCapacity, Gone, Freed
<1>3. /\ excess \in 0..Len(order)
      /\ insertion_order' \in Seq(Key)
      /\ Len(insertion_order') = Len(order) - excess
      /\ Len(insertion_order') <= limit
      /\ \A i \in 1..Len(insertion_order') : insertion_order'[i] = order[i + excess]
    BY <1>1, <1>2, OrderLeft, ZenonT(60)
<1>4. /\ gone = {order[i] : i \in 1..excess}
      /\ \A i \in 1..excess : i \in 1..Len(order) /\ order[i] \in Key /\ table[order[i]] # None
  <2>1. \A i \in 1..excess : i \in 1..Len(order)
      BY <1>1, <1>3
  <2> QED
      BY <1>1, <2>1 DEF Consistent, Gone
<1> HIDE DEF excess, gone, freed
<1>5. gone \subseteq Key /\ \A k \in gone : table[k] \in Value
    BY <1>1, <1>4
<1>6. value' \in [Key -> Value \cup {None}] /\ evicted' \subseteq Value
    BY <1>1, <1>2, <1>5
<1>7. \A k \in gone : value'[k] = None
    BY <1>2, <1>5
<1>8. \A k \in Key \ gone : value'[k] = table[k]
    BY <1>2
<1>9. \A i \in 1..Len(insertion_order') : value'[insertion_order'[i]] # None
  <2> SUFFICES ASSUME NEW i \in 1..Len(insertion_order')
               PROVE  value'[order[i + excess]] # None
      BY <1>3
  <2>1. i + excess \in 1..Len(order) /\ order[i + excess] \in Key
      BY <1>1, <1>3
  <2>2. table[order[i + excess]] # None
      BY <2>1 DEF Consistent
  <2>3. order[i + excess] \notin gone
    <3> SUFFICES ASSUME NEW j \in 1..excess, order[j] = order[i + excess] PROVE FALSE
        BY <1>4
    <3>1. j = i + excess
        BY <1>4, <2>1 DEF Consistent
    <3> QED
        BY <3>1, <1>3
  <2> QED
      BY <1>8, <2>1, <2>2, <2>3
<1>10. \A k \in Key : value'[k] # None => \E i \in 1..Len(insertion_order') : insertion_order'[i] = k
  <2> SUFFICES ASSUME NEW k \in Key, value'[k] # None
               PROVE  \E i \in 1..Len(insertion_order') : insertion_order'[i] = k
      OBVIOUS
  <2>1. k \notin gone /\ table[k] # None
      BY <1>7, <1>8
  <2>2. PICK i \in 1..Len(order) : order[i] = k
      BY <2>1 DEF Consistent
  <2>3. i \notin 1..excess
      BY <1>4, <2>1, <2>2
  <2>4. i - excess \in 1..Len(insertion_order') /\ i - excess + excess = i
      BY <1>1, <1>3, <2>3
  <2> QED
      BY <1>3, <2>2, <2>4
<1>11. \A i, j \in 1..Len(insertion_order') : insertion_order'[i] = insertion_order'[j] => i = j
  <2> SUFFICES ASSUME NEW i \in 1..Len(insertion_order'), NEW j \in 1..Len(insertion_order'),
                      order[i + excess] = order[j + excess]
               PROVE  i = j
      BY <1>3
  <2>1. i + excess \in 1..Len(order) /\ j + excess \in 1..Len(order)
      BY <1>1, <1>3
  <2>2. i + excess = j + excess
      BY <2>1 DEF Consistent
  <2> QED
      BY <2>2, <1>3
<1>12. \A j, k \in Key : value'[j] = value'[k] /\ value'[j] # None => j = k
    BY <1>7, <1>8 DEF Consistent
<1>13. \A k \in Key : value'[k] \notin evicted'
  <2> SUFFICES ASSUME NEW k \in Key, value'[k] \in evicted' PROVE FALSE
      OBVIOUS
  <2>1. k \notin gone /\ value'[k] = table[k] /\ table[k] # None
      BY <1>6, <1>7, <1>8, CacheAssumption
  <2>2. table[k] \notin evicted
      BY DEF Consistent
  <2>3. PICK j \in gone : table[k] = table[j]
      BY <1>2, <2>1, <2>2
  <2>4. j = k
      BY <1>5, <2>1, <2>3 DEF Consistent
  <2> QED
      BY <2>1, <2>4
<1>14. \A v \in evicted' : pins[v] > 0
    BY <1>2 DEF Consistent
<1>15. freed = {v \in {table[k] : k \in gone} : pins[v] = 0}
    BY DEF freed, Freed, gone
<1>16. freed \subseteq Values(table)
    BY <1>5, <1>15, CacheAssumption DEF Values
<1>17. Values(value') \cup evicted' = (Values(table) \cup evicted) \ freed
  <2>1. ASSUME NEW v \in Values(value') \cup evicted'
        PROVE  v \in (Values(table) \cup evicted) \ freed
    <3>1. CASE v \in Values(value')
      <4>1. PICK k \in Key : v = value'[k] /\ v # None
          BY <3>1 DEF Values
      <4>2. k \notin gone /\ v = table[k]
          BY <1>7, <1>8, <4>1
      <4>3. v \notin freed
          BY <1>5, <1>15, <4>1, <4>2 DEF Consistent
      <4> QED
          BY <4>1, <4>2, <4>3 DEF Values
    <3>2. CASE v \in evicted
      <4>1. pins[v] > 0
          BY <3>2 DEF Consistent
      <4> QED
          BY <1>15, <3>2, <4>1
    <3>3. CASE v \in {table[k] : k \in gone} /\ pins[v] > 0
        BY <1>5, <1>15, <3>3, CacheAssumption DEF Values
    <3> QED
        BY <1>2, <2>1, <3>1, <3>2, <3>3
  <2>2. ASSUME NEW v \in (Values(table) \cup evicted) \ freed
        PROVE  v \in Values(value') \cup evicted'
    <3>1. CASE v \in evicted
        BY <1>2, <3>1
    <3>2. CASE v \in Values(table)
      <4>1. PICK k \in Key : v = table[k] /\ v # None
          BY <3>2 DEF Values
      <4>2. CASE k \in gone
        <5>1. v \in Value /\ pins[v] \in Nat /\ pins[v] # 0
            BY <1>5, <1>15, <2>2, <4>1, <4>2 DEF PinsCounted
        <5> QED
            BY <1>2, <4>1, <4>2, <5>1
      <4>3. CASE k \notin gone
          BY <1>8, <4>1, <4>3 DEF Values
      <4> QED
          BY <4>2, <4>3
    <3> QED
        BY <2>2, <3>1, <3>2
  <2> QED
      BY <2>1, <2>2
<1>18. allocated' = Cardinality(Values(value') \cup evicted')
  <2>1. IsFiniteSet(Values(table) \cup evicted)
      BY <1>1, ValuesFinite
  <2>2. Cardinality((Values(table) \cup evicted) \ freed)
          = Cardinality(Values(table) \cup evicted) - Cardinality(freed)
      BY <1>16, <2>1, CardinalityLess
  <2> QED
      BY <1>2, <1>17, <2>2 DEF Consistent
<1>19. \A t \in Thread : holding[t] \in Values(value') \cup evicted' \cup {None}
  <2> SUFFICES ASSUME NEW t \in Thread, holding[t] # None
               PROVE  holding[t] \in (Values(table) \cup evicted) \ freed
      BY <1>17
  <2>1. holding[t] \in Value /\ holding[t] \in Values(table) \cup evicted
      BY DEF PinsCounted, Consistent
  <2>2. pins[holding[t]] > 0
      BY <2>1, HoldersFinite DEF PinsCounted, PinsMatchHolders
  <2> QED
      BY <1>15, <2>1, <2>2
<1> QED
    BY <1>3, <1>6, <1>9, <1>10, <1>11, <1>12, <1>13, <1>14, <1>18, <1>19 DEF Consistent

-----------------------------------------------------------------------------
(* The invariant is inductive.                                             *)

\* An empty cache is consistent.
LEMMA CacheInvInit == Init => CacheInv
<1> SUFFICES ASSUME Init PROVE CacheInv
    OBVIOUS
<1> USE DEF Init
<1>1. capacity \in Nat /\ Len(insertion_order) = 0
    BY CacheAssumption
<1>2. Values(value) \cup evicted = {}
    BY DEF Values
<1>3. allocated = Cardinality(Values(value) \cup evicted)
    BY <1>2, FS_EmptySet
<1>4. Consistent(insertion_order, value, evicted, allocated)
    BY <1>1, <1>3 DEF Consistent
<1>5. PinsCounted
  <2>1. \A v \in Value : Holders(v) = {}
      BY CacheAssumption DEF Holders
  <2>2. \A v \in Value : Cardinality(Holders(v)) = 0
      BY <2>1, FS_EmptySet
  <2> QED
      BY <2>2 DEF PinsCounted, PinsMatchHolders
<1>6. CallsInOrder
    BY DEF CallsInOrder
<1> QED
    BY <1>1, <1>4, <1>5, <1>6 DEF CacheInv

\* Pins and locks stay as they are.
LEMMA PinsUntouched ==
  ASSUME PinsCounted, UNCHANGED <<pins, holding>>
  PROVE  PinsCounted'
BY DEF PinsCounted, PinsMatchHolders, Holders

LEMMA CallKeeps ==
  ASSUME CacheInv, NEW t \in Thread, NEW o \in {"insert", "lookup"}, NEW k \in Key,
         Call(t, o, k)
  PROVE  CacheInv'
<1> USE DEF CacheInv, Call, Idle, cache
<1>1. capacity' \in Nat /\ Len(insertion_order') <= capacity'
    OBVIOUS
<1>2. Consistent(insertion_order, value, evicted, allocated)'
    BY DEF Consistent, Values
<1>3. PinsCounted'
    BY PinsUntouched
<1>4. CallsInOrder'
    BY DEF CallsInOrder
<1> QED
    BY <1>1, <1>2, <1>3, <1>4

LEMMA InsertKeeps ==
  ASSUME CacheInv, NEW t \in Thread, NEW v \in Value, Insert(t, v)
  PROVE  CacheInv'
<1> DEFINE k == key[t]
           order == Append(insertion_order, k)
           table == [value EXCEPT ![k] = v]
           count == allocated + 1
<1>1. /\ k \in Key /\ v \in Value /\ v # None /\ v \notin evicted
      /\ UNCHANGED <<capacity, pins, holding>>
    BY CacheAssumption DEF CacheInv, CallsInOrder, Insert, Alive
<1>2. PinsCounted'
    BY <1>1, PinsUntouched DEF CacheInv
<1>3. CallsInOrder'
    BY <1>1 DEF CacheInv, CallsInOrder, Insert, Return
<1>4. /\ insertion_order \in Seq(Key) /\ value \in [Key -> Value \cup {None}]
      /\ evicted \subseteq Value /\ Len(insertion_order) \in Nat
    BY DEF CacheInv, Consistent
<1>5. \A j \in Key : value[j] # v
    BY <1>1, <1>4 DEF Insert, Alive, Cached
<1>6. CASE value[k] = None
  <2>1. /\ order \in Seq(Key) /\ Len(order) = Len(insertion_order) + 1
        /\ \A i \in 1..Len(insertion_order) : order[i] = insertion_order[i]
        /\ order[Len(order)] = k
      BY <1>1, <1>4
  <2>2. /\ table \in [Key -> Value \cup {None}] /\ table[k] = v
        /\ \A j \in Key \ {k} : table[j] = value[j]
      BY <1>1, <1>4
  <2>3. \A i \in 1..Len(insertion_order) : insertion_order[i] \in Key \ {k}
      BY <1>4, <1>6 DEF CacheInv, Consistent
  <2>4. \A i \in 1..Len(order) : i \in 1..Len(insertion_order) \/ i = Len(order)
      BY <1>4, <2>1
  <2> HIDE DEF k, order, table
  <2>5. \A i \in 1..Len(order) : table[order[i]] # None
      BY <1>1, <2>1, <2>2, <2>3, <2>4 DEF CacheInv, Consistent
  <2>6. \A j \in Key : table[j] # None => \E i \in 1..Len(order) : order[i] = j
    <3> SUFFICES ASSUME NEW j \in Key, table[j] # None
                 PROVE  \E i \in 1..Len(order) : order[i] = j
        OBVIOUS
    <3>1. CASE j = k
        BY <1>4, <2>1, <3>1
    <3>2. CASE j # k
      <4>1. PICK i \in 1..Len(insertion_order) : insertion_order[i] = j
          BY <2>2, <3>2 DEF CacheInv, Consistent
      <4>2. i \in 1..Len(order)
          BY <1>4, <2>1
      <4> QED
          BY <2>1, <4>1, <4>2
    <3> QED
        BY <3>1, <3>2
  <2>7. \A i, j \in 1..Len(order) : order[i] = order[j] => i = j
    <3> SUFFICES ASSUME NEW i \in 1..Len(order), NEW j \in 1..Len(order), order[i] = order[j]
                 PROVE  i = j
        OBVIOUS
    <3>1. CASE i \in 1..Len(insertion_order) /\ j \in 1..Len(insertion_order)
        BY <2>1, <3>1 DEF CacheInv, Consistent
    <3>2. CASE i = Len(order) /\ j = Len(order)
        BY <3>2
    <3> QED
        BY <2>1, <2>3, <2>4, <3>1, <3>2
  <2>8. \A i, j \in Key : table[i] = table[j] /\ table[i] # None => i = j
      BY <1>5, <2>2 DEF CacheInv, Consistent
  <2>9. \A j \in Key : table[j] \notin evicted
      BY <1>1, <2>2 DEF CacheInv, Consistent
  <2>10. Values(table) \cup evicted = (Values(value) \cup evicted) \cup {v}
      BY <1>1, <1>6, <2>2 DEF Values, k
  <2>11. count = Cardinality(Values(table) \cup evicted)
    <3>1. IsFiniteSet(Values(value) \cup evicted)
        BY <1>4, ValuesFinite
    <3>2. v \notin Values(value) \cup evicted
        BY <1>1, <1>5 DEF Values
    <3> QED
        BY <2>10, <3>1, <3>2, FS_AddElement DEF CacheInv, Consistent
  <2>12. \A u \in Thread : holding[u] \in Values(table) \cup evicted \cup {None}
      BY <2>10 DEF CacheInv, Consistent
  <2>13. Consistent(order, table, evicted, count)
      BY <1>4, <2>1, <2>2, <2>5, <2>6, <2>7, <2>8, <2>9, <2>11, <2>12
         DEF CacheInv, Consistent
  <2>14. EvictToCapacity(capacity, order, table, count)
      BY <1>6 DEF Insert, k, order, table
  <2>15. /\ Consistent(insertion_order', value', evicted', allocated')
         /\ Len(insertion_order') <= capacity
      BY <2>13, <2>14, Eviction DEF CacheInv
  <2>16. Consistent(insertion_order, value, evicted, allocated)'
      BY <1>1, <2>15 DEF Consistent
  <2> QED
      BY <1>1, <1>2, <1>3, <2>15, <2>16 DEF CacheInv
<1>7. CASE value[k] # None
  <2>1. UNCHANGED <<insertion_order, value, evicted, allocated>>
      BY <1>7 DEF Insert
  <2>2. Consistent(insertion_order, value, evicted, allocated)'
      BY <1>1, <2>1 DEF CacheInv, Consistent, Values
  <2> QED
      BY <1>1, <1>2, <1>3, <2>1, <2>2 DEF CacheInv
<1> QED
    BY <1>6, <1>7

\* A lookup that finds nothing changes nothing the invariant is about; one that does
\* adds its thread to the holders of what it found.
LEMMA LookupKeeps ==
  ASSUME CacheInv, NEW t \in Thread, LookupAndPin(t)
  PROVE  CacheInv'
<1>1. /\ key[t] \in Key /\ holding[t] = None /\ op[t] = "lookup"
      /\ UNCHANGED <<capacity, insertion_order, value, evicted, allocated>>
    BY DEF LookupAndPin, cache, CacheInv, CallsInOrder
<1>2. CASE value[key[t]] = None
  <2>1. UNCHANGED <<pins, holding>> /\ Return(t)
      BY <1>2 DEF LookupAndPin
  <2>2. PinsCounted'
      BY <2>1, PinsUntouched DEF CacheInv
  <2>3. CallsInOrder'
      BY <2>1 DEF CacheInv, CallsInOrder, Return
  <2>4. Consistent(insertion_order, value, evicted, allocated)'
      BY <1>1, <2>1 DEF CacheInv, Consistent, Values
  <2> QED
      BY <1>1, <2>2, <2>3, <2>4 DEF CacheInv
<1>3. CASE value[key[t]] # None
  <2>0. PICK v \in Value : v = value[key[t]]
      BY <1>1, <1>3 DEF CacheInv, Consistent
  <2>1. /\ pins' = [pins EXCEPT ![v] = @ + 1]
        /\ holding' = [holding EXCEPT ![t] = v]
        /\ op' = [op EXCEPT ![t] = "none"] /\ key' = key
      BY <1>3, <2>0 DEF LookupAndPin
  <2>2. v \in Value /\ v \in Values(value)
      BY <1>1, <1>3, <2>0 DEF Values
  <2>3. pins' \in [Value -> Nat] /\ holding' \in [Thread -> Value \cup {None}]
      BY <2>1, <2>2 DEF CacheInv, PinsCounted
  <2>4. ASSUME NEW u \in Value PROVE pins'[u] = Cardinality(Holders(u)')
    <3>1. CASE u = v
      <4>1. Holders(v)' = Holders(v) \cup {t} /\ t \notin Holders(v)
          BY <1>1, <2>1, <2>2, CacheAssumption
             DEF Holders, CacheInv, PinsCounted
      <4>2. Cardinality(Holders(v) \cup {t}) = Cardinality(Holders(v)) + 1
          BY <4>1, HoldersFinite, FS_AddElement
      <4> QED
          BY <2>1, <2>2, <3>1, <4>1, <4>2 DEF CacheInv, PinsCounted, PinsMatchHolders
    <3>2. CASE u # v
      <4>1. Holders(u)' = Holders(u)
          BY <1>1, <2>1, <3>2, CacheAssumption DEF Holders, CacheInv, PinsCounted
      <4> QED
          BY <2>1, <3>2, <4>1 DEF CacheInv, PinsCounted, PinsMatchHolders
    <3> QED
        BY <3>1, <3>2
  <2>5. PinsCounted'
      BY <2>3, <2>4 DEF PinsCounted, PinsMatchHolders
  <2>6. CallsInOrder'
      BY <2>1 DEF CacheInv, CallsInOrder
  <2>7. \A u \in evicted' : pins'[u] > 0
      BY <1>1, <2>1, <2>2 DEF CacheInv, Consistent, PinsCounted
  <2>8. \A u \in Thread : holding'[u] \in Values(value) \cup evicted \cup {None}
      BY <2>1, <2>2 DEF CacheInv, Consistent, PinsCounted
  <2>9. Consistent(insertion_order, value, evicted, allocated)'
      BY <1>1, <2>7, <2>8 DEF CacheInv, Consistent, Values
  <2> QED
      BY <1>1, <2>5, <2>6, <2>9 DEF CacheInv
<1> QED
    BY <1>2, <1>3

\* The last pin of an evicted value goes with the value; nobody else holds it.
LEMMA UnpinKeeps ==
  ASSUME CacheInv, NEW t \in Thread, Unpin(t)
  PROVE  CacheInv'
<1>0. PICK v \in Value : v = holding[t] /\ v # None
    BY DEF Unpin, CacheInv, PinsCounted
<1> DEFINE last == v \in evicted /\ pins[v] = 1
<1>1. /\ v \in Value /\ v # None /\ holding[t] = v
      /\ pins' = [pins EXCEPT ![v] = @ - 1]
      /\ holding' = [holding EXCEPT ![t] = None]
      /\ UNCHANGED <<capacity, insertion_order, value>>
      /\ Return(t)
    BY <1>0 DEF Unpin
<1>2. /\ last => evicted' = evicted \ {v} /\ allocated' = allocated - 1
      /\ ~last => evicted' = evicted /\ allocated' = allocated
    BY <1>0 DEF Unpin
<1>3. /\ IsFiniteSet(Holders(v)) /\ Cardinality(Holders(v)) \in Nat
      /\ Cardinality(Holders(v)) > 0 /\ pins[v] = Cardinality(Holders(v))
    BY <1>1, HoldersFinite DEF CacheInv, PinsCounted, PinsMatchHolders
<1> HIDE DEF last
<1>4. \A u \in Value : pins'[u] = IF u = v THEN pins[v] - 1 ELSE pins[u]
    BY <1>1 DEF CacheInv, PinsCounted
<1>5. pins' \in [Value -> Nat] /\ holding' \in [Thread -> Value \cup {None}]
    BY <1>1, <1>3 DEF CacheInv, PinsCounted
<1>6. ASSUME NEW u \in Value PROVE pins'[u] = Cardinality(Holders(u)')
  <2>1. CASE u = v
    <3>1. Holders(v)' = Holders(v) \ {t} /\ t \in Holders(v)
        BY <1>1, CacheAssumption DEF Holders, CacheInv, PinsCounted
    <3>2. Cardinality(Holders(v) \ {t}) = Cardinality(Holders(v)) - 1
        BY <1>3, <3>1, FS_RemoveElement
    <3> QED
        BY <1>3, <1>4, <2>1, <3>1, <3>2
  <2>2. CASE u # v
    <3>1. Holders(u)' = Holders(u)
        BY <1>1, <2>2, CacheAssumption DEF Holders, CacheInv, PinsCounted
    <3> QED
        BY <1>4, <2>2, <3>1 DEF CacheInv, PinsCounted, PinsMatchHolders
  <2> QED
      BY <2>1, <2>2
<1>7. PinsCounted'
    BY <1>5, <1>6 DEF PinsCounted, PinsMatchHolders
<1>8. CallsInOrder'
    BY <1>1 DEF CacheInv, CallsInOrder, Return
<1>9. \A u \in evicted' : pins'[u] > 0
  <2> SUFFICES ASSUME NEW u \in evicted' PROVE pins'[u] > 0
      OBVIOUS
  <2>1. u \in evicted /\ u \in Value /\ pins[u] > 0 /\ pins[u] \in Nat
      BY <1>2 DEF CacheInv, Consistent, PinsCounted
  <2>2. CASE u = v
      BY <1>2, <1>4, <2>1, <2>2 DEF last
  <2>3. CASE u # v
      BY <1>4, <2>1, <2>3
  <2> QED
      BY <2>2, <2>3
<1>10. last => \A u \in Thread : holding'[u] # v
  <2> SUFFICES ASSUME last, NEW u \in Thread, holding'[u] = v PROVE FALSE
      OBVIOUS
  <2>1. Cardinality(Holders(v)') = 0
      BY <1>1, <1>4, <1>6 DEF last
  <2>2. Holders(v)' \subseteq Thread /\ u \in Holders(v)'
      BY DEF Holders
  <2>3. IsFiniteSet(Holders(v)')
      BY <2>2, CacheAssumption, FS_Subset
  <2> QED
      BY <2>1, <2>2, <2>3, FS_EmptySet
<1>11. \A u \in Thread : holding'[u] \in Values(value) \cup evicted' \cup {None}
  <2> SUFFICES ASSUME NEW u \in Thread, holding'[u] # None
               PROVE  holding'[u] \in Values(value) \cup evicted'
      OBVIOUS
  <2>1. holding'[u] = holding[u] /\ holding[u] \in Values(value) \cup evicted
      BY <1>1 DEF CacheInv, Consistent, PinsCounted
  <2> QED
      BY <1>2, <1>10, <2>1
<1>12. allocated' = Cardinality(Values(value) \cup evicted')
  <2>1. CASE last
    <3>1. v \notin Values(value)
        BY <2>1 DEF last, Values, CacheInv, Consistent
    <3>2. Values(value) \cup evicted' = (Values(value) \cup evicted) \ {v}
        BY <1>2, <2>1, <3>1
    <3>3. IsFiniteSet(Values(value) \cup evicted)
        BY ValuesFinite DEF CacheInv, Consistent
    <3>4. v \in Values(value) \cup evicted
        BY <2>1 DEF last
    <3> QED
        BY <1>2, <2>1, <3>2, <3>3, <3>4, FS_RemoveElement DEF CacheInv, Consistent
  <2>2. CASE ~last
      BY <1>2, <2>2 DEF CacheInv, Consistent
  <2> QED
      BY <2>1, <2>2
<1>13. evicted' \subseteq evicted
    BY <1>2
<1>14. Consistent(insertion_order, value, evicted, allocated)'
    BY <1>1, <1>9, <1>11, <1>12, <1>13 DEF CacheInv, Consistent, Values
<1> QED
    BY <1>1, <1>7, <1>8, <1>14 DEF CacheInv

\* SetCapacity() and Clear() evict to a limit.
LEMMA EvictingKeeps ==
  ASSUME CacheInv, NEW limit \in Nat,
         EvictToCapacity(limit, insertion_order, value, allocated),
         UNCHANGED <<pins, op, key, holding>>,
         capacity' \in Nat, limit <= capacity'
  PROVE  CacheInv'
<1>1. /\ Consistent(insertion_order', value', evicted', allocated')
      /\ Len(insertion_order') <= limit
    BY Eviction DEF CacheInv
<1>2. Consistent(insertion_order, value, evicted, allocated)'
    BY <1>1 DEF Consistent
<1>3. PinsCounted'
    BY PinsUntouched DEF CacheInv
<1>4. CallsInOrder'
    BY DEF CacheInv, CallsInOrder
<1>5. Len(insertion_order') <= capacity'
  <2>1. Len(insertion_order') \in Nat
      BY <1>1 DEF Consistent
  <2> QED
      BY <1>1, <2>1
<1> QED
    BY <1>2, <1>3, <1>4, <1>5 DEF CacheInv

\* Every operation of the cache keeps it consistent.
LEMMA CacheInvStep == CacheInv /\ [Next]_vars => CacheInv'
<1> SUFFICES ASSUME CacheInv, [Next]_vars PROVE CacheInv'
    OBVIOUS
<1>1. ASSUME NEW t \in Thread, ThreadStep(t) PROVE CacheInv'
  <2>1. ASSUME NEW o \in {"insert", "lookup"}, NEW k \in Key, Call(t, o, k) PROVE CacheInv'
      BY <2>1, CallKeeps
  <2>2. ASSUME NEW v \in Value, Insert(t, v) PROVE CacheInv'
      BY <2>2, InsertKeeps
  <2>3. CASE LookupAndPin(t)
      BY <2>3, LookupKeeps
  <2>4. CASE Unpin(t)
      BY <2>4, UnpinKeeps
  <2> QED
      BY <1>1, <2>1, <2>2, <2>3, <2>4 DEF ThreadStep
<1>2. ASSUME NEW c \in Capacities, SetCapacity(c) PROVE CacheInv'
  <2>1. c \in Nat /\ c <= c
      BY CacheAssumption
  <2> QED
      BY <1>2, <2>1, EvictingKeeps DEF SetCapacity
<1>3. CASE Clear
    BY <1>3, EvictingKeeps DEF Clear, CacheInv
<1>4. CASE UNCHANGED vars
  <2> USE <1>4 DEF vars, cache
  <2>1. Consistent(insertion_order, value, evicted, allocated)'
      BY DEF CacheInv, Consistent, Values
  <2>2. PinsCounted'
      BY PinsUntouched DEF CacheInv
  <2>3. CallsInOrder'
      BY DEF CacheInv, CallsInOrder
  <2> QED
      BY <2>1, <2>2, <2>3 DEF CacheInv
<1> QED
    BY <1>1, <1>2, <1>3, <1>4 DEF Next

\* cache.h: the invariant of the cache, which the theorems below follow from.
THEOREM CacheInvariant == Spec => []CacheInv
<1>1. Init => CacheInv
    BY CacheInvInit
<1>2. CacheInv /\ [Next]_vars => CacheInv'
    BY CacheInvStep
<1> QED
    BY <1>1, <1>2, PTL DEF Spec

-----------------------------------------------------------------------------
(* What follows for PinnedCache.                                           *)

\* A value that a thread holds is alive, whatever was inserted, cleared or resized
\* since it was looked up.
THEOREM PinnedIsAlive == Spec => []HeldIsAlive
<1>1. CacheInv => HeldIsAlive
    BY DEF CacheInv, Consistent, HeldIsAlive, Alive, Cached, Values
<1> QED
    BY <1>1, CacheInvariant, PTL

\* The cache keeps its capacity, and the order and the table name the same keys.
THEOREM OrderKept == Spec => []OrderMatchesTable
<1>1. CacheInv => OrderMatchesTable
  <2> SUFFICES ASSUME CacheInv PROVE OrderMatchesTable
      OBVIOUS
  <2>1. insertion_order \in Seq(Key) /\ DOMAIN insertion_order = 1..Len(insertion_order)
      BY DEF CacheInv, Consistent
  <2>2. Seen = {k \in Key : value[k] # None}
      BY <2>1 DEF Seen, CacheInv, Consistent
  <2> QED
      BY <2>1, <2>2 DEF CacheInv, Consistent, OrderMatchesTable
<1> QED
    BY <1>1, CacheInvariant, PTL

\* Every value is accounted for: allocated_ counts the values that are alive, and
\* what was evicted is alive only while it is pinned.
THEOREM NothingLeaks == Spec => [](AllocatedExact /\ PinsMatchHolders)
<1>1. CacheInv => AllocatedExact /\ PinsMatchHolders
    BY DEF CacheInv, Consistent, PinsCounted, AllocatedExact, Alive,
           Cached, Values
<1> QED
    BY <1>1, CacheInvariant, PTL

\* Type correctness; that pins and allocated_ never go below zero needs the whole
\* invariant.
THEOREM TypeCorrect == Spec => []TypeOK
<1>1. CacheInv => TypeOK
  <2> SUFFICES ASSUME CacheInv PROVE TypeOK
      OBVIOUS
  <2>1. allocated \in Nat
    <3>1. IsFiniteSet(Values(value) \cup evicted)
        BY ValuesFinite DEF CacheInv, Consistent
    <3> QED
        BY <3>1, FS_CardinalityType DEF CacheInv, Consistent
  <2> QED
      BY <2>1 DEF CacheInv, Consistent, PinsCounted, CallsInOrder, TypeOK
<1> QED
    BY <1>1, CacheInvariant, PTL

\* A value is never replaced while its key stays in the cache.
THEOREM ReplaceNever == Spec => NeverReplaced
<1>1. CacheInv /\ [Next]_vars =>
        \A k \in Key : value[k] # None => value'[k] \in {value[k], None}
  <2> SUFFICES ASSUME CacheInv, [Next]_vars, NEW k \in Key, value[k] # None
               PROVE  value'[k] \in {value[k], None}
      OBVIOUS
  <2>1. value \in [Key -> Value \cup {None}]
      BY DEF CacheInv, Consistent
  <2>2. ASSUME NEW t \in Thread, ThreadStep(t) PROVE value'[k] \in {value[k], None}
    <3>1. ASSUME NEW v \in Value, Insert(t, v) PROVE value'[k] \in {value[k], None}
        BY <2>1, <3>1 DEF Insert, EvictToCapacity
    <3> QED
        BY <2>2, <3>1 DEF ThreadStep, Call, LookupAndPin, Unpin, cache
  <2>3. ASSUME NEW c \in Capacities, SetCapacity(c) PROVE value'[k] \in {value[k], None}
      BY <2>3 DEF SetCapacity, EvictToCapacity
  <2>4. CASE Clear
      BY <2>4 DEF Clear, EvictToCapacity
  <2>5. CASE UNCHANGED vars
      BY <2>5 DEF vars, cache
  <2> QED
      BY <2>2, <2>3, <2>4, <2>5 DEF Next
<1> QED
    BY <1>1, CacheInvariant, PTL DEF Spec, NeverReplaced

-----------------------------------------------------------------------------
(* From here on: HashCache. Numbers.                                       *)

\* A set of numbers has a smallest one.
LEMMA Least ==
  ASSUME NEW T \in SUBSET Nat, T # {}
  PROVE  \E x \in T : \A y \in T : x <= y
<1>1. PICK x \in T : \A y \in T : ~(<<y, x>> \in OpToRel(<, Nat))
    BY NatLessThanWellFounded, WFMin
<1>2. ASSUME NEW y \in T PROVE x <= y
  <2>1. ~(y < x)
      BY <1>1 DEF OpToRel
  <2> QED
      BY <2>1
<1> QED
    BY <1>2

\* A bounded one has a largest.
LEMMA Largest ==
  ASSUME NEW m \in Nat, NEW T \in SUBSET (1..m), T # {}
  PROVE  Max(T) \in T /\ \A y \in T : y <= Max(T)
<1> DEFINE B == {b \in Nat : \A y \in T : y <= b}
<1>1. m \in B
    OBVIOUS
<1>2. PICK b \in B : \A c \in B : b <= c
    BY <1>1, Least
<1>3. b \in T
  <2> SUFFICES ASSUME b \notin T PROVE FALSE
      OBVIOUS
  <2>1. b \in Nat /\ \A y \in T : y \in Nat \ {0} /\ y <= b /\ y # b
      OBVIOUS
  <2>2. b - 1 \in Nat /\ \A y \in T : y <= b - 1
    <3>1. PICK y \in T : TRUE
        OBVIOUS
    <3>2. b # 0 /\ \A z \in T : z <= b - 1
        BY <2>1, <3>1
    <3> QED
        BY <2>1, <3>2
  <2>3. b - 1 \in B
      BY <2>2
  <2> QED
      BY <1>2, <2>3
<1>4. \E x \in T : \A y \in T : x >= y
    BY <1>3
<1>5. Max(T) \in T /\ \A y \in T : Max(T) >= y
    BY <1>4 DEF Max
<1> QED
    BY <1>5

LEMMA FirstNumbers ==
  ASSUME NEW i \in Nat \ {0}
  PROVE  Max(1..i) = i /\ (1..i) \ {i} = 1..(i - 1) /\ 1..i # {}
<1>0. 1 \in 1..i /\ i \in 1..i
    OBVIOUS
<1>1. Max(1..i) \in 1..i /\ \A y \in 1..i : y <= Max(1..i)
    BY <1>0, Largest
<1> DEFINE x == Max(1..i)
<1>2. x \in 1..i /\ i <= x
    BY <1>0, <1>1
<1> HIDE DEF x
<1>3. x = i
    BY <1>2
<1>4. (1..i) \ {i} = 1..(i - 1)
    OBVIOUS
<1> QED
    BY <1>0, <1>3, <1>4 DEF x

-----------------------------------------------------------------------------
(* Folds.                                                                  *)

\* Induction over finite sets: a family of subsets has a smallest member.
LEMMA SmallestSubset ==
  ASSUME NEW S, NEW F, IsFiniteSet(S), F \subseteq SUBSET S, F # {}
  PROVE  \E T \in F : \A U \in SUBSET T : U # T => U \notin F
<1>1. IsWellFoundedOn(StrictSubsetOrdering(S), SUBSET S)
    BY FS_StrictSubsetOrderingWellFounded, FS_FiniteSubsetsOfFinite
<1>2. PICK T \in F : \A U \in F : ~(<<U, T>> \in StrictSubsetOrdering(S))
    BY <1>1, WFMin
<1>3. ASSUME NEW U \in SUBSET T, U # T, U \in F PROVE FALSE
  <2>1. <<U, T>> \in StrictSubsetOrdering(S)
      BY <1>3 DEF StrictSubsetOrdering
  <2> QED
      BY <1>2, <1>3, <2>1
<1> QED
    BY <1>3

\* A finite set of numbers, and so each of its subsets, has a largest member.
Greatest(B) == IsFiniteSet(B) /\ \A V \in SUBSET B : V # {} => Max(V) \in V

LEMMA NumbersGreatest ==
  ASSUME NEW m \in Nat
  PROVE  Greatest(1..m)
<1>1. IsFiniteSet(1..m)
    BY FS_Interval
<1>2. \A V \in SUBSET (1..m) : V # {} => Max(V) \in V
    BY Largest
<1> QED
    BY <1>1, <1>2 DEF Greatest

\* The recursive equation of a fold over numbers, where f gives the next value.
Folds(f, base, S, g) ==
  g = [s \in SUBSET S |-> IF s = {} THEN base ELSE f[<<g[s \ {Max(s)}], Max(s)>>]]

\* Two solutions agree where both are defined.
LEMMA FoldsAgree ==
  ASSUME NEW f, NEW base, NEW B, NEW S \in SUBSET B, NEW T \in SUBSET B,
         NEW g, NEW h, NEW U \in SUBSET S, U \in SUBSET T, Greatest(B),
         Folds(f, base, S, g), Folds(f, base, T, h)
  PROVE  g[U] = h[U]
<1> DEFINE F == {V \in SUBSET S : V \subseteq T /\ g[V] # h[V]}
<1>1. SUFFICES ASSUME F # {} PROVE FALSE
    OBVIOUS
<1>2. IsFiniteSet(S)
    BY FS_Subset DEF Greatest
<1>3. PICK V \in F : \A W \in SUBSET V : W # V => W \notin F
  <2>1. F \subseteq SUBSET S
      OBVIOUS
  <2> HIDE DEF F
  <2> QED
      BY <1>1, <1>2, <2>1, SmallestSubset
<1>4. V \in SUBSET S /\ V \in SUBSET T /\ g[V] # h[V] /\ V \in SUBSET B
    OBVIOUS
<1> DEFINE W == V \ {Max(V)}
<1>5. /\ g[V] = IF V = {} THEN base ELSE f[<<g[W], Max(V)>>]
      /\ h[V] = IF V = {} THEN base ELSE f[<<h[W], Max(V)>>]
    BY <1>4 DEF Folds
<1>6. V # {} => Max(V) \in V
    BY <1>4, Zenon DEF Greatest
<1>7. V # {} => g[W] = h[W]
  <2>1. V # {} => W \in SUBSET V /\ W # V
      BY <1>6
  <2>2. V # {} => W \notin F
      BY <1>3, <2>1
  <2>3. W \in SUBSET S /\ W \in SUBSET T
      BY <1>4
  <2> QED
      BY <2>2, <2>3
<1> HIDE DEF W
<1> QED
    BY <1>4, <1>5, <1>7

\* There is a solution.
LEMMA FoldsExist ==
  ASSUME NEW f, NEW base, NEW B, NEW S \in SUBSET B, Greatest(B)
  PROVE  \E g : Folds(f, base, S, g)
<1> DEFINE F == {T \in SUBSET S : ~ \E g : Folds(f, base, T, g)}
<1>1. SUFFICES ASSUME F # {} PROVE FALSE
    OBVIOUS
<1>2. PICK T \in F : \A U \in SUBSET T : U # T => U \notin F
  <2>1. F \subseteq SUBSET S
      OBVIOUS
  <2>2. IsFiniteSet(S)
      BY FS_Subset DEF Greatest
  <2> HIDE DEF F
  <2> QED
      BY <1>1, <2>1, <2>2, SmallestSubset
<1> DEFINE of(U) == (CHOOSE g : Folds(f, base, U, g))[U]
           g == [s \in SUBSET T |-> IF s = {} THEN base ELSE f[<<of(s \ {Max(s)}), Max(s)>>]]
<1>3. ASSUME NEW U \in SUBSET T, U # T
      PROVE  Folds(f, base, U, CHOOSE h : Folds(f, base, U, h))
  <2>1. U \in SUBSET S /\ U \notin F
      BY <1>2, <1>3
  <2>2. \E h : Folds(f, base, U, h)
      BY <2>1
  <2> QED
      BY <2>2
<1>4. ASSUME NEW U \in SUBSET T, U # T
      PROVE  of(U) = IF U = {} THEN base ELSE f[<<of(U \ {Max(U)}), Max(U)>>]
  <2> DEFINE V == U \ {Max(U)}
             gU == CHOOSE h : Folds(f, base, U, h)
             gV == CHOOSE h : Folds(f, base, V, h)
  <2>1. U \in SUBSET B /\ V \in SUBSET B
      OBVIOUS
  <2>2. Folds(f, base, U, gU)
      BY <1>3, <1>4
  <2>3. V \in SUBSET T /\ V # T /\ V \in SUBSET U
      BY <1>4
  <2>4. Folds(f, base, V, gV)
      BY <1>3, <2>3
  <2> HIDE DEF gU, gV
  <2>5. gU[V] = gV[V]
    <3> HIDE DEF V, F, of, g
    <3> QED
        BY <2>1, <2>2, <2>3, <2>4, FoldsAgree
  <2>6. gU[U] = IF U = {} THEN base ELSE f[<<gU[V], Max(U)>>]
      BY <2>2 DEF Folds
  <2> QED
      BY <2>5, <2>6 DEF gU, gV
<1>5. Folds(f, base, T, g)
  <2>1. ASSUME NEW s \in SUBSET T, s # {}
        PROVE  g[s \ {Max(s)}] = of(s \ {Max(s)})
    <3>1. Max(s) \in s
        BY <2>1, Zenon DEF Greatest
    <3> DEFINE u == s \ {Max(s)}
    <3>2. u \in SUBSET T /\ u # T
        BY <3>1
    <3>3. g[u] = IF u = {} THEN base ELSE f[<<of(u \ {Max(u)}), Max(u)>>]
        BY <3>2
    <3> HIDE DEF of, g
    <3>4. of(u) = IF u = {} THEN base ELSE f[<<of(u \ {Max(u)}), Max(u)>>]
      <4> HIDE DEF u
      <4> QED
          BY <1>4, <3>2
    <3> QED
        BY <3>3, <3>4
  <2>2. g = [s \in SUBSET T |-> IF s = {} THEN base ELSE f[<<g[s \ {Max(s)}], Max(s)>>]]
    <3> HIDE DEF of
    <3>1. \A s \in SUBSET T : g[s] = IF s = {} THEN base ELSE f[<<of(s \ {Max(s)}), Max(s)>>]
        OBVIOUS
    <3>2. g = [s \in SUBSET T |-> g[s]]
        OBVIOUS
    <3> HIDE DEF g
    <3> QED
        BY <2>1, <3>1, <3>2
  <2> HIDE DEF g
  <2> QED
      BY <2>2 DEF Folds
<1>6. T \in SUBSET S /\ T \in F /\ \E h : Folds(f, base, T, h)
  <2> HIDE DEF g
  <2> QED
      BY <1>2, <1>5
<1> QED
    BY <1>6

\* A fold whose values stay in a set goes through a sequence of them.
LEMMA FoldsTyped ==
  ASSUME NEW X, NEW base \in X, NEW B, NEW f \in [X \X B -> X], Greatest(B)
  PROVE  \E g \in [SUBSET B -> X] : Folds(f, base, B, g)
<1>1. PICK g : Folds(f, base, B, g)
    BY FoldsExist
<1> DEFINE F == {s \in SUBSET B : g[s] \notin X}
<1>2. F = {}
  <2> SUFFICES ASSUME F # {} PROVE FALSE
      OBVIOUS
  <2>1. IsFiniteSet(B)
      BY DEF Greatest
  <2>2. PICK s \in F : \A u \in SUBSET s : u # s => u \notin F
    <3>1. F \subseteq SUBSET B
        OBVIOUS
    <3> HIDE DEF F
    <3> QED
        BY <2>1, <3>1, SmallestSubset
  <2>3. s \in SUBSET B /\ g[s] \notin X
      OBVIOUS
  <2>4. s # {}
      BY <1>1, <2>3 DEF Folds
  <2>5. Max(s) \in s
      BY <2>3, <2>4, Zenon DEF Greatest
  <2> DEFINE u == s \ {Max(s)}
  <2>6. u \in SUBSET s /\ u # s /\ u \in SUBSET B
      BY <2>3, <2>5
  <2>7. g[u] \in X
      BY <2>2, <2>6
  <2>8. g[s] = f[<<g[u], Max(s)>>]
      BY <1>1, <2>3, <2>4 DEF Folds
  <2>9. <<g[u], Max(s)>> \in X \X B
      BY <2>3, <2>5, <2>7
  <2> HIDE DEF u
  <2> QED
      BY <2>3, <2>8, <2>9
<1>3. g = [s \in SUBSET B |-> g[s]]
    BY <1>1, Zenon DEF Folds
<1>4. g \in [SUBSET B -> X]
    BY <1>2, <1>3
<1> QED
    BY <1>1, <1>4

\* The subsets a fold over numbers goes through.
LEMMA FoldSteps ==
  ASSUME NEW m \in Nat
  PROVE  /\ 1..0 = {}
         /\ \A i \in 1..m : /\ 1..i \in SUBSET (1..m) /\ 1..i # {}
                            /\ Max(1..i) = i /\ (1..i) \ {i} = 1..(i - 1)
                            /\ i \in 0..m /\ i - 1 \in 0..m
<1>1. 1..0 = {}
    OBVIOUS
<1>2. ASSUME NEW i \in 1..m
      PROVE  /\ 1..i \in SUBSET (1..m) /\ 1..i # {}
             /\ Max(1..i) = i /\ (1..i) \ {i} = 1..(i - 1)
             /\ i \in 0..m /\ i - 1 \in 0..m
  <2>1. i \in Nat \ {0} /\ i \in 0..m /\ i - 1 \in 0..m
      OBVIOUS
  <2>2. 1..i \in SUBSET (1..m)
      OBVIOUS
  <2>3. Max(1..i) = i /\ (1..i) \ {i} = 1..(i - 1) /\ 1..i # {}
      BY <2>1, FirstNumbers
  <2> QED
      BY <2>1, <2>2, <2>3
<1> QED
    BY <1>1, <1>2

\* What holds at first and is kept by each step holds at last.
LEMMA Steps ==
  ASSUME NEW m \in Nat, NEW J, 0 \in J, \A i \in 1..m : i - 1 \in J => i \in J
  PROVE  \A i \in 0..m : i \in J
<1> DEFINE T == (0..m) \ J
<1> SUFFICES ASSUME T # {} PROVE FALSE
    OBVIOUS
<1>1. T \in SUBSET Nat
    OBVIOUS
<1>2. PICK x \in T : \A y \in T : x <= y
  <2> HIDE DEF T
  <2> QED
      BY <1>1, Least
<1>3. x # 0 /\ x \in 1..m /\ x - 1 \in 0..m
    OBVIOUS
<1>4. x - 1 \notin T
    BY <1>2, <1>3
<1> QED
    BY <1>2, <1>3, <1>4

\* The loop of EvictItem(), turn by turn.
GapLoop(base, seq) == FoldLeft(CloseGap, base, seq)

\* The states of the loop, of m turns.
GapStates(base, seq, m, st) ==
  /\ st[0] = base /\ st[m] = GapLoop(base, seq)
  /\ \A i \in 1..m : st[i] = CloseGap(st[i - 1], seq[i])

GapType(n, E) == [hash : [0..n - 1 -> E], idx : 0..n - 1, closed : BOOLEAN]

LEMMA GapFold ==
  ASSUME NEW n \in Nat \ {0}, NEW m \in Nat, NEW E, NEW base \in GapType(n, E),
         NEW seq \in [1..m -> 0..n - 1], None \in E
  PROVE  \E st : GapStates(base, seq, m, st)
<1>0. base \in [hash : [0..n - 1 -> E], idx : 0..n - 1, closed : BOOLEAN]
    BY DEF GapType
<1> DEFINE X == [hash : [0..n - 1 -> E], idx : 0..n - 1, closed : BOOLEAN]
           f == [p \in X \X (1..m) |-> CloseGap(p[1], seq[p[2]])]
<1>1. ASSUME NEW x \in X, NEW j \in 0..n - 1 PROVE CloseGap(x, j) \in X
    BY <1>1 DEF CloseGap
<1>2. f \in [X \X (1..m) -> X]
  <2>1. \A p \in X \X (1..m) : p[1] \in X /\ p[2] \in 1..m
      OBVIOUS
  <2>2. \A p \in X \X (1..m) : CloseGap(p[1], seq[p[2]]) \in X
      BY <1>1, <2>1
  <2> HIDE DEF X
  <2> QED
      BY <2>2
<1>3. PICK g \in [SUBSET (1..m) -> X] : Folds(f, base, 1..m, g)
  <2>1. base \in X
      BY <1>0
  <2> HIDE DEF f, X
  <2> QED
      BY <1>2, <2>1, NumbersGreatest, FoldsTyped
<1>4. DOMAIN seq = 1..m
    OBVIOUS
<1> DEFINE Eq(h) == h = [s \in SUBSET (1..m) |->
                           IF s = {} THEN base ELSE CloseGap(h[s \ {Max(s)}], seq[Max(s)])]
           it == CHOOSE h : Eq(h)
<1>5. Eq(g)
  <2> HIDE DEF X
  <2>1. ASSUME NEW s \in SUBSET (1..m), s # {}
        PROVE  f[<<g[s \ {Max(s)}], Max(s)>>] = CloseGap(g[s \ {Max(s)}], seq[Max(s)])
    <3>1. Max(s) \in 1..m /\ s \ {Max(s)} \in SUBSET (1..m)
        BY <2>1, Largest
    <3>2. g[s \ {Max(s)}] \in X
        BY <3>1
    <3> QED
        BY <3>1, <3>2
  <2>2. g = [s \in SUBSET (1..m) |-> IF s = {} THEN base ELSE f[<<g[s \ {Max(s)}], Max(s)>>]]
      BY <1>3 DEF Folds
  <2> HIDE DEF f
  <2> QED
      BY <2>1, <2>2
<1>6. Eq(it)
  <2> HIDE DEF Eq
  <2> QED
      BY <1>5
<1>7. GapLoop(base, seq) = it[1..m]
    BY <1>4 DEF GapLoop, FoldLeft, MapThenFoldSet
<1> DEFINE st == [i \in 0..m |-> it[1..i]]
<1>8. /\ st[0] = it[{}] /\ st[m] = it[1..m]
      /\ \A i \in 1..m : /\ st[i] = it[1..i] /\ 1..i \in SUBSET (1..m) /\ 1..i # {}
                         /\ Max(1..i) = i /\ st[i - 1] = it[(1..i) \ {i}]
  <2>1. 0 \in 0..m /\ m \in 0..m
      OBVIOUS
  <2>2. \A i \in 0..m : st[i] = it[1..i]
      OBVIOUS
  <2> HIDE DEF it, st, Eq, X, f
  <2> QED
      BY <2>1, <2>2, FoldSteps, ZenonT(60)
<1>9. it[{}] = base
  <2>1. {} \in SUBSET (1..m)
      OBVIOUS
  <2> HIDE DEF it
  <2> QED
      BY <1>6, <2>1
<1>10. \A i \in 1..m : st[i] = CloseGap(st[i - 1], seq[i])
  <2> SUFFICES ASSUME NEW i \in 1..m PROVE st[i] = CloseGap(st[i - 1], seq[i])
      OBVIOUS
  <2> HIDE DEF it, st
  <2>1. it[1..i] = CloseGap(it[(1..i) \ {Max(1..i)}], seq[Max(1..i)])
      BY <1>6, <1>8
  <2> QED
      BY <1>8, <2>1
<1> HIDE DEF st
<1> QED
    BY <1>7, <1>8, <1>9, <1>10 DEF GapStates

-----------------------------------------------------------------------------
(* Slots in a circle.                                                      *)

\* What the arithmetic of the provers knows of division.
LEMMA Division ==
  ASSUME NEW n \in Nat \ {0}, NEW k \in Nat
  PROVE  k % n \in 0..n - 1 /\ k \div n \in Nat /\ k = n * (k \div n) + (k % n)
  BY SMT

\* Quotient and remainder are unique.
LEMMA Uniquely ==
  ASSUME NEW n \in Nat \ {0}, NEW q \in Nat, NEW s \in Nat, NEW r \in 0..n - 1,
         NEW u \in 0..n - 1, n * q + r = n * s + u
  PROVE  r = u
<1>1. CASE q < s
  <2>1. PICK d \in Nat \ {0} : s = q + d
    <3>1. s - q \in Nat \ {0} /\ s = q + (s - q)
        BY <1>1
    <3> QED
        BY <3>1
  <2>2. n * s = n * q + n * d
      BY <2>1
  <2>3. n * d >= n
      BY <2>1
  <2>4. n * d \in Nat /\ n * q \in Nat
      OBVIOUS
  <2> QED
      BY <2>2, <2>3, <2>4
<1>2. CASE s < q
  <2>1. PICK d \in Nat \ {0} : q = s + d
    <3>1. q - s \in Nat \ {0} /\ q = s + (q - s)
        BY <1>2
    <3> QED
        BY <3>1
  <2>2. n * q = n * s + n * d
      BY <2>1
  <2>3. n * d >= n
      BY <2>1
  <2>4. n * d \in Nat /\ n * s \in Nat
      OBVIOUS
  <2> QED
      BY <2>2, <2>3, <2>4
<1>3. CASE q = s
  <2>1. n * q \in Nat
      OBVIOUS
  <2> QED
      BY <1>3, <2>1
<1> QED
    BY <1>1, <1>2, <1>3

\* i slots after the home of k, for up to a whole turn.
LEMMA Turn ==
  ASSUME NEW n \in Nat \ {0}, NEW k \in Nat, NEW i \in 0..n
  PROVE  (k + i) % n = IF (k % n) + i < n THEN (k % n) + i ELSE (k % n) + i - n
<1> DEFINE r == k % n
           q == k \div n
           s == (k + i) \div n
           u == (k + i) % n
<1>1. r \in 0..n - 1 /\ q \in Nat /\ k = n * q + r
    BY Division
<1>2. u \in 0..n - 1 /\ s \in Nat /\ k + i = n * s + u
  <2>1. k + i \in Nat
      OBVIOUS
  <2> QED
      BY <2>1, Division
<1>3. n * q \in Nat
    BY <1>1
<1>4. CASE r + i < n
  <2>1. n * q + (r + i) = n * s + u /\ r + i \in 0..n - 1
    <3> HIDE DEF r, q, s, u
    <3> QED
        BY <1>1, <1>2, <1>3, <1>4
  <2>2. r + i = u
    <3> HIDE DEF r, q, s, u
    <3> DEFINE v == r + i
    <3>1. v \in 0..n - 1 /\ n * q + v = n * s + u
        BY <2>1
    <3> HIDE DEF v
    <3>2. v = u
        BY <1>1, <1>2, <3>1, Uniquely
    <3> QED
        BY <3>2 DEF v
  <2> QED
      BY <1>4, <2>2
<1>5. CASE ~(r + i < n)
  <2>1. n * (q + 1) = n * q + n
      BY <1>1
  <2>2. n * (q + 1) + (r + i - n) = n * s + u /\ r + i - n \in 0..n - 1
    <3> HIDE DEF r, q, s, u
    <3> QED
        BY <1>1, <1>2, <1>3, <1>5, <2>1
  <2>3. r + i - n = u
    <3> HIDE DEF r, q, s, u
    <3> DEFINE v == r + i - n
               p == q + 1
    <3>1. v \in 0..n - 1 /\ p \in Nat /\ n * p + v = n * s + u
        BY <1>1, <2>2
    <3> HIDE DEF v, p
    <3>2. v = u
        BY <1>1, <1>2, <3>1, Uniquely
    <3> QED
        BY <3>2 DEF v
  <2> QED
      BY <1>5, <2>3
<1> QED
    BY <1>4, <1>5

\* Where the probing for k starts.
HomeOf(n, k) == k % n

\* How many slots after a the slot b is.
Ahead(n, a, b) == IF a <= b THEN b - a ELSE b - a + n

\* Where the probing for a key starts.
LEMMA HomeSlot ==
  ASSUME NEW n \in Nat \ {0}, NEW k \in Nat
  PROVE  HomeOf(n, k) \in 0..n - 1
  BY Division DEF HomeOf

\* Probing visits every slot, each when its turn comes.
LEMMA Turns ==
  ASSUME NEW n \in Nat \ {0}, NEW k \in Nat
  PROVE  /\ \A i \in 0..n - 1 : /\ (k + i) % n \in 0..n - 1
                                /\ Ahead(n, HomeOf(n, k), (k + i) % n) = i
         /\ \A j \in 0..n - 1 : /\ Ahead(n, HomeOf(n, k), j) \in 0..n - 1
                                /\ (k + Ahead(n, HomeOf(n, k), j)) % n = j
<1> DEFINE r == HomeOf(n, k)
<1>1. r \in 0..n - 1
    BY HomeSlot
<1>2. \A i \in 0..n : (k + i) % n = IF r + i < n THEN r + i ELSE r + i - n
    BY Turn DEF HomeOf
<1> HIDE DEF r
<1>3. ASSUME NEW i \in 0..n - 1
      PROVE  (k + i) % n \in 0..n - 1 /\ Ahead(n, r, (k + i) % n) = i
  <2> DEFINE j == (k + i) % n
  <2>1. j = IF r + i < n THEN r + i ELSE r + i - n
      BY <1>2
  <2> HIDE DEF j
  <2>2. j \in 0..n - 1 /\ Ahead(n, r, j) = i
      BY <1>1, <2>1 DEF Ahead
  <2> QED
      BY <2>2 DEF j
<1>4. ASSUME NEW j \in 0..n - 1
      PROVE  Ahead(n, r, j) \in 0..n - 1 /\ (k + Ahead(n, r, j)) % n = j
  <2> DEFINE i == Ahead(n, r, j)
  <2>1. i \in 0..n - 1 /\ j = IF r + i < n THEN r + i ELSE r + i - n
      BY <1>1 DEF Ahead
  <2> HIDE DEF i
  <2>2. i \in 0..n - 1 /\ (k + i) % n = j
      BY <1>2, <2>1
  <2> QED
      BY <2>2 DEF i
<1> QED
    BY <1>3, <1>4 DEF r

-----------------------------------------------------------------------------
(* Tables.                                                                 *)

EntryOrNone == EntryType \cup {None}

\* A table of n slots.
Table(n, h) == n \in Nat \ {0} /\ h \in [0..n - 1 -> EntryOrNone]

LEMMA NoneIsNoEntry == None \notin EntryType
  BY HashCacheAssumption DEF EntryType

\* The slots of a table and what is in them.
LEMMA TableSlots ==
  ASSUME NEW n, NEW h, Table(n, h)
  PROVE  /\ n \in Nat \ {0} /\ DOMAIN h = 0..n - 1 /\ Slots(h) = n
         /\ \A j \in 0..n - 1 : h[j] # None =>
              h[j] \in EntryType /\ h[j].key \in Nat /\ HomeOf(n, h[j].key) \in 0..n - 1
         /\ \A j \in 0..n - 1 : h[j] = None \/ h[j] \in EntryType
<1>1. n \in Nat \ {0} /\ DOMAIN h = 0..n - 1
    BY DEF Table
<1>2. Cardinality(0..n - 1) = n
  <2>1. 0 \in Int /\ n - 1 \in Int
      BY <1>1
  <2>2. Cardinality(0..n - 1) = IF 0 > n - 1 THEN 0 ELSE n - 1 - 0 + 1
      BY <2>1, FS_Interval
  <2> QED
      BY <1>1, <2>2
<1>3. ASSUME NEW j \in 0..n - 1, h[j] # None
      PROVE  h[j] \in EntryType /\ h[j].key \in Nat /\ HomeOf(n, h[j].key) \in 0..n - 1
  <2>1. h[j] \in EntryType
      BY <1>3 DEF Table, EntryOrNone
  <2>2. h[j].key \in Key
      BY <2>1 DEF EntryType
  <2>3. h[j].key \in Nat
      BY <2>2, HashCacheAssumption
  <2> QED
      BY <1>1, <2>1, <2>3, HomeSlot
<1> QED
    BY <1>1, <1>2, <1>3 DEF Slots

\* The home of the entry at j, and how far it is from there.
Home(n, h, j) == HomeOf(n, h[j].key)

\* No key is there twice.
KeysOnce(n, h) ==
  \A i, j \in 0..n - 1 : h[i] # None /\ h[j] # None /\ h[i].key = h[j].key => i = j

\* Probing for an entry gets to it: no free slot comes before.
Reached(n, h) ==
  \A j \in 0..n - 1 : h[j] # None =>
    \A i \in 0..n - 1 :
      Ahead(n, Home(n, h, j), i) < Ahead(n, Home(n, h, j), j) => h[i] # None

Good(n, h) == Table(n, h) /\ KeysOnce(n, h) /\ Reached(n, h)

\* What Find() finds, if there is an end to the probing.
LEMMA FindSpec ==
  ASSUME NEW n, NEW h, NEW k \in Nat, Table(n, h),
         \E j \in 0..n - 1 : h[j] = None \/ h[j].key = k
  PROVE  /\ Find(h, k) \in 0..n - 1
         /\ h[Find(h, k)] = None \/ h[Find(h, k)].key = k
         /\ \A j \in 0..n - 1 : Ahead(n, HomeOf(n, k), j) < Ahead(n, HomeOf(n, k), Find(h, k)) =>
              h[j] # None /\ h[j].key # k
<1>1. n \in Nat \ {0} /\ DOMAIN h = 0..n - 1 /\ Slots(h) = n
    BY TableSlots
<1> DEFINE S == {i \in 0..n - 1 : h[(k + i) % n] = None \/ h[(k + i) % n].key = k}
<1>2. Find(h, k) = (k + Min(S)) % n
    BY <1>1 DEF Find, Probe
<1>3. /\ \A i \in 0..n - 1 : /\ (k + i) % n \in 0..n - 1
                             /\ Ahead(n, HomeOf(n, k), (k + i) % n) = i
      /\ \A j \in 0..n - 1 : /\ Ahead(n, HomeOf(n, k), j) \in 0..n - 1
                             /\ (k + Ahead(n, HomeOf(n, k), j)) % n = j
    BY <1>1, Turns, ZenonT(60)
<1>4. PICK j \in 0..n - 1 : h[j] = None \/ h[j].key = k
    OBVIOUS
<1>5. Ahead(n, HomeOf(n, k), j) \in S
    BY <1>3, <1>4
<1>6. S \in SUBSET Nat /\ S # {}
    BY <1>1, <1>5
<1>7. \A i \in 0..n - 1 : i \in S <=> h[(k + i) % n] = None \/ h[(k + i) % n].key = k
    OBVIOUS
<1>8. S \subseteq 0..n - 1
    OBVIOUS
<1> HIDE DEF S
<1>9. \E x \in S : \A y \in S : x <= y
    BY <1>6, Least
<1>10. Min(S) \in S /\ \A y \in S : Min(S) <= y
    BY <1>9 DEF Min
<1> DEFINE x == Min(S)
<1>11. x \in 0..n - 1 /\ x \in S /\ \A y \in S : x <= y
    BY <1>8, <1>10
<1>12. Find(h, k) = (k + x) % n
    BY <1>2
<1> HIDE DEF x
<1> DEFINE f == Find(h, k)
<1>13. f \in 0..n - 1 /\ Ahead(n, HomeOf(n, k), f) = x
    BY <1>3, <1>11, <1>12
<1>14. h[f] = None \/ h[f].key = k
    BY <1>7, <1>11, <1>12
<1>15. ASSUME NEW i \in 0..n - 1, Ahead(n, HomeOf(n, k), i) < x PROVE h[i] # None /\ h[i].key # k
  <2> DEFINE y == Ahead(n, HomeOf(n, k), i)
  <2>1. y \in 0..n - 1 /\ (k + y) % n = i
      BY <1>3
  <2>2. y \notin S
    <3>1. y < x
        BY <1>15
    <3> HIDE DEF y
    <3> QED
        BY <1>11, <2>1, <3>1
  <2> HIDE DEF y
  <2> QED
      BY <1>7, <2>1, <2>2
<1> QED
    BY <1>13, <1>14, <1>15

\* Circular distances tell slots apart.
LEMMA AheadApart ==
  ASSUME NEW n \in Nat \ {0}, NEW a \in 0..n - 1, NEW i \in 0..n - 1, NEW j \in 0..n - 1
  PROVE  /\ Ahead(n, a, i) \in 0..n - 1
         /\ Ahead(n, a, i) = Ahead(n, a, j) => i = j
         /\ Ahead(n, a, i) < Ahead(n, a, j) \/ Ahead(n, a, j) < Ahead(n, a, i) \/ i = j
BY DEF Ahead

\* A key that is in the table is found.
LEMMA FindKey ==
  ASSUME NEW n, NEW h, NEW j \in 0..n - 1, NEW k, Good(n, h), h[j] # None, k = h[j].key
  PROVE  Find(h, k) = j
<1>1. n \in Nat \ {0} /\ k \in Nat /\ HomeOf(n, k) \in 0..n - 1 /\ Table(n, h)
    BY TableSlots DEF Good
<1>2. \E i \in 0..n - 1 : h[i] = None \/ h[i].key = k
    OBVIOUS
<1> DEFINE f == Find(h, k)
<1>3. /\ f \in 0..n - 1
      /\ h[f] = None \/ h[f].key = k
      /\ \A i \in 0..n - 1 : Ahead(n, HomeOf(n, k), i) < Ahead(n, HomeOf(n, k), f) =>
           h[i] # None /\ h[i].key # k
    BY <1>1, <1>2, FindSpec
<1> HIDE DEF f
<1>4. CASE h[f] # None
    BY <1>3, <1>4 DEF Good, KeysOnce, f
<1>5. CASE h[f] = None
  <2>1. ~(Ahead(n, HomeOf(n, k), f) < Ahead(n, HomeOf(n, k), j))
      BY <1>3, <1>5 DEF Good, Reached, Home
  <2>2. ~(Ahead(n, HomeOf(n, k), j) < Ahead(n, HomeOf(n, k), f))
      BY <1>3
  <2> QED
      BY <1>1, <1>3, <2>1, <2>2, AheadApart DEF f
<1> QED
    BY <1>4, <1>5

\* A key that is not leads to the first free slot from its home.
LEMMA FindFree ==
  ASSUME NEW n, NEW h, NEW k \in Nat, Table(n, h), \E j \in 0..n - 1 : h[j] = None,
         \A j \in 0..n - 1 : h[j] # None => h[j].key # k
  PROVE  /\ Find(h, k) \in 0..n - 1 /\ h[Find(h, k)] = None
         /\ \A j \in 0..n - 1 : Ahead(n, HomeOf(n, k), j) < Ahead(n, HomeOf(n, k), Find(h, k)) => h[j] # None
<1>1. \E j \in 0..n - 1 : h[j] = None \/ h[j].key = k
    OBVIOUS
<1> QED
    BY <1>1, FindSpec

\* EvictItem() finds the slot of a key.
LEMMA LocateKey ==
  ASSUME NEW n, NEW h, NEW j \in 0..n - 1, Table(n, h), KeysOnce(n, h), h[j] # None
  PROVE  Locate(h, h[j].key) = j
<1> DEFINE k == h[j].key
           S == {i \in 0..n - 1 : h[(k + i) % n] # None /\ h[(k + i) % n].key = k}
<1>1. n \in Nat \ {0} /\ k \in Nat /\ HomeOf(n, k) \in 0..n - 1 /\ DOMAIN h = 0..n - 1 /\ Slots(h) = n
    BY TableSlots
<1>2. Locate(h, k) = (k + Min(S)) % n
    BY <1>1 DEF Locate, Probe
<1>3. /\ \A i \in 0..n - 1 : /\ (k + i) % n \in 0..n - 1
                             /\ Ahead(n, HomeOf(n, k), (k + i) % n) = i
      /\ Ahead(n, HomeOf(n, k), j) \in 0..n - 1
      /\ (k + Ahead(n, HomeOf(n, k), j)) % n = j
    BY <1>1, Turns, ZenonT(60)
<1> DEFINE a == Ahead(n, HomeOf(n, k), j)
<1>4. a \in S
    BY <1>3
<1>5. ASSUME NEW i \in S PROVE i = a
  <2>1. i \in 0..n - 1 /\ (k + i) % n = j
      BY <1>3 DEF KeysOnce
  <2> QED
      BY <1>3, <2>1
<1> HIDE DEF S, a
<1>6. S = {a}
    BY <1>4, <1>5
<1>7. a \in Nat
    BY <1>1, <1>3 DEF a
<1>8. Min(S) = a
    BY <1>6, <1>7 DEF Min
<1> QED
    BY <1>2, <1>3, <1>8 DEF a

-----------------------------------------------------------------------------
(* Seen from a free slot z, the circle is a line: no probing passes z.     *)

\* Distances along the circle, seen from z.
LEMMA PathFrom ==
  ASSUME NEW n \in Nat \ {0}, NEW z \in 0..n - 1, NEW a \in 0..n - 1, NEW i \in 0..n - 1,
         NEW j \in 0..n - 1
  PROVE  /\ Ahead(n, z, a) \in 0..n - 1
         /\ Ahead(n, z, a) = 0 <=> a = z
         /\ Ahead(n, z, a) = Ahead(n, z, j) <=> a = j
         /\ Ahead(n, z, a) <= Ahead(n, z, j) =>
              (Ahead(n, a, i) < Ahead(n, a, j) <=>
                 Ahead(n, z, a) <= Ahead(n, z, i) /\ Ahead(n, z, i) < Ahead(n, z, j))
         /\ Ahead(n, z, j) < Ahead(n, z, a) /\ j # z => Ahead(n, a, z) < Ahead(n, a, j)
BY DEF Ahead

\* InRange() tells where the home of the entry at y is, for the gap at x.
LEMMA RangeFrom ==
  ASSUME NEW n \in Nat \ {0}, NEW z \in 0..n - 1, NEW x \in 0..n - 1, NEW y \in 0..n - 1,
         NEW a \in 0..n - 1, Ahead(n, z, x) < Ahead(n, z, y), Ahead(n, z, a) <= Ahead(n, z, y)
  PROVE  InRange(a, x + 1, y) <=> Ahead(n, z, x) < Ahead(n, z, a)
<1>1. a \in (x + 1)..y <=> x + 1 <= a /\ a <= y
    OBVIOUS
<1> QED
    BY <1>1 DEF Ahead, InRange

\* Each entry is reached, seen from z.
Linear(n, h, z) ==
  \A j \in 0..n - 1 : h[j] # None =>
    /\ Ahead(n, z, Home(n, h, j)) <= Ahead(n, z, j)
    /\ \A i \in 0..n - 1 :
         Ahead(n, z, Home(n, h, j)) <= Ahead(n, z, i) /\ Ahead(n, z, i) < Ahead(n, z, j) =>
           h[i] # None

\* Cut open at a free slot, the two are the same.
LEMMA ReachedLinear ==
  ASSUME NEW n, NEW h, NEW z \in 0..n - 1, Table(n, h), h[z] = None
  PROVE  Reached(n, h) <=> Linear(n, h, z)
<1>1. n \in Nat \ {0}
    BY DEF Table
<1>2. ASSUME NEW j \in 0..n - 1, h[j] # None
      PROVE  /\ Home(n, h, j) \in 0..n - 1 /\ j # z
             /\ Ahead(n, z, Home(n, h, j)) \in 0..n - 1 /\ Ahead(n, z, j) \in 0..n - 1
             /\ Ahead(n, z, Home(n, h, j)) <= Ahead(n, z, j) =>
                  \A i \in 0..n - 1 :
                    Ahead(n, Home(n, h, j), i) < Ahead(n, Home(n, h, j), j) <=>
                      /\ Ahead(n, z, Home(n, h, j)) <= Ahead(n, z, i)
                      /\ Ahead(n, z, i) < Ahead(n, z, j)
             /\ ~(Ahead(n, z, Home(n, h, j)) <= Ahead(n, z, j)) =>
                  Ahead(n, Home(n, h, j), z) < Ahead(n, Home(n, h, j), j)
  <2>1. Home(n, h, j) \in 0..n - 1
      BY <1>2, TableSlots DEF Home
  <2> DEFINE a == Home(n, h, j)
  <2>2. a \in 0..n - 1 /\ j # z
      BY <1>2, <2>1
  <2> HIDE DEF a
  <2>3. Ahead(n, z, a) \in 0..n - 1 /\ Ahead(n, z, j) \in 0..n - 1
      BY <1>1, <2>2, PathFrom
  <2>4. ~(Ahead(n, z, a) <= Ahead(n, z, j)) => Ahead(n, z, j) < Ahead(n, z, a)
      BY <1>1, <2>3
  <2>5. ~(Ahead(n, z, a) <= Ahead(n, z, j)) => Ahead(n, a, z) < Ahead(n, a, j)
      BY <1>1, <2>2, <2>4, PathFrom
  <2>6. Ahead(n, z, a) <= Ahead(n, z, j) =>
          \A i \in 0..n - 1 : Ahead(n, a, i) < Ahead(n, a, j) <=>
             Ahead(n, z, a) <= Ahead(n, z, i) /\ Ahead(n, z, i) < Ahead(n, z, j)
      BY <1>1, <2>2, PathFrom
  <2> QED
      BY <2>2, <2>3, <2>5, <2>6 DEF a
<1>3. ASSUME Reached(n, h) PROVE Linear(n, h, z)
  <2> SUFFICES ASSUME NEW j \in 0..n - 1, h[j] # None
               PROVE  /\ Ahead(n, z, Home(n, h, j)) <= Ahead(n, z, j)
                      /\ \A i \in 0..n - 1 :
                           Ahead(n, z, Home(n, h, j)) <= Ahead(n, z, i) /\
                           Ahead(n, z, i) < Ahead(n, z, j) => h[i] # None
      BY DEF Linear
  <2>1. Ahead(n, z, Home(n, h, j)) <= Ahead(n, z, j)
      BY <1>2, <1>3 DEF Reached
  <2> QED
      BY <1>2, <1>3, <2>1 DEF Reached
<1>4. ASSUME Linear(n, h, z) PROVE Reached(n, h)
    BY <1>2, <1>4 DEF Linear, Reached
<1> QED
    BY <1>3, <1>4

-----------------------------------------------------------------------------
(* Closing the gap that an eviction leaves.                                *)

EntriesOf(n, h) == {h[j] : j \in 0..n - 1} \ {None}

\* The entry at y moves to x.
Refilled(h, x, y) == [[h EXCEPT ![y] = None] EXCEPT ![x] = h[y]]

\* An entry moves to a free slot: it is the same set of entries.
LEMMA EntryMoves ==
  ASSUME NEW n, NEW h, NEW x \in 0..n - 1, NEW y \in 0..n - 1, Table(n, h),
         KeysOnce(n, h), h[x] = None, h[y] # None
  PROVE  /\ Table(n, Refilled(h, x, y)) /\ KeysOnce(n, Refilled(h, x, y))
         /\ EntriesOf(n, Refilled(h, x, y)) = EntriesOf(n, h)
<1> DEFINE g == Refilled(h, x, y)
<1>1. h \in [0..n - 1 -> EntryOrNone] /\ None \in EntryOrNone
    BY DEF Table, EntryOrNone
<1>2. /\ g[x] = h[y] /\ g[y] = None
      /\ \A j \in 0..n - 1 : j # x /\ j # y => g[j] = h[j]
    BY <1>1 DEF Refilled
<1>3. Table(n, g)
    BY <1>1 DEF Table, Refilled
<1> HIDE DEF g
<1>4. KeysOnce(n, g)
    BY <1>2 DEF KeysOnce
<1>5. EntriesOf(n, g) = EntriesOf(n, h)
  <2>1. ASSUME NEW j \in 0..n - 1, g[j] # None PROVE g[j] \in EntriesOf(n, h)
    <3>1. \E i \in 0..n - 1 : g[j] = h[i]
        BY <1>2, <2>1
    <3> QED
        BY <2>1, <3>1 DEF EntriesOf
  <2>2. ASSUME NEW j \in 0..n - 1, h[j] # None PROVE h[j] \in EntriesOf(n, g)
    <3>1. \E i \in 0..n - 1 : h[j] = g[i]
        BY <1>2, <2>2
    <3> QED
        BY <2>2, <3>1 DEF EntriesOf
  <2> QED
      BY <2>1, <2>2 DEF EntriesOf
<1> QED
    BY <1>3, <1>4, <1>5 DEF g

\* The gap at x: every entry is reached but for the gap, and the entries up to reach were
\* looked at and do not need it. z is another free slot.
Gap(n, h, z, x, reach) ==
  /\ x \in 0..n - 1 /\ x # z /\ h[x] = None /\ h[z] = None
  /\ Ahead(n, z, x) <= reach
  /\ \A j \in 0..n - 1 : h[j] # None =>
       /\ Ahead(n, z, Home(n, h, j)) <= Ahead(n, z, j)
       /\ \A i \in 0..n - 1 :
            Ahead(n, z, Home(n, h, j)) <= Ahead(n, z, i) /\ Ahead(n, z, i) < Ahead(n, z, j) /\
            i # x => h[i] # None
       /\ Ahead(n, z, x) < Ahead(n, z, j) /\ Ahead(n, z, j) <= reach =>
            Ahead(n, z, x) < Ahead(n, z, Home(n, h, j))

\* The next slot is free: no entry needs the gap.
LEMMA GapEnds ==
  ASSUME NEW n, NEW h, NEW z \in 0..n - 1, NEW x, NEW reach \in 0..n - 1, NEW y \in 0..n - 1,
         Table(n, h), Gap(n, h, z, x, reach), h[y] = None,
         Ahead(n, z, y) = reach + 1 \/ reach = n - 1
  PROVE  Linear(n, h, z)
<1>1. n \in Nat \ {0} /\ x \in 0..n - 1
    BY DEF Table, Gap
<1>2. \A i \in 0..n - 1 : Ahead(n, z, i) \in 0..n - 1
    BY <1>1, PathFrom
<1> SUFFICES ASSUME NEW j \in 0..n - 1, h[j] # None
             PROVE  /\ Ahead(n, z, Home(n, h, j)) <= Ahead(n, z, j)
                    /\ \A i \in 0..n - 1 :
                         Ahead(n, z, Home(n, h, j)) <= Ahead(n, z, i) /\
                         Ahead(n, z, i) < Ahead(n, z, j) => h[i] # None
    BY DEF Linear
<1>3. Home(n, h, j) \in 0..n - 1
    BY TableSlots DEF Home
<1>4. ~(Ahead(n, z, Home(n, h, j)) <= Ahead(n, z, x) /\ Ahead(n, z, x) < Ahead(n, z, j))
  <2> SUFFICES ASSUME Ahead(n, z, Home(n, h, j)) <= Ahead(n, z, x),
                      Ahead(n, z, x) < Ahead(n, z, j)
               PROVE  FALSE
      OBVIOUS
  <2>1. ~(Ahead(n, z, j) <= reach)
      BY <1>1, <1>2, <1>3 DEF Gap
  <2>2. Ahead(n, z, y) = reach + 1 /\ y # x /\ y # j
      BY <1>1, <1>2, <2>1 DEF Gap
  <2>3. Ahead(n, z, j) # Ahead(n, z, y)
      BY <1>1, <2>2, PathFrom
  <2>4. Ahead(n, z, Home(n, h, j)) <= Ahead(n, z, y) /\ Ahead(n, z, y) < Ahead(n, z, j)
      BY <1>1, <1>2, <1>3, <2>1, <2>2, <2>3 DEF Gap
  <2> QED
      BY <2>2, <2>4 DEF Gap
<1> QED
    BY <1>4 DEF Gap

\* The entry in the next slot needs the gap or not, as InRange() tells.
LEMMA GapMoves ==
  ASSUME NEW n, NEW h, NEW z \in 0..n - 1, NEW x, NEW reach \in 0..n - 1, NEW y \in 0..n - 1,
         Table(n, h), KeysOnce(n, h), Gap(n, h, z, x, reach), h[y] # None,
         Ahead(n, z, y) = reach + 1
  PROVE  /\ InRange(Home(n, h, y), x + 1, y) => Gap(n, h, z, x, reach + 1)
         /\ ~InRange(Home(n, h, y), x + 1, y) =>
              Gap(n, Refilled(h, x, y), z, y, reach + 1)
<1>1. n \in Nat \ {0} /\ x \in 0..n - 1 /\ reach + 1 \in 0..n - 1
  <2>1. n \in Nat \ {0} /\ x \in 0..n - 1
      BY DEF Table, Gap
  <2> QED
      BY <2>1, PathFrom
<1>2. \A i \in 0..n - 1 : Ahead(n, z, i) \in 0..n - 1
    BY <1>1, PathFrom
<1>3. Home(n, h, y) \in 0..n - 1 /\ \A j \in 0..n - 1 : h[j] # None => Home(n, h, j) \in 0..n - 1
    BY TableSlots DEF Home
<1>4. x # y /\ y # z /\ Ahead(n, z, x) < Ahead(n, z, y) /\ Ahead(n, z, Home(n, h, y)) <= Ahead(n, z, y)
    BY <1>1, <1>2 DEF Gap
<1>5. InRange(Home(n, h, y), x + 1, y) <=> Ahead(n, z, x) < Ahead(n, z, Home(n, h, y))
    BY <1>1, <1>3, <1>4, RangeFrom
<1>6. \A j \in 0..n - 1 : Ahead(n, z, j) <= reach + 1 => Ahead(n, z, j) <= reach \/ j = y
  <2> SUFFICES ASSUME NEW j \in 0..n - 1, Ahead(n, z, j) <= reach + 1, ~(Ahead(n, z, j) <= reach)
               PROVE  j = y
      OBVIOUS
  <2>1. Ahead(n, z, j) = Ahead(n, z, y)
      BY <1>2
  <2> QED
      BY <1>1, <2>1, PathFrom
<1>7. ASSUME Ahead(n, z, x) < Ahead(n, z, Home(n, h, y)) PROVE Gap(n, h, z, x, reach + 1)
  <2>1. Ahead(n, z, x) <= reach + 1
      BY <1>1, <1>2 DEF Gap
  <2> QED
      BY <1>6, <1>7, <2>1 DEF Gap
<1>8. ASSUME ~(Ahead(n, z, x) < Ahead(n, z, Home(n, h, y)))
      PROVE  Gap(n, Refilled(h, x, y), z, y, reach + 1)
  <2> DEFINE g == Refilled(h, x, y)
  <2>1. /\ g[x] = h[y] /\ g[y] = None
        /\ \A j \in 0..n - 1 : j # x /\ j # y => g[j] = h[j]
      BY <1>1, <1>4 DEF Table, Refilled
  <2> HIDE DEF g
  <2>2. g[z] = None /\ Ahead(n, z, y) <= reach + 1
      BY <1>1, <1>4, <2>1 DEF Gap
  <2>3. Ahead(n, z, Home(n, h, y)) <= Ahead(n, z, x)
      BY <1>1, <1>2, <1>3, <1>8
  <2>4. ASSUME NEW j \in 0..n - 1, g[j] # None
        PROVE  /\ Ahead(n, z, Home(n, g, j)) <= Ahead(n, z, j)
               /\ \A i \in 0..n - 1 :
                    Ahead(n, z, Home(n, g, j)) <= Ahead(n, z, i) /\
                    Ahead(n, z, i) < Ahead(n, z, j) /\ i # y => g[i] # None
               /\ ~(Ahead(n, z, y) < Ahead(n, z, j) /\ Ahead(n, z, j) <= reach + 1)
    <3>1. ~(Ahead(n, z, y) < Ahead(n, z, j) /\ Ahead(n, z, j) <= reach + 1)
        BY <1>1, <1>2
    <3>2. CASE j = x
      <4>1. Home(n, g, j) = Home(n, h, y)
          BY <2>1, <3>2 DEF Home
      <4>2. ASSUME NEW i \in 0..n - 1, Ahead(n, z, Home(n, g, j)) <= Ahead(n, z, i),
                   Ahead(n, z, i) < Ahead(n, z, j), i # y
            PROVE  g[i] # None
        <5>1. i # x /\ Ahead(n, z, i) < Ahead(n, z, y)
            BY <1>1, <1>2, <1>4, <3>2, <4>2
        <5>2. h[i] # None
            BY <4>1, <4>2, <5>1 DEF Gap
        <5> QED
            BY <2>1, <4>2, <5>1, <5>2
      <4>3. Ahead(n, z, Home(n, g, j)) <= Ahead(n, z, j)
          BY <2>3, <3>2, <4>1
      <4>4. \A i \in 0..n - 1 :
              Ahead(n, z, Home(n, g, j)) <= Ahead(n, z, i) /\
              Ahead(n, z, i) < Ahead(n, z, j) /\ i # y => g[i] # None
          BY <4>2
      <4> QED
          BY <3>1, <4>3, <4>4
    <3>3. CASE j # x
      <4>1. j # y /\ g[j] = h[j] /\ Home(n, g, j) = Home(n, h, j)
          BY <2>1, <2>4, <3>3 DEF Home
      <4>2. ASSUME NEW i \in 0..n - 1, Ahead(n, z, Home(n, h, j)) <= Ahead(n, z, i),
                   Ahead(n, z, i) < Ahead(n, z, j), i # y
            PROVE  g[i] # None
        <5>1. CASE i = x
            BY <2>1, <5>1
        <5>2. CASE i # x
            BY <2>1, <2>4, <4>1, <4>2, <5>2 DEF Gap
        <5> QED
            BY <5>1, <5>2
      <4> QED
          BY <2>4, <3>1, <4>1, <4>2 DEF Gap
    <3> QED
        BY <3>2, <3>3
  <2>5. Gap(n, g, z, y, reach + 1)
      BY <1>4, <2>1, <2>2, <2>4 DEF Gap
  <2> QED
      BY <2>5 DEF g
<1> QED
    BY <1>5, <1>7, <1>8

\* The turns of the loop after an entry at idx is taken out, when z is another free slot:
\* the entries stay, and when the loop ends they are all reached. The gap is at x in g.
Turning(n, h, z, idx, i, g, x, closed) ==
  /\ Table(n, g) /\ KeysOnce(n, g) /\ EntriesOf(n, g) = EntriesOf(n, h)
  /\ g[z] = None
  /\ closed \in BOOLEAN
  /\ closed => Linear(n, g, z)
  /\ ~closed => /\ Ahead(n, z, idx) + i \in 0..n - 1
                /\ Gap(n, g, z, x, Ahead(n, z, idx) + i)

State(g, x, c) == [hash |-> g, idx |-> x, closed |-> c]

\* What a turn of the loop does.
LEMMA TurnClosed ==
  ASSUME NEW g, NEW x, NEW y
  PROVE  CloseGap(State(g, x, TRUE), y) = State(g, x, TRUE)
BY DEF CloseGap, State

LEMMA TurnCloses ==
  ASSUME NEW g, NEW x, NEW y, g[y] = None
  PROVE  CloseGap(State(g, x, FALSE), y) = State(g, x, TRUE)
BY DEF CloseGap, State

LEMMA TurnPasses ==
  ASSUME NEW n, NEW g, NEW x, NEW y, Table(n, g), g[y] # None, InRange(Home(n, g, y), x + 1, y)
  PROVE  CloseGap(State(g, x, FALSE), y) = State(g, x, FALSE)
<1>1. Slots(g) = n
    BY TableSlots
<1> QED
    BY <1>1 DEF CloseGap, State, Home, HomeOf

\* y comes after the slots up to reach.
Following(n, z, reach, y) ==
  /\ y \in 0..n - 1
  /\ reach = n - 1 => y = z
  /\ reach # n - 1 => Ahead(n, z, y) = reach + 1

\* The slot looked at in the next turn.
LEMMA NextSlot ==
  ASSUME NEW n \in Nat \ {0}, NEW z \in 0..n - 1, NEW idx \in 0..n - 1, NEW i \in Nat, NEW y,
         Ahead(n, z, idx) + i \in 0..n - 1, y = (idx + (i + 1)) % n
  PROVE  Following(n, z, Ahead(n, z, idx) + i, y)
<1>1. Ahead(n, z, idx) \in 0..n - 1
    BY PathFrom
<1>2. i + 1 \in 0..n
    BY <1>1
<1>3. idx % n = idx
    BY SMT
<1>4. idx \in Nat
    OBVIOUS
<1>5. (idx + (i + 1)) % n = IF (idx % n) + (i + 1) < n THEN (idx % n) + (i + 1)
                            ELSE (idx % n) + (i + 1) - n
    BY <1>2, <1>4, Turn
<1>6. y = IF idx + (i + 1) < n THEN idx + (i + 1) ELSE idx + (i + 1) - n
    BY <1>3, <1>5
<1> QED
    BY <1>1, <1>2, <1>6 DEF Ahead, Following

\* Each turn of the loop goes on from a state it may be in to another one.
LEMMA TurningStep ==
  ASSUME NEW n, NEW h, NEW z \in 0..n - 1, NEW idx \in 0..n - 1, NEW i \in Nat, NEW g, NEW x,
         NEW c, NEW y, Table(n, h), Turning(n, h, z, idx, i, g, x, c),
         Ahead(n, z, idx) + i \in 0..n - 1 => Following(n, z, Ahead(n, z, idx) + i, y)
  PROVE  \E g2, x2, c2 : /\ CloseGap(State(g, x, c), y) = State(g2, x2, c2)
                         /\ Turning(n, h, z, idx, i + 1, g2, x2, c2)
<1>1. n \in Nat \ {0} /\ Table(n, g) /\ KeysOnce(n, g) /\ c \in BOOLEAN /\ g[z] = None
    BY DEF Table, Turning
<1>2. CASE c = TRUE
  <2>1. CloseGap(State(g, x, c), y) = State(g, x, c)
      BY <1>2, TurnClosed
  <2>2. Turning(n, h, z, idx, i + 1, g, x, c)
      BY <1>2 DEF Turning
  <2> QED
      BY <2>1, <2>2
<1>3. CASE c = FALSE
  <2> DEFINE reach == Ahead(n, z, idx) + i
  <2>1. reach \in 0..n - 1 /\ Gap(n, g, z, x, reach) /\ x \in 0..n - 1 /\ g[x] = None
      BY <1>3 DEF Turning, Gap
  <2>2. /\ y \in 0..n - 1
        /\ reach = n - 1 => y = z
        /\ reach # n - 1 => Ahead(n, z, y) = reach + 1
      BY <2>1 DEF Following
  <2>3. reach + 1 = Ahead(n, z, idx) + (i + 1)
    <3>1. Ahead(n, z, idx) \in 0..n - 1
        BY <1>1, PathFrom
    <3> QED
        BY <1>1, <3>1
  <2> HIDE DEF reach
  <2>4. CASE g[y] = None
    <3>1. Linear(n, g, z)
        BY <1>1, <2>1, <2>2, <2>4, GapEnds
    <3>2. CloseGap(State(g, x, c), y) = State(g, x, TRUE)
        BY <1>3, <2>4, TurnCloses
    <3>3. Turning(n, h, z, idx, i + 1, g, x, TRUE)
        BY <3>1 DEF Turning
    <3> QED
        BY <3>2, <3>3
  <2>5. CASE g[y] # None
    <3>1. Ahead(n, z, y) = reach + 1 /\ reach + 1 \in 0..n - 1
      <4>1. Ahead(n, z, y) = reach + 1
          BY <1>1, <2>2, <2>5
      <4>2. Ahead(n, z, y) \in 0..n - 1
          BY <1>1, <2>2, PathFrom
      <4> QED
          BY <4>1, <4>2
    <3>2. CASE InRange(Home(n, g, y), x + 1, y)
      <4>1. CloseGap(State(g, x, c), y) = State(g, x, c)
          BY <1>1, <1>3, <2>5, <3>2, TurnPasses
      <4>2. Gap(n, g, z, x, reach + 1)
          BY <1>1, <2>1, <2>2, <2>5, <3>1, <3>2, GapMoves
      <4>3. Turning(n, h, z, idx, i + 1, g, x, c)
          BY <1>3, <2>3, <3>1, <4>2 DEF Turning
      <4> QED
          BY <4>1, <4>3
    <3>3. CASE ~InRange(Home(n, g, y), x + 1, y)
      <4> DEFINE moved == Refilled(g, x, y)
      <4>1. CloseGap(State(g, x, c), y) = State(moved, y, c)
        <5>1. CloseGap(State(g, x, FALSE), y) = State(moved, y, FALSE)
          <6>1. Slots(g) = n
              BY <1>1, TableSlots
          <6> QED
              BY <2>5, <3>3, <6>1 DEF CloseGap, State, Home, HomeOf, Refilled
        <5> QED
            BY <1>3, <5>1
      <4>2. Gap(n, moved, z, y, reach + 1)
          BY <1>1, <2>1, <2>2, <2>5, <3>1, <3>3, GapMoves
      <4>3. Table(n, moved) /\ KeysOnce(n, moved) /\ EntriesOf(n, moved) = EntriesOf(n, g)
          BY <1>1, <2>1, <2>2, <2>5, EntryMoves
      <4> HIDE DEF moved
      <4>4. moved[z] = None
          BY <4>2 DEF Gap
      <4>5. Turning(n, h, z, idx, i + 1, moved, y, c)
          BY <1>1, <1>3, <2>3, <3>1, <4>2, <4>3, <4>4 DEF Turning
      <4> QED
          BY <4>1, <4>5
    <3> QED
        BY <3>2, <3>3
  <2> QED
      BY <2>4, <2>5
<1> QED
    BY <1>1, <1>2, <1>3

\* The table without the entry at idx.
Without(h, idx) == [h EXCEPT ![idx] = None]

\* One entry fewer, in a table with room for probing or without.
LEMMA TakenOut ==
  ASSUME NEW n, NEW h, NEW idx \in 0..n - 1, Table(n, h), KeysOnce(n, h), h[idx] # None
  PROVE  /\ Table(n, Without(h, idx)) /\ KeysOnce(n, Without(h, idx))
         /\ EntriesOf(n, Without(h, idx)) = EntriesOf(n, h) \ {h[idx]}
         /\ Without(h, idx)[idx] = None
         /\ \A j \in 0..n - 1 : j # idx => Without(h, idx)[j] = h[j]
<1> DEFINE g == Without(h, idx)
<1>1. h \in [0..n - 1 -> EntryOrNone] /\ None \in EntryOrNone
    BY DEF Table, EntryOrNone
<1>2. g[idx] = None /\ \A j \in 0..n - 1 : j # idx => g[j] = h[j]
    BY <1>1 DEF Without
<1>3. Table(n, g)
    BY <1>1 DEF Table, Without
<1> HIDE DEF g
<1>4. KeysOnce(n, g)
    BY <1>2 DEF KeysOnce
<1>5. \A j \in 0..n - 1 : j # idx => h[j] # h[idx]
    BY DEF KeysOnce
<1>6. EntriesOf(n, g) = EntriesOf(n, h) \ {h[idx]}
  <2>1. ASSUME NEW j \in 0..n - 1, g[j] # None PROVE g[j] \in EntriesOf(n, h) \ {h[idx]}
    <3>1. j # idx /\ g[j] = h[j]
        BY <1>2, <2>1
    <3> QED
        BY <1>5, <2>1, <3>1 DEF EntriesOf
  <2>2. ASSUME NEW j \in 0..n - 1, h[j] # None, h[j] # h[idx] PROVE h[j] \in EntriesOf(n, g)
    <3>1. g[j] = h[j]
        BY <1>2, <2>2
    <3> QED
        BY <2>2, <3>1 DEF EntriesOf
  <2> QED
      BY <2>1, <2>2 DEF EntriesOf
<1> QED
    BY <1>2, <1>3, <1>4, <1>6 DEF g

\* What the loop of EvictItem() goes through.
LoopStates(n, h, idx, st) ==
  /\ st[0] = State(Without(h, idx), idx, FALSE)
  /\ st[2 * n].hash = Vacate(h, idx)
  /\ \A i \in 1..2 * n : st[i] = CloseGap(st[i - 1], (idx + i) % n)

\* The turns of the loop that closes the gap.
LEMMA VacateTurns ==
  ASSUME NEW n, NEW h, NEW idx \in 0..n - 1, Table(n, h)
  PROVE  \E st : LoopStates(n, h, idx, st)
<1>1. n \in Nat \ {0} /\ Slots(h) = n /\ h \in [0..n - 1 -> EntryOrNone] /\ None \in EntryOrNone
    BY TableSlots DEF Table, EntryOrNone
<1> DEFINE m == 2 * n
           base == State(Without(h, idx), idx, FALSE)
           seq == [i \in 1..m |-> (idx + i) % n]
<1>2. m \in Nat
    BY <1>1
<1>3. seq \in [1..m -> 0..n - 1]
  <2>1. \A i \in 1..m : (idx + i) % n \in 0..n - 1
    <3> SUFFICES ASSUME NEW i \in 1..m PROVE (idx + i) % n \in 0..n - 1
        OBVIOUS
    <3>1. idx + i \in Nat
        BY <1>1
    <3> QED
        BY <1>1, <3>1, Division
  <2> HIDE DEF m
  <2> QED
      BY <2>1
<1>4. base \in GapType(n, EntryOrNone)
    BY <1>1 DEF State, Without, GapType
<1>5. Vacate(h, idx) = GapLoop(base, seq).hash
    BY <1>1 DEF Vacate, State, Without, GapLoop
<1>7. \A i \in 1..m : seq[i] = (idx + i) % n
    OBVIOUS
<1> HIDE DEF base, seq, m
<1>6. PICK st : GapStates(base, seq, m, st)
    BY <1>1, <1>2, <1>3, <1>4, GapFold
<1>8. st[0] = base /\ st[m].hash = Vacate(h, idx)
    BY <1>5, <1>6 DEF GapStates
<1>9. \A i \in 1..m : st[i] = CloseGap(st[i - 1], (idx + i) % n)
    BY <1>6, <1>7 DEF GapStates
<1> QED
    BY <1>8, <1>9 DEF base, m, LoopStates

\* With another free slot, the loop leaves all other entries where probing finds them.
LEMMA VacateRoom ==
  ASSUME NEW n, NEW h, NEW idx \in 0..n - 1, NEW z \in 0..n - 1, Good(n, h), h[idx] # None,
         h[z] = None
  PROVE  /\ Good(n, Vacate(h, idx))
         /\ EntriesOf(n, Vacate(h, idx)) = EntriesOf(n, h) \ {h[idx]}
<1> DEFINE g0 == Without(h, idx)
<1>1. n \in Nat \ {0} /\ Table(n, h) /\ KeysOnce(n, h) /\ Reached(n, h) /\ idx # z
    BY DEF Good, Table
<1>2. /\ Table(n, g0) /\ KeysOnce(n, g0) /\ EntriesOf(n, g0) = EntriesOf(n, h) \ {h[idx]}
      /\ g0[idx] = None /\ \A j \in 0..n - 1 : j # idx => g0[j] = h[j]
    BY <1>1, TakenOut
<1>0. PICK st : LoopStates(n, h, idx, st)
    BY <1>1, VacateTurns
<1>3. /\ st[0] = State(g0, idx, FALSE)
      /\ st[2 * n].hash = Vacate(h, idx)
      /\ \A i \in 1..2 * n : st[i] = CloseGap(st[i - 1], (idx + i) % n)
    BY <1>0 DEF LoopStates
<1> HIDE DEF g0
<1> DEFINE J == {i \in 0..2 * n :
                   \E g, x, c : st[i] = State(g, x, c) /\ Turning(n, g0, z, idx, i, g, x, c)}
<1>4. Ahead(n, z, idx) \in 0..n - 1
    BY <1>1, PathFrom
<1>5. 0 \in J
  <2>1. Linear(n, h, z)
      BY <1>1, ReachedLinear
  <2>2. g0[z] = None
      BY <1>1, <1>2
  <2>3. \A i, j \in 0..n - 1 : Ahead(n, z, i) \in 0..n - 1
      BY <1>1, PathFrom
  <2>4. ASSUME NEW j \in 0..n - 1, g0[j] # None
        PROVE  /\ Ahead(n, z, Home(n, g0, j)) <= Ahead(n, z, j)
               /\ \A i \in 0..n - 1 :
                    Ahead(n, z, Home(n, g0, j)) <= Ahead(n, z, i) /\
                    Ahead(n, z, i) < Ahead(n, z, j) /\ i # idx => g0[i] # None
               /\ ~(Ahead(n, z, idx) < Ahead(n, z, j) /\ Ahead(n, z, j) <= Ahead(n, z, idx))
    <3>1. j # idx /\ g0[j] = h[j] /\ Home(n, g0, j) = Home(n, h, j)
        BY <1>2, <2>4 DEF Home
    <3>2. h[j] # None
        BY <2>4, <3>1
    <3>3. \A i \in 0..n - 1 : i # idx /\ h[i] # None => g0[i] # None
        BY <1>2
    <3> QED
        BY <2>1, <2>3, <3>1, <3>2, <3>3 DEF Linear
  <2> DEFINE a == Ahead(n, z, idx)
  <2>5. a <= a /\ a \in Nat
      BY <1>4
  <2>6. Gap(n, g0, z, idx, Ahead(n, z, idx))
      BY <1>1, <1>2, <2>2, <2>4, <2>5 DEF Gap
  <2>7. Ahead(n, z, idx) + 0 = Ahead(n, z, idx)
      BY <1>4
  <2>8. Turning(n, g0, z, idx, 0, g0, idx, FALSE)
      BY <1>2, <1>4, <2>2, <2>6, <2>7 DEF Turning
  <2>9. 0 \in 0..2 * n
      BY <1>1
  <2> QED
      BY <1>3, <2>8, <2>9
<1>6. ASSUME NEW i \in 1..2 * n, i - 1 \in J PROVE i \in J
  <2>1. PICK g, x, c : st[i - 1] = State(g, x, c) /\ Turning(n, g0, z, idx, i - 1, g, x, c)
      BY <1>6
  <2>2. PICK k \in Nat : k = i - 1
      BY <1>1
  <2>3. i = k + 1 /\ i \in 0..2 * n
      BY <1>1, <2>2
  <2>4. PICK y : y = (idx + (k + 1)) % n
      OBVIOUS
  <2>5. Ahead(n, z, idx) + k \in 0..n - 1 => Following(n, z, Ahead(n, z, idx) + k, y)
      BY <1>1, <2>4, NextSlot
  <2>6. Turning(n, g0, z, idx, k, g, x, c)
      BY <2>1, <2>2
  <2>7. PICK g2, x2, c2 : /\ CloseGap(State(g, x, c), y) = State(g2, x2, c2)
                          /\ Turning(n, g0, z, idx, k + 1, g2, x2, c2)
      BY <1>2, <2>5, <2>6, TurningStep
  <2>8. st[i] = CloseGap(State(g, x, c), y)
      BY <1>3, <1>6, <2>1, <2>3, <2>4
  <2> QED
      BY <2>3, <2>7, <2>8
<1>7. 2 * n \in J
  <2>1. 2 * n \in Nat /\ 2 * n \in 0..2 * n
      BY <1>1
  <2> HIDE DEF J
  <2> DEFINE m == 2 * n
  <2>2. m \in Nat /\ m \in 0..m /\ \A i \in 1..m : i - 1 \in J => i \in J
      BY <1>6, <2>1
  <2> HIDE DEF m
  <2>3. \A i \in 0..m : i \in J
      BY <1>5, <2>2, Steps
  <2> QED
      BY <2>2, <2>3 DEF m
<1>8. PICK g, x, c : st[2 * n] = State(g, x, c) /\ Turning(n, g0, z, idx, 2 * n, g, x, c)
    BY <1>7
<1>9. Vacate(h, idx) = g
    BY <1>3, <1>8 DEF State
<1>10. /\ Table(n, g) /\ KeysOnce(n, g) /\ EntriesOf(n, g) = EntriesOf(n, g0) /\ g[z] = None
       /\ Linear(n, g, z)
  <2>1. ~(Ahead(n, z, idx) + 2 * n \in 0..n - 1)
      BY <1>1, <1>4
  <2> QED
      BY <1>8, <2>1 DEF Turning
<1>11. Reached(n, g)
    BY <1>10, ReachedLinear
<1> QED
    BY <1>2, <1>9, <1>10, <1>11 DEF Good

\* One entry and one free slot: the entry is at home after one turn.
LEMMA SmallMoves ==
  ASSUME NEW g, NEW x \in 0..1, NEW y \in 0..1, Table(2, g), g[x] = None, g[y] # None
  PROVE  /\ InRange(Home(2, g, y), x + 1, y) => Reached(2, g)
         /\ ~InRange(Home(2, g, y), x + 1, y) => Reached(2, Refilled(g, x, y))
<1>1. x # y /\ Home(2, g, y) \in 0..1 /\ \A j \in 0..1 : j = x \/ j = y
  <2>1. 2 - 1 = 1
      OBVIOUS
  <2>2. Home(2, g, y) \in 0..1
      BY <2>1, TableSlots DEF Home
  <2>3. x # y
      OBVIOUS
  <2> QED
      BY <2>2, <2>3
<1>2. InRange(Home(2, g, y), x + 1, y) <=> Home(2, g, y) = y
    BY <1>1 DEF InRange
<1>3. \A i, j \in 0..1 : ~(Ahead(2, j, i) < Ahead(2, j, j))
    BY DEF Ahead
<1>4. ASSUME Home(2, g, y) = y PROVE Reached(2, g)
  <2>1. \A j \in 0..1 : g[j] # None => Home(2, g, j) = j
      BY <1>1, <1>4
  <2>2. 2 - 1 = 1
      OBVIOUS
  <2> QED
      BY <1>3, <2>1, <2>2 DEF Reached
<1>5. ASSUME Home(2, g, y) # y PROVE Reached(2, Refilled(g, x, y))
  <2> DEFINE r == Refilled(g, x, y)
  <2>1. r[x] = g[y] /\ r[y] = None
      BY <1>1 DEF Table, Refilled
  <2>2. Home(2, g, y) = x
      BY <1>1, <1>5
  <2> HIDE DEF r
  <2>3. \A j \in 0..1 : r[j] # None => Home(2, r, j) = j
      BY <1>1, <2>1, <2>2 DEF Home
  <2>4. 2 - 1 = 1
      OBVIOUS
  <2>5. Reached(2, r)
      BY <1>3, <2>3, <2>4 DEF Reached
  <2> QED
      BY <2>5 DEF r
<1> QED
    BY <1>2, <1>4, <1>5

\* A table of one slot or two, with an entry in each.
Full(n, h) == (n = 1 \/ n = 2) /\ \A j \in 0..n - 1 : h[j] # None

\* The slot looked at in turn i.
SlotAt(n, idx, i) == (idx + i) % n

\* The turns in a table of one slot or two that was full.
SmallTurn(n, h, idx, i, g, x, c) ==
  /\ c \in BOOLEAN
  /\ i = 0 => c = FALSE
  /\ Table(n, g) /\ KeysOnce(n, g) /\ EntriesOf(n, g) = EntriesOf(n, Without(h, idx))
  /\ x \in 0..n - 1 /\ g[x] = None
  /\ i = 0 => x = idx /\ g = Without(h, idx)
  /\ i # 0 => Reached(n, g)

\* The same loop in a small table.
LEMMA SmallTurns ==
  ASSUME NEW n, NEW h, NEW idx \in 0..n - 1, NEW i \in Nat, NEW g, NEW x, NEW c, NEW y,
         Full(n, h), Table(n, h), SmallTurn(n, h, idx, i, g, x, c), y = SlotAt(n, idx, i + 1)
  PROVE  \E g2, x2, c2 : /\ CloseGap(State(g, x, c), y) = State(g2, x2, c2)
                         /\ SmallTurn(n, h, idx, i + 1, g2, x2, c2)
<1>0. /\ n = 1 \/ n = 2
      /\ \A j \in 0..n - 1 : h[j] # None
      /\ c = TRUE \/ c = FALSE
      /\ i = 0 => c = FALSE
    BY DEF Full, SmallTurn
<1>1. n \in Nat \ {0} /\ Table(n, g) /\ KeysOnce(n, g) /\ x \in 0..n - 1 /\ g[x] = None
      /\ i + 1 # 0 /\ y \in 0..n - 1
  <2>1. idx + (i + 1) \in Nat /\ n \in Nat \ {0}
      BY <1>0
  <2>2. y \in 0..n - 1
      BY <2>1, Division DEF SlotAt
  <2>3. i + 1 # 0
      OBVIOUS
  <2> QED
      BY <2>1, <2>2, <2>3 DEF SmallTurn
<1>2. ASSUME NEW c2 \in BOOLEAN, CloseGap(State(g, x, c), y) = State(g, x, c2), Reached(n, g)
      PROVE  \E g2, x2, c3 : /\ CloseGap(State(g, x, c), y) = State(g2, x2, c3)
                             /\ SmallTurn(n, h, idx, i + 1, g2, x2, c3)
  <2>1. SmallTurn(n, h, idx, i + 1, g, x, c2)
      BY <1>1, <1>2 DEF SmallTurn
  <2> QED
      BY <1>2, <2>1
<1>3. CASE c = TRUE
  <2>1. Reached(n, g)
      BY <1>0, <1>3 DEF SmallTurn
  <2>2. CloseGap(State(g, x, c), y) = State(g, x, TRUE)
      BY <1>3, TurnClosed
  <2> QED
      BY <1>2, <2>1, <2>2
<1>4. CASE c = FALSE /\ g[y] = None
  <2>1. CloseGap(State(g, x, c), y) = State(g, x, TRUE)
      BY <1>4, TurnCloses
  <2>2. Reached(n, g)
    <3>1. CASE i # 0
        BY <3>1 DEF SmallTurn
    <3>2. CASE n = 1
      <4>1. \A j \in 0..n - 1 : j = x
          BY <1>1, <3>2
      <4> QED
          BY <1>1, <4>1 DEF Reached
    <3>3. CASE i = 0 /\ n = 2
      <4>1. y # idx
        <5>1. idx \in 0..1 /\ y = (idx + (0 + 1)) % 2
            BY <3>3 DEF SlotAt
        <5>2. idx = 0 => y = 1
            BY <5>1
        <5>3. idx = 1 => y = 0
            BY <5>1
        <5> QED
            BY <5>1, <5>2, <5>3
      <4>2. g = Without(h, idx)
          BY <3>3 DEF SmallTurn
      <4>3. g[y] = h[y]
          BY <1>1, <4>1, <4>2 DEF Without, Table
      <4> QED
          BY <1>0, <1>1, <1>4, <4>3
    <3> QED
        BY <1>0, <3>1, <3>2, <3>3
  <2> QED
      BY <1>2, <2>1, <2>2
<1>5. CASE c = FALSE /\ g[y] # None
  <2>1. n = 2 /\ x \in 0..1 /\ y \in 0..1 /\ Table(2, g)
    <3>1. n # 1
        BY <1>1, <1>5
    <3>2. n = 2
        BY <1>0, <3>1
    <3> QED
        BY <1>1, <3>2
  <2>2. CASE InRange(Home(n, g, y), x + 1, y)
    <3>1. CloseGap(State(g, x, c), y) = State(g, x, FALSE)
        BY <1>1, <1>5, <2>2, TurnPasses
    <3>2. Reached(n, g)
        BY <1>1, <1>5, <2>1, <2>2, SmallMoves
    <3> QED
        BY <1>2, <3>1, <3>2
  <2>3. CASE ~InRange(Home(n, g, y), x + 1, y)
    <3> DEFINE moved == Refilled(g, x, y)
    <3>1. CloseGap(State(g, x, c), y) = State(moved, y, FALSE)
      <4>1. Slots(g) = n
          BY <1>1, TableSlots
      <4>2. CloseGap(State(g, x, FALSE), y) = State(moved, y, FALSE)
          BY <1>5, <2>3, <4>1 DEF CloseGap, State, Home, HomeOf, Refilled
      <4> QED
          BY <1>5, <4>2
    <3>2. Reached(n, moved)
        BY <1>1, <1>5, <2>1, <2>3, SmallMoves
    <3>3. Table(n, moved) /\ KeysOnce(n, moved) /\ EntriesOf(n, moved) = EntriesOf(n, g)
        BY <1>1, <1>5, EntryMoves
    <3>4. moved[y] = None
      <4>1. x # y
          BY <1>1, <1>5
      <4> QED
          BY <1>1, <4>1 DEF Refilled, Table
    <3> HIDE DEF moved
    <3>5. SmallTurn(n, h, idx, i + 1, moved, y, FALSE)
        BY <1>1, <3>2, <3>3, <3>4 DEF SmallTurn
    <3> QED
        BY <3>1, <3>5
  <2> QED
      BY <2>2, <2>3
<1> QED
    BY <1>0, <1>3, <1>4, <1>5

\* A full table loses an entry.
LEMMA VacateSmall ==
  ASSUME NEW n, NEW h, NEW idx \in 0..n - 1, Full(n, h), Good(n, h)
  PROVE  /\ Good(n, Vacate(h, idx))
         /\ EntriesOf(n, Vacate(h, idx)) = EntriesOf(n, h) \ {h[idx]}
<1> DEFINE g0 == Without(h, idx)
<1>1. n \in Nat \ {0} /\ Table(n, h) /\ KeysOnce(n, h) /\ h[idx] # None
    BY DEF Good, Table, Full
<1>2. /\ Table(n, g0) /\ KeysOnce(n, g0) /\ EntriesOf(n, g0) = EntriesOf(n, h) \ {h[idx]}
      /\ g0[idx] = None
    BY <1>1, TakenOut
<1>0. PICK st : LoopStates(n, h, idx, st)
    BY <1>1, VacateTurns
<1>3. /\ st[0] = State(g0, idx, FALSE)
      /\ st[2 * n].hash = Vacate(h, idx)
      /\ \A i \in 1..2 * n : st[i] = CloseGap(st[i - 1], (idx + i) % n)
    BY <1>0 DEF LoopStates
<1> DEFINE J == {i \in 0..2 * n :
                   \E g, x, c : st[i] = State(g, x, c) /\ SmallTurn(n, h, idx, i, g, x, c)}
<1>5. 0 \in J
  <2>1. SmallTurn(n, h, idx, 0, g0, idx, FALSE)
      BY <1>2 DEF SmallTurn
  <2> HIDE DEF g0
  <2>2. 0 \in 0..2 * n
      BY <1>1
  <2> QED
      BY <1>3, <2>1, <2>2
<1> HIDE DEF g0
<1>6. ASSUME NEW i \in 1..2 * n, i - 1 \in J PROVE i \in J
  <2>1. PICK g, x, c : st[i - 1] = State(g, x, c) /\ SmallTurn(n, h, idx, i - 1, g, x, c)
      BY <1>6
  <2>2. PICK k \in Nat : k = i - 1
      BY <1>1
  <2>3. i = k + 1 /\ i \in 0..2 * n /\ i # 0
      BY <1>1, <2>2
  <2>4. PICK y : y = SlotAt(n, idx, k + 1)
      OBVIOUS
  <2>6. SmallTurn(n, h, idx, k, g, x, c)
      BY <2>1, <2>2
  <2>7. PICK g2, x2, c2 : /\ CloseGap(State(g, x, c), y) = State(g2, x2, c2)
                          /\ SmallTurn(n, h, idx, k + 1, g2, x2, c2)
    <3>1. Table(n, h) /\ Full(n, h)
        BY <1>1
    <3> HIDE DEF J
    <3> QED
        BY <3>1, <2>4, <2>6, SmallTurns, SMTT(30)
  <2>8. st[i] = CloseGap(State(g, x, c), y)
      BY <1>3, <1>6, <2>1, <2>3, <2>4 DEF SlotAt
  <2> QED
      BY <2>3, <2>7, <2>8
<1>7. 2 * n \in J
  <2>1. 2 * n \in Nat /\ 2 * n \in 0..2 * n
      BY <1>1
  <2> HIDE DEF J
  <2> DEFINE m == 2 * n
  <2>2. m \in Nat /\ m \in 0..m /\ \A i \in 1..m : i - 1 \in J => i \in J
      BY <1>6, <2>1
  <2> HIDE DEF m
  <2>3. \A i \in 0..m : i \in J
      BY <1>5, <2>2, Steps
  <2> QED
      BY <2>2, <2>3 DEF m
<1>8. PICK g, x, c : st[2 * n] = State(g, x, c) /\ SmallTurn(n, h, idx, 2 * n, g, x, c)
    BY <1>7
<1>9. Vacate(h, idx) = g
    BY <1>3, <1>8 DEF State
<1>10. 2 * n # 0
    BY <1>1
<1>11. Good(n, g) /\ EntriesOf(n, g) = EntriesOf(n, g0)
    BY <1>8, <1>10 DEF Good, SmallTurn, g0
<1> QED
    BY <1>2, <1>9, <1>11

\* EvictItem() leaves all other entries where probing finds them.
LEMMA Vacated ==
  ASSUME NEW n, NEW h, NEW idx \in 0..n - 1, Good(n, h), h[idx] # None,
         n \in {1, 2} \/ \E z \in 0..n - 1 : h[z] = None
  PROVE  /\ Good(n, Vacate(h, idx))
         /\ EntriesOf(n, Vacate(h, idx)) = EntriesOf(n, h) \ {h[idx]}
<1>1. CASE \E z \in 0..n - 1 : h[z] = None
    BY <1>1, VacateRoom
<1>2. CASE \A z \in 0..n - 1 : h[z] # None
  <2>1. Full(n, h)
      BY <1>2 DEF Full
  <2> QED
      BY <2>1, VacateSmall
<1> QED
    BY <1>1, <1>2

\* A new key is put where probing finds it.
LEMMA PutNew ==
  ASSUME NEW n, NEW h, NEW e \in EntryType, Good(n, h), \E z \in 0..n - 1 : h[z] = None,
         \A d \in EntriesOf(n, h) : d.key # e.key
  PROVE  Good(n, Put(h, e)) /\ EntriesOf(n, Put(h, e)) = EntriesOf(n, h) \cup {e}
<1> DEFINE k == e.key
           f == Find(h, k)
           g == Put(h, e)
<1>1. n \in Nat \ {0} /\ Table(n, h) /\ KeysOnce(n, h) /\ Reached(n, h)
    BY DEF Good, Table
<1>2. k \in Nat /\ e # None
    BY HashCacheAssumption, NoneIsNoEntry DEF EntryType
<1>3. \A j \in 0..n - 1 : h[j] # None => h[j].key # k
    BY DEF EntriesOf
<1> HIDE DEF k
<1>4. /\ f \in 0..n - 1 /\ h[f] = None
      /\ \A j \in 0..n - 1 : Ahead(n, HomeOf(n, k), j) < Ahead(n, HomeOf(n, k), f) => h[j] # None
    BY <1>1, <1>2, <1>3, FindFree
<1>5. g = [h EXCEPT ![f] = e]
    BY DEF Put, k
<1> HIDE DEF f, g
<1>6. h \in [0..n - 1 -> EntryOrNone] /\ e \in EntryOrNone
    BY <1>1 DEF Table, EntryOrNone
<1>7. g[f] = e /\ \A j \in 0..n - 1 : j # f => g[j] = h[j]
    BY <1>4, <1>5, <1>6
<1>8. Table(n, g)
    BY <1>1, <1>5, <1>6 DEF Table
<1>9. KeysOnce(n, g)
  <2> SUFFICES ASSUME NEW i \in 0..n - 1, NEW j \in 0..n - 1, g[i] # None, g[j] # None,
                      g[i].key = g[j].key
               PROVE  i = j
      BY DEF KeysOnce
  <2>1. CASE i = f
      BY <1>3, <1>7, <2>1 DEF k
  <2>2. CASE j = f
      BY <1>3, <1>7, <2>2 DEF k
  <2>3. CASE i # f /\ j # f
      BY <1>1, <1>7, <2>3 DEF KeysOnce
  <2> QED
      BY <2>1, <2>2, <2>3
<1>10. Reached(n, g)
  <2> SUFFICES ASSUME NEW j \in 0..n - 1, g[j] # None, NEW i \in 0..n - 1,
                      Ahead(n, Home(n, g, j), i) < Ahead(n, Home(n, g, j), j)
               PROVE  g[i] # None
      BY DEF Reached
  <2>1. CASE i = f
      BY <1>2, <1>7, <2>1
  <2>2. CASE i # f /\ j = f
    <3>1. Home(n, g, j) = HomeOf(n, k)
        BY <1>7, <2>2 DEF Home, k
    <3> QED
        BY <1>4, <1>7, <2>2, <3>1
  <2>3. CASE i # f /\ j # f
    <3>1. Home(n, g, j) = Home(n, h, j)
        BY <1>7, <2>3 DEF Home
    <3> QED
        BY <1>1, <1>7, <2>3, <3>1 DEF Reached
  <2> QED
      BY <2>1, <2>2, <2>3
<1>11. EntriesOf(n, g) = EntriesOf(n, h) \cup {e}
  <2>1. ASSUME NEW j \in 0..n - 1, g[j] # None PROVE g[j] \in EntriesOf(n, h) \cup {e}
      BY <1>7, <2>1 DEF EntriesOf
  <2>2. ASSUME NEW j \in 0..n - 1, h[j] # None PROVE h[j] \in EntriesOf(n, g)
    <3>1. h[j] = g[j]
        BY <1>4, <1>7, <2>2
    <3> QED
        BY <2>2, <3>1 DEF EntriesOf
  <2>3. e \in EntriesOf(n, g)
      BY <1>2, <1>4, <1>7 DEF EntriesOf
  <2> QED
      BY <2>1, <2>2, <2>3 DEF EntriesOf
<1> QED
    BY <1>8, <1>9, <1>10, <1>11 DEF Good, g

-----------------------------------------------------------------------------
(* Evictions in the order of insertion.                                    *)

\* The order lists the keys of a set of entries, each once.
Keyed(order, E) ==
  /\ order \in Seq(Key)
  /\ \A i \in 1..Len(order) : \E e \in E : e.key = order[i]
  /\ \A e \in E : \E i \in 1..Len(order) : order[i] = e.key
  /\ \A i, j \in 1..Len(order) : order[i] = order[j] => i = j

\* The entries of a table are finitely many, and no two have one key.
LEMMA EntriesTyped ==
  ASSUME NEW n, NEW h, Table(n, h)
  PROVE  /\ EntriesOf(n, h) \subseteq EntryType
         /\ IsFiniteSet(EntriesOf(n, h))
         /\ KeysOnce(n, h) => \A d, e \in EntriesOf(n, h) : d.key = e.key => d = e
<1>1. EntriesOf(n, h) \subseteq EntryType
    BY TableSlots DEF EntriesOf
<1>2. IsFiniteSet(EntriesOf(n, h))
  <2> DEFINE T == {h[j] : j \in 0..n - 1}
             f == [j \in 0..n - 1 |-> h[j]]
  <2>1. n - 1 \in Int /\ IsFiniteSet(0..n - 1)
    <3>1. n - 1 \in Int /\ 0 \in Int
        BY DEF Table
    <3> QED
        BY <3>1, FS_Interval
  <2>2. f \in Surjection(0..n - 1, T)
      BY DEF Surjection
  <2>3. IsFiniteSet(T)
    <3> HIDE DEF T, f
    <3> QED
        BY <2>1, <2>2, FS_Surjection
  <2>4. EntriesOf(n, h) \subseteq T
      BY DEF EntriesOf
  <2> HIDE DEF T
  <2> QED
      BY <2>3, <2>4, FS_Subset
<1>3. ASSUME KeysOnce(n, h), NEW d \in EntriesOf(n, h), NEW e \in EntriesOf(n, h), d.key = e.key
      PROVE  d = e
    BY <1>3 DEF EntriesOf, KeysOnce
<1> QED
    BY <1>1, <1>2, <1>3

\* With fewer keys than slots, a slot is free.
LEMMA RoomLeft ==
  ASSUME NEW n, NEW h, NEW order \in Seq(Key), Table(n, h), KeysOnce(n, h), Len(order) < n,
         \A e \in EntriesOf(n, h) : \E i \in 1..Len(order) : order[i] = e.key
  PROVE  \E z \in 0..n - 1 : h[z] = None
<1> SUFFICES ASSUME \A z \in 0..n - 1 : h[z] # None PROVE FALSE
    OBVIOUS
<1> DEFINE m == Len(order)
           S == 0..n - 1
           T == 1..m
           f == [j \in S |-> CHOOSE i \in T : order[i] = h[j].key]
<1>1. n \in Nat \ {0} /\ m \in Nat
    BY DEF Table
<1>2. \A j \in S : h[j] \in EntriesOf(n, h)
    BY DEF EntriesOf
<1>3. \A j \in S : f[j] \in T /\ order[f[j]] = h[j].key
  <2> SUFFICES ASSUME NEW j \in S PROVE f[j] \in T /\ order[f[j]] = h[j].key
      OBVIOUS
  <2>1. \E i \in T : order[i] = h[j].key
      BY <1>2
  <2> HIDE DEF T
  <2> QED
      BY <2>1
<1>4. f \in [S -> T]
  <2> HIDE DEF T
  <2> QED
      BY <1>3
<1>5. IsFiniteSet(S) /\ IsFiniteSet(T) /\ Cardinality(S) = n /\ Cardinality(T) = m
  <2>1. 0 \in Int /\ n - 1 \in Int /\ 1 \in Int /\ m \in Int
      BY <1>1
  <2>2. /\ IsFiniteSet(S) /\ IsFiniteSet(T)
        /\ Cardinality(S) = IF 0 > n - 1 THEN 0 ELSE n - 1 - 0 + 1
        /\ Cardinality(T) = IF 1 > m THEN 0 ELSE m - 1 + 1
    <3> HIDE DEF m
    <3> QED
        BY <2>1, FS_Interval
  <2> HIDE DEF m
  <2> QED
      BY <1>1, <2>2
<1>6. \E x, y \in S : x # y /\ f[x] = f[y]
  <2>1. Cardinality(T) < Cardinality(S)
      BY <1>5
  <2> HIDE DEF S, T, f, m
  <2> QED
      BY <1>4, <1>5, <2>1, FS_PigeonHole
<1>7. PICK x \in S, y \in S : x # y /\ f[x] = f[y]
    BY <1>6
<1>8. h[x].key = h[y].key
    BY <1>3, <1>7
<1> QED
    BY <1>7, <1>8 DEF KeysOnce

\* What EvictItem() works on.
Books(n, c) ==
  /\ c \in [hash : [0..n - 1 -> EntryOrNone], order : Seq(Key), evicted : SUBSET EntryType,
            allocated : Int, size : Nat]
  /\ Good(n, c.hash) /\ Keyed(c.order, EntriesOf(n, c.hash))
  /\ c.size = Len(c.order)
  /\ c.size < n \/ n \in {1, 2}

\* EvictItem() takes out the entry of the oldest key.
LEMMA EvictItemBooks ==
  ASSUME NEW n, NEW c, Books(n, c), c.size > 0
  PROVE  \E e \in EntriesOf(n, c.hash) :
           /\ e.key = c.order[1]
           /\ Books(n, EvictItem(c))
           /\ EvictItem(c).size = c.size - 1
           /\ \A i \in 1..c.size - 1 : EvictItem(c).order[i] = c.order[i + 1]
           /\ EntriesOf(n, EvictItem(c).hash) = EntriesOf(n, c.hash) \ {e}
           /\ EvictItem(c).evicted = IF e.pins = 0 THEN c.evicted ELSE c.evicted \cup {e}
           /\ EvictItem(c).allocated = IF e.pins = 0 THEN c.allocated - 1 ELSE c.allocated
<1> DEFINE h == c.hash
           order == c.order
<1>1. /\ Table(n, h) /\ Good(n, h) /\ KeysOnce(n, h) /\ Keyed(order, EntriesOf(n, h))
      /\ order \in Seq(Key) /\ c.size = Len(order)
      /\ c.evicted \subseteq EntryType /\ c.allocated \in Int
    BY DEF Books, Good
<1>2. order # <<>> /\ Len(order) \in Nat /\ 1 \in 1..Len(order)
    BY <1>1
<1>3. /\ Tail(order) \in Seq(Key) /\ Len(Tail(order)) = Len(order) - 1
      /\ \A i \in 1..Len(Tail(order)) : Tail(order)[i] = order[i + 1]
      /\ Head(order) = order[1]
  <2>1. Head(order) = order[1]
      BY <1>1, <1>2
  <2> HIDE DEF order
  <2> QED
      BY <1>1, <1>2, <2>1, HeadTailProperties
<1>4. PICK e \in EntriesOf(n, h) : e.key = order[1]
    BY <1>1, <1>2 DEF Keyed
<1>5. PICK idx \in 0..n - 1 : h[idx] = e /\ h[idx] # None
    BY DEF EntriesOf
<1>6. Locate(h, Head(order)) = idx
  <2> HIDE DEF h, order
  <2>1. Locate(h, h[idx].key) = idx
      BY <1>1, <1>5, LocateKey
  <2> QED
      BY <1>3, <1>4, <1>5, <2>1
<1>7. n \in {1, 2} \/ \E z \in 0..n - 1 : h[z] = None
  <2>1. ASSUME c.size < n PROVE \E z \in 0..n - 1 : h[z] = None
    <3> HIDE DEF h, order
    <3> QED
        BY <1>1, <2>1, RoomLeft DEF Keyed
  <2> QED
      BY <2>1 DEF Books
<1> DEFINE g == Vacate(h, idx)
           d == EvictItem(c)
<1>8. Good(n, g) /\ EntriesOf(n, g) = EntriesOf(n, h) \ {e}
  <2> HIDE DEF h
  <2> QED
      BY <1>1, <1>5, <1>7, Vacated
<1>9. d = [hash |-> g, order |-> Tail(order),
           evicted |-> IF e.pins = 0 THEN c.evicted ELSE c.evicted \cup {e},
           allocated |-> IF e.pins = 0 THEN c.allocated - 1 ELSE c.allocated,
           size |-> c.size - 1]
    BY <1>5, <1>6 DEF EvictItem
<1>10. /\ d.hash = g /\ d.order = Tail(order) /\ d.size = c.size - 1
       /\ d.evicted = IF e.pins = 0 THEN c.evicted ELSE c.evicted \cup {e}
       /\ d.allocated = IF e.pins = 0 THEN c.allocated - 1 ELSE c.allocated
    BY <1>9
<1>11. Keyed(Tail(order), EntriesOf(n, g))
  <2>1. \A i \in 1..Len(Tail(order)) : i + 1 \in 1..Len(order) /\ i + 1 # 1
      BY <1>2, <1>3
  <2>2. ASSUME NEW i \in 1..Len(Tail(order))
        PROVE  \E a \in EntriesOf(n, g) : a.key = Tail(order)[i]
    <3>1. PICK a \in EntriesOf(n, h) : a.key = order[i + 1]
        BY <1>1, <2>1 DEF Keyed
    <3>2. order[i + 1] # order[1]
      <4>1. \A j, k \in 1..Len(order) : order[j] = order[k] => j = k
          BY <1>1 DEF Keyed
      <4> HIDE DEF order
      <4> QED
          BY <1>2, <2>1, <4>1
    <3>3. a # e
        BY <1>4, <3>1, <3>2
    <3> QED
        BY <1>3, <1>8, <3>1, <3>3
  <2>3. ASSUME NEW a \in EntriesOf(n, g)
        PROVE  \E i \in 1..Len(Tail(order)) : Tail(order)[i] = a.key
    <3>1. a \in EntriesOf(n, h) /\ a # e
        BY <1>8
    <3>2. PICK i \in 1..Len(order) : order[i] = a.key
        BY <1>1, <3>1 DEF Keyed
    <3>3. i # 1
      <4>1. a.key # e.key
          BY <1>1, <3>1, EntriesTyped
      <4> QED
          BY <1>4, <3>2, <4>1
    <3>4. i - 1 \in 1..Len(Tail(order)) /\ (i - 1) + 1 = i
        BY <1>2, <1>3, <3>3
    <3> QED
        BY <1>3, <3>2, <3>4
  <2>4. ASSUME NEW i \in 1..Len(Tail(order)), NEW j \in 1..Len(Tail(order)),
               Tail(order)[i] = Tail(order)[j]
        PROVE  i = j
    <3>1. i + 1 = j + 1
        BY <1>1, <1>3, <2>1, <2>4 DEF Keyed
    <3> QED
        BY <3>1
  <2> HIDE DEF order, g, h
  <2> QED
      BY <1>3, <2>2, <2>3, <2>4 DEF Keyed
<1>12. e \in EntryType
    BY <1>1, EntriesTyped
<1>13. Books(n, d)
  <2>1. g \in [0..n - 1 -> EntryOrNone]
      BY <1>8 DEF Good, Table
  <2>2. c.size \in Nat /\ c.size - 1 \in Nat
      BY <1>1, <1>2
  <2>3. c.size - 1 = Len(Tail(order))
      BY <1>1, <1>3
  <2>4. c.size - 1 < n \/ n \in {1, 2}
    <3>1. n \in Nat
        BY <1>1 DEF Table
    <3> QED
        BY <2>2, <3>1 DEF Books
  <2>5. (IF e.pins = 0 THEN c.evicted ELSE c.evicted \cup {e}) \in SUBSET EntryType
      BY <1>1, <1>12
  <2>6. (IF e.pins = 0 THEN c.allocated - 1 ELSE c.allocated) \in Int
      BY <1>1
  <2> HIDE DEF g, h, order
  <2>7. d \in [hash : [0..n - 1 -> EntryOrNone], order : Seq(Key), evicted : SUBSET EntryType,
               allocated : Int, size : Nat]
      BY <1>3, <1>9, <2>1, <2>2, <2>5, <2>6
  <2> HIDE DEF d
  <2> QED
      BY <1>8, <1>10, <1>11, <2>3, <2>4, <2>7 DEF Books
<1>14. \A i \in 1..c.size - 1 : d.order[i] = order[i + 1]
    BY <1>1, <1>3, <1>10
<1> HIDE DEF d, g
<1> QED
    BY <1>4, <1>8, <1>10, <1>13, <1>14 DEF d

\* One turn of EvictToCapacity().
EvictTurn(limit, d) == IF d.size > limit THEN EvictItem(d) ELSE d

EvictStates(limit, c, st) ==
  /\ st[0] = c /\ st[c.size] = EvictedToCapacity(limit, c)
  /\ \A i \in 1..c.size : st[i] = EvictTurn(limit, st[i - 1])

\* EvictToCapacity() as a sequence of states.
LEMMA EvictFold ==
  ASSUME NEW n, NEW limit \in Nat, NEW c, Books(n, c)
  PROVE  \E st : EvictStates(limit, c, st)
<1> DEFINE m == c.size
           X == {d \in [hash : [0..n - 1 -> EntryOrNone], order : Seq(Key),
                        evicted : SUBSET EntryType, allocated : Int, size : Nat] : Books(n, d)}
           f == [p \in X \X (1..m) |-> EvictTurn(limit, p[1])]
           seq == [i \in 1..m |-> i]
<1>0. m \in Nat /\ c \in X
    BY DEF Books
<1>1. ASSUME NEW d \in X PROVE EvictTurn(limit, d) \in X
  <2>1. Books(n, d) /\ d.size \in Nat
      OBVIOUS
  <2>2. ASSUME d.size > limit PROVE Books(n, EvictItem(d))
    <3>1. d.size > 0
        BY <2>1, <2>2
    <3> HIDE DEF X
    <3> QED
        BY <2>1, <3>1, EvictItemBooks
  <2>3. Books(n, EvictTurn(limit, d))
      BY <2>1, <2>2 DEF EvictTurn
  <2> DEFINE u == EvictTurn(limit, d)
  <2> HIDE DEF u
  <2>4. Books(n, u)
      BY <2>3 DEF u
  <2>5. u \in X
      BY <2>4 DEF Books
  <2> QED
      BY <2>5 DEF u
<1>2. f \in [X \X (1..m) -> X]
  <2>1. \A p \in X \X (1..m) : p[1] \in X
      OBVIOUS
  <2>2. \A p \in X \X (1..m) : EvictTurn(limit, p[1]) \in X
      BY <1>1, <2>1
  <2> HIDE DEF X
  <2> QED
      BY <2>2
<1>3. PICK g \in [SUBSET (1..m) -> X] : Folds(f, c, 1..m, g)
  <2> HIDE DEF f, X, m
  <2> QED
      BY <1>0, <1>2, NumbersGreatest, FoldsTyped
<1>4. DOMAIN seq = 1..m
    OBVIOUS
<1> DEFINE Eq(h) == h = [s \in SUBSET (1..m) |->
                           IF s = {} THEN c ELSE EvictTurn(limit, h[s \ {Max(s)}])]
           it == CHOOSE h : Eq(h)
<1>5. Eq(g)
  <2> HIDE DEF X, m
  <2>1. ASSUME NEW s \in SUBSET (1..m), s # {}
        PROVE  f[<<g[s \ {Max(s)}], Max(s)>>] = EvictTurn(limit, g[s \ {Max(s)}])
    <3>1. Max(s) \in 1..m /\ s \ {Max(s)} \in SUBSET (1..m)
        BY <1>0, <2>1, Largest
    <3>2. g[s \ {Max(s)}] \in X
        BY <3>1
    <3> QED
        BY <3>1, <3>2
  <2>2. g = [s \in SUBSET (1..m) |-> IF s = {} THEN c ELSE f[<<g[s \ {Max(s)}], Max(s)>>]]
      BY <1>3 DEF Folds
  <2> HIDE DEF f
  <2> QED
      BY <2>1, <2>2
<1>6. Eq(it)
  <2> HIDE DEF Eq
  <2> QED
      BY <1>5
<1>7. EvictedToCapacity(limit, c) = it[1..m]
    BY <1>4 DEF EvictedToCapacity, EvictTurn, FoldLeft, MapThenFoldSet
<1> DEFINE st == [i \in 0..m |-> it[1..i]]
<1>8. /\ st[0] = it[{}] /\ st[m] = it[1..m]
      /\ \A i \in 1..m : /\ st[i] = it[1..i] /\ 1..i \in SUBSET (1..m) /\ 1..i # {}
                         /\ Max(1..i) = i /\ st[i - 1] = it[(1..i) \ {i}]
  <2> HIDE DEF m
  <2>1. 0 \in 0..m /\ m \in 0..m
      BY <1>0
  <2>2. \A i \in 0..m : st[i] = it[1..i]
      OBVIOUS
  <2> HIDE DEF it, st, Eq, X, f
  <2> QED
      BY <1>0, <2>1, <2>2, FoldSteps, ZenonT(60)
<1>9. it[{}] = c
  <2>1. {} \in SUBSET (1..m)
      OBVIOUS
  <2> HIDE DEF it
  <2> QED
      BY <1>6, <2>1
<1>10. \A i \in 1..m : st[i] = EvictTurn(limit, st[i - 1])
  <2> SUFFICES ASSUME NEW i \in 1..m PROVE st[i] = EvictTurn(limit, st[i - 1])
      OBVIOUS
  <2> HIDE DEF it, st, m
  <2>1. it[1..i] = EvictTurn(limit, it[(1..i) \ {Max(1..i)}])
      BY <1>6, <1>8
  <2> QED
      BY <1>8, <2>1
<1> HIDE DEF st
<1> QED
    BY <1>7, <1>8, <1>9, <1>10 DEF EvictStates

\* The first r entries in the order.
Oldest(n, c, r) == {e \in EntriesOf(n, c.hash) : \E i \in 1..r : e.key = c.order[i]}

\* d is what r evictions make of c.
Progress(n, c, d, r) ==
  /\ Books(n, d)
  /\ r \in 0..c.size /\ d.size = c.size - r
  /\ \A i \in 1..d.size : d.order[i] = c.order[i + r]
  /\ EntriesOf(n, d.hash) = EntriesOf(n, c.hash) \ Oldest(n, c, r)
  /\ d.evicted = c.evicted \cup {e \in Oldest(n, c, r) : e.pins > 0}
  /\ d.allocated = c.allocated - Cardinality({e \in Oldest(n, c, r) : e.pins = 0})

\* Nothing is evicted yet.
LEMMA ProgressBegins ==
  ASSUME NEW n, NEW c, Books(n, c)
  PROVE  Progress(n, c, c, 0)
<1>1. Oldest(n, c, 0) = {}
    BY DEF Oldest
<1>2. Cardinality({e \in Oldest(n, c, 0) : e.pins = 0}) = 0
  <2>1. {e \in Oldest(n, c, 0) : e.pins = 0} = {}
      BY <1>1
  <2> QED
      BY <2>1, FS_EmptySet
<1>3. c.size \in Nat /\ c.allocated \in Int /\ c.size = Len(c.order)
    BY DEF Books
<1>4. \A i \in 1..c.size : c.order[i] = c.order[i + 0]
    BY <1>3
<1> QED
    BY <1>1, <1>2, <1>3, <1>4 DEF Progress

\* One more is evicted.
LEMMA ProgressGoesOn ==
  ASSUME NEW n, NEW c, NEW d, NEW r, Books(n, c), Progress(n, c, d, r), r < c.size
  PROVE  Progress(n, c, EvictItem(d), r + 1)
<1> DEFINE E == EntriesOf(n, c.hash)
           O == Oldest(n, c, r)
           O2 == Oldest(n, c, r + 1)
<1>1. /\ c.size \in Nat /\ c.size = Len(c.order) /\ c.allocated \in Int /\ r \in Nat
      /\ Table(n, c.hash) /\ KeysOnce(n, c.hash) /\ Keyed(c.order, E)
    BY DEF Books, Good, Progress
<1>2. Books(n, d) /\ d.size = c.size - r /\ d.size > 0
    BY <1>1 DEF Progress
<1>3. PICK e \in EntriesOf(n, d.hash) :
           /\ e.key = d.order[1]
           /\ Books(n, EvictItem(d))
           /\ EvictItem(d).size = d.size - 1
           /\ \A i \in 1..d.size - 1 : EvictItem(d).order[i] = d.order[i + 1]
           /\ EntriesOf(n, EvictItem(d).hash) = EntriesOf(n, d.hash) \ {e}
           /\ EvictItem(d).evicted = IF e.pins = 0 THEN d.evicted ELSE d.evicted \cup {e}
           /\ EvictItem(d).allocated = IF e.pins = 0 THEN d.allocated - 1 ELSE d.allocated
    BY <1>2, EvictItemBooks
<1>4. e \in E /\ e \notin O /\ e.key = c.order[r + 1] /\ e \in EntryType
  <2>1. 1 \in 1..d.size /\ 1 + r = r + 1
      BY <1>1, <1>2
  <2>2. e.key = c.order[r + 1]
      BY <1>3, <2>1 DEF Progress
  <2>3. e \in E /\ e \notin O
      BY <1>3 DEF Progress
  <2> QED
      BY <1>1, <2>2, <2>3, EntriesTyped
<1>5. O2 = O \cup {e}
  <2>1. \A i \in 1..r + 1 : i \in 1..r \/ i = r + 1
      BY <1>1
  <2>2. ASSUME NEW a \in O2 PROVE a \in O \cup {e}
    <3>1. a \in E
        BY DEF Oldest
    <3>2. PICK i \in 1..r + 1 : a.key = c.order[i]
        BY DEF Oldest
    <3>3. CASE i \in 1..r
        BY <3>1, <3>2, <3>3 DEF Oldest
    <3>4. CASE i = r + 1
      <4>1. a.key = e.key
          BY <1>4, <3>2, <3>4
      <4>2. a = e
          BY <1>1, <1>4, <3>1, <4>1, EntriesTyped
      <4> QED
          BY <4>2
    <3> QED
        BY <2>1, <3>3, <3>4
  <2>3. ASSUME NEW a \in O PROVE a \in O2
    <3>1. \A i \in 1..r : i \in 1..r + 1
        BY <1>1
    <3> QED
        BY <3>1 DEF Oldest
  <2>4. e \in O2
    <3>1. r + 1 \in 1..r + 1
        BY <1>1
    <3> QED
        BY <1>4, <3>1 DEF Oldest
  <2> HIDE DEF O, O2
  <2> QED
      BY <2>2, <2>3, <2>4
<1> DEFINE F == {a \in O : a.pins = 0}
           F2 == {a \in O2 : a.pins = 0}
<1>6. IsFiniteSet(F) /\ Cardinality(F) \in Nat
  <2>1. O \subseteq E
      BY DEF Oldest
  <2>2. IsFiniteSet(E)
      BY <1>1, EntriesTyped
  <2>3. F \subseteq E
      BY <2>1
  <2> HIDE DEF E, F
  <2> QED
      BY <2>2, <2>3, FS_Subset, FS_CardinalityType
<1>7. Cardinality(F2) = IF e.pins = 0 THEN Cardinality(F) + 1 ELSE Cardinality(F)
  <2>1. F2 = IF e.pins = 0 THEN F \cup {e} ELSE F
    <3> HIDE DEF O, O2
    <3> QED
        BY <1>5
  <2>2. e \notin F
      BY <1>4
  <2> HIDE DEF F, F2
  <2> QED
      BY <1>6, <2>1, <2>2, FS_AddElement
<1>8. {a \in O2 : a.pins > 0} = IF e.pins = 0 THEN {a \in O : a.pins > 0}
                               ELSE {a \in O : a.pins > 0} \cup {e}
  <2>1. e.pins \in Nat
      BY <1>4 DEF EntryType
  <2>2. e.pins = 0 \/ e.pins > 0
      BY <2>1
  <2> HIDE DEF O, O2
  <2> QED
      BY <1>5, <2>1, <2>2
<1> DEFINE u == EvictItem(d)
<1>9. Books(n, u) /\ r + 1 \in 0..c.size /\ u.size = c.size - (r + 1)
    BY <1>1, <1>2, <1>3
<1>10. \A i \in 1..u.size : u.order[i] = c.order[i + (r + 1)]
  <2> SUFFICES ASSUME NEW i \in 1..u.size PROVE u.order[i] = c.order[i + (r + 1)]
      OBVIOUS
  <2>1. i \in 1..d.size - 1 /\ i + 1 \in 1..d.size /\ (i + 1) + r = i + (r + 1)
      BY <1>1, <1>2, <1>9
  <2> HIDE DEF u
  <2>2. u.order[i] = d.order[i + 1]
      BY <1>3, <2>1 DEF u
  <2>3. d.order[i + 1] = c.order[(i + 1) + r]
      BY <2>1 DEF Progress
  <2> QED
      BY <2>1, <2>2, <2>3
<1>11. EntriesOf(n, u.hash) = E \ O2
  <2>1. EntriesOf(n, d.hash) = E \ O
      BY DEF Progress
  <2> HIDE DEF E, O, O2
  <2> QED
      BY <1>3, <1>5, <2>1
<1>12. u.evicted = c.evicted \cup {a \in O2 : a.pins > 0}
  <2>1. d.evicted = c.evicted \cup {a \in O : a.pins > 0}
      BY DEF Progress
  <2> HIDE DEF O, O2
  <2> QED
      BY <1>3, <1>8, <2>1
<1>13. u.allocated = c.allocated - Cardinality(F2)
  <2>1. d.allocated = c.allocated - Cardinality(F)
      BY DEF Progress
  <2> HIDE DEF F, F2
  <2> QED
      BY <1>1, <1>3, <1>6, <1>7, <2>1
<1> HIDE DEF u
<1> QED
    BY <1>9, <1>10, <1>11, <1>12, <1>13 DEF Progress, u

\* EvictToCapacity() evicts the oldest entries, as many as there are too many.
LEMMA EvictsExcess ==
  ASSUME NEW n, NEW c, NEW limit \in Nat, Books(n, c)
  PROVE  Progress(n, c, EvictedToCapacity(limit, c), Excess(c.size, limit))
<1> DEFINE m == c.size
           x == Excess(c.size, limit)
<1>1. m \in Nat
    BY DEF Books
<1>2. x \in 0..m /\ \A r \in 0..m : m - r > limit <=> r < x
    BY <1>1 DEF Excess
<1>3. PICK st : EvictStates(limit, c, st)
    BY EvictFold
<1> HIDE DEF x
<1> DEFINE J == {i \in 0..m : Progress(n, c, st[i], IF i < x THEN i ELSE x)}
<1>4. 0 \in J
  <2>1. st[0] = c /\ 0 \in 0..m
      BY <1>1, <1>3 DEF EvictStates
  <2>2. (IF 0 < x THEN 0 ELSE x) = 0
      BY <1>2
  <2>3. Progress(n, c, st[0], 0)
      BY <2>1, ProgressBegins
  <2> QED
      BY <2>1, <2>2, <2>3
<1>5. ASSUME NEW i \in 1..m, i - 1 \in J PROVE i \in J
  <2> DEFINE d == st[i - 1]
             r == IF i - 1 < x THEN i - 1 ELSE x
  <2>1. Progress(n, c, d, r)
      BY <1>5
  <2>2. st[i] = EvictTurn(limit, d)
      BY <1>3 DEF EvictStates
  <2>3. d.size = m - r /\ r \in 0..m
      BY <2>1 DEF Progress
  <2>4. CASE i - 1 < x
    <3>1. r = i - 1 /\ r < x /\ r < c.size
        BY <1>1, <1>2, <2>4
    <3>2. d.size > limit
        BY <1>2, <2>3, <3>1
    <3> HIDE DEF d, r
    <3>3. st[i] = EvictItem(d)
        BY <2>2, <3>2 DEF EvictTurn
    <3>4. Progress(n, c, st[i], r + 1)
        BY <2>1, <3>1, <3>3, ProgressGoesOn
    <3>5. i \in 0..m /\ r + 1 = IF i < x THEN i ELSE x
        BY <1>1, <1>2, <2>4, <3>1
    <3> QED
        BY <3>4, <3>5
  <2>5. CASE ~(i - 1 < x)
    <3>1. r = x /\ ~(r < x)
        BY <1>1, <1>2, <2>5
    <3>2. ~(d.size > limit)
        BY <1>2, <2>3, <3>1
    <3> HIDE DEF d, r
    <3>3. st[i] = d
        BY <2>2, <3>2 DEF EvictTurn
    <3>4. i \in 0..m /\ x = IF i < x THEN i ELSE x
        BY <1>1, <1>2, <2>5
    <3>5. Progress(n, c, st[i], x)
        BY <2>1, <3>1, <3>3
    <3> QED
        BY <3>4, <3>5
  <2> QED
      BY <2>4, <2>5
<1>6. m \in J
  <2> HIDE DEF J, m
  <2>1. \A i \in 0..m : i \in J
      BY <1>1, <1>4, <1>5, Steps
  <2> QED
      BY <1>1, <2>1
<1>7. (IF m < x THEN m ELSE x) = x
    BY <1>1, <1>2
<1>8. st[m] = EvictedToCapacity(limit, c)
    BY <1>3 DEF EvictStates
<1>9. Progress(n, c, st[m], x)
    BY <1>6, <1>7
<1> QED
    BY <1>8, <1>9 DEF x

-----------------------------------------------------------------------------
(* A table of another size.                                                *)

\* A table has room for all keys and one more, unless it has one slot or two.
LEMMA HashSizes ==
  ASSUME NEW limit \in Nat
  PROVE  /\ HashSize(limit) \in Nat \ {0} /\ limit < HashSize(limit)
         /\ limit + 1 < HashSize(limit) \/ HashSize(limit) \in {1, 2}
<1> DEFINE q == (limit * 19) \div 10
           r == (limit * 19) % 10
<1>1. r \in 0..9 /\ q \in Nat /\ limit * 19 = 10 * q + r
  <2>1. limit * 19 \in Nat /\ 10 \in Nat \ {0} /\ 10 - 1 = 9
      OBVIOUS
  <2> DEFINE k == limit * 19
  <2> HIDE DEF k
  <2>2. k % 10 \in 0..10 - 1 /\ k \div 10 \in Nat /\ k = 10 * (k \div 10) + (k % 10)
      BY <2>1, Division DEF k
  <2> QED
      BY <2>1, <2>2 DEF k
<1>2. HashSize(limit) = q + 1
    BY DEF HashSize
<1> HIDE DEF q, r
<1>3. /\ limit <= q
      /\ limit = 0 => q = 0
      /\ limit = 1 => q = 1
      /\ limit >= 2 => limit + 1 <= q
    BY <1>1
<1> QED
    BY <1>1, <1>2, <1>3

\* A new table.
LEMMA EmptyTable ==
  ASSUME NEW limit \in Nat
  PROVE  /\ Good(HashSize(limit), EmptyHash(limit))
         /\ EntriesOf(HashSize(limit), EmptyHash(limit)) = {}
         /\ \A j \in 0..HashSize(limit) - 1 : EmptyHash(limit)[j] = None
<1> DEFINE n == HashSize(limit)
           h == EmptyHash(limit)
<1>1. n \in Nat \ {0}
    BY HashSizes
<1>2. h = [j \in 0..n - 1 |-> None]
    BY DEF EmptyHash
<1> HIDE DEF n, h
<1>3. \A j \in 0..n - 1 : h[j] = None
    BY <1>2
<1>4. Table(n, h)
    BY <1>1, <1>2 DEF Table, EntryOrNone
<1> QED
    BY <1>3, <1>4 DEF Good, KeysOnce, Reached, EntriesOf, n, h

\* One turn of the loop of SetCapacity().
RehashTurn(g, entry) == IF entry = None THEN g ELSE Put(g, entry)

RehashStates(n, h, limit, st) ==
  /\ st[0] = EmptyHash(limit) /\ st[n] = Rehash(h, limit)
  /\ \A i \in 1..n : st[i] = RehashTurn(st[i - 1], h[i - 1])

\* SetCapacity() fills the new table entry by entry.
LEMMA RehashFold ==
  ASSUME NEW n, NEW h, NEW limit \in Nat, Table(n, h)
  PROVE  \E st : RehashStates(n, h, limit, st)
<1> DEFINE base == EmptyHash(limit)
           X == [0..HashSize(limit) - 1 -> EntryOrNone]
           seq == [i \in 1..n |-> h[i - 1]]
           f == [p \in X \X (1..n) |-> RehashTurn(p[1], seq[p[2]])]
<1>0. n \in Nat /\ Slots(h) = n /\ base \in X
    BY EmptyTable, TableSlots DEF Good, Table
<1>1. ASSUME NEW g \in X, NEW i \in 1..n PROVE RehashTurn(g, seq[i]) \in X
  <2>1. i - 1 \in 0..n - 1 /\ seq[i] = h[i - 1]
      BY <1>0
  <2>2. seq[i] \in EntryOrNone
      BY <2>1 DEF Table
  <2> HIDE DEF seq
  <2> QED
      BY <2>2 DEF RehashTurn, Put
<1>2. f \in [X \X (1..n) -> X]
  <2>1. \A p \in X \X (1..n) : p[1] \in X /\ p[2] \in 1..n
      OBVIOUS
  <2>2. \A p \in X \X (1..n) : RehashTurn(p[1], seq[p[2]]) \in X
      BY <1>1, <2>1
  <2> HIDE DEF X, seq
  <2> QED
      BY <2>2
<1>3. PICK g \in [SUBSET (1..n) -> X] : Folds(f, base, 1..n, g)
  <2> HIDE DEF f, X, base
  <2> QED
      BY <1>0, <1>2, NumbersGreatest, FoldsTyped
<1>4. DOMAIN seq = 1..n
    OBVIOUS
<1> DEFINE Eq(k) == k = [s \in SUBSET (1..n) |->
                           IF s = {} THEN base ELSE RehashTurn(k[s \ {Max(s)}], seq[Max(s)])]
           it == CHOOSE k : Eq(k)
<1>5. Eq(g)
  <2> HIDE DEF X, seq, base
  <2>1. ASSUME NEW s \in SUBSET (1..n), s # {}
        PROVE  f[<<g[s \ {Max(s)}], Max(s)>>] = RehashTurn(g[s \ {Max(s)}], seq[Max(s)])
    <3>1. Max(s) \in 1..n /\ s \ {Max(s)} \in SUBSET (1..n)
        BY <1>0, <2>1, Largest
    <3>2. g[s \ {Max(s)}] \in X
        BY <3>1
    <3> QED
        BY <3>1, <3>2
  <2>2. g = [s \in SUBSET (1..n) |-> IF s = {} THEN base ELSE f[<<g[s \ {Max(s)}], Max(s)>>]]
      BY <1>3 DEF Folds
  <2> HIDE DEF f
  <2> QED
      BY <2>1, <2>2
<1>6. Eq(it)
  <2> HIDE DEF Eq
  <2> QED
      BY <1>5
<1>7. Rehash(h, limit) = it[1..n]
    BY <1>0, <1>4 DEF Rehash, RehashTurn, FoldLeft, MapThenFoldSet
<1> DEFINE st == [i \in 0..n |-> it[1..i]]
<1>8. /\ st[0] = it[{}] /\ st[n] = it[1..n]
      /\ \A i \in 1..n : /\ st[i] = it[1..i] /\ 1..i \in SUBSET (1..n) /\ 1..i # {}
                         /\ Max(1..i) = i /\ st[i - 1] = it[(1..i) \ {i}]
  <2>1. 0 \in 0..n /\ n \in 0..n
      BY <1>0
  <2>2. \A i \in 0..n : st[i] = it[1..i]
      OBVIOUS
  <2> HIDE DEF it, st, Eq, X, f, seq, base
  <2> QED
      BY <1>0, <2>1, <2>2, FoldSteps, ZenonT(60)
<1>9. it[{}] = base
  <2>1. {} \in SUBSET (1..n)
      OBVIOUS
  <2> HIDE DEF it, base
  <2> QED
      BY <1>6, <2>1
<1>10. \A i \in 1..n : st[i] = RehashTurn(st[i - 1], h[i - 1])
  <2> SUFFICES ASSUME NEW i \in 1..n PROVE st[i] = RehashTurn(st[i - 1], h[i - 1])
      OBVIOUS
  <2>2. seq[i] = h[i - 1]
      OBVIOUS
  <2> HIDE DEF it, st, seq, base
  <2>1. it[1..i] = RehashTurn(it[(1..i) \ {Max(1..i)}], seq[Max(1..i)])
      BY <1>6, <1>8
  <2> QED
      BY <1>8, <2>1, <2>2
<1> HIDE DEF st
<1> QED
    BY <1>7, <1>8, <1>9, <1>10 DEF RehashStates

\* The entries at the first i slots.
FirstOf(h, i) == {h[j] : j \in 0..i - 1} \ {None}

\* SetCapacity() moves all entries.
LEMMA Rehashed ==
  ASSUME NEW n, NEW h, NEW limit \in Nat, NEW order \in Seq(Key), Good(n, h),
         \A e \in EntriesOf(n, h) : \E i \in 1..Len(order) : order[i] = e.key,
         Len(order) < HashSize(limit)
  PROVE  /\ Good(HashSize(limit), Rehash(h, limit))
         /\ EntriesOf(HashSize(limit), Rehash(h, limit)) = EntriesOf(n, h)
<1> DEFINE n2 == HashSize(limit)
<1>1. n \in Nat \ {0} /\ Table(n, h) /\ KeysOnce(n, h) /\ n2 \in Nat \ {0}
    BY HashSizes DEF Good, Table
<1>2. PICK st : RehashStates(n, h, limit, st)
    BY <1>1, RehashFold
<1> DEFINE J == {i \in 0..n : Good(n2, st[i]) /\ EntriesOf(n2, st[i]) = FirstOf(h, i)}
<1>3. 0 \in J
  <2>1. FirstOf(h, 0) = {}
      BY DEF FirstOf
  <2>2. st[0] = EmptyHash(limit) /\ 0 \in 0..n
      BY <1>1, <1>2 DEF RehashStates
  <2> QED
      BY <2>1, <2>2, EmptyTable
<1> HIDE DEF n2
<1>4. ASSUME NEW i \in 1..n, i - 1 \in J PROVE i \in J
  <2> DEFINE g == st[i - 1]
             e == h[i - 1]
  <2>1. Good(n2, g) /\ EntriesOf(n2, g) = FirstOf(h, i - 1) /\ i \in 0..n /\ i - 1 \in 0..n - 1
      BY <1>1, <1>4
  <2>2. st[i] = RehashTurn(g, e)
      BY <1>2 DEF RehashStates
  <2>3. FirstOf(h, i) = FirstOf(h, i - 1) \cup ({e} \ {None})
    <3>1. \A j \in Int : j \in 0..i - 1 <=> j \in 0..(i - 1) - 1 \/ j = i - 1
        BY <1>1
    <3> QED
        BY <3>1 DEF FirstOf
  <2>4. CASE e = None
    <3>1. st[i] = g
        BY <2>2, <2>4 DEF RehashTurn
    <3>2. FirstOf(h, i) = FirstOf(h, i - 1)
        BY <2>3, <2>4
    <3> QED
        BY <2>1, <3>1, <3>2
  <2>5. CASE e # None
    <3>1. st[i] = Put(g, e)
        BY <2>2, <2>5 DEF RehashTurn
    <3>2. e \in EntryType
        BY <1>1, <2>1, <2>5, TableSlots
    <3>3. \A j \in 0..(i - 1) - 1 : j \in 0..n - 1 /\ j # i - 1
        BY <1>1
    <3>4. ASSUME NEW d \in EntriesOf(n2, g)
          PROVE  d.key # e.key /\ \E k \in 1..Len(order) : order[k] = d.key
      <4>1. PICK j \in 0..(i - 1) - 1 : d = h[j] /\ h[j] # None
          BY <2>1 DEF FirstOf
      <4>2. d.key # e.key
          BY <1>1, <2>1, <2>5, <3>3, <4>1 DEF KeysOnce
      <4>3. d \in EntriesOf(n, h)
          BY <3>3, <4>1 DEF EntriesOf
      <4> QED
          BY <4>2, <4>3
    <3> HIDE DEF g, e
    <3>5. \E z \in 0..n2 - 1 : g[z] = None
      <4>1. Table(n2, g) /\ KeysOnce(n2, g) /\ Len(order) < n2
          BY <2>1 DEF Good, n2
      <4> QED
          BY <3>4, <4>1, RoomLeft
    <3>6. Good(n2, Put(g, e)) /\ EntriesOf(n2, Put(g, e)) = EntriesOf(n2, g) \cup {e}
        BY <2>1, <3>2, <3>4, <3>5, PutNew
    <3>7. FirstOf(h, i) = FirstOf(h, i - 1) \cup {e}
        BY <2>3, <2>5
    <3> QED
        BY <2>1, <3>1, <3>6, <3>7
  <2> QED
      BY <2>4, <2>5
<1>5. n \in J
  <2> HIDE DEF J
  <2>1. n \in Nat /\ n \in 0..n
      BY <1>1
  <2>2. \A i \in 0..n : i \in J
      BY <1>3, <1>4, <2>1, Steps
  <2> QED
      BY <2>1, <2>2
<1>6. st[n] = Rehash(h, limit) /\ FirstOf(h, n) = EntriesOf(n, h)
    BY <1>2 DEF RehashStates, FirstOf, EntriesOf
<1> QED
    BY <1>5, <1>6 DEF n2

-----------------------------------------------------------------------------
(* Entries, pins and locks.                                                *)

HoldersOf(hold, v) == {t \in Thread : hold[t] = v}

\* E are the entries in the table, A the evicted ones, hold and k stand for holding and key:
\* no two entries share a value, pins count locks, and every lock finds its entry.
Owned(E, A, hold, k) ==
  /\ E \subseteq EntryType /\ A \subseteq EntryType /\ E \cap A = {}
  /\ \A d, e \in E \cup A : d.value = e.value => d = e
  /\ \A e \in A : e.pins > 0
  /\ \A e \in E \cup A : e.pins = Cardinality(HoldersOf(hold, e.value))
  /\ hold \in [Thread -> Value \cup {None}]
  /\ \A t \in Thread : hold[t] # None =>
       \E e \in E \cup A : e.value = hold[t] /\ e.key = k[t]

\* The locks on a value.
LEMMA HoldersCount ==
  ASSUME NEW hold, NEW v
  PROVE  /\ IsFiniteSet(HoldersOf(hold, v)) /\ Cardinality(HoldersOf(hold, v)) \in Nat
         /\ \A t \in Thread : hold[t] = v => Cardinality(HoldersOf(hold, v)) > 0
         /\ (\A t \in Thread : hold[t] # v) => Cardinality(HoldersOf(hold, v)) = 0
<1>1. HoldersOf(hold, v) \subseteq Thread
    BY DEF HoldersOf
<1>2. IsFiniteSet(HoldersOf(hold, v)) /\ Cardinality(HoldersOf(hold, v)) \in Nat
    BY <1>1, CacheAssumption, FS_Subset, FS_CardinalityType
<1>3. ASSUME NEW t \in Thread, hold[t] = v PROVE Cardinality(HoldersOf(hold, v)) > 0
  <2>1. t \in HoldersOf(hold, v)
      BY <1>3 DEF HoldersOf
  <2>2. Cardinality(HoldersOf(hold, v)) # 0
      BY <2>1, <1>2, FS_EmptySet
  <2> QED
      BY <2>2, <1>2
<1>4. ASSUME \A t \in Thread : hold[t] # v PROVE Cardinality(HoldersOf(hold, v)) = 0
  <2>1. HoldersOf(hold, v) = {}
      BY <1>4 DEF HoldersOf
  <2> QED
      BY <2>1, FS_EmptySet
<1> QED
    BY <1>2, <1>3, <1>4

\* A lock more or less on a value.
LEMMA HoldersChange ==
  ASSUME NEW hold \in [Thread -> Value \cup {None}], NEW t \in Thread, NEW v \in Value
  PROVE  /\ hold[t] = None => /\ Cardinality(HoldersOf([hold EXCEPT ![t] = v], v))
                                    = Cardinality(HoldersOf(hold, v)) + 1
                              /\ \A w \in Value : w # v =>
                                   HoldersOf([hold EXCEPT ![t] = v], w) = HoldersOf(hold, w)
         /\ hold[t] = v => /\ Cardinality(HoldersOf([hold EXCEPT ![t] = None], v))
                                = Cardinality(HoldersOf(hold, v)) - 1
                           /\ \A w \in Value : w # v =>
                                HoldersOf([hold EXCEPT ![t] = None], w) = HoldersOf(hold, w)
<1>0. None \notin Value /\ IsFiniteSet(HoldersOf(hold, v)) /\ Cardinality(HoldersOf(hold, v)) \in Nat
    BY CacheAssumption, HoldersCount
<1>1. ASSUME hold[t] = None
      PROVE  /\ Cardinality(HoldersOf([hold EXCEPT ![t] = v], v))
                  = Cardinality(HoldersOf(hold, v)) + 1
             /\ \A w \in Value : w # v =>
                  HoldersOf([hold EXCEPT ![t] = v], w) = HoldersOf(hold, w)
  <2>1. HoldersOf([hold EXCEPT ![t] = v], v) = HoldersOf(hold, v) \cup {t}
      BY DEF HoldersOf
  <2>2. t \notin HoldersOf(hold, v)
      BY <1>0, <1>1 DEF HoldersOf
  <2>3. Cardinality(HoldersOf(hold, v) \cup {t}) = Cardinality(HoldersOf(hold, v)) + 1
      BY <1>0, <2>2, FS_AddElement
  <2>4. \A w \in Value : w # v => HoldersOf([hold EXCEPT ![t] = v], w) = HoldersOf(hold, w)
      BY <1>0, <1>1 DEF HoldersOf
  <2> QED
      BY <2>1, <2>3, <2>4
<1>2. ASSUME hold[t] = v
      PROVE  /\ Cardinality(HoldersOf([hold EXCEPT ![t] = None], v))
                  = Cardinality(HoldersOf(hold, v)) - 1
             /\ \A w \in Value : w # v =>
                  HoldersOf([hold EXCEPT ![t] = None], w) = HoldersOf(hold, w)
  <2>1. HoldersOf([hold EXCEPT ![t] = None], v) = HoldersOf(hold, v) \ {t}
      BY <1>0 DEF HoldersOf
  <2>2. t \in HoldersOf(hold, v)
      BY <1>2 DEF HoldersOf
  <2>3. Cardinality(HoldersOf(hold, v) \ {t}) = Cardinality(HoldersOf(hold, v)) - 1
      BY <1>0, <2>2, FS_RemoveElement
  <2>4. \A w \in Value : w # v => HoldersOf([hold EXCEPT ![t] = None], w) = HoldersOf(hold, w)
      BY <1>0, <1>2 DEF HoldersOf
  <2> QED
      BY <2>1, <2>3, <2>4
<1> QED
    BY <1>1, <1>2

\* Entries are evicted: the pinned ones stay.
LEMMA OwnedEvict ==
  ASSUME NEW E, NEW A, NEW hold, NEW k, NEW O \in SUBSET E, Owned(E, A, hold, k)
  PROVE  Owned(E \ O, A \cup {e \in O : e.pins > 0}, hold, k)
<1> DEFINE B == A \cup {e \in O : e.pins > 0}
           D == E \ O
<1>1. /\ D \subseteq EntryType /\ B \subseteq EntryType /\ D \cap B = {}
      /\ D \cup B \subseteq E \cup A
    BY DEF Owned
<1>2. \A e \in B : e.pins > 0
    BY DEF Owned
<1>3. ASSUME NEW t \in Thread, hold[t] # None
      PROVE  \E e \in D \cup B : e.value = hold[t] /\ e.key = k[t]
  <2>1. PICK e \in E \cup A : e.value = hold[t] /\ e.key = k[t]
      BY <1>3 DEF Owned
  <2>2. e.pins > 0
    <3>1. e.pins = Cardinality(HoldersOf(hold, e.value))
        BY DEF Owned
    <3> QED
        BY <2>1, <3>1, HoldersCount
  <2>3. e \in D \cup B
      BY <2>2
  <2> QED
      BY <2>1, <2>3
<1> HIDE DEF B, D
<1> QED
    BY <1>1, <1>2, <1>3 DEF Owned, B, D

\* A new value is added.
LEMMA OwnedAdd ==
  ASSUME NEW E, NEW A, NEW hold, NEW k, NEW e \in EntryType, Owned(E, A, hold, k), e.pins = 0,
         \A d \in E \cup A : d.value # e.value
  PROVE  Owned(E \cup {e}, A, hold, k)
<1>1. e \notin A /\ e.value # None
    BY CacheAssumption DEF EntryType
<1>2. Cardinality(HoldersOf(hold, e.value)) = 0
  <2>1. \A t \in Thread : hold[t] # e.value
      BY <1>1 DEF Owned
  <2> QED
      BY <2>1, HoldersCount
<1>3. \A a, b \in E \cup {e} \cup A : a.value = b.value => a = b
    BY DEF Owned
<1> QED
    BY <1>1, <1>2, <1>3 DEF Owned

\* A thread without a lock calls or returns.
LEMMA OwnedCall ==
  ASSUME NEW E, NEW A, NEW hold, NEW k, NEW t \in Thread, NEW k2, Owned(E, A, hold, k),
         hold[t] = None, \A s \in Thread : s # t => k2[s] = k[s]
  PROVE  Owned(E, A, hold, k2)
BY DEF Owned

\* An entry is pinned.
LEMMA OwnedPin ==
  ASSUME NEW E, NEW A, NEW hold, NEW k, NEW t \in Thread, NEW e \in E, NEW e2 \in EntryType,
         Owned(E, A, hold, k), hold[t] = None, k[t] = e.key,
         e2 = [e EXCEPT !.pins = @ + 1]
  PROVE  Owned((E \ {e}) \cup {e2}, A, [hold EXCEPT ![t] = e.value], k)
<1> DEFINE hold2 == [hold EXCEPT ![t] = e.value]
           F == (E \ {e}) \cup {e2}
<1>1. /\ e \in EntryType /\ e.value \in Value /\ e.pins \in Nat /\ e \notin A
      /\ hold \in [Thread -> Value \cup {None}]
    BY DEF Owned, EntryType
<1>2. e2.value = e.value /\ e2.key = e.key /\ e2.pins = e.pins + 1
    BY <1>1 DEF EntryType
<1>3. /\ Cardinality(HoldersOf(hold2, e.value)) = Cardinality(HoldersOf(hold, e.value)) + 1
      /\ \A w \in Value : w # e.value => HoldersOf(hold2, w) = HoldersOf(hold, w)
    BY <1>1, HoldersChange
<1>4. \A d \in (E \cup A) \ {e} : d.value # e.value /\ d.value \in Value
    BY DEF Owned, EntryType
<1>5. hold2 \in [Thread -> Value \cup {None}] /\ hold2[t] = e.value
      /\ \A s \in Thread : s # t => hold2[s] = hold[s]
    BY <1>1
<1> HIDE DEF hold2
<1>6. F \subseteq EntryType /\ A \subseteq EntryType /\ F \cap A = {}
  <2>1. E \subseteq EntryType /\ A \subseteq EntryType /\ E \cap A = {}
      BY DEF Owned
  <2>2. e2 \notin A
      BY <1>1, <1>2, <1>4
  <2> QED
      BY <2>1, <2>2
<1>7. \A a, b \in F \cup A : a.value = b.value => a = b
    BY <1>1, <1>2, <1>4 DEF Owned
<1>8. \A a \in F \cup A : a.pins = Cardinality(HoldersOf(hold2, a.value))
    BY <1>1, <1>2, <1>3, <1>4 DEF Owned
<1>9. ASSUME NEW s \in Thread, hold2[s] # None
      PROVE  \E a \in F \cup A : a.value = hold2[s] /\ a.key = k[s]
  <2>1. CASE s = t
      BY <1>2, <1>5, <2>1
  <2>2. CASE s # t
    <3>1. PICK a \in E \cup A : a.value = hold[s] /\ a.key = k[s]
        BY <1>5, <1>9, <2>2 DEF Owned
    <3>2. CASE a = e
        BY <1>2, <1>5, <2>2, <3>1, <3>2
    <3>3. CASE a # e
        BY <1>5, <2>2, <3>1, <3>3
    <3> QED
        BY <3>2, <3>3
  <2> QED
      BY <2>1, <2>2
<1> HIDE DEF F
<1>10. Owned(F, A, hold2, k)
    BY <1>5, <1>6, <1>7, <1>8, <1>9 DEF Owned
<1> QED
    BY <1>10 DEF F, hold2

\* The lock on an entry is given up.
Unlocked(E, A, hold, k, t, e, F, B) ==
  /\ F \subseteq EntryType /\ B \subseteq EntryType /\ F \cap B = {}
  /\ \A d \in F \cup B :
       (d \in E \cup A /\ d # e) \/ d = [e EXCEPT !.pins = @ - 1]
  /\ \A d \in E \cup A : d # e => d \in F \cup B
  /\ [e EXCEPT !.pins = @ - 1].pins > 0 => [e EXCEPT !.pins = @ - 1] \in F \cup B
  /\ \A d \in B : d.pins > 0

\* Then pins still count locks.
LEMMA OwnedUnlock ==
  ASSUME NEW E, NEW A, NEW hold, NEW k, NEW t \in Thread, NEW e \in E \cup A, NEW F, NEW B,
         Owned(E, A, hold, k), hold[t] = e.value, Unlocked(E, A, hold, k, t, e, F, B)
  PROVE  Owned(F, B, [hold EXCEPT ![t] = None], [k EXCEPT ![t] = None])
<1> DEFINE hold2 == [hold EXCEPT ![t] = None]
           k2 == [k EXCEPT ![t] = None]
           e2 == [e EXCEPT !.pins = @ - 1]
<1>1. /\ e \in EntryType /\ e.value \in Value /\ e.value # None /\ e.pins \in Nat
      /\ hold \in [Thread -> Value \cup {None}]
    BY CacheAssumption DEF Owned, EntryType
<1>2. e2.value = e.value /\ e2.key = e.key /\ e2.pins = e.pins - 1
    BY <1>1 DEF EntryType
<1>3. /\ Cardinality(HoldersOf(hold2, e.value)) = Cardinality(HoldersOf(hold, e.value)) - 1
      /\ \A w \in Value : w # e.value => HoldersOf(hold2, w) = HoldersOf(hold, w)
    BY <1>1, HoldersChange
<1>4. \A d \in (E \cup A) \ {e} : d.value # e.value /\ d.value \in Value
    BY DEF Owned, EntryType
<1>5. hold2 \in [Thread -> Value \cup {None}] /\ hold2[t] = None
      /\ \A s \in Thread : s # t => hold2[s] = hold[s]
    BY <1>1
<1>6. \A s \in Thread : s # t => k2[s] = k[s]
    OBVIOUS
<1> HIDE DEF hold2, k2, e2
<1>7. /\ F \subseteq EntryType /\ B \subseteq EntryType /\ F \cap B = {}
      /\ \A d \in F \cup B : d \in (E \cup A) \ {e} \/ d = e2
      /\ \A d \in E \cup A : d # e => d \in F \cup B
      /\ e2.pins > 0 => e2 \in F \cup B
      /\ \A d \in B : d.pins > 0
    BY DEF Unlocked, e2
<1>8. \A a, b \in F \cup B : a.value = b.value => a = b
  <2>1. \A a, b \in (E \cup A) \ {e} : a.value = b.value => a = b
      BY DEF Owned
  <2> QED
      BY <1>2, <1>4, <1>7, <2>1
<1>9. \A a \in F \cup B : a.pins = Cardinality(HoldersOf(hold2, a.value))
  <2>1. \A a \in (E \cup A) \ {e} : a.pins = Cardinality(HoldersOf(hold2, a.value))
      BY <1>3, <1>4 DEF Owned
  <2>2. e.pins = Cardinality(HoldersOf(hold, e.value))
      BY DEF Owned
  <2>3. e2.pins = Cardinality(HoldersOf(hold2, e2.value))
      BY <1>2, <1>3, <2>2
  <2> QED
      BY <1>7, <2>1, <2>3
<1>10. ASSUME NEW s \in Thread, hold2[s] # None
       PROVE  \E a \in F \cup B : a.value = hold2[s] /\ a.key = k2[s]
  <2>1. s # t /\ hold2[s] = hold[s] /\ k2[s] = k[s]
      BY <1>5, <1>6, <1>10
  <2>2. PICK a \in E \cup A : a.value = hold[s] /\ a.key = k[s]
      BY <1>10, <2>1 DEF Owned
  <2>3. CASE a # e
      BY <1>7, <2>1, <2>2, <2>3
  <2>4. CASE a = e
    <3>1. Cardinality(HoldersOf(hold2, e.value)) > 0
        BY <2>1, <2>2, <2>4, HoldersCount
    <3>2. Cardinality(HoldersOf(hold2, e.value)) = e.pins - 1
        BY <1>3 DEF Owned
    <3>3. e2.pins > 0
        BY <1>2, <3>1, <3>2
    <3> QED
        BY <1>2, <1>7, <2>1, <2>2, <2>4, <3>3
  <2> QED
      BY <2>3, <2>4
<1>11. Owned(F, B, hold2, k2)
    BY <1>5, <1>7, <1>8, <1>9, <1>10 DEF Owned
<1> QED
    BY <1>11 DEF hold2, k2

-----------------------------------------------------------------------------
(* The inductive invariant of HashCache.                                   *)

TableInv ==
  /\ capacity \in Nat /\ size = Len(insertion_order) /\ size <= capacity
  /\ Good(HashSize(capacity), hash)
  /\ Keyed(insertion_order, EntriesOf(HashSize(capacity), hash))
  /\ allocated \in Int

HashInv ==
  /\ TableInv
  /\ Owned(EntriesOf(HashSize(capacity), hash), evicted_, holding, key)
  /\ CallsInOrder

\* The invariant holds at first ...
LEMMA HashInvInit == HashInit => HashInv
<1> SUFFICES ASSUME HashInit PROVE HashInv
    OBVIOUS
<1>1. capacity \in Nat /\ hash = EmptyHash(capacity) /\ insertion_order = <<>> /\ size = 0
      /\ allocated = 0 /\ evicted_ = {}
    BY CacheAssumption DEF HashInit
<1>2. Good(HashSize(capacity), hash) /\ EntriesOf(HashSize(capacity), hash) = {}
    BY <1>1, EmptyTable
<1>3. Keyed(insertion_order, {})
  <2>1. <<>> \in Seq(Key) /\ Len(<<>>) = 0 /\ 1..0 = {}
      OBVIOUS
  <2> QED
      BY <1>1, <2>1 DEF Keyed
<1>4. TableInv
  <2>1. size = Len(insertion_order) /\ size <= capacity /\ allocated \in Int
      BY <1>1
  <2> QED
      BY <1>1, <1>2, <1>3, <2>1 DEF TableInv
<1>5. Owned({}, {}, holding, key)
    BY DEF HashInit, Owned
<1>6. CallsInOrder
    BY DEF HashInit, CallsInOrder
<1> QED
    BY <1>1, <1>2, <1>4, <1>5, <1>6 DEF HashInv

\* Evicting from what the variables hold.
LEMMA CurrentBooks ==
  ASSUME HashInv
  PROVE  /\ Books(HashSize(capacity), Current) /\ HashSize(capacity) \in Nat \ {0}
         /\ \E z \in 0..HashSize(capacity) - 1 : hash[z] = None
<1> DEFINE n == HashSize(capacity)
<1>1. /\ capacity \in Nat /\ size = Len(insertion_order) /\ size <= capacity
      /\ Good(n, hash) /\ Keyed(insertion_order, EntriesOf(n, hash)) /\ allocated \in Int
    BY DEF HashInv, TableInv
<1>2. n \in Nat \ {0} /\ capacity < n
    BY <1>1, HashSizes
<1> HIDE DEF n
<1>3. insertion_order \in Seq(Key) /\ size \in Nat /\ size < n
    BY <1>1, <1>2 DEF Keyed
<1>4. hash \in [0..n - 1 -> EntryOrNone] /\ evicted_ \in SUBSET EntryType
    BY <1>1 DEF Good, Table, HashInv, Owned
<1>5. /\ Current \in [hash : [0..n - 1 -> EntryOrNone], order : Seq(Key),
                      evicted : SUBSET EntryType, allocated : Int, size : Nat]
      /\ Current.hash = hash /\ Current.order = insertion_order /\ Current.size = size
    BY <1>1, <1>3, <1>4 DEF Current
<1>6. Books(n, Current)
    BY <1>1, <1>3, <1>5 DEF Books
<1>7. \E z \in 0..n - 1 : hash[z] = None
  <2>1. Table(n, hash) /\ KeysOnce(n, hash) /\ Len(insertion_order) < n
      BY <1>1, <1>3 DEF Good
  <2>2. \A e \in EntriesOf(n, hash) :
          \E i \in 1..Len(insertion_order) : insertion_order[i] = e.key
      BY <1>1 DEF Keyed
  <2> QED
      BY <1>3, <2>1, <2>2, RoomLeft
<1> QED
    BY <1>2, <1>6, <1>7 DEF n

\* What EvictToCapacity() leaves.
LEMMA EvictKeeps ==
  ASSUME NEW n, NEW c, NEW limit \in Nat, NEW d, Books(n, c),
         Owned(EntriesOf(n, c.hash), c.evicted, holding, key), d = EvictedToCapacity(limit, c)
  PROVE  /\ Books(n, d) /\ d.size <= limit /\ d.size \in Nat
         /\ Progress(n, c, d, Excess(c.size, limit))
         /\ Owned(EntriesOf(n, d.hash), d.evicted, holding, key)
<1> DEFINE x == Excess(c.size, limit)
           O == Oldest(n, c, x)
<1>1. Progress(n, c, d, x)
    BY EvictsExcess
<1>2. c.size \in Nat
    BY DEF Books
<1>3. c.size - x <= limit
    BY <1>2 DEF Excess
<1> HIDE DEF x
<1>4. /\ Books(n, d) /\ d.size = c.size - x
      /\ EntriesOf(n, d.hash) = EntriesOf(n, c.hash) \ O
      /\ d.evicted = c.evicted \cup {e \in O : e.pins > 0}
    BY <1>1 DEF Progress
<1>5. O \in SUBSET EntriesOf(n, c.hash)
    BY DEF Oldest
<1>6. Owned(EntriesOf(n, c.hash) \ O, c.evicted \cup {e \in O : e.pins > 0}, holding, key)
  <2> HIDE DEF O
  <2> QED
      BY <1>5, OwnedEvict
<1>7. d.size <= limit
    BY <1>3, <1>4
<1>8. d.size \in Nat
    BY <1>4 DEF Books
<1> HIDE DEF O
<1> QED
    BY <1>1, <1>4, <1>6, <1>7, <1>8 DEF x

\* ... and each operation keeps it: a call,
LEMMA HashCallKeeps ==
  ASSUME HashInv, NEW t \in Thread, NEW o \in {"insert", "lookup"}, NEW k \in Key,
         HashCall(t, o, k)
  PROVE  HashInv'
<1>1. /\ UNCHANGED <<capacity, insertion_order, allocated, holding, size, hash, evicted_>>
      /\ op' = [op EXCEPT ![t] = o] /\ key' = [key EXCEPT ![t] = k] /\ holding[t] = None
    BY DEF HashCall, Idle
<1>2. TableInv'
    BY <1>1 DEF HashInv, TableInv
<1>3. CallsInOrder'
    BY <1>1 DEF HashInv, CallsInOrder
<1>4. \A s \in Thread : s # t => key'[s] = key[s]
    BY <1>1 DEF HashInv, CallsInOrder
<1>5. Owned(EntriesOf(HashSize(capacity), hash), evicted_, holding, key')
  <2>1. Owned(EntriesOf(HashSize(capacity), hash), evicted_, holding, key)
      BY DEF HashInv
  <2> DEFINE k2 == key'
  <2> HIDE DEF k2
  <2>2. \A s \in Thread : s # t => k2[s] = key[s]
      BY <1>4 DEF k2
  <2>3. Owned(EntriesOf(HashSize(capacity), hash), evicted_, holding, k2)
      BY <1>1, <2>1, <2>2, OwnedCall
  <2> QED
      BY <2>3 DEF k2
<1> QED
    BY <1>1, <1>2, <1>3, <1>5 DEF HashInv

\* The operation of a thread without a lock is over.
LEMMA ReturnKeeps ==
  ASSUME NEW E, NEW A, NEW t \in Thread, CallsInOrder, Owned(E, A, holding, key),
         holding[t] = None, Return(t), UNCHANGED holding
  PROVE  CallsInOrder' /\ Owned(E, A, holding', key')
<1>1. /\ op' = [op EXCEPT ![t] = "none"] /\ key' = [key EXCEPT ![t] = None]
      /\ holding' = holding
    BY DEF Return
<1>2. CallsInOrder'
    BY <1>1 DEF CallsInOrder
<1> DEFINE k2 == key'
<1>3. \A s \in Thread : s # t => k2[s] = key[s]
    BY <1>1 DEF CallsInOrder
<1> HIDE DEF k2
<1>4. Owned(E, A, holding, k2)
    BY <1>3, OwnedCall
<1> QED
    BY <1>1, <1>2, <1>4 DEF k2

\* A table that lacks a key.
LEMMA NotFound ==
  ASSUME NEW n, NEW h, NEW k \in Key, Good(n, h), ~Found(h, k)
  PROVE  \A d \in EntriesOf(n, h) : d.key # k
<1> SUFFICES ASSUME NEW d \in EntriesOf(n, h), d.key = k PROVE FALSE
    OBVIOUS
<1>1. PICK j \in 0..n - 1 : h[j] = d /\ h[j] # None
    BY DEF EntriesOf
<1>2. Find(h, k) = j
    BY <1>1, FindKey
<1> QED
    BY <1>1, <1>2 DEF Found

\* One that has it.
LEMMA FoundEntry ==
  ASSUME NEW n, NEW h, NEW k \in Key, Good(n, h), \E z \in 0..n - 1 : h[z] = None
  PROVE  /\ Find(h, k) \in 0..n - 1
         /\ h[Find(h, k)] # None => h[Find(h, k)] \in EntriesOf(n, h) /\ h[Find(h, k)].key = k
         /\ \A d \in EntriesOf(n, h) : d.key = k => h[Find(h, k)] = d
<1>1. Table(n, h) /\ k \in Nat
    BY HashCacheAssumption DEF Good
<1>2. \E j \in 0..n - 1 : h[j] = None \/ h[j].key = k
    OBVIOUS
<1>3. /\ Find(h, k) \in 0..n - 1
      /\ h[Find(h, k)] = None \/ h[Find(h, k)].key = k
    BY <1>1, <1>2, FindSpec
<1>4. ASSUME NEW d \in EntriesOf(n, h), d.key = k PROVE h[Find(h, k)] = d
  <2>1. PICK j \in 0..n - 1 : h[j] = d /\ h[j] # None
      BY DEF EntriesOf
  <2>2. Find(h, k) = j
      BY <1>4, <2>1, FindKey
  <2> QED
      BY <2>1, <2>2
<1> QED
    BY <1>3, <1>4 DEF EntriesOf

\* An entry gets another count of pins.
Repinned(e, p) == [e EXCEPT !.pins = p]

Counted(h, idx, p) == [h EXCEPT ![idx] = Repinned(h[idx], p)]

\* That leaves the table as good as it was.
LEMMA PinsChanged ==
  ASSUME NEW n, NEW h, NEW idx \in 0..n - 1, NEW p \in Nat, Good(n, h), h[idx] # None
  PROVE  /\ Good(n, Counted(h, idx, p))
         /\ EntriesOf(n, Counted(h, idx, p))
              = (EntriesOf(n, h) \ {h[idx]}) \cup {Repinned(h[idx], p)}
         /\ Repinned(h[idx], p) \in EntryType
<1> DEFINE e2 == Repinned(h[idx], p)
           g == Counted(h, idx, p)
<1>1. Table(n, h) /\ n \in Nat \ {0} /\ h \in [0..n - 1 -> EntryOrNone] /\ h[idx] \in EntryType
    BY TableSlots DEF Good, Table
<1>2. e2 \in EntryType /\ e2.key = h[idx].key /\ e2 # None
    BY <1>1, HashCacheAssumption DEF EntryType, Repinned
<1> HIDE DEF e2
<1>3. g = [h EXCEPT ![idx] = e2]
    BY DEF e2, Counted
<1> HIDE DEF g
<1>4. g \in [0..n - 1 -> EntryOrNone] /\ g[idx] = e2 /\ \A j \in 0..n - 1 : j # idx => g[j] = h[j]
    BY <1>1, <1>2, <1>3 DEF EntryOrNone
<1>5. \A j \in 0..n - 1 : (g[j] = None <=> h[j] = None) /\ g[j].key = h[j].key
    BY <1>2, <1>4
<1>6. Table(n, g)
    BY <1>1, <1>4 DEF Table
<1>7. KeysOnce(n, g)
    BY <1>5 DEF KeysOnce, Good
<1>8. Reached(n, g)
    BY <1>5 DEF Reached, Good, Home
<1>9. EntriesOf(n, g) = (EntriesOf(n, h) \ {h[idx]}) \cup {e2}
  <2>1. ASSUME NEW j \in 0..n - 1, j # idx, h[j] # None PROVE h[j] # h[idx]
      BY <2>1 DEF KeysOnce, Good
  <2>2. \A d : d \in EntriesOf(n, g) <=> d # None /\ \E j \in 0..n - 1 : g[j] = d
      BY DEF EntriesOf
  <2>3. \A d : d \in EntriesOf(n, h) <=> d # None /\ \E j \in 0..n - 1 : h[j] = d
      BY DEF EntriesOf
  <2>4. ASSUME NEW d PROVE d \in EntriesOf(n, g) => d \in (EntriesOf(n, h) \ {h[idx]}) \cup {e2}
      BY <1>4, <2>1, <2>2, <2>3
  <2>5. ASSUME NEW d PROVE d \in (EntriesOf(n, h) \ {h[idx]}) \cup {e2} => d \in EntriesOf(n, g)
      BY <1>2, <1>4, <2>2, <2>3
  <2> QED
      BY <2>4, <2>5
<1> QED
    BY <1>2, <1>6, <1>7, <1>8, <1>9 DEF Good, g, e2

\* Nor does that change which keys there are.
LEMMA KeyedCounted ==
  ASSUME NEW order, NEW E, NEW e \in E, NEW e2, e2.key = e.key, Keyed(order, E)
  PROVE  Keyed(order, (E \ {e}) \cup {e2})
<1> DEFINE F == (E \ {e}) \cup {e2}
<1>1. \A d \in E : \E f \in F : f.key = d.key
    OBVIOUS
<1>2. \A f \in F : \E d \in E : f.key = d.key
    OBVIOUS
<1> HIDE DEF F
<1>3. Keyed(order, F)
    BY <1>1, <1>2 DEF Keyed
<1> QED
    BY <1>3 DEF F

\* LookupAndPin(),
LEMMA HashLookupKeeps ==
  ASSUME HashInv, NEW t \in Thread, HashLookupAndPin(t)
  PROVE  HashInv'
<1> DEFINE n == HashSize(capacity)
           idx == Find(hash, key[t])
           E == EntriesOf(n, hash)
<1>1. UNCHANGED <<capacity, insertion_order, allocated, size, evicted_>>
    BY DEF HashLookupAndPin
<1>2. key[t] \in Key /\ holding[t] = None
    BY DEF HashInv, CallsInOrder, HashLookupAndPin
<1>3. TableInv /\ Owned(E, evicted_, holding, key) /\ CallsInOrder /\ Good(n, hash)
    BY DEF HashInv, TableInv
<1>4. \E z \in 0..n - 1 : hash[z] = None
    BY CurrentBooks
<1>5. /\ idx \in 0..n - 1
      /\ hash[idx] # None => hash[idx] \in E /\ hash[idx].key = key[t]
    BY <1>2, <1>3, <1>4, FoundEntry
<1>6. CASE hash[idx] = None
  <2>1. Return(t) /\ UNCHANGED <<hash, holding>>
      BY <1>6 DEF HashLookupAndPin
  <2>2. TableInv'
      BY <1>1, <1>3, <2>1 DEF TableInv
  <2>3. CallsInOrder' /\ Owned(E, evicted_, holding', key')
    <3> HIDE DEF E, n
    <3> QED
        BY <1>2, <1>3, <2>1, ReturnKeeps
  <2> QED
      BY <1>1, <2>1, <2>2, <2>3 DEF HashInv
<1>7. CASE hash[idx] # None
  <2> DEFINE e == hash[idx]
             p == e.pins + 1
             e2 == [e EXCEPT !.pins = @ + 1]
  <2>1. /\ hash' = [hash EXCEPT ![idx].pins = @ + 1]
        /\ holding' = [holding EXCEPT ![t] = e.value]
        /\ op' = [op EXCEPT ![t] = "none"] /\ key' = key
      BY <1>7 DEF HashLookupAndPin
  <2>2. e \in E /\ e.key = key[t] /\ e \in EntryType /\ e.pins \in Nat
      BY <1>3, <1>5, <1>7 DEF Owned, EntryType
  <2>3. hash' = Counted(hash, idx, p) /\ e2 = Repinned(e, p) /\ e2.key = e.key
      BY <2>1, <2>2 DEF Counted, EntryType, Repinned
  <2> HIDE DEF n, idx
  <2>4. Good(n, hash') /\ EntriesOf(n, hash') = (E \ {e}) \cup {e2} /\ e2 \in EntryType
      BY <1>3, <1>5, <1>7, <2>2, <2>3, PinsChanged
  <2>5. Keyed(insertion_order, (E \ {e}) \cup {e2})
    <3>1. Keyed(insertion_order, E)
        BY <1>3 DEF TableInv, n
    <3> HIDE DEF e, e2, E
    <3> QED
        BY <2>2, <2>3, <3>1, KeyedCounted
  <2>6. TableInv'
      BY <1>1, <1>3, <2>4, <2>5 DEF TableInv, n
  <2>7. Owned((E \ {e}) \cup {e2}, evicted_, [holding EXCEPT ![t] = e.value], key)
    <3>1. e2 = [e EXCEPT !.pins = @ + 1]
        OBVIOUS
    <3> HIDE DEF e, e2, E
    <3> QED
        BY <1>2, <1>3, <2>2, <2>4, <3>1, OwnedPin
  <2>8. CallsInOrder'
    <3>1. holding' = [holding EXCEPT ![t] = e.value] /\ op' = [op EXCEPT ![t] = "none"] /\ key' = key
        BY <2>1
    <3> QED
        BY <1>3, <3>1 DEF CallsInOrder
  <2>9. Owned(EntriesOf(n, hash'), evicted_', holding', key')
      BY <1>1, <2>1, <2>4, <2>7
  <2> QED
      BY <1>1, <2>6, <2>8, <2>9 DEF HashInv, n
<1> QED
    BY <1>6, <1>7

\* What the lock of a thread is on.
LEMMA HeldEntry ==
  ASSUME NEW t \in Thread, HashInv, holding[t] # None
  PROVE  LET n == HashSize(capacity) IN
         /\ \A e \in HeldEvicted(t) : /\ e \in evicted_ /\ e \in EntryType /\ e.pins > 0
                                      /\ e.value = holding[t]
         /\ HeldEvicted(t) = {} =>
              /\ Find(hash, key[t]) \in 0..n - 1
              /\ hash[Find(hash, key[t])] \in EntriesOf(n, hash)
              /\ hash[Find(hash, key[t])] # None
              /\ hash[Find(hash, key[t])] \in EntryType
              /\ hash[Find(hash, key[t])].value = holding[t]
              /\ hash[Find(hash, key[t])].pins > 0
<1> DEFINE n == HashSize(capacity)
           E == EntriesOf(n, hash)
<1>1. Owned(E, evicted_, holding, key) /\ Good(n, hash)
    BY DEF HashInv, TableInv
<1>2. \E z \in 0..n - 1 : hash[z] = None
    BY CurrentBooks
<1>3. \A e \in E \cup evicted_ : e.value = holding[t] => e.pins > 0
  <2>1. \A e \in E \cup evicted_ : e.pins = Cardinality(HoldersOf(holding, e.value))
      BY <1>1 DEF Owned
  <2> QED
      BY <2>1, HoldersCount
<1>4. E \subseteq EntryType /\ evicted_ \subseteq EntryType
    BY <1>1 DEF Owned
<1>5. \A e \in HeldEvicted(t) : e \in evicted_ /\ e.value = holding[t]
    BY DEF HeldEvicted
<1>6. ASSUME HeldEvicted(t) = {}
      PROVE  /\ Find(hash, key[t]) \in 0..n - 1
             /\ hash[Find(hash, key[t])] \in E /\ hash[Find(hash, key[t])] # None
             /\ hash[Find(hash, key[t])].value = holding[t]
  <2>1. PICK e \in E \cup evicted_ : e.value = holding[t] /\ e.key = key[t]
      BY <1>1 DEF Owned
  <2>2. e \in E
      BY <1>6, <2>1 DEF HeldEvicted
  <2>3. key[t] \in Key /\ e # None
      BY <1>4, <2>1, <2>2, NoneIsNoEntry DEF EntryType
  <2>4. hash[Find(hash, key[t])] = e /\ Find(hash, key[t]) \in 0..n - 1
    <3> HIDE DEF n
    <3> QED
        BY <1>1, <1>2, <2>1, <2>2, <2>3, FoundEntry
  <2> QED
      BY <2>1, <2>2, <2>3, <2>4
<1> QED
    BY <1>3, <1>4, <1>5, <1>6

\* An evicted entry is unlocked.
LEMMA UnlockEvicted ==
  ASSUME NEW E, NEW A, NEW hold, NEW k, NEW t \in Thread, NEW e \in A, NEW e2, NEW B,
         Owned(E, A, hold, k), e2 = [e EXCEPT !.pins = @ - 1],
         B = (A \ {e}) \cup {d \in {e2} : d.pins > 0}
  PROVE  Unlocked(E, A, hold, k, t, e, E, B)
<1>1. e \in EntryType /\ e.pins \in Nat /\ e.pins > 0
    BY DEF Owned, EntryType
<1>2. e2.value = e.value /\ e2.pins = e.pins - 1 /\ (e2.pins > 0 => e2 \in EntryType) /\ e2 # e
    BY <1>1 DEF EntryType
<1>3. e2 \notin E
    BY <1>2 DEF Owned
<1>4. E \subseteq EntryType /\ A \subseteq EntryType /\ E \cap A = {} /\ \A d \in A : d.pins > 0
    BY DEF Owned
<1>5. B \subseteq EntryType /\ E \cap B = {}
    BY <1>2, <1>3, <1>4
<1>6. \A d \in E \cup B : (d \in E \cup A /\ d # e) \/ d = e2
    BY <1>4
<1>7. \A d \in E \cup A : d # e => d \in E \cup B
    OBVIOUS
<1>8. e2.pins > 0 => e2 \in E \cup B
    OBVIOUS
<1>9. \A d \in B : d.pins > 0
    BY <1>4
<1> QED
    BY <1>4, <1>5, <1>6, <1>7, <1>8, <1>9 DEF Unlocked

\* An entry of the table is.
LEMMA UnlockCached ==
  ASSUME NEW E, NEW A, NEW hold, NEW k, NEW t \in Thread, NEW e \in E, NEW e2,
         Owned(E, A, hold, k), e2 = [e EXCEPT !.pins = @ - 1], e.pins > 0
  PROVE  Unlocked(E, A, hold, k, t, e, (E \ {e}) \cup {e2}, A)
<1> DEFINE F == (E \ {e}) \cup {e2}
<1>1. e \in EntryType /\ e.pins \in Nat
    BY DEF Owned, EntryType
<1>2. e2.value = e.value /\ e2.pins = e.pins - 1 /\ e2 \in EntryType /\ e2 # e
    BY <1>1 DEF EntryType
<1>3. e2 \notin A
    BY <1>2 DEF Owned
<1>4. E \subseteq EntryType /\ A \subseteq EntryType /\ E \cap A = {} /\ \A d \in A : d.pins > 0
    BY DEF Owned
<1>5. F \subseteq EntryType /\ F \cap A = {}
    BY <1>2, <1>3, <1>4
<1>6. \A d \in F \cup A : (d \in E \cup A /\ d # e) \/ d = e2
    BY <1>4
<1>7. \A d \in E \cup A : d # e => d \in F \cup A
    OBVIOUS
<1>8. e2 \in F
    OBVIOUS
<1> HIDE DEF F
<1>9. Unlocked(E, A, hold, k, t, e, F, A)
    BY <1>4, <1>5, <1>6, <1>7, <1>8 DEF Unlocked
<1> QED
    BY <1>9 DEF F

\* Unpin(),
LEMMA HashUnpinKeeps ==
  ASSUME HashInv, NEW t \in Thread, HashUnpin(t)
  PROVE  HashInv'
<1> DEFINE n == HashSize(capacity)
           E == EntriesOf(n, hash)
           hold2 == [holding EXCEPT ![t] = None]
           k2 == [key EXCEPT ![t] = None]
<1>1. /\ UNCHANGED <<capacity, insertion_order, size>>
      /\ holding' = hold2 /\ key' = k2 /\ op' = [op EXCEPT ![t] = "none"]
      /\ holding[t] # None
    BY DEF HashUnpin, Return
<1>2. TableInv /\ Owned(E, evicted_, holding, key) /\ CallsInOrder /\ Good(n, hash)
      /\ Keyed(insertion_order, E) /\ allocated \in Int
    BY DEF HashInv, TableInv
<1>3. CallsInOrder'
    BY <1>1, <1>2 DEF CallsInOrder
<1>4. ASSUME NEW e \in HeldEvicted(t),
             evicted_' = (evicted_ \ {e}) \cup {d \in {[e EXCEPT !.pins = @ - 1]} : d.pins > 0},
             allocated' = IF e.pins = 1 THEN allocated - 1 ELSE allocated,
             hash' = hash
      PROVE  HashInv'
  <2>1. e \in evicted_ /\ e.value = holding[t]
      BY <1>1, HeldEntry
  <2>2. allocated' \in Int
      BY <1>2, <1>4
  <2>3. TableInv'
      BY <1>1, <1>2, <1>4, <2>2 DEF TableInv
  <2> DEFINE B == evicted_'
             e2 == [e EXCEPT !.pins = @ - 1]
  <2>4. B = (evicted_ \ {e}) \cup {d \in {e2} : d.pins > 0}
      BY <1>4
  <2> HIDE DEF B, e2, E, hold2, k2
  <2>5. Unlocked(E, evicted_, holding, key, t, e, E, B)
      BY <1>2, <2>1, <2>4, UnlockEvicted DEF e2
  <2>6. Owned(E, B, [holding EXCEPT ![t] = None], [key EXCEPT ![t] = None])
      BY <1>2, <2>1, <2>5, OwnedUnlock
  <2> QED
      BY <1>1, <1>3, <1>4, <2>3, <2>6 DEF HashInv, B, E, hold2, k2
<1>5. ASSUME HeldEvicted(t) = {}, hash' = [hash EXCEPT ![Find(hash, key[t])].pins = @ - 1],
             UNCHANGED <<evicted_, allocated>>
      PROVE  HashInv'
  <2> DEFINE idx == Find(hash, key[t])
             e == hash[idx]
             p == e.pins - 1
             e2 == [e EXCEPT !.pins = @ - 1]
  <2>1. /\ idx \in 0..n - 1 /\ e \in E /\ e # None /\ e \in EntryType
        /\ e.value = holding[t] /\ e.pins > 0
      BY <1>1, <1>5, HeldEntry
  <2>2. p \in Nat
      BY <2>1 DEF EntryType
  <2>3. hash' = Counted(hash, idx, p) /\ e2 = Repinned(e, p) /\ e2.key = e.key
      BY <1>5, <2>1 DEF Counted, EntryType, Repinned
  <2> HIDE DEF n, idx
  <2>4. Good(n, hash') /\ EntriesOf(n, hash') = (E \ {e}) \cup {e2}
    <3>1. Good(n, hash) /\ idx \in 0..n - 1 /\ hash[idx] # None
        BY <1>2, <2>1
    <3>2. hash' = Counted(hash, idx, p) /\ e2 = Repinned(hash[idx], p)
        BY <2>3
    <3> HIDE DEF p, e2
    <3>3. /\ Good(n, Counted(hash, idx, p))
          /\ EntriesOf(n, Counted(hash, idx, p))
               = (EntriesOf(n, hash) \ {hash[idx]}) \cup {Repinned(hash[idx], p)}
        BY <2>2, <3>1, PinsChanged
    <3> QED
        BY <3>2, <3>3
  <2>5. Keyed(insertion_order, (E \ {e}) \cup {e2})
    <3> HIDE DEF e, e2, E
    <3> QED
        BY <1>2, <2>1, <2>3, KeyedCounted
  <2>6. TableInv'
      BY <1>1, <1>2, <1>5, <2>4, <2>5 DEF TableInv, n
  <2>7. Owned((E \ {e}) \cup {e2}, evicted_, [holding EXCEPT ![t] = None], [key EXCEPT ![t] = None])
    <3>1. e2 = [e EXCEPT !.pins = @ - 1]
        OBVIOUS
    <3> HIDE DEF e, e2, E
    <3>2. Unlocked(E, evicted_, holding, key, t, e, (E \ {e}) \cup {e2}, evicted_)
        BY <1>2, <2>1, <3>1, UnlockCached
    <3> DEFINE F == (E \ {e}) \cup {e2}
    <3> HIDE DEF F
    <3>3. Owned(F, evicted_, [holding EXCEPT ![t] = None], [key EXCEPT ![t] = None])
        BY <1>2, <2>1, <3>2, OwnedUnlock DEF F
    <3> QED
        BY <3>3 DEF F
  <2>8. Owned(EntriesOf(n, hash'), evicted_', holding', key')
      BY <1>1, <1>5, <2>4, <2>7
  <2> QED
      BY <1>1, <1>3, <2>6, <2>8 DEF HashInv, n
<1> QED
  <2>1. CASE \E e \in HeldEvicted(t) :
               /\ evicted_' = (evicted_ \ {e}) \cup {d \in {[e EXCEPT !.pins = @ - 1]} : d.pins > 0}
               /\ allocated' = IF e.pins = 1 THEN allocated - 1 ELSE allocated
               /\ UNCHANGED hash
      BY <1>4, <2>1
  <2>2. CASE /\ HeldEvicted(t) = {}
             /\ hash' = [hash EXCEPT ![Find(hash, key[t])].pins = @ - 1]
             /\ UNCHANGED <<evicted_, allocated>>
      BY <1>5, <2>2
  <2> QED
      BY <2>1, <2>2 DEF HashUnpin

\* What the variables hold.
LEMMA EntriesThere ==
  ASSUME HashInv
  PROVE  /\ Entries = EntriesOf(HashSize(capacity), hash)
         /\ Owned(EntriesOf(HashSize(capacity), Current.hash), Current.evicted, holding, key)
         /\ Current.hash = hash /\ Current.size = size /\ Current.evicted = evicted_
         /\ Current.order = insertion_order /\ Current.allocated = allocated
<1>1. Table(HashSize(capacity), hash)
    BY DEF HashInv, TableInv, Good
<1>2. DOMAIN hash = 0..HashSize(capacity) - 1
    BY <1>1, TableSlots
<1>3. Entries = EntriesOf(HashSize(capacity), hash)
    BY <1>2 DEF Entries, EntriesOf
<1>4. /\ Current.hash = hash /\ Current.size = size /\ Current.evicted = evicted_
      /\ Current.order = insertion_order /\ Current.allocated = allocated
    BY DEF Current
<1> QED
    BY <1>3, <1>4 DEF HashInv

\* The cache with one more entry, before anything is evicted.
Added(k, v) ==
  [Current EXCEPT !.hash = Put(@, Entry(k, v, 0)), !.order = Append(@, k),
                  !.size = @ + 1, !.allocated = @ + 1]

LEMMA AddedFields ==
  ASSUME NEW k, NEW v
  PROVE  Added(k, v) = [hash |-> Put(hash, Entry(k, v, 0)), order |-> Append(insertion_order, k),
                        evicted |-> evicted_, allocated |-> allocated + 1, size |-> size + 1]
<1> DEFINE g == Put(hash, Entry(k, v, 0))
           a == Append(insertion_order, k)
<1>1. /\ Current.hash = hash /\ Current.order = insertion_order
      /\ Current.size = size /\ Current.allocated = allocated
    BY DEF Current
<1>2. Added(k, v) = [Current EXCEPT !.hash = g, !.order = a, !.size = size + 1,
                                    !.allocated = allocated + 1]
    BY <1>1, Zenon DEF Added
<1> HIDE DEF g, a
<1>3. Added(k, v) = [hash |-> g, order |-> a, evicted |-> evicted_, allocated |-> allocated + 1,
                     size |-> size + 1]
    BY <1>2 DEF Current
<1> QED
    BY <1>3 DEF g, a

\* The new key is the youngest.
LEMMA KeyedAdded ==
  ASSUME NEW order, NEW E, NEW e \in EntryType, Keyed(order, E), \A d \in E : d.key # e.key
  PROVE  Keyed(Append(order, e.key), E \cup {e})
<1> DEFINE a == Append(order, e.key)
           m == Len(order)
<1>1. order \in Seq(Key) /\ e.key \in Key
    BY DEF Keyed, EntryType
<1>2. m \in Nat /\ a \in Seq(Key) /\ Len(a) = m + 1 /\ a[m + 1] = e.key
      /\ \A i \in 1..m : a[i] = order[i]
    BY <1>1
<1> HIDE DEF a, m
<1>3. \A i \in 1..Len(a) : i \in 1..m \/ i = m + 1
    BY <1>2
<1>4. \A i \in 1..m : i \in 1..Len(a)
    BY <1>2
<1>5. m + 1 \in 1..Len(a)
    BY <1>2
<1>6. /\ \A i \in 1..m : \E d \in E : d.key = order[i]
      /\ \A d \in E : \E i \in 1..m : order[i] = d.key
      /\ \A i, j \in 1..m : order[i] = order[j] => i = j
    BY DEF Keyed, m
<1>7. \A i \in 1..m : order[i] # e.key
    BY <1>6
<1>8. \A i \in 1..Len(a) : \E d \in E \cup {e} : d.key = a[i]
    BY <1>2, <1>3, <1>6
<1>9. \A d \in E \cup {e} : \E i \in 1..Len(a) : a[i] = d.key
    BY <1>2, <1>4, <1>5, <1>6
<1>10. \A i, j \in 1..Len(a) : a[i] = a[j] => i = j
    BY <1>2, <1>3, <1>6, <1>7
<1>11. Keyed(a, E \cup {e})
    BY <1>2, <1>8, <1>9, <1>10 DEF Keyed
<1> QED
    BY <1>11 DEF a

\* It may have as many entries as it has slots, but only if those are one or two.
LEMMA AddedBooks ==
  ASSUME HashInv, NEW k \in Key, NEW v \in Value \ HashAlive, ~Found(hash, k)
  PROVE  LET n == HashSize(capacity)
             e == Entry(k, v, 0)
             c == Added(k, v)
         IN /\ Books(n, c)
            /\ EntriesOf(n, c.hash) = EntriesOf(n, hash) \cup {e}
            /\ c.evicted = evicted_ /\ c.order = Append(insertion_order, k)
            /\ c.size = size + 1 /\ c.allocated = allocated + 1
            /\ Owned(EntriesOf(n, c.hash), c.evicted, holding, key)
            /\ e \in EntryType /\ e.key = k /\ e.value = v /\ e.pins = 0
            /\ \A d \in EntriesOf(n, hash) : d.key # k
            /\ \A d \in EntriesOf(n, hash) \cup evicted_ : d.value # v
<1> DEFINE n == HashSize(capacity)
           e == Entry(k, v, 0)
           E == EntriesOf(n, hash)
           g == Put(hash, e)
           c == Added(k, v)
<1>1. e \in EntryType /\ e.key = k /\ e.value = v /\ e.pins = 0
    BY DEF EntryType, Entry
<1>2. /\ capacity \in Nat /\ size = Len(insertion_order) /\ size <= capacity /\ Good(n, hash)
      /\ Keyed(insertion_order, E) /\ allocated \in Int /\ Owned(E, evicted_, holding, key)
    BY DEF HashInv, TableInv
<1>3. n \in Nat \ {0} /\ (capacity + 1 < n \/ n \in {1, 2})
    BY <1>2, HashSizes
<1>4. \E z \in 0..n - 1 : hash[z] = None
    BY CurrentBooks
<1> HIDE DEF n
<1>5. \A d \in E : d.key # k
    BY <1>2, NotFound
<1>6. \A d \in E \cup evicted_ : d.value # v
  <2>1. Entries = E
      BY EntriesThere DEF n
  <2> QED
      BY <2>1 DEF HashAlive
<1> HIDE DEF e
<1>7. Good(n, g) /\ EntriesOf(n, g) = E \cup {e}
    BY <1>1, <1>2, <1>4, <1>5, PutNew
<1>8. insertion_order \in Seq(Key) /\ size \in Nat
    BY <1>2 DEF Keyed
<1>9. Keyed(Append(insertion_order, k), E \cup {e})
  <2> HIDE DEF E
  <2>1. Keyed(Append(insertion_order, e.key), E \cup {e})
      BY <1>1, <1>2, <1>5, KeyedAdded
  <2> QED
      BY <1>1, <2>1
<1>10. Owned(E \cup {e}, evicted_, holding, key)
  <2> HIDE DEF E
  <2> QED
      BY <1>1, <1>2, <1>6, OwnedAdd
<1>11. /\ c.hash = g /\ c.order = Append(insertion_order, k) /\ c.size = size + 1
       /\ c.allocated = allocated + 1 /\ c.evicted = evicted_
       /\ c = [hash |-> g, order |-> Append(insertion_order, k), evicted |-> evicted_,
               allocated |-> allocated + 1, size |-> size + 1]
  <2>1. c = [hash |-> g, order |-> Append(insertion_order, k), evicted |-> evicted_,
             allocated |-> allocated + 1, size |-> size + 1]
      BY AddedFields DEF e
  <2> HIDE DEF c, g
  <2> QED
      BY <2>1
<1>12. g \in [0..n - 1 -> EntryOrNone] /\ evicted_ \in SUBSET EntryType
    BY <1>2, <1>7 DEF Good, Table, Owned
<1> HIDE DEF g, c, E
<1>13. Append(insertion_order, k) \in Seq(Key) /\ Len(Append(insertion_order, k)) = size + 1
    BY <1>2, <1>8
<1>14. allocated + 1 \in Int /\ size + 1 \in Nat
    BY <1>2, <1>8
<1>15. c \in [hash : [0..n - 1 -> EntryOrNone], order : Seq(Key), evicted : SUBSET EntryType,
              allocated : Int, size : Nat]
    BY <1>11, <1>12, <1>13, <1>14
<1>16. c.size < n \/ n \in {1, 2}
    BY <1>2, <1>3, <1>8, <1>11
<1>17. Books(n, c)
    BY <1>7, <1>9, <1>11, <1>13, <1>15, <1>16 DEF Books
<1> QED
    BY <1>1, <1>5, <1>6, <1>7, <1>10, <1>11, <1>17 DEF n, e, E, c

\* Books that fit become the variables.
LEMMA BecomesKeeps ==
  ASSUME NEW d, HashInv, Books(HashSize(capacity), d), Becomes(d), UNCHANGED capacity,
         d.size <= capacity
  PROVE  TableInv'
<1> DEFINE n == HashSize(capacity)
<1>1. /\ Good(n, d.hash) /\ Keyed(d.order, EntriesOf(n, d.hash)) /\ d.size = Len(d.order)
      /\ d.allocated \in Int
    BY DEF Books
<1>2. /\ hash' = d.hash /\ insertion_order' = d.order /\ evicted_' = d.evicted
      /\ allocated' = d.allocated /\ size' = d.size
    BY DEF Becomes
<1>3. capacity \in Nat
    BY DEF HashInv, TableInv
<1> QED
    BY <1>1, <1>2, <1>3 DEF TableInv

\* Insert(),
LEMMA HashInsertKeeps ==
  ASSUME HashInv, NEW t \in Thread, NEW v \in Value, HashInsert(t, v)
  PROVE  HashInv'
<1> DEFINE n == HashSize(capacity)
           k == key[t]
           c == Added(k, v)
           d == EvictedToCapacity(capacity, c)
<1>1. v \in Value \ HashAlive /\ Return(t) /\ UNCHANGED <<capacity, holding>>
    BY DEF HashInsert
<1>2. k \in Key /\ holding[t] = None /\ CallsInOrder /\ capacity \in Nat
    BY DEF HashInv, CallsInOrder, HashInsert, TableInv
<1>3. CASE Found(hash, k)
  <2>1. UNCHANGED <<insertion_order, allocated, size, hash, evicted_>>
      BY <1>3 DEF HashInsert
  <2>2. TableInv'
      BY <1>1, <2>1 DEF HashInv, TableInv
  <2> DEFINE E == EntriesOf(n, hash)
  <2>3. Owned(E, evicted_, holding, key)
      BY DEF HashInv
  <2>4. CallsInOrder' /\ Owned(E, evicted_, holding', key')
    <3> HIDE DEF E
    <3> QED
        BY <1>1, <1>2, <2>3, ReturnKeeps
  <2> QED
      BY <1>1, <2>1, <2>2, <2>4 DEF HashInv
<1>4. CASE ~Found(hash, k)
  <2>1. Becomes(d)
      BY <1>4 DEF HashInsert, Added
  <2>2. Books(n, c) /\ Owned(EntriesOf(n, c.hash), c.evicted, holding, key)
      BY <1>1, <1>2, <1>4, AddedBooks
  <2> HIDE DEF n, c
  <2>3. Books(n, d) /\ d.size <= capacity /\ Owned(EntriesOf(n, d.hash), d.evicted, holding, key)
    <3> HIDE DEF d
    <3> QED
        BY <1>2, <2>2, EvictKeeps DEF d
  <2> HIDE DEF d
  <2>4. TableInv'
      BY <1>1, <2>1, <2>3, BecomesKeeps DEF n
  <2>5. CallsInOrder' /\ Owned(EntriesOf(n, d.hash), d.evicted, holding', key')
      BY <1>1, <1>2, <2>3, ReturnKeeps
  <2>6. hash' = d.hash /\ evicted_' = d.evicted
      BY <2>1 DEF Becomes
  <2> QED
      BY <1>1, <2>4, <2>5, <2>6 DEF HashInv, n
<1> QED
    BY <1>3, <1>4

\* Clear(),
LEMMA HashClearKeeps ==
  ASSUME HashInv, HashClear
  PROVE  HashInv'
<1> DEFINE n == HashSize(capacity)
           d == EvictedToCapacity(0, Current)
<1>1. Becomes(d) /\ UNCHANGED <<capacity, op, key, holding>>
    BY DEF HashClear, call
<1>2. /\ Books(n, Current) /\ Owned(EntriesOf(n, Current.hash), Current.evicted, holding, key)
      /\ capacity \in Nat
    BY CurrentBooks, EntriesThere DEF HashInv, TableInv
<1> HIDE DEF n
<1>3. Books(n, d) /\ d.size <= 0 /\ d.size \in Nat
      /\ Owned(EntriesOf(n, d.hash), d.evicted, holding, key)
  <2> HIDE DEF d
  <2> QED
      BY <1>2, EvictKeeps DEF d
<1> HIDE DEF d
<1>4. d.size <= capacity
    BY <1>2, <1>3
<1>5. TableInv'
    BY <1>1, <1>3, <1>4, BecomesKeeps DEF n
<1>6. hash' = d.hash /\ evicted_' = d.evicted
    BY <1>1 DEF Becomes
<1>7. CallsInOrder'
    BY <1>1 DEF HashInv, CallsInOrder
<1> QED
    BY <1>1, <1>3, <1>5, <1>6, <1>7 DEF HashInv, n

\* and SetCapacity().
LEMMA HashSetCapacityKeeps ==
  ASSUME HashInv, NEW c \in Capacities, HashSetCapacity(c)
  PROVE  HashInv'
<1> DEFINE n == HashSize(capacity)
           m == HashSize(c)
           d == EvictedToCapacity(c, Current)
           g == Rehash(d.hash, c)
<1>1. Becomes([d EXCEPT !.hash = g]) /\ capacity' = c /\ UNCHANGED <<op, key, holding>>
    BY DEF HashSetCapacity, call
<1>2. /\ Books(n, Current) /\ Owned(EntriesOf(n, Current.hash), Current.evicted, holding, key)
      /\ c \in Nat
    BY CurrentBooks, EntriesThere, CacheAssumption DEF HashInv, TableInv
<1>3. c < m /\ m \in Nat \ {0}
    BY <1>2, HashSizes
<1> HIDE DEF n, m
<1>4. Books(n, d) /\ d.size <= c /\ Owned(EntriesOf(n, d.hash), d.evicted, holding, key)
  <2> HIDE DEF d
  <2> QED
      BY <1>2, EvictKeeps DEF d
<1> HIDE DEF d
<1>5. /\ Good(n, d.hash) /\ Keyed(d.order, EntriesOf(n, d.hash)) /\ d.size = Len(d.order)
      /\ d.allocated \in Int /\ d.order \in Seq(Key) /\ d.size \in Nat
      /\ d = [hash |-> d.hash, order |-> d.order, evicted |-> d.evicted,
              allocated |-> d.allocated, size |-> d.size]
    BY <1>4 DEF Books
<1>6. Good(m, g) /\ EntriesOf(m, g) = EntriesOf(n, d.hash)
  <2>1. \A e \in EntriesOf(n, d.hash) : \E i \in 1..Len(d.order) : d.order[i] = e.key
      BY <1>5 DEF Keyed
  <2>2. Len(d.order) < m
      BY <1>2, <1>3, <1>4, <1>5
  <2> QED
      BY <1>2, <1>5, <2>1, <2>2, Rehashed DEF m
<1> HIDE DEF g
<1>7. /\ hash' = g /\ insertion_order' = d.order /\ evicted_' = d.evicted
      /\ allocated' = d.allocated /\ size' = d.size
    BY <1>1, <1>5 DEF Becomes
<1>8. TableInv'
    BY <1>1, <1>2, <1>4, <1>5, <1>6, <1>7 DEF TableInv, m
<1>9. CallsInOrder'
    BY <1>1 DEF HashInv, CallsInOrder
<1> QED
    BY <1>1, <1>4, <1>6, <1>7, <1>8, <1>9 DEF HashInv, m

LEMMA HashInvKept == HashInv /\ [HashNext]_hash_vars => HashInv'
<1> SUFFICES ASSUME HashInv, [HashNext]_hash_vars PROVE HashInv'
    OBVIOUS
<1>1. CASE UNCHANGED hash_vars
    BY <1>1 DEF hash_vars, HashInv, TableInv, CallsInOrder
<1>2. ASSUME NEW t \in Thread, HashThreadStep(t) PROVE HashInv'
    BY <1>2, HashCallKeeps, HashInsertKeeps, HashLookupKeeps, HashUnpinKeeps DEF HashThreadStep
<1>3. ASSUME NEW c \in Capacities, HashSetCapacity(c) PROVE HashInv'
    BY <1>3, HashSetCapacityKeeps
<1>4. CASE HashClear
    BY <1>4, HashClearKeeps
<1> QED
    BY <1>1, <1>2, <1>3, <1>4 DEF HashNext

\* The inductive invariant of the hash table: it can be searched, its keys are those in
\* insertion_order_, and its pins count the locks.
THEOREM HashInvariant == HashSpec => []HashInv
<1> QED
    BY HashInvInit, HashInvKept, PTL DEF HashSpec

\* Whoever probes for a key comes to its end: whatever was inserted, evicted and moved
\* before, there is a free slot outside the lock.
THEOREM ProbingAlwaysEnds == HashSpec => []ProbingEnds
<1>1. HashInv => ProbingEnds
  <2> SUFFICES ASSUME HashInv PROVE ProbingEnds
      OBVIOUS
  <2>1. \E z \in 0..HashSize(capacity) - 1 : hash[z] = None
      BY CurrentBooks
  <2>2. DOMAIN hash = 0..HashSize(capacity) - 1
      BY TableSlots DEF HashInv, TableInv, Good
  <2> QED
      BY <2>1, <2>2 DEF ProbingEnds
<1> QED
    BY <1>1, HashInvariant, PTL

\* Every variable of the hash table keeps its type, in particular hash_ its number of slots
\* and insertion_order_ its keys, whatever the capacity was changed to.
THEOREM HashTypeCorrect == HashSpec => []HashTypeOK
<1>1. HashInv => HashTypeOK
  <2> SUFFICES ASSUME HashInv PROVE HashTypeOK
      OBVIOUS
  <2>1. /\ capacity \in Nat /\ size = Len(insertion_order) /\ allocated \in Int
        /\ insertion_order \in Seq(Key)
      BY DEF HashInv, TableInv, Keyed
  <2>2. hash \in [0..HashSize(capacity) - 1 -> EntryType \cup {None}]
      BY DEF HashInv, TableInv, Good, Table, EntryOrNone
  <2>3. evicted_ \subseteq EntryType /\ holding \in [Thread -> Value \cup {None}]
      BY DEF HashInv, Owned
  <2>4. /\ op \in [Thread -> {"none", "insert", "lookup"}]
        /\ key \in [Thread -> Key \cup {None}]
      BY DEF HashInv, CallsInOrder
  <2>5. size \in Nat
      BY <2>1
  <2> QED
      BY <2>1, <2>2, <2>3, <2>4, <2>5 DEF HashTypeOK
<1> QED
    BY <1>1, HashInvariant, PTL

-----------------------------------------------------------------------------
(* The table as a function, and the pins as those who hold.                *)

\* f is the map from keys to values that the entries E make.
MapOf(E, f) ==
  /\ f \in [Key -> Value \cup {None}]
  /\ \A e \in E : f[e.key] = e.value
  /\ \A k \in Key : (\A e \in E : e.key # k) => f[k] = None

PinsBy(hold) == [v \in Value |-> Cardinality(HoldersOf(hold, v))]

Abstract ==
  /\ MapOf(EntriesOf(HashSize(capacity), hash), ValueOfKey)
  /\ PinsOfValue = PinsBy(holding)

\* The refinement mapping is what it is meant to be: the keys ...
LEMMA ValuesMapped ==
  ASSUME HashInv
  PROVE  MapOf(EntriesOf(HashSize(capacity), hash), ValueOfKey)
<1> DEFINE E == EntriesOf(HashSize(capacity), hash)
<1>1. Entries = E
    BY EntriesThere
<1>2. E \subseteq EntryType /\ \A d, e \in E : d.key = e.key => d = e
    BY EntriesTyped DEF HashInv, TableInv, Good
<1> HIDE DEF E
<1>3. \A k \in Key : Lookup(k) = {e \in E : e.key = k}
    BY <1>1 DEF Lookup
<1>4. ASSUME NEW k \in Key
      PROVE  ValueOfKey[k] = IF Lookup(k) = {} THEN None
                             ELSE (CHOOSE e \in Lookup(k) : TRUE).value
    BY <1>4 DEF ValueOfKey
<1>5. ASSUME NEW e \in E PROVE e.key \in Key /\ e.value \in Value /\ ValueOfKey[e.key] = e.value
  <2>1. e.key \in Key /\ e.value \in Value
      BY <1>2 DEF EntryType
  <2>2. Lookup(e.key) = {e}
      BY <1>2, <1>3, <2>1
  <2>3. (CHOOSE d \in {e} : TRUE) = e
      OBVIOUS
  <2> QED
      BY <1>4, <2>1, <2>2, <2>3
<1>6. ASSUME NEW k \in Key, \A e \in E : e.key # k PROVE ValueOfKey[k] = None
  <2>1. Lookup(k) = {}
      BY <1>3, <1>6
  <2> QED
      BY <1>4, <2>1
<1>7. \A k \in Key : ValueOfKey[k] \in Value \cup {None}
    BY <1>5, <1>6
<1>8. ValueOfKey \in [Key -> Value \cup {None}]
  <2> DEFINE F(k) == IF Lookup(k) = {} THEN None ELSE (CHOOSE e \in Lookup(k) : TRUE).value
  <2>1. ValueOfKey = [k \in Key |-> F(k)]
      BY DEF ValueOfKey
  <2> HIDE DEF F
  <2> QED
      BY <1>7, <2>1
<1>9. MapOf(E, ValueOfKey)
    BY <1>5, <1>6, <1>8 DEF MapOf
<1> QED
    BY <1>9 DEF E

\* ... and the pins.
LEMMA PinsMapped ==
  ASSUME HashInv
  PROVE  PinsOfValue = PinsBy(holding)
<1> DEFINE X == EntriesOf(HashSize(capacity), hash) \cup evicted_
           C(v) == Cardinality(HoldersOf(holding, v))
<1>1. /\ Entries \cup evicted_ = X
      /\ \A d, e \in X : d.value = e.value => d = e
      /\ \A e \in X : e.pins = C(e.value)
      /\ \A t \in Thread : holding[t] # None => \E e \in X : e.value = holding[t]
    BY EntriesThere DEF HashInv, Owned
<1>2. \A v \in Value : (\A t \in Thread : holding[t] # v) => C(v) = 0
    BY HoldersCount
<1>3. None \notin Value
    BY CacheAssumption
<1> HIDE DEF X, C
<1>4. \A v \in Value : HaveValue(v) = {e \in X : e.value = v}
    BY <1>1 DEF HaveValue
<1>5. ASSUME NEW v \in Value
      PROVE  (IF HaveValue(v) = {} THEN 0 ELSE (CHOOSE e \in HaveValue(v) : TRUE).pins) = C(v)
  <2>1. CASE HaveValue(v) = {}
    <3>1. \A t \in Thread : holding[t] # v
        BY <1>1, <1>3, <1>4, <2>1
    <3> QED
        BY <1>2, <2>1, <3>1
  <2>2. CASE HaveValue(v) # {}
    <3>1. PICK e \in X : e.value = v
        BY <1>4, <2>2
    <3>2. HaveValue(v) = {e}
        BY <1>1, <1>4, <3>1
    <3>3. (CHOOSE d \in {e} : TRUE) = e
        OBVIOUS
    <3> QED
        BY <1>1, <2>2, <3>1, <3>2, <3>3
  <2> QED
      BY <2>1, <2>2
<1> DEFINE F(v) == IF HaveValue(v) = {} THEN 0 ELSE (CHOOSE e \in HaveValue(v) : TRUE).pins
<1>6. \A v \in Value : F(v) = C(v)
    BY <1>5
<1>7. PinsOfValue = [v \in Value |-> F(v)]
    BY DEF PinsOfValue
<1>8. PinsBy(holding) = [v \in Value |-> C(v)]
    BY DEF PinsBy, C
<1> HIDE DEF F
<1> QED
    BY <1>6, <1>7, <1>8

LEMMA Abstracted == HashInv => Abstract
BY ValuesMapped, PinsMapped DEF Abstract

\* The instance has an operator Cardinality of its own.
LEMMA CacheCardinality ==
  ASSUME NEW S
  PROVE  Cache!Cardinality(S) = Cardinality(S)
BY DEF Cache!Cardinality, Cardinality

\* Values and their entries are equally many.
LEMMA ValueCount ==
  ASSUME NEW Z, IsFiniteSet(Z), \A d, e \in Z : d.value = e.value => d = e
  PROVE  Cardinality({e.value : e \in Z}) = Cardinality(Z)
<1> DEFINE V == {e.value : e \in Z}
           f == [e \in Z |-> e.value]
<1>1. f \in [Z -> V] /\ \A d, e \in Z : f[d] = f[e] => d = e
    OBVIOUS
<1>2. \A v \in V : \E e \in Z : f[e] = v
    OBVIOUS
<1> HIDE DEF f, V
<1>3. f \in Bijection(Z, V)
    BY <1>1, <1>2 DEF Bijection, Injection, Surjection, IsInjective
<1>4. Cardinality(V) = Cardinality(Z)
    BY <1>3, FS_Bijection DEF ExistsBijection
<1> QED
    BY <1>4 DEF V

FirstKeys(order, x) == {order[i] : i \in 1..x}

ValuesFor(f, K) == {f[k] : k \in K}
PinnedOf(S) == {v \in S : PinsOfValue[v] > 0}
FreeOf(S) == {v \in S : PinsOfValue[v] = 0}
ValuesIn(O) == {e.value : e \in O}
PinnedIn(O) == {e \in O : e.pins > 0}
FreeIn(O) == {e \in O : e.pins = 0}

\* Which of the values of some keys are pinned, and which are not.
LEMMA OldestValues ==
  ASSUME NEW n, NEW c, NEW x \in 0..c.size, NEW f, Books(n, c), MapOf(EntriesOf(n, c.hash), f),
         \A e \in EntriesOf(n, c.hash) : PinsOfValue[e.value] = e.pins
  PROVE  LET values == ValuesFor(f, FirstKeys(c.order, x))
             O == Oldest(n, c, x)
         IN /\ PinnedOf(values) = ValuesIn(PinnedIn(O))
            /\ FreeOf(values) = ValuesIn(FreeIn(O))
            /\ \A k \in FirstKeys(c.order, x) : k \in Key /\ \E e \in O : e.key = k
            /\ \A e \in O : e.key \in FirstKeys(c.order, x) /\ e \in EntriesOf(n, c.hash)
<1> DEFINE E == EntriesOf(n, c.hash)
           O == Oldest(n, c, x)
           K == FirstKeys(c.order, x)
           values == ValuesFor(f, K)
<1>1. /\ c.order \in Seq(Key) /\ c.size = Len(c.order)
      /\ \A i \in 1..Len(c.order) : \E e \in E : e.key = c.order[i]
    BY DEF Books, Keyed
<1>2. \A i \in 1..x : i \in 1..Len(c.order) /\ c.order[i] \in Key
    BY <1>1
<1>3. \A e : e \in O <=> e \in E /\ \E i \in 1..x : e.key = c.order[i]
    BY DEF Oldest
<1>4. \A k : k \in K <=> \E i \in 1..x : k = c.order[i]
    BY DEF FirstKeys
<1>5. \A k \in K : k \in Key /\ \E e \in O : e.key = k
    BY <1>1, <1>2, <1>3, <1>4
<1>6. \A e \in O : e.key \in K /\ e \in E
    BY <1>3, <1>4
<1>7. \A e \in E : f[e.key] = e.value /\ PinsOfValue[e.value] = e.pins
    BY DEF MapOf
<1> HIDE DEF E, O, K
<1>8. \A v : v \in values <=> \E e \in O : e.value = v
    BY <1>5, <1>6, <1>7 DEF ValuesFor
<1> HIDE DEF values
<1>9. PinnedOf(values) = ValuesIn(PinnedIn(O))
    BY <1>6, <1>7, <1>8 DEF PinnedOf, ValuesIn, PinnedIn
<1>10. FreeOf(values) = ValuesIn(FreeIn(O))
    BY <1>6, <1>7, <1>8 DEF FreeOf, ValuesIn, FreeIn
<1> QED
    BY <1>5, <1>6, <1>9, <1>10 DEF E, O, K, values

\* What is left is what EvictToCapacity() of PinnedCache leaves.
LEMMA MapWithout ==
  ASSUME NEW n, NEW c, NEW x \in 0..c.size, NEW f, NEW g, Books(n, c),
         MapOf(EntriesOf(n, c.hash), f), MapOf(EntriesOf(n, c.hash) \ Oldest(n, c, x), g)
  PROVE  g = [k \in Key |-> IF k \in FirstKeys(c.order, x) THEN None ELSE f[k]]
<1> DEFINE E == EntriesOf(n, c.hash)
           O == Oldest(n, c, x)
           K == FirstKeys(c.order, x)
<1>1. \A k : k \in K <=> \E i \in 1..x : k = c.order[i]
    BY DEF FirstKeys
<1>2. \A e : e \in O <=> e \in E /\ \E i \in 1..x : e.key = c.order[i]
    BY DEF Oldest
<1>3. \A e \in E : e \in O <=> e.key \in K
    BY <1>1, <1>2
<1>4. /\ f \in [Key -> Value \cup {None}] /\ g \in [Key -> Value \cup {None}]
      /\ \A e \in E : f[e.key] = e.value
      /\ \A e \in E \ O : g[e.key] = e.value
      /\ \A k \in Key : (\A e \in E : e.key # k) => f[k] = None
      /\ \A k \in Key : (\A e \in E \ O : e.key # k) => g[k] = None
    BY DEF MapOf
<1> HIDE DEF E, O, K
<1>5. ASSUME NEW k \in Key PROVE g[k] = IF k \in K THEN None ELSE f[k]
  <2>1. CASE \E e \in E \ O : e.key = k
      BY <1>3, <1>4, <2>1
  <2>2. CASE \A e \in E \ O : e.key # k
    <3>1. g[k] = None
        BY <1>4, <2>2
    <3>2. ASSUME k \notin K PROVE f[k] = None
        BY <1>3, <1>4, <2>2, <3>2
    <3> QED
        BY <3>1, <3>2
  <2> QED
      BY <2>1, <2>2
<1>6. g = [k \in Key |-> IF k \in K THEN None ELSE f[k]]
    BY <1>4, <1>5
<1> QED
    BY <1>6 DEF K

\* What EvictToCapacity() does to the table, it does to the map.
LEMMA EvictionRefined ==
  ASSUME NEW n, NEW c, NEW d, NEW limit \in Nat, NEW f,
         Books(n, c), Progress(n, c, d, Excess(c.size, limit)),
         Owned(EntriesOf(n, c.hash), c.evicted, holding, key), PinsOfValue = PinsBy(holding),
         MapOf(EntriesOf(n, c.hash), f), EvictedValues = {e.value : e \in c.evicted},
         MapOf(EntriesOf(n, d.hash), ValueOfKey'), insertion_order' = d.order,
         EvictedValues' = {e.value : e \in d.evicted}, allocated' = d.allocated
  PROVE  Cache!EvictToCapacity(limit, c.order, f, c.allocated)
<1> DEFINE x == Excess(c.size, limit)
           E == EntriesOf(n, c.hash)
           O == Oldest(n, c, x)
           K == FirstKeys(c.order, x)
           values == ValuesFor(f, K)
<1>1. /\ c.order \in Seq(Key) /\ c.size = Len(c.order) /\ c.size \in Nat
      /\ Table(n, c.hash)
    BY DEF Books, Good
<1>2. x \in 0..c.size /\ x = Excess(Len(c.order), limit) /\ x = Cache!Excess(Len(c.order), limit)
    BY <1>1 DEF Excess, Cache!Excess
<1>3. /\ d.order \in Seq(Key) /\ d.size = Len(d.order)
    BY DEF Progress, Books
<1> HIDE DEF x
<1>4. /\ d.size = c.size - x
      /\ \A i \in 1..d.size : d.order[i] = c.order[i + x]
      /\ EntriesOf(n, d.hash) = E \ O
      /\ d.evicted = c.evicted \cup {e \in O : e.pins > 0}
      /\ d.allocated = c.allocated - Cardinality({e \in O : e.pins = 0})
    BY DEF Progress, x
<1>5. d.order = SubSeq(c.order, x + 1, Len(c.order))
  <2> DEFINE rest == SubSeq(c.order, x + 1, Len(c.order))
             o == c.order
  <2>0. o \in Seq(Key) /\ rest = SubSeq(o, Excess(Len(o), limit) + 1, Len(o))
      BY <1>1, <1>2
  <2> HIDE DEF rest, o
  <2>1. /\ rest \in Seq(Key) /\ Len(rest) = Len(o) - Excess(Len(o), limit)
        /\ \A i \in 1..Len(rest) : rest[i] = o[i + Excess(Len(o), limit)]
      BY <2>0, OrderLeft
  <2>2. Len(d.order) = Len(rest) /\ \A i \in 1..Len(d.order) : d.order[i] = rest[i]
      BY <1>1, <1>2, <1>3, <1>4, <2>1 DEF o
  <2>3. d.order = rest
      BY <1>3, <2>1, <2>2, SeqEqual
  <2> QED
      BY <2>3 DEF rest
<1>6. /\ \A e \in E : e.value \in Value /\ PinsOfValue[e.value] = e.pins
      /\ \A e, e2 \in E : e.value = e2.value => e = e2
  <2>1. \A e \in E : e.value \in Value /\ e.pins = Cardinality(HoldersOf(holding, e.value))
      BY DEF Owned, EntryType
  <2>2. \A v \in Value : PinsOfValue[v] = Cardinality(HoldersOf(holding, v))
      BY DEF PinsBy
  <2>3. \A e, e2 \in E : e.value = e2.value => e = e2
      BY DEF Owned
  <2> QED
      BY <2>1, <2>2, <2>3
<1>7. PinnedOf(values) = ValuesIn(PinnedIn(O)) /\ FreeOf(values) = ValuesIn(FreeIn(O))
  <2>1. \A e \in EntriesOf(n, c.hash) : PinsOfValue[e.value] = e.pins
      BY <1>6
  <2>2. x \in 0..c.size
      BY <1>2
  <2> QED
      BY <2>1, <2>2, OldestValues
<1>8. ValueOfKey' = [k \in Key |-> IF k \in K THEN None ELSE f[k]]
  <2> DEFINE g == ValueOfKey'
  <2>1. MapOf(EntriesOf(n, c.hash) \ Oldest(n, c, x), g)
      BY <1>4
  <2> HIDE DEF g
  <2>2. g = [k \in Key |-> IF k \in FirstKeys(c.order, x) THEN None ELSE f[k]]
      BY <1>2, <2>1, MapWithout
  <2> QED
      BY <2>2 DEF g
<1>9. EvictedValues' = EvictedValues \cup {v \in values : PinsOfValue[v] > 0}
  <2> HIDE DEF O, values
  <2> QED
      BY <1>4, <1>7 DEF PinnedOf, ValuesIn, PinnedIn
<1>10. allocated' = c.allocated - Cache!Cardinality({v \in values : PinsOfValue[v] = 0})
  <2> DEFINE Z == {e \in O : e.pins = 0}
  <2>1. O \subseteq E
      BY DEF Oldest
  <2>2. Z \subseteq E /\ IsFiniteSet(E)
      BY <1>1, <2>1, EntriesTyped
  <2>3. IsFiniteSet(Z) /\ \A e, e2 \in Z : e.value = e2.value => e = e2
      BY <1>6, <2>2, FS_Subset
  <2>4. FreeOf(values) = ValuesIn(Z)
      BY <1>7 DEF FreeIn
  <2> HIDE DEF Z, values, O
  <2>5. Cardinality({e.value : e \in Z}) = Cardinality(Z)
      BY <2>3, ValueCount
  <2>6. Cache!Cardinality({v \in values : PinsOfValue[v] = 0}) = Cardinality(Z)
      BY <2>4, <2>5, CacheCardinality DEF FreeOf, ValuesIn
  <2> QED
      BY <1>4, <2>6 DEF Z
<1>11. insertion_order' = SubSeq(c.order, x + 1, Len(c.order))
    BY <1>5
<1>12. K = {c.order[i] : i \in 1..x}
    BY DEF FirstKeys
<1>13. values = {f[k] : k \in K}
    BY DEF ValuesFor
<1> HIDE DEF K, values
<1> QED
    BY <1>13, <1>2, <1>8, <1>9, <1>10, <1>11, <1>12 DEF Cache!EvictToCapacity

-----------------------------------------------------------------------------
(* Each step is a step of PinnedCache.                                     *)

\* Entries make one map only.
LEMMA MapsAgree ==
  ASSUME NEW E, NEW f, NEW g, MapOf(E, f), MapOf(E, g)
  PROVE  f = g
<1>1. \A k \in Key : f[k] = g[k]
  <2> SUFFICES ASSUME NEW k \in Key PROVE f[k] = g[k]
      OBVIOUS
  <2>1. CASE \E e \in E : e.key = k
      BY <2>1 DEF MapOf
  <2>2. CASE \A e \in E : e.key # k
      BY <2>2 DEF MapOf
  <2> QED
      BY <2>1, <2>2
<1>2. f \in [Key -> Value \cup {None}] /\ g \in [Key -> Value \cup {None}]
    BY DEF MapOf
<1> QED
    BY <1>1, <1>2

\* Pins are not part of it.
LEMMA MapRepinned ==
  ASSUME NEW E, NEW e \in E, NEW e2, NEW f, NEW g, e2.key = e.key, e2.value = e.value,
         MapOf(E, f), MapOf((E \ {e}) \cup {e2}, g)
  PROVE  g = f
<1> DEFINE F == (E \ {e}) \cup {e2}
<1>1. MapOf(F, f)
  <2>1. f \in [Key -> Value \cup {None}]
      BY DEF MapOf
  <2>2. \A d \in F : f[d.key] = d.value
      BY DEF MapOf
  <2>3. \A k \in Key : (\A d \in F : d.key # k) => (\A d \in E : d.key # k)
      OBVIOUS
  <2>4. \A k \in Key : (\A d \in F : d.key # k) => f[k] = None
      BY <2>3 DEF MapOf
  <2> HIDE DEF F
  <2> QED
      BY <2>1, <2>2, <2>4 DEF MapOf
<1>2. MapOf(F, g)
    OBVIOUS
<1> HIDE DEF F
<1> QED
    BY <1>1, <1>2, MapsAgree

\* A pin more or less on v.
Pinned(P, v) == [P EXCEPT ![v] = @ + 1]
Unpinned(P, v) == [P EXCEPT ![v] = @ - 1]

\* A lock more or less is a pin more or less.
LEMMA PinsByChange ==
  ASSUME NEW hold \in [Thread -> Value \cup {None}], NEW t \in Thread, NEW v \in Value, NEW h2
  PROVE  /\ hold[t] = None /\ h2 = [hold EXCEPT ![t] = v] => PinsBy(h2) = Pinned(PinsBy(hold), v)
         /\ hold[t] = v /\ h2 = [hold EXCEPT ![t] = None] =>
              PinsBy(h2) = Unpinned(PinsBy(hold), v)
<1> DEFINE P == PinsBy(hold)
<1>1. P \in [Value -> Nat] /\ \A w \in Value : P[w] = Cardinality(HoldersOf(hold, w))
    BY HoldersCount DEF PinsBy
<1>2. ASSUME hold[t] = None, h2 = [hold EXCEPT ![t] = v] PROVE PinsBy(h2) = Pinned(P, v)
  <2>1. /\ Cardinality(HoldersOf(h2, v)) = Cardinality(HoldersOf(hold, v)) + 1
        /\ \A w \in Value : w # v => HoldersOf(h2, w) = HoldersOf(hold, w)
      BY <1>2, HoldersChange
  <2> HIDE DEF P
  <2>2. \A w \in Value : Cardinality(HoldersOf(h2, w)) = Pinned(P, v)[w]
      BY <1>1, <2>1 DEF Pinned
  <2> QED
      BY <1>1, <2>2 DEF PinsBy, Pinned
<1>3. ASSUME hold[t] = v, h2 = [hold EXCEPT ![t] = None] PROVE PinsBy(h2) = Unpinned(P, v)
  <2>1. /\ Cardinality(HoldersOf(h2, v)) = Cardinality(HoldersOf(hold, v)) - 1
        /\ \A w \in Value : w # v => HoldersOf(h2, w) = HoldersOf(hold, w)
      BY <1>3, HoldersChange
  <2> HIDE DEF P
  <2>2. \A w \in Value : Cardinality(HoldersOf(h2, w)) = Unpinned(P, v)[w]
      BY <1>1, <2>1 DEF Unpinned
  <2> QED
      BY <1>1, <2>2 DEF PinsBy, Unpinned
<1> QED
    BY <1>2, <1>3

\* Initial states are initial states of PinnedCache.
LEMMA InitRefined == HashInit => Cache!Init
<1> SUFFICES ASSUME HashInit PROVE Cache!Init
    OBVIOUS
<1>1. HashInv /\ Abstract
    BY HashInvInit, Abstracted
<1>2. capacity \in Capacities /\ capacity \in Nat /\ hash = EmptyHash(capacity) /\ evicted_ = {}
      /\ insertion_order = <<>> /\ allocated = 0
      /\ op = [t \in Thread |-> "none"]
      /\ key = [t \in Thread |-> None]
      /\ holding = [t \in Thread |-> None]
    BY CacheAssumption DEF HashInit
<1>3. MapOf({}, ValueOfKey)
    BY <1>1, <1>2, EmptyTable DEF Abstract
<1>4. ValueOfKey = [k \in Key |-> None]
    BY <1>3 DEF MapOf
<1>5. PinsOfValue = [v \in Value |-> 0]
  <2>1. \A v \in Value : \A t \in Thread : holding[t] # v
      BY <1>2, CacheAssumption
  <2>2. \A v \in Value : Cardinality(HoldersOf(holding, v)) = 0
      BY <2>1, HoldersCount
  <2> QED
      BY <1>1, <2>2 DEF Abstract, PinsBy
<1>6. EvictedValues = {}
    BY <1>2 DEF EvictedValues
<1> QED
    BY <1>2, <1>4, <1>5, <1>6 DEF Cache!Init

\* What no step touches.
LEMMA TableSame ==
  ASSUME UNCHANGED hash
  PROVE  UNCHANGED ValueOfKey
BY DEF ValueOfKey, Lookup, Entries

LEMMA EvictedSame ==
  ASSUME UNCHANGED evicted_
  PROVE  UNCHANGED EvictedValues
BY DEF EvictedValues

\* A call is a call.
LEMMA CallRefined ==
  ASSUME Abstract, Abstract', NEW t \in Thread, NEW o \in {"insert", "lookup"}, NEW k \in Key,
         HashCall(t, o, k)
  PROVE  Cache!Call(t, o, k)
<1>1. UNCHANGED <<capacity, insertion_order, allocated, holding, hash, evicted_>>
    BY DEF HashCall
<1>2. UNCHANGED <<ValueOfKey, EvictedValues, PinsOfValue>>
    BY <1>1, TableSame, EvictedSame DEF Abstract
<1> QED
    BY <1>1, <1>2 DEF HashCall, Idle, Cache!Call, Cache!Idle, Cache!cache

\* What a key stands for.
LEMMA KeyFound ==
  ASSUME HashInv, Abstract, NEW k \in Key
  PROVE  LET n == HashSize(capacity)
             idx == Find(hash, k)
         IN /\ idx \in 0..n - 1
            /\ hash[idx] = None => ValueOfKey[k] = None
            /\ hash[idx] # None => /\ hash[idx] \in EntriesOf(n, hash) /\ hash[idx].key = k
                                   /\ ValueOfKey[k] = hash[idx].value
                                   /\ hash[idx].value \in Value /\ hash[idx].pins \in Nat
                                   /\ ValueOfKey[k] # None
<1> DEFINE n == HashSize(capacity)
           idx == Find(hash, k)
           E == EntriesOf(n, hash)
<1>1. Good(n, hash) /\ E \subseteq EntryType
    BY DEF HashInv, TableInv, Owned
<1>2. \E z \in 0..n - 1 : hash[z] = None
    BY CurrentBooks
<1>3. MapOf(E, ValueOfKey)
    BY DEF Abstract
<1> HIDE DEF n
<1>4. idx \in 0..n - 1 /\ (hash[idx] # None => hash[idx] \in E /\ hash[idx].key = k)
    BY <1>1, <1>2, FoundEntry
<1>5. ASSUME hash[idx] = None PROVE ValueOfKey[k] = None
  <2>1. \A d \in E : d.key # k
      BY <1>1, <1>5, NotFound DEF Found
  <2> QED
      BY <1>3, <2>1 DEF MapOf
<1>6. ASSUME hash[idx] # None
      PROVE  /\ ValueOfKey[k] = hash[idx].value /\ hash[idx].value \in Value
             /\ hash[idx].pins \in Nat /\ ValueOfKey[k] # None
  <2>1. hash[idx].value \in Value /\ hash[idx].pins \in Nat
      BY <1>1, <1>4, <1>6 DEF EntryType
  <2> QED
      BY <1>3, <1>4, <1>6, <2>1, CacheAssumption DEF MapOf
<1> QED
    BY <1>4, <1>5, <1>6 DEF n

\* LookupAndPin() finds what the map has, and pins it.
LEMMA LookupRefined ==
  ASSUME HashInv, Abstract, Abstract', NEW t \in Thread, HashLookupAndPin(t)
  PROVE  Cache!LookupAndPin(t)
<1> DEFINE n == HashSize(capacity)
           k == key[t]
           idx == Find(hash, k)
           E == EntriesOf(n, hash)
<1>1. UNCHANGED <<capacity, insertion_order, allocated, size, evicted_>> /\ op[t] = "lookup"
    BY DEF HashLookupAndPin
<1>2. k \in Key /\ holding[t] = None /\ holding \in [Thread -> Value \cup {None}]
    BY <1>1 DEF HashInv, CallsInOrder, Owned
<1>3. UNCHANGED EvictedValues
    BY <1>1, EvictedSame
<1>4. CASE hash[idx] = None
  <2>1. Return(t) /\ UNCHANGED <<hash, holding>>
      BY <1>4 DEF HashLookupAndPin
  <2>2. UNCHANGED <<ValueOfKey, PinsOfValue>>
      BY <2>1, TableSame DEF Abstract
  <2>3. ValueOfKey[k] = None
      BY <1>2, <1>4, KeyFound
  <2> QED
      BY <1>1, <1>3, <2>1, <2>2, <2>3
      DEF Cache!LookupAndPin, Cache!Return, Return, Cache!cache
<1>5. CASE hash[idx] # None
  <2> DEFINE e == hash[idx]
             p == e.pins + 1
             e2 == Repinned(e, p)
             v == e.value
  <2>1. /\ e \in E /\ e.key = k /\ ValueOfKey[k] = v /\ v \in Value /\ e.pins \in Nat
        /\ ValueOfKey[k] # None /\ idx \in 0..n - 1
      BY <1>2, <1>5, KeyFound
  <2>2. /\ hash' = [hash EXCEPT ![idx].pins = @ + 1]
        /\ holding' = [holding EXCEPT ![t] = v]
        /\ op' = [op EXCEPT ![t] = "none"] /\ key' = key
      BY <1>5 DEF HashLookupAndPin
  <2>3. hash' = Counted(hash, idx, p)
      BY <2>2 DEF Counted, Repinned
  <2>4. e2.key = e.key /\ e2.value = e.value
    <3>1. e \in EntryType
        BY <2>1 DEF HashInv, Owned
    <3> QED
        BY <3>1 DEF Repinned, EntryType
  <2>5. Good(n, hash) /\ p \in Nat
      BY <2>1 DEF HashInv, TableInv
  <2> HIDE DEF p
  <2>6. EntriesOf(n, hash') = (E \ {e}) \cup {e2}
    <3> HIDE DEF n, idx
    <3> QED
        BY <1>5, <2>1, <2>3, <2>5, PinsChanged
  <2> DEFINE g == ValueOfKey'
  <2>7. MapOf(E, ValueOfKey) /\ MapOf((E \ {e}) \cup {e2}, g)
      BY <1>1, <2>6 DEF Abstract
  <2> HIDE DEF g, e2
  <2>8. g = ValueOfKey
    <3> HIDE DEF E, e
    <3> QED
        BY <2>1, <2>4, <2>7, MapRepinned
  <2>9. PinsOfValue' = [PinsOfValue EXCEPT ![v] = @ + 1]
    <3> DEFINE h2 == holding'
    <3>1. v \in Value /\ holding[t] = None /\ holding \in [Thread -> Value \cup {None}]
          /\ h2 = [holding EXCEPT ![t] = v]
        BY <1>2, <2>1, <2>2
    <3> HIDE DEF v, h2
    <3>2. PinsBy(h2) = Pinned(PinsBy(holding), v)
        BY <3>1, PinsByChange
    <3> QED
        BY <3>2 DEF Abstract, Pinned, h2
  <2> HIDE DEF v
  <2> QED
      BY <1>1, <1>3, <2>1, <2>2, <2>8, <2>9 DEF Cache!LookupAndPin, Cache!cache, g
<1> QED
    BY <1>4, <1>5

\* A new key and its value.
LEMMA MapAdded ==
  ASSUME NEW E, NEW e \in EntryType, NEW f, MapOf(E, f), \A d \in E : d.key # e.key,
         E \subseteq EntryType
  PROVE  MapOf(E \cup {e}, [f EXCEPT ![e.key] = e.value])
<1> DEFINE g == [f EXCEPT ![e.key] = e.value]
<1>1. f \in [Key -> Value \cup {None}] /\ e.key \in Key /\ e.value \in Value
    BY DEF MapOf, EntryType
<1>2. g \in [Key -> Value \cup {None}] /\ g[e.key] = e.value
      /\ \A k \in Key : k # e.key => g[k] = f[k]
    BY <1>1
<1> HIDE DEF g
<1>3. \A d \in E : d.key \in Key /\ d.key # e.key
    BY DEF EntryType
<1>4. \A d \in E \cup {e} : g[d.key] = d.value
    BY <1>2, <1>3 DEF MapOf
<1>5. \A k \in Key : (\A d \in E \cup {e} : d.key # k) => g[k] = None
    BY <1>2 DEF MapOf
<1>6. MapOf(E \cup {e}, g)
    BY <1>2, <1>4, <1>5 DEF MapOf
<1> QED
    BY <1>6 DEF g

\* The values that exist.
LEMMA AliveValues ==
  ASSUME HashInv, Abstract
  PROVE  Cache!Alive \subseteq HashAlive
<1>1. \A k \in Key : ValueOfKey[k] # None =>
        \E e \in EntriesOf(HashSize(capacity), hash) : e.value = ValueOfKey[k]
    BY DEF Abstract, MapOf
<1> QED
    BY <1>1, EntriesThere DEF Cache!Alive, Cache!Cached, HashAlive, EvictedValues

\* Insert() adds the key to the map, if it is not there, and evicts the oldest ones.
LEMMA InsertRefined ==
  ASSUME HashInv, Abstract, Abstract', NEW t \in Thread, NEW v \in Value, HashInsert(t, v)
  PROVE  Cache!Insert(t, v)
<1> DEFINE n == HashSize(capacity)
           k == key[t]
           E == EntriesOf(n, hash)
<1>1. op[t] = "insert" /\ v \in Value \ HashAlive /\ Return(t) /\ UNCHANGED <<capacity, holding>>
    BY DEF HashInsert
<1>2. k \in Key /\ capacity \in Nat
    BY <1>1 DEF HashInv, CallsInOrder, TableInv
<1>3. v \in Value \ Cache!Alive
    BY <1>1, AliveValues
<1>4. UNCHANGED PinsOfValue
    BY <1>1 DEF Abstract
<1>5. CASE Found(hash, k)
  <2>1. UNCHANGED <<insertion_order, allocated, hash, evicted_>>
      BY <1>5 DEF HashInsert
  <2>2. UNCHANGED <<ValueOfKey, EvictedValues>>
      BY <2>1, TableSame, EvictedSame
  <2>3. ValueOfKey[k] # None
      BY <1>2, <1>5, KeyFound DEF Found
  <2> QED
      BY <1>1, <1>3, <1>4, <2>1, <2>2, <2>3 DEF Cache!Insert, Cache!Return, Return
<1>6. CASE ~Found(hash, k)
  <2> DEFINE c == Added(k, v)
             d == EvictedToCapacity(capacity, c)
             e == Entry(k, v, 0)
             f == [ValueOfKey EXCEPT ![k] = v]
  <2>1. Becomes(d)
      BY <1>6 DEF HashInsert, Added
  <2>2. /\ Books(n, c) /\ EntriesOf(n, c.hash) = E \cup {e}
        /\ c.evicted = evicted_ /\ c.order = Append(insertion_order, k)
        /\ c.allocated = allocated + 1
        /\ Owned(EntriesOf(n, c.hash), c.evicted, holding, key)
        /\ e \in EntryType /\ e.key = k /\ e.value = v
        /\ \A d2 \in E : d2.key # k
      BY <1>1, <1>2, <1>6, AddedBooks
  <2>3. ValueOfKey[k] = None
      BY <1>2, <1>6, KeyFound DEF Found
  <2>4. MapOf(EntriesOf(n, c.hash), f)
    <3>1. MapOf(E, ValueOfKey) /\ E \subseteq EntryType
        BY DEF Abstract, HashInv, Owned
    <3> HIDE DEF E, e
    <3>2. MapOf(E \cup {e}, [ValueOfKey EXCEPT ![e.key] = e.value])
        BY <2>2, <3>1, MapAdded
    <3> QED
        BY <2>2, <3>2
  <2>5. EvictedValues = {x.value : x \in c.evicted}
      BY <2>2 DEF EvictedValues
  <2> HIDE DEF n, c
  <2>6. Progress(n, c, d, Excess(c.size, capacity))
    <3> HIDE DEF d
    <3> QED
        BY <1>2, <2>2, EvictKeeps DEF d
  <2> HIDE DEF d
  <2>7. /\ insertion_order' = d.order /\ EvictedValues' = {x.value : x \in d.evicted}
        /\ allocated' = d.allocated /\ hash' = d.hash
      BY <2>1 DEF Becomes, EvictedValues
  <2>8. MapOf(EntriesOf(n, d.hash), ValueOfKey')
      BY <1>1, <2>7 DEF Abstract, n
  <2>9. PinsOfValue = PinsBy(holding)
      BY DEF Abstract
  <2> HIDE DEF f
  <2>10. Cache!EvictToCapacity(capacity, c.order, f, c.allocated)
      BY <1>2, <2>2, <2>4, <2>5, <2>6, <2>7, <2>8, <2>9, EvictionRefined
  <2>11. Cache!EvictToCapacity(capacity, Append(insertion_order, k), f, allocated + 1)
      BY <2>2, <2>10
  <2> QED
      BY <1>1, <1>3, <1>4, <2>3, <2>11 DEF Cache!Insert, Cache!Return, Return, f
<1> QED
    BY <1>5, <1>6

\* Clear() evicts all.
LEMMA ClearRefined ==
  ASSUME HashInv, Abstract, Abstract', HashClear
  PROVE  Cache!Clear
<1> DEFINE n == HashSize(capacity)
           c == Current
           d == EvictedToCapacity(0, c)
<1>1. Becomes(d) /\ UNCHANGED <<capacity, op, key, holding>>
    BY DEF HashClear, call
<1>2. /\ Books(n, c) /\ Owned(EntriesOf(n, c.hash), c.evicted, holding, key)
      /\ c.hash = hash /\ c.evicted = evicted_ /\ c.order = insertion_order
      /\ c.allocated = allocated
    BY CurrentBooks, EntriesThere
<1>3. /\ MapOf(EntriesOf(n, c.hash), ValueOfKey) /\ PinsOfValue = PinsBy(holding)
      /\ EvictedValues = {x.value : x \in c.evicted}
    BY <1>2 DEF Abstract, EvictedValues
<1> HIDE DEF n, c
<1>4. Progress(n, c, d, Excess(c.size, 0))
  <2> HIDE DEF d
  <2> QED
      BY <1>2, EvictKeeps DEF d
<1> HIDE DEF d
<1>5. /\ insertion_order' = d.order /\ EvictedValues' = {x.value : x \in d.evicted}
      /\ allocated' = d.allocated /\ hash' = d.hash
    BY <1>1 DEF Becomes, EvictedValues
<1>6. MapOf(EntriesOf(n, d.hash), ValueOfKey')
    BY <1>1, <1>5 DEF Abstract, n
<1>7. Cache!EvictToCapacity(0, c.order, ValueOfKey, c.allocated)
    BY <1>2, <1>3, <1>4, <1>5, <1>6, EvictionRefined
<1>8. UNCHANGED PinsOfValue
    BY <1>1 DEF Abstract
<1> QED
    BY <1>1, <1>2, <1>7, <1>8 DEF Cache!Clear

\* SetCapacity() evicts what is too much; moving the rest to another table is no change.
LEMMA SetCapacityRefined ==
  ASSUME HashInv, Abstract, Abstract', NEW limit \in Capacities, HashSetCapacity(limit)
  PROVE  Cache!SetCapacity(limit)
<1> DEFINE n == HashSize(capacity)
           m == HashSize(limit)
           c == Current
           d == EvictedToCapacity(limit, c)
           g == Rehash(d.hash, limit)
<1>1. /\ Becomes([d EXCEPT !.hash = g]) /\ limit # capacity /\ capacity' = limit
      /\ UNCHANGED <<op, key, holding>> /\ limit \in Nat
    BY CacheAssumption DEF HashSetCapacity, call
<1>2. /\ Books(n, c) /\ Owned(EntriesOf(n, c.hash), c.evicted, holding, key)
      /\ c.hash = hash /\ c.evicted = evicted_ /\ c.order = insertion_order
      /\ c.allocated = allocated
    BY CurrentBooks, EntriesThere
<1>3. /\ MapOf(EntriesOf(n, c.hash), ValueOfKey) /\ PinsOfValue = PinsBy(holding)
      /\ EvictedValues = {x.value : x \in c.evicted}
    BY <1>2 DEF Abstract, EvictedValues
<1>4. limit < m
    BY <1>1, HashSizes
<1> HIDE DEF n, c, m
<1>5. Progress(n, c, d, Excess(c.size, limit)) /\ Books(n, d) /\ d.size <= limit
  <2> HIDE DEF d
  <2> QED
      BY <1>1, <1>2, EvictKeeps DEF d
<1> HIDE DEF d
<1>6. /\ Good(n, d.hash) /\ Keyed(d.order, EntriesOf(n, d.hash)) /\ d.size = Len(d.order)
      /\ d.order \in Seq(Key) /\ d.size \in Nat
      /\ d = [hash |-> d.hash, order |-> d.order, evicted |-> d.evicted,
              allocated |-> d.allocated, size |-> d.size]
    BY <1>5 DEF Books
<1>7. EntriesOf(m, g) = EntriesOf(n, d.hash)
  <2>1. \A e \in EntriesOf(n, d.hash) : \E i \in 1..Len(d.order) : d.order[i] = e.key
      BY <1>6 DEF Keyed
  <2>2. Len(d.order) < m
    <3> DEFINE a == Len(d.order)
    <3>1. a \in Nat /\ a <= limit
        BY <1>5, <1>6
    <3>2. m \in Nat
        BY <1>1, HashSizes DEF m
    <3> HIDE DEF a
    <3>3. a < m
        BY <1>1, <1>4, <3>1, <3>2
    <3> QED
        BY <3>3 DEF a
  <2> QED
      BY <1>1, <1>6, <2>1, <2>2, Rehashed DEF m
<1> HIDE DEF g
<1>8. /\ insertion_order' = d.order /\ EvictedValues' = {x.value : x \in d.evicted}
      /\ allocated' = d.allocated /\ hash' = g
    BY <1>1, <1>6 DEF Becomes, EvictedValues
<1>9. MapOf(EntriesOf(n, d.hash), ValueOfKey')
    BY <1>1, <1>7, <1>8 DEF Abstract, m
<1>10. Cache!EvictToCapacity(limit, c.order, ValueOfKey, c.allocated)
    BY <1>1, <1>2, <1>3, <1>5, <1>8, <1>9, EvictionRefined
<1>11. UNCHANGED PinsOfValue
    BY <1>1 DEF Abstract
<1> QED
    BY <1>1, <1>2, <1>10, <1>11 DEF Cache!SetCapacity

\* The values of evicted entries once one of them is unpinned.
LEMMA EvictedUnpinned ==
  ASSUME NEW A, NEW e \in A, NEW e2, NEW B, e.pins \in Nat, e.pins > 0,
         \A a, b \in A : a.value = b.value => a = b,
         e2.pins = e.pins - 1, e2.value = e.value,
         \A d : d \in B <=> (d \in A /\ d # e) \/ (d = e2 /\ d.pins > 0)
  PROVE  /\ e.pins = 1 => ValuesIn(B) = ValuesIn(A) \ {e.value}
         /\ e.pins # 1 => ValuesIn(B) = ValuesIn(A)
<1>1. ASSUME e.pins = 1 PROVE ValuesIn(B) = ValuesIn(A) \ {e.value}
  <2>1. ~(e2.pins > 0)
      BY <1>1
  <2>2. \A d : d \in B <=> d \in A /\ d # e
      BY <2>1
  <2>3. \A d \in A : d # e <=> d.value # e.value
      OBVIOUS
  <2> QED
      BY <2>2, <2>3 DEF ValuesIn
<1>2. ASSUME e.pins # 1 PROVE ValuesIn(B) = ValuesIn(A)
  <2>1. e2.pins > 0
      BY <1>2
  <2>2. \A d : d \in B <=> (d \in A /\ d # e) \/ d = e2
      BY <2>1
  <2> QED
      BY <2>2 DEF ValuesIn
<1> QED
    BY <1>1, <1>2

\* Unpin() gives up a pin of the very value that the lock holds, also if its key was evicted
\* and inserted anew.
LEMMA UnpinRefined ==
  ASSUME HashInv, Abstract, Abstract', NEW t \in Thread, HashUnpin(t)
  PROVE  Cache!Unpin(t)
<1> DEFINE n == HashSize(capacity)
           E == EntriesOf(n, hash)
           v == holding[t]
<1>1. /\ UNCHANGED <<capacity, insertion_order, size>>
      /\ holding' = [holding EXCEPT ![t] = None] /\ Return(t) /\ v # None
    BY DEF HashUnpin
<1>2. Owned(E, evicted_, holding, key) /\ holding \in [Thread -> Value \cup {None}] /\ v \in Value
      /\ Good(n, hash)
    BY <1>1 DEF HashInv, Owned, TableInv
<1>3. PinsOfValue' = Unpinned(PinsOfValue, v)
  <2> DEFINE h2 == holding'
  <2>1. h2 = [holding EXCEPT ![t] = None]
      BY <1>1
  <2> HIDE DEF h2
  <2>2. PinsBy(h2) = Unpinned(PinsBy(holding), holding[t])
      BY <1>2, <2>1, PinsByChange
  <2> QED
      BY <2>2 DEF Abstract, h2
<1>4. \A e \in E \cup evicted_ : e.value = v => PinsOfValue[v] = e.pins
  <2>1. \A e \in E \cup evicted_ : e.pins = Cardinality(HoldersOf(holding, e.value))
      BY <1>2 DEF Owned
  <2>2. PinsOfValue[v] = Cardinality(HoldersOf(holding, v))
      BY <1>2 DEF Abstract, PinsBy
  <2> QED
      BY <2>1, <2>2
<1>5. ASSUME NEW e \in HeldEvicted(t),
             evicted_' = (evicted_ \ {e}) \cup {d \in {[e EXCEPT !.pins = @ - 1]} : d.pins > 0},
             allocated' = IF e.pins = 1 THEN allocated - 1 ELSE allocated,
             hash' = hash
      PROVE  Cache!Unpin(t)
  <2>1. e \in evicted_ /\ e.value = v /\ e.pins > 0
      BY <1>1, HeldEntry
  <2>2. v \in EvictedValues /\ PinsOfValue[v] = e.pins
      BY <1>4, <2>1 DEF EvictedValues
  <2>3. EvictedValues' = IF e.pins = 1 THEN EvictedValues \ {v} ELSE EvictedValues
    <3> DEFINE B == evicted_'
               e2 == [e EXCEPT !.pins = @ - 1]
    <3>1. B = (evicted_ \ {e}) \cup {d \in {e2} : d.pins > 0}
        BY <1>5
    <3>2. \A a, b \in evicted_ : a.value = b.value => a = b
        BY <1>2 DEF Owned
    <3>3. e \in EntryType
        BY <1>2, <2>1 DEF Owned
    <3>4. e.pins \in Nat /\ e2.pins = e.pins - 1 /\ e2.value = e.value
        BY <3>3 DEF EntryType
    <3> HIDE DEF B, e2, v
    <3>5. \A d : d \in B <=> (d \in evicted_ /\ d # e) \/ (d = e2 /\ d.pins > 0)
        BY <3>1
    <3>6. /\ e.pins = 1 => ValuesIn(B) = ValuesIn(evicted_) \ {e.value}
          /\ e.pins # 1 => ValuesIn(B) = ValuesIn(evicted_)
        BY <2>1, <3>2, <3>4, <3>5, EvictedUnpinned
    <3>7. EvictedValues = ValuesIn(evicted_) /\ EvictedValues' = ValuesIn(B)
        BY DEF EvictedValues, ValuesIn, B
    <3> QED
        BY <2>1, <3>6, <3>7
  <2>4. UNCHANGED ValueOfKey
      BY <1>5, TableSame
  <2>5. PinsOfValue[v] = 1 <=> e.pins = 1
      BY <2>2
  <2> HIDE DEF v
  <2>6. IF v \in EvictedValues /\ PinsOfValue[v] = 1
        THEN EvictedValues' = EvictedValues \ {v} /\ allocated' = allocated - 1
        ELSE UNCHANGED <<EvictedValues, allocated>>
    <3>1. CASE e.pins = 1
        BY <1>5, <2>2, <2>3, <2>5, <3>1
    <3>2. CASE e.pins # 1
        BY <1>5, <2>2, <2>3, <2>5, <3>2
    <3> QED
        BY <3>1, <3>2
  <2> QED
      BY <1>1, <1>3, <2>4, <2>6 DEF Cache!Unpin, Cache!Return, Return, Unpinned, v
<1>6. ASSUME HeldEvicted(t) = {}, hash' = [hash EXCEPT ![Find(hash, key[t])].pins = @ - 1],
             UNCHANGED <<evicted_, allocated>>
      PROVE  Cache!Unpin(t)
  <2> DEFINE idx == Find(hash, key[t])
             e == hash[idx]
             p == e.pins - 1
             e2 == Repinned(e, p)
             g == ValueOfKey'
  <2>1. /\ idx \in 0..n - 1 /\ e \in E /\ e # None /\ e \in EntryType
        /\ e.value = v /\ e.pins > 0
      BY <1>1, <1>6, HeldEntry
  <2>2. p \in Nat /\ hash' = Counted(hash, idx, p) /\ e2.key = e.key /\ e2.value = e.value
      BY <1>6, <2>1 DEF Counted, EntryType, Repinned
  <2>3. EntriesOf(n, hash') = (E \ {e}) \cup {e2}
    <3> HIDE DEF n, idx, p
    <3> QED
        BY <1>2, <2>1, <2>2, PinsChanged
  <2>4. MapOf(E, ValueOfKey) /\ MapOf((E \ {e}) \cup {e2}, g)
      BY <1>1, <2>3 DEF Abstract
  <2>5. g = ValueOfKey
    <3> HIDE DEF E, e, e2, g
    <3> QED
        BY <2>1, <2>2, <2>4, MapRepinned
  <2>6. v \notin EvictedValues
    <3> SUFFICES ASSUME NEW a \in evicted_, a.value = v PROVE FALSE
        BY DEF EvictedValues
    <3>1. a = e
        BY <1>2, <2>1 DEF Owned
    <3> QED
        BY <1>2, <2>1, <3>1 DEF Owned
  <2>7. UNCHANGED EvictedValues
      BY <1>6, EvictedSame
  <2> HIDE DEF v
  <2> QED
      BY <1>1, <1>3, <1>6, <2>5, <2>6, <2>7 DEF Cache!Unpin, Cache!Return, Return, Unpinned, v, g
<1> QED
  <2>1. CASE \E e \in HeldEvicted(t) :
               /\ evicted_' = (evicted_ \ {e}) \cup {d \in {[e EXCEPT !.pins = @ - 1]} : d.pins > 0}
               /\ allocated' = IF e.pins = 1 THEN allocated - 1 ELSE allocated
               /\ UNCHANGED hash
      BY <1>5, <2>1
  <2>2. CASE /\ HeldEvicted(t) = {}
             /\ hash' = [hash EXCEPT ![Find(hash, key[t])].pins = @ - 1]
             /\ UNCHANGED <<evicted_, allocated>>
      BY <1>6, <2>2
  <2> QED
      BY <2>1, <2>2 DEF HashUnpin

\* Every step maps to a step or to a stutter.
LEMMA StepRefined ==
  HashInv /\ Abstract /\ Abstract' /\ [HashNext]_hash_vars => [Cache!Next]_(Cache!vars)
<1> SUFFICES ASSUME HashInv, Abstract, Abstract', [HashNext]_hash_vars
             PROVE  [Cache!Next]_(Cache!vars)
    OBVIOUS
<1>1. CASE UNCHANGED hash_vars
  <2>1. /\ UNCHANGED <<capacity, insertion_order, allocated, op, key, holding>>
        /\ UNCHANGED hash /\ UNCHANGED evicted_
      BY <1>1 DEF hash_vars
  <2>2. UNCHANGED <<ValueOfKey, EvictedValues, PinsOfValue>>
      BY <2>1, TableSame, EvictedSame DEF Abstract
  <2> QED
      BY <2>1, <2>2 DEF Cache!vars, Cache!cache
<1>2. ASSUME NEW t \in Thread, HashThreadStep(t) PROVE Cache!ThreadStep(t)
    BY <1>2, CallRefined, InsertRefined, LookupRefined, UnpinRefined
    DEF HashThreadStep, Cache!ThreadStep
<1>3. ASSUME NEW c \in Capacities, HashSetCapacity(c) PROVE Cache!SetCapacity(c)
    BY <1>3, SetCapacityRefined
<1>4. CASE HashClear
    BY <1>4, ClearRefined DEF Cache!Next
<1> QED
    BY <1>1, <1>2, <1>3, <1>4 DEF HashNext, Cache!Next

\* The hash table keeps every promise of PinnedCache, for all keys, capacities and threads:
\* Insert(), LookupAndPin(), Unpin(), SetCapacity() and Clear() do what they would do on a
\* plain map in the order of insertion.
THEOREM HashRefined == HashSpec => ImplementsPinnedCache
<1>1. HashInit => Cache!Init
    BY InitRefined
<1>2. HashInv => Abstract
    BY Abstracted
<1>3. HashInv /\ Abstract /\ Abstract' /\ [HashNext]_hash_vars => [Cache!Next]_(Cache!vars)
    BY StepRefined
<1> QED
    BY <1>1, <1>2, <1>3, HashInvariant, PTL DEF HashSpec, ImplementsPinnedCache, Cache!Spec
==============================================================================
