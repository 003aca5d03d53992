--------------------------- MODULE SearchTreeProofs ---------------------------
(***************************************************************************)
(* Proofs about SearchTree, for every tree of positions and any number of  *)
(* workers. Sums over parts of the tree are recursive functions, for which *)
(* the first two sections prove the laws that the rest uses.               *)
(***************************************************************************)
EXTENDS SearchTree, Integers, FiniteSetTheorems, TLAPS

-----------------------------------------------------------------------------
(* Sums.                                                                   *)

\* Induction over finite sets: a family of subsets has a smallest member.
LEMMA SmallestSubset ==
  ASSUME NEW S, IsFiniteSet(S), NEW F, F \subseteq SUBSET S, F # {}
  PROVE  \E T \in F : \A U \in SUBSET T : U # T => U \notin F
<1>1. IsWellFoundedOn(StrictSubsetOrdering(S), SUBSET S)
    BY FS_StrictSubsetOrderingWellFounded, FS_FiniteSubsetsOfFinite
<1>2. PICK T \in F : \A U \in F : ~(<<U, T>> \in StrictSubsetOrdering(S))
    BY <1>1, WFMin
<1>3. ASSUME NEW U \in SUBSET T, U # T, U \in F PROVE FALSE
  <2>1. <<U, T>> \in StrictSubsetOrdering(S)
      BY <1>3 DEF StrictSubsetOrdering
  <2> QED
      BY <1>2, <1>3, <2>1
<1> QED
    BY <1>3

First(s) == CHOOSE x \in s : TRUE
Sums(f, S, g) ==
  g = [s \in SUBSET S |-> IF s = {} THEN 0 ELSE f[First(s)] + g[s \ {First(s)}]]

\* The sum of the community modules is such a function, applied to the whole set.
LEMMA SumIsChosen ==
  ASSUME NEW f, NEW S
  PROVE  SumFunctionOnSet(f, S) = (CHOOSE g : Sums(f, S, g))[S]
BY DEF SumFunctionOnSet, FoldFunctionOnSet, MapThenFoldSet, Sums, First

\* Two solutions of the recursive equation agree where both are defined.
LEMMA SumsAgree ==
  ASSUME NEW f, NEW S, NEW T, IsFiniteSet(S), NEW g, NEW h, Sums(f, S, g), Sums(f, T, h),
         NEW U \in SUBSET (S \cap T)
  PROVE  g[U] = h[U]
<1> DEFINE F == {V \in SUBSET S : V \subseteq T /\ g[V] # h[V]}
<1>1. SUFFICES F = {}
    OBVIOUS
<1>2. SUFFICES ASSUME F # {} PROVE FALSE
    OBVIOUS
<1>3. PICK V \in F : \A W \in SUBSET V : W # V => W \notin F
  <2>1. F \subseteq SUBSET S
      OBVIOUS
  <2> HIDE DEF F
  <2> QED
      BY <1>2, <2>1, SmallestSubset
<1>4. V \in SUBSET S /\ V \in SUBSET T /\ g[V] # h[V]
    OBVIOUS
<1>5. /\ g[V] = IF V = {} THEN 0 ELSE f[First(V)] + g[V \ {First(V)}]
      /\ h[V] = IF V = {} THEN 0 ELSE f[First(V)] + h[V \ {First(V)}]
    BY <1>4 DEF Sums
<1>6. V # {} => First(V) \in V
    BY DEF First
<1>7. V # {} => g[V \ {First(V)}] = h[V \ {First(V)}]
  <2>1. V # {} => V \ {First(V)} \in SUBSET V /\ V \ {First(V)} # V
      BY <1>6
  <2>2. V # {} => V \ {First(V)} \notin F
      BY <1>3, <2>1
  <2>3. V \ {First(V)} \in SUBSET S /\ V \ {First(V)} \in SUBSET T
      BY <1>4
  <2> QED
      BY <2>2, <2>3
<1> QED
    BY <1>4, <1>5, <1>7

\* The recursive equation has a solution on every finite set.
LEMMA SumsExist ==
  ASSUME NEW f, NEW S, IsFiniteSet(S)
  PROVE  \E g : Sums(f, S, g)
<1> DEFINE F == {T \in SUBSET S : ~ \E g : Sums(f, T, g)}
<1>1. SUFFICES ASSUME F # {} PROVE FALSE
    OBVIOUS
<1>2. PICK T \in F : \A U \in SUBSET T : U # T => U \notin F
  <2>1. F \subseteq SUBSET S
      OBVIOUS
  <2> HIDE DEF F
  <2> QED
      BY <1>1, <2>1, SmallestSubset
<1> DEFINE sum(U) == (CHOOSE g : Sums(f, U, g))[U]
           g == [s \in SUBSET T |-> IF s = {} THEN 0 ELSE f[First(s)] + sum(s \ {First(s)})]
<1>3. ASSUME NEW U \in SUBSET T, U # T
      PROVE  Sums(f, U, CHOOSE h : Sums(f, U, h)) /\ IsFiniteSet(U)
  <2>1. U \in SUBSET S /\ U \notin F
      BY <1>2, <1>3
  <2>2. \E h : Sums(f, U, h)
      BY <2>1
  <2> QED
      BY <2>1, <2>2, FS_Subset
<1>4. ASSUME NEW U \in SUBSET T, U # T
      PROVE  sum(U) = IF U = {} THEN 0 ELSE f[First(U)] + sum(U \ {First(U)})
  <2> DEFINE V == U \ {First(U)}
             gU == CHOOSE h : Sums(f, U, h)
             gV == CHOOSE h : Sums(f, V, h)
  <2>1. U # {} => First(U) \in U
      BY DEF First
  <2>2. Sums(f, U, gU) /\ IsFiniteSet(U)
      BY <1>3, <1>4
  <2>3. V \in SUBSET T /\ V # T /\ V \in SUBSET U
      BY <1>4
  <2>4. Sums(f, V, gV)
      BY <1>3, <2>3
  <2> HIDE DEF gU, gV
  <2>5. gU[V] = gV[V]
    <3>1. V \in SUBSET (U \cap V)
        OBVIOUS
    <3> HIDE DEF V
    <3> QED
        BY <2>2, <2>4, <3>1, SumsAgree
  <2>6. gU[U] = IF U = {} THEN 0 ELSE f[First(U)] + gU[V]
      BY <2>2 DEF Sums
  <2> QED
      BY <2>5, <2>6 DEF gU, gV
<1>5. Sums(f, T, g)
  <2>1. ASSUME NEW s \in SUBSET T, s # {}
        PROVE  g[s \ {First(s)}] = sum(s \ {First(s)})
    <3>1. First(s) \in s
        BY <2>1 DEF First
    <3>2. s \ {First(s)} \in SUBSET T /\ s \ {First(s)} # T
        BY <3>1
    <3> DEFINE u == s \ {First(s)}
    <3>3. g[u] = IF u = {} THEN 0 ELSE f[First(u)] + sum(u \ {First(u)})
        BY <3>2
    <3> HIDE DEF sum, g
    <3> QED
        BY <1>4, <3>2, <3>3
  <2> HIDE DEF sum
  <2>2. g = [s \in SUBSET T |-> IF s = {} THEN 0 ELSE f[First(s)] + g[s \ {First(s)}]]
      BY <2>1
  <2> QED
      BY <2>2 DEF Sums
<1> QED
    BY <1>5

\* So a sum can be unfolded.
LEMMA SumUnfolds ==
  ASSUME NEW f, NEW S, IsFiniteSet(S)
  PROVE  SumFunctionOnSet(f, S) =
           IF S = {} THEN 0
           ELSE f[First(S)] + SumFunctionOnSet(f, S \ {First(S)})
<1> DEFINE T == S \ {First(S)}
           g == CHOOSE h : Sums(f, S, h)
           k == CHOOSE h : Sums(f, T, h)
<1>1. Sums(f, S, g)
    BY SumsExist
<1>2. IsFiniteSet(T)
    BY FS_Subset
<1>3. Sums(f, T, k)
    BY <1>2, SumsExist
<1>4. g[S] = SumFunctionOnSet(f, S) /\ k[T] = SumFunctionOnSet(f, T)
    BY SumIsChosen
<1> HIDE DEF g, k
<1>5. g[T] = k[T]
    BY <1>1, <1>3, SumsAgree
<1>6. g[S] = IF S = {} THEN 0 ELSE f[First(S)] + g[T]
    BY <1>1 DEF Sums
<1> QED
    BY <1>4, <1>5, <1>6

\* The laws of sums that the rest uses: the empty sum, ...
LEMMA SumOfNothing == ASSUME NEW f PROVE SumFunctionOnSet(f, {}) = 0
<1> QED
    BY SumUnfolds, FS_EmptySet

\* ... the sum of integers, ...
LEMMA SumIsInt ==
  ASSUME NEW f, NEW S, IsFiniteSet(S), \A x \in S : f[x] \in Int
  PROVE  SumFunctionOnSet(f, S) \in Int
<1> DEFINE F == {T \in SUBSET S : SumFunctionOnSet(f, T) \notin Int}
<1>1. SUFFICES ASSUME F # {} PROVE FALSE
    OBVIOUS
<1>2. PICK T \in F : \A U \in SUBSET T : U # T => U \notin F
  <2>1. F \subseteq SUBSET S
      OBVIOUS
  <2> HIDE DEF F
  <2> QED
      BY <1>1, <2>1, SmallestSubset
<1>3. IsFiniteSet(T)
    BY FS_Subset
<1>4. SumFunctionOnSet(f, T) =
        IF T = {} THEN 0 ELSE f[First(T)] + SumFunctionOnSet(f, T \ {First(T)})
    BY <1>3, SumUnfolds
<1>5. T # {} => First(T) \in T
    BY DEF First
<1>6. T # {} => SumFunctionOnSet(f, T \ {First(T)}) \in Int
    BY <1>2, <1>5
<1> QED
    BY <1>4, <1>5, <1>6

\* ... a summand taken out, whichever it is.
LEMMA SumTakes ==
  ASSUME NEW f, NEW S, IsFiniteSet(S), \A x \in S : f[x] \in Int, NEW x \in S
  PROVE  SumFunctionOnSet(f, S) = f[x] + SumFunctionOnSet(f, S \ {x})
<1> DEFINE Sum(T) == SumFunctionOnSet(f, T)
           F == {T \in SUBSET S : \E y \in T : Sum(T) # f[y] + Sum(T \ {y})}
<1>1. SUFFICES ASSUME F # {} PROVE FALSE
    OBVIOUS
<1>2. PICK T \in F : \A U \in SUBSET T : U # T => U \notin F
  <2>1. F \subseteq SUBSET S
      OBVIOUS
  <2> HIDE DEF F
  <2> QED
      BY <1>1, <2>1, SmallestSubset
<1>3. PICK y \in T : Sum(T) # f[y] + Sum(T \ {y})
    OBVIOUS
<1> DEFINE z == First(T)
<1>4. z \in T /\ T \in SUBSET S
    BY DEF First
<1>5. Sum(T) = f[z] + Sum(T \ {z})
    BY <1>4, SumUnfolds, FS_Subset
<1> HIDE DEF z
<1>6. z # y
    BY <1>3, <1>5
<1> DEFINE A == T \ {z}
           B == T \ {y}
<1>7. A \in SUBSET T /\ A # T /\ B \in SUBSET T /\ B # T /\ y \in A /\ z \in B
    BY <1>4, <1>6
<1>8. A \ {y} = B \ {z}
    OBVIOUS
<1>9. A \in SUBSET S /\ B \in SUBSET S /\ A \notin F /\ B \notin F
    BY <1>2, <1>4, <1>7
<1> HIDE DEF A, B
<1>10. Sum(A) = f[y] + Sum(A \ {y}) /\ Sum(B) = f[z] + Sum(B \ {z})
    BY <1>7, <1>9
<1>11. f[y] \in Int /\ f[z] \in Int /\ Sum(A \ {y}) \in Int
  <2>1. A \ {y} \in SUBSET S
      BY <1>9
  <2>2. IsFiniteSet(A \ {y})
      BY <2>1, FS_Subset
  <2>3. Sum(A \ {y}) \in Int
      BY <2>1, <2>2, SumIsInt
  <2> QED
      BY <1>4, <2>3
<1>12. Sum(T) = f[z] + Sum(A) /\ Sum(T) # f[y] + Sum(B)
    BY <1>3, <1>5 DEF A, B
<1>13. Sum(A \ {y}) = Sum(B \ {z})
    BY <1>8
<1> HIDE DEF Sum
<1> QED
    BY <1>10, <1>11, <1>12, <1>13

\* Sums are additive.
LEMMA SumAdds ==
  ASSUME NEW f, NEW g, NEW h, NEW S, IsFiniteSet(S),
         \A x \in S : f[x] \in Int /\ g[x] \in Int /\ h[x] = f[x] + g[x]
  PROVE  SumFunctionOnSet(h, S) = SumFunctionOnSet(f, S) + SumFunctionOnSet(g, S)
<1> DEFINE Sum(k, T) == SumFunctionOnSet(k, T)
           F == {T \in SUBSET S : Sum(h, T) # Sum(f, T) + Sum(g, T)}
<1>1. SUFFICES ASSUME F # {} PROVE FALSE
    OBVIOUS
<1>2. PICK T \in F : \A U \in SUBSET T : U # T => U \notin F
  <2>1. F \subseteq SUBSET S
      OBVIOUS
  <2> HIDE DEF F
  <2> QED
      BY <1>1, <2>1, SmallestSubset
<1>3. IsFiniteSet(T) /\ T \in SUBSET S /\ Sum(h, T) # Sum(f, T) + Sum(g, T)
    BY FS_Subset
<1>4. T # {}
    BY <1>3, SumOfNothing
<1>5. PICK x \in T : TRUE
    BY <1>4
<1> DEFINE U == T \ {x}
<1>6. U \in SUBSET T /\ U # T /\ U \in SUBSET S /\ IsFiniteSet(U)
    BY <1>3, <1>5, FS_Subset
<1>7. /\ Sum(f, T) = f[x] + Sum(f, U) /\ Sum(g, T) = g[x] + Sum(g, U)
      /\ Sum(h, T) = h[x] + Sum(h, U)
    BY <1>3, SumTakes
<1>8. Sum(f, U) \in Int /\ Sum(g, U) \in Int
    BY <1>6, SumIsInt
<1>9. Sum(h, U) = Sum(f, U) + Sum(g, U)
    BY <1>2, <1>6
<1>10. f[x] \in Int /\ g[x] \in Int /\ h[x] = f[x] + g[x]
    BY <1>3
<1> HIDE DEF Sum, U
<1> QED
    BY <1>3, <1>7, <1>8, <1>9, <1>10

\* Nothing adds up to nothing.
LEMMA SumOfZeros ==
  ASSUME NEW f, NEW S, IsFiniteSet(S), \A x \in S : f[x] = 0
  PROVE  SumFunctionOnSet(f, S) = 0
<1>1. \A x \in S : f[x] \in Int /\ f[x] = f[x] + f[x]
    OBVIOUS
<1>2. SumFunctionOnSet(f, S) = SumFunctionOnSet(f, S) + SumFunctionOnSet(f, S)
    BY <1>1, SumAdds
<1> QED
    BY <1>1, <1>2, SumIsInt

\* A sum depends on the values only.
LEMMA SumSame ==
  ASSUME NEW f, NEW g, NEW S, IsFiniteSet(S), \A x \in S : f[x] \in Int /\ g[x] = f[x]
  PROVE  SumFunctionOnSet(g, S) = SumFunctionOnSet(f, S)
<1> DEFINE zero == [x \in S |-> 0]
<1>1. \A x \in S : f[x] \in Int /\ zero[x] \in Int /\ g[x] = f[x] + zero[x]
    OBVIOUS
<1>2. SumFunctionOnSet(zero, S) = 0
    BY SumOfZeros
<1>3. SumFunctionOnSet(g, S) = SumFunctionOnSet(f, S) + SumFunctionOnSet(zero, S)
    BY <1>1, SumAdds
<1> QED
    BY <1>2, <1>3, SumIsInt

\* The sum over two disjoint sets.
LEMMA SumSplits ==
  ASSUME NEW f, NEW S, NEW T, IsFiniteSet(S), IsFiniteSet(T), S \cap T = {},
         \A x \in S \cup T : f[x] \in Int
  PROVE  SumFunctionOnSet(f, S \cup T) = SumFunctionOnSet(f, S) + SumFunctionOnSet(f, T)
<1> DEFINE Sum(U) == SumFunctionOnSet(f, U)
           F == {U \in SUBSET S : Sum(U \cup T) # Sum(U) + Sum(T)}
<1>1. SUFFICES ASSUME F # {} PROVE FALSE
    OBVIOUS
<1>2. PICK U \in F : \A V \in SUBSET U : V # U => V \notin F
  <2>1. F \subseteq SUBSET S
      OBVIOUS
  <2> HIDE DEF F
  <2> QED
      BY <1>1, <2>1, SmallestSubset
<1>3. U \in SUBSET S /\ Sum(U \cup T) # Sum(U) + Sum(T)
    OBVIOUS
<1>4. Sum(T) \in Int
    BY SumIsInt
<1>5. U # {}
  <2> SUFFICES ASSUME U = {} PROVE FALSE
      OBVIOUS
  <2>1. U \cup T = T
      OBVIOUS
  <2>2. Sum(U \cup T) = Sum(T) /\ Sum(U) = 0
      BY <2>1, SumOfNothing
  <2> HIDE DEF Sum
  <2> QED
      BY <1>3, <1>4, <2>2
<1>6. PICK x \in U : TRUE
    BY <1>5
<1> DEFINE V == U \ {x}
<1>7. V \in SUBSET U /\ V # U /\ V \in SUBSET S /\ (U \cup T) \ {x} = V \cup T
    BY <1>3, <1>6
<1>8. IsFiniteSet(U) /\ IsFiniteSet(V) /\ IsFiniteSet(U \cup T)
    BY <1>3, <1>7, FS_Subset, FS_Union
<1>9. Sum(U) = f[x] + Sum(V)
    BY <1>3, <1>8, SumTakes
<1>10. Sum(U \cup T) = f[x] + Sum(V \cup T)
  <2>1. x \in U \cup T /\ \A y \in U \cup T : f[y] \in Int
      BY <1>3
  <2>2. Sum(U \cup T) = f[x] + Sum((U \cup T) \ {x})
      BY <1>8, <2>1, SumTakes
  <2> QED
      BY <1>7, <2>2
<1>11. Sum(V \cup T) = Sum(V) + Sum(T)
    BY <1>2, <1>7
<1>12. Sum(V) \in Int /\ f[x] \in Int
    BY <1>3, <1>7, <1>8, SumIsInt
<1> HIDE DEF Sum, V
<1> QED
    BY <1>3, <1>4, <1>9, <1>10, <1>11, <1>12

\* A sum of natural numbers bounds each of them.
LEMMA SumIsNat ==
  ASSUME NEW f, NEW S, IsFiniteSet(S), \A x \in S : f[x] \in Nat
  PROVE  /\ SumFunctionOnSet(f, S) \in Nat
         /\ \A x \in S : f[x] <= SumFunctionOnSet(f, S)
<1> DEFINE Sum(U) == SumFunctionOnSet(f, U)
           F == {U \in SUBSET S : Sum(U) \notin Nat}
<1>1. F = {}
  <2> SUFFICES ASSUME F # {} PROVE FALSE
      OBVIOUS
  <2>2. PICK U \in F : \A V \in SUBSET U : V # U => V \notin F
    <3>1. F \subseteq SUBSET S
        OBVIOUS
    <3> HIDE DEF F
    <3> QED
        BY <3>1, SmallestSubset
  <2>3. U \in SUBSET S /\ Sum(U) \notin Nat /\ IsFiniteSet(U)
      BY FS_Subset
  <2>4. PICK x \in U : TRUE
      BY <2>3, SumOfNothing
  <2> DEFINE V == U \ {x}
  <2>5. V \in SUBSET U /\ V # U /\ V \in SUBSET S
      BY <2>3
  <2>6. Sum(V) \in Nat
      BY <2>2, <2>5
  <2>7. Sum(U) = f[x] + Sum(V) /\ f[x] \in Nat
      BY <2>3, SumTakes
  <2> HIDE DEF Sum, V
  <2> QED
      BY <2>3, <2>6, <2>7
<1>2. ASSUME NEW x \in S PROVE f[x] <= Sum(S)
  <2>1. Sum(S) = f[x] + Sum(S \ {x}) /\ f[x] \in Nat
      BY SumTakes
  <2>2. S \ {x} \in SUBSET S
      OBVIOUS
  <2>3. Sum(S \ {x}) \in Nat
      BY <1>1, <2>2
  <2> HIDE DEF Sum
  <2> QED
      BY <2>1, <2>3
<1>3. Sum(S) \in Nat
    BY <1>1
<1> QED
    BY <1>2, <1>3

\* If f is changed at one place only, so is its sum.
LEMMA SumChanges ==
  ASSUME NEW f, NEW g, NEW S, NEW x, IsFiniteSet(S),
         \A y \in S : f[y] \in Int /\ g[y] \in Int,
         \A y \in S : y # x => g[y] = f[y]
  PROVE  /\ x \notin S => SumFunctionOnSet(g, S) = SumFunctionOnSet(f, S)
         /\ x \in S => SumFunctionOnSet(g, S) = SumFunctionOnSet(f, S) + (g[x] - f[x])
<1>1. CASE x \notin S
    BY <1>1, SumSame
<1>2. CASE x \in S
  <2>1. SumFunctionOnSet(f, S) = f[x] + SumFunctionOnSet(f, S \ {x})
      BY <1>2, SumTakes
  <2>2. SumFunctionOnSet(g, S) = g[x] + SumFunctionOnSet(g, S \ {x})
      BY <1>2, SumTakes
  <2>3. IsFiniteSet(S \ {x})
      BY FS_Subset
  <2>4. SumFunctionOnSet(g, S \ {x}) = SumFunctionOnSet(f, S \ {x})
      BY <2>3, SumSame
  <2>5. SumFunctionOnSet(f, S \ {x}) \in Int
      BY <2>3, SumIsInt
  <2> QED
      BY <1>2, <2>1, <2>2, <2>4, <2>5
<1> QED
    BY <1>1, <1>2


-----------------------------------------------------------------------------
(* Paths.                                                                  *)

\* Induction over the tree: a set of nodes that is not empty has a topmost one.
LEMMA TopmostNode ==
  ASSUME NEW S \in SUBSET Node, S # {}
  PROVE  \E x \in S : x = Root \/ (x \in Node \ {Root} /\ Parent[x] \in Node \ S)
<1>1. CASE Root \in S
    BY <1>1
<1>2. CASE Root \notin S
  <2>1. S \in SUBSET (Node \ {Root})
      BY <1>2
  <2>2. PICK x \in S : Parent[x] \notin S
      BY <2>1, SearchTreeAssumption
  <2> QED
      BY <2>1, <2>2, SearchTreeAssumption
<1> QED
    BY <1>1, <1>2

\* Parents are nodes.
LEMMA ParentType == \A x \in Node \ {Root} : Parent[x] \in Node
BY SearchTreeAssumption

\* The recursive definition of Path has a solution: the least sets closed under Parent.
LEMMA PathUnfolds ==
  Path = [x \in Node |-> IF x = Root THEN {Root} ELSE {x} \cup Path[Parent[x]]]
<1> DEFINE Closed(A) == \A z \in A \ {Root} : Parent[z] \in A
           Up(x) == {y \in Node : \A A \in SUBSET Node : x \in A /\ Closed(A) => y \in A}
           up == [x \in Node |-> Up(x)]
<1>1. ASSUME NEW x \in Node
      PROVE  Up(x) = IF x = Root THEN {Root} ELSE {x} \cup Up(Parent[x])
  <2>1. CASE x = Root
    <3>1. {Root} \in SUBSET Node /\ Closed({Root})
        BY SearchTreeAssumption
    <3> QED
        BY <2>1, <3>1
  <2>2. CASE x # Root
    <3>0. Parent[x] \in Node
        BY <2>2, ParentType
    <3>1. ASSUME NEW y \in Up(Parent[x]) PROVE y \in Up(x)
      <4>1. ASSUME NEW A \in SUBSET Node, x \in A, Closed(A) PROVE y \in A
        <5>1. Parent[x] \in A
            BY <2>2, <4>1
        <5> QED
            BY <4>1, <5>1
      <4> QED
          BY <4>1
    <3>2. ASSUME NEW y \in Up(x), y # x PROVE y \in Up(Parent[x])
      <4>1. ASSUME NEW A \in SUBSET Node, Parent[x] \in A, Closed(A) PROVE y \in A
        <5>1. A \cup {x} \in SUBSET Node /\ x \in A \cup {x}
            OBVIOUS
        <5>2. Closed(A \cup {x})
            BY <4>1
        <5>3. y \in A \cup {x}
            BY <5>1, <5>2
        <5> QED
            BY <3>2, <5>3
      <4> QED
          BY <4>1
    <3>3. x \in Up(x)
        OBVIOUS
    <3> HIDE DEF Up
    <3> QED
        BY <2>2, <3>1, <3>2, <3>3
  <2> QED
      BY <2>1, <2>2
<1> HIDE DEF Up
<1>2. up = [x \in Node |-> IF x = Root THEN {Root} ELSE {x} \cup up[Parent[x]]]
  <2>1. \A x \in Node : x # Root => Parent[x] \in Node
      BY ParentType
  <2>2. \A x \in Node : up[x] = IF x = Root THEN {Root} ELSE {x} \cup up[Parent[x]]
      BY <1>1, <2>1
  <2> QED
      BY <2>2
<1> HIDE DEF up
<1> QED
    BY <1>2 DEF Path

\* A path, one node at a time.
LEMMA PathStep ==
  /\ Path[Root] = {Root}
  /\ \A x \in Node \ {Root} : Path[x] = {x} \cup Path[Parent[x]]
BY PathUnfolds, SearchTreeAssumption

\* A path starts at its node and is closed under Parent.
LEMMA PathInTree ==
  ASSUME NEW x \in Node
  PROVE  /\ x \in Path[x] /\ Path[x] \subseteq Node
         /\ \A y \in Path[x] : y # Root => Parent[y] \in Path[x]
<1> DEFINE Good(z) == /\ z \in Path[z] /\ Path[z] \subseteq Node
                      /\ \A y \in Path[z] : y # Root => Parent[y] \in Path[z]
           S == {z \in Node : ~Good(z)}
<1>1. SUFFICES ASSUME S # {} PROVE FALSE
    OBVIOUS
<1>2. PICK z \in S : z = Root \/ (z \in Node \ {Root} /\ Parent[z] \in Node \ S)
  <2>1. S \in SUBSET Node
      OBVIOUS
  <2> HIDE DEF S
  <2> QED
      BY <1>1, <2>1, TopmostNode
<1>3. CASE z = Root
    BY <1>3, PathStep, SearchTreeAssumption
<1>4. CASE z \in Node \ {Root} /\ Parent[z] \in Node \ S
  <2>1. Path[z] = {z} \cup Path[Parent[z]]
      BY <1>4, PathStep
  <2>2. Good(Parent[z])
      BY <1>4
  <2> QED
      BY <1>4, <2>1, <2>2
<1> QED
    BY <1>2, <1>3, <1>4

\* The path of a node on a path is part of it.
LEMMA PathTransitive ==
  ASSUME NEW x \in Node, NEW y \in Path[x]
  PROVE  Path[y] \subseteq Path[x]
<1> DEFINE S == {z \in Node : ~ \A u \in Path[z] : Path[u] \subseteq Path[z]}
<1>1. SUFFICES ASSUME S # {} PROVE FALSE
    OBVIOUS
<1>2. PICK z \in S : z = Root \/ (z \in Node \ {Root} /\ Parent[z] \in Node \ S)
  <2>1. S \in SUBSET Node
      OBVIOUS
  <2> HIDE DEF S
  <2> QED
      BY <1>1, <2>1, TopmostNode
<1>3. CASE z = Root
    BY <1>3, PathStep
<1>4. CASE z \in Node \ {Root} /\ Parent[z] \in Node \ S
  <2>1. Path[z] = {z} \cup Path[Parent[z]]
      BY <1>4, PathStep
  <2>2. \A u \in Path[Parent[z]] : Path[u] \subseteq Path[Parent[z]]
      BY <1>4
  <2> QED
      BY <2>1, <2>2
<1> QED
    BY <1>2, <1>3, <1>4

\* No node lies above itself.
LEMMA NotAboveItself ==
  ASSUME NEW x \in Node \ {Root}
  PROVE  x \notin Path[Parent[x]]
<1> SUFFICES ASSUME x \in Path[Parent[x]] PROVE FALSE
    OBVIOUS
<1> DEFINE S == {y \in Path[x] : x \in Path[y]}
<1>1. S \in SUBSET (Node \ {Root}) /\ S # {}
    BY PathInTree, PathStep
<1>2. ASSUME NEW y \in S PROVE Parent[y] \in S
  <2>1. y \in Node \ {Root} /\ y \in Path[x] /\ x \in Path[y]
      BY <1>1
  <2>2. Parent[y] \in Path[x]
      BY <2>1, PathInTree
  <2>3. x \in Path[Parent[y]]
      BY <2>1, PathStep
  <2> QED
      BY <2>2, <2>3
<1> HIDE DEF S
<1> QED
    BY <1>1, <1>2, SearchTreeAssumption

\* Two nodes on a path are ordered.
LEMMA PathLinear ==
  ASSUME NEW x \in Node, NEW c \in Path[x], NEW d \in Path[x]
  PROVE  c \in Path[d] \/ d \in Path[c]
<1> DEFINE S == {z \in Node : ~ \A u, v \in Path[z] : u \in Path[v] \/ v \in Path[u]}
<1>1. SUFFICES ASSUME S # {} PROVE FALSE
    OBVIOUS
<1>2. PICK z \in S : z = Root \/ (z \in Node \ {Root} /\ Parent[z] \in Node \ S)
  <2>1. S \in SUBSET Node
      OBVIOUS
  <2> HIDE DEF S
  <2> QED
      BY <1>1, <2>1, TopmostNode
<1>3. CASE z = Root
    BY <1>3, PathStep
<1>4. CASE z \in Node \ {Root} /\ Parent[z] \in Node \ S
  <2>1. Path[z] = {z} \cup Path[Parent[z]]
      BY <1>4, PathStep
  <2>2. \A u, v \in Path[Parent[z]] : u \in Path[v] \/ v \in Path[u]
      BY <1>4
  <2> QED
      BY <2>1, <2>2
<1> QED
    BY <1>2, <1>3, <1>4

\* Children are nodes, finitely many.
LEMMA ChildrenOf ==
  ASSUME NEW x
  PROVE  /\ Children(x) \in SUBSET Node /\ IsFiniteSet(Children(x))
         /\ \A c \in Children(x) : c \in Node \ {Root} /\ Parent[c] = x
<1>1. Children(x) \in SUBSET Node
    BY DEF Children
<1> QED
    BY <1>1, FS_Subset, SearchTreeAssumption DEF Children

\* A path that passes through a node leaves it to one of its children.
LEMMA ChildOnPath ==
  ASSUME NEW x \in Node, NEW y \in Path[x], y # x
  PROVE  \E c \in Children(y) : Children(y) \cap Path[x] = {c}
<1> DEFINE S == {z \in Node : ~ \A u \in Path[z] : u # z => Children(u) \cap Path[z] # {}}
<1>1. S = {}
  <2> SUFFICES ASSUME S # {} PROVE FALSE
      OBVIOUS
  <2>2. PICK z \in S : z = Root \/ (z \in Node \ {Root} /\ Parent[z] \in Node \ S)
    <3>1. S \in SUBSET Node
        OBVIOUS
    <3> HIDE DEF S
    <3> QED
        BY <3>1, TopmostNode
  <2>3. CASE z = Root
      BY <2>3, PathStep
  <2>4. CASE z \in Node \ {Root} /\ Parent[z] \in Node \ S
    <3>1. Path[z] = {z} \cup Path[Parent[z]]
        BY <2>4, PathStep
    <3>2. \A u \in Path[Parent[z]] : u # Parent[z] => Children(u) \cap Path[Parent[z]] # {}
        BY <2>4
    <3>3. z \in Children(Parent[z])
        BY <2>4 DEF Children
    <3> QED
        BY <3>1, <3>2, <3>3
  <2> QED
      BY <2>2, <2>3, <2>4
<1>2. PICK c : c \in Children(y) \cap Path[x]
    BY <1>1
<1>3. ASSUME NEW d \in Children(y) \cap Path[x], d # c PROVE FALSE
  <2>1. ASSUME NEW u \in Children(y), NEW v \in Children(y), u # v, u \in Path[v] PROVE FALSE
    <3>1. /\ u \in Node \ {Root} /\ v \in Node \ {Root} /\ Parent[u] = y /\ Parent[v] = y
        BY ChildrenOf
    <3>2. Path[v] = {v} \cup Path[y]
        BY <3>1, PathStep
    <3> QED
        BY <2>1, <3>1, <3>2, NotAboveItself
  <2>2. c \in Path[d] \/ d \in Path[c]
      BY <1>2, <1>3, PathLinear
  <2> QED
      BY <1>2, <1>3, <2>1, <2>2
<1> QED
    BY <1>2, <1>3

\* What is below a node: nodes, finitely many, itself among them.
LEMMA BelowOf ==
  ASSUME NEW x \in Node
  PROVE  /\ Below(x) \in SUBSET Node /\ x \in Below(x)
         /\ IsFiniteSet(Below(x)) /\ IsFiniteSet(Below(x) \ {x})
<1>1. Below(x) \in SUBSET Node /\ x \in Below(x)
    BY PathInTree DEF Below
<1> QED
    BY <1>1, FS_Subset, SearchTreeAssumption

\* What is below a node lies below exactly one of its children.
LEMMA BelowChildren ==
  ASSUME NEW x \in Node
  PROVE  /\ Below(x) \ {x} = UNION {Below(c) : c \in Children(x)}
         /\ \A c, d \in Children(x) : c # d => Below(c) \cap Below(d) = {}
<1>1. ASSUME NEW c \in Children(x), NEW y \in Below(c)
      PROVE  y \in Below(x) /\ y # x /\ c \in Path[y] /\ x \in Path[y]
  <2>1. c \in Node \ {Root} /\ Parent[c] = x /\ y \in Node /\ c \in Path[y]
      BY ChildrenOf DEF Below
  <2>2. x \in Path[y]
      BY <2>1, PathInTree
  <2>3. c \notin Path[x]
      BY <2>1, NotAboveItself
  <2> QED
      BY <2>1, <2>2, <2>3 DEF Below
<1>2. ASSUME NEW y \in Below(x) \ {x} PROVE \E c \in Children(x) : y \in Below(c)
  <2>1. y \in Node /\ x \in Path[y]
      BY DEF Below
  <2>2. PICK c \in Children(x) : Children(x) \cap Path[y] = {c}
      BY <2>1, ChildOnPath
  <2> QED
      BY <2>1, <2>2 DEF Below
<1>3. ASSUME NEW c \in Children(x), NEW d \in Children(x), c # d, NEW y \in Below(c) \cap Below(d)
      PROVE  FALSE
  <2>1. y \in Node /\ y # x /\ x \in Path[y] /\ c \in Path[y] /\ d \in Path[y]
      BY <1>1 DEF Below
  <2>2. PICK e \in Children(x) : Children(x) \cap Path[y] = {e}
      BY <2>1, ChildOnPath
  <2> QED
      BY <1>3, <2>1, <2>2
<1> QED
    BY <1>1, <1>2, <1>3

-----------------------------------------------------------------------------
(* The invariant.                                                          *)

\* Where a visit was counted, moves are known, and it passed through the parent.
VisitedFromAbove ==
  \A x \in Node : n[x] > 0 =>
    status[x] # "new" /\ (x # Root => n[Parent[x]] > 0)

\* A visit is pending at new nodes and at terminal ones, below nodes that were visited.
PendingAtFrontier ==
  \A x \in Node : PendingVisits[x] > 0 =>
    /\ n[x] = 0 \/ status[x] = "terminal"
    /\ x # Root => n[Parent[x]] > 0

\* What is no longer being processed was extended.
ProcessedExtended ==
  \A w \in Worker, x \in Node :
    minibatch[w][x] > 0 \/ (picked[w][x] > 0 /\ pc[w] # "process") => status[x] # "new"

\* A round of gathering starts with empty hands.
RoundsSeparate ==
  \A w \in Worker :
    /\ pc[w] \notin {"process", "revert"} => picked[w] = Nobody
    /\ pc[w] \notin {"process", "revert", "check"} => collided[w] = Nobody

TreeInv ==
  /\ TypeOK /\ FlightConserved /\ ExtendedByOne /\ VisitsAddUp
  /\ VisitedFromAbove /\ PendingAtFrontier /\ ProcessedExtended /\ RoundsSeparate

-----------------------------------------------------------------------------
(* What is pending.                                                        *)

HandsTyped ==
  /\ picked \in [Worker -> Amounts] /\ collided \in [Worker -> Amounts]
  /\ minibatch \in [Worker -> Amounts] /\ collisions \in [Worker -> Amounts]
  /\ shared_collisions \in Amounts

\* The sum over all workers of what each of them holds.
LEMMA TotalOfWorkers ==
  ASSUME NEW f \in [Worker -> Nat]
  PROVE  /\ SumFunction(f) = SumFunctionOnSet(f, Worker)
         /\ SumFunction(f) \in Nat
         /\ \A w \in Worker : f[w] <= SumFunction(f)
BY SumIsNat, SearchTreeAssumption DEF SumFunction

\* It changes as the one worker does whose hands change.
LEMMA OneWorkerChanges ==
  ASSUME NEW f \in [Worker -> Nat], NEW g \in [Worker -> Nat], NEW w \in Worker,
         \A v \in Worker : v # w => g[v] = f[v]
  PROVE  SumFunction(g) = SumFunction(f) + (g[w] - f[w])
<1>1. IsFiniteSet(Worker)
    BY SearchTreeAssumption
<1>2. \A v \in Worker : f[v] \in Int /\ g[v] \in Int
    OBVIOUS
<1>3. SumFunctionOnSet(g, Worker) = SumFunctionOnSet(f, Worker) + (g[w] - f[w])
    BY <1>1, <1>2, SumChanges
<1> QED
    BY <1>3, TotalOfWorkers

\* What is pending at a node is a number, and no less than what one worker holds.
LEMMA PendingType ==
  ASSUME HandsTyped
  PROVE  /\ PendingVisits \in Amounts /\ PendingCollisions \in Amounts
         /\ \A w \in Worker, x \in Node :
              picked[w][x] + minibatch[w][x] <= PendingVisits[x]
         /\ \A x \in Node : shared_collisions[x] <= PendingCollisions[x]
<1> USE DEF HandsTyped, Amounts
<1>1. ASSUME NEW x \in Node
      PROVE  /\ PendingVisits[x] \in Nat /\ PendingCollisions[x] \in Nat
             /\ \A w \in Worker : picked[w][x] + minibatch[w][x] <= PendingVisits[x]
             /\ shared_collisions[x] <= PendingCollisions[x]
  <2> DEFINE visits == [w \in Worker |-> picked[w][x] + minibatch[w][x]]
             collides == [w \in Worker |-> collided[w][x] + collisions[w][x]]
  <2>1. visits \in [Worker -> Nat] /\ collides \in [Worker -> Nat]
      OBVIOUS
  <2>2. /\ PendingVisits[x] = SumFunction(visits)
        /\ PendingCollisions[x] = shared_collisions[x] + SumFunction(collides)
      BY DEF PendingVisits, PendingCollisions
  <2>3. \A w \in Worker : visits[w] = picked[w][x] + minibatch[w][x]
      OBVIOUS
  <2>4. shared_collisions[x] \in Nat
      OBVIOUS
  <2> HIDE DEF visits, collides
  <2>5. /\ SumFunction(visits) \in Nat /\ SumFunction(collides) \in Nat
        /\ \A w \in Worker : visits[w] <= SumFunction(visits)
      BY <2>1, TotalOfWorkers
  <2> QED
      BY <2>2, <2>3, <2>4, <2>5
<1>2. /\ PendingVisits = [x \in Node |-> PendingVisits[x]]
      /\ PendingCollisions = [x \in Node |-> PendingCollisions[x]]
    BY DEF PendingVisits, PendingCollisions
<1> QED
    BY <1>1, <1>2

\* The same of the present state ...
LEMMA PendingTyped ==
  HandsTyped => PendingVisits \in Amounts /\ PendingCollisions \in Amounts
BY PendingType

\* ... and of the next.
LEMMA PendingTypedNext ==
  HandsTyped' => (PendingVisits \in Amounts /\ PendingCollisions \in Amounts)'
BY PendingTyped, PTL

\* A worker changes what is pending by what it has in its own hands, and by what all share.
LEMMA HandsOfOne ==
  ASSUME HandsTyped, HandsTyped', NEW w \in Worker,
         \A v \in Worker : v # w =>
           /\ picked'[v] = picked[v] /\ minibatch'[v] = minibatch[v]
           /\ collided'[v] = collided[v] /\ collisions'[v] = collisions[v],
         NEW x \in Node
  PROVE  /\ PendingVisits'[x] = PendingVisits[x]
              + ((picked'[w][x] + minibatch'[w][x]) - (picked[w][x] + minibatch[w][x]))
         /\ PendingCollisions'[x] = PendingCollisions[x]
              + (shared_collisions'[x] - shared_collisions[x])
              + ((collided'[w][x] + collisions'[w][x]) - (collided[w][x] + collisions[w][x]))
<1> USE DEF HandsTyped, Amounts
<1> DEFINE visits == [v \in Worker |-> picked[v][x] + minibatch[v][x]]
           visits2 == [v \in Worker |-> picked'[v][x] + minibatch'[v][x]]
           collides == [v \in Worker |-> collided[v][x] + collisions[v][x]]
           collides2 == [v \in Worker |-> collided'[v][x] + collisions'[v][x]]
<1>1. /\ visits \in [Worker -> Nat] /\ visits2 \in [Worker -> Nat]
      /\ collides \in [Worker -> Nat] /\ collides2 \in [Worker -> Nat]
    OBVIOUS
<1>2. \A v \in Worker : v # w => visits2[v] = visits[v] /\ collides2[v] = collides[v]
    OBVIOUS
<1>3. /\ PendingVisits[x] = SumFunction(visits)
      /\ PendingVisits'[x] = SumFunction(visits2)
      /\ PendingCollisions[x] = shared_collisions[x] + SumFunction(collides)
      /\ PendingCollisions'[x] = shared_collisions'[x] + SumFunction(collides2)
    BY DEF PendingVisits, PendingCollisions
<1>4. /\ visits[w] = picked[w][x] + minibatch[w][x]
      /\ visits2[w] = picked'[w][x] + minibatch'[w][x]
      /\ collides[w] = collided[w][x] + collisions[w][x]
      /\ collides2[w] = collided'[w][x] + collisions'[w][x]
    OBVIOUS
<1>5. shared_collisions[x] \in Nat /\ shared_collisions'[x] \in Nat
    OBVIOUS
<1> HIDE DEF visits, visits2, collides, collides2
<1>6. /\ SumFunction(visits2) = SumFunction(visits) + (visits2[w] - visits[w])
      /\ SumFunction(collides2) = SumFunction(collides) + (collides2[w] - collides[w])
    BY <1>1, <1>2, OneWorkerChanges
<1>7. /\ SumFunction(visits) \in Nat /\ SumFunction(collides) \in Nat
      /\ visits[w] \in Nat /\ visits2[w] \in Nat /\ collides[w] \in Nat /\ collides2[w] \in Nat
    BY <1>1, TotalOfWorkers
<1> HIDE DEF HandsTyped, Amounts
<1> QED
    BY <1>3, <1>4, <1>5, <1>6, <1>7

\* What is pending depends on what is held only.
LEMMA HandsKept ==
  ASSUME UNCHANGED <<picked, collided, minibatch, collisions, shared_collisions>>
  PROVE  /\ PendingVisits' = PendingVisits /\ PendingCollisions' = PendingCollisions
         /\ HandsTyped => HandsTyped'
BY DEF PendingVisits, PendingCollisions, HandsTyped

-----------------------------------------------------------------------------
(* Virtual loss.                                                           *)

\* The virtual loss that pending visits and collisions make at a node.
Flight(visits, collides, x) == AtOrBelow(visits, x) + StrictlyBelow(collides, x)

\* Virtual loss is a number, and no less than the visits at the node itself.
LEMMA FlightType ==
  ASSUME NEW v \in Amounts, NEW c \in Amounts, NEW x \in Node
  PROVE  /\ Flight(v, c, x) \in Nat /\ v[x] <= Flight(v, c, x)
         /\ AtOrBelow(v, x) \in Nat /\ StrictlyBelow(c, x) \in Nat
<1>1. /\ Below(x) \in SUBSET Node /\ x \in Below(x)
      /\ IsFiniteSet(Below(x)) /\ IsFiniteSet(Below(x) \ {x})
    BY BelowOf
<1>2. /\ \A y \in Below(x) : v[y] \in Nat
      /\ \A y \in Below(x) \ {x} : c[y] \in Nat
    BY <1>1 DEF Amounts
<1>3. /\ AtOrBelow(v, x) \in Nat /\ v[x] <= AtOrBelow(v, x)
      /\ StrictlyBelow(c, x) \in Nat
    BY <1>1, <1>2, SumIsNat DEF AtOrBelow, StrictlyBelow
<1> QED
    BY <1>1, <1>2, <1>3 DEF Flight

\* It is additive.
LEMMA FlightAdds ==
  ASSUME NEW v, NEW c, NEW dv, NEW dc, NEW v2, NEW c2, NEW x \in Node,
         \A y \in Node : v[y] \in Int /\ dv[y] \in Int /\ v2[y] = v[y] + dv[y],
         \A y \in Node : c[y] \in Int /\ dc[y] \in Int /\ c2[y] = c[y] + dc[y]
  PROVE  Flight(v2, c2, x) = Flight(v, c, x) + Flight(dv, dc, x)
<1>1. /\ Below(x) \in SUBSET Node
      /\ IsFiniteSet(Below(x)) /\ IsFiniteSet(Below(x) \ {x})
    BY BelowOf
<1>2. /\ \A y \in Below(x) : v[y] \in Int /\ dv[y] \in Int /\ v2[y] = v[y] + dv[y]
      /\ \A y \in Below(x) \ {x} : c[y] \in Int /\ dc[y] \in Int /\ c2[y] = c[y] + dc[y]
    BY <1>1
<1>3. AtOrBelow(v2, x) = AtOrBelow(v, x) + AtOrBelow(dv, x)
    BY <1>1, <1>2, SumAdds DEF AtOrBelow
<1>4. StrictlyBelow(c2, x) = StrictlyBelow(c, x) + StrictlyBelow(dc, x)
    BY <1>1, <1>2, SumAdds DEF StrictlyBelow
<1>5. AtOrBelow(v, x) \in Int /\ AtOrBelow(dv, x) \in Int
    BY <1>1, <1>2, SumIsInt DEF AtOrBelow
<1>6. StrictlyBelow(c, x) \in Int /\ StrictlyBelow(dc, x) \in Int
    BY <1>1, <1>2, SumIsInt DEF StrictlyBelow
<1> QED
    BY <1>3, <1>4, <1>5, <1>6 DEF Flight

\* The sum of what lies at one node only.
LEMMA SumOfOne ==
  ASSUME NEW x \in Node, NEW d \in Int, NEW S \in SUBSET Node
  PROVE  SumFunctionOnSet([y \in Node |-> IF y = x THEN d ELSE 0], S)
           = IF x \in S THEN d ELSE 0
<1> DEFINE zero == [y \in Node |-> 0]
           one == [y \in Node |-> IF y = x THEN d ELSE 0]
<1>1. IsFiniteSet(S)
    BY FS_Subset, SearchTreeAssumption
<1>2. /\ \A y \in S : zero[y] \in Int /\ zero[y] = 0 /\ one[y] \in Int
      /\ \A y \in S : y # x => one[y] = zero[y]
      /\ one[x] = d /\ zero[x] = 0
    OBVIOUS
<1> HIDE DEF zero, one
<1>3. /\ x \notin S => SumFunctionOnSet(one, S) = SumFunctionOnSet(zero, S)
      /\ x \in S => SumFunctionOnSet(one, S) = SumFunctionOnSet(zero, S) + (one[x] - zero[x])
    BY <1>1, <1>2, SumChanges
<1>4. SumFunctionOnSet(zero, S) = 0
    BY <1>1, <1>2, SumOfZeros
<1>5. SumFunctionOnSet(one, S) = IF x \in S THEN d ELSE 0
    BY <1>2, <1>3, <1>4
<1> QED
    BY <1>5 DEF one

\* A visit counts at its node and above, a collision above its node only.
LEMMA FlightOfOne ==
  ASSUME NEW x \in Node, NEW dv \in Int, NEW dc \in Int, NEW y \in Node
  PROVE  Flight([z \in Node |-> IF z = x THEN dv ELSE 0],
                [z \in Node |-> IF z = x THEN dc ELSE 0], y)
           = (IF y \in Path[x] THEN dv ELSE 0) + (IF y \in Above(x) THEN dc ELSE 0)
<1>1. Below(y) \in SUBSET Node /\ Below(y) \ {y} \in SUBSET Node
    BY BelowOf
<1>2. /\ x \in Below(y) <=> y \in Path[x]
      /\ x \in Below(y) \ {y} <=> y \in Above(x)
    BY DEF Below, Above
<1> QED
    BY <1>1, <1>2, SumOfOne DEF Flight, AtOrBelow, StrictlyBelow

\* The step of the invariant: in_flight_ changes by the virtual loss of what changes.
LEMMA FlightStep ==
  ASSUME HandsTyped, HandsTyped', in_flight \in Amounts, FlightConserved,
         NEW dv \in [Node -> Int], NEW dc \in [Node -> Int],
         \A x \in Node : /\ PendingVisits'[x] = PendingVisits[x] + dv[x]
                         /\ PendingCollisions'[x] = PendingCollisions[x] + dc[x],
         in_flight' = [x \in Node |-> in_flight[x] + Flight(dv, dc, x)]
  PROVE  in_flight' \in Amounts /\ FlightConserved'
<1>1. PendingVisits \in Amounts /\ PendingCollisions \in Amounts
    BY PendingTyped
<1>2. PendingVisits' \in Amounts /\ PendingCollisions' \in Amounts
    BY PendingTypedNext DEF Amounts
<1>3. ASSUME NEW x \in Node
      PROVE  /\ in_flight'[x] = Flight(PendingVisits', PendingCollisions', x)
             /\ in_flight'[x] \in Nat
  <2>1. /\ PendingVisits \in [Node -> Int] /\ PendingCollisions \in [Node -> Int]
        /\ PendingVisits' \in [Node -> Int] /\ PendingCollisions' \in [Node -> Int]
      BY <1>1, <1>2 DEF Amounts
  <2>2. Flight(PendingVisits', PendingCollisions', x)
          = Flight(PendingVisits, PendingCollisions, x) + Flight(dv, dc, x)
    <3>1. \A y \in Node : /\ PendingVisits[y] \in Int /\ dv[y] \in Int
                          /\ PendingVisits'[y] = PendingVisits[y] + dv[y]
        BY <2>1
    <3>2. \A y \in Node : /\ PendingCollisions[y] \in Int /\ dc[y] \in Int
                          /\ PendingCollisions'[y] = PendingCollisions[y] + dc[y]
        BY <2>1
    <3> QED
        BY <3>1, <3>2, FlightAdds
  <2>3. in_flight[x] = Flight(PendingVisits, PendingCollisions, x)
      BY DEF FlightConserved, Flight
  <2>4. Flight(PendingVisits', PendingCollisions', x) \in Nat
      BY <1>2, FlightType
  <2> QED
      BY <2>2, <2>3, <2>4
<1>4. FlightConserved'
    BY <1>3 DEF FlightConserved, Flight
<1> QED
    BY <1>3, <1>4 DEF Amounts

\* What goes from one hand to the other stays pending.
LEMMA SamePending ==
  ASSUME HandsTyped, HandsTyped', NEW w \in Worker,
         \A v \in Worker : v # w =>
           /\ picked'[v] = picked[v] /\ minibatch'[v] = minibatch[v]
           /\ collided'[v] = collided[v] /\ collisions'[v] = collisions[v],
         \A x \in Node :
           /\ picked'[w][x] + minibatch'[w][x] = picked[w][x] + minibatch[w][x]
           /\ shared_collisions'[x] + (collided'[w][x] + collisions'[w][x])
                = shared_collisions[x] + (collided[w][x] + collisions[w][x])
  PROVE  PendingVisits' = PendingVisits /\ PendingCollisions' = PendingCollisions
<1>1. /\ PendingVisits \in Amounts /\ PendingCollisions \in Amounts
      /\ PendingVisits' \in Amounts /\ PendingCollisions' \in Amounts
    BY PendingTyped, PendingTypedNext DEF Amounts
<1>2. ASSUME NEW x \in Node
      PROVE  PendingVisits'[x] = PendingVisits[x] /\ PendingCollisions'[x] = PendingCollisions[x]
  <2>1. /\ PendingVisits'[x] = PendingVisits[x]
             + ((picked'[w][x] + minibatch'[w][x]) - (picked[w][x] + minibatch[w][x]))
        /\ PendingCollisions'[x] = PendingCollisions[x]
             + (shared_collisions'[x] - shared_collisions[x])
             + ((collided'[w][x] + collisions'[w][x]) - (collided[w][x] + collisions[w][x]))
      BY HandsOfOne
  <2>2. /\ picked[w][x] \in Nat /\ minibatch[w][x] \in Nat
        /\ collided[w][x] \in Nat /\ collisions[w][x] \in Nat
        /\ collided'[w][x] \in Nat /\ collisions'[w][x] \in Nat
        /\ shared_collisions[x] \in Nat /\ shared_collisions'[x] \in Nat
        /\ PendingVisits[x] \in Nat /\ PendingCollisions[x] \in Nat
      BY <1>1 DEF HandsTyped, Amounts
  <2>3. /\ picked'[w][x] + minibatch'[w][x] = picked[w][x] + minibatch[w][x]
        /\ shared_collisions'[x] + (collided'[w][x] + collisions'[w][x])
             = shared_collisions[x] + (collided[w][x] + collisions[w][x])
      OBVIOUS
  <2> QED
      BY <2>1, <2>2, <2>3
<1> QED
    BY <1>1, <1>2 DEF Amounts

\* Where nothing changes, the virtual loss stays exact.
LEMMA SameFlight ==
  ASSUME FlightConserved, in_flight' = in_flight,
         PendingVisits' = PendingVisits, PendingCollisions' = PendingCollisions
  PROVE  FlightConserved'
BY DEF FlightConserved

\* CancelScoreUpdate() of collisions takes their virtual loss back.
LEMMA CancelStep ==
  ASSUME HandsTyped, HandsTyped', in_flight \in Amounts, FlightConserved,
         NEW amount \in Amounts, Cancel(amount),
         \A x \in Node : /\ PendingVisits'[x] = PendingVisits[x]
                         /\ PendingCollisions'[x] = PendingCollisions[x] - amount[x]
  PROVE  in_flight' \in Amounts /\ FlightConserved'
<1> DEFINE less == [x \in Node |-> 0 - amount[x]]
<1>1. ASSUME NEW y \in Node
      PROVE  Flight(Nobody, less, y) = 0 - StrictlyBelow(amount, y)
  <2>1. /\ Below(y) \in SUBSET Node
        /\ IsFiniteSet(Below(y)) /\ IsFiniteSet(Below(y) \ {y})
      BY BelowOf
  <2>2. \A x \in Below(y) \ {y} :
          amount[x] \in Int /\ less[x] \in Int /\ Nobody[x] = amount[x] + less[x]
      BY <2>1 DEF Amounts, Nobody
  <2>3. /\ \A x \in Below(y) : Nobody[x] = 0
        /\ \A x \in Below(y) \ {y} : Nobody[x] = 0
      BY <2>1 DEF Nobody
  <2> HIDE DEF less
  <2>4. SumFunctionOnSet(Nobody, Below(y) \ {y})
          = SumFunctionOnSet(amount, Below(y) \ {y}) + SumFunctionOnSet(less, Below(y) \ {y})
      BY <2>1, <2>2, SumAdds
  <2>5. /\ SumFunctionOnSet(Nobody, Below(y)) = 0
        /\ SumFunctionOnSet(Nobody, Below(y) \ {y}) = 0
      BY <2>1, <2>3, SumOfZeros
  <2>6. /\ SumFunctionOnSet(amount, Below(y) \ {y}) \in Int
        /\ SumFunctionOnSet(less, Below(y) \ {y}) \in Int
      BY <2>1, <2>2, SumIsInt
  <2> QED
      BY <2>4, <2>5, <2>6 DEF Flight, AtOrBelow, StrictlyBelow
<1>2. Nobody \in [Node -> Int] /\ less \in [Node -> Int]
    BY DEF Amounts, Nobody
<1>3. PendingVisits \in Amounts /\ PendingCollisions \in Amounts
    BY PendingTyped
<1>4. \A x \in Node : /\ PendingVisits'[x] = PendingVisits[x] + Nobody[x]
                      /\ PendingCollisions'[x] = PendingCollisions[x] + less[x]
    BY <1>3 DEF Amounts, Nobody
<1>5. in_flight' = [y \in Node |-> in_flight[y] + Flight(Nobody, less, y)]
  <2>1. \A y \in Node : /\ StrictlyBelow(amount, y) \in Nat
                        /\ in_flight[y] \in Nat
      BY FlightType DEF Amounts
  <2>2. \A y \in Node : in_flight[y] - StrictlyBelow(amount, y)
                          = in_flight[y] + Flight(Nobody, less, y)
      BY <1>1, <2>1
  <2> HIDE DEF less
  <2> QED
      BY <2>2 DEF Cancel
<1> HIDE DEF less
<1> QED
    BY <1>2, <1>4, <1>5, FlightStep

\* Steps in which no visit is completed and none begun leave the rest as it is.
LEMMA TreeUntouched ==
  ASSUME TypeOK, HandsTyped', n' = n, status' = status,
         ExtendedByOne, VisitsAddUp, VisitedFromAbove, PendingAtFrontier,
         \A x \in Node : PendingVisits'[x] <= PendingVisits[x]
  PROVE  ExtendedByOne' /\ VisitsAddUp' /\ VisitedFromAbove' /\ PendingAtFrontier'
<1>1. \A x \in Node : PendingVisits[x] \in Nat /\ PendingVisits'[x] \in Nat
    BY PendingTyped, PendingTypedNext DEF TypeOK, HandsTyped, Amounts
<1>2. \A x \in Node : PendingVisits'[x] > 0 => PendingVisits[x] > 0
    BY <1>1
<1>3. ExtendedByOne'
    BY <1>1 DEF ExtendedByOne
<1>4. VisitsAddUp'
    BY DEF VisitsAddUp
<1>5. VisitedFromAbove'
    BY DEF VisitedFromAbove
<1>6. PendingAtFrontier'
    BY <1>2 DEF PendingAtFrontier
<1> QED
    BY <1>3, <1>4, <1>5, <1>6

-----------------------------------------------------------------------------
(* The steps of a worker.                                                  *)

\* Steps that move what is held from one hand to the other.
LEMMA MovingHands ==
  ASSUME TreeInv, TypeOK', NEW w \in Worker, n' = n, status' = status, in_flight' = in_flight,
         \A v \in Worker : v # w =>
           /\ picked'[v] = picked[v] /\ minibatch'[v] = minibatch[v]
           /\ collided'[v] = collided[v] /\ collisions'[v] = collisions[v],
         \A x \in Node :
           /\ picked'[w][x] + minibatch'[w][x] = picked[w][x] + minibatch[w][x]
           /\ shared_collisions'[x] + (collided'[w][x] + collisions'[w][x])
                = shared_collisions[x] + (collided[w][x] + collisions[w][x]),
         ProcessedExtended', RoundsSeparate'
  PROVE  TreeInv'
<1>1. HandsTyped /\ HandsTyped'
    BY DEF TreeInv, TypeOK, HandsTyped
<1>2. PendingVisits' = PendingVisits /\ PendingCollisions' = PendingCollisions
    BY <1>1, SamePending
<1>3. FlightConserved'
    BY <1>2, SameFlight DEF TreeInv
<1>4. \A x \in Node : PendingVisits'[x] <= PendingVisits[x]
    BY <1>1, <1>2, PendingTyped DEF Amounts
<1>5. ExtendedByOne' /\ VisitsAddUp' /\ VisitedFromAbove' /\ PendingAtFrontier'
    BY <1>1, <1>4, TreeUntouched DEF TreeInv
<1> QED
    BY <1>3, <1>5 DEF TreeInv

\* A processed round: what was not completed out of order goes to the minibatch.
LEMMA ProcessedInv ==
  ASSUME TreeInv, NEW w \in Worker, Processed(w)
  PROVE  TreeInv'
<1> USE DEF Amounts
<1>1. PICK ooo \in OutOfOrder(w) :
        /\ minibatch' = [minibatch EXCEPT ![w] = [x \in Node |-> @[x] + picked[w][x] - ooo[x]]]
        /\ picked' = [picked EXCEPT ![w] = ooo]
        /\ IF ooo = Nobody
           THEN Goto(w, "check") /\ UNCHANGED work_done
           ELSE /\ ~Locked
                /\ Goto(w, "revert")
                /\ work_done' = [work_done EXCEPT ![w] = TRUE]
    BY DEF Processed
<1>2. /\ pc[w] = "process" /\ \A x \in Node : ~Extending(w, x)
      /\ UNCHANGED <<tree, collided, collisions, shared_collisions, own_edge>>
    BY DEF Processed
<1>3. TypeOK /\ pc \in [Worker -> {"gather", "process", "revert", "check", "compute", "backup",
                                  "done", "gone"}]
    BY DEF TreeInv, TypeOK
<1>4. /\ \A v \in Worker, x \in Node :
           picked[v][x] \in Nat /\ minibatch[v][x] \in Nat
      /\ picked \in [Worker -> Amounts] /\ minibatch \in [Worker -> Amounts]
    BY <1>3 DEF TypeOK
<1>5. /\ ooo \in [Node -> Nat]
      /\ \A x \in Node : ooo[x] = 0 \/ ooo[x] = picked[w][x]
  <2>1. \A x \in Node : ooo[x] = 0 \/ ooo[x] = picked[w][x]
      BY DEF OutOfOrder
  <2>2. ooo = [x \in Node |-> ooo[x]]
      BY DEF OutOfOrder
  <2> QED
      BY <1>4, <2>1, <2>2
<1>6. /\ pc' = [pc EXCEPT ![w] = IF ooo = Nobody THEN "check" ELSE "revert"]
      /\ work_done' \in [Worker -> BOOLEAN]
    BY <1>1, <1>3 DEF TypeOK, Goto
<1>7. /\ picked'[w] = ooo
      /\ \A x \in Node : minibatch'[w][x] = minibatch[w][x] + picked[w][x] - ooo[x]
      /\ \A v \in Worker : v # w => picked'[v] = picked[v] /\ minibatch'[v] = minibatch[v]
    BY <1>1, <1>4
<1>8. TypeOK'
  <2>1. picked' \in [Worker -> Amounts]
      BY <1>1, <1>4, <1>5
  <2>2. minibatch' \in [Worker -> Amounts]
    <3>1. [x \in Node |-> minibatch[w][x] + picked[w][x] - ooo[x]] \in Amounts
        BY <1>4, <1>5
    <3> QED
        BY <1>1, <1>4, <3>1
  <2>3. pc' \in [Worker -> {"gather", "process", "revert", "check", "compute", "backup",
                            "done", "gone"}]
      BY <1>3, <1>6
  <2> QED
      BY <1>2, <1>3, <1>6, <2>1, <2>2, <2>3 DEF TypeOK, tree
<1>9. ProcessedExtended'
  <2> SUFFICES ASSUME NEW v \in Worker, NEW x \in Node,
                      minibatch'[v][x] > 0 \/ (picked'[v][x] > 0 /\ pc'[v] # "process")
               PROVE  status'[x] # "new"
      BY DEF ProcessedExtended
  <2>1. status' = status
      BY <1>2 DEF tree
  <2>2. CASE v # w
      BY <1>3, <1>6, <1>7, <2>1, <2>2 DEF TreeInv, ProcessedExtended
  <2>3. CASE v = w
    <3>1. minibatch[w][x] > 0 \/ picked[w][x] > 0
        BY <1>4, <1>5, <1>7, <2>3
    <3>2. picked[w][x] > 0 => status[x] # "new"
        BY <1>2 DEF Extending
    <3> QED
        BY <2>1, <3>1, <3>2 DEF TreeInv, ProcessedExtended
  <2> QED
      BY <2>2, <2>3
<1>10. RoundsSeparate'
    BY <1>2, <1>3, <1>6, <1>7 DEF TreeInv, RoundsSeparate
<1>11. \A x \in Node :
         /\ picked'[w][x] + minibatch'[w][x] = picked[w][x] + minibatch[w][x]
         /\ shared_collisions'[x] + (collided'[w][x] + collisions'[w][x])
              = shared_collisions[x] + (collided[w][x] + collisions[w][x])
  <2>1. \A x \in Node : picked'[w][x] + minibatch'[w][x] = picked[w][x] + minibatch[w][x]
      BY <1>4, <1>5, <1>7
  <2> QED
      BY <1>2, <2>1
<1> QED
    BY <1>2, <1>7, <1>8, <1>9, <1>10, <1>11, MovingHands DEF tree

\* Steps that change nothing of what is held.
LEMMA QuietInv ==
  ASSUME TreeInv, NEW w \in Worker,
         RevertDone(w) \/ LockToBackUp(w) \/ UNCHANGED vars
  PROVE  TreeInv'
<1>1. UNCHANGED <<tree, gathered, own_edge>>
    BY DEF RevertDone, LockToBackUp, vars
<1>2. TypeOK'
    BY <1>1 DEF TreeInv, TypeOK, RevertDone, LockToBackUp, vars, tree, gathered, Goto
<1>3. ProcessedExtended'
    BY <1>1 DEF TreeInv, TypeOK, ProcessedExtended, RevertDone, LockToBackUp, vars, tree,
                gathered, Goto
<1>4. RoundsSeparate'
    BY <1>1 DEF TreeInv, TypeOK, RoundsSeparate, RevertDone, LockToBackUp, vars, tree,
                gathered, Goto
<1> QED
    BY <1>1, <1>2, <1>3, <1>4, MovingHands DEF tree, gathered

\* The collisions of a round go to earlier rounds, or to all workers.
LEMMA HandOverInv ==
  ASSUME TreeInv, NEW w \in Worker, GatherAgain(w) \/ CollectCollisions(w)
  PROVE  TreeInv'
<1> USE DEF Amounts
<1>1. /\ UNCHANGED <<tree, picked, minibatch, work_done, own_edge>>
      /\ collided' = [collided EXCEPT ![w] = Nobody]
      /\ pc[w] \in {"check", "gather"}
    BY DEF GatherAgain, CollectCollisions
<1>2. TypeOK
    BY DEF TreeInv
<1>3. /\ \A x \in Node : /\ collided[w][x] \in Nat /\ collisions[w][x] \in Nat
                         /\ shared_collisions[x] \in Nat /\ Nobody[x] = 0
      /\ Nobody \in [Node -> Nat]
    BY <1>2 DEF TypeOK, Nobody
<1>4. /\ TypeOK'
      /\ \A x \in Node : shared_collisions'[x] + (collided'[w][x] + collisions'[w][x])
                           = shared_collisions[x] + (collided[w][x] + collisions[w][x])
      /\ \A v \in Worker : v # w => collided'[v] = collided[v] /\ collisions'[v] = collisions[v]
      /\ pc' \in {[pc EXCEPT ![w] = "gather"], [pc EXCEPT ![w] = "compute"]}
  <2>1. CASE GatherAgain(w)
    <3>1. /\ collisions' = [collisions EXCEPT ![w] = Plus(@, collided[w])]
          /\ shared_collisions' = shared_collisions
          /\ pc' = [pc EXCEPT ![w] = "gather"]
        BY <2>1 DEF GatherAgain, Goto
    <3>2. /\ collisions'[w] = [x \in Node |-> collisions[w][x] + collided[w][x]]
          /\ collisions'[w] \in [Node -> Nat]
        BY <1>2, <1>3, <3>1 DEF TypeOK, Plus
    <3>3. TypeOK'
        BY <1>1, <1>2, <1>3, <3>1, <3>2 DEF TypeOK, tree
    <3> QED
        BY <1>1, <1>2, <1>3, <3>1, <3>2, <3>3 DEF TypeOK
  <2>2. CASE CollectCollisions(w)
    <3>1. /\ collisions' = [collisions EXCEPT ![w] = Nobody]
          /\ shared_collisions'
               = [x \in Node |-> shared_collisions[x] + Plus(collisions[w], collided[w])[x]]
          /\ pc' = [pc EXCEPT ![w] = "compute"]
        BY <2>2 DEF CollectCollisions, Goto, Plus
    <3>2. \A x \in Node : Plus(collisions[w], collided[w])[x]
                            = collisions[w][x] + collided[w][x]
        BY DEF Plus
    <3>3. shared_collisions' \in [Node -> Nat]
        BY <1>3, <3>1, <3>2
    <3>4. TypeOK'
        BY <1>1, <1>2, <1>3, <3>1, <3>3 DEF TypeOK, tree
    <3>5. \A x \in Node : shared_collisions'[x] = shared_collisions[x]
                                                   + (collisions[w][x] + collided[w][x])
        BY <3>1, <3>2
    <3>6. \A x \in Node : collided'[w][x] = 0 /\ collisions'[w][x] = 0
        BY <1>1, <1>2, <1>3, <3>1 DEF TypeOK
    <3> QED
        BY <1>1, <1>2, <1>3, <3>1, <3>4, <3>5, <3>6 DEF TypeOK
  <2> QED
      BY <2>1, <2>2
<1>5. ProcessedExtended'
  <2>1. \A v \in Worker : pc'[v] # "process" => pc[v] # "process" \/ picked[v] = Nobody
      BY <1>1, <1>2, <1>4 DEF TypeOK
  <2> QED
      BY <1>1, <1>3, <2>1 DEF TreeInv, ProcessedExtended, tree
<1>6. RoundsSeparate'
    BY <1>1, <1>2, <1>4 DEF TreeInv, TypeOK, RoundsSeparate
<1> QED
    BY <1>1, <1>4, <1>5, <1>6, MovingHands DEF tree

\* Steps that change collisions only.
LEMMA CollisionsChange ==
  ASSUME TreeInv, TypeOK', n' = n, status' = status, picked' = picked, minibatch' = minibatch,
         \A v \in Worker :
           /\ pc'[v] # "process" => pc[v] # "process"
           /\ pc'[v] \notin {"process", "revert"} => pc[v] \notin {"process", "revert"}
           /\ pc'[v] \notin {"process", "revert", "check"} =>
                pc[v] \notin {"process", "revert", "check"} /\ collided'[v] = collided[v],
         FlightConserved'
  PROVE  TreeInv'
<1>1. HandsTyped /\ HandsTyped'
    BY DEF TreeInv, TypeOK, HandsTyped
<1>2. PendingVisits' = PendingVisits
    BY DEF PendingVisits
<1>3. \A x \in Node : PendingVisits'[x] <= PendingVisits[x]
    BY <1>1, <1>2, PendingTyped DEF Amounts
<1>4. ExtendedByOne' /\ VisitsAddUp' /\ VisitedFromAbove' /\ PendingAtFrontier'
    BY <1>1, <1>3, TreeUntouched DEF TreeInv
<1>5. ProcessedExtended'
    BY DEF TreeInv, ProcessedExtended
<1>6. RoundsSeparate'
    BY DEF TreeInv, RoundsSeparate
<1> QED
    BY <1>4, <1>5, <1>6 DEF TreeInv

\* A collision is given back.
LEMMA RevertCollisionInv ==
  ASSUME TreeInv, NEW w \in Worker, NEW x \in Node, RevertCollision(w, x)
  PROVE  TreeInv'
<1> USE DEF Amounts
<1> DEFINE amount == [Nobody EXCEPT ![x] = collided[w][x]]
<1>1. /\ collided' = [collided EXCEPT ![w][x] = 0] /\ Cancel(amount)
      /\ UNCHANGED <<n, status, solid, picked, minibatch, collisions, shared_collisions,
                     work_done, pc, own_edge>>
      /\ pc[w] = "revert"
    BY DEF RevertCollision
<1>2. TypeOK /\ HandsTyped
    BY DEF TreeInv, TypeOK, HandsTyped
<1>3. /\ \A v \in Worker, y \in Node : collided[v][y] \in Nat /\ collisions[v][y] \in Nat
      /\ collided' \in [Worker -> [Node -> Nat]]
      /\ \A y \in Node : collided'[w][y] = IF y = x THEN 0 ELSE collided[w][y]
      /\ \A v \in Worker : v # w => collided'[v] = collided[v]
    BY <1>1, <1>2 DEF TypeOK
<1>4. /\ amount \in [Node -> Nat]
      /\ \A y \in Node : amount[y] = IF y = x THEN collided[w][x] ELSE 0
    BY <1>3 DEF Nobody
<1>5. HandsTyped'
    BY <1>1, <1>2, <1>3 DEF HandsTyped
<1>6. ASSUME NEW y \in Node
      PROVE  /\ PendingVisits'[y] = PendingVisits[y]
             /\ PendingCollisions'[y] = PendingCollisions[y] - amount[y]
  <2>1. /\ PendingVisits'[y] = PendingVisits[y]
             + ((picked'[w][y] + minibatch'[w][y]) - (picked[w][y] + minibatch[w][y]))
        /\ PendingCollisions'[y] = PendingCollisions[y]
             + (shared_collisions'[y] - shared_collisions[y])
             + ((collided'[w][y] + collisions'[w][y]) - (collided[w][y] + collisions[w][y]))
      BY <1>1, <1>2, <1>3, <1>5, HandsOfOne
  <2>2. /\ picked[w][y] \in Nat /\ minibatch[w][y] \in Nat /\ shared_collisions[y] \in Nat
        /\ PendingVisits[y] \in Nat /\ PendingCollisions[y] \in Nat
      BY <1>2, PendingTyped DEF HandsTyped
  <2> QED
      BY <1>1, <1>3, <1>4, <2>1, <2>2
<1> HIDE DEF amount
<1>7. in_flight' \in Amounts /\ FlightConserved'
    BY <1>1, <1>2, <1>4, <1>5, <1>6, CancelStep DEF TreeInv, TypeOK
<1>8. TypeOK'
    BY <1>1, <1>2, <1>3, <1>7 DEF TypeOK
<1> QED
    BY <1>1, <1>3, <1>7, <1>8, CollisionsChange

\* A collision grows by one.
LEMMA UpsizeCollisionInv ==
  ASSUME TreeInv, NEW w \in Worker, NEW x \in Node, UpsizeCollision(w, x)
  PROVE  TreeInv'
<1> USE DEF Amounts
<1>1. /\ collided' = [collided EXCEPT ![w][x] = @ + 1]
      /\ in_flight' = [y \in Node |-> in_flight[y] + IF y \in Above(x) THEN 1 ELSE 0]
      /\ UNCHANGED <<n, status, solid, picked, minibatch, collisions, shared_collisions,
                     work_done, pc, own_edge>>
      /\ pc[w] = "check"
    BY DEF UpsizeCollision
<1>2. TypeOK /\ HandsTyped
    BY DEF TreeInv, TypeOK, HandsTyped
<1>3. /\ \A v \in Worker, y \in Node : collided[v][y] \in Nat /\ collisions[v][y] \in Nat
      /\ collided' \in [Worker -> [Node -> Nat]]
      /\ \A y \in Node : collided'[w][y] = IF y = x THEN collided[w][y] + 1 ELSE collided[w][y]
      /\ \A v \in Worker : v # w => collided'[v] = collided[v]
    BY <1>1, <1>2 DEF TypeOK
<1>4. HandsTyped'
    BY <1>1, <1>2, <1>3 DEF HandsTyped
<1> DEFINE dv == [y \in Node |-> IF y = x THEN 0 ELSE 0]
           dc == [y \in Node |-> IF y = x THEN 1 ELSE 0]
<1>5. ASSUME NEW y \in Node
      PROVE  /\ PendingVisits'[y] = PendingVisits[y] + dv[y]
             /\ PendingCollisions'[y] = PendingCollisions[y] + dc[y]
  <2>1. /\ PendingVisits'[y] = PendingVisits[y]
             + ((picked'[w][y] + minibatch'[w][y]) - (picked[w][y] + minibatch[w][y]))
        /\ PendingCollisions'[y] = PendingCollisions[y]
             + (shared_collisions'[y] - shared_collisions[y])
             + ((collided'[w][y] + collisions'[w][y]) - (collided[w][y] + collisions[w][y]))
      BY <1>1, <1>2, <1>3, <1>4, HandsOfOne
  <2>2. /\ picked[w][y] \in Nat /\ minibatch[w][y] \in Nat /\ shared_collisions[y] \in Nat
        /\ PendingVisits[y] \in Nat /\ PendingCollisions[y] \in Nat
      BY <1>2, PendingTyped DEF HandsTyped
  <2> QED
      BY <1>1, <1>3, <2>1, <2>2
<1>6. \A y \in Node : Flight(dv, dc, y) = IF y \in Above(x) THEN 1 ELSE 0
  <2>1. \A y \in Node : Flight(dv, dc, y)
          = (IF y \in Path[x] THEN 0 ELSE 0) + (IF y \in Above(x) THEN 1 ELSE 0)
      BY FlightOfOne
  <2> HIDE DEF dv, dc
  <2> QED
      BY <2>1
<1>7. dv \in [Node -> Int] /\ dc \in [Node -> Int]
    OBVIOUS
<1> HIDE DEF dv, dc
<1>8. in_flight' = [y \in Node |-> in_flight[y] + Flight(dv, dc, y)]
    BY <1>1, <1>6
<1>9. in_flight' \in Amounts /\ FlightConserved'
    BY <1>2, <1>4, <1>5, <1>7, <1>8, FlightStep DEF TreeInv, TypeOK
<1>10. TypeOK'
    BY <1>1, <1>2, <1>3, <1>9 DEF TypeOK
<1> QED
    BY <1>1, <1>3, <1>9, <1>10, CollisionsChange

\* The shared collisions are cancelled once, and all of them.
LEMMA SharedCancelled ==
  ASSUME TreeInv, Cancel(shared_collisions), shared_collisions' = Nobody,
         UNCHANGED <<picked, collided, minibatch, collisions>>
  PROVE  in_flight' \in Amounts /\ FlightConserved'
<1> USE DEF Amounts
<1>1. HandsTyped /\ in_flight \in Amounts /\ shared_collisions \in [Node -> Nat]
    BY DEF TreeInv, TypeOK, HandsTyped
<1>2. Nobody \in [Node -> Nat] /\ \A x \in Node : Nobody[x] = 0
    BY DEF Nobody
<1>3. HandsTyped'
    BY <1>1, <1>2 DEF HandsTyped
<1>4. PendingVisits' = PendingVisits
    BY DEF PendingVisits
<1>5. ASSUME NEW x \in Node
      PROVE  PendingCollisions'[x] = PendingCollisions[x] - shared_collisions[x]
  <2> DEFINE held == SumFunction([v \in Worker |-> collided[v][x] + collisions[v][x]])
  <2>1. /\ PendingCollisions[x] = shared_collisions[x] + held
        /\ PendingCollisions'[x] = shared_collisions'[x] + held
      BY DEF PendingCollisions
  <2>2. held \in Nat
    <3> DEFINE f == [v \in Worker |-> collided[v][x] + collisions[v][x]]
    <3>1. f \in [Worker -> Nat]
        BY <1>1 DEF HandsTyped
    <3> HIDE DEF f
    <3>2. SumFunction(f) \in Nat
        BY <3>1, TotalOfWorkers
    <3> QED
        BY <3>2 DEF f
  <2> HIDE DEF held
  <2> QED
      BY <1>1, <1>2, <2>1, <2>2
<1>6. PendingVisits \in Amounts
    BY <1>1, PendingTyped
<1> QED
    BY <1>1, <1>3, <1>4, <1>5, <1>6, CancelStep DEF TreeInv

\* The end of a backup.
LEMMA BackupDoneInv ==
  ASSUME TreeInv, NEW w \in Worker, BackupDone(w)
  PROVE  TreeInv'
<1>1. /\ UNCHANGED <<n, status, solid, picked, collided, minibatch, collisions, own_edge>>
      /\ work_done' = [work_done EXCEPT ![w] = FALSE]
      /\ pc[w] = "backup"
      /\ \/ pc' = [pc EXCEPT ![w] = "gather"]
         \/ pc' = [pc EXCEPT ![w] = "done"]
    BY DEF BackupDone, Goto
<1>2. TypeOK
    BY DEF TreeInv
<1>3. /\ in_flight' \in Amounts /\ FlightConserved'
      /\ shared_collisions' \in Amounts
  <2>1. CASE work_done[w]
    <3>1. Cancel(shared_collisions) /\ shared_collisions' = Nobody
        BY <2>1 DEF BackupDone
    <3> QED
        BY <1>1, <3>1, SharedCancelled DEF Nobody, Amounts
  <2>2. CASE ~work_done[w]
    <3>1. UNCHANGED <<in_flight, shared_collisions>>
        BY <2>2 DEF BackupDone
    <3>2. PendingVisits' = PendingVisits /\ PendingCollisions' = PendingCollisions
        BY <1>1, <3>1, HandsKept
    <3> QED
        BY <1>2, <3>1, <3>2, SameFlight DEF TreeInv, TypeOK
  <2> QED
      BY <2>1, <2>2
<1>4. TypeOK'
    BY <1>1, <1>2, <1>3 DEF TypeOK
<1>5. \A v \in Worker :
           /\ pc'[v] # "process" => pc[v] # "process"
           /\ pc'[v] \notin {"process", "revert"} => pc[v] \notin {"process", "revert"}
           /\ pc'[v] \notin {"process", "revert", "check"} =>
                pc[v] \notin {"process", "revert", "check"} /\ collided'[v] = collided[v]
    BY <1>1, <1>2 DEF TypeOK
<1> QED
    BY <1>1, <1>3, <1>4, <1>5, CollisionsChange

\* The destructor of the search.
LEMMA DestroySearchInv ==
  ASSUME TreeInv, DestroySearch
  PROVE  TreeInv'
<1>1. /\ UNCHANGED <<n, status, solid, picked, collided, minibatch, collisions, work_done,
                     own_edge>>
      /\ \A w \in Worker : pc[w] = "done"
      /\ pc' = [w \in Worker |-> "gone"]
      /\ Cancel(shared_collisions) /\ shared_collisions' = Nobody
    BY DEF DestroySearch
<1>2. in_flight' \in Amounts /\ FlightConserved'
    BY <1>1, SharedCancelled
<1>3. TypeOK'
    BY <1>1, <1>2 DEF TreeInv, TypeOK, Nobody, Amounts
<1> QED
    BY <1>1, <1>2, <1>3, CollisionsChange

\* The node that a worker extends was never visited.
LEMMA ExtendingNew ==
  ASSUME TreeInv, NEW w \in Worker, NEW x \in Node, Extending(w, x)
  PROVE  status[x] = "new" /\ n[x] = 0
<1>1. status[x] = "new"
    BY DEF Extending
<1> QED
    BY <1>1 DEF TreeInv, TypeOK, Amounts, VisitedFromAbove

\* An extension: the node is not visited before, so no count depends on it.
LEMMA ExtensionInv ==
  ASSUME TreeInv, NEW w \in Worker, NEW x \in Node,
         ExtendNode(w, x) \/ ProbeTablebase(w, x) \/ ClearOwnEdge(w, x)
  PROVE  TreeInv'
<1>1. /\ UNCHANGED <<n, in_flight, solid, gathered, work_done, pc>>
      /\ own_edge' \subseteq own_edge \cup {x}
      /\ \/ status' = status
         \/ \E s \in {"edges", "terminal"} : status' = [status EXCEPT ![x] = s]
      /\ Extending(w, x)
    BY DEF ExtendNode, ProbeTablebase, ClearOwnEdge
<1>2. status[x] = "new" /\ n[x] = 0
    BY <1>1, ExtendingNew
<1>3. TypeOK
    BY DEF TreeInv
<1>4. /\ \A y \in Node : y # x => status'[y] = status[y]
      /\ \A y \in Node : status[y] # "new" => status'[y] = status[y]
      /\ status' \in [Node -> {"new", "edges", "terminal"}]
    BY <1>1, <1>2, <1>3 DEF TypeOK
<1>5. TypeOK'
    BY <1>1, <1>3, <1>4 DEF TypeOK, gathered
<1>6. PendingVisits' = PendingVisits /\ PendingCollisions' = PendingCollisions
    BY <1>1, HandsKept DEF gathered
<1>7. FlightConserved'
    BY <1>1, <1>6, SameFlight DEF TreeInv
<1>8. ExtendedByOne'
    BY <1>1, <1>6 DEF TreeInv, ExtendedByOne
<1>9. VisitsAddUp'
  <2> SUFFICES ASSUME NEW y \in Node, status'[y] = "edges", n'[y] > 0
               PROVE  n'[y] = 1 + SumFunctionOnSet(n', Children(y))
      BY DEF VisitsAddUp
  <2>1. n' = n
      BY <1>1
  <2>2. y # x
      BY <1>2, <2>1
  <2>3. status[y] = "edges"
      BY <1>4, <2>2
  <2> QED
      BY <2>1, <2>3 DEF TreeInv, VisitsAddUp
<1>10. VisitedFromAbove'
  <2> SUFFICES ASSUME NEW y \in Node, n'[y] > 0
               PROVE  status'[y] # "new" /\ (y # Root => n'[Parent[y]] > 0)
      BY DEF VisitedFromAbove
  <2>1. n' = n
      BY <1>1
  <2> QED
      BY <1>4, <2>1 DEF TreeInv, VisitedFromAbove
<1>11. PendingAtFrontier'
  <2> SUFFICES ASSUME NEW y \in Node, PendingVisits'[y] > 0
               PROVE  /\ n'[y] = 0 \/ status'[y] = "terminal"
                      /\ y # Root => n'[Parent[y]] > 0
      BY DEF PendingAtFrontier
  <2>1. n' = n
      BY <1>1
  <2> QED
      BY <1>4, <1>6, <2>1 DEF TreeInv, PendingAtFrontier
<1>12. ProcessedExtended'
    BY <1>1, <1>4 DEF TreeInv, ProcessedExtended, gathered
<1>13. RoundsSeparate'
    BY <1>1 DEF TreeInv, RoundsSeparate, gathered
<1> QED
    BY <1>5, <1>7, <1>8, <1>9, <1>10, <1>11, <1>12, <1>13 DEF TreeInv

\* A visit comes to rest at most once at a node that is still to be visited.
LEMMA VisitingOf ==
  ASSUME NEW x, NEW amount \in Nat, NEW v \in Visiting(x, amount), n[x] \in Nat
  PROVE  /\ v \in Nat /\ v <= amount
         /\ v > 0 /\ n[x] = 0 => v = 1 /\ in_flight[x] = 0
<1>1. CASE amount = 0
    BY <1>1 DEF Visiting
<1>2. CASE amount # 0 /\ n[x] = 0
    BY <1>2 DEF Visiting
<1>3. CASE amount # 0 /\ n[x] # 0 /\ x = Root
    BY <1>3 DEF Visiting
<1>4. CASE amount # 0 /\ n[x] # 0 /\ x # Root
    BY <1>4 DEF Visiting
<1> QED
    BY <1>1, <1>2, <1>3, <1>4

\* Of the frontier, nothing lies below the frontier.
LEMMA FrontierSpread ==
  ASSUME NEW y \in Frontier, NEW z \in Frontier, z \in Below(y)
  PROVE  z = y
BY DEF Frontier, Below, Above

\* The parent is above its child.
LEMMA ParentAbove ==
  ASSUME NEW x \in Node \ {Root}
  PROVE  Parent[x] \in Node /\ Parent[x] \in Above(x)
<1>1. Parent[x] \in Path[x] /\ Parent[x] \in Node
    BY PathInTree, ParentType
<1>2. Parent[x] # x
    BY <1>1, PathInTree, NotAboveItself
<1> QED
    BY <1>1, <1>2 DEF Above

\* What a gathering adds to n_in_flight_ is the virtual loss of its visits and collisions.
LEMMA FlightOfFrontier ==
  ASSUME NEW rest \in [Frontier -> Nat], NEW V \in Amounts, NEW C \in Amounts,
         \A x \in Node : IF x \in Frontier THEN rest[x] = V[x] + C[x] ELSE V[x] = 0 /\ C[x] = 0,
         NEW y \in Node
  PROVE  Flight(V, C, y) = IF y \in Frontier THEN V[y]
                           ELSE SumFunctionOnSet(rest, Frontier \cap Below(y))
<1> DEFINE B == Below(y) \ {y}
           R == [x \in Node |-> V[x] + C[x]]
<1>1. /\ Below(y) \in SUBSET Node /\ y \in Below(y) /\ IsFiniteSet(Below(y))
      /\ IsFiniteSet(B) /\ B \in SUBSET Node
    BY BelowOf
<1>2. \A x \in Node : V[x] \in Int /\ C[x] \in Int /\ R[x] \in Int /\ R[x] = V[x] + C[x]
    BY DEF Amounts
<1> HIDE DEF R
<1>3. AtOrBelow(V, y) = V[y] + SumFunctionOnSet(V, B)
  <2>1. \A x \in Below(y) : V[x] \in Int
      BY <1>1, <1>2
  <2> QED
      BY <1>1, <2>1, SumTakes DEF AtOrBelow
<1>4. StrictlyBelow(C, y) = SumFunctionOnSet(C, B)
    BY DEF StrictlyBelow
<1>5. CASE y \in Frontier
  <2>1. \A x \in B : V[x] = 0 /\ C[x] = 0
    <3> SUFFICES ASSUME NEW x \in B PROVE V[x] = 0 /\ C[x] = 0
        OBVIOUS
    <3>1. x \in Node /\ x \notin Frontier
        BY <1>1, <1>5, FrontierSpread
    <3> QED
        BY <3>1
  <2>2. SumFunctionOnSet(V, B) = 0 /\ SumFunctionOnSet(C, B) = 0
      BY <1>1, <2>1, SumOfZeros
  <2> QED
      BY <1>2, <1>3, <1>4, <1>5, <2>2 DEF Flight
<1>6. CASE y \notin Frontier
  <2>1. SumFunctionOnSet(R, B) = SumFunctionOnSet(V, B) + SumFunctionOnSet(C, B)
    <3>1. \A x \in B : V[x] \in Int /\ C[x] \in Int /\ R[x] = V[x] + C[x]
        BY <1>1, <1>2
    <3> HIDE DEF B
    <3> QED
        BY <1>1, <3>1, SumAdds
  <2> DEFINE F == Frontier \cap Below(y)
             G == B \ F
  <2>2. /\ F \cup G = B /\ F \cap G = {} /\ IsFiniteSet(F) /\ IsFiniteSet(G)
        /\ F \subseteq Node /\ G \subseteq Node
    <3>1. F \in SUBSET Below(y) /\ G \in SUBSET B /\ F \subseteq B
        BY <1>6
    <3> QED
        BY <1>1, <3>1, FS_Subset
  <2>3. SumFunctionOnSet(R, B) = SumFunctionOnSet(R, F) + SumFunctionOnSet(R, G)
    <3>1. \A x \in F \cup G : R[x] \in Int
        BY <1>2, <2>2
    <3>2. SumFunctionOnSet(R, F \cup G) = SumFunctionOnSet(R, F) + SumFunctionOnSet(R, G)
      <4> HIDE DEF F, G
      <4> QED
          BY <2>2, <3>1, SumSplits
    <3> QED
        BY <2>2, <3>2
  <2>4. SumFunctionOnSet(R, G) = 0
    <3>1. \A x \in G : R[x] = 0
      <4> SUFFICES ASSUME NEW x \in G PROVE R[x] = 0
          OBVIOUS
      <4>1. x \in Node /\ x \notin Frontier
          BY <2>2
      <4>2. V[x] = 0 /\ C[x] = 0
          BY <4>1
      <4> QED
          BY <1>2, <4>1, <4>2
    <3> HIDE DEF G
    <3> QED
        BY <2>2, <3>1, SumOfZeros
  <2>5. SumFunctionOnSet(R, F) = SumFunctionOnSet(rest, F) /\ SumFunctionOnSet(rest, F) \in Int
    <3>1. \A x \in F : rest[x] \in Int /\ R[x] = rest[x]
      <4> SUFFICES ASSUME NEW x \in F PROVE rest[x] \in Int /\ R[x] = rest[x]
          OBVIOUS
      <4>1. x \in Node /\ x \in Frontier
          BY <2>2
      <4>2. rest[x] = V[x] + C[x]
          BY <4>1
      <4> QED
          BY <1>2, <4>1, <4>2
    <3> HIDE DEF F
    <3> QED
        BY <2>2, <3>1, SumSame, SumIsInt
  <2>6. V[y] = 0
      BY <1>6
  <2>7. SumFunctionOnSet(V, B) \in Int /\ SumFunctionOnSet(C, B) \in Int
      BY <1>1, <1>2, SumIsInt
  <2> HIDE DEF F, G, B
  <2>8. AtOrBelow(V, y) + StrictlyBelow(C, y) = SumFunctionOnSet(rest, F)
      BY <1>3, <1>4, <2>1, <2>3, <2>4, <2>5, <2>6, <2>7
  <2> QED
      BY <1>6, <2>8 DEF Flight, F
<1> QED
    BY <1>5, <1>6

\* A gathering: its visits and collisions count on the way down as they are held.
LEMMA PickNodesToExtendInv ==
  ASSUME TreeInv, NEW w \in Worker, PickNodesToExtend(w)
  PROVE  TreeInv'
<1> USE DEF Amounts
<1>1. /\ UNCHANGED <<n, status, solid, minibatch, collisions, shared_collisions,
                     work_done, own_edge>>
      /\ pc[w] = "gather" /\ pc' = [pc EXCEPT ![w] = "process"]
    BY DEF PickNodesToExtend, Goto
<1>2. PICK rest \in [Frontier -> 0..MaxCollisions], visit \in [Frontier -> 0..MaxCollisions] :
        /\ \A x \in Frontier : visit[x] \in Visiting(x, rest[x])
        /\ in_flight' = [x \in Node |-> in_flight[x] +
                 IF x \in Frontier THEN visit[x]
                 ELSE SumFunctionOnSet(rest, Frontier \cap Below(x))]
        /\ picked' = [picked EXCEPT ![w] =
                 [x \in Node |-> IF x \in Frontier THEN visit[x] ELSE 0]]
        /\ collided' = [collided EXCEPT ![w] =
                 [x \in Node |-> IF x \in Frontier THEN rest[x] - visit[x] ELSE 0]]
    BY DEF PickNodesToExtend
<1> DEFINE V == [x \in Node |-> IF x \in Frontier THEN visit[x] ELSE 0]
           C == [x \in Node |-> IF x \in Frontier THEN rest[x] - visit[x] ELSE 0]
<1>3. TypeOK /\ HandsTyped
    BY DEF TreeInv, TypeOK, HandsTyped
<1>4. \A x \in Frontier : /\ x \in Node /\ rest[x] \in Nat /\ visit[x] \in Nat
                          /\ visit[x] <= rest[x]
                          /\ visit[x] > 0 /\ n[x] = 0 => visit[x] = 1 /\ in_flight[x] = 0
  <2> SUFFICES ASSUME NEW x \in Frontier
               PROVE  /\ x \in Node /\ rest[x] \in Nat /\ visit[x] \in Nat
                      /\ visit[x] <= rest[x]
                      /\ visit[x] > 0 /\ n[x] = 0 => visit[x] = 1 /\ in_flight[x] = 0
      OBVIOUS
  <2>1. x \in Node
      BY DEF Frontier
  <2>2. rest[x] \in Nat /\ visit[x] \in Visiting(x, rest[x])
    <3>1. MaxCollisions \in Nat
        BY SearchTreeAssumption
    <3> QED
        BY <1>2, <3>1
  <2>3. n[x] \in Nat
      BY <1>3, <2>1 DEF TypeOK
  <2> QED
      BY <2>1, <2>2, <2>3, VisitingOf
<1>5. /\ V \in [Node -> Nat] /\ C \in [Node -> Nat]
      /\ \A x \in Node : IF x \in Frontier THEN rest[x] = V[x] + C[x] ELSE V[x] = 0 /\ C[x] = 0
      /\ \A x \in Frontier : V[x] = visit[x]
      /\ \A x \in Node \ Frontier : V[x] = 0
    BY <1>4
<1>6. rest \in [Frontier -> Nat]
    BY <1>2, <1>4
<1>7. /\ picked' = [picked EXCEPT ![w] = V] /\ collided' = [collided EXCEPT ![w] = C]
      /\ in_flight' = [x \in Node |-> in_flight[x] +
                 IF x \in Frontier THEN visit[x]
                 ELSE SumFunctionOnSet(rest, Frontier \cap Below(x))]
    BY <1>2
<1> HIDE DEF V, C
<1>8. /\ picked'[w] = V /\ collided'[w] = C
      /\ \A v \in Worker : v # w => picked'[v] = picked[v] /\ collided'[v] = collided[v]
      /\ picked' \in [Worker -> [Node -> Nat]] /\ collided' \in [Worker -> [Node -> Nat]]
    BY <1>3, <1>5, <1>7 DEF TypeOK
<1>9. HandsTyped'
    BY <1>1, <1>3, <1>8 DEF HandsTyped
<1>10. \A x \in Node : picked[w][x] = 0 /\ collided[w][x] = 0
    BY <1>1 DEF TreeInv, RoundsSeparate, Nobody
<1>11. ASSUME NEW x \in Node
       PROVE  /\ PendingVisits'[x] = PendingVisits[x] + V[x]
              /\ PendingCollisions'[x] = PendingCollisions[x] + C[x]
              /\ PendingVisits[x] \in Nat /\ PendingVisits'[x] \in Nat
  <2>1. /\ PendingVisits'[x] = PendingVisits[x]
             + ((picked'[w][x] + minibatch'[w][x]) - (picked[w][x] + minibatch[w][x]))
        /\ PendingCollisions'[x] = PendingCollisions[x]
             + (shared_collisions'[x] - shared_collisions[x])
             + ((collided'[w][x] + collisions'[w][x]) - (collided[w][x] + collisions[w][x]))
      BY <1>1, <1>3, <1>8, <1>9, HandsOfOne
  <2>2. /\ minibatch[w][x] \in Nat /\ shared_collisions[x] \in Nat /\ collisions[w][x] \in Nat
        /\ PendingVisits[x] \in Nat /\ PendingCollisions[x] \in Nat /\ PendingVisits'[x] \in Nat
      BY <1>3, <1>9, PendingTyped, PendingTypedNext DEF HandsTyped
  <2>3. picked'[w][x] = V[x] /\ collided'[w][x] = C[x] /\ V[x] \in Nat /\ C[x] \in Nat
      BY <1>5, <1>8
  <2>4. minibatch'[w][x] = minibatch[w][x] /\ shared_collisions'[x] = shared_collisions[x]
        /\ collisions'[w][x] = collisions[w][x]
      BY <1>1
  <2> QED
      BY <1>10, <2>1, <2>2, <2>3, <2>4
<1>12. in_flight' \in Amounts /\ FlightConserved'
  <2>1. \A x \in Node : Flight(V, C, x) = IF x \in Frontier THEN V[x]
                           ELSE SumFunctionOnSet(rest, Frontier \cap Below(x))
      BY <1>5, <1>6, FlightOfFrontier
  <2>2. in_flight' = [x \in Node |-> in_flight[x] + Flight(V, C, x)]
      BY <1>5, <1>7, <2>1
  <2>3. V \in [Node -> Int] /\ C \in [Node -> Int]
      BY <1>5
  <2> QED
      BY <1>3, <1>9, <1>11, <2>2, <2>3, FlightStep DEF TreeInv, TypeOK
<1>13. TypeOK'
    BY <1>1, <1>3, <1>8, <1>12 DEF TypeOK
<1>14. ExtendedByOne'
  <2> SUFFICES ASSUME NEW x \in Node, n'[x] = 0 PROVE PendingVisits'[x] <= 1
      BY DEF ExtendedByOne
  <2>1. n[x] = 0
      BY <1>1
  <2>2. CASE V[x] = 0
      BY <1>11, <2>1, <2>2 DEF TreeInv, ExtendedByOne
  <2>3. CASE V[x] # 0
    <3>1. V[x] = 1 /\ in_flight[x] = 0
      <4>1. x \in Frontier /\ V[x] = visit[x]
          BY <1>5, <2>3
      <4> QED
          BY <1>4, <2>1, <2>3, <4>1
    <3>2. PendingVisits[x] <= in_flight[x]
      <4>1. in_flight[x] = Flight(PendingVisits, PendingCollisions, x)
          BY DEF TreeInv, FlightConserved, Flight
      <4> QED
          BY <1>3, <4>1, PendingTyped, FlightType
    <3> QED
        BY <1>11, <3>1, <3>2
  <2> QED
      BY <2>2, <2>3
<1>15. PendingAtFrontier'
  <2> SUFFICES ASSUME NEW x \in Node, PendingVisits'[x] > 0
               PROVE  /\ n'[x] = 0 \/ status'[x] = "terminal"
                      /\ x # Root => n'[Parent[x]] > 0
      BY DEF PendingAtFrontier
  <2>1. n' = n /\ status' = status
      BY <1>1
  <2>2. CASE PendingVisits[x] > 0
      BY <2>1, <2>2 DEF TreeInv, PendingAtFrontier
  <2>3. CASE x \in Frontier
    <3>1. n[x] = 0 \/ status[x] = "terminal"
        BY <1>3, <2>3 DEF Frontier, Inner, TypeOK
    <3>2. x # Root => n[Parent[x]] > 0
        BY <2>3, ParentAbove DEF Frontier, Inner
    <3> QED
        BY <2>1, <3>1, <3>2
  <2>4. PendingVisits[x] > 0 \/ x \in Frontier
      BY <1>5, <1>11
  <2> QED
      BY <2>2, <2>3, <2>4
<1>16. VisitsAddUp' /\ VisitedFromAbove'
    BY <1>1 DEF TreeInv, VisitsAddUp, VisitedFromAbove
<1>17. ProcessedExtended'
  <2> SUFFICES ASSUME NEW v \in Worker, NEW x \in Node,
                      minibatch'[v][x] > 0 \/ (picked'[v][x] > 0 /\ pc'[v] # "process")
               PROVE  status'[x] # "new"
      BY DEF ProcessedExtended
  <2>1. pc'[w] = "process" /\ (v # w => pc'[v] = pc[v])
      BY <1>1, <1>3 DEF TypeOK
  <2> QED
      BY <1>1, <1>8, <2>1 DEF TreeInv, ProcessedExtended
<1>18. RoundsSeparate'
    BY <1>1, <1>3, <1>8 DEF TreeInv, RoundsSeparate, TypeOK
<1> QED
    BY <1>12, <1>13, <1>14, <1>15, <1>16, <1>17, <1>18 DEF TreeInv

\* A node that was visited lies below nodes that were.
LEMMA VisitedPath ==
  ASSUME VisitedFromAbove, NEW x \in Node, n[x] > 0, NEW y \in Path[x]
  PROVE  n[y] > 0
<1> DEFINE S == {z \in Node : n[z] > 0 /\ ~ \A u \in Path[z] : n[u] > 0}
<1>1. SUFFICES ASSUME S # {} PROVE FALSE
    OBVIOUS
<1>2. PICK z \in S : z = Root \/ (z \in Node \ {Root} /\ Parent[z] \in Node \ S)
  <2>1. S \in SUBSET Node
      OBVIOUS
  <2> HIDE DEF S
  <2> QED
      BY <1>1, <2>1, TopmostNode
<1>3. CASE z = Root
    BY <1>3, PathStep
<1>4. CASE z \in Node \ {Root} /\ Parent[z] \in Node \ S
  <2>1. Path[z] = {z} \cup Path[Parent[z]]
      BY <1>4, PathStep
  <2>2. n[Parent[z]] > 0
      BY <1>4 DEF VisitedFromAbove
  <2>3. \A u \in Path[Parent[z]] : n[u] > 0
      BY <1>4, <2>2
  <2> QED
      BY <2>1, <2>3
<1> QED
    BY <1>2, <1>3, <1>4

\* What is known of a node whose visit is backed up.
LEMMA BackUpAt ==
  ASSUME TreeInv, NEW w \in Worker, NEW x \in Node, BackUp(w, x)
  PROVE  /\ PendingVisits[x] > 0
         /\ status[x] # "new"
         /\ n[x] = 0 \/ status[x] = "terminal"
         /\ \A y \in Above(x) : n[y] > 0 /\ status[y] # "new"
<1>1. /\ pc[w] \in {"revert", "backup"} /\ ToBackUp(w)[x] > 0
    BY DEF BackUp
<1>2. HandsTyped /\ VisitedFromAbove /\ PendingAtFrontier /\ ProcessedExtended
    BY DEF TreeInv, TypeOK, HandsTyped
<1>3. /\ picked[w][x] \in Nat /\ minibatch[w][x] \in Nat
      /\ picked[w][x] > 0 \/ minibatch[w][x] > 0
    BY <1>1, <1>2 DEF HandsTyped, Amounts, ToBackUp
<1>4. PendingVisits[x] > 0
  <2>1. /\ picked[w][x] + minibatch[w][x] <= PendingVisits[x]
        /\ PendingVisits[x] \in Nat
      BY <1>2, PendingType DEF Amounts
  <2> QED
      BY <1>3, <2>1
<1>5. status[x] # "new"
    BY <1>1, <1>2, <1>3 DEF ProcessedExtended
<1>6. /\ n[x] = 0 \/ status[x] = "terminal"
      /\ x # Root => n[Parent[x]] > 0
    BY <1>2, <1>4 DEF PendingAtFrontier
<1>7. ASSUME NEW y \in Above(x) PROVE n[y] > 0 /\ status[y] # "new"
  <2>1. x # Root /\ y \in Path[Parent[x]] /\ y \in Node
      BY PathStep, PathInTree DEF Above
  <2>2. n[y] > 0
      BY <1>2, <1>6, <2>1, ParentType, VisitedPath
  <2> QED
      BY <1>2, <2>1, <2>2 DEF VisitedFromAbove
<1> QED
    BY <1>4, <1>5, <1>6, <1>7

\* A backup takes one visit from its worker, and its virtual loss with it.
LEMMA BackUpChanges ==
  ASSUME TreeInv, NEW w \in Worker, NEW x \in Node, BackUp(w, x)
  PROVE  /\ HandsTyped' /\ in_flight' \in Amounts /\ FlightConserved'
         /\ \A y \in Node : PendingVisits'[y] = PendingVisits[y] - (IF y = x THEN 1 ELSE 0)
         /\ \A v \in Worker, y \in Node :
              picked'[v][y] <= picked[v][y] /\ minibatch'[v][y] <= minibatch[v][y]
         /\ \A v \in Worker : pc[v] # "revert" => picked'[v] = picked[v]
<1> USE DEF Amounts
<1>1. /\ pc[w] \in {"revert", "backup"} /\ ToBackUp(w)[x] > 0 /\ BackedUp(w, x) /\ Finalize(x)
      /\ UNCHANGED <<collided, collisions, shared_collisions, work_done, pc, own_edge>>
    BY DEF BackUp
<1>2. TypeOK /\ HandsTyped
    BY DEF TreeInv, TypeOK, HandsTyped
<1>3. \A v \in Worker, y \in Node : picked[v][y] \in Nat /\ minibatch[v][y] \in Nat
    BY <1>2 DEF TypeOK
<1>4. /\ picked' \in [Worker -> [Node -> Nat]] /\ minibatch' \in [Worker -> [Node -> Nat]]
      /\ \A y \in Node : picked'[w][y] + minibatch'[w][y] =
           (picked[w][y] + minibatch[w][y]) - (IF y = x THEN 1 ELSE 0)
      /\ \A v \in Worker : v # w => picked'[v] = picked[v] /\ minibatch'[v] = minibatch[v]
      /\ \A v \in Worker, y \in Node :
              picked'[v][y] <= picked[v][y] /\ minibatch'[v][y] <= minibatch[v][y]
      /\ \A v \in Worker : pc[v] # "revert" => picked'[v] = picked[v]
  <2>1. CASE pc[w] = "revert"
    <3>1. /\ picked[w][x] > 0 /\ minibatch' = minibatch
          /\ picked' = [picked EXCEPT ![w][x] = @ - 1]
        BY <1>1, <2>1 DEF ToBackUp, BackedUp
    <3>2. picked' \in [Worker -> [Node -> Nat]]
        BY <1>2, <1>3, <3>1 DEF TypeOK
    <3>3. /\ \A v \in Worker : v # w => picked'[v] = picked[v]
          /\ \A y \in Node : picked'[w][y] = picked[w][y] - (IF y = x THEN 1 ELSE 0)
        BY <1>2, <1>3, <3>1 DEF TypeOK
    <3>4. \A v \in Worker, y \in Node : picked'[v][y] <= picked[v][y]
        BY <1>3, <3>3
    <3> QED
        BY <1>2, <1>3, <2>1, <3>1, <3>2, <3>3, <3>4 DEF TypeOK
  <2>2. CASE pc[w] = "backup"
    <3>1. /\ minibatch[w][x] > 0 /\ picked' = picked
          /\ minibatch' = [minibatch EXCEPT ![w][x] = @ - 1]
        BY <1>1, <2>2 DEF ToBackUp, BackedUp
    <3>2. minibatch' \in [Worker -> [Node -> Nat]]
        BY <1>2, <1>3, <3>1 DEF TypeOK
    <3>3. /\ \A v \in Worker : v # w => minibatch'[v] = minibatch[v]
          /\ \A y \in Node : minibatch'[w][y] = minibatch[w][y] - (IF y = x THEN 1 ELSE 0)
        BY <1>2, <1>3, <3>1 DEF TypeOK
    <3>4. \A v \in Worker, y \in Node : minibatch'[v][y] <= minibatch[v][y]
        BY <1>3, <3>3
    <3> QED
        BY <1>2, <1>3, <2>2, <3>1, <3>2, <3>3, <3>4 DEF TypeOK
  <2> QED
      BY <1>1, <2>1, <2>2
<1>5. HandsTyped'
    BY <1>1, <1>2, <1>4 DEF HandsTyped
<1> DEFINE dv == [y \in Node |-> IF y = x THEN 0 - 1 ELSE 0]
           dc == [y \in Node |-> IF y = x THEN 0 ELSE 0]
<1>6. /\ dv \in [Node -> Int] /\ dc \in [Node -> Int]
      /\ \A y \in Node : dv[y] = (IF y = x THEN 0 - 1 ELSE 0) /\ dc[y] = 0
    OBVIOUS
<1>7. \A y \in Node : Flight(dv, dc, y) = IF y \in Path[x] THEN 0 - 1 ELSE 0
  <2>1. \A y \in Node : Flight(dv, dc, y)
          = (IF y \in Path[x] THEN 0 - 1 ELSE 0) + (IF y \in Above(x) THEN 0 ELSE 0)
      BY FlightOfOne
  <2> HIDE DEF dv, dc
  <2> QED
      BY <2>1
<1> HIDE DEF dv, dc
<1>8. ASSUME NEW y \in Node
      PROVE  /\ PendingVisits'[y] = PendingVisits[y] + dv[y]
             /\ PendingCollisions'[y] = PendingCollisions[y] + dc[y]
             /\ PendingVisits[y] \in Nat
  <2>1. /\ PendingVisits'[y] = PendingVisits[y]
             + ((picked'[w][y] + minibatch'[w][y]) - (picked[w][y] + minibatch[w][y]))
        /\ PendingCollisions'[y] = PendingCollisions[y]
             + (shared_collisions'[y] - shared_collisions[y])
             + ((collided'[w][y] + collisions'[w][y]) - (collided[w][y] + collisions[w][y]))
      BY <1>1, <1>2, <1>4, <1>5, HandsOfOne
  <2>2. /\ picked[w][y] \in Nat /\ minibatch[w][y] \in Nat /\ shared_collisions[y] \in Nat
        /\ collided[w][y] \in Nat /\ collisions[w][y] \in Nat
        /\ PendingVisits[y] \in Nat /\ PendingCollisions[y] \in Nat
      BY <1>2, PendingTyped DEF HandsTyped
  <2>3. picked'[w][y] + minibatch'[w][y] =
           (picked[w][y] + minibatch[w][y]) - (IF y = x THEN 1 ELSE 0)
      BY <1>4
  <2>4. PendingVisits'[y] = PendingVisits[y] + dv[y]
      BY <1>6, <2>1, <2>2, <2>3
  <2>5. PendingCollisions'[y] = PendingCollisions[y] + dc[y]
      BY <1>1, <1>6, <2>1, <2>2
  <2> QED
      BY <2>2, <2>4, <2>5
<1>9. in_flight' = [y \in Node |-> in_flight[y] + Flight(dv, dc, y)]
  <2>1. in_flight' = [y \in Node |-> in_flight[y] - IF y \in Path[x] THEN 1 ELSE 0]
      BY <1>1 DEF Finalize
  <2>2. \A y \in Node : in_flight[y] \in Nat
      BY <1>2 DEF TypeOK
  <2>3. \A y \in Node : in_flight[y] - (IF y \in Path[x] THEN 1 ELSE 0)
                          = in_flight[y] + Flight(dv, dc, y)
      BY <1>7, <2>2
  <2> QED
      BY <2>1, <2>3
<1>10. in_flight' \in Amounts /\ FlightConserved'
    BY <1>2, <1>5, <1>6, <1>8, <1>9, FlightStep DEF TreeInv, TypeOK
<1> QED
    BY <1>4, <1>5, <1>6, <1>8, <1>10

\* After a backup, the visits of a node that is not decided still add up.
LEMMA BackUpAddsUp ==
  ASSUME TreeInv, NEW x \in Node,
         n[x] = 0 \/ status[x] = "terminal",
         \A y \in Above(x) : n[y] > 0,
         n' = [y \in Node |-> n[y] + IF y \in Path[x] THEN 1 ELSE 0],
         NEW y \in Node, status[y] = "edges", n'[y] > 0
  PROVE  n'[y] = 1 + SumFunctionOnSet(n', Children(y))
<1>1. \A z \in Node : n[z] \in Nat /\ n'[z] \in Nat
    BY DEF TreeInv, TypeOK, Amounts
<1>2. /\ Children(y) \in SUBSET Node /\ IsFiniteSet(Children(y))
      /\ \A c \in Children(y) : c \in Node \ {Root} /\ Parent[c] = y
    BY ChildrenOf
<1>3. \A c \in Children(y) : n[c] \in Int /\ n'[c] \in Int
    BY <1>1, <1>2
<1>4. n[y] > 0 => n[y] = 1 + SumFunctionOnSet(n, Children(y))
    BY DEF TreeInv, VisitsAddUp
<1>5. SumFunctionOnSet(n, Children(y)) \in Int
    BY <1>2, <1>3, SumIsInt
<1>6. CASE y \notin Path[x]
  <2>1. \A c \in Children(y) : n'[c] = n[c]
    <3> SUFFICES ASSUME NEW c \in Children(y) PROVE n'[c] = n[c]
        OBVIOUS
    <3>1. c \notin Path[x]
        BY <1>2, <1>6, PathInTree
    <3> QED
        BY <1>1, <1>2, <3>1
  <2>2. SumFunctionOnSet(n', Children(y)) = SumFunctionOnSet(n, Children(y))
      BY <1>2, <1>3, <2>1, SumSame
  <2>3. n'[y] = n[y]
      BY <1>1, <1>6
  <2> QED
      BY <1>4, <2>2, <2>3
<1>7. CASE y \in Path[x] /\ y # x
  <2>1. PICK c \in Children(y) : Children(y) \cap Path[x] = {c}
      BY <1>7, ChildOnPath
  <2>2. /\ \A d \in Children(y) : d # c => n'[d] = n[d]
        /\ n'[c] = n[c] + 1
    <3>1. \A d \in Children(y) : d # c => d \notin Path[x]
        BY <2>1
    <3>2. c \in Path[x] /\ c \in Node
        BY <1>2, <2>1
    <3> QED
        BY <1>1, <1>2, <3>1, <3>2
  <2>3. SumFunctionOnSet(n', Children(y))
          = SumFunctionOnSet(n, Children(y)) + (n'[c] - n[c])
    <3> DEFINE f == n
               g == n'
               S == Children(y)
    <3>1. /\ IsFiniteSet(S) /\ c \in S
          /\ \A d \in S : f[d] \in Int /\ g[d] \in Int
          /\ \A d \in S : d # c => g[d] = f[d]
        BY <1>2, <1>3, <2>2
    <3> HIDE DEF f, g, S
    <3>2. SumFunctionOnSet(g, S) = SumFunctionOnSet(f, S) + (g[c] - f[c])
        BY <3>1, SumChanges
    <3> QED
        BY <3>2 DEF f, g, S
  <2>4. n'[y] = n[y] + 1 /\ n[y] > 0
      BY <1>7 DEF Above
  <2> QED
      BY <1>1, <1>2, <1>4, <1>5, <2>2, <2>3, <2>4
<1>8. CASE y = x
  <2>1. n[x] = 0
      BY <1>8
  <2>2. n'[x] = 1
      BY <2>1, PathInTree
  <2>3. \A c \in Children(y) : n'[c] = 0
    <3> SUFFICES ASSUME NEW c \in Children(y) PROVE n'[c] = 0
        OBVIOUS
    <3>1. c \in Node \ {Root} /\ Parent[c] = x
        BY <1>2, <1>8
    <3>2. c \notin Path[x]
        BY <3>1, NotAboveItself
    <3>3. n[c] = 0
        BY <1>1, <2>1, <3>1 DEF TreeInv, VisitedFromAbove
    <3> QED
        BY <3>1, <3>2, <3>3
  <2>4. SumFunctionOnSet(n', Children(y)) = 0
      BY <1>2, <2>3, SumOfZeros
  <2> QED
      BY <1>8, <2>2, <2>4
<1> QED
    BY <1>6, <1>7, <1>8

\* A backup keeps the counts of the whole path consistent.
LEMMA BackUpInv ==
  ASSUME TreeInv, NEW w \in Worker, NEW x \in Node, BackUp(w, x)
  PROVE  TreeInv'
<1> USE DEF Amounts
<1>1. /\ Finalize(x)
      /\ solid' = solid \cup {y \in Path[x] : /\ status'[y] = "edges"
                                          /\ n'[y] >= SolidTreeThreshold
                                          /\ MayMakeSolid(y, n', in_flight')}
      /\ UNCHANGED <<collided, collisions, shared_collisions, work_done, pc, own_edge>>
    BY DEF BackUp
<1>2. PICK decided \in SUBSET Decidable(x) :
        status' = [y \in Node |-> IF y \in decided THEN "terminal" ELSE status[y]]
    BY DEF BackUp
<1>3. /\ PendingVisits[x] > 0
      /\ status[x] # "new"
      /\ n[x] = 0 \/ status[x] = "terminal"
      /\ \A y \in Above(x) : n[y] > 0 /\ status[y] # "new"
    BY BackUpAt
<1>4. /\ HandsTyped' /\ in_flight' \in [Node -> Nat] /\ FlightConserved'
      /\ \A y \in Node : PendingVisits'[y] = PendingVisits[y] - (IF y = x THEN 1 ELSE 0)
      /\ \A v \in Worker, y \in Node :
           picked'[v][y] <= picked[v][y] /\ minibatch'[v][y] <= minibatch[v][y]
      /\ \A v \in Worker : pc[v] # "revert" => picked'[v] = picked[v]
    BY BackUpChanges
<1>5. TypeOK /\ HandsTyped
    BY DEF TreeInv, TypeOK, HandsTyped
<1>6. /\ n' = [y \in Node |-> n[y] + IF y \in Path[x] THEN 1 ELSE 0]
      /\ \A y \in Node : n[y] \in Nat /\ n'[y] \in Nat /\ n'[y] >= n[y]
  <2>1. n' = [y \in Node |-> n[y] + IF y \in Path[x] THEN 1 ELSE 0]
      BY <1>1 DEF Finalize
  <2>2. \A y \in Node : n[y] \in Nat
      BY <1>5 DEF TypeOK
  <2> QED
      BY <2>1, <2>2
<1>7. /\ decided \subseteq Above(x)
      /\ \A y \in Node : status'[y] = "terminal" \/ status'[y] = status[y]
      /\ \A y \in Node : status[y] # "new" => status'[y] # "new"
      /\ \A y \in Node : status[y] = "terminal" => status'[y] = "terminal"
  <2>1. decided \subseteq Above(x)
      BY DEF Decidable
  <2> QED
      BY <1>2, <2>1
<1>8. TypeOK'
  <2>1. n' \in [Node -> Nat]
      BY <1>6
  <2>2. status' \in [Node -> {"new", "edges", "terminal"}]
      BY <1>2, <1>5 DEF TypeOK
  <2>3. solid' \subseteq Node
      BY <1>1, <1>5, PathInTree DEF TypeOK
  <2> QED
      BY <1>1, <1>4, <1>5, <2>1, <2>2, <2>3 DEF TypeOK, HandsTyped
<1>9. ASSUME NEW y \in Node
      PROVE  /\ PendingVisits[y] \in Nat /\ PendingVisits'[y] \in Nat
             /\ PendingVisits'[y] = PendingVisits[y] - (IF y = x THEN 1 ELSE 0)
  <2>1. PendingVisits[y] \in Nat /\ PendingVisits'[y] \in Nat
      BY <1>4, <1>5, PendingTyped, PendingTypedNext
  <2> QED
      BY <1>4, <2>1
<1>10. ExtendedByOne'
  <2> SUFFICES ASSUME NEW y \in Node, n'[y] = 0 PROVE PendingVisits'[y] <= 1
      BY DEF ExtendedByOne
  <2>1. n[y] = 0
      BY <1>6
  <2>2. PendingVisits[y] <= 1
      BY <2>1 DEF TreeInv, ExtendedByOne
  <2> QED
      BY <1>9, <2>2
<1>11. VisitsAddUp'
  <2> SUFFICES ASSUME NEW y \in Node, status'[y] = "edges", n'[y] > 0
               PROVE  n'[y] = 1 + SumFunctionOnSet(n', Children(y))
      BY DEF VisitsAddUp
  <2>1. status[y] = "edges"
      BY <1>7
  <2> QED
      BY <1>3, <1>6, <2>1, BackUpAddsUp
<1>12. VisitedFromAbove'
  <2> SUFFICES ASSUME NEW y \in Node, n'[y] > 0
               PROVE  status'[y] # "new" /\ (y # Root => n'[Parent[y]] > 0)
      BY DEF VisitedFromAbove
  <2>1. status[y] # "new" /\ (y # Root => n[Parent[y]] > 0)
    <3>1. CASE n[y] > 0
        BY <3>1 DEF TreeInv, VisitedFromAbove
    <3>2. CASE y = x
        BY <1>3, <3>2 DEF TreeInv, PendingAtFrontier
    <3>3. n[y] > 0 \/ y = x
        BY <1>3, <1>6 DEF Above
    <3> QED
        BY <3>1, <3>2, <3>3
  <2> QED
      BY <1>6, <1>7, <2>1, ParentType
<1>13. PendingAtFrontier'
  <2> SUFFICES ASSUME NEW y \in Node, PendingVisits'[y] > 0
               PROVE  /\ n'[y] = 0 \/ status'[y] = "terminal"
                      /\ y # Root => n'[Parent[y]] > 0
      BY DEF PendingAtFrontier
  <2>1. PendingVisits[y] > 0
      BY <1>9
  <2>2. /\ n[y] = 0 \/ status[y] = "terminal"
        /\ y # Root => n[Parent[y]] > 0
      BY <2>1 DEF TreeInv, PendingAtFrontier
  <2>3. ASSUME n[y] = 0 PROVE n'[y] = 0
    <3>1. y # x
      <4>1. PendingVisits[y] <= 1
          BY <2>3 DEF TreeInv, ExtendedByOne
      <4> QED
          BY <1>9, <4>1
    <3>2. y \notin Path[x]
        BY <1>3, <2>3, <3>1 DEF Above
    <3> QED
        BY <1>6, <2>3, <3>2
  <2> QED
      BY <1>6, <1>7, <2>2, <2>3, ParentType
<1>14. ProcessedExtended'
  <2> SUFFICES ASSUME NEW v \in Worker, NEW y \in Node,
                      minibatch'[v][y] > 0 \/ (picked'[v][y] > 0 /\ pc'[v] # "process")
               PROVE  status'[y] # "new"
      BY DEF ProcessedExtended
  <2>1. /\ picked'[v][y] \in Nat /\ minibatch'[v][y] \in Nat
        /\ picked[v][y] \in Nat /\ minibatch[v][y] \in Nat
      BY <1>4, <1>5 DEF HandsTyped
  <2>2. minibatch[v][y] > 0 \/ (picked[v][y] > 0 /\ pc[v] # "process")
      BY <1>1, <1>4, <2>1
  <2> QED
      BY <1>7, <2>2 DEF TreeInv, ProcessedExtended
<1>15. RoundsSeparate'
    BY <1>1, <1>4 DEF TreeInv, RoundsSeparate
<1> QED
    BY <1>4, <1>8, <1>10, <1>11, <1>12, <1>13, <1>14, <1>15 DEF TreeInv

-----------------------------------------------------------------------------
(* Theorems.                                                               *)

\* With empty hands there is no virtual loss.
LEMMA EmptyHands ==
  ASSUME \A w \in Worker : /\ picked[w] = Nobody /\ minibatch[w] = Nobody
                           /\ collided[w] = Nobody /\ collisions[w] = Nobody,
         shared_collisions = Nobody, NEW x \in Node
  PROVE  PendingVisits[x] = 0 /\ Flight(PendingVisits, PendingCollisions, x) = 0
<1>1. ASSUME NEW y \in Node PROVE PendingVisits[y] = 0 /\ PendingCollisions[y] = 0
  <2> DEFINE visits == [w \in Worker |-> picked[w][y] + minibatch[w][y]]
             collides == [w \in Worker |-> collided[w][y] + collisions[w][y]]
  <2>1. /\ visits \in [Worker -> Nat] /\ \A w \in Worker : visits[w] = 0
        /\ collides \in [Worker -> Nat] /\ \A w \in Worker : collides[w] = 0
      BY DEF Nobody
  <2>2. /\ PendingVisits[y] = SumFunction(visits)
        /\ PendingCollisions[y] = shared_collisions[y] + SumFunction(collides)
        /\ shared_collisions[y] = 0
      BY DEF PendingVisits, PendingCollisions, Nobody
  <2> HIDE DEF visits, collides
  <2>3. SumFunction(visits) = 0 /\ SumFunction(collides) = 0
      BY <2>1, TotalOfWorkers, SumOfZeros, SearchTreeAssumption
  <2> QED
      BY <2>2, <2>3
<1>2. /\ Below(x) \in SUBSET Node
      /\ IsFiniteSet(Below(x)) /\ IsFiniteSet(Below(x) \ {x})
    BY BelowOf
<1>3. /\ \A y \in Below(x) : PendingVisits[y] = 0
      /\ \A y \in Below(x) \ {x} : PendingCollisions[y] = 0
    BY <1>1, <1>2
<1>4. AtOrBelow(PendingVisits, x) = 0
    BY <1>2, <1>3, SumOfZeros DEF AtOrBelow
<1>5. StrictlyBelow(PendingCollisions, x) = 0
    BY <1>2, <1>3, SumOfZeros DEF StrictlyBelow
<1> QED
    BY <1>1, <1>4, <1>5 DEF Flight

\* A new tree.
LEMMA InitInv == Init => TreeInv
<1> SUFFICES ASSUME Init PROVE TreeInv
    OBVIOUS
<1>1. /\ Nobody \in [Node -> Nat] /\ \A x \in Node : Nobody[x] = 0
      /\ n = Nobody /\ in_flight = Nobody
    BY DEF Nobody, Init
<1>2. TypeOK
    BY <1>1 DEF Init, TypeOK, Amounts
<1>3. \A x \in Node : PendingVisits[x] = 0 /\ Flight(PendingVisits, PendingCollisions, x) = 0
  <2>1. /\ \A w \in Worker : /\ picked[w] = Nobody /\ minibatch[w] = Nobody
                             /\ collided[w] = Nobody /\ collisions[w] = Nobody
        /\ shared_collisions = Nobody
      BY DEF Init
  <2> QED
      BY <2>1, EmptyHands
<1>4. FlightConserved
    BY <1>1, <1>3 DEF FlightConserved, Flight
<1>5. ExtendedByOne /\ VisitsAddUp /\ VisitedFromAbove /\ PendingAtFrontier
  <2>1. ExtendedByOne /\ PendingAtFrontier
      BY <1>3 DEF ExtendedByOne, PendingAtFrontier
  <2>2. VisitsAddUp /\ VisitedFromAbove
      BY <1>1 DEF VisitsAddUp, VisitedFromAbove
  <2> QED
      BY <2>1, <2>2
<1>6. ProcessedExtended /\ RoundsSeparate
    BY <1>1 DEF Init, ProcessedExtended, RoundsSeparate
<1> QED
    BY <1>2, <1>4, <1>5, <1>6 DEF TreeInv

\* One step for each action.
LEMMA NextInv == TreeInv /\ [Next]_vars => TreeInv'
<1> SUFFICES ASSUME TreeInv, [Next]_vars PROVE TreeInv'
    OBVIOUS
<1>1. ASSUME NEW w \in Worker, WorkerStep(w) PROVE TreeInv'
  <2>1. CASE PickNodesToExtend(w)
      BY <2>1, PickNodesToExtendInv
  <2>2. CASE Processed(w)
      BY <2>2, ProcessedInv
  <2>3. CASE RevertDone(w) \/ LockToBackUp(w)
      BY <2>3, QuietInv
  <2>4. CASE GatherAgain(w) \/ CollectCollisions(w)
      BY <2>4, HandOverInv
  <2>5. CASE BackupDone(w)
      BY <2>5, BackupDoneInv
  <2>6. ASSUME NEW x \in Node, ExtendNode(w, x) \/ ProbeTablebase(w, x) \/ ClearOwnEdge(w, x)
        PROVE  TreeInv'
      BY <2>6, ExtensionInv
  <2>7. ASSUME NEW x \in Node, RevertCollision(w, x) PROVE TreeInv'
      BY <2>7, RevertCollisionInv
  <2>8. ASSUME NEW x \in Node, BackUp(w, x) PROVE TreeInv'
      BY <2>8, BackUpInv
  <2>9. ASSUME NEW x \in Node, UpsizeCollision(w, x) PROVE TreeInv'
      BY <2>9, UpsizeCollisionInv
  <2> QED
      BY <1>1, <2>1, <2>2, <2>3, <2>4, <2>5, <2>6, <2>7, <2>8, <2>9 DEF WorkerStep
<1>2. CASE DestroySearch
    BY <1>2, DestroySearchInv
<1>3. CASE Terminated \/ UNCHANGED vars
  <2>1. UNCHANGED vars
      BY <1>3 DEF Terminated
  <2>2. /\ n' = n /\ in_flight' = in_flight /\ status' = status /\ solid' = solid
        /\ picked' = picked /\ collided' = collided /\ minibatch' = minibatch
        /\ collisions' = collisions /\ shared_collisions' = shared_collisions
        /\ pc' = pc /\ work_done' = work_done /\ own_edge' = own_edge
      BY <2>1 DEF vars, tree, gathered
  <2>3. TypeOK' /\ VisitedFromAbove' /\ ProcessedExtended' /\ RoundsSeparate' /\ VisitsAddUp'
      BY <2>2 DEF TreeInv, TypeOK, VisitedFromAbove, ProcessedExtended, RoundsSeparate,
                  VisitsAddUp
  <2>4. PendingVisits' = PendingVisits /\ PendingCollisions' = PendingCollisions
      BY <2>2, HandsKept
  <2>5. FlightConserved'
      BY <2>2, <2>4, SameFlight DEF TreeInv
  <2>6. ExtendedByOne' /\ PendingAtFrontier'
      BY <2>2, <2>4 DEF TreeInv, ExtendedByOne, PendingAtFrontier
  <2> QED
      BY <2>3, <2>5, <2>6 DEF TreeInv
<1> QED
    BY <1>1, <1>2, <1>3 DEF Next

\* The invariant of the shared tree, from which the theorems below follow.
THEOREM TreeInvariant == Spec => []TreeInv
<1> QED
    BY InitInv, NextInv, PTL DEF Spec

\* Counters stay natural numbers: n_in_flight_ is unsigned and never falls below 0.
THEOREM TypeCorrect == Spec => []TypeOK
<1>1. TreeInv => TypeOK
    BY DEF TreeInv
<1> QED
    BY <1>1, TreeInvariant, PTL

\* n_in_flight_ of every node is the virtual loss of the visits and collisions pending
\* at it or below: none is taken back twice, none is forgotten.
THEOREM VirtualLossExact == Spec => []FlightConserved
<1>1. TreeInv => FlightConserved
    BY DEF TreeInv
<1> QED
    BY <1>1, TreeInvariant, PTL

\* A node that is still to be visited is in the hands of at most one thread.
THEOREM ExtensionExclusive == Spec => []ExtendedByOne
<1>1. TreeInv => ExtendedByOne
    BY DEF TreeInv
<1> QED
    BY <1>1, TreeInvariant, PTL

\* The visits of a node that is not decided are its first and those of its children.
THEOREM VisitCountsRight == Spec => []VisitsAddUp
<1>1. TreeInv => VisitsAddUp
    BY DEF TreeInv
<1> QED
    BY <1>1, TreeInvariant, PTL

\* What lies strictly below a node is what lies at its children or below.
LEMMA SumOverChildren ==
  ASSUME NEW v, \A y \in Node : v[y] \in Int, NEW x \in Node
  PROVE  SumFunctionOnSet(v, Below(x) \ {x})
           = SumFunctionOnSet([c \in Node |-> AtOrBelow(v, c)], Children(x))
<1> DEFINE g == [c \in Node |-> AtOrBelow(v, c)]
           K == Children(x)
           U(S) == UNION {Below(c) : c \in S}
           F == {S \in SUBSET K : SumFunctionOnSet(v, U(S)) # SumFunctionOnSet(g, S)}
<1>1. /\ K \in SUBSET Node /\ IsFiniteSet(K) /\ Below(x) \ {x} = U(K)
      /\ \A c, d \in K : c # d => Below(c) \cap Below(d) = {}
    BY ChildrenOf, BelowChildren
<1>2. \A c \in Node : /\ g[c] \in Int /\ g[c] = SumFunctionOnSet(v, Below(c))
                      /\ Below(c) \subseteq Node
  <2> SUFFICES ASSUME NEW c \in Node
               PROVE  /\ g[c] \in Int /\ g[c] = SumFunctionOnSet(v, Below(c))
                      /\ Below(c) \subseteq Node
      OBVIOUS
  <2>1. Below(c) \in SUBSET Node /\ IsFiniteSet(Below(c))
      BY BelowOf
  <2>2. SumFunctionOnSet(v, Below(c)) \in Int
      BY <2>1, SumIsInt
  <2> QED
      BY <2>1, <2>2 DEF AtOrBelow
<1>3. SUFFICES F = {}
    BY <1>1
<1>4. SUFFICES ASSUME F # {} PROVE FALSE
    OBVIOUS
<1>5. PICK S \in F : \A T \in SUBSET S : T # S => T \notin F
  <2>1. F \subseteq SUBSET K
      OBVIOUS
  <2> HIDE DEF F
  <2> QED
      BY <1>1, <1>4, <2>1, SmallestSubset
<1>6. S \in SUBSET K /\ SumFunctionOnSet(v, U(S)) # SumFunctionOnSet(g, S)
    OBVIOUS
<1>7. S # {}
  <2> SUFFICES ASSUME S = {} PROVE FALSE
      OBVIOUS
  <2>1. U(S) = {}
      OBVIOUS
  <2>2. SumFunctionOnSet(v, U(S)) = 0 /\ SumFunctionOnSet(g, S) = 0
      BY <2>1, SumOfNothing
  <2> QED
      BY <1>6, <2>2
<1>8. PICK c \in S : TRUE
    BY <1>7
<1> DEFINE T == S \ {c}
<1>9. T \in SUBSET S /\ T # S /\ T \in SUBSET K /\ c \in K /\ c \in Node
    BY <1>1, <1>6, <1>8
<1>10. SumFunctionOnSet(v, U(T)) = SumFunctionOnSet(g, T)
    BY <1>5, <1>9
<1>11. SumFunctionOnSet(g, S) = g[c] + SumFunctionOnSet(g, T)
  <2>1. IsFiniteSet(S) /\ \A d \in S : g[d] \in Int
      BY <1>1, <1>2, <1>6, FS_Subset
  <2> HIDE DEF g
  <2> QED
      BY <1>8, <2>1, SumTakes
<1>12. SumFunctionOnSet(v, U(S)) = SumFunctionOnSet(v, Below(c)) + SumFunctionOnSet(v, U(T))
  <2>1. U(S) = Below(c) \cup U(T)
      BY <1>8
  <2>2. Below(c) \cap U(T) = {}
    <3> SUFFICES ASSUME NEW d \in T PROVE Below(c) \cap Below(d) = {}
        OBVIOUS
    <3>1. d \in K /\ d # c
        BY <1>9
    <3> QED
        BY <1>1, <1>9, <3>1
  <2>3. Below(c) \in SUBSET Node /\ U(T) \in SUBSET Node
      BY <1>1, <1>2, <1>9
  <2> HIDE DEF U, T
  <2>4. IsFiniteSet(Below(c)) /\ IsFiniteSet(U(T))
      BY <2>3, FS_Subset, SearchTreeAssumption
  <2>5. \A y \in Below(c) \cup U(T) : v[y] \in Int
      BY <2>3
  <2> QED
      BY <2>1, <2>2, <2>4, <2>5, SumSplits
<1>13. g[c] = SumFunctionOnSet(v, Below(c))
    BY <1>2, <1>9
<1> QED
    BY <1>6, <1>10, <1>11, <1>12, <1>13

\* Where all that is in flight at a node is in flight at its children, none of these has
\* a collision.
LEMMA NoCollisionsBelow ==
  ASSUME NEW v \in Amounts, NEW c \in Amounts, NEW f,
         \A y \in Node : f[y] = Flight(v, c, y),
         NEW x \in Node, SumFunctionOnSet(f, Children(x)) = f[x],
         NEW k \in Children(x)
  PROVE  c[k] = 0
<1> DEFINE K == Children(x)
           gv == [y \in Node |-> AtOrBelow(v, y)]
           gc == [y \in Node |-> AtOrBelow(c, y)]
           h == [y \in Node |-> gv[y] + gc[y]]
<1>1. /\ K \in SUBSET Node /\ IsFiniteSet(K)
      /\ Below(x) \in SUBSET Node /\ x \in Below(x) /\ IsFiniteSet(Below(x))
    BY ChildrenOf, BelowOf
<1>2. /\ \A y \in Node : v[y] \in Nat /\ c[y] \in Nat
      /\ \A y \in Node : v[y] \in Int /\ c[y] \in Int
    BY DEF Amounts
<1>3. ASSUME NEW y \in Node
      PROVE  /\ AtOrBelow(v, y) \in Nat /\ StrictlyBelow(c, y) \in Nat
             /\ AtOrBelow(c, y) = c[y] + StrictlyBelow(c, y)
             /\ AtOrBelow(v, y) = v[y] + StrictlyBelow(v, y)
             /\ StrictlyBelow(v, y) \in Int
  <2>1. Below(y) \in SUBSET Node /\ IsFiniteSet(Below(y)) /\ y \in Below(y)
        /\ IsFiniteSet(Below(y) \ {y})
      BY BelowOf
  <2>2. \A z \in Below(y) : v[z] \in Int /\ c[z] \in Int
      BY <1>2, <2>1
  <2>3. /\ AtOrBelow(c, y) = c[y] + StrictlyBelow(c, y)
        /\ AtOrBelow(v, y) = v[y] + StrictlyBelow(v, y)
      BY <2>1, <2>2, SumTakes DEF AtOrBelow, StrictlyBelow
  <2>4. StrictlyBelow(v, y) \in Int
      BY <2>1, <2>2, SumIsInt DEF StrictlyBelow
  <2> QED
      BY <2>3, <2>4, FlightType
<1>4. /\ StrictlyBelow(v, x) = SumFunctionOnSet(gv, K)
      /\ StrictlyBelow(c, x) = SumFunctionOnSet(gc, K)
    BY <1>2, SumOverChildren DEF StrictlyBelow
<1>5. \A y \in K : /\ gv[y] \in Int /\ gc[y] \in Int /\ h[y] = gv[y] + gc[y] /\ h[y] \in Int
                   /\ f[y] \in Int /\ c[y] \in Nat /\ h[y] = f[y] + c[y]
  <2> SUFFICES ASSUME NEW y \in K
               PROVE  /\ gv[y] \in Int /\ gc[y] \in Int /\ h[y] = gv[y] + gc[y] /\ h[y] \in Int
                      /\ f[y] \in Int /\ c[y] \in Nat /\ h[y] = f[y] + c[y]
      OBVIOUS
  <2>1. y \in Node
      BY <1>1
  <2>2. f[y] = AtOrBelow(v, y) + StrictlyBelow(c, y)
      BY <2>1 DEF Flight
  <2>3. gv[y] = AtOrBelow(v, y) /\ gc[y] = AtOrBelow(c, y) /\ h[y] = gv[y] + gc[y]
      BY <2>1
  <2> QED
      BY <1>2, <1>3, <2>1, <2>2, <2>3
<1> HIDE DEF gv, gc, h, K
<1>6. SumFunctionOnSet(h, K) = SumFunctionOnSet(gv, K) + SumFunctionOnSet(gc, K)
    BY <1>1, <1>5, SumAdds
<1>7. SumFunctionOnSet(h, K) = SumFunctionOnSet(f, K) + SumFunctionOnSet(c, K)
    BY <1>1, <1>5, SumAdds
<1>8. f[x] = AtOrBelow(v, x) + StrictlyBelow(c, x)
    BY DEF Flight
<1>9. /\ SumFunctionOnSet(c, K) \in Nat /\ SumFunctionOnSet(f, K) \in Int
      /\ \A y \in K : c[y] <= SumFunctionOnSet(c, K)
    BY <1>1, <1>5, SumIsNat, SumIsInt
<1>10. SumFunctionOnSet(c, K) = 0 - v[x]
    BY <1>2, <1>3, <1>4, <1>6, <1>7, <1>8, <1>9 DEF K
<1>11. k \in K /\ c[k] \in Nat /\ c[k] <= SumFunctionOnSet(c, K)
    BY <1>5, <1>9 DEF K
<1> QED
    BY <1>2, <1>9, <1>10, <1>11

\* MakeSolid() moves a node only when no worker holds a visit of it or a collision.
LEMMA SolidStep ==
  ASSUME TreeInv, TreeInv', [Next]_vars, NEW c \in Node \ {Root}, Parent[c] \in solid' \ solid
  PROVE  ~Held(c)'
<1> USE DEF Amounts
<1>1. PICK w \in Worker, x \in Node : BackUp(w, x)
  <2>1. solid' # solid
      OBVIOUS
  <2> QED
      BY <2>1 DEF Next, WorkerStep, PickNodesToExtend, Processed, RevertDone, GatherAgain,
                  CollectCollisions, LockToBackUp, BackupDone, ExtendNode, ProbeTablebase,
                  ClearOwnEdge, RevertCollision, UpsizeCollision, DestroySearch, Terminated,
                  vars, tree
<1> DEFINE y == Parent[c]
<1>2. /\ y \in Path[x] /\ MayMakeSolid(y, n', in_flight')
      /\ y \in Node /\ c \in Children(y)
  <2>1. solid' = solid \cup {z \in Path[x] : /\ status'[z] = "edges"
                                          /\ n'[z] >= SolidTreeThreshold
                                          /\ MayMakeSolid(z, n', in_flight')}
      BY <1>1 DEF BackUp
  <2> QED
      BY <2>1, ParentType DEF Children
<1>3. HandsTyped'
    BY DEF TreeInv, TypeOK, HandsTyped
<1>4. /\ (PendingVisits \in Amounts /\ PendingCollisions \in Amounts)'
      /\ PendingVisits' \in [Node -> Nat] /\ PendingCollisions' \in [Node -> Nat]
    BY <1>3, PendingTypedNext
<1>5. \A z \in Node : in_flight'[z] = Flight(PendingVisits', PendingCollisions', z)
    BY DEF TreeInv, FlightConserved, Flight
<1>6. PendingCollisions'[c] = 0
    BY <1>2, <1>4, <1>5, NoCollisionsBelow DEF MayMakeSolid
<1>7. PendingVisits'[c] = 0
  <2> SUFFICES ASSUME PendingVisits'[c] # 0 PROVE FALSE
      OBVIOUS
  <2>1. PendingVisits'[c] > 0
      BY <1>4
  <2>2. in_flight'[c] > 0
    <3>1. /\ PendingVisits'[c] <= Flight(PendingVisits', PendingCollisions', c)
          /\ Flight(PendingVisits', PendingCollisions', c) \in Nat
          /\ PendingVisits'[c] \in Nat
        BY <1>4, FlightType
    <3> QED
        BY <1>5, <2>1, <3>1
  <2>3. n'[c] > 1 /\ status[c] # "terminal"
      BY <1>2, <2>2 DEF MayMakeSolid
  <2>4. n'[c] = 0 \/ status'[c] = "terminal"
      BY <2>1 DEF TreeInv, PendingAtFrontier
  <2>5. status'[c] = "terminal"
      BY <2>3, <2>4
  <2>6. c \in Above(x)
    <3>1. PICK decided \in SUBSET Decidable(x) :
            status' = [z \in Node |-> IF z \in decided THEN "terminal" ELSE status[z]]
        BY <1>1 DEF BackUp
    <3> QED
        BY <2>3, <2>5, <3>1 DEF Decidable
  <2>7. n[c] > 0
      BY <1>1, <2>6, BackUpAt
  <2>8. PendingVisits[c] > 0
    <3>1. PendingVisits'[c] = PendingVisits[c] - (IF c = x THEN 1 ELSE 0)
        BY <1>1, BackUpChanges
    <3>2. PendingVisits[c] \in Nat
        BY PendingTyped DEF TreeInv, TypeOK, HandsTyped
    <3> QED
        BY <2>1, <3>1, <3>2
  <2> QED
      BY <2>3, <2>7, <2>8 DEF TreeInv, PendingAtFrontier
<1> QED
    BY <1>6, <1>7 DEF Held

\* node.cc:247: the nodes that MakeSolid() moves to another place in memory are in no
\* worker's hands, neither to be visited nor with a collision.
THEOREM SolidSafe == Spec => SolidMovesNoHeldNode
<1>1. TreeInv /\ TreeInv' /\ [Next]_vars =>
        [\A c \in Node \ {Root} : Parent[c] \in solid' \ solid => ~Held(c)']_vars
    BY SolidStep
<1> QED
    BY <1>1, TreeInvariant, PTL DEF Spec, SolidMovesNoHeldNode

\* Nobody leaves a search with full hands.
EmptyAtEnd ==
  \A w \in Worker :
    /\ pc[w] \in {"done", "gone"} => minibatch[w] = Nobody
    /\ pc[w] \in {"compute", "backup", "done", "gone"} => collisions[w] = Nobody
    /\ pc[w] = "gone" =>
         shared_collisions = Nobody /\ \A v \in Worker : pc[v] = "gone"

\* The search is gone: n_in_flight_ is 0 everywhere.
NothingInFlightAtEnd == \A w \in Worker : pc[w] = "gone" => in_flight = Nobody

\* It is inductive together with the invariant of the tree.
LEMMA EmptyAtEndStep == TreeInv /\ EmptyAtEnd /\ [Next]_vars => EmptyAtEnd'
<1> SUFFICES ASSUME TreeInv, EmptyAtEnd, [Next]_vars PROVE EmptyAtEnd'
    OBVIOUS
<1>1. TypeOK /\ RoundsSeparate
    BY DEF TreeInv
<1>2. ASSUME NEW w \in Worker, WorkerStep(w) PROVE EmptyAtEnd'
  <2> DEFINE OthersKeep == \A v \in Worker : v # w => /\ pc'[v] = pc[v]
                                                      /\ minibatch'[v] = minibatch[v]
                                                      /\ collisions'[v] = collisions[v]
  <2>1. pc[w] \notin {"done", "gone"} /\ OthersKeep
    <3>1. CASE PickNodesToExtend(w) \/ Processed(w)
        BY <1>1, <3>1 DEF TypeOK, PickNodesToExtend, Processed, Goto
    <3>2. CASE RevertDone(w) \/ LockToBackUp(w) \/ BackupDone(w)
        BY <1>1, <3>2 DEF TypeOK, RevertDone, LockToBackUp, BackupDone, Goto, gathered
    <3>3. CASE GatherAgain(w) \/ CollectCollisions(w)
        BY <1>1, <3>3 DEF TypeOK, GatherAgain, CollectCollisions, Goto
    <3>4. ASSUME NEW x \in Node, ExtendNode(w, x) \/ ProbeTablebase(w, x) \/ ClearOwnEdge(w, x)
          PROVE  pc[w] \notin {"done", "gone"} /\ OthersKeep
        BY <1>1, <3>4 DEF ExtendNode, ProbeTablebase, ClearOwnEdge, Extending, gathered
    <3>5. ASSUME NEW x \in Node, RevertCollision(w, x) \/ UpsizeCollision(w, x)
          PROVE  pc[w] \notin {"done", "gone"} /\ OthersKeep
        BY <1>1, <3>5 DEF RevertCollision, UpsizeCollision
    <3>6. ASSUME NEW x \in Node, BackUp(w, x)
          PROVE  pc[w] \notin {"done", "gone"} /\ OthersKeep
        BY <1>1, <3>6 DEF BackUp, BackedUp, TypeOK
    <3> QED
        BY <1>2, <3>1, <3>2, <3>3, <3>4, <3>5, <3>6 DEF WorkerStep
  <2>2. /\ \A v \in Worker : pc[v] # "gone"
        /\ \A v \in Worker : v # w => pc'[v] # "gone"
      BY <2>1 DEF EmptyAtEnd
  <2>3. /\ pc'[w] # "gone"
        /\ pc'[w] = "done" => minibatch'[w] = Nobody
        /\ pc'[w] \in {"compute", "backup", "done"} => collisions'[w] = Nobody
    <3>1. CASE PickNodesToExtend(w) \/ Processed(w) \/ GatherAgain(w)
        BY <1>1, <3>1 DEF TypeOK, PickNodesToExtend, Processed, GatherAgain, Goto
    <3>2. CASE RevertDone(w) \/ LockToBackUp(w) \/ BackupDone(w)
        BY <1>1, <3>2 DEF TypeOK, RevertDone, LockToBackUp, BackupDone, Goto, gathered,
                          EmptyAtEnd
    <3>3. CASE CollectCollisions(w)
        BY <1>1, <3>3 DEF TypeOK, CollectCollisions, Goto
    <3>4. ASSUME NEW x \in Node, ExtendNode(w, x) \/ ProbeTablebase(w, x) \/ ClearOwnEdge(w, x)
          PROVE  pc'[w] = "process"
        BY <3>4 DEF ExtendNode, ProbeTablebase, ClearOwnEdge, Extending
    <3>5. ASSUME NEW x \in Node, RevertCollision(w, x) \/ UpsizeCollision(w, x)
          PROVE  pc'[w] \in {"revert", "check"}
        BY <3>5 DEF RevertCollision, UpsizeCollision
    <3>6. ASSUME NEW x \in Node, BackUp(w, x)
          PROVE  /\ pc'[w] \in {"revert", "backup"} /\ pc'[w] = pc[w]
                 /\ collisions' = collisions
        BY <3>6 DEF BackUp
    <3> QED
        BY <1>2, <3>1, <3>2, <3>3, <3>4, <3>5, <3>6 DEF WorkerStep, EmptyAtEnd
  <2> QED
      BY <2>1, <2>2, <2>3 DEF EmptyAtEnd
<1>3. CASE DestroySearch
    BY <1>3 DEF DestroySearch, EmptyAtEnd
<1>4. CASE Terminated \/ UNCHANGED vars
    BY <1>4 DEF Terminated, vars, tree, gathered, EmptyAtEnd
<1> QED
    BY <1>2, <1>3, <1>4 DEF Next

\* search.cc, ~Search(): when the search is gone, no virtual loss is left in the tree the
\* next search starts from.
THEOREM NothingLeftInFlight == Spec => []NothingInFlightAtEnd
<1>1. Init => EmptyAtEnd
    BY DEF Init, EmptyAtEnd
<1>2. TreeInv /\ EmptyAtEnd => NothingInFlightAtEnd
  <2> SUFFICES ASSUME TreeInv, EmptyAtEnd, NEW w \in Worker, pc[w] = "gone"
               PROVE  in_flight = Nobody
      BY DEF NothingInFlightAtEnd
  <2>1. /\ shared_collisions = Nobody
        /\ \A v \in Worker : /\ picked[v] = Nobody /\ minibatch[v] = Nobody
                             /\ collided[v] = Nobody /\ collisions[v] = Nobody
      BY DEF EmptyAtEnd, TreeInv, RoundsSeparate
  <2>2. \A x \in Node : in_flight[x] = 0
      BY <2>1, EmptyHands DEF TreeInv, FlightConserved, Flight
  <2>3. in_flight = [x \in Node |-> in_flight[x]]
      BY DEF TreeInv, TypeOK, Amounts
  <2> QED
      BY <2>2, <2>3 DEF Nobody
<1> QED
    BY <1>1, <1>2, EmptyAtEndStep, TreeInvariant, PTL DEF Spec
===============================================================================
