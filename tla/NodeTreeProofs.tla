----------------------------- MODULE NodeTreeProofs -----------------------------
(***************************************************************************)
(* The repetition counters of a history are right after every move, for    *)
(* any graph of boards with the three properties that position.cc relies   *)
(* on: the loop that steps back by two plies, starts four plies back and   *)
(* stops at captures and pawn moves misses no earlier occurrence. And      *)
(* whatever callers, searches and the collecting thread do to the tree of  *)
(* a game: the counters of its history are right; each node has one owner, *)
(* points to its parent and is found at one edge; the head is the position *)
(* that was asked for; visits add up, and bounds are justified.            *)
(*                                                                         *)
(* The invariant is TreeInv. It speaks of histories that are in no state:  *)
(* the positions that led to each node in memory. From their lengths it    *)
(* follows that no node is below itself, so that subtrees, paths and sums  *)
(* of visits can be reasoned about.                                        *)
(***************************************************************************)
EXTENDS NodeTree, FiniteSetTheorems, SequenceTheorems, TLAPS

-----------------------------------------------------------------------------
(* Histories of positions.                                                 *)

Pos == [board : Board, rule50 : Nat, repetitions : Nat, cycle : Nat]

\* How two positions of a game are related, as far as counting depends on it.
Related(p, q, plies) ==
  /\ (Black[p.board] = Black[q.board]) <=> (plies % 2 = 0)
  /\ Stage[p.board] <= Stage[q.board]
  /\ q.rule50 >= plies \/ Stage[p.board] < Stage[q.board]
  /\ plies = 1 => \E m \in Move : /\ <<p.board, m>> \in DOMAIN After
                                  /\ q.board = After[<<p.board, m>>]
  /\ plies = 2 => p.board # q.board

\* A history of a game: one position or more, each one move after the last.
Linked(h) ==
  /\ h \in Seq(Pos) /\ Len(h) > 0
  /\ \A i, j \in 1..Len(h) : i < j => Related(h[i], h[j], j - i)

-----------------------------------------------------------------------------
\* The arithmetic of plies: every other ply belongs to the same side.
LEMMA Parity ==
  /\ 1 % 2 # 0
  /\ \A d \in Nat : ((d + 1) % 2 = 0) <=> ~(d % 2 = 0)
  /\ \A d \in Nat : d % 2 = 0 /\ d # 0 /\ d # 2 => d >= 4
OBVIOUS

\* The places of a history that got one position more.
LEMMA Appended ==
  ASSUME NEW s \in Seq(Pos), NEW t \in Pos
  PROVE  /\ Append(s, t) \in Seq(Pos) /\ Len(Append(s, t)) = Len(s) + 1
         /\ \A i \in 1..Len(s) : Append(s, t)[i] = s[i]
         /\ Append(s, t)[Len(s) + 1] = t
OBVIOUS

\* The position after a legal move.
LEMMA MoveMade ==
  ASSUME NEW p \in Pos, NEW m \in LegalMoves(p.board)
  PROVE  /\ AfterMove(p, m) \in Pos
         /\ AfterMove(p, m).board = After[<<p.board, m>>]
         /\ AfterMove(p, m).repetitions = 0 /\ AfterMove(p, m).cycle = 0
         /\ Related(p, AfterMove(p, m), 1)
<1> DEFINE q == AfterMove(p, m)
           x == <<p.board, m>>
<1>1. x \in DOMAIN After /\ p.board \in Board /\ m \in Move /\ p.rule50 \in Nat
    BY DEF LegalMoves, Pos
<1>2. After[x] \in Board  BY <1>1, PositionAssumption
<1>3. q = [board |-> After[x], rule50 |-> IF x \in Zeroing THEN 0 ELSE p.rule50 + 1,
           repetitions |-> 0, cycle |-> 0]
    BY DEF AfterMove, Position
<1>4. q.board = After[x] /\ q.repetitions = 0 /\ q.cycle = 0
      /\ q.rule50 = IF x \in Zeroing THEN 0 ELSE p.rule50 + 1
    BY <1>3
<1>5. Black[After[x]] = ~Black[p.board] /\ Black[p.board] \in BOOLEAN
    BY <1>1, PositionAssumption
<1>6. /\ IF x \in Zeroing THEN Stage[After[x]] > Stage[p.board]
         ELSE Stage[After[x]] = Stage[p.board]
      /\ Stage[After[x]] \in Nat /\ Stage[p.board] \in Nat
    BY <1>1, <1>2, PositionAssumption
<1>7. Black[p.board] # Black[q.board]  BY <1>4, <1>5
<1>8. Stage[p.board] <= Stage[q.board]  BY <1>4, <1>6
<1>9. q.rule50 >= 1 \/ Stage[p.board] < Stage[q.board]  BY <1>1, <1>4, <1>6
<1>10. Related(p, q, 1)  BY <1>1, <1>4, <1>7, <1>8, <1>9, Parity DEF Related
<1> QED  BY <1>1, <1>2, <1>3, <1>4, <1>10 DEF Pos

\* The relation of positions is passed on over a move.
LEMMA RelatedOn ==
  ASSUME NEW p \in Pos, NEW q \in Pos, NEW n \in Nat \ {0}, Related(p, q, n),
         NEW m \in LegalMoves(q.board)
  PROVE  Related(p, AfterMove(q, m), n + 1)
<1> DEFINE r == AfterMove(q, m)
           x == <<q.board, m>>
<1>1. x \in DOMAIN After /\ q.board \in Board /\ p.board \in Board /\ m \in Move
      /\ q.rule50 \in Nat
    BY DEF LegalMoves, Pos
<1>2. After[x] \in Board  BY <1>1, PositionAssumption
<1>3. /\ r.board = After[x]
      /\ r.rule50 = IF x \in Zeroing THEN 0 ELSE q.rule50 + 1
    BY DEF AfterMove, Position
<1>4. Black[r.board] = ~Black[q.board] /\ Black[q.board] \in BOOLEAN
      /\ Black[p.board] \in BOOLEAN
  <2>1. Black[After[x]] = ~Black[q.board] /\ Black[q.board] \in BOOLEAN
      BY <1>1, PositionAssumption
  <2>2. Black[p.board] \in BOOLEAN  BY <1>1, PositionAssumption
  <2> QED  BY <1>3, <2>1, <2>2
<1>5. /\ IF x \in Zeroing THEN Stage[r.board] > Stage[q.board]
         ELSE Stage[r.board] = Stage[q.board]
      /\ Stage[r.board] \in Nat /\ Stage[p.board] \in Nat /\ Stage[q.board] \in Nat
  <2>1. /\ IF x \in Zeroing THEN Stage[After[x]] > Stage[q.board]
           ELSE Stage[After[x]] = Stage[q.board]
        /\ Stage[After[x]] \in Nat /\ Stage[q.board] \in Nat
      BY <1>1, <1>2, PositionAssumption
  <2>2. Stage[p.board] \in Nat  BY <1>1, PositionAssumption
  <2> QED  BY <1>3, <2>1, <2>2
<1>6. Stage[p.board] <= Stage[q.board]
      /\ (q.rule50 >= n \/ Stage[p.board] < Stage[q.board])
    BY DEF Related
<1>7. Stage[p.board] <= Stage[r.board]  BY <1>5, <1>6
<1>8. r.rule50 >= n + 1 \/ Stage[p.board] < Stage[r.board]  BY <1>1, <1>3, <1>5, <1>6
<1>9. ASSUME n + 1 = 2 PROVE p.board # r.board
  <2>1. PICK l \in Move : <<p.board, l>> \in DOMAIN After /\ q.board = After[<<p.board, l>>]
      BY <1>9 DEF Related
  <2>2. <<p.board, l>>[1] = p.board /\ <<After[<<p.board, l>>], m>> \in DOMAIN After
      BY <1>1, <2>1
  <2>3. After[<<After[<<p.board, l>>], m>>] # <<p.board, l>>[1]
      BY <1>1, <2>1, <2>2, PositionAssumption
  <2> QED  BY <1>3, <2>1, <2>2, <2>3
<1> QED  BY <1>4, <1>7, <1>8, <1>9, Parity DEF Related

\* Appending a position that is a move after the last one keeps a history.
LEMMA LinkedOn ==
  ASSUME NEW h, Linked(h), NEW m \in LegalMoves(Latest(h).board)
  PROVE  Linked(Append(h, AfterMove(Latest(h), m)))
<1> DEFINE q == AfterMove(Latest(h), m)
           g == Append(h, q)
           n == Len(h)
<1>1. h \in Seq(Pos) /\ n \in Nat /\ n > 0 /\ n \in 1..n  BY DEF Linked
<1>2. Latest(h) = h[n] /\ h[n] \in Pos  BY <1>1 DEF Latest
<1>3. q \in Pos /\ Related(h[n], q, 1)  BY <1>2, MoveMade
<1>4. /\ g \in Seq(Pos) /\ Len(g) = n + 1
      /\ \A i \in 1..n : g[i] = h[i]
      /\ g[n + 1] = q
    BY <1>1, <1>3, Appended
<1>5. ASSUME NEW i \in 1..Len(g), NEW j \in 1..Len(g), i < j
      PROVE  Related(g[i], g[j], j - i)
  <2> HIDE DEF q, g
  <2>1. CASE j # n + 1  BY <1>1, <1>4, <1>5, <2>1 DEF Linked
  <2>2. CASE j = n + 1 /\ i = n  BY <1>1, <1>3, <1>4, <2>2
  <2>3. CASE j = n + 1 /\ i # n  BY <1>1, <1>2, <1>4, <1>5, <2>3, RelatedOn DEF Linked, q
  <2> QED  BY <1>1, <1>4, <1>5, <2>1, <2>2, <2>3
<1> QED  BY <1>1, <1>4, <1>5 DEF Linked

\* A set of indices that is not empty has a largest one.
LEMMA LargestIndex ==
  ASSUME NEW k \in Nat, NEW S \in SUBSET (1..k), S # {}
  PROVE  Max(S) \in S /\ \A i \in S : Max(S) >= i
<1> DEFINE T == {i..k : i \in S}
<1>1. T \subseteq FiniteSubsetsOf(Nat)  BY FS_Interval DEF FiniteSubsetsOf
<1>2. T # {}  OBVIOUS
<1>3. \E x \in T : \A y \in T : ~ (<<y, x>> \in StrictSubsetOrdering(Nat))
  <2> HIDE DEF T
  <2> QED  BY <1>1, <1>2, WFMin, FS_StrictSubsetOrderingWellFounded
<1>4. PICK a \in S : \A i \in S : ~ (<<i..k, a..k>> \in StrictSubsetOrdering(Nat))  BY <1>3
<1>5. ASSUME NEW i \in S PROVE a >= i
  <2> SUFFICES ASSUME a < i PROVE FALSE  OBVIOUS
  <2>1. <<i..k, a..k>> \in StrictSubsetOrdering(Nat)  BY DEF StrictSubsetOrdering
  <2> QED  BY <1>4, <2>1
<1> QED  BY <1>5 DEF Max

-----------------------------------------------------------------------------
\* Where a board occurred before, the loop looks, and it has not stopped before.
LEMMA LoopReaches ==
  ASSUME NEW g, Linked(g), NEW i \in Occurrences(g, Len(g))
  PROVE  /\ i \in Candidates(g) /\ Latest(g).rule50 >= 4
         /\ \A j \in Candidates(g) : j > i => g[j].rule50 >= 2
<1> DEFINE k == Len(g)
<1>1. /\ g \in Seq(Pos) /\ k \in Nat /\ i \in 1..(k - 1) /\ i \in 1..k /\ k \in 1..k
      /\ i < k /\ g[i].board = g[k].board
    BY DEF Linked, Occurrences
<1>2. \A j \in 1..k : g[j] \in Pos /\ g[j].board \in Board /\ g[j].rule50 \in Nat
  <2>1. \A p \in Pos : p.board \in Board /\ p.rule50 \in Nat  BY DEF Pos
  <2> QED  BY <1>1, <2>1
<1>3. \A j \in 1..k : Stage[g[j].board] \in Nat  BY <1>2, PositionAssumption
<1>4. (k - i) % 2 = 0 /\ k - i # 2 /\ g[k].rule50 >= k - i
    BY <1>1, <1>3 DEF Related, Linked
<1>5. k - i >= 4  BY <1>1, <1>4, Parity
<1>6. ASSUME NEW j \in Candidates(g), j > i PROVE g[j].rule50 >= 2
  <2>1. j \in 1..k /\ j < k /\ (k - j) % 2 = 0 /\ k - j \in Nat  BY <1>1 DEF Candidates
  <2>2. j - i # 1  BY <1>1, <1>4, <2>1, Parity
  <2>3. g[j].rule50 >= j - i  BY <1>1, <1>3, <1>6, <2>1 DEF Related, Linked
  <2> QED  BY <1>1, <1>2, <1>6, <2>1, <2>2, <2>3
<1> QED  BY <1>1, <1>2, <1>4, <1>5, <1>6 DEF Candidates, Latest

\* The loop finds the latest earlier occurrence, and nothing if there is none.
LEMMA LoopFindsLatest ==
  ASSUME NEW g, Linked(g)
  PROVE  Repeated(g) = IF Occurrences(g, Len(g)) = {} THEN {}
                       ELSE {Max(Occurrences(g, Len(g)))}
<1> DEFINE k == Len(g)
           O == Occurrences(g, k)
<1>1. k \in Nat /\ O \in SUBSET (1..k)  BY DEF Linked, Occurrences
<1>2. Repeated(g) \subseteq O  BY <1>1 DEF Repeated, Candidates, Occurrences, Latest
<1>3. CASE O = {}  BY <1>2, <1>3
<1>4. CASE O # {}
  <2> DEFINE M == Max(O)
  <2>1. M \in O /\ \A i \in O : M >= i  BY <1>1, <1>4, LargestIndex
  <2> HIDE DEF M
  <2>2. /\ M \in Candidates(g) /\ Latest(g).rule50 >= 4
        /\ \A j \in Candidates(g) : j > M => g[j].rule50 >= 2
      BY <2>1, LoopReaches
  <2>3. g[M].board = Latest(g).board  BY <2>1 DEF Occurrences, Latest
  <2>4. ASSUME NEW j \in Candidates(g), j > M PROVE g[j].board # Latest(g).board
      BY <1>1, <2>1, <2>4 DEF Candidates, Occurrences, Latest
  <2>5. ~(Latest(g).rule50 < 4)
    <3>1. Latest(g).rule50 \in Nat
      <4>1. g[k] \in Pos  BY DEF Linked
      <4> QED  BY <4>1 DEF Pos, Latest
    <3> QED  BY <2>2, <3>1
  <2>6. ASSUME NEW i \in Repeated(g) PROVE i = M
      BY <1>1, <1>2, <2>1, <2>2, <2>3 DEF Repeated
  <2>7. Repeated(g) = {M}  BY <2>2, <2>3, <2>4, <2>5, <2>6 DEF Repeated
  <2> QED  BY <1>4, <2>7 DEF M
<1> QED  BY <1>3, <1>4

\* The counters of the k-th position are right.
RightAt(h, k) ==
  /\ h[k].repetitions = Cardinality(Occurrences(h, k))
  /\ h[k].cycle = SinceLast(h, k)

\* Where the latest earlier occurrence is M, there is one occurrence more than before M.
LEMMA OneOccurrenceMore ==
  ASSUME NEW g, Linked(g), NEW k \in 1..Len(g), Occurrences(g, k) # {}
  PROVE  LET M == Max(Occurrences(g, k)) IN
         /\ M \in 1..(k - 1) /\ g[M].board = g[k].board
         /\ Cardinality(Occurrences(g, k)) = 1 + Cardinality(Occurrences(g, M))
<1> DEFINE O == Occurrences(g, k)
           M == Max(O)
<1>1. k \in Nat /\ O \in SUBSET (1..k)  BY DEF Linked, Occurrences
<1>2. M \in O /\ \A i \in O : M >= i  BY <1>1, LargestIndex
<1> HIDE DEF M
<1>3. M \in 1..(k - 1) /\ M \in Int /\ g[M].board = g[k].board
    BY <1>1, <1>2 DEF Occurrences
<1>4. O = Occurrences(g, M) \cup {M}  BY <1>1, <1>2, <1>3 DEF Occurrences
<1>5. IsFiniteSet(Occurrences(g, M))
  <2>1. IsFiniteSet(1..(M - 1))  BY <1>3, FS_Interval
  <2>2. Occurrences(g, M) \in SUBSET (1..(M - 1))  BY DEF Occurrences
  <2> QED  BY <2>1, <2>2, FS_Subset
<1>6. M \notin Occurrences(g, M)  BY <1>3 DEF Occurrences
<1>7. Cardinality(O) = 1 + Cardinality(Occurrences(g, M))
    BY <1>4, <1>5, <1>6, FS_CardinalityType, FS_AddElement
<1> QED  BY <1>3, <1>7 DEF M

\* The new position gets the right counters from the loop, if the earlier ones have theirs.
LEMMA LoopCounts ==
  ASSUME NEW g, Linked(g), Latest(g).repetitions = 0, Latest(g).cycle = 0,
         \A k \in 1..(Len(g) - 1) : RightAt(g, k)
  PROVE  LET c == CountRepetitions(g)
             O == Occurrences(g, Len(g)) IN
         /\ c \in Pos
         /\ c.board = Latest(g).board /\ c.rule50 = Latest(g).rule50
         /\ c.repetitions = Cardinality(O)
         /\ c.cycle = SinceLast(g, Len(g))
<1> DEFINE k == Len(g)
           c == CountRepetitions(g)
           O == Occurrences(g, k)
           p == Latest(g)
<1>1. g \in Seq(Pos) /\ k \in Nat /\ k \in 1..k /\ p = g[k]  BY DEF Linked, Latest
<1>2. p \in Pos  BY <1>1
<1>3. CASE O = {}
    BY <1>2, <1>3, LoopFindsLatest, FS_EmptySet DEF CountRepetitions, SinceLast
<1>4. CASE O # {}
  <2> DEFINE M == Max(O)
  <2>1. /\ M \in 1..(k - 1) /\ g[M].board = g[k].board
        /\ Cardinality(O) = 1 + Cardinality(Occurrences(g, M))
      BY <1>1, <1>4, OneOccurrenceMore
  <2>2. Repeated(g) = {M}  BY <1>4, LoopFindsLatest
  <2> HIDE DEF M
  <2>3. c = [p EXCEPT !.repetitions = 1 + g[M].repetitions, !.cycle = k - M]
    <3>1. Repeated(g) # {} /\ (CHOOSE i \in Repeated(g) : TRUE) = M  BY <2>2
    <3> QED  BY <3>1 DEF CountRepetitions
  <2>4. M \in 1..k /\ k - M \in Nat  BY <1>1, <2>1
  <2>5. g[M] \in Pos  BY <1>1, <2>4
  <2>6. 1 + g[M].repetitions \in Nat  BY <2>5 DEF Pos
  <2>7. c \in Pos /\ c.board = p.board /\ c.rule50 = p.rule50
        /\ c.repetitions = 1 + g[M].repetitions /\ c.cycle = k - M
      BY <1>2, <2>3, <2>4, <2>6 DEF Pos
  <2> QED  BY <1>4, <2>1, <2>7 DEF SinceLast, M, RightAt
<1> QED  BY <1>3, <1>4

\* Two histories with the same boards and counters up to a position agree on being right.
LEMMA SameBoards ==
  ASSUME NEW g, NEW h, NEW k \in Nat, \A i \in 1..k : g[i].board = h[i].board
  PROVE  /\ Occurrences(g, k) = Occurrences(h, k)
         /\ SinceLast(g, k) = SinceLast(h, k)
         /\ g[k] = h[k] => (RightAt(g, k) <=> RightAt(h, k))
<1>1. Occurrences(g, k) = Occurrences(h, k)  BY DEF Occurrences
<1> QED  BY <1>1 DEF RightAt, SinceLast

-----------------------------------------------------------------------------
\* A game starts with one position that has not occurred before (Reset(), position.cc:117).
THEOREM StartHasRightCounters ==
  ASSUME NEW board \in Board, NEW rule50 \in Nat
  PROVE  Linked(<<Position(board, rule50)>>) /\ CountersRight(<<Position(board, rule50)>>)
<1> DEFINE p == Position(board, rule50)
           h == <<p>>
<1>1. p \in Pos /\ p.repetitions = 0 /\ p.cycle = 0  BY DEF Position, Pos
<1> HIDE DEF p
<1>2. h \in Seq(Pos) /\ Len(h) = 1 /\ h[1] = p  BY <1>1
<1> HIDE DEF h
<1>3. Occurrences(h, 1) = {}  BY DEF Occurrences
<1>4. Cardinality(Occurrences(h, 1)) = 0  BY <1>3, FS_EmptySet
<1>5. CountersRight(h)  BY <1>1, <1>2, <1>3, <1>4 DEF CountersRight, SinceLast
<1> QED  BY <1>2, <1>5 DEF h, p, Linked

\* However a game goes on, the counters of every position are right after Append()
\* (position.cc:127): how often its board occurred before, and how long ago.
THEOREM AppendKeepsCounters ==
  ASSUME NEW h, Linked(h), CountersRight(h), NEW m \in LegalMoves(Latest(h).board)
  PROVE  /\ Linked(AppendMove(h, m)) /\ CountersRight(AppendMove(h, m))
         /\ Latest(AppendMove(h, m)).board = After[<<Latest(h).board, m>>]
<1> DEFINE q == AfterMove(Latest(h), m)
           g == Append(h, q)
           n == Len(h)
           c == CountRepetitions(g)
           r == AppendMove(h, m)
<1>1. h \in Seq(Pos) /\ n \in Nat /\ n > 0 /\ n \in 1..n  BY DEF Linked
<1>2. q \in Pos /\ q.repetitions = 0 /\ q.cycle = 0
      /\ q.board = After[<<Latest(h).board, m>>]
    BY <1>1, MoveMade DEF Latest
<1>3. Linked(g)  BY LinkedOn
<1>4. /\ g \in Seq(Pos) /\ Len(g) = n + 1
      /\ \A i \in 1..n : g[i] = h[i]
      /\ g[n + 1] = q
    BY <1>1, <1>2, Appended
<1>5. r = [g EXCEPT ![Len(g)] = c]  BY DEF AppendMove
<1>6. Latest(g) = q  BY <1>4 DEF Latest
<1> HIDE DEF q, g, c, r
<1>7. ASSUME NEW k \in 1..n PROVE RightAt(g, k)
  <2>1. k \in Nat /\ \A i \in 1..k : i \in 1..n  BY <1>1
  <2>2. g[k] = h[k]  BY <1>4
  <2> QED  BY <1>4, <2>1, <2>2, SameBoards DEF CountersRight, RightAt
<1>8. /\ c \in Pos /\ c.board = q.board /\ c.rule50 = q.rule50
      /\ c.repetitions = Cardinality(Occurrences(g, n + 1))
      /\ c.cycle = SinceLast(g, n + 1)
    BY <1>1, <1>2, <1>3, <1>4, <1>6, <1>7, LoopCounts DEF c
<1>9. /\ r \in Seq(Pos) /\ Len(r) = n + 1
      /\ \A i \in 1..n : r[i] = g[i]
      /\ r[n + 1] = c
    BY <1>1, <1>4, <1>5, <1>8
<1>10. \A i \in 1..(n + 1) : r[i].board = g[i].board /\ r[i].rule50 = g[i].rule50
    BY <1>1, <1>4, <1>8, <1>9
<1>11. Linked(r)
  <2>1. ASSUME NEW i \in 1..Len(r), NEW j \in 1..Len(r), i < j
        PROVE  Related(r[i], r[j], j - i)
    <3>1. r[i].board = g[i].board /\ r[j].board = g[j].board /\ r[j].rule50 = g[j].rule50
        BY <1>9, <1>10
    <3> QED  BY <1>3, <1>4, <1>9, <2>1, <3>1 DEF Related, Linked
  <2> QED  BY <1>1, <1>9, <2>1 DEF Linked
<1>12. ASSUME NEW k \in 1..Len(r) PROVE RightAt(r, k)
    BY <1>1, <1>7, <1>8, <1>9, <1>10, SameBoards DEF SinceLast, RightAt
<1>13. Latest(r).board = After[<<Latest(h).board, m>>]  BY <1>2, <1>8, <1>9 DEF Latest
<1> QED  BY <1>11, <1>12, <1>13 DEF r, CountersRight, RightAt

-----------------------------------------------------------------------------
(* The history of a tree.                                                  *)

\* The history, once there is one, is that of a game and has the right counters.
HistoryRight == history_ = <<>> \/ (Linked(history_) /\ CountersRight(history_))

\* A tree has a history.
TreeHasHistory == gamebegin_node_ # None => history_ # <<>>

\* The moves still to make are legal where the history stands.
TodoLegal ==
  pc \in {"moving", "create"} =>
    /\ history_ # <<>> /\ todo \in Seq(Move) /\ todo # <<>>
    /\ LegalLine(Latest(history_).board, todo)

HistoryInv == HistoryRight /\ TreeHasHistory /\ TodoLegal

-----------------------------------------------------------------------------
\* After the first move of a line the others are legal.
LEMMA LineGoesOn ==
  ASSUME NEW board \in Board, NEW moves \in Seq(Move), moves # <<>>, LegalLine(board, moves)
  PROVE  /\ Head(moves) \in LegalMoves(board)
         /\ Tail(moves) \in Seq(Move)
         /\ LegalLine(After[<<board, Head(moves)>>], Tail(moves))
<1> DEFINE n == Len(moves)
           rest == Tail(moves)
<1>1. /\ n \in Nat /\ n > 0 /\ 1 \in 1..n /\ Head(moves) = moves[1]
      /\ rest \in Seq(Move) /\ Len(rest) = n - 1
      /\ \A i \in 1..(n - 1) : rest[i] = moves[i + 1]
    OBVIOUS
<1>2. PICK after \in [1..n -> Board] :
        \A i \in 1..n :
          /\ moves[i] \in LegalMoves(IF i = 1 THEN board ELSE after[i - 1])
          /\ after[i] = After[<<IF i = 1 THEN board ELSE after[i - 1], moves[i]>>]
    BY DEF LegalLine
<1> DEFINE later == [i \in 1..(n - 1) |-> after[i + 1]]
<1>3. ASSUME NEW i \in 1..(n - 1)
      PROVE  LET before == IF i = 1 THEN after[1] ELSE later[i - 1] IN
             rest[i] \in LegalMoves(before) /\ later[i] = After[<<before, rest[i]>>]
  <2>1. moves[i + 1] \in LegalMoves(after[i]) /\ after[i + 1] = After[<<after[i], moves[i + 1]>>]
      BY <1>1, <1>2
  <2>2. rest[i] = moves[i + 1] /\ later[i] = after[i + 1]  BY <1>1
  <2>3. after[i] = IF i = 1 THEN after[1] ELSE later[i - 1]  BY <1>1
  <2> HIDE DEF later
  <2> QED  BY <2>1, <2>2, <2>3
<1>4. LegalLine(after[1], rest)
  <2>1. later \in [1..Len(rest) -> Board]  BY <1>1
  <2>2. \A i \in 1..Len(rest) :
          LET before == IF i = 1 THEN after[1] ELSE later[i - 1] IN
          rest[i] \in LegalMoves(before) /\ later[i] = After[<<before, rest[i]>>]
      BY <1>1, <1>3
  <2> HIDE DEF later, rest, n
  <2> QED  BY <2>1, <2>2, Zenon DEF LegalLine
<1> QED  BY <1>1, <1>2, <1>4

\* A legal move is a line by itself.
LEMMA OneMoveLine ==
  ASSUME NEW board \in Board, NEW m \in LegalMoves(board)
  PROVE  <<m>> \in Seq(Move) /\ <<m>> # <<>> /\ LegalLine(board, <<m>>)
<1>1. m \in Move /\ <<board, m>> \in DOMAIN After  BY DEF LegalMoves
<1>2. After[<<board, m>>] \in Board  BY <1>1, PositionAssumption
<1> DEFINE after == [i \in 1..1 |-> After[<<board, m>>]]
<1>3. after \in [1..1 -> Board] /\ after[1] = After[<<board, m>>]  BY <1>2
<1>4. Len(<<m>>) = 1 /\ <<m>>[1] = m /\ \A i \in 1..1 : i = 1  OBVIOUS
<1>5. LegalLine(board, <<m>>)  BY <1>3, <1>4 DEF LegalLine
<1> QED  BY <1>1, <1>5

\* The latest position of a game has a board.
LEMMA LatestBoard ==
  ASSUME NEW h, Linked(h)
  PROVE  Latest(h).board \in Board /\ h # <<>>
<1>1. h[Len(h)] \in Pos /\ h # <<>>  BY DEF Linked
<1> QED  BY <1>1 DEF Latest, Pos

\* The move is appended to the history when the head has arrived.
LEMMA ArriveKeeps ==
  ASSUME HistoryInv, pc \in {"moving", "create"}, NEW x, Arrive(x)
  PROVE  HistoryInv'
<1> DEFINE h == history_
           m == Head(todo)
           board == Latest(h).board
<1>1. h # <<>> /\ Linked(h) /\ CountersRight(h)
      /\ todo \in Seq(Move) /\ todo # <<>> /\ LegalLine(board, todo)
    BY DEF HistoryInv, HistoryRight, TodoLegal
<1>2. /\ m \in LegalMoves(board) /\ Tail(todo) \in Seq(Move)
      /\ LegalLine(After[<<board, m>>], Tail(todo))
    BY <1>1, LineGoesOn, LatestBoard
<1>3. /\ Linked(AppendMove(h, m)) /\ CountersRight(AppendMove(h, m))
      /\ Latest(AppendMove(h, m)).board = After[<<board, m>>]
    BY <1>1, <1>2, AppendKeepsCounters
<1>4. /\ history_' = AppendMove(h, m) /\ todo' = Tail(todo)
      /\ pc' = IF Len(todo) > 1 THEN "moving" ELSE IF resetting THEN "finish" ELSE "idle"
    BY DEF Arrive
<1>5. history_' # <<>>  BY <1>3, <1>4, LatestBoard
<1>6. TodoLegal'
  <2> SUFFICES ASSUME pc' \in {"moving", "create"}
               PROVE  /\ todo' \in Seq(Move) /\ todo' # <<>>
                      /\ LegalLine(Latest(history_').board, todo')
      BY <1>5 DEF TodoLegal
  <2>1. Tail(todo) # <<>>
    <3>1. \A s \in Seq(Move) : Len(s) > 1 => Tail(s) # <<>>
      <4>1. ASSUME NEW s \in Seq(Move), Len(s) > 1, Tail(s) = <<>> PROVE FALSE
        <5>1. Len(s) - 1 = 0  BY <4>1
        <5>2. Len(s) > 1 /\ Len(s) \in Nat  BY <4>1
        <5>3. \A n \in Nat : n > 1 => n - 1 # 0  OBVIOUS
        <5> QED  BY <5>1, <5>2, <5>3
      <4> QED  BY <4>1
    <3> QED  BY <1>1, <1>4, <3>1
  <2> QED  BY <1>2, <1>3, <1>4, <2>1
<1> QED  BY <1>3, <1>4, <1>5, <1>6 DEF HistoryInv, TreeHasHistory, HistoryRight

\* Actions that leave the history alone and make no line longer.
LEMMA Elsewhere ==
  ASSUME HistoryInv, UNCHANGED <<gamebegin_node_, history_, todo>>,
         pc' = pc \/ pc' = "idle" \/ (pc = "moving" /\ pc' = "create")
  PROVE  HistoryInv'
BY DEF HistoryInv, HistoryRight, TreeHasHistory, TodoLegal

\* The history holds the starting position only.
LEMMA HistoryInit == Init => HistoryInv
BY DEF Init, HistoryInv, HistoryRight, TreeHasHistory, TodoLegal

\* Every step of the tree keeps the history's counters right.
LEMMA HistoryNext == HistoryInv /\ [Next]_vars => HistoryInv'
<1> SUFFICES ASSUME HistoryInv, [Next]_vars PROVE HistoryInv'  OBVIOUS
<1>1. ASSUME NEW state \in GameState, ResetToPosition(state) PROVE HistoryInv'
  <2> DEFINE p == state.startpos
  <2>1. LegalGame(state)  BY NodeTreeAssumption
  <2>2. /\ history_' = <<p>> /\ todo' = state.moves
        /\ pc' = IF state.moves = <<>> THEN "finish" ELSE "moving"
      BY <1>1 DEF ResetToPosition
  <2>3. HistoryRight' /\ history_' # <<>>
      BY <2>1, <2>2, StartHasRightCounters DEF HistoryRight, LegalGame
  <2>4. TodoLegal'  BY <2>1, <2>2, <2>3 DEF LegalGame, TodoLegal, Latest
  <2> QED  BY <2>3, <2>4 DEF HistoryInv, TreeHasHistory
<1>2. ASSUME NEW m \in Move, MakeMove(m) PROVE HistoryInv'
  <2>1. /\ gamebegin_node_ # None /\ m \in LegalMoves(Latest(history_).board)
        /\ todo' = <<m>> /\ UNCHANGED <<gamebegin_node_, history_>>
      BY <1>2 DEF MakeMove
  <2>2. history_ # <<>> /\ Linked(history_)
      BY <2>1 DEF HistoryInv, HistoryRight, TreeHasHistory
  <2>3. TodoLegal'  BY <2>1, <2>2, LatestBoard, OneMoveLine DEF TodoLegal
  <2> QED  BY <2>1, <2>3 DEF HistoryInv, HistoryRight, TreeHasHistory
<1>3. ASSUME MoveAlongEdge PROVE HistoryInv'  BY <1>3, ArriveKeeps DEF MoveAlongEdge
<1>4. ASSUME ReleaseAll PROVE HistoryInv'  BY <1>4, Elsewhere DEF ReleaseAll
<1>5. ASSUME CreateSingleChildNode PROVE HistoryInv'
    BY <1>5, ArriveKeeps DEF CreateSingleChildNode
<1>6. ASSUME Finish PROVE HistoryInv'  BY <1>6, Elsewhere DEF Finish
<1>7. ASSUME TrimTreeAtHead PROVE HistoryInv'  BY <1>7, Elsewhere DEF TrimTreeAtHead, call
<1>8. ASSUME Playout PROVE HistoryInv'  BY <1>8, Elsewhere DEF Playout, call
<1>9. ASSUME GarbageCollect PROVE HistoryInv'  BY <1>9, Elsewhere DEF GarbageCollect, call
<1>10. ASSUME UNCHANGED vars PROVE HistoryInv'  BY <1>10, Elsewhere DEF vars, call
<1> QED  BY <1>1, <1>2, <1>3, <1>4, <1>5, <1>6, <1>7, <1>8, <1>9, <1>10, Zenon DEF Next

-----------------------------------------------------------------------------
\* However the game goes forward, back and over to other games (node.cc:461-520), the
\* counters of its history (position.cc:137) are right.
THEOREM CountersAlwaysRight == Spec => []HistoryCounts
<1>1. HistoryInv => HistoryCounts  BY DEF HistoryInv, HistoryRight, HistoryCounts
<1> QED  BY <1>1, HistoryInit, HistoryNext, PTL DEF Spec

\* Numbers that are not none have a smallest one.
LEMMA SmallestNumber ==
  ASSUME NEW S \in SUBSET Nat, S # {}
  PROVE  \E n \in S : \A m \in S : n <= m
<1> DEFINE T == {0..n : n \in S}
<1>1. T \subseteq FiniteSubsetsOf(Nat)
  <2> SUFFICES ASSUME NEW n \in S PROVE 0..n \in FiniteSubsetsOf(Nat)  OBVIOUS
  <2> QED  BY FS_Interval DEF FiniteSubsetsOf
<1>2. T # {}  OBVIOUS
<1>3. \E x \in T : \A y \in T : ~ (<<y, x>> \in StrictSubsetOrdering(Nat))
  <2> HIDE DEF T
  <2> QED  BY <1>1, <1>2, WFMin, FS_StrictSubsetOrderingWellFounded
<1>4. PICK n \in S : \A m \in S : ~ (<<0..m, 0..n>> \in StrictSubsetOrdering(Nat))  BY <1>3
<1>5. ASSUME NEW m \in S PROVE n <= m
  <2> SUFFICES ASSUME m < n PROVE FALSE  OBVIOUS
  <2>1. <<0..m, 0..n>> \in StrictSubsetOrdering(Nat)  BY DEF StrictSubsetOrdering
  <2> QED  BY <1>4, <2>1
<1> QED  BY <1>5

\* The smallest number of a set.
LEMMA MinIsLeast ==
  ASSUME NEW S \in SUBSET Nat, S # {}
  PROVE  Min(S) \in S /\ \A m \in S : Min(S) <= m
BY SmallestNumber DEF Min

\* Moves appended one by one.
Played(h, moves, f) ==
  f = [k \in 0..Len(moves) |-> IF k = 0 THEN h ELSE AppendMove(f[k - 1], moves[k])]

\* The recursion of AppendMoves has a solution.
LEMMA PlayedExists ==
  ASSUME NEW h, NEW moves, Len(moves) \in Nat
  PROVE  \E f : Played(h, moves, f)
<1> DEFINE On(f, n) == f = [k \in 0..n |-> IF k = 0 THEN h ELSE AppendMove(f[k - 1], moves[k])]
           S == {n \in Nat : ~ \E f : On(f, n)}
<1>1. SUFFICES ASSUME S # {} PROVE FALSE  BY DEF Played
<1>2. PICK n \in S : \A m \in S : n <= m
  <2>1. S \in SUBSET Nat  OBVIOUS
  <2> HIDE DEF S
  <2> QED  BY <1>1, <2>1, SmallestNumber
<1>3. n # 0
  <2> DEFINE g == [k \in 0..0 |-> h]
  <2>1. On(g, 0)  OBVIOUS
  <2> QED  BY <2>1
<1>4. n - 1 \in Nat /\ n - 1 \notin S
  <2>1. n \in Nat  OBVIOUS
  <2> HIDE DEF S
  <2> QED  BY <1>2, <1>3, <2>1
<1>5. PICK f : On(f, n - 1)  BY <1>4
<1> DEFINE g == [k \in 0..n |-> IF k = n THEN AppendMove(f[n - 1], moves[n]) ELSE f[k]]
<1>6. ASSUME NEW k \in 0..n
      PROVE  g[k] = IF k = 0 THEN h ELSE AppendMove(g[k - 1], moves[k])
    BY <1>3, <1>4, <1>5
<1>7. DOMAIN g = 0..n  OBVIOUS
<1>8. On(g, n)
  <2> HIDE DEF g
  <2> QED  BY <1>6 DEF g
<1> QED  BY <1>8

\* No moves leave the history, ...
LEMMA NoMoves == ASSUME NEW h PROVE AppendMoves(h, <<>>) = h
<1> DEFINE f == CHOOSE f : Played(h, <<>>, f)
<1>1. Played(h, <<>>, f)  BY PlayedExists
<1> HIDE DEF f
<1> QED  BY <1>1 DEF Played, AppendMoves

\* ... and one move more is appended last.
LEMMA AppendMovesUnfolds ==
  ASSUME NEW h, NEW moves \in Seq(Move), NEW m \in Move
  PROVE  /\ AppendMoves(h, <<>>) = h
         /\ AppendMoves(h, Append(moves, m)) = AppendMove(AppendMoves(h, moves), m)
<1>1. AppendMoves(h, Append(moves, m)) = AppendMove(AppendMoves(h, moves), m)
  <2> DEFINE more == Append(moves, m)
             n == Len(moves)
             f == CHOOSE k : Played(h, moves, k)
             g == CHOOSE k : Played(h, more, k)
  <2>1. /\ n \in Nat /\ Len(more) = n + 1 /\ more[n + 1] = m
        /\ \A i \in 1..n : more[i] = moves[i]
      OBVIOUS
  <2>2. Played(h, moves, f) /\ Played(h, more, g)
    <3>1. Len(moves) \in Nat /\ Len(more) \in Nat  BY <2>1
    <3> HIDE DEF more, n
    <3>2. (\E k : Played(h, moves, k)) /\ \E k : Played(h, more, k)  BY <3>1, PlayedExists
    <3> QED  BY <3>2
  <2>3. AppendMoves(h, moves) = f[n] /\ AppendMoves(h, more) = g[n + 1]
      BY <2>1 DEF AppendMoves, Played
  <2> HIDE DEF f, g, more, n
  <2>4. \A k \in 0..n : f[k] = g[k]
    <3> DEFINE S == {k \in Nat : k <= n /\ f[k] # g[k]}
    <3>1. SUFFICES ASSUME S # {} PROVE FALSE  BY <2>1
    <3>2. PICK k \in S : \A j \in S : k <= j
      <4>1. S \in SUBSET Nat  OBVIOUS
      <4> HIDE DEF S
      <4> QED  BY <3>1, <4>1, SmallestNumber
    <3>3. /\ f[k] = IF k = 0 THEN h ELSE AppendMove(f[k - 1], moves[k])
          /\ g[k] = IF k = 0 THEN h ELSE AppendMove(g[k - 1], more[k])
      <4>1. k \in 0..Len(moves) /\ k \in 0..Len(more)  BY <2>1 DEF n
      <4> QED  BY <2>2, <4>1 DEF Played
    <3>4. k # 0 => k - 1 \in Nat /\ k - 1 \notin S /\ k \in 1..n  BY <2>1, <3>2
    <3> QED  BY <2>1, <3>3, <3>4
  <2>5. g[n + 1] = AppendMove(g[n], more[n + 1])  BY <2>1, <2>2 DEF Played
  <2> QED  BY <2>1, <2>3, <2>4, <2>5 DEF more
<1> QED  BY <1>1, NoMoves

-----------------------------------------------------------------------------
(* Paths.                                                                  *)

\* A path leads from top down, each node the child of the one before.
Downward(nodes, top, q) ==
  /\ q \in Seq(Address) /\ Len(q) >= 1 /\ q[1] = top
  /\ \A i \in 2..Len(q) : q[i] # top /\ nodes[q[i]].parent = q[i - 1]

ParentsTyped(nodes) == \A x \in Address : nodes[x].parent \in Address \cup {None}

Ups(nodes, top, f) ==
  f = [path \in Seq(Address) \ {<<>>} |->
         LET y == Head(path) IN
         IF y = top \/ nodes[y].parent = None THEN path
         ELSE f[<<nodes[y].parent>> \o path]]

\* The recursion that follows the parents has a solution, also where they lead in circles.
LEMMA UpsExist ==
  ASSUME NEW nodes, NEW top, ParentsTyped(nodes)
  PROVE  \E f : Ups(nodes, top, f)
<1> DEFINE Some == Seq(Address) \ {<<>>}
           Final(t) == t[1] = top \/ nodes[t[1]].parent = None
           Grown(s, t) ==
             /\ Len(t) >= Len(s)
             /\ \A i \in 1..Len(s) : t[Len(t) - Len(s) + i] = s[i]
             /\ \A i \in 2..(Len(t) - Len(s) + 1) :
                  t[i] # top /\ nodes[t[i]].parent = t[i - 1]
           F(s) == {t \in Some : Grown(s, t) /\ Final(t)}
           f == [s \in Some |-> CHOOSE t : IF F(s) = {} THEN t = <<>> ELSE t \in F(s)]
<1>1. ASSUME NEW s \in Some
      PROVE  s \in Seq(Address) /\ Len(s) \in Nat /\ Len(s) >= 1 /\ Head(s) = s[1] /\ s[1] \in Address
    OBVIOUS
<1>2. ASSUME NEW s \in Some, Final(s) PROVE f[s] = s
  <2>1. s \in F(s)  BY <1>1, <1>2
  <2>2. ASSUME NEW t \in F(s) PROVE t = s
    <3>1. /\ t \in Some /\ Grown(s, t) /\ t \in Seq(Address) /\ Len(t) \in Nat
          /\ s \in Seq(Address) /\ Len(s) \in Nat /\ Len(s) >= 1
        BY <1>1
    <3>2. Len(t) = Len(s)
      <4> SUFFICES ASSUME Len(t) > Len(s) PROVE FALSE  BY <3>1
      <4> DEFINE d == Len(t) - Len(s)
      <4> QED  BY <1>2, <3>1, NodeTreeAssumption
    <3> QED  BY <3>1, <3>2, SeqEqual
  <2> HIDE DEF F
  <2> QED  BY <2>1, <2>2
<1>3. ASSUME NEW s \in Some, ~ Final(s)
      PROVE  /\ <<nodes[s[1]].parent>> \o s \in Some
             /\ f[s] = f[<<nodes[s[1]].parent>> \o s]
  <2> DEFINE p == nodes[s[1]].parent
             r == <<p>> \o s
  <2>1. /\ r \in Seq(Address) /\ Len(r) = Len(s) + 1 /\ r[1] = p
        /\ \A i \in 1..Len(s) : r[i + 1] = s[i]
    <3>1. <<p>> \in Seq(Address) /\ Len(<<p>>) = 1 /\ <<p>>[1] = p
        BY <1>1, <1>3 DEF ParentsTyped
    <3>2. /\ r \in Seq(Address) /\ Len(r) = 1 + Len(s)
          /\ \A i \in 1..(1 + Len(s)) : r[i] = IF i <= 1 THEN <<p>>[i] ELSE s[i - 1]
      <4> HIDE DEF p
      <4> QED  BY <1>1, <3>1, ConcatProperties
    <3> HIDE DEF r, p
    <3> QED  BY <1>1, <3>1, <3>2
  <2>2. r \in Some
    <3> HIDE DEF r
    <3> QED  BY <1>1, <2>1
  <2> HIDE DEF r
  <2>3. ASSUME NEW t \in Some, Final(t) PROVE Grown(s, t) <=> Grown(r, t)
    <3>1. t \in Seq(Address) /\ Len(t) \in Nat /\ Len(t) >= 1 /\ Len(s) \in Nat /\ Len(s) >= 1
        BY <1>1
    <3>2. ASSUME Grown(s, t) PROVE Grown(r, t)
      <4> DEFINE d == Len(t) - Len(s)
      <4>1. d \in Nat /\ d >= 1 /\ d + 1 \in 2..(d + 1) /\ (d + 1) - 1 = d /\ 1 \in 1..Len(s)
          BY <1>3, <2>3, <3>1, <3>2
      <4>2. t[d + 1] = s[1] /\ nodes[t[d + 1]].parent = t[d]  BY <3>2, <4>1
      <4>3. Len(t) >= Len(r) /\ Len(t) - Len(r) = d - 1  BY <2>1, <3>1, <4>1
      <4>4. \A i \in 1..Len(r) : t[(d - 1) + i] = r[i]
        <5> SUFFICES ASSUME NEW i \in 1..Len(r) PROVE t[(d - 1) + i] = r[i]  OBVIOUS
        <5>1. CASE i = 1  BY <2>1, <4>1, <4>2, <5>1
        <5>2. CASE i # 1
          <6>1. i - 1 \in 1..Len(s) /\ (i - 1) + 1 = i /\ (d - 1) + i = d + (i - 1)
              BY <2>1, <3>1, <4>1, <5>2
          <6>2. t[d + (i - 1)] = s[i - 1] /\ r[(i - 1) + 1] = s[i - 1]  BY <2>1, <3>2, <6>1
          <6> QED  BY <6>1, <6>2
        <5> QED  BY <5>1, <5>2
      <4>5. \A i \in 2..((d - 1) + 1) : i \in 2..(d + 1)  BY <4>1
      <4> QED  BY <3>2, <4>3, <4>4, <4>5
    <3>3. ASSUME Grown(r, t) PROVE Grown(s, t)
      <4> DEFINE d == Len(t) - Len(s)
      <4>1. d \in Nat /\ d >= 1 /\ Len(t) - Len(r) = d - 1 /\ Len(t) >= Len(s)
          BY <2>1, <3>1, <3>3
      <4>2. \A i \in 1..Len(r) : t[(d - 1) + i] = r[i]  BY <3>3, <4>1
      <4>3. \A i \in 1..Len(s) : t[d + i] = s[i]  BY <2>1, <3>1, <4>1, <4>2
      <4>4. t[d] = p
        <5>1. 1 \in 1..Len(r) /\ (d - 1) + 1 = d  BY <2>1, <3>1, <4>1
        <5> QED  BY <2>1, <4>2, <5>1
      <4>5. t[d + 1] = s[1]  BY <3>1, <4>3
      <4>6. ASSUME NEW i \in 2..(d + 1)
            PROVE  t[i] # top /\ nodes[t[i]].parent = t[i - 1]
        <5>1. CASE i = d + 1
          <6> HIDE DEF d
          <6> QED  BY <1>3, <4>1, <4>4, <4>5, <5>1
        <5>2. CASE i # d + 1
          <6>1. i \in 2..((d - 1) + 1)  BY <4>1, <5>2
          <6> QED  BY <3>3, <4>1, <6>1
        <5> QED  BY <5>1, <5>2
      <4> QED  BY <4>1, <4>3, <4>6
    <3> QED  BY <3>2, <3>3
  <2>4. F(s) = F(r)
    <3> HIDE DEF Grown, Final, Some
    <3> QED  BY <2>3
  <2>5. f[s] = f[r]
    <3> HIDE DEF F
    <3> QED  BY <2>2, <2>4
  <2> QED  BY <2>2, <2>5 DEF r
<1>4. ASSUME NEW s \in Some
      PROVE  f[s] = IF Head(s) = top \/ nodes[Head(s)].parent = None THEN s
                    ELSE f[<<nodes[Head(s)].parent>> \o s]
  <2> HIDE DEF f
  <2> QED  BY <1>1, <1>2, <1>3
<1>5. Ups(nodes, top, f)
  <2>1. f = [s \in Some |-> f[s]]
    <3> HIDE DEF F, Some
    <3> QED  OBVIOUS
  <2> HIDE DEF f
  <2>2. f = [s \in Some |-> IF Head(s) = top \/ nodes[Head(s)].parent = None THEN s
                            ELSE f[<<nodes[Head(s)].parent>> \o s]]
      BY <1>4, <2>1
  <2> QED  BY <2>2 DEF Ups
<1> QED  BY <1>5

\* So the path that is found is the one there is.
LEMMA PathFound ==
  ASSUME NEW nodes, NEW top \in Address, ParentsTyped(nodes), NEW q, Downward(nodes, top, q)
  PROVE  Path(nodes, top, q[Len(q)]) = q
<1> DEFINE f == CHOOSE f : Ups(nodes, top, f)
           n == Len(q)
<1>1. Ups(nodes, top, f)  BY UpsExist
<1>2. Path(nodes, top, q[n]) = f[<<q[n]>>]  BY DEF Path, Ups
<1> HIDE DEF f
<1>3. n \in Nat /\ n >= 1 /\ q \in Seq(Address) /\ q[1] = top  BY DEF Downward
<1> DEFINE S == {k \in Nat : k < n /\ f[SubSeq(q, n - k, n)] # f[<<q[n]>>]}
<1>4. \A k \in 1..n : /\ SubSeq(q, k, n) \in Seq(Address) \ {<<>>}
                      /\ Head(SubSeq(q, k, n)) = q[k]
  <2> SUFFICES ASSUME NEW k \in 1..n
               PROVE  /\ SubSeq(q, k, n) \in Seq(Address) \ {<<>>}
                      /\ Head(SubSeq(q, k, n)) = q[k]
      OBVIOUS
  <2>1. n \in k..n /\ k <= n /\ n - k + 1 # 0  BY <1>3
  <2>2. SubSeq(q, k, n) \in Seq(Address) /\ Len(SubSeq(q, k, n)) = n - k + 1
    <3>1. \A i \in k..n : q[i] \in Address  BY <1>3
    <3> HIDE DEF n
    <3> QED  BY <1>3, <2>1, <3>1, SubSeqProperties
  <2>3. SubSeq(q, k, n) # <<>>  BY <2>1, <2>2
  <2> QED  BY <1>3, <2>1, <2>2, <2>3, HeadTailOfSubSeq
<1>5. ASSUME S # {} PROVE FALSE
  <2>1. PICK k \in S : \A j \in S : k <= j
    <3>1. S \in SUBSET Nat  OBVIOUS
    <3> HIDE DEF S
    <3> QED  BY <1>5, <3>1, SmallestNumber
  <2>2. k \in Nat /\ k < n /\ f[SubSeq(q, n - k, n)] # f[<<q[n]>>]  OBVIOUS
  <2>3. k # 0
    <3> SUFFICES ASSUME k = 0 PROVE FALSE  OBVIOUS
    <3>1. SubSeq(q, n, n) = <<q[n]>>
      <4>1. SubSeq(q, n, n) = <<q[n]>> \o SubSeq(q, n + 1, n)  BY <1>3, SubSeqRecursiveFirst
      <4>2. SubSeq(q, n + 1, n) = <<>>
        <5> HIDE DEF n
        <5> QED  BY <1>3, SubSeqEmpty
      <4>3. <<q[n]>> \o <<>> = <<q[n]>>  BY <1>3, ConcatEmptySeq
      <4> HIDE DEF n
      <4> QED  BY <4>1, <4>2, <4>3
    <3>2. n - k = n  BY <1>3
    <3> HIDE DEF S
    <3> QED  BY <2>2, <3>1, <3>2
  <2> DEFINE j == n - k
             s == SubSeq(q, j + 1, n)
  <2>4. k - 1 \in Nat /\ k - 1 \notin S /\ n - (k - 1) = j + 1
    <3> HIDE DEF S
    <3> QED  BY <1>3, <2>1, <2>2, <2>3
  <2>5. f[s] = f[<<q[n]>>]  BY <1>3, <2>2, <2>4
  <2>6. j \in 1..n /\ j + 1 \in 2..n /\ n \in j..n /\ (j + 1) - 1 = j /\ j + 1 \in 1..n
      BY <1>3, <2>2, <2>3
  <2>7. q[j + 1] # top /\ nodes[q[j + 1]].parent = q[j] /\ q[j] \in Address
      BY <1>3, <2>6 DEF Downward
  <2>8. s \in Seq(Address) \ {<<>>} /\ Head(s) = q[j + 1]  BY <1>4, <2>6
  <2>9. q[j] # None  BY <2>7, NodeTreeAssumption
  <2> HIDE DEF s, j
  <2>10. f[s] = f[<<q[j]>> \o s]  BY <1>1, <2>7, <2>8, <2>9 DEF Ups
  <2>11. SubSeq(q, j, n) = <<q[j]>> \o s  BY <1>3, <2>6, SubSeqRecursiveFirst DEF s
  <2> QED  BY <2>2, <2>5, <2>10, <2>11 DEF j
<1>6. f[SubSeq(q, 1, n)] = f[<<q[n]>>]
  <2>1. n - 1 \notin S
    <3> HIDE DEF S
    <3> QED  BY <1>5
  <2> QED  BY <1>3, <2>1
<1>7. SubSeq(q, 1, n) = q  BY <1>3, SubSeqFull
<1>8. f[q] = q  BY <1>1, <1>3 DEF Ups
<1> QED  BY <1>2, <1>6, <1>7, <1>8

-----------------------------------------------------------------------------
(* Subtrees.                                                               *)

\* What is below is in the memory, and no node is below itself: ranks fall from a node to
\* its children.
Ranked(nodes, rank) ==
  /\ rank \in [Address -> Nat]
  /\ \A x \in Address : /\ nodes[x].child \subseteq Address
                        /\ \A c \in nodes[x].child : rank[c] < rank[x]

Closed(nodes, T) == \A x \in T : nodes[x].child \subseteq T

Reach(nodes, x) ==
  {y \in Address : \A T \in SUBSET Address : x \in T /\ Closed(nodes, T) => y \in T}

Belows(nodes, f) ==
  f = [x \in Address |-> {x} \cup UNION {f[c] : c \in nodes[x].child}]

\* What can be reached from a node: itself and what can be reached from its children.
LEMMA ReachUnfolds ==
  ASSUME NEW nodes, \A x \in Address : nodes[x].child \subseteq Address, NEW x \in Address
  PROVE  Reach(nodes, x) = {x} \cup UNION {Reach(nodes, c) : c \in nodes[x].child}
<1> DEFINE R == {x} \cup UNION {Reach(nodes, c) : c \in nodes[x].child}
<1>1. ASSUME NEW y \in R PROVE y \in Reach(nodes, x)  BY DEF Reach, Closed
<1>2. Closed(nodes, R) /\ R \in SUBSET Address /\ x \in R  BY DEF Reach, Closed
<1>3. ASSUME NEW y \in Reach(nodes, x) PROVE y \in R
  <2> HIDE DEF R
  <2> QED  BY <1>2 DEF Reach
<1> QED  BY <1>1, <1>3

\* A subtree is the smallest set that has its roots and with a node its children.
LEMMA SubtreeIsLeast ==
  ASSUME NEW nodes, NEW rank, Ranked(nodes, rank), NEW S \in SUBSET Address
  PROVE  /\ Subtree(nodes, S) \in SUBSET Address
         /\ S \subseteq Subtree(nodes, S)
         /\ Closed(nodes, Subtree(nodes, S))
         /\ \A T \in SUBSET Address :
              S \subseteq T /\ Closed(nodes, T) => Subtree(nodes, S) \subseteq T
<1> DEFINE f == CHOOSE f : Belows(nodes, f)
<1>1. \A x \in Address : nodes[x].child \subseteq Address  BY DEF Ranked
<1>2. Belows(nodes, f)
  <2> DEFINE g == [x \in Address |-> Reach(nodes, x)]
  <2>1. g = [x \in Address |-> {x} \cup UNION {g[c] : c \in nodes[x].child}]
    <3>1. ASSUME NEW x \in Address
          PROVE  Reach(nodes, x) = {x} \cup UNION {g[c] : c \in nodes[x].child}
      <4>1. {g[c] : c \in nodes[x].child} = {Reach(nodes, c) : c \in nodes[x].child}
          BY <1>1
      <4> QED  BY <1>1, <4>1, ReachUnfolds
    <3> HIDE DEF g
    <3> QED  BY <3>1, Zenon DEF g
  <2>2. Belows(nodes, g)  BY <2>1 DEF Belows
  <2> QED  BY <2>2
<1>3. Subtree(nodes, S) = UNION {f[x] : x \in S}  BY DEF Subtree, Belows
<1> HIDE DEF f
<1>4. \A x \in Address : f[x] = Reach(nodes, x)
  <2> DEFINE N == {rank[x] : x \in {x \in Address : f[x] # Reach(nodes, x)}}
  <2>1. SUFFICES ASSUME N # {} PROVE FALSE  OBVIOUS
  <2>2. PICK n \in N : \A m \in N : n <= m
    <3>1. N \in SUBSET Nat  BY DEF Ranked
    <3> HIDE DEF N
    <3> QED  BY <2>1, <3>1, SmallestNumber
  <2>3. PICK x \in Address : f[x] # Reach(nodes, x) /\ n = rank[x]  OBVIOUS
  <2>4. ASSUME NEW c \in nodes[x].child PROVE f[c] = Reach(nodes, c)
    <3>1. c \in Address /\ rank[c] < rank[x] /\ rank[c] \in Nat /\ rank[x] \in Nat
        BY DEF Ranked
    <3>2. rank[c] \notin N
      <4> HIDE DEF N
      <4> QED  BY <2>2, <2>3, <3>1
    <3> QED  BY <3>1, <3>2
  <2>5. f[x] = {x} \cup UNION {f[c] : c \in nodes[x].child}  BY <1>2 DEF Belows
  <2> QED  BY <1>1, <2>3, <2>4, <2>5, ReachUnfolds
<1>5. Subtree(nodes, S) = UNION {Reach(nodes, x) : x \in S}  BY <1>3, <1>4
<1>6. ASSUME NEW x \in Address
      PROVE  /\ x \in Reach(nodes, x) /\ Reach(nodes, x) \subseteq Address
             /\ Closed(nodes, Reach(nodes, x))
    BY <1>1 DEF Reach, Closed
<1>7. ASSUME NEW T \in SUBSET Address, S \subseteq T, Closed(nodes, T)
      PROVE  Subtree(nodes, S) \subseteq T
    BY <1>5, <1>7 DEF Reach
<1> QED  BY <1>5, <1>6, <1>7 DEF Closed

-----------------------------------------------------------------------------
(* Sums.                                                                   *)

\* Induction over finite sets: a family of subsets has a smallest member.
LEMMA SmallestSubset ==
  ASSUME NEW S, IsFiniteSet(S), NEW F, F \subseteq SUBSET S, F # {}
  PROVE  \E T \in F : \A U \in SUBSET T : U # T => U \notin F
<1>1. PICK T \in F : \A U \in F : ~(<<U, T>> \in StrictSubsetOrdering(S))
    BY WFMin, FS_StrictSubsetOrderingWellFounded, FS_FiniteSubsetsOfFinite
<1>2. ASSUME NEW U \in SUBSET T, U # T, U \in F PROVE FALSE
  <2>1. <<U, T>> \in StrictSubsetOrdering(S)  BY <1>2 DEF StrictSubsetOrdering
  <2> QED  BY <1>1, <1>2, <2>1
<1> QED  BY <1>2

First(s) == CHOOSE x \in s : TRUE
Sums(f, S, g) ==
  g = [s \in SUBSET S |-> IF s = {} THEN 0 ELSE f[First(s)] + g[s \ {First(s)}]]

\* The sum of the community modules is such a function, applied to the whole set.
LEMMA SumIsChosen ==
  ASSUME NEW f, NEW S
  PROVE  SumFunctionOnSet(f, S) = (CHOOSE g : Sums(f, S, g))[S]
BY DEF SumFunctionOnSet, FoldFunctionOnSet, MapThenFoldSet, Sums, First

\* Two solutions of the recursive equation agree where both are defined.
LEMMA SumsAgree ==
  ASSUME NEW f, NEW S, NEW T, IsFiniteSet(S), NEW g, NEW h, Sums(f, S, g), Sums(f, T, h),
         NEW U \in SUBSET (S \cap T)
  PROVE  g[U] = h[U]
<1> DEFINE F == {V \in SUBSET S : V \subseteq T /\ g[V] # h[V]}
<1>1. SUFFICES F = {}  OBVIOUS
<1>2. SUFFICES ASSUME F # {} PROVE FALSE  OBVIOUS
<1>3. PICK V \in F : \A W \in SUBSET V : W # V => W \notin F
  <2>1. F \subseteq SUBSET S  OBVIOUS
  <2> HIDE DEF F
  <2> QED  BY <1>2, <2>1, SmallestSubset
<1>4. V \in SUBSET S /\ V \in SUBSET T /\ g[V] # h[V]  OBVIOUS
<1>5. /\ g[V] = IF V = {} THEN 0 ELSE f[First(V)] + g[V \ {First(V)}]
      /\ h[V] = IF V = {} THEN 0 ELSE f[First(V)] + h[V \ {First(V)}]
    BY <1>4 DEF Sums
<1> QED  BY <1>3, <1>4, <1>5 DEF First

\* The recursive equation has a solution on every finite set.
LEMMA SumsExist ==
  ASSUME NEW f, NEW S, IsFiniteSet(S)
  PROVE  \E g : Sums(f, S, g)
<1> DEFINE F == {T \in SUBSET S : ~ \E g : Sums(f, T, g)}
<1>1. SUFFICES ASSUME F # {} PROVE FALSE  OBVIOUS
<1>2. PICK T \in F : \A U \in SUBSET T : U # T => U \notin F
  <2>1. F \subseteq SUBSET S  OBVIOUS
  <2> HIDE DEF F
  <2> QED  BY <1>1, <2>1, SmallestSubset
<1> DEFINE sum(U) == (CHOOSE g : Sums(f, U, g))[U]
           g == [s \in SUBSET T |-> IF s = {} THEN 0 ELSE f[First(s)] + sum(s \ {First(s)})]
<1>3. ASSUME NEW U \in SUBSET T, U # T
      PROVE  Sums(f, U, CHOOSE h : Sums(f, U, h)) /\ IsFiniteSet(U)
    BY <1>2, <1>3, FS_Subset
<1>4. ASSUME NEW U \in SUBSET T, U # T
      PROVE  sum(U) = IF U = {} THEN 0 ELSE f[First(U)] + sum(U \ {First(U)})
  <2> DEFINE V == U \ {First(U)}
             gU == CHOOSE h : Sums(f, U, h)
             gV == CHOOSE h : Sums(f, V, h)
  <2>1. U # {} => First(U) \in U  BY DEF First
  <2>2. Sums(f, U, gU) /\ IsFiniteSet(U)  BY <1>3, <1>4
  <2>3. V \in SUBSET T /\ V # T /\ V \in SUBSET U  BY <1>4
  <2>4. Sums(f, V, gV)  BY <1>3, <2>3
  <2> HIDE DEF gU, gV
  <2>5. gU[V] = gV[V]
    <3>1. V \in SUBSET (U \cap V)  OBVIOUS
    <3> HIDE DEF V
    <3> QED  BY <2>2, <2>4, <3>1, SumsAgree
  <2>6. gU[U] = IF U = {} THEN 0 ELSE f[First(U)] + gU[V]  BY <2>2 DEF Sums
  <2> QED  BY <2>5, <2>6 DEF gU, gV
<1>5. Sums(f, T, g)
  <2>1. ASSUME NEW s \in SUBSET T, s # {}
        PROVE  g[s \ {First(s)}] = sum(s \ {First(s)})
    <3>1. s \ {First(s)} \in SUBSET T /\ s \ {First(s)} # T  BY <2>1 DEF First
    <3> DEFINE u == s \ {First(s)}
    <3>2. g[u] = IF u = {} THEN 0 ELSE f[First(u)] + sum(u \ {First(u)})  BY <3>1
    <3> HIDE DEF sum, g
    <3> QED  BY <1>4, <3>1, <3>2
  <2> HIDE DEF sum
  <2>2. g = [s \in SUBSET T |-> IF s = {} THEN 0 ELSE f[First(s)] + g[s \ {First(s)}]]
      BY <2>1
  <2> QED  BY <2>2 DEF Sums
<1> QED  BY <1>5

\* So a sum can be unfolded.
LEMMA SumUnfolds ==
  ASSUME NEW f, NEW S, IsFiniteSet(S)
  PROVE  SumFunctionOnSet(f, S) =
           IF S = {} THEN 0
           ELSE f[First(S)] + SumFunctionOnSet(f, S \ {First(S)})
<1> DEFINE T == S \ {First(S)}
           g == CHOOSE h : Sums(f, S, h)
           k == CHOOSE h : Sums(f, T, h)
<1>1. Sums(f, S, g)  BY SumsExist
<1>2. IsFiniteSet(T)  BY FS_Subset
<1>3. Sums(f, T, k)  BY <1>2, SumsExist
<1>4. g[S] = SumFunctionOnSet(f, S) /\ k[T] = SumFunctionOnSet(f, T)  BY SumIsChosen
<1> HIDE DEF g, k
<1>5. g[S] = IF S = {} THEN 0 ELSE f[First(S)] + g[T]  BY <1>1 DEF Sums
<1> QED  BY <1>1, <1>3, <1>4, <1>5, SumsAgree

\* The laws of sums that the rest uses: the empty sum, ...
LEMMA SumOfNothing == ASSUME NEW f PROVE SumFunctionOnSet(f, {}) = 0
<1> QED  BY SumUnfolds, FS_EmptySet

\* ... the sum of integers, ...
LEMMA SumIsInt ==
  ASSUME NEW f, NEW S, IsFiniteSet(S), \A x \in S : f[x] \in Int
  PROVE  SumFunctionOnSet(f, S) \in Int
<1> DEFINE F == {T \in SUBSET S : SumFunctionOnSet(f, T) \notin Int}
<1>1. SUFFICES ASSUME F # {} PROVE FALSE  OBVIOUS
<1>2. PICK T \in F : \A U \in SUBSET T : U # T => U \notin F
  <2>1. F \subseteq SUBSET S  OBVIOUS
  <2> HIDE DEF F
  <2> QED  BY <1>1, <2>1, SmallestSubset
<1>3. SumFunctionOnSet(f, T) =
        IF T = {} THEN 0 ELSE f[First(T)] + SumFunctionOnSet(f, T \ {First(T)})
    BY SumUnfolds, FS_Subset
<1> QED  BY <1>2, <1>3 DEF First

\* ... a summand taken out, whichever it is.
LEMMA SumTakes ==
  ASSUME NEW f, NEW S, IsFiniteSet(S), \A x \in S : f[x] \in Int, NEW x \in S
  PROVE  SumFunctionOnSet(f, S) = f[x] + SumFunctionOnSet(f, S \ {x})
<1> DEFINE Sum(T) == SumFunctionOnSet(f, T)
           F == {T \in SUBSET S : \E y \in T : Sum(T) # f[y] + Sum(T \ {y})}
<1>1. SUFFICES ASSUME F # {} PROVE FALSE  OBVIOUS
<1>2. PICK T \in F : \A U \in SUBSET T : U # T => U \notin F
  <2>1. F \subseteq SUBSET S  OBVIOUS
  <2> HIDE DEF F
  <2> QED  BY <1>1, <2>1, SmallestSubset
<1>3. PICK y \in T : Sum(T) # f[y] + Sum(T \ {y})  OBVIOUS
<1> DEFINE z == First(T)
<1>4. z \in T /\ T \in SUBSET S  BY DEF First
<1>5. Sum(T) = f[z] + Sum(T \ {z})  BY <1>4, SumUnfolds, FS_Subset
<1> HIDE DEF z
<1> DEFINE A == T \ {z}
           B == T \ {y}
<1>6. A \in SUBSET T /\ A # T /\ B \in SUBSET T /\ B # T /\ y \in A /\ z \in B
    BY <1>3, <1>4, <1>5
<1>7. A \ {y} = B \ {z}  OBVIOUS
<1>8. A \in SUBSET S /\ B \in SUBSET S /\ A \notin F /\ B \notin F  BY <1>2, <1>4, <1>6
<1> HIDE DEF A, B
<1>9. Sum(A) = f[y] + Sum(A \ {y}) /\ Sum(B) = f[z] + Sum(B \ {z})  BY <1>6, <1>8
<1>10. f[y] \in Int /\ f[z] \in Int /\ Sum(A \ {y}) \in Int
    BY <1>4, <1>8, FS_Subset, SumIsInt
<1>11. Sum(A \ {y}) = Sum(B \ {z})  BY <1>7
<1> HIDE DEF Sum
<1> QED  BY <1>3, <1>5, <1>9, <1>10, <1>11 DEF A, B

\* Sums are additive.
LEMMA SumAdds ==
  ASSUME NEW f, NEW g, NEW h, NEW S, IsFiniteSet(S),
         \A x \in S : f[x] \in Int /\ g[x] \in Int /\ h[x] = f[x] + g[x]
  PROVE  SumFunctionOnSet(h, S) = SumFunctionOnSet(f, S) + SumFunctionOnSet(g, S)
<1> DEFINE Sum(k, T) == SumFunctionOnSet(k, T)
           F == {T \in SUBSET S : Sum(h, T) # Sum(f, T) + Sum(g, T)}
<1>1. SUFFICES ASSUME F # {} PROVE FALSE  OBVIOUS
<1>2. PICK T \in F : \A U \in SUBSET T : U # T => U \notin F
  <2>1. F \subseteq SUBSET S  OBVIOUS
  <2> HIDE DEF F
  <2> QED  BY <1>1, <2>1, SmallestSubset
<1>3. IsFiniteSet(T) /\ T \in SUBSET S /\ Sum(h, T) # Sum(f, T) + Sum(g, T)  BY FS_Subset
<1>4. PICK x \in T : TRUE  BY <1>3, SumOfNothing
<1> DEFINE U == T \ {x}
<1>5. U \in SUBSET T /\ U # T /\ U \in SUBSET S /\ IsFiniteSet(U)  BY <1>3, <1>4, FS_Subset
<1>6. /\ Sum(f, T) = f[x] + Sum(f, U) /\ Sum(g, T) = g[x] + Sum(g, U)
      /\ Sum(h, T) = h[x] + Sum(h, U)
    BY <1>3, SumTakes
<1>7. Sum(f, U) \in Int /\ Sum(g, U) \in Int  BY <1>5, SumIsInt
<1> HIDE DEF Sum, U
<1> QED  BY <1>2, <1>3, <1>5, <1>6, <1>7

\* Nothing adds up to nothing.
LEMMA SumOfZeros ==
  ASSUME NEW f, NEW S, IsFiniteSet(S), \A x \in S : f[x] = 0
  PROVE  SumFunctionOnSet(f, S) = 0
BY SumAdds, SumIsInt

\* A sum depends on the values only.
LEMMA SumSame ==
  ASSUME NEW f, NEW g, NEW S, IsFiniteSet(S), \A x \in S : f[x] \in Int /\ g[x] = f[x]
  PROVE  SumFunctionOnSet(g, S) = SumFunctionOnSet(f, S)
<1> DEFINE zero == [x \in S |-> 0]
<1>1. SumFunctionOnSet(g, S) = SumFunctionOnSet(f, S) + SumFunctionOnSet(zero, S)
    BY SumAdds
<1> QED  BY <1>1, SumIsInt, SumOfZeros

\* The sum over two disjoint sets.
LEMMA SumSplits ==
  ASSUME NEW f, NEW S, NEW T, IsFiniteSet(S), IsFiniteSet(T), S \cap T = {},
         \A x \in S \cup T : f[x] \in Int
  PROVE  SumFunctionOnSet(f, S \cup T) = SumFunctionOnSet(f, S) + SumFunctionOnSet(f, T)
<1> DEFINE Sum(U) == SumFunctionOnSet(f, U)
           F == {U \in SUBSET S : Sum(U \cup T) # Sum(U) + Sum(T)}
<1>1. SUFFICES ASSUME F # {} PROVE FALSE  OBVIOUS
<1>2. PICK U \in F : \A V \in SUBSET U : V # U => V \notin F
  <2>1. F \subseteq SUBSET S  OBVIOUS
  <2> HIDE DEF F
  <2> QED  BY <1>1, <2>1, SmallestSubset
<1>3. U \in SUBSET S /\ Sum(U \cup T) # Sum(U) + Sum(T)  OBVIOUS
<1>4. Sum(T) \in Int  BY SumIsInt
<1>5. U # {}
  <2> SUFFICES ASSUME U = {} PROVE FALSE  OBVIOUS
  <2>1. Sum(U \cup T) = Sum(T) /\ Sum(U) = 0  BY SumOfNothing
  <2> HIDE DEF Sum
  <2> QED  BY <1>3, <1>4, <2>1
<1>6. PICK x \in U : TRUE  BY <1>5
<1> DEFINE V == U \ {x}
<1>7. V \in SUBSET U /\ V # U /\ V \in SUBSET S /\ (U \cup T) \ {x} = V \cup T
    BY <1>3, <1>6
<1>8. IsFiniteSet(U) /\ IsFiniteSet(V) /\ IsFiniteSet(U \cup T)
    BY <1>3, <1>7, FS_Subset, FS_Union
<1>9. Sum(U) = f[x] + Sum(V)  BY <1>3, <1>8, SumTakes
<1>10. Sum(U \cup T) = f[x] + Sum(V \cup T)  BY <1>3, <1>7, <1>8, SumTakes
<1>11. Sum(V \cup T) = Sum(V) + Sum(T)  BY <1>2, <1>7
<1>12. Sum(V) \in Int /\ f[x] \in Int  BY <1>3, <1>7, <1>8, SumIsInt
<1> HIDE DEF Sum, V
<1> QED  BY <1>3, <1>4, <1>9, <1>10, <1>11, <1>12

\* A sum of natural numbers bounds each of them.
LEMMA SumIsNat ==
  ASSUME NEW f, NEW S, IsFiniteSet(S), \A x \in S : f[x] \in Nat
  PROVE  /\ SumFunctionOnSet(f, S) \in Nat
         /\ \A x \in S : f[x] <= SumFunctionOnSet(f, S)
<1> DEFINE Sum(U) == SumFunctionOnSet(f, U)
           F == {U \in SUBSET S : Sum(U) \notin Nat}
<1>1. F = {}
  <2> SUFFICES ASSUME F # {} PROVE FALSE  OBVIOUS
  <2>1. PICK U \in F : \A V \in SUBSET U : V # U => V \notin F
    <3>1. F \subseteq SUBSET S  OBVIOUS
    <3> HIDE DEF F
    <3> QED  BY <3>1, SmallestSubset
  <2>2. U \in SUBSET S /\ Sum(U) \notin Nat /\ IsFiniteSet(U)  BY FS_Subset
  <2>3. PICK x \in U : TRUE  BY <2>2, SumOfNothing
  <2> DEFINE V == U \ {x}
  <2>4. Sum(V) \in Nat  BY <2>1, <2>2
  <2>5. Sum(U) = f[x] + Sum(V) /\ f[x] \in Nat  BY <2>2, SumTakes
  <2> HIDE DEF Sum, V
  <2> QED  BY <2>2, <2>4, <2>5
<1>2. ASSUME NEW x \in S PROVE f[x] <= Sum(S)
  <2>1. Sum(S) = f[x] + Sum(S \ {x}) /\ f[x] \in Nat  BY SumTakes
  <2> HIDE DEF Sum
  <2> QED  BY <1>1, <2>1
<1> QED  BY <1>1, <1>2

\* If f is changed at one place only, so is its sum.
LEMMA SumChanges ==
  ASSUME NEW f, NEW g, NEW S, NEW x, IsFiniteSet(S),
         \A y \in S : f[y] \in Int /\ g[y] \in Int,
         \A y \in S : y # x => g[y] = f[y]
  PROVE  /\ x \notin S => SumFunctionOnSet(g, S) = SumFunctionOnSet(f, S)
         /\ x \in S => SumFunctionOnSet(g, S) = SumFunctionOnSet(f, S) + (g[x] - f[x])
<1>1. CASE x \notin S  BY <1>1, SumSame
<1>2. CASE x \in S
  <2>1. IsFiniteSet(S \ {x})  BY FS_Subset
  <2>2. SumFunctionOnSet(f, S \ {x}) \in Int  BY <2>1, SumIsInt
  <2> QED  BY <1>2, <2>1, <2>2, SumTakes, SumSame
<1> QED  BY <1>1, <1>2


\* A sum does not change when the summands are elsewhere, among zeros.
LEMMA SumMoves ==
  ASSUME NEW f, NEW g, NEW S, NEW T, IsFiniteSet(S), IsFiniteSet(T), NEW to \in [S -> T],
         \A a, b \in S : to[a] = to[b] => a = b,
         \A s \in S : f[s] \in Int /\ g[to[s]] = f[s],
         \A t \in T : (\A s \in S : to[s] # t) => g[t] = 0
  PROVE  SumFunctionOnSet(g, T) = SumFunctionOnSet(f, S)
<1> DEFINE Sum(h, U) == SumFunctionOnSet(h, U)
           At(U) == {to[s] : s \in U}
           F == {U \in SUBSET S : Sum(g, At(U)) # Sum(f, U)}
<1>1. \A t \in T : g[t] \in Int  OBVIOUS
<1>2. F = {}
  <2> SUFFICES ASSUME F # {} PROVE FALSE  OBVIOUS
  <2>1. PICK U \in F : \A V \in SUBSET U : V # U => V \notin F
    <3>1. F \subseteq SUBSET S  OBVIOUS
    <3> HIDE DEF F
    <3> QED  BY <3>1, SmallestSubset
  <2>2. U \in SUBSET S /\ Sum(g, At(U)) # Sum(f, U) /\ IsFiniteSet(U)  BY FS_Subset
  <2>3. PICK x \in U : TRUE  BY <2>2, SumOfNothing
  <2> DEFINE V == U \ {x}
  <2>4. Sum(g, At(V)) = Sum(f, V)  BY <2>1, <2>2
  <2>5. Sum(f, U) = f[x] + Sum(f, V)  BY <2>2, SumTakes
  <2>6. At(U) \in SUBSET T /\ to[x] \in At(U) /\ At(U) \ {to[x]} = At(V)  BY <2>2
  <2>7. Sum(g, At(U)) = g[to[x]] + Sum(g, At(U) \ {to[x]})
    <3> HIDE DEF At
    <3> QED  BY <1>1, <2>6, SumTakes, FS_Subset
  <2> HIDE DEF Sum, At, V
  <2> QED  BY <2>2, <2>4, <2>5, <2>6, <2>7
<1> DEFINE rest == T \ At(S)
<1>3. At(S) \in SUBSET T /\ rest \in SUBSET T /\ At(S) \cap rest = {} /\ At(S) \cup rest = T
    OBVIOUS
<1>4. IsFiniteSet(At(S)) /\ IsFiniteSet(rest)  BY <1>3, FS_Subset
<1>5. Sum(g, T) = Sum(g, At(S)) + Sum(g, rest)
  <2> HIDE DEF At, rest
  <2> QED  BY <1>1, <1>3, <1>4, SumSplits
<1> QED  BY <1>2, <1>4, <1>5, SumIsInt, SumOfZeros

-----------------------------------------------------------------------------
(* The nodes in memory.                                                    *)

NodeType ==
  [used : BOOLEAN, parent : Address \cup {None}, index : Move \cup {None},
   edges : SUBSET Move, child : SUBSET Address, solid : BOOLEAN, n : Nat,
   terminal : {"no", "end", "twofold"}, m : Nat, lower : -1..1, upper : -1..1]

\* Free memory is clean. The children of a node point to it, each at an edge of its own.
Families(nodes) ==
  \A x \in Address :
    /\ ~nodes[x].used => nodes[x] = Unused
    /\ \A c \in nodes[x].child :
         nodes[c].used /\ nodes[c].parent = x /\ nodes[c].index \in nodes[x].edges
    /\ \A c, d \in nodes[x].child : nodes[c].index = nodes[d].index => c = d

\* hs says which positions led to each node, if they could be played. It is in no state: a
\* search plays the moves again.
Histories(nodes, hs) ==
  \A x \in Address : nodes[x].used =>
    /\ Linked(hs[x]) /\ CountersRight(hs[x])
    /\ nodes[x].edges \subseteq LegalMoves(Latest(hs[x]).board)
    /\ \A c \in nodes[x].child : hs[c] = AppendMove(hs[x], nodes[c].index)

Forest(nodes, hs) ==
  nodes \in [Address -> NodeType] /\ Families(nodes) /\ Histories(nodes, hs)

ChildOfNone(nodes, a) == \A x \in Address : a \notin nodes[x].child

\* Nodes that are the children of none are the root of the tree or garbage, and none is
\* both or garbage twice.
Owners(nodes, garbage, root) ==
  /\ garbage \subseteq SUBSET Address
  /\ \A a \in Address :
       nodes[a].used /\ ChildOfNone(nodes, a) <=> a = root \/ \E e \in garbage : a \in e
  /\ \A e, f \in garbage : e # f => e \cap f = {}
  /\ \A e \in garbage : root \notin e

\* One position more, after the others.
LEMMA AppendMoveGrows ==
  ASSUME NEW h, Linked(h), CountersRight(h), NEW m \in LegalMoves(Latest(h).board)
  PROVE  /\ Linked(AppendMove(h, m)) /\ CountersRight(AppendMove(h, m))
         /\ Len(h) \in Nat /\ Len(h) > 0
         /\ Len(AppendMove(h, m)) = Len(h) + 1 /\ AppendMove(h, m)[1] = h[1]
<1> DEFINE q == AfterMove(Latest(h), m)
           g == Append(h, q)
<1>1. h \in Seq(Pos) /\ Len(h) \in Nat /\ Len(h) > 0  BY DEF Linked
<1>2. Latest(h) \in Pos  BY <1>1 DEF Latest
<1>3. q \in Pos  BY <1>2, MoveMade
<1> HIDE DEF q
<1>4. g \in Seq(Pos) /\ Len(g) = Len(h) + 1 /\ g[1] = h[1] /\ Len(g) # 1  BY <1>1, <1>3
<1>5. AppendMove(h, m) = [g EXCEPT ![Len(g)] = CountRepetitions(g)]  BY DEF AppendMove, q
<1> HIDE DEF g
<1>6. Len(AppendMove(h, m)) = Len(g) /\ AppendMove(h, m)[1] = g[1]
    BY <1>1, <1>4, <1>5, LenProperties
<1> QED  BY <1>1, <1>4, <1>6, AppendKeepsCounters

\* What is known of a node's child.
LEMMA ChildFacts ==
  ASSUME NEW nodes, NEW hs, Forest(nodes, hs), NEW x \in Address, NEW c \in nodes[x].child
  PROVE  /\ c \in Address /\ nodes[x].used /\ nodes[c].used
         /\ nodes[c].parent = x /\ nodes[c].index \in nodes[x].edges /\ nodes[c].index \in Move
         /\ nodes[c].index \in LegalMoves(Latest(hs[x]).board)
         /\ hs[c] = AppendMove(hs[x], nodes[c].index)
         /\ Len(hs[x]) \in Nat /\ Len(hs[c]) = Len(hs[x]) + 1 /\ hs[c][1] = hs[x][1]
         /\ c # x
<1>1. nodes \in [Address -> NodeType] /\ Families(nodes) /\ Histories(nodes, hs)
    BY DEF Forest
<1>2. nodes[x].used  BY <1>1 DEF Unused, NewNode, Families
<1> QED  BY <1>1, <1>2, AppendMoveGrows DEF Histories, Families, NodeType

\* Nodes further from the start rank lower.
LEMMA RankExists ==
  ASSUME NEW nodes, NEW hs, Forest(nodes, hs)
  PROVE  \E rank : Ranked(nodes, rank)
<1> DEFINE f == [x \in Address |-> IF nodes[x].used THEN Len(hs[x]) ELSE 0]
           M == SumFunctionOnSet(f, Address)
           rank == [x \in Address |-> M - f[x]]
<1>1. \A x \in Address : f[x] \in Nat  BY DEF Forest, Histories, Linked
<1>2. M \in Nat /\ \A x \in Address : f[x] <= M
  <2>1. IsFiniteSet(Address)  BY NodeTreeAssumption
  <2> HIDE DEF f
  <2> QED  BY <1>1, <2>1, SumIsNat
<1>3. rank \in [Address -> Nat]
  <2> HIDE DEF f, M
  <2> QED  BY <1>1, <1>2
<1>4. ASSUME NEW x \in Address, NEW c \in nodes[x].child
      PROVE  c \in Address /\ rank[c] < rank[x]
  <2>1. c \in Address /\ f[c] = Len(hs[c]) /\ f[x] = Len(hs[x])
        /\ Len(hs[x]) \in Nat /\ Len(hs[c]) = Len(hs[x]) + 1
      BY ChildFacts
  <2> HIDE DEF f, M
  <2> QED  BY <1>2, <2>1
<1> HIDE DEF rank
<1> QED  BY <1>3, <1>4 DEF Ranked

\* So a subtree is the smallest set that has its roots and with a node its children.
LEMMA SubtreeFacts ==
  ASSUME NEW nodes, NEW hs, Forest(nodes, hs), NEW S \in SUBSET Address
  PROVE  /\ Subtree(nodes, S) \in SUBSET Address
         /\ S \subseteq Subtree(nodes, S)
         /\ Closed(nodes, Subtree(nodes, S))
         /\ \A T \in SUBSET Address :
              S \subseteq T /\ Closed(nodes, T) => Subtree(nodes, S) \subseteq T
BY RankExists, SubtreeIsLeast

\* A node of it is one of the roots or the child of another.
LEMMA SubtreeFromAbove ==
  ASSUME NEW nodes, NEW hs, Forest(nodes, hs), NEW S \in SUBSET Address,
         NEW y \in Subtree(nodes, S), y \notin S
  PROVE  \E x \in Subtree(nodes, S) : y \in nodes[x].child
<1> DEFINE T == Subtree(nodes, S) \ {y}
<1>1. SUFFICES ASSUME \A x \in Subtree(nodes, S) : y \notin nodes[x].child PROVE FALSE
    OBVIOUS
<1>2. Closed(nodes, T)  BY <1>1, SubtreeFacts DEF Closed
<1> QED  BY <1>2, SubtreeFacts

\* A set that is closed in both directions holds a subtree or nothing of it.
LEMMA SubtreesApart ==
  ASSUME NEW nodes, NEW hs, Forest(nodes, hs), NEW S \in SUBSET Address, NEW T \in SUBSET Address,
         \A a \in S \cup T : ChildOfNone(nodes, a), S \cap T = {}
  PROVE  Subtree(nodes, S) \cap Subtree(nodes, T) = {}
<1> DEFINE U == Address \ Subtree(nodes, S)
<1>1. Closed(nodes, U)
    BY ChildFacts, SubtreeFromAbove, SubtreeFacts DEF Closed, ChildOfNone
<1> QED  BY <1>1, SubtreeFacts, SubtreeFromAbove DEF ChildOfNone

\* Used nodes have used nodes below.
LEMMA SubtreeUsed ==
  ASSUME NEW nodes, NEW hs, Forest(nodes, hs), NEW S \in SUBSET Address,
         \A a \in S : nodes[a].used
  PROVE  \A a \in Subtree(nodes, S) : nodes[a].used
<1> DEFINE U == {a \in Address : nodes[a].used}
<1>1. S \subseteq U /\ Closed(nodes, U) /\ U \in SUBSET Address  BY ChildFacts DEF Closed
<1> QED  BY <1>1, SubtreeFacts

\* Going up from a used node one comes to a node that is the child of none.
LEMMA UsedCovered ==
  ASSUME NEW nodes, NEW hs, Forest(nodes, hs), NEW U \in SUBSET Address, Closed(nodes, U),
         \A a \in Address : nodes[a].used /\ ChildOfNone(nodes, a) => a \in U
  PROVE  \A a \in Address : nodes[a].used => a \in U
<1> DEFINE V == {a \in Address : nodes[a].used /\ a \notin U}
           N == {Len(hs[a]) : a \in V}
<1>1. SUFFICES ASSUME V # {} PROVE FALSE  OBVIOUS
<1>2. \A a \in V : Len(hs[a]) \in Nat  BY DEF Forest, Histories, Linked
<1>3. N \in SUBSET Nat /\ N # {}  BY <1>1, <1>2
<1>4. PICK n \in N : \A m \in N : n <= m
  <2> HIDE DEF N
  <2> QED  BY <1>3, SmallestNumber
<1>5. PICK a \in V : n = Len(hs[a])  OBVIOUS
<1>6. PICK x \in Address : a \in nodes[x].child  BY DEF ChildOfNone
<1>7. nodes[x].used /\ Len(hs[x]) \in Nat /\ Len(hs[a]) = Len(hs[x]) + 1
    BY <1>6, ChildFacts
<1>8. Len(hs[x]) \in N  BY <1>6, <1>7 DEF Closed
<1> HIDE DEF N, V
<1> QED  BY <1>4, <1>5, <1>7, <1>8

\* If the children of none are divided among the tree and the garbage, all nodes are.
LEMMA OwnersOwn ==
  ASSUME NEW hs, Forest(node, hs), Owners(node, subtrees_to_gc_, gamebegin_node_),
         gamebegin_node_ \in Address \cup {None}
  PROVE  OwnedOnce
<1> DEFINE roots == IF gamebegin_node_ = None THEN {} ELSE {gamebegin_node_}
           garbage == UNION {Subtree(node, e) : e \in subtrees_to_gc_}
<1>1. /\ Live = Subtree(node, roots) /\ roots \in SUBSET Address
      /\ \A e \in subtrees_to_gc_ : e \in SUBSET Address
      /\ \A a \in roots : node[a].used /\ ChildOfNone(node, a)
      /\ \A e \in subtrees_to_gc_ : \A a \in e : node[a].used /\ ChildOfNone(node, a)
  <2>1. \A e \in subtrees_to_gc_ : e \in SUBSET Address  BY DEF Owners
  <2>2. Subtree(node, {}) = {}  BY SubtreeFacts DEF Closed
  <2> QED  BY <2>1, <2>2 DEF Live, Owners
<1>2. ASSUME NEW e \in subtrees_to_gc_, NEW f \in subtrees_to_gc_, e # f
      PROVE  Subtree(node, e) \cap Subtree(node, f) = {}
  <2> HIDE DEF roots
  <2> QED  BY <1>1, <1>2, SubtreesApart DEF Owners
<1>3. ASSUME NEW e \in subtrees_to_gc_ PROVE Subtree(node, e) \cap Live = {}
  <2>1. e \cap roots = {}  BY <1>3 DEF Owners
  <2> HIDE DEF roots
  <2> QED  BY <1>1, <2>1, SubtreesApart
<1>4. ASSUME NEW a \in Live \cup garbage PROVE a \in Address \ Free(node)
  <2> HIDE DEF roots
  <2> QED  BY <1>1, SubtreeFacts, SubtreeUsed DEF Free
<1>5. ASSUME NEW a \in Address \ Free(node) PROVE a \in Live \cup garbage
  <2> DEFINE U == Live \cup garbage
  <2>1. Closed(node, U)
    <3> HIDE DEF roots
    <3> QED  BY <1>1, SubtreeFacts DEF Closed
  <2>2. ASSUME NEW b \in Address, node[b].used /\ ChildOfNone(node, b) PROVE b \in U
    <3>1. roots \subseteq Live /\ \A e \in subtrees_to_gc_ : e \subseteq Subtree(node, e)
      <4> HIDE DEF roots
      <4> QED  BY <1>1, SubtreeFacts
    <3> QED  BY <2>2, <3>1, NodeTreeAssumption DEF Owners
  <2> HIDE DEF U
  <2> QED  BY <1>4, <2>1, <2>2, UsedCovered DEF U, Free
<1> HIDE DEF garbage
<1> QED  BY <1>2, <1>3, <1>4, <1>5 DEF OwnedOnce, garbage

\* So parents are right in the tree.
LEMMA FamiliesRight ==
  ASSUME NEW hs, Forest(node, hs), gamebegin_node_ \in Address \cup {None}
  PROVE  ParentsRight
<1>1. Live \in SUBSET Address  BY SubtreeFacts DEF Live
<1> SUFFICES ASSUME NEW x \in Live, NEW c \in node[x].child
             PROVE  /\ node[c].parent = x /\ node[c].index \in node[x].edges
                    /\ ChildAt(node, x, node[c].index) = {c}
    BY DEF ParentsRight
<1> QED  BY <1>1, ChildFacts DEF ChildAt, Forest, Families

\* What a new node is like, and free memory.
LEMMA NewNodeFacts ==
  ASSUME NEW p, NEW i
  PROVE  /\ p \in Address \cup {None} /\ i \in Move \cup {None} => NewNode(p, i) \in NodeType
         /\ NewNode(p, i).used /\ NewNode(p, i).parent = p /\ NewNode(p, i).index = i
         /\ NewNode(p, i).edges = {} /\ NewNode(p, i).child = {} /\ ~NewNode(p, i).solid
         /\ NewNode(p, i).n = 0 /\ NewNode(p, i).terminal = "no" /\ NewNode(p, i).m = 0
         /\ NewNode(p, i).lower = -1 /\ NewNode(p, i).upper = 1
         /\ Unused \in NodeType /\ ~Unused.used /\ Unused.edges = {} /\ Unused.child = {}
<1>1. NewNode(None, None) \in NodeType  BY DEF NewNode, NodeType
<1>2. Unused \in NodeType /\ ~Unused.used  BY <1>1 DEF Unused, NodeType
<1> QED  BY <1>2 DEF NewNode, NodeType, Unused

\* Nodes that keep their place, and lose children at most.
LEMMA ForestKept ==
  ASSUME NEW nodes, NEW hs, Forest(nodes, hs), NEW after \in [Address -> NodeType],
         \A x \in Address :
           /\ after[x].used = nodes[x].used /\ after[x].parent = nodes[x].parent
           /\ after[x].index = nodes[x].index /\ after[x].child \subseteq nodes[x].child
           /\ ~nodes[x].used => after[x] = nodes[x]
           /\ after[x].edges \subseteq LegalMoves(Latest(hs[x]).board) \/ after[x].edges = nodes[x].edges
           /\ \A c \in after[x].child : nodes[c].index \in after[x].edges
  PROVE  Forest(after, hs)
<1>1. Histories(after, hs)  BY ChildFacts DEF Histories, Forest
<1> QED  BY <1>1, ChildFacts DEF Forest, Families

\* What a node loses is queued.
LEMMA OwnersRelease ==
  ASSUME NEW nodes, NEW hs, Forest(nodes, hs), NEW after, Forest(after, hs),
         NEW garbage, NEW root, Owners(nodes, garbage, root), NEW x \in Address, NEW lost,
         \A y \in Address : after[y].used = nodes[y].used,
         \A y \in Address \ {x} : after[y].child = nodes[y].child,
         after[x].child \subseteq nodes[x].child, lost = nodes[x].child \ after[x].child
  PROVE  Owners(after, IF lost = {} THEN garbage ELSE garbage \cup {lost}, root)
<1> DEFINE more == IF lost = {} THEN garbage ELSE garbage \cup {lost}
<1>1. lost \subseteq Address /\ \A a \in lost : nodes[a].used /\ ~ChildOfNone(nodes, a)
    BY ChildFacts DEF ChildOfNone
<1>2. \A a \in lost : a # root /\ \A e \in garbage : a \notin e  BY <1>1 DEF Owners
<1>3. ASSUME NEW a \in Address PROVE ChildOfNone(after, a) <=> ChildOfNone(nodes, a) \/ a \in lost
    BY ChildFacts DEF ChildOfNone
<1>4. \A a \in Address : (\E e \in more : a \in e) <=> (\E e \in garbage : a \in e) \/ a \in lost
    OBVIOUS
<1>5. \A a \in Address :
        after[a].used /\ ChildOfNone(after, a) <=> a = root \/ \E e \in more : a \in e
  <2> HIDE DEF more
  <2> QED  BY <1>1, <1>3, <1>4 DEF Owners
<1>6. \A e, f \in more : e # f => e \cap f = {}  BY <1>2 DEF Owners
<1> QED  BY <1>1, <1>2, <1>5, <1>6 DEF Owners

\* A node at a free address, and its history.
With(hs, a, h) == [y \in Address |-> IF y = a THEN h ELSE hs[y]]

\* A free address is nobody's child.
LEMMA FreeFacts ==
  ASSUME NEW nodes, NEW hs, Forest(nodes, hs), NEW a \in Free(nodes)
  PROVE  /\ a \in Address /\ ~nodes[a].used /\ nodes[a] = Unused /\ nodes[a].child = {}
         /\ ChildOfNone(nodes, a)
BY NewNodeFacts, ChildFacts DEF Free, Forest, Families, ChildOfNone

\* A node by itself at a free address: the root of another tree.
LEMMA ForestNew ==
  ASSUME NEW nodes, NEW hs, Forest(nodes, hs), NEW a \in Free(nodes),
         NEW p \in Address \cup {None}, NEW i \in Move \cup {None}, NEW after,
         after = [nodes EXCEPT ![a] = NewNode(p, i)], NEW h, Linked(h), CountersRight(h)
  PROVE  Forest(after, With(hs, a, h))
<1>1. a \in Address /\ ~nodes[a].used /\ ChildOfNone(nodes, a)  BY FreeFacts
<1>2. nodes \in [Address -> NodeType]  BY DEF Forest
<1>3. after[a] = NewNode(p, i) /\ \A y \in Address \ {a} : after[y] = nodes[y]
    BY <1>1, <1>2
<1>4. \A x \in Address \ {a} : \A c \in nodes[x].child : c \in Address \ {a}
    BY <1>1, ChildFacts DEF ChildOfNone
<1>5. Families(after)  BY <1>3, <1>4, NewNodeFacts DEF Families, Forest
<1>6. Histories(after, With(hs, a, h))
    BY <1>3, <1>4, NewNodeFacts DEF Histories, With, Forest
<1> QED  BY <1>1, <1>2, <1>5, <1>6, NewNodeFacts DEF Forest

\* A child is added at an edge that leads to none yet.
LEMMA SpawnPoints ==
  ASSUME NEW nodes, NEW hs, Forest(nodes, hs), NEW x \in Address, nodes[x].used, NEW m \in Move,
         ChildAt(nodes, x, m) = {}, NEW a \in Free(nodes), NEW after,
         after = Spawn(nodes, x, m, a)
  PROVE  /\ a \in Address /\ a # x /\ after[a] = NewNode(x, m)
         /\ after[x].child = nodes[x].child \cup {a}
         /\ after[x].used /\ after[x].parent = nodes[x].parent /\ after[x].index = nodes[x].index
         /\ after[x].edges = nodes[x].edges /\ after[x].solid = nodes[x].solid
         /\ after[x].n = nodes[x].n /\ after[x].terminal = nodes[x].terminal
         /\ after[x].m = nodes[x].m
         /\ after[x].lower = nodes[x].lower /\ after[x].upper = nodes[x].upper
         /\ \A y \in Address \ {a, x} : after[y] = nodes[y]
         /\ after \in [Address -> NodeType]
BY FreeFacts, NewNodeFacts DEF Forest, Spawn, NodeType

\* A spawned child belongs to the forest.
LEMMA ForestSpawn ==
  ASSUME NEW nodes, NEW hs, Forest(nodes, hs), NEW x \in Address, nodes[x].used,
         NEW m \in nodes[x].edges, ChildAt(nodes, x, m) = {}, NEW a \in Free(nodes)
  PROVE  Forest(Spawn(nodes, x, m, a), With(hs, a, AppendMove(hs[x], m)))
<1> DEFINE after == Spawn(nodes, x, m, a)
<1>1. after = Spawn(nodes, x, m, a)  OBVIOUS
<1> HIDE DEF after
<1> DEFINE g == With(hs, a, AppendMove(hs[x], m))
<1>2. nodes \in [Address -> NodeType] /\ m \in Move  BY DEF Forest, NodeType
<1>3. /\ a \in Address /\ a # x /\ after[a] = NewNode(x, m)
      /\ after[x].child = nodes[x].child \cup {a} /\ after[x].used
      /\ after[x].edges = nodes[x].edges /\ after[x].index = nodes[x].index
      /\ \A y \in Address \ {a, x} : after[y] = nodes[y]
      /\ after \in [Address -> NodeType]
    BY <1>1, <1>2, SpawnPoints
<1>4. ~nodes[a].used /\ \A y \in Address : a \notin nodes[y].child
    BY FreeFacts DEF ChildOfNone
<1>5. \A y \in Address : \A c \in nodes[y].child : c \in Address \ {a} /\ after[c].used
                           /\ after[c].parent = y /\ after[c].index = nodes[c].index
    BY <1>1, <1>2, <1>3, <1>4, ChildFacts, SpawnPoints
<1>6. Families(after)  BY <1>3, <1>5, NewNodeFacts, ChildFacts DEF Families, ChildAt, Forest
<1>7. g[a] = AppendMove(hs[x], m) /\ \A y \in Address \ {a} : g[y] = hs[y]  BY <1>3 DEF With
<1> HIDE DEF g
<1>8. Histories(after, g)
  <2> SUFFICES ASSUME NEW y \in Address, after[y].used
               PROVE  /\ Linked(g[y]) /\ CountersRight(g[y])
                      /\ after[y].edges \subseteq LegalMoves(Latest(g[y]).board)
                      /\ \A c \in after[y].child : g[c] = AppendMove(g[y], after[c].index)
      BY DEF Histories
  <2>1. CASE y = a  BY <1>3, <1>7, <2>1, NewNodeFacts, AppendMoveGrows DEF Forest, Histories
  <2>2. CASE y # a
    <3>1. g[y] = hs[y] /\ nodes[y].used /\ after[y].edges = nodes[y].edges
        BY <1>3, <1>7, <2>2
    <3>2. /\ Linked(hs[y]) /\ CountersRight(hs[y])
          /\ nodes[y].edges \subseteq LegalMoves(Latest(hs[y]).board)
          /\ \A c \in nodes[y].child : hs[c] = AppendMove(hs[y], nodes[c].index)
        BY <3>1 DEF Forest, Histories
    <3>3. ASSUME NEW c \in after[y].child PROVE g[c] = AppendMove(g[y], after[c].index)
      <4>1. CASE c \in nodes[y].child  BY <1>5, <1>7, <3>1, <3>2, <4>1
      <4>2. CASE c \notin nodes[y].child
          BY <1>3, <1>7, <2>2, <3>1, <3>3, <4>2, NewNodeFacts
      <4> QED  BY <4>1, <4>2
    <3> QED  BY <3>1, <3>2, <3>3
  <2> QED  BY <2>1, <2>2
<1> QED  BY <1>3, <1>6, <1>8 DEF Forest, after, g

-----------------------------------------------------------------------------
(* Nodes that move.                                                        *)

\* Two nodes with the same contents, except for parents and solidity.
SameNode(p, q) ==
  /\ p.used = q.used /\ p.index = q.index /\ p.edges = q.edges
  /\ p.n = q.n /\ p.terminal = q.terminal /\ p.m = q.m
  /\ p.lower = q.lower /\ p.upper = q.upper

\* The children S of x move to places of B, which was free, and all of B are the children
\* of x then. What was below S follows; shells stay where S was.
Relocated(nodes, after, x, S, to, B) ==
  /\ after \in [Address -> NodeType]
  /\ x \in Address /\ S \subseteq nodes[x].child /\ B \subseteq Free(nodes)
  /\ to \in [S -> B] /\ \A s, t \in S : to[s] = to[t] => s = t
  /\ \A s \in S : after[to[s]] = nodes[s] /\ after[s] = NewNode(None, None)
  /\ \A b \in B :
       /\ (\A s \in S : to[s] # b) => after[b] = NewNode(x, after[b].index)
       /\ after[b].index \in nodes[x].edges
  /\ \A b, c \in B : after[b].index = after[c].index => b = c
  /\ after[x].child = B /\ SameNode(after[x], nodes[x]) /\ after[x].parent = nodes[x].parent
  /\ \A s \in S : \A y \in nodes[s].child :
       /\ after[y].parent = to[s] /\ SameNode(after[y], nodes[y])
       /\ after[y].child = nodes[y].child /\ after[y].solid = nodes[y].solid
  /\ \A y \in Address :
       y # x /\ y \notin B /\ y \notin S /\ (\A s \in S : y \notin nodes[s].child) =>
         after[y] = nodes[y]

\* The histories at the places of B.
Rehomed(hs, after, x, B) ==
  [y \in Address |-> IF y \in B THEN AppendMove(hs[x], after[y].index) ELSE hs[y]]

\* What the nodes that did not move are like.
LEMMA Unmoved ==
  ASSUME NEW nodes, NEW hs, Forest(nodes, hs), NEW after, NEW x, NEW S, NEW to, NEW B,
         Relocated(nodes, after, x, S, to, B),
         NEW y \in Address, y \notin B, y \notin S
  PROVE  /\ SameNode(after[y], nodes[y])
         /\ y # x => after[y].child = nodes[y].child /\ after[y].solid = nodes[y].solid
         /\ (\A s \in S : y \notin nodes[s].child) => after[y].parent = nodes[y].parent
BY DEF Relocated, SameNode

\* Where the nodes that move come from and go to.
LEMMA RelocatedFacts ==
  ASSUME NEW nodes, NEW hs, Forest(nodes, hs), NEW after, NEW x, NEW S, NEW to, NEW B,
         Relocated(nodes, after, x, S, to, B)
  PROVE  /\ x \in Address /\ x \notin S /\ x \notin B /\ S \cap B = {}
         /\ S \subseteq Address /\ B \subseteq Address
         /\ \A b \in B : ~nodes[b].used /\ nodes[b].child = {} /\ ChildOfNone(nodes, b)
         /\ \A y \in Address : \A c \in nodes[y].child : c \notin B /\ (y # x => c \notin S)
BY FreeFacts, ChildFacts, NewNodeFacts DEF Relocated

\* Nodes that moved are a forest still: parents and children agree.
LEMMA ForestRelocated ==
  ASSUME NEW nodes, NEW hs, Forest(nodes, hs), NEW after, NEW x, NEW S, NEW to, NEW B,
         Relocated(nodes, after, x, S, to, B), nodes[x].used
  PROVE  Forest(after, Rehomed(hs, after, x, B))
<1> DEFINE g == Rehomed(hs, after, x, B)
<1>1. /\ x \in Address /\ x \notin S /\ x \notin B /\ S \cap B = {}
      /\ S \subseteq Address /\ B \subseteq Address
      /\ \A b \in B : ~nodes[b].used /\ nodes[b].child = {}
      /\ \A y \in Address : \A c \in nodes[y].child : c \notin B /\ (y # x => c \notin S)
    BY RelocatedFacts
<1>2. /\ after \in [Address -> NodeType]
      /\ to \in [S -> B] /\ S \subseteq nodes[x].child
      /\ \A s \in S : after[to[s]] = nodes[s] /\ after[s] = NewNode(None, None)
      /\ \A b \in B :
           /\ (\A s \in S : to[s] # b) => after[b] = NewNode(x, after[b].index)
           /\ after[b].index \in nodes[x].edges
      /\ \A b, c \in B : after[b].index = after[c].index => b = c
      /\ after[x].child = B
      /\ \A s \in S : \A y \in nodes[s].child : after[y].parent = to[s]
    BY DEF Relocated
<1>3. ASSUME NEW b \in B PROVE after[b].used /\ after[b].parent = x
    BY <1>1, <1>2, ChildFacts, NewNodeFacts
<1>4. ASSUME NEW y \in Address \ (S \cup {x}), NEW c \in nodes[y].child
      PROVE  /\ c \in Address \ (B \cup S) /\ after[c].used /\ after[c].parent = y
             /\ after[c].index = nodes[c].index
             /\ nodes[c].index \in nodes[y].edges
    BY <1>1, ChildFacts, Unmoved DEF SameNode
<1>5. ASSUME NEW s \in S, NEW c \in nodes[s].child
      PROVE  /\ c \in Address \ (B \cup S) /\ after[c].used /\ after[c].parent = to[s]
             /\ after[c].index = nodes[c].index
             /\ nodes[c].index \in nodes[s].edges
    BY <1>1, <1>2, ChildFacts, Unmoved DEF SameNode
<1>6. \A p \in Address : \A c, d \in nodes[p].child : nodes[c].index = nodes[d].index => c = d
    BY DEF Forest, Families
<1>7. Families(after)
  <2> SUFFICES ASSUME NEW y \in Address, y # x
               PROVE  /\ ~after[y].used => after[y] = Unused
                      /\ \A c \in after[y].child :
                           after[c].used /\ after[c].parent = y /\ after[c].index \in after[y].edges
                      /\ \A c, d \in after[y].child : after[c].index = after[d].index => c = d
      BY <1>1, <1>2, <1>3, Unmoved DEF Families, SameNode
  <2>1. CASE y \in S  BY <1>2, <2>1, NewNodeFacts
  <2>2. CASE y \in B  BY <1>1, <1>2, <1>3, <1>5, <1>6, <2>2, NewNodeFacts
  <2>3. CASE y \notin S /\ y \notin B
      BY <1>1, <1>4, <1>6, <2>3, Unmoved, ChildFacts DEF Relocated, SameNode, Forest, Families
  <2> QED  BY <2>1, <2>2, <2>3
<1>8. /\ \A b \in B : g[b] = AppendMove(hs[x], after[b].index)
      /\ \A y \in Address \ B : g[y] = hs[y]
    BY <1>1 DEF Rehomed
<1>9. \A s \in S : g[to[s]] = hs[s]
  <2> SUFFICES ASSUME NEW s \in S PROVE g[to[s]] = hs[s]  OBVIOUS
  <2> HIDE DEF g
  <2> QED  BY <1>1, <1>2, <1>8, ChildFacts
<1> HIDE DEF g
<1>10. ASSUME NEW y \in Address, nodes[y].used
       PROVE  /\ Linked(hs[y]) /\ CountersRight(hs[y])
              /\ nodes[y].edges \subseteq LegalMoves(Latest(hs[y]).board)
              /\ \A c \in nodes[y].child : hs[c] = AppendMove(hs[y], nodes[c].index)
    BY <1>10 DEF Forest, Histories
<1>11. Histories(after, g)
  <2> SUFFICES ASSUME NEW y \in Address, after[y].used
               PROVE  /\ Linked(g[y]) /\ CountersRight(g[y])
                      /\ after[y].edges \subseteq LegalMoves(Latest(g[y]).board)
                      /\ \A c \in after[y].child : g[c] = AppendMove(g[y], after[c].index)
      BY DEF Histories
  <2>1. CASE y \in S  BY <1>1, <1>2, <1>8, <1>10, <2>1, ChildFacts, NewNodeFacts
  <2>2. CASE y \in B
    <3>1. CASE \E s \in S : to[s] = y
      <4>1. PICK s \in S : to[s] = y  BY <3>1
      <4>2. after[y] = nodes[s] /\ s \in Address /\ g[y] = hs[s] /\ nodes[s].used
          BY <1>1, <1>2, <1>9, <4>1, ChildFacts
      <4> QED  BY <1>5, <1>8, <1>10, <4>2
    <3>2. CASE \A s \in S : to[s] # y
      <4>1. Linked(hs[x]) /\ CountersRight(hs[x])
            /\ after[y].index \in LegalMoves(Latest(hs[x]).board)
          BY <1>1, <1>2, <1>10, <2>2
      <4>2. Linked(g[y]) /\ CountersRight(g[y])  BY <1>8, <2>2, <4>1, AppendMoveGrows
      <4> QED  BY <1>2, <2>2, <3>2, <4>2, NewNodeFacts
    <3> QED  BY <3>1, <3>2
  <2>3. CASE y \notin S /\ y \notin B
      BY <1>2, <1>4, <1>8, <1>10, <2>3, Unmoved DEF SameNode
  <2> QED  BY <2>1, <2>2, <2>3
<1> QED  BY <1>2, <1>7, <1>11 DEF Forest, g

\* The places they left, and the other children of x, are the children of none.
LEMMA RelocatedRoots ==
  ASSUME NEW nodes, NEW hs, Forest(nodes, hs), NEW after, NEW x, NEW S, NEW to, NEW B,
         Relocated(nodes, after, x, S, to, B), NEW z \in Address
  PROVE  /\ ChildOfNone(after, z) <=> z \notin B /\ (ChildOfNone(nodes, z) \/ z \in nodes[x].child)
         /\ after[z].used <=> nodes[z].used \/ z \in B
<1>1. /\ x \in Address /\ x \notin S /\ x \notin B /\ S \cap B = {}
      /\ S \subseteq Address /\ B \subseteq Address
      /\ \A b \in B : ~nodes[b].used /\ nodes[b].child = {}
      /\ \A y \in Address : \A c \in nodes[y].child : c \notin B /\ (y # x => c \notin S)
    BY RelocatedFacts
<1>2. /\ to \in [S -> B] /\ S \subseteq nodes[x].child /\ after[x].child = B
      /\ \A s \in S : after[to[s]] = nodes[s] /\ after[s] = NewNode(None, None)
      /\ \A b \in B : (\A s \in S : to[s] # b) => after[b] = NewNode(x, after[b].index)
    BY DEF Relocated
<1>3. \A s \in S : nodes[s].used /\ after[s].used /\ after[s].child = {}
    BY <1>1, <1>2, ChildFacts, NewNodeFacts
<1>4. \A y \in Address \ (S \cup B \cup {x}) : after[y].child = nodes[y].child  BY Unmoved
<1>5. \A b \in B : \/ \E s \in S : b = to[s] /\ after[b] = nodes[s]
                   \/ after[b].child = {} /\ after[b].used
    BY <1>2, NewNodeFacts
<1>6. ASSUME ChildOfNone(after, z) PROVE z \notin B /\ (ChildOfNone(nodes, z) \/ z \in nodes[x].child)
    BY <1>1, <1>2, <1>4, <1>6 DEF ChildOfNone
<1>7. ASSUME z \notin B, ChildOfNone(nodes, z) \/ z \in nodes[x].child, NEW y \in Address
      PROVE  z \notin after[y].child
    BY <1>1, <1>2, <1>3, <1>4, <1>5, <1>7, ChildFacts DEF ChildOfNone
<1> QED  BY <1>3, <1>5, <1>6, <1>7, Unmoved DEF SameNode, ChildOfNone

\* Only its parent is changed.
LEMMA ParentOnly ==
  ASSUME NEW p \in NodeType, NEW v \in Address \cup {None}, NEW q, q = [p EXCEPT !.parent = v]
  PROVE  /\ q.parent = v /\ SameNode(q, p) /\ q.child = p.child /\ q.solid = p.solid
         /\ q \in NodeType
BY DEF NodeType, SameNode

\* Only its children and its solidity are.
LEMMA ChildrenOnly ==
  ASSUME NEW p \in NodeType, NEW C \in SUBSET Address, NEW s \in BOOLEAN, NEW q,
         q = [[p EXCEPT !.child = C] EXCEPT !.solid = s]
  PROVE  /\ q.child = C /\ SameNode(q, p) /\ q.parent = p.parent /\ q.solid = s
         /\ q \in NodeType
BY DEF NodeType, SameNode

\* What Moved() puts at each address.
LEMMA MovedPoints ==
  ASSUME NEW nodes \in [Address -> NodeType], NEW to, \A a \in DOMAIN to : to[a] \in Address,
         \A a, b \in DOMAIN to : to[a] = to[b] => a = b, NEW moved,
         \A a \in DOMAIN to : \A c \in nodes[a].child : nodes[c].parent = a,
         moved = Moved(nodes, to), NEW y \in Address
  PROVE  /\ \A a \in DOMAIN to : to[a] = y => moved[y] = nodes[a]
         /\ (\A a \in DOMAIN to : to[a] # y) /\ y \in DOMAIN to => moved[y] = NewNode(None, None)
         /\ \A a \in DOMAIN to :
              (\A b \in DOMAIN to : to[b] # y) /\ y \notin DOMAIN to /\ y \in nodes[a].child =>
                /\ moved[y].parent = to[a] /\ SameNode(moved[y], nodes[y])
                /\ moved[y].child = nodes[y].child /\ moved[y].solid = nodes[y].solid
                /\ moved[y] \in NodeType
         /\ (\A a \in DOMAIN to : to[a] # y) /\ y \notin DOMAIN to
              /\ (\A a \in DOMAIN to : y \notin nodes[a].child) => moved[y] = nodes[y]
BY ParentOnly DEF Moved

\* A block: the first places that are free.
LEMMA BlockExists ==
  ASSUME NEW F \in SUBSET Address, NEW k \in Nat, k <= Cardinality(F)
  PROVE  \E B \in SUBSET F : Cardinality(B) = k /\ \A a \in B, b \in F \ B : a < b
<1> DEFINE Fits(n) == \E B \in SUBSET F : Cardinality(B) = n /\ \A a \in B, b \in F \ B : a < b
           N == {n \in Nat : n <= Cardinality(F) /\ ~Fits(n)}
<1>1. IsFiniteSet(F) /\ F \subseteq Nat /\ Cardinality(F) \in Nat
    BY FS_Subset, FS_CardinalityType, NodeTreeAssumption
<1>2. SUFFICES ASSUME N # {} PROVE FALSE  OBVIOUS
<1>3. PICK n \in N : \A j \in N : n <= j
  <2>1. N \in SUBSET Nat  OBVIOUS
  <2> HIDE DEF N
  <2> QED  BY <1>2, <2>1, SmallestNumber
<1>4. n \in Nat /\ n <= Cardinality(F) /\ ~Fits(n)  OBVIOUS
<1>5. n - 1 \in Nat /\ n - 1 \notin N
  <2> HIDE DEF N
  <2> QED  BY <1>3, <1>4, FS_EmptySet
<1>6. PICK B \in SUBSET F : Cardinality(B) = n - 1 /\ \A a \in B, b \in F \ B : a < b
    BY <1>1, <1>4, <1>5
<1>7. F \ B # {}
  <2> SUFFICES ASSUME F \subseteq B PROVE FALSE  OBVIOUS
  <2>1. F = B  OBVIOUS
  <2> QED  BY <1>1, <1>4, <1>6, <2>1
<1>8. PICK m \in F \ B : \A b \in F \ B : m <= b
  <2>1. F \ B \in SUBSET Nat  BY <1>1
  <2> QED  BY <1>7, <2>1, SmallestNumber
<1> DEFINE C == B \cup {m}
<1>9. C \in SUBSET F /\ Cardinality(C) = n
  <2>1. IsFiniteSet(B) /\ m \notin B  BY <1>1, FS_Subset
  <2>2. Cardinality(B \cup {m}) = (n - 1) + 1  BY <1>6, <2>1, FS_AddElement
  <2> QED  BY <1>4, <2>2
<1>10. ASSUME NEW a \in C, NEW b \in F \ C PROVE a < b  BY <1>1, <1>6, <1>8
<1>11. Fits(n)
  <2> HIDE DEF C
  <2> QED  BY <1>9, <1>10
<1> QED  BY <1>4, <1>11

\* What Block() finds.
LEMMA BlockFacts ==
  ASSUME NEW nodes, NEW x, nodes[x].edges \subseteq Move,
         Cardinality(nodes[x].edges) <= Cardinality(Free(nodes)), NEW B, B = Block(nodes, x)
  PROVE  /\ B \subseteq Free(nodes) /\ IsFiniteSet(B)
         /\ Cardinality(B) = Cardinality(nodes[x].edges)
<1> DEFINE k == Cardinality(nodes[x].edges)
           F == Free(nodes)
<1>1. F \in SUBSET Address /\ IsFiniteSet(F)  BY FS_Subset, NodeTreeAssumption DEF Free
<1>2. k \in Nat  BY FS_Subset, FS_CardinalityType, NodeTreeAssumption
<1> QED  BY <1>1, <1>2, FS_Subset, BlockExists DEF Block, kSubset

\* One place for each edge, and one edge for each place.
LEMMA SlotsExist ==
  ASSUME NEW E, NEW B, IsFiniteSet(E), IsFiniteSet(B), Cardinality(B) = Cardinality(E)
  PROVE  /\ \E f \in [E -> B] : IsInjective(f)
         /\ \A f \in [E -> B] : IsInjective(f) =>
              /\ \A m, k \in E : f[m] = f[k] => m = k
              /\ \A b \in B : \E m \in E : f[m] = b
<1>1. PICK f : f \in Bijection(E, B)  BY FS_SameCardinalityBij DEF ExistsBijection
<1>2. ASSUME NEW g \in [E -> B], IsInjective(g)
      PROVE  /\ \A m, k \in E : g[m] = g[k] => m = k
             /\ \A b \in B : \E m \in E : g[m] = b
    BY <1>2, FS_Injection DEF Injection, IsInjective, Surjection
<1> QED  BY <1>1, <1>2 DEF Bijection, Injection

\* ReleaseChildrenExceptOne moves one child. Its siblings are not its children any more.
LEMMA KeepOneMoves ==
  ASSUME NEW nodes, NEW hs, Forest(nodes, hs), NEW x \in Address, NEW c \in nodes[x].child,
         NEW a \in Free(nodes), NEW after, after = KeepOne(nodes, x, c, a)
  PROVE  /\ Relocated(nodes, after, x, {c}, [b \in {c} |-> a], {a})
         /\ ~after[x].solid
<1> DEFINE to == [b \in {c} |-> a]
<1>1. /\ a \in Address /\ ~nodes[a].used /\ ChildOfNone(nodes, a) /\ nodes[a].child = {}
      /\ nodes \in [Address -> NodeType]
    BY FreeFacts DEF Forest
<1>2. /\ c \in Address /\ nodes[x].used /\ nodes[c].used /\ nodes[c].parent = x /\ c # x
      /\ nodes[c].index \in nodes[x].edges
    BY ChildFacts
<1>3. a # x /\ a # c /\ x \notin nodes[c].child /\ c \notin nodes[c].child
    BY <1>1, <1>2, ChildFacts
<1>4. /\ DOMAIN to = {c} /\ to[c] = a /\ to \in [{c} -> {a}]
      /\ after = [[Moved(nodes, to) EXCEPT ![x].child = {a}] EXCEPT ![x].solid = FALSE]
    BY DEF KeepOne
<1> HIDE DEF to
<1> DEFINE moved == Moved(nodes, to)
<1>5. moved = Moved(nodes, to)  OBVIOUS
<1> HIDE DEF moved
<1>6. /\ moved[a] = nodes[c] /\ moved[c] = NewNode(None, None) /\ moved[x] = nodes[x]
      /\ \A y \in nodes[c].child :
           /\ moved[y].parent = a /\ SameNode(moved[y], nodes[y])
           /\ moved[y].child = nodes[y].child /\ moved[y].solid = nodes[y].solid
           /\ moved[y] \in NodeType
      /\ \A y \in Address : y # a /\ y # c /\ y \notin nodes[c].child => moved[y] = nodes[y]
  <2>1. /\ \A b \in DOMAIN to : to[b] \in Address
        /\ \A s, t \in DOMAIN to : to[s] = to[t] => s = t
        /\ \A b \in DOMAIN to : \A d \in nodes[b].child : nodes[d].parent = b
      BY <1>1, <1>2, <1>4, ChildFacts
  <2>2. moved[a] = nodes[c]  BY <1>1, <1>4, <1>5, <2>1, MovedPoints
  <2>3. moved[c] = NewNode(None, None)  BY <1>1, <1>2, <1>3, <1>4, <1>5, <2>1, MovedPoints
  <2>4. ASSUME NEW y \in nodes[c].child
        PROVE  /\ moved[y].parent = a /\ SameNode(moved[y], nodes[y])
               /\ moved[y].child = nodes[y].child /\ moved[y].solid = nodes[y].solid
               /\ moved[y] \in NodeType
    <3>1. y \in Address /\ y # c /\ y # a  BY <1>1, <1>2, ChildFacts DEF ChildOfNone
    <3> QED  BY <1>1, <1>4, <1>5, <2>1, <3>1, MovedPoints
  <2>5. ASSUME NEW y \in Address, y # a, y # c, y \notin nodes[c].child PROVE moved[y] = nodes[y]
      BY <1>1, <1>4, <1>5, <2>1, <2>5, MovedPoints
  <2>6. moved[x] = nodes[x]  BY <1>2, <1>3, <2>5
  <2> QED  BY <2>2, <2>3, <2>4, <2>5, <2>6
<1>7. moved \in [Address -> NodeType]
  <2>1. \A y \in Address : moved[y] \in NodeType  BY <1>1, <1>2, <1>6, NewNodeFacts
  <2> QED  BY <1>5, <2>1 DEF Moved
<1> DEFINE r == [[nodes[x] EXCEPT !.child = {a}] EXCEPT !.solid = FALSE]
<1>8. after = [moved EXCEPT ![x] = r]  BY <1>4, <1>5, <1>6, <1>7
<1>9. after[x] = r /\ \A y \in Address \ {x} : after[y] = moved[y]  BY <1>7, <1>8
<1>10. r = [[nodes[x] EXCEPT !.child = {a}] EXCEPT !.solid = FALSE]  OBVIOUS
<1> HIDE DEF r
<1>11. r.child = {a} /\ SameNode(r, nodes[x]) /\ r.parent = nodes[x].parent /\ ~r.solid /\ r \in NodeType
  <2>1. nodes[x] \in NodeType /\ {a} \in SUBSET Address /\ FALSE \in BOOLEAN  BY <1>1
  <2>2. r.child = {a} /\ SameNode(r, nodes[x]) /\ r.parent = nodes[x].parent /\ r.solid = FALSE /\ r \in NodeType
      BY <1>10, <2>1 DEF NodeType, SameNode
  <2> QED  BY <2>2
<1>12. after \in [Address -> NodeType]  BY <1>7, <1>8, <1>11
<1>13. \A y \in nodes[c].child :
         /\ after[y].parent = a /\ SameNode(after[y], nodes[y])
         /\ after[y].child = nodes[y].child /\ after[y].solid = nodes[y].solid
    BY <1>2, <1>3, <1>6, <1>9, ChildFacts
<1>14. after[a] = nodes[c] /\ after[c] = NewNode(None, None)
    BY <1>1, <1>2, <1>3, <1>6, <1>9
<1>15. \A y \in Address : y # x /\ y \notin {a} /\ y \notin {c} /\ (\A s \in {c} : y \notin nodes[s].child)
          => after[y] = nodes[y]
    BY <1>6, <1>9
<1>16. Relocated(nodes, after, x, {c}, to, {a})
  <2>1. /\ {c} \subseteq nodes[x].child /\ {a} \subseteq Free(nodes)
        /\ \A s, t \in {c} : to[s] = to[t] => s = t
        /\ \A s \in {c} : to[s] = a
      BY <1>4
  <2>2. \A s \in {c} : after[to[s]] = nodes[s] /\ after[s] = NewNode(None, None)
      BY <1>14, <2>1
  <2>3. \A b \in {a} :
          /\ (\A s \in {c} : to[s] # b) => after[b] = NewNode(x, after[b].index)
          /\ after[b].index \in nodes[x].edges
      BY <1>2, <1>14, <2>1
  <2>4. after[x].child = {a} /\ SameNode(after[x], nodes[x]) /\ after[x].parent = nodes[x].parent
      BY <1>9, <1>11
  <2>5. \A s \in {c} : \A y \in nodes[s].child :
          /\ after[y].parent = to[s] /\ SameNode(after[y], nodes[y])
          /\ after[y].child = nodes[y].child /\ after[y].solid = nodes[y].solid
      BY <1>13, <2>1
  <2>6. \A b, d \in {a} : after[b].index = after[d].index => b = d  OBVIOUS
  <2> QED  BY <1>4, <1>12, <1>15, <2>1, <2>2, <2>3, <2>4, <2>5, <2>6 DEF Relocated
<1> QED  BY <1>9, <1>11, <1>16 DEF to

\* MakeSolid moves all children.
LEMMA MakeSolidMoves ==
  ASSUME NEW nodes, NEW hs, Forest(nodes, hs), NEW x \in Address, nodes[x].used,
         Cardinality(nodes[x].edges) <= Cardinality(Free(nodes)),
         NEW after, after = MakeSolid(nodes, x)
  PROVE  \E B, to : /\ Relocated(nodes, after, x, nodes[x].child, to, B) /\ IsFiniteSet(B)
                    /\ after[x].solid
<1> DEFINE B == Block(nodes, x)
           E == nodes[x].edges
           S == nodes[x].child
           slot == CHOOSE f \in [E -> B] : IsInjective(f)
           fresh == [a \in Address |->
                       IF a \in B THEN NewNode(x, CHOOSE m \in E : slot[m] = a) ELSE nodes[a]]
           to == [c \in S |-> slot[nodes[c].index]]
           moved == Moved(fresh, to)
<1>1. /\ nodes \in [Address -> NodeType] /\ E \in SUBSET Move /\ S \in SUBSET Address
      /\ IsFiniteSet(E)
    BY FS_Subset, NodeTreeAssumption DEF Forest, NodeType
<1>2. B \subseteq Free(nodes) /\ IsFiniteSet(B) /\ Cardinality(B) = Cardinality(E)
    BY <1>1, BlockFacts
<1>3. after = [[moved EXCEPT ![x].child = B] EXCEPT ![x].solid = TRUE]  BY DEF MakeSolid
<1> HIDE DEF B
<1>4. /\ slot \in [E -> B]
      /\ \A m, k \in E : slot[m] = slot[k] => m = k
      /\ \A b \in B : \E m \in E : slot[m] = b
  <2> HIDE DEF E
  <2>1. /\ \E f \in [E -> B] : IsInjective(f)
        /\ \A f \in [E -> B] : IsInjective(f) =>
             /\ \A m, k \in E : f[m] = f[k] => m = k
             /\ \A b \in B : \E m \in E : f[m] = b
    <3>1. IsFiniteSet(E) /\ IsFiniteSet(B) /\ Cardinality(B) = Cardinality(E)  BY <1>1, <1>2
    <3> HIDE DEF slot, fresh, to, moved, S
    <3> QED  BY <3>1, SlotsExist
  <2>2. slot \in [E -> B] /\ IsInjective(slot)  BY <2>1
  <2> HIDE DEF slot
  <2> QED  BY <2>1, <2>2
<1> HIDE DEF slot
<1>5. \A a \in B : /\ a \in Address /\ ~nodes[a].used /\ ChildOfNone(nodes, a)
                   /\ nodes[a].child = {} /\ a # x
    BY <1>2, FreeFacts
<1>6. \A c \in S : /\ c \in Address /\ nodes[c].used /\ nodes[c].parent = x /\ c # x
                   /\ nodes[c].index \in E /\ c \notin B /\ x \notin nodes[c].child
    BY <1>5, ChildFacts
<1> HIDE DEF E
<1>7. /\ to \in [S -> B] /\ DOMAIN to = S /\ \A c \in S : to[c] = slot[nodes[c].index]
      /\ \A s, t \in S : to[s] = to[t] => s = t
  <2>1. to \in [S -> B] /\ DOMAIN to = S /\ \A c \in S : to[c] = slot[nodes[c].index]
      BY <1>4, <1>6
  <2>2. \A s, t \in S : nodes[s].index = nodes[t].index => s = t  BY DEF Forest, Families
  <2> HIDE DEF to, S
  <2> QED  BY <1>4, <1>6, <2>1, <2>2
<1>8. /\ \A b \in B : fresh[b] = NewNode(x, fresh[b].index) /\ fresh[b].index \in E
                      /\ slot[fresh[b].index] = b
      /\ \A y \in Address \ B : fresh[y] = nodes[y]
      /\ fresh \in [Address -> NodeType]
  <2>1. ASSUME NEW b \in B
        PROVE  /\ fresh[b] = NewNode(x, fresh[b].index) /\ fresh[b].index \in E
               /\ slot[fresh[b].index] = b /\ fresh[b] \in NodeType
    <3> DEFINE m == CHOOSE m \in E : slot[m] = b
    <3>1. m \in E /\ slot[m] = b  BY <1>4
    <3>2. fresh[b] = NewNode(x, m)  BY <1>5
    <3> HIDE DEF m, fresh
    <3> QED  BY <1>1, <3>1, <3>2, NewNodeFacts
  <2>2. \A y \in Address \ B : fresh[y] = nodes[y]  OBVIOUS
  <2>3. fresh = [y \in Address |-> fresh[y]]  OBVIOUS
  <2> HIDE DEF fresh
  <2> QED  BY <1>1, <2>1, <2>2, <2>3
<1>9. moved = Moved(fresh, to)  OBVIOUS
<1> HIDE DEF fresh, to, moved
<1>10. /\ \A b \in DOMAIN to : to[b] \in Address
       /\ \A s, t \in DOMAIN to : to[s] = to[t] => s = t
       /\ \A b \in DOMAIN to : \A d \in fresh[b].child : fresh[d].parent = b
    BY <1>5, <1>6, <1>7, <1>8, ChildFacts DEF ChildOfNone
<1>11. \A s \in S : moved[to[s]] = nodes[s] /\ moved[s] = NewNode(None, None)
    BY <1>5, <1>6, <1>7, <1>8, <1>9, <1>10, MovedPoints
<1>12. \A b \in B : (\A s \in S : to[s] # b) => moved[b] = fresh[b]
    BY <1>5, <1>6, <1>7, <1>8, <1>9, <1>10, MovedPoints DEF ChildOfNone
<1>13. \A s \in S : \A y \in nodes[s].child :
         /\ y \in Address /\ y # x /\ y \notin B
         /\ moved[y].parent = to[s] /\ SameNode(moved[y], nodes[y])
         /\ moved[y].child = nodes[y].child /\ moved[y].solid = nodes[y].solid
         /\ moved[y] \in NodeType
  <2> SUFFICES ASSUME NEW s \in S, NEW y \in nodes[s].child
               PROVE  /\ y \in Address /\ y # x /\ y \notin B
                      /\ moved[y].parent = to[s] /\ SameNode(moved[y], nodes[y])
                      /\ moved[y].child = nodes[y].child /\ moved[y].solid = nodes[y].solid
                      /\ moved[y] \in NodeType
      OBVIOUS
  <2>1. y \in Address /\ y # x /\ y \notin B /\ nodes[y].parent = s
      BY <1>5, <1>6, ChildFacts DEF ChildOfNone
  <2>2. y \notin S /\ fresh[y] = nodes[y] /\ fresh[s] = nodes[s] /\ \A t \in S : to[t] # y
      BY <1>6, <1>7, <1>8, <2>1
  <2>3. /\ moved[y].parent = to[s] /\ SameNode(moved[y], fresh[y])
        /\ moved[y].child = fresh[y].child /\ moved[y].solid = fresh[y].solid
        /\ moved[y] \in NodeType
      BY <1>7, <1>8, <1>9, <1>10, <2>1, <2>2, MovedPoints
  <2> QED  BY <2>1, <2>2, <2>3
<1>14. \A y \in Address : y \notin B /\ y \notin S /\ (\A s \in S : y \notin nodes[s].child)
         => moved[y] = nodes[y]
    BY <1>6, <1>7, <1>8, <1>9, <1>10, MovedPoints
<1>15. moved \in [Address -> NodeType]
  <2>1. \A y \in Address : moved[y] \in NodeType
    <3> SUFFICES ASSUME NEW y \in Address PROVE moved[y] \in NodeType  OBVIOUS
    <3>1. CASE y \in S  BY <1>11, <3>1, NewNodeFacts
    <3>2. CASE y \in B  BY <1>1, <1>6, <1>8, <1>11, <1>12, <3>2
    <3>3. CASE y \notin S /\ y \notin B  BY <1>1, <1>13, <1>14, <3>3
    <3> QED  BY <3>1, <3>2, <3>3
  <2>2. moved = [y \in Address |-> moved[y]]  BY <1>9 DEF Moved
  <2> QED  BY <2>1, <2>2
<1> HIDE DEF S
<1>16. moved[x] = nodes[x] /\ nodes[x] \in NodeType  BY <1>1, <1>5, <1>6, <1>14
<1> DEFINE r == [[nodes[x] EXCEPT !.child = B] EXCEPT !.solid = TRUE]
<1>17. after = [moved EXCEPT ![x] = r]  BY <1>3, <1>15, <1>16
<1>18. after[x] = r /\ \A y \in Address \ {x} : after[y] = moved[y]  BY <1>15, <1>17
<1>19. r.child = B /\ SameNode(r, nodes[x]) /\ r.parent = nodes[x].parent /\ r.solid /\ r \in NodeType
  <2>1. B \in SUBSET Address  BY <1>5
  <2> QED  BY <1>16, <2>1 DEF NodeType, SameNode
<1> HIDE DEF r
<1>20. after \in [Address -> NodeType]  BY <1>15, <1>17, <1>19
<1>21. \A b \in B : /\ (\A s \in S : to[s] # b) => after[b] = NewNode(x, after[b].index)
                    /\ after[b].index \in E /\ slot[after[b].index] = b
    BY <1>5, <1>6, <1>7, <1>8, <1>11, <1>12, <1>18
<1>22. Relocated(nodes, after, x, S, to, B)
  <2>1. S \subseteq nodes[x].child  BY DEF S
  <2>2. \A s \in S : after[to[s]] = nodes[s] /\ after[s] = NewNode(None, None)
      BY <1>5, <1>6, <1>7, <1>11, <1>18
  <2>3. \A b \in B :
          /\ (\A s \in S : to[s] # b) => after[b] = NewNode(x, after[b].index)
          /\ after[b].index \in nodes[x].edges
      BY <1>21 DEF E
  <2>4. after[x].child = B /\ SameNode(after[x], nodes[x]) /\ after[x].parent = nodes[x].parent
      BY <1>18, <1>19
  <2>5. \A s \in S : \A y \in nodes[s].child :
          /\ after[y].parent = to[s] /\ SameNode(after[y], nodes[y])
          /\ after[y].child = nodes[y].child /\ after[y].solid = nodes[y].solid
      BY <1>13, <1>18
  <2>6. \A y \in Address :
          y # x /\ y \notin B /\ y \notin S /\ (\A s \in S : y \notin nodes[s].child) =>
            after[y] = nodes[y]
      BY <1>14, <1>18
  <2>7. \A b, c \in B : after[b].index = after[c].index => b = c  BY <1>21
  <2> QED  BY <1>2, <1>7, <1>20, <2>1, <2>2, <2>3, <2>4, <2>5, <2>6, <2>7 DEF Relocated
<1> QED  BY <1>2, <1>18, <1>19, <1>22 DEF S

-----------------------------------------------------------------------------
(* What a search relies on.                                                *)

Extended(nodes, hs, x) ==
  nodes[x].edges = {} \/ nodes[x].edges = LegalMoves(Latest(hs[x]).board)

\* One node may be due another visit: its children have had it.
Counted(nodes, x, due) ==
  nodes[x].terminal = "no" =>
    IF x = due THEN nodes[x].edges # {} /\ nodes[x].n = VisitsOf(nodes, nodes[x].child)
    ELSE IF nodes[x].edges = {} THEN nodes[x].n = 0
    ELSE nodes[x].n = 1 + VisitsOf(nodes, nodes[x].child)

Drawn(nodes, x) == nodes[x].terminal = "twofold" => nodes[x].edges = {}

\* Edge by edge: each leads to a result that is as good, and one to one that is as bad.
Bounded(nodes, hs, x) ==
  IF nodes[x].edges # {}
    THEN /\ \/ nodes[x].lower = -1
            \/ \A m \in nodes[x].edges : \E c \in nodes[x].child :
                 nodes[c].index = m /\ nodes[c].upper <= -nodes[x].lower
         /\ \/ nodes[x].upper = 1
            \/ \E c \in nodes[x].child : nodes[c].lower >= -nodes[x].upper
         /\ nodes[x].terminal = "end" => nodes[x].lower = nodes[x].upper
  ELSE IF nodes[x].terminal = "end"
    THEN LET board == Latest(hs[x]).board IN
         /\ nodes[x].lower = nodes[x].upper
         /\ nodes[x].upper = IF LegalMoves(board) = {} /\ board \in Mated THEN 1 ELSE 0
  ELSE nodes[x].lower = -1 /\ nodes[x].upper = 1

Healthy(nodes, hs, D, top, due) ==
  \A x \in D : /\ Extended(nodes, hs, x) /\ Counted(nodes, x, due) /\ Drawn(nodes, x)
               /\ x # top => Bounded(nodes, hs, x)

\* A search works on the nodes D below its root, and in a part U of the memory where
\* everything else is free or a shell. It leaves the rest as it was.
Arena(start, top, U, nodes, D) ==
  /\ U \subseteq Address /\ D \subseteq U /\ top \in D /\ nodes[top].index = start[top].index
  /\ \A x \in D : nodes[x].used /\ nodes[x].child \subseteq D \ {top}
  /\ \A x \in D \ {top} : ~ChildOfNone(nodes, x)
  /\ \A x \in U \ D : nodes[x].child = {} /\ ChildOfNone(nodes, x)
  /\ \A x \in Address \ U : nodes[x] = start[x] /\ start[x].used /\ start[x].child \cap U \subseteq {top}

Searched(start, old, top, U, nodes, hs, D, due) ==
  /\ Forest(nodes, hs) /\ Arena(start, top, U, nodes, D) /\ Healthy(nodes, hs, D, top, due)
  /\ hs[top] = old[top] /\ \A x \in Address \ U : hs[x] = old[x]

-----------------------------------------------------------------------------
\* Visits are natural numbers.
LEMMA VisitsFacts ==
  ASSUME NEW nodes \in [Address -> NodeType], NEW S \in SUBSET Address
  PROVE  /\ IsFiniteSet(S) /\ VisitsOf(nodes, S) \in Nat
         /\ \A x \in S : nodes[x].n <= VisitsOf(nodes, S)
         /\ \A x \in Address : nodes[x].n \in Nat
<1> DEFINE f == [x \in Address |-> nodes[x].n]
<1>1. IsFiniteSet(S)  BY FS_Subset, NodeTreeAssumption
<1>2. \A x \in Address : nodes[x].n \in Nat  BY DEF NodeType
<1>3. \A x \in S : f[x] \in Nat /\ f[x] = nodes[x].n  BY <1>2
<1>4. VisitsOf(nodes, S) = SumFunctionOnSet(f, S)  BY DEF VisitsOf
<1> HIDE DEF f
<1> QED  BY <1>1, <1>2, <1>3, <1>4, SumIsNat

\* The visits of nodes of which one changes.
LEMMA VisitsChange ==
  ASSUME NEW nodes \in [Address -> NodeType], NEW after \in [Address -> NodeType],
         NEW S \in SUBSET Address, NEW x \in Address,
         \A y \in S : y # x => after[y].n = nodes[y].n
  PROVE  /\ x \notin S => VisitsOf(after, S) = VisitsOf(nodes, S)
         /\ x \in S => VisitsOf(after, S) = VisitsOf(nodes, S) + (after[x].n - nodes[x].n)
<1> DEFINE f == [y \in Address |-> nodes[y].n]
           g == [y \in Address |-> after[y].n]
<1>1. VisitsOf(nodes, S) = SumFunctionOnSet(f, S) /\ VisitsOf(after, S) = SumFunctionOnSet(g, S)
    BY DEF VisitsOf
<1>2. \A y \in Address : f[y] = nodes[y].n /\ g[y] = after[y].n  OBVIOUS
<1> HIDE DEF f, g
<1> QED  BY <1>1, <1>2, SumChanges, VisitsFacts

\* Sums of the same visits.
LEMMA VisitsSame ==
  ASSUME NEW nodes \in [Address -> NodeType], NEW after \in [Address -> NodeType],
         NEW S \in SUBSET Address, \A y \in S : after[y].n = nodes[y].n
  PROVE  VisitsOf(after, S) = VisitsOf(nodes, S)
BY SumOfNothing, VisitsChange, VisitsFacts DEF VisitsOf

\* A child without visits changes nothing.
LEMMA VisitsMore ==
  ASSUME NEW nodes \in [Address -> NodeType], NEW S \in SUBSET Address, NEW a \in Address \ S,
         nodes[a].n = 0
  PROVE  VisitsOf(nodes, S \cup {a}) = VisitsOf(nodes, S)
<1> DEFINE f == [y \in Address |-> nodes[y].n]
           T == S \cup {a}
<1>1. T \in SUBSET Address /\ a \in T /\ T \ {a} = S  OBVIOUS
<1>2. IsFiniteSet(T) /\ (\A y \in Address : nodes[y].n \in Nat) /\ VisitsOf(nodes, S) \in Nat
    BY <1>1, VisitsFacts
<1>3. VisitsOf(nodes, S) = SumFunctionOnSet(f, S) /\ VisitsOf(nodes, T) = SumFunctionOnSet(f, T)
    BY DEF VisitsOf
<1>4. (\A y \in T : f[y] \in Int) /\ f[a] = 0  BY <1>1, <1>2
<1> HIDE DEF f, T
<1> QED  BY <1>1, <1>2, <1>3, <1>4, SumTakes DEF T

\* Visits move with the nodes.
LEMMA VisitsMoved ==
  ASSUME NEW nodes, NEW hs, Forest(nodes, hs), NEW after, NEW x, NEW S, NEW to, NEW B,
         Relocated(nodes, after, x, S, to, B)
  PROVE  VisitsOf(after, B) = VisitsOf(nodes, S)
<1> DEFINE f == [y \in Address |-> nodes[y].n]
           g == [y \in Address |-> after[y].n]
<1>1. S \in SUBSET Address /\ B \in SUBSET Address  BY RelocatedFacts
<1>2. /\ nodes \in [Address -> NodeType] /\ after \in [Address -> NodeType]
      /\ to \in [S -> B] /\ \A s, t \in S : to[s] = to[t] => s = t
      /\ \A s \in S : after[to[s]] = nodes[s]
      /\ \A b \in B : (\A s \in S : to[s] # b) => after[b].n = 0
    BY NewNodeFacts DEF Relocated, Forest
<1>3. IsFiniteSet(S) /\ IsFiniteSet(B) /\ \A y \in Address : nodes[y].n \in Nat /\ after[y].n \in Nat
    BY <1>1, <1>2, VisitsFacts
<1>4. VisitsOf(nodes, S) = SumFunctionOnSet(f, S) /\ VisitsOf(after, B) = SumFunctionOnSet(g, B)
    BY DEF VisitsOf
<1>5. \A y \in Address : f[y] = nodes[y].n /\ g[y] = after[y].n  OBVIOUS
<1> HIDE DEF f, g
<1>6. SumFunctionOnSet(g, B) = SumFunctionOnSet(f, S)  BY <1>1, <1>2, <1>3, <1>5, SumMoves
<1> QED  BY <1>4, <1>6

-----------------------------------------------------------------------------
\* The fields of a node.
LEMMA TypeFacts ==
  ASSUME NEW nodes \in [Address -> NodeType], NEW x \in Address
  PROVE  /\ nodes[x].used \in BOOLEAN /\ nodes[x].edges \in SUBSET Move
         /\ nodes[x].child \in SUBSET Address
         /\ nodes[x].n \in Nat /\ nodes[x].terminal \in {"no", "end", "twofold"}
         /\ nodes[x].lower \in -1..1 /\ nodes[x].upper \in -1..1
         /\ nodes[x].parent \in Address \cup {None} /\ nodes[x].index \in Move \cup {None}
         /\ nodes[x].m \in Nat /\ nodes[x].solid \in BOOLEAN
BY DEF NodeType

\* A node with the same contents as before, and children with the same visits.
LEMMA CountedSame ==
  ASSUME NEW nodes \in [Address -> NodeType], NEW after \in [Address -> NodeType], NEW x \in Address,
         SameNode(after[x], nodes[x]), after[x].child = nodes[x].child,
         \A c \in nodes[x].child : after[c].n = nodes[c].n, NEW due
  PROVE  Counted(nodes, x, due) <=> Counted(after, x, due)
BY TypeFacts, VisitsSame DEF Counted, SameNode

\* A bound stays right if for each child there is one whose bounds are as tight.
LEMMA BoundedStays ==
  ASSUME NEW nodes \in [Address -> NodeType], NEW after \in [Address -> NodeType],
         NEW x \in Address, NEW y \in Address,
         after[y].edges = nodes[x].edges, after[y].terminal = nodes[x].terminal,
         after[y].lower = nodes[x].lower, after[y].upper = nodes[x].upper,
         nodes[x].child \subseteq Address, after[y].child \subseteq Address,
         \A c \in nodes[x].child : \E d \in after[y].child :
           /\ after[d].index = nodes[c].index
           /\ after[d].lower >= nodes[c].lower /\ after[d].upper <= nodes[c].upper,
         NEW hs, NEW g, g[y] = hs[x], Bounded(nodes, hs, x)
  PROVE  Bounded(after, g, y)
BY DEF NodeType, Bounded

\* Where a search may work.
LEMMA ArenaFacts ==
  ASSUME NEW start, NEW top, NEW U, NEW nodes, NEW D, NEW hs, Forest(nodes, hs),
         Arena(start, top, U, nodes, D)
  PROVE  /\ U \subseteq Address /\ D \subseteq U /\ D \subseteq Address /\ top \in D
         /\ \A a \in Free(nodes) : a \in U \ D
         /\ \A x \in D : nodes[x].used /\ nodes[x].child \subseteq D \ {top}
BY DEF Arena, Free

-----------------------------------------------------------------------------
(* From a node down to another.                                            *)

Chain(nodes, top, q) ==
  /\ q \in Seq(Address) /\ Len(q) >= 1 /\ q[1] = top
  /\ \A i \in 1..(Len(q) - 1) : q[i + 1] \in nodes[q[i]].child

MovesOf(nodes, q, k) == [i \in 1..(k - 1) |-> nodes[q[i + 1]].index]

\* Each node of a chain has one position more than the one before.
LEMMA ChainFacts ==
  ASSUME NEW nodes, NEW hs, Forest(nodes, hs), NEW top \in Address, nodes[top].used, NEW q,
         Chain(nodes, top, q)
  PROVE  /\ Len(q) \in Nat /\ 1 \in 1..Len(q) /\ Len(q) \in 1..Len(q)
         /\ \A i \in 1..Len(q) : /\ q[i] \in Address /\ nodes[q[i]].used
                                 /\ Len(hs[q[i]]) \in Nat
                                 /\ Len(hs[q[i]]) = Len(hs[top]) + (i - 1)
         /\ \A i, j \in 1..Len(q) : q[i] = q[j] => i = j
         /\ \A i \in 1..(Len(q) - 1) :
              /\ i \in 1..Len(q) /\ i + 1 \in 1..Len(q)
              /\ nodes[q[i + 1]].parent = q[i] /\ nodes[q[i + 1]].index \in Move
              /\ nodes[q[i + 1]].index \in nodes[q[i]].edges
              /\ nodes[q[i + 1]].index \in LegalMoves(Latest(hs[q[i]]).board)
              /\ hs[q[i + 1]] = AppendMove(hs[q[i]], nodes[q[i + 1]].index)
<1>1. /\ q \in Seq(Address) /\ Len(q) \in Nat /\ Len(q) >= 1 /\ q[1] = top
      /\ \A i \in 1..Len(q) : q[i] \in Address
      /\ 1 \in 1..Len(q) /\ Len(q) \in 1..Len(q)
    BY DEF Chain
<1> DEFINE Good(i) == /\ nodes[q[i]].used /\ Len(hs[q[i]]) \in Nat
                      /\ Len(hs[q[i]]) = Len(hs[top]) + (i - 1)
           Bad == {i \in 1..Len(q) : ~Good(i)}
<1>2. \A i \in 1..(Len(q) - 1) : i \in 1..Len(q) /\ i + 1 \in 1..Len(q) /\ q[i + 1] \in nodes[q[i]].child
    BY <1>1 DEF Chain
<1>3. Linked(hs[top])  BY DEF Forest, Histories
<1>4. Good(1)  BY <1>1, <1>3 DEF Linked
<1>5. ASSUME NEW i \in 1..(Len(q) - 1)
      PROVE  /\ nodes[q[i + 1]].used /\ Len(hs[q[i]]) \in Nat
             /\ Len(hs[q[i + 1]]) = Len(hs[q[i]]) + 1
             /\ nodes[q[i + 1]].parent = q[i] /\ nodes[q[i + 1]].index \in Move
             /\ nodes[q[i + 1]].index \in nodes[q[i]].edges
             /\ nodes[q[i + 1]].index \in LegalMoves(Latest(hs[q[i]]).board)
             /\ hs[q[i + 1]] = AppendMove(hs[q[i]], nodes[q[i + 1]].index)
  <2>1. q[i] \in Address /\ q[i + 1] \in nodes[q[i]].child  BY <1>1, <1>2
  <2> QED  BY <2>1, ChildFacts
<1>6. Bad = {}
  <2> SUFFICES ASSUME Bad # {} PROVE FALSE  OBVIOUS
  <2>1. Bad \in SUBSET Nat  OBVIOUS
  <2>2. PICK k \in Bad : \A m \in Bad : k <= m
    <3> HIDE DEF Bad
    <3> QED  BY <2>1, SmallestNumber
  <2>3. k \in 1..Len(q) /\ ~Good(k)  OBVIOUS
  <2>4. k - 1 \in 1..(Len(q) - 1) /\ (k - 1) + 1 = k /\ k - 1 \in 1..Len(q)
      BY <1>1, <1>4, <2>3
  <2>5. Good(k - 1)
    <3>1. k - 1 \notin Bad
      <4> HIDE DEF Bad
      <4> QED  BY <2>2, <2>3
    <3> QED  BY <2>4, <3>1
  <2>6. nodes[q[k]].used /\ Len(hs[q[k]]) = Len(hs[q[k - 1]]) + 1  BY <1>5, <2>4
  <2> QED  BY <1>3, <2>3, <2>5, <2>6 DEF Linked
<1>7. \A i \in 1..Len(q) : Good(i)  BY <1>6
<1>8. ASSUME NEW i \in 1..Len(q), NEW j \in 1..Len(q), q[i] = q[j] PROVE i = j
  <2>1. Len(hs[top]) + (i - 1) = Len(hs[top]) + (j - 1) /\ Len(hs[top]) \in Nat
    <3>1. Good(i) /\ Good(j) /\ Good(1)  BY <1>4, <1>7
    <3> QED  BY <1>1, <1>8, <3>1
  <2> QED  BY <2>1
<1> HIDE DEF Bad
<1> QED  BY <1>1, <1>2, <1>5, <1>7, <1>8

\* Parents are nodes or none.
LEMMA ForestParents ==
  ASSUME NEW nodes, NEW hs, Forest(nodes, hs)
  PROVE  ParentsTyped(nodes)
BY TypeFacts DEF Forest, ParentsTyped

\* So the path to its last node is the chain.
LEMMA ChainPath ==
  ASSUME NEW nodes, NEW hs, Forest(nodes, hs), NEW top \in Address, nodes[top].used, NEW q,
         Chain(nodes, top, q)
  PROVE  /\ Path(nodes, top, q[Len(q)]) = q
         /\ MovesTo(nodes, q[Len(q)], top) = MovesOf(nodes, q, Len(q))
<1>1. Downward(nodes, top, q)
  <2>1. q \in Seq(Address) /\ Len(q) >= 1 /\ q[1] = top  BY DEF Chain
  <2>2. ASSUME NEW i \in 2..Len(q) PROVE q[i] # top /\ nodes[q[i]].parent = q[i - 1]
    <3>1. i - 1 \in 1..(Len(q) - 1) /\ (i - 1) + 1 = i /\ i \in 1..Len(q) /\ 1 \in 1..Len(q) /\ i # 1
        BY <2>1
    <3> QED  BY <2>1, <3>1, ChainFacts
  <2> QED  BY <2>1, <2>2 DEF Downward
<1> QED  BY <1>1, ForestParents, PathFound DEF MovesTo, MovesOf

\* A sequence with one element more.
LEMMA OneMore ==
  ASSUME NEW S, NEW s \in Seq(S), NEW m \in S, NEW t \in Seq(S), Len(t) = Len(s) + 1,
         \A j \in 1..Len(s) : t[j] = s[j], t[Len(s) + 1] = m
  PROVE  t = Append(s, m)
<1>1. /\ Len(Append(s, m)) = Len(s) + 1 /\ Append(s, m) \in Seq(S) /\ Len(s) \in Nat
      /\ Append(s, m)[Len(s) + 1] = m /\ \A j \in 1..Len(s) : Append(s, m)[j] = s[j]
    OBVIOUS
<1>2. PICK r : r = Append(s, m)  OBVIOUS
<1>3. ASSUME NEW j \in 1..Len(t) PROVE t[j] = r[j]
  <2>1. j \in 1..Len(s) \/ j = Len(s) + 1  BY <1>1
  <2> QED  BY <1>1, <1>2, <2>1
<1>4. Len(r) = Len(t) /\ r \in Seq(S)  BY <1>1, <1>2
<1> QED  BY <1>2, <1>3, <1>4

\* And its moves lead to the position there.
LEMMA ChainHistory ==
  ASSUME NEW nodes, NEW hs, Forest(nodes, hs), NEW top \in Address, nodes[top].used, NEW q,
         Chain(nodes, top, q), NEW k \in 1..Len(q)
  PROVE  /\ MovesOf(nodes, q, k) \in Seq(Move) /\ Len(MovesOf(nodes, q, k)) = k - 1
         /\ hs[q[k]] = AppendMoves(hs[top], MovesOf(nodes, q, k))
<1> DEFINE M(i) == MovesOf(nodes, q, i)
           Good(i) == hs[q[i]] = AppendMoves(hs[top], M(i))
           Bad == {i \in 1..Len(q) : ~Good(i)}
<1>1. Len(q) \in Nat /\ Len(q) >= 1 /\ q[1] = top  BY DEF Chain
<1>2. ASSUME NEW i \in 1..Len(q)
      PROVE  M(i) \in Seq(Move) /\ Len(M(i)) = i - 1 /\ \A j \in 1..(i - 1) : M(i)[j] = nodes[q[j + 1]].index
  <2>1. i - 1 \in Nat /\ \A j \in 1..(i - 1) : j \in 1..(Len(q) - 1)  BY <1>1
  <2>2. \A j \in 1..(i - 1) : nodes[q[j + 1]].index \in Move  BY <2>1, ChainFacts
  <2> QED  BY <2>1, <2>2 DEF MovesOf
<1>3. ASSUME NEW i \in 1..(Len(q) - 1)
      PROVE  M(i + 1) = Append(M(i), nodes[q[i + 1]].index)
  <2>1. i \in 1..Len(q) /\ i + 1 \in 1..Len(q) /\ nodes[q[i + 1]].index \in Move
      BY <1>1, ChainFacts
  <2>2. /\ M(i) \in Seq(Move) /\ Len(M(i)) = i - 1 /\ \A j \in 1..(i - 1) : M(i)[j] = nodes[q[j + 1]].index
        /\ M(i + 1) \in Seq(Move) /\ Len(M(i + 1)) = (i + 1) - 1
        /\ \A j \in 1..((i + 1) - 1) : M(i + 1)[j] = nodes[q[j + 1]].index
      BY <1>2, <2>1
  <2> HIDE DEF M
  <2>3. i \in Nat /\ Len(M(i)) + 1 = i /\ Len(M(i + 1)) = i  BY <1>1, <2>2
  <2>4. \A j \in 1..i : M(i + 1)[j] = nodes[q[j + 1]].index  BY <2>2
  <2>5. M(i + 1)[i] = nodes[q[i + 1]].index  BY <1>1, <2>4
  <2>6. \A j \in 1..Len(M(i)) : M(i + 1)[j] = M(i)[j]  BY <2>2, <2>3, <2>4
  <2>7. M(i) \in Seq(Move) /\ M(i + 1) \in Seq(Move) /\ Len(M(i + 1)) = Len(M(i)) + 1
      BY <2>2, <2>3
  <2>8. M(i + 1)[Len(M(i)) + 1] = nodes[q[i + 1]].index  BY <2>3, <2>5
  <2> QED  BY <2>1, <2>6, <2>7, <2>8, OneMore
<1>4. Bad = {}
  <2> SUFFICES ASSUME Bad # {} PROVE FALSE  OBVIOUS
  <2>1. Bad \in SUBSET Nat  OBVIOUS
  <2>2. PICK j \in Bad : \A m \in Bad : j <= m
    <3> HIDE DEF Bad
    <3> QED  BY <2>1, SmallestNumber
  <2>3. j \in 1..Len(q) /\ ~Good(j)  OBVIOUS
  <2>4. j - 1 \in 1..(Len(q) - 1) /\ (j - 1) + 1 = j /\ j - 1 \in 1..Len(q)
      BY <1>1, <2>3, NoMoves DEF MovesOf
  <2>5. Good(j - 1)
    <3>1. j - 1 \notin Bad
      <4> HIDE DEF Bad
      <4> QED  BY <2>2, <2>3
    <3> QED  BY <2>4, <3>1
  <2>6. hs[q[j]] = AppendMove(hs[q[j - 1]], nodes[q[j]].index) /\ nodes[q[j]].index \in Move
      BY <2>4, ChainFacts
  <2>7. M(j) = Append(M(j - 1), nodes[q[j]].index)  BY <1>3, <2>4
  <2>8. M(j - 1) \in Seq(Move)  BY <1>2, <2>4
  <2>9. AppendMoves(hs[top], M(j)) = AppendMove(AppendMoves(hs[top], M(j - 1)), nodes[q[j]].index)
    <3> HIDE DEF M
    <3> QED  BY <2>6, <2>7, <2>8, AppendMovesUnfolds
  <2> QED  BY <2>3, <2>5, <2>6, <2>9
<1>5. Good(k)  BY <1>4
<1> QED  BY <1>2, <1>5

\* There is one to every node below.
LEMMA ChainExists ==
  ASSUME NEW nodes, NEW hs, Forest(nodes, hs), NEW top \in Address,
         NEW x \in Subtree(nodes, {top})
  PROVE  \E q : Chain(nodes, top, q) /\ q[Len(q)] = x
<1> DEFINE T == {y \in Address : \E q : Chain(nodes, top, q) /\ q[Len(q)] = y}
<1>1. {top} \subseteq T
  <2>1. Chain(nodes, top, <<top>>) /\ <<top>>[Len(<<top>>)] = top  BY DEF Chain
  <2> QED  BY <2>1
<1>2. Closed(nodes, T)
  <2> SUFFICES ASSUME NEW y \in T, NEW c \in nodes[y].child PROVE c \in T  BY DEF Closed
  <2>1. PICK q : Chain(nodes, top, q) /\ q[Len(q)] = y  OBVIOUS
  <2>2. /\ q \in Seq(Address) /\ Len(q) \in Nat /\ Len(q) >= 1 /\ q[1] = top
        /\ \A i \in 1..(Len(q) - 1) : q[i + 1] \in nodes[q[i]].child
      BY <2>1 DEF Chain
  <2>3. c \in Address  BY TypeFacts DEF Forest
  <2> DEFINE r == Append(q, c)
  <2>4. /\ r \in Seq(Address) /\ Len(r) = Len(q) + 1 /\ r[Len(q) + 1] = c
        /\ \A i \in 1..Len(q) : r[i] = q[i]
      BY <2>2, <2>3
  <2> HIDE DEF r
  <2>5. ASSUME NEW i \in 1..(Len(r) - 1) PROVE r[i + 1] \in nodes[r[i]].child
      BY <2>1, <2>2, <2>4
  <2>6. Chain(nodes, top, r) /\ r[Len(r)] = c
    <3>1. 1 \in 1..Len(q) /\ Len(r) >= 1  BY <2>2, <2>4
    <3> QED  BY <2>2, <2>4, <2>5, <3>1 DEF Chain
  <2> QED  BY <2>3, <2>6
<1> HIDE DEF T
<1> QED  BY <1>1, <1>2, SubtreeFacts DEF T

-----------------------------------------------------------------------------
(* The steps of a playout.                                                 *)

\* Nodes below the root change, but not what belongs to what.
LEMMA SearchedKept ==
  ASSUME NEW start, NEW old, NEW top, NEW U, NEW nodes, NEW hs, NEW D, NEW due,
         Searched(start, old, top, U, nodes, hs, D, due),
         NEW after \in [Address -> NodeType],
         \A x \in Address :
           /\ after[x].used = nodes[x].used /\ after[x].parent = nodes[x].parent
           /\ after[x].index = nodes[x].index /\ after[x].child = nodes[x].child,
         \A x \in Address \ D : after[x] = nodes[x],
         \A x \in D : \/ after[x].edges = nodes[x].edges
                      \/ /\ after[x].edges \subseteq LegalMoves(Latest(hs[x]).board)
                         /\ \A c \in nodes[x].child : nodes[c].index \in after[x].edges,
         NEW due2, Healthy(after, hs, D, top, due2)
  PROVE  Searched(start, old, top, U, after, hs, D, due2)
<1>1. /\ Forest(nodes, hs) /\ Arena(start, top, U, nodes, D)
      /\ hs[top] = old[top] /\ \A x \in Address \ U : hs[x] = old[x]
    BY DEF Searched
<1>2. /\ U \subseteq Address /\ D \subseteq U /\ D \subseteq Address /\ top \in D
      /\ \A x \in D : nodes[x].used
    BY <1>1, ArenaFacts
<1>3. Arena(start, top, U, after, D)  BY <1>1, <1>2 DEF ChildOfNone, Arena
<1> QED  BY <1>1, <1>2, <1>3, ChildFacts, ForestKept DEF Searched

\* An edge gets its node.
LEMMA SearchSpawns ==
  ASSUME NEW start, NEW old, NEW top, NEW U, NEW nodes, NEW hs, NEW D,
         Searched(start, old, top, U, nodes, hs, D, None),
         NEW x \in D, NEW m \in nodes[x].edges, ChildAt(nodes, x, m) = {}, NEW a \in Free(nodes),
         NEW after, after = Spawn(nodes, x, m, a), NEW g, g = With(hs, a, AppendMove(hs[x], m))
  PROVE  Searched(start, old, top, U, after, g, D \cup {a}, None)
<1>1. /\ Forest(nodes, hs) /\ Arena(start, top, U, nodes, D) /\ Healthy(nodes, hs, D, top, None)
      /\ hs[top] = old[top] /\ \A y \in Address \ U : hs[y] = old[y]
    BY DEF Searched
<1>2. /\ U \subseteq Address /\ D \subseteq U /\ D \subseteq Address /\ top \in D
      /\ \A y \in D : nodes[y].used /\ nodes[y].child \subseteq D \ {top}
      /\ a \in U \ D /\ a \in Address /\ x \in Address
    BY <1>1, ArenaFacts
<1>3. nodes \in [Address -> NodeType] /\ m \in Move  BY <1>1, <1>2, TypeFacts DEF Forest
<1>4. /\ a # x /\ after[a] = NewNode(x, m)
      /\ after[x].child = nodes[x].child \cup {a}
      /\ after[x].used /\ after[x].parent = nodes[x].parent /\ after[x].index = nodes[x].index
      /\ after[x].edges = nodes[x].edges
      /\ after[x].n = nodes[x].n /\ after[x].terminal = nodes[x].terminal
      /\ after[x].lower = nodes[x].lower /\ after[x].upper = nodes[x].upper
      /\ \A y \in Address \ {a, x} : after[y] = nodes[y]
      /\ after \in [Address -> NodeType]
    BY <1>1, <1>2, <1>3, SpawnPoints
<1>5. Forest(after, g)  BY <1>1, <1>2, ForestSpawn
<1>6. /\ nodes[a].child = {} /\ ChildOfNone(nodes, a) /\ ~nodes[a].used
      /\ after[a].child = {} /\ after[a].used /\ after[a].n = 0 /\ after[a].edges = {}
      /\ after[a].terminal = "no" /\ after[a].lower = -1 /\ after[a].upper = 1
    BY <1>1, <1>4, FreeFacts, NewNodeFacts
<1>7. \A y \in Address : y # a => g[y] = hs[y]  BY DEF With
<1>8. Arena(start, top, U, after, D \cup {a})
    BY <1>1, <1>2, <1>4, <1>6 DEF ChildOfNone, Arena
<1>9. ASSUME NEW y \in D \cup {a}
      PROVE  /\ Extended(after, g, y) /\ Counted(after, y, None) /\ Drawn(after, y)
             /\ y # top => Bounded(after, g, y)
  <2>1. CASE y = a
      BY <1>2, <1>6, <2>1, NodeTreeAssumption DEF Extended, Drawn, Counted, Bounded
  <2>2. CASE y # a
    <3>1. y \in D /\ y \in Address /\ g[y] = hs[y]  BY <1>2, <1>7, <2>2
    <3>2. /\ Extended(nodes, hs, y) /\ Counted(nodes, y, None) /\ Drawn(nodes, y)
          /\ y # top => Bounded(nodes, hs, y)
        BY <1>1, <3>1 DEF Healthy
    <3>3. /\ after[y].edges = nodes[y].edges /\ after[y].n = nodes[y].n
          /\ after[y].terminal = nodes[y].terminal
          /\ after[y].lower = nodes[y].lower /\ after[y].upper = nodes[y].upper
          /\ nodes[y].child \subseteq after[y].child
        BY <1>4, <2>2, <3>1
    <3>4. \A z \in Address : z # a => /\ after[z].n = nodes[z].n /\ after[z].index = nodes[z].index
                                      /\ after[z].lower = nodes[z].lower
                                      /\ after[z].upper = nodes[z].upper
        BY <1>4
    <3>5. /\ nodes[y].child \in SUBSET Address /\ after[y].child \in SUBSET Address
          /\ a \notin nodes[y].child
        BY <1>2, <1>3, <1>4, <1>6, <3>1, TypeFacts DEF ChildOfNone
    <3>6. VisitsOf(after, after[y].child) = VisitsOf(nodes, nodes[y].child)
      <4>1. VisitsOf(after, nodes[y].child) = VisitsOf(nodes, nodes[y].child)
          BY <1>3, <1>4, <3>4, <3>5, VisitsSame
      <4>2. CASE y = x  BY <1>2, <1>4, <1>6, <3>5, <4>1, <4>2, VisitsMore
      <4>3. CASE y # x  BY <1>4, <2>2, <3>1, <4>1, <4>3
      <4> QED  BY <4>2, <4>3
    <3>7. ASSUME y # top PROVE Bounded(after, g, y)
      <4>1. ASSUME NEW c \in nodes[y].child
            PROVE  \E d \in after[y].child :
                     /\ after[d].index = nodes[c].index
                     /\ after[d].lower >= nodes[c].lower /\ after[d].upper <= nodes[c].upper
          BY <1>3, <3>3, <3>4, <3>5, TypeFacts
      <4>2. Bounded(nodes, hs, y)  BY <3>2, <3>7
      <4> QED  BY <1>3, <1>4, <3>1, <3>3, <3>5, <4>1, <4>2, BoundedStays
    <3> QED  BY <3>1, <3>2, <3>3, <3>6, <3>7 DEF Extended, Drawn, Counted
  <2> QED  BY <2>1, <2>2
<1>10. g[top] = old[top] /\ \A y \in Address \ U : g[y] = old[y]  BY <1>1, <1>2, <1>7
<1> QED  BY <1>5, <1>8, <1>9, <1>10 DEF Searched, Healthy

\* What is below the root of a search is in its part of the tree.
LEMMA ChainInside ==
  ASSUME NEW nodes, NEW D, NEW top \in D, \A x \in D : nodes[x].child \subseteq D, NEW q,
         Chain(nodes, top, q)
  PROVE  \A i \in 1..Len(q) : q[i] \in D
<1> DEFINE Bad == {i \in 1..Len(q) : q[i] \notin D}
<1>1. /\ q \in Seq(Address) /\ Len(q) \in Nat /\ Len(q) >= 1 /\ q[1] = top
      /\ \A i \in 1..(Len(q) - 1) : q[i + 1] \in nodes[q[i]].child
    BY DEF Chain
<1> SUFFICES ASSUME Bad # {} PROVE FALSE  OBVIOUS
<1>2. Bad \in SUBSET Nat  OBVIOUS
<1>3. PICK k \in Bad : \A m \in Bad : k <= m
  <2> HIDE DEF Bad
  <2> QED  BY <1>2, SmallestNumber
<1>4. k \in 1..Len(q) /\ q[k] \notin D /\ k # 1  BY <1>1
<1>5. k - 1 \in 1..(Len(q) - 1) /\ (k - 1) + 1 = k /\ k - 1 \in 1..Len(q)  BY <1>1, <1>4
<1>6. k - 1 \notin Bad
  <2> HIDE DEF Bad
  <2> QED  BY <1>3, <1>5
<1> QED  BY <1>1, <1>4, <1>5, <1>6

\* Above a node on a path of visits there are more visits.
LEMMA VisitsFall ==
  ASSUME NEW nodes, NEW hs, Forest(nodes, hs), NEW D \in SUBSET Address, NEW top \in D,
         \A x \in D : nodes[x].used /\ nodes[x].child \subseteq D,
         NEW q, Chain(nodes, top, q), \A x \in D : Counted(nodes, x, None),
         \A i \in 1..(Len(q) - 1) : Inner(nodes, q[i])
  PROVE  \A i \in 1..(Len(q) - 1) :
           /\ nodes[q[i]].n = 1 + VisitsOf(nodes, nodes[q[i]].child)
           /\ nodes[q[i]].edges # {}
           /\ nodes[q[i]].n > nodes[q[Len(q)]].n
<1> DEFINE L == Len(q)
           More(i) == nodes[q[i]].n > nodes[q[L]].n
           Bad == {i \in 1..L : i # L /\ ~More(i)}
<1>1. /\ L \in Nat /\ L \in 1..L /\ \A i \in 1..L : q[i] \in D /\ q[i] \in Address
      /\ nodes \in [Address -> NodeType]
    BY ChainFacts, ChainInside DEF Forest
<1>2. ASSUME NEW i \in 1..(L - 1)
      PROVE  /\ nodes[q[i]].n = 1 + VisitsOf(nodes, nodes[q[i]].child) /\ nodes[q[i]].edges # {}
             /\ nodes[q[i]].n > nodes[q[i + 1]].n
             /\ nodes[q[i]].n \in Nat /\ nodes[q[i + 1]].n \in Nat
  <2>1. i \in 1..L /\ i + 1 \in 1..L /\ q[i + 1] \in nodes[q[i]].child  BY <1>1 DEF Chain
  <2>2. Counted(nodes, q[i], None) /\ q[i] # None  BY <1>1, <2>1, NodeTreeAssumption
  <2>3. /\ nodes[q[i + 1]].n <= VisitsOf(nodes, nodes[q[i]].child)
        /\ VisitsOf(nodes, nodes[q[i]].child) \in Nat
        /\ nodes[q[i]].n \in Nat /\ nodes[q[i + 1]].n \in Nat
      BY <1>1, <2>1, VisitsFacts, TypeFacts
  <2> QED  BY <2>2, <2>3, ChainFacts DEF Counted, Inner
<1>3. Bad = {}
  <2> SUFFICES ASSUME Bad # {} PROVE FALSE  OBVIOUS
  <2>1. PICK k \in Bad : \A i \in Bad : k >= i
    <3>1. Bad \in SUBSET (1..L)  OBVIOUS
    <3> HIDE DEF Bad, L
    <3> QED  BY <1>1, <3>1, LargestIndex
  <2>2. k \in 1..(L - 1) /\ k + 1 \in 1..L /\ ~More(k)  BY <1>1
  <2>3. nodes[q[k]].n > nodes[q[k + 1]].n /\ nodes[q[k]].n \in Nat /\ nodes[q[k + 1]].n \in Nat
      BY <1>2, <2>2
  <2>4. CASE k + 1 = L  BY <2>2, <2>3, <2>4
  <2>5. CASE k + 1 # L
    <3>1. k + 1 \notin Bad
      <4> HIDE DEF Bad
      <4> QED  BY <2>1, <2>2
    <3>2. More(k + 1)  BY <2>2, <2>5, <3>1
    <3> QED  BY <1>1, <2>2, <2>3, <3>2, TypeFacts
  <2> QED  BY <2>4, <2>5
<1>4. ASSUME NEW i \in 1..(L - 1) PROVE More(i)  BY <1>1, <1>3
<1> QED  BY <1>2, <1>4

\* What Correct() leaves at each address, if it has something to do.
LEMMA CorrectPoints ==
  ASSUME NEW nodes \in [Address -> NodeType], NEW c \in Address, nodes[c].edges = {},
         nodes[c].terminal = "twofold", ~(Plies(nodes, c) >= nodes[c].m),
         NEW path, path = ToSet(Path(nodes, current_head_, c)), c \in path,
         NEW after, after = Correct(nodes, c)
  PROVE  /\ after \in [Address -> NodeType]
         /\ \A y \in Address :
              /\ after[y].used = nodes[y].used /\ after[y].parent = nodes[y].parent
              /\ after[y].index = nodes[y].index /\ after[y].edges = nodes[y].edges
              /\ after[y].child = nodes[y].child
              /\ after[y].lower = nodes[y].lower /\ after[y].upper = nodes[y].upper
              /\ y # c => after[y].terminal = nodes[y].terminal
              /\ y \notin path => after[y] = nodes[y]
              /\ y \in path /\ y # c /\ nodes[y].n > nodes[c].n =>
                   after[y].n = nodes[y].n - nodes[c].n
         /\ after[c].terminal = "no" /\ after[c].n = 0
<1> DEFINE N == nodes[c].n
           less(x) == [nodes[x] EXCEPT !.n = @ - N]
           none(x) == [nodes[x] EXCEPT !.n = 0, !.m = 0]
           r == [x \in Address |->
                   IF x \in path /\ nodes[x].n > N THEN less(x)
                   ELSE IF x \in path THEN none(x)
                   ELSE nodes[x]]
<1>1. after = MakeNotTerminal(r, c)  BY DEF Correct
<1>2. N \in Nat /\ \A x \in Address : nodes[x].n \in Nat /\ nodes[x].m \in Nat /\ nodes[x] \in NodeType
    BY TypeFacts
<1>3. ASSUME NEW x \in Address
      PROVE  /\ nodes[x].n > N => less(x) \in NodeType
             /\ none(x) \in NodeType
             /\ less(x).n = nodes[x].n - N
             /\ none(x).n = 0
             /\ \A p \in {less(x), none(x)} :
                  /\ p.used = nodes[x].used /\ p.parent = nodes[x].parent /\ p.index = nodes[x].index
                  /\ p.edges = nodes[x].edges /\ p.child = nodes[x].child
                  /\ p.lower = nodes[x].lower /\ p.upper = nodes[x].upper
                  /\ p.terminal = nodes[x].terminal
  <2>1. /\ less(x) = [nodes[x] EXCEPT !.n = nodes[x].n - N]
        /\ none(x) = [nodes[x] EXCEPT !.n = 0, !.m = 0]
      BY <1>2 DEF NodeType
  <2> HIDE DEF N, less, none
  <2>2. none(x) \in NodeType
    <3> DEFINE s == [nodes[x] EXCEPT !.n = 0]
    <3>1. s \in NodeType /\ none(x) = [s EXCEPT !.m = 0]  BY <1>2, <2>1 DEF NodeType
    <3> HIDE DEF s
    <3> QED  BY <3>1 DEF NodeType
  <2> QED  BY <1>2, <2>1, <2>2 DEF NodeType
<1> HIDE DEF less, none
<1>4. ASSUME NEW x \in Address
      PROVE  /\ r[x] \in NodeType
             /\ r[x].used = nodes[x].used /\ r[x].parent = nodes[x].parent
             /\ r[x].index = nodes[x].index
             /\ r[x].edges = nodes[x].edges /\ r[x].child = nodes[x].child
             /\ r[x].lower = nodes[x].lower /\ r[x].upper = nodes[x].upper
             /\ r[x].terminal = nodes[x].terminal
             /\ x \notin path => r[x] = nodes[x]
             /\ x \in path /\ nodes[x].n > N => r[x].n = nodes[x].n - N
  <2>1. CASE x \in path /\ nodes[x].n > N
    <3>1. r[x] = less(x)  BY <2>1
    <3> HIDE DEF r, N
    <3> QED  BY <1>3, <2>1, <3>1
  <2>2. CASE x \in path /\ ~(nodes[x].n > N)
    <3>1. r[x] = none(x)  BY <2>2
    <3> HIDE DEF r, N
    <3> QED  BY <1>3, <2>2, <3>1
  <2>3. CASE x \notin path
    <3>1. r[x] = nodes[x]  BY <2>3
    <3> HIDE DEF r, N
    <3> QED  BY <1>2, <2>3, <3>1
  <2> QED  BY <2>1, <2>2, <2>3
<1>5. r \in [Address -> NodeType]
  <2>1. r = [x \in Address |-> r[x]]  OBVIOUS
  <2> HIDE DEF r
  <2> QED  BY <1>4, <2>1
<1> HIDE DEF r
<1> DEFINE q == [[r[c] EXCEPT !.terminal = "no"] EXCEPT !.n = 0]
<1>6. after = [r EXCEPT ![c] = q]
  <2>1. r[c].edges = {}  BY <1>4
  <2>2. after = [r EXCEPT ![c].terminal = "no", ![c].n = 0]
      BY <1>1, <2>1 DEF MakeNotTerminal
  <2> QED  BY <1>5, <2>2
<1>7. /\ q \in NodeType /\ q.terminal = "no" /\ q.n = 0
      /\ q.used = r[c].used /\ q.parent = r[c].parent
      /\ q.index = r[c].index
      /\ q.edges = r[c].edges /\ q.child = r[c].child
      /\ q.lower = r[c].lower /\ q.upper = r[c].upper
  <2> DEFINE s == [r[c] EXCEPT !.terminal = "no"]
  <2>1. /\ s \in NodeType /\ s.terminal = "no" /\ q = [s EXCEPT !.n = 0]
        /\ s.used = r[c].used /\ s.parent = r[c].parent /\ s.index = r[c].index
        /\ s.edges = r[c].edges /\ s.child = r[c].child
        /\ s.lower = r[c].lower /\ s.upper = r[c].upper
      BY <1>5 DEF NodeType
  <2> HIDE DEF s, q
  <2> QED  BY <2>1 DEF NodeType
<1> HIDE DEF q
<1>8. after[c] = q /\ (\A y \in Address : y # c => after[y] = r[y]) /\ after \in [Address -> NodeType]
    BY <1>5, <1>6, <1>7
<1>9. ASSUME NEW y \in Address
      PROVE   /\ after[y].used = nodes[y].used /\ after[y].parent = nodes[y].parent
              /\ after[y].index = nodes[y].index /\ after[y].edges = nodes[y].edges
              /\ after[y].child = nodes[y].child
              /\ after[y].lower = nodes[y].lower /\ after[y].upper = nodes[y].upper
              /\ y # c => after[y].terminal = nodes[y].terminal
              /\ y \notin path => after[y] = nodes[y]
              /\ y \in path /\ y # c /\ nodes[y].n > nodes[c].n =>
                   after[y].n = nodes[y].n - nodes[c].n
    BY <1>4, <1>7, <1>8
<1> QED  BY <1>7, <1>8, <1>9

\* A node has the children it had, with bounds no looser: its own bounds are still right.
LEMMA BoundedKept ==
  ASSUME NEW nodes \in [Address -> NodeType], NEW after \in [Address -> NodeType],
         NEW y \in Address, nodes[y].child \subseteq Address,
         after[y].edges = nodes[y].edges, after[y].terminal = nodes[y].terminal,
         after[y].lower = nodes[y].lower, after[y].upper = nodes[y].upper,
         after[y].child = nodes[y].child,
         \A c \in nodes[y].child :
           /\ after[c].index = nodes[c].index
           /\ after[c].lower >= nodes[c].lower /\ after[c].upper <= nodes[c].upper,
         NEW hs, Bounded(nodes, hs, y)
  PROVE  Bounded(after, hs, y)
BY BoundedStays

\* A draw that is none any more takes back its visits, all the way up.
LEMMA SearchCorrects ==
  ASSUME NEW start, NEW old, NEW top, NEW U, NEW nodes, NEW hs, NEW D,
         Searched(start, old, top, U, nodes, hs, D, None), current_head_ = top,
         NEW q, Chain(nodes, top, q), NEW c, c = q[Len(q)],
         \A i \in 1..(Len(q) - 1) : Inner(nodes, q[i]),
         NEW after, after = Correct(nodes, c)
  PROVE  /\ Searched(start, old, top, U, after, hs, D, None)
         /\ \A y \in Address : after[y].child = nodes[y].child
         /\ after = nodes \/ (after[c].terminal = "no" /\ after[c].n = 0)
<1> DEFINE N == nodes[c].n
           L == Len(q)
           path == ToSet(q)
<1>1. /\ Forest(nodes, hs) /\ Arena(start, top, U, nodes, D) /\ Healthy(nodes, hs, D, top, None)
    BY DEF Searched
<1>2. /\ D \in SUBSET Address /\ top \in D /\ top \in Address
      /\ \A x \in D : x \in Address /\ nodes[x].used /\ nodes[x].child \subseteq D \ {top}
      /\ nodes \in [Address -> NodeType]
    BY <1>1, ArenaFacts DEF Forest
<1>3. /\ L \in Nat /\ 1 \in 1..L /\ L \in 1..L
      /\ \A i, j \in 1..L : q[i] = q[j] => i = j
      /\ \A i \in 1..(L - 1) : /\ i \in 1..L /\ i + 1 \in 1..L
                               /\ nodes[q[i + 1]].parent = q[i]
    BY <1>1, <1>2, ChainFacts
<1>4. /\ \A i \in 1..L : q[i] \in D /\ q[i] \in Address
      /\ q \in Seq(Address) /\ q[1] = top
      /\ \A i \in 1..(L - 1) : q[i + 1] \in nodes[q[i]].child
  <2>1. \A i \in 1..L : q[i] \in D  BY <1>2, ChainInside
  <2> QED  BY <1>2, <2>1 DEF Chain
<1>5. c \in D /\ c \in Address  BY <1>3, <1>4
<1>6. CASE after = nodes  BY <1>6
<1>7. CASE nodes[c].terminal = "twofold" /\ ~(Plies(nodes, c) >= nodes[c].m)
  <2>1. nodes[c].edges = {}  BY <1>1, <1>5, <1>7 DEF Healthy, Drawn
  <2>2. path = ToSet(Path(nodes, current_head_, c))  BY <1>1, <1>2, ChainPath
  <2>3. \A y \in Address : y \in path <=> \E i \in 1..L : y = q[i]  BY <1>4 DEF ToSet
  <2>4. c \in path  BY <1>3, <1>5, <2>3
  <2> HIDE DEF path, L, N
  <2>5. /\ after \in [Address -> NodeType]
        /\ \A y \in Address :
             /\ after[y].used = nodes[y].used /\ after[y].parent = nodes[y].parent
             /\ after[y].index = nodes[y].index /\ after[y].edges = nodes[y].edges
             /\ after[y].child = nodes[y].child
             /\ after[y].lower = nodes[y].lower /\ after[y].upper = nodes[y].upper
             /\ y # c => after[y].terminal = nodes[y].terminal
             /\ y \notin path => after[y] = nodes[y]
             /\ y \in path /\ y # c /\ nodes[y].n > N => after[y].n = nodes[y].n - N
        /\ after[c].terminal = "no" /\ after[c].n = 0
      BY <1>2, <1>5, <1>7, <2>1, <2>2, <2>4, CorrectPoints DEF N
  <2>6. ASSUME NEW i \in 1..(L - 1)
        PROVE  /\ nodes[q[i]].n = 1 + VisitsOf(nodes, nodes[q[i]].child)
               /\ nodes[q[i]].edges # {} /\ nodes[q[i]].n > N
      BY <1>1, <1>2, VisitsFall DEF Healthy, L, N
  \* A child on the path is that of the node before it.
  <2>7. ASSUME NEW y \in D, NEW z \in nodes[y].child, z \in path
        PROVE  \E i \in 1..(L - 1) : y = q[i] /\ z = q[i + 1]
    <3>1. z \in Address /\ z # top /\ nodes[z].parent = y  BY <1>1, <1>2, ChildFacts
    <3>2. PICK k \in 1..L : z = q[k]  BY <2>3, <2>7, <3>1
    <3>3. k # 1 /\ k - 1 \in 1..(L - 1) /\ (k - 1) + 1 = k  BY <1>3, <1>4, <3>1, <3>2
    <3> QED  BY <1>3, <3>1, <3>2, <3>3
  <2>8. \A y \in Address : nodes[y].n \in Nat /\ after[y].n \in Nat /\ N \in Nat
      BY <1>2, <1>5, <2>5, TypeFacts DEF N
  <2>9. ASSUME NEW y \in D
        PROVE  /\ Extended(after, hs, y) /\ Counted(after, y, None) /\ Drawn(after, y)
               /\ y # top => Bounded(after, hs, y)
    <3>1. /\ Extended(nodes, hs, y) /\ Counted(nodes, y, None) /\ Drawn(nodes, y)
          /\ y # top => Bounded(nodes, hs, y)
        BY <1>1 DEF Healthy
    <3>2. y \in Address /\ nodes[y].child \in SUBSET Address /\ y # None
        BY <1>2, NodeTreeAssumption
    <3>3. Extended(after, hs, y)  BY <2>5, <3>1, <3>2 DEF Extended
    <3>4. CASE y = c
        BY <1>7, <2>1, <2>5, <3>1, <3>2, <3>3, <3>4 DEF Counted, Drawn, Bounded
    <3>5. CASE y # c
      <4>1. after[y].terminal = nodes[y].terminal /\ after[y].edges = nodes[y].edges
          BY <2>5, <3>2, <3>5
      <4>2. Drawn(after, y)  BY <3>1, <4>1 DEF Drawn
      <4>3. ASSUME y # top PROVE Bounded(after, hs, y)
        <5>1. ASSUME NEW z \in nodes[y].child
              PROVE  /\ after[z].index = nodes[z].index
                     /\ after[z].lower >= nodes[z].lower /\ after[z].upper <= nodes[z].upper
          <6>1. /\ after[z].index = nodes[z].index
                /\ after[z].lower = nodes[z].lower /\ after[z].upper = nodes[z].upper
                /\ nodes[z].lower \in -1..1 /\ nodes[z].upper \in -1..1
              BY <1>2, <2>5, <3>2, TypeFacts
          <6> QED  BY <6>1
        <5>2. Bounded(nodes, hs, y)  BY <3>1, <4>3
        <5> QED  BY <1>2, <2>5, <3>2, <4>1, <5>1, <5>2, BoundedKept
      <4>4. CASE y \in path
        <5>1. PICK i \in 1..L : y = q[i]  BY <2>3, <3>2, <4>4
        <5>2. i \in 1..(L - 1)  BY <1>3, <3>5, <5>1 DEF L
        <5> DEFINE z == q[i + 1]
                   V == VisitsOf(nodes, nodes[y].child)
        <5>3. z \in nodes[y].child /\ z \in Address /\ z \in path
            BY <1>3, <1>4, <2>3, <5>1, <5>2
        <5>4. after[y].n = nodes[y].n - N /\ nodes[y].n = 1 + V /\ nodes[y].edges # {}
            BY <2>5, <2>6, <3>2, <3>5, <4>4, <5>1, <5>2
        <5>5. after[z].n = nodes[z].n - N
          <6>1. CASE z = c
            <7> HIDE DEF z
            <7> QED  BY <2>5, <2>8, <5>3, <6>1 DEF N
          <6>2. CASE z # c
            <7>1. nodes[z].n > N  BY <1>3, <2>6, <5>2, <6>2 DEF L
            <7> HIDE DEF z
            <7> QED  BY <2>5, <5>3, <6>2, <7>1
          <6> QED  BY <6>1, <6>2
        <5>6. \A w \in nodes[y].child : w # z => after[w].n = nodes[w].n
          <6> SUFFICES ASSUME NEW w \in nodes[y].child, w # z PROVE after[w].n = nodes[w].n
              OBVIOUS
          <6>1. w \notin path
            <7> SUFFICES ASSUME w \in path PROVE FALSE  OBVIOUS
            <7>1. PICK j \in 1..(L - 1) : y = q[j] /\ w = q[j + 1]  BY <2>7
            <7>2. j = i  BY <1>3, <5>1, <5>2, <7>1
            <7> QED  BY <7>1, <7>2
          <6> QED  BY <2>5, <3>2, <6>1
        <5> HIDE DEF z
        <5>7. VisitsOf(after, nodes[y].child) = V + (after[z].n - nodes[z].n)
          <6>1. nodes \in [Address -> NodeType] /\ after \in [Address -> NodeType]  BY <1>2, <2>5
          <6> QED  BY <3>2, <5>3, <5>6, <6>1, VisitsChange
        <5>8. V \in Nat  BY <1>2, <3>2, VisitsFacts
        <5>9. after[y].n = 1 + VisitsOf(after, after[y].child)
          <6>1. after[y].child = nodes[y].child /\ nodes[z].n \in Nat /\ N \in Nat
              BY <2>5, <2>8, <3>2, <5>3
          <6> HIDE DEF V
          <6> QED  BY <5>4, <5>5, <5>7, <5>8, <6>1
        <5>10. Counted(after, y, None)  BY <3>2, <4>1, <5>4, <5>9 DEF Counted
        <5> QED  BY <3>3, <4>2, <4>3, <5>10
      <4>5. CASE y \notin path
        <5>1. after[y] = nodes[y]  BY <2>5, <3>2, <4>5
        <5>2. ASSUME NEW z \in nodes[y].child PROVE after[z].n = nodes[z].n
            BY <1>3, <2>3, <2>5, <2>7, <3>2, <4>5
        <5>3. Counted(after, y, None)
          <6>1. nodes \in [Address -> NodeType] /\ after \in [Address -> NodeType]  BY <1>2, <2>5
          <6>2. SameNode(after[y], nodes[y]) /\ after[y].child = nodes[y].child
              BY <5>1 DEF SameNode
          <6> QED  BY <3>1, <3>2, <5>2, <6>1, <6>2, CountedSame
        <5> QED  BY <3>3, <4>2, <4>3, <5>3
      <4> QED  BY <4>4, <4>5
    <3> QED  BY <3>4, <3>5
  <2>10. \A x \in Address \ D : after[x] = nodes[x]  BY <1>4, <2>3, <2>5
  <2> QED  BY <1>2, <2>5, <2>9, <2>10, SearchedKept DEF Healthy
<1>8. after = nodes \/ (nodes[c].terminal = "twofold" /\ ~(Plies(nodes, c) >= nodes[c].m))
    BY DEF Correct
<1> QED  BY <1>6, <1>7, <1>8

\* One field of a node is set.
LEMMA SetVisits ==
  ASSUME NEW p \in NodeType, NEW v \in Nat, NEW q, q = [p EXCEPT !.n = v]
  PROVE  /\ q \in NodeType /\ q.n = v
         /\ q.used = p.used /\ q.parent = p.parent /\ q.index = p.index /\ q.edges = p.edges /\ q.child = p.child
         /\ q.solid = p.solid /\ q.terminal = p.terminal /\ q.m = p.m /\ q.lower = p.lower /\ q.upper = p.upper
BY DEF NodeType

\* The mark of an end.
LEMMA SetTerminal ==
  ASSUME NEW p \in NodeType, NEW v \in {"no", "end", "twofold"}, NEW q, q = [p EXCEPT !.terminal = v]
  PROVE  /\ q \in NodeType /\ q.terminal = v
         /\ q.used = p.used /\ q.parent = p.parent /\ q.index = p.index /\ q.edges = p.edges /\ q.child = p.child
         /\ q.solid = p.solid /\ q.n = p.n /\ q.m = p.m /\ q.lower = p.lower /\ q.upper = p.upper
BY DEF NodeType

\* The plies to it.
LEMMA SetPlies ==
  ASSUME NEW p \in NodeType, NEW v \in Nat, NEW q, q = [p EXCEPT !.m = v]
  PROVE  /\ q \in NodeType /\ q.m = v
         /\ q.used = p.used /\ q.parent = p.parent /\ q.index = p.index /\ q.edges = p.edges /\ q.child = p.child
         /\ q.solid = p.solid /\ q.n = p.n /\ q.terminal = p.terminal /\ q.lower = p.lower /\ q.upper = p.upper
BY DEF NodeType

\* The lower bound, ...
LEMMA SetLower ==
  ASSUME NEW p \in NodeType, NEW v \in -1..1, NEW q, q = [p EXCEPT !.lower = v]
  PROVE  /\ q \in NodeType /\ q.lower = v
         /\ q.used = p.used /\ q.parent = p.parent /\ q.index = p.index /\ q.edges = p.edges /\ q.child = p.child
         /\ q.solid = p.solid /\ q.n = p.n /\ q.terminal = p.terminal /\ q.m = p.m /\ q.upper = p.upper
BY DEF NodeType

\* ... and the upper one.
LEMMA SetUpper ==
  ASSUME NEW p \in NodeType, NEW v \in -1..1, NEW q, q = [p EXCEPT !.upper = v]
  PROVE  /\ q \in NodeType /\ q.upper = v
         /\ q.used = p.used /\ q.parent = p.parent /\ q.index = p.index /\ q.edges = p.edges /\ q.child = p.child
         /\ q.solid = p.solid /\ q.n = p.n /\ q.terminal = p.terminal /\ q.m = p.m /\ q.lower = p.lower
BY DEF NodeType

\* The edges.
LEMMA SetEdges ==
  ASSUME NEW p \in NodeType, NEW v \in SUBSET Move, NEW q, q = [p EXCEPT !.edges = v]
  PROVE  /\ q \in NodeType /\ q.edges = v
         /\ q.used = p.used /\ q.parent = p.parent /\ q.index = p.index /\ q.child = p.child /\ q.solid = p.solid
         /\ q.n = p.n /\ q.terminal = p.terminal /\ q.m = p.m /\ q.lower = p.lower /\ q.upper = p.upper
BY DEF NodeType

\* The end of a game.
LEMMA TerminalPoints ==
  ASSUME NEW nodes \in [Address -> NodeType], NEW x \in Address, NEW r \in -1..1, NEW after,
         after = MakeTerminal(nodes, x, r)
  PROVE  /\ after \in [Address -> NodeType] /\ \A y \in Address \ {x} : after[y] = nodes[y]
         /\ after[x].terminal = "end" /\ after[x].lower = r /\ after[x].upper = r
         /\ after[x].used = nodes[x].used /\ after[x].parent = nodes[x].parent
         /\ after[x].index = nodes[x].index /\ after[x].edges = nodes[x].edges
         /\ after[x].child = nodes[x].child /\ after[x].n = nodes[x].n
<1> DEFINE p == [nodes[x] EXCEPT !.terminal = "end"]
           s == [p EXCEPT !.lower = r]
           t == [s EXCEPT !.upper = r]
<1>1. after = [nodes EXCEPT ![x] = t]  BY DEF MakeTerminal
<1> HIDE DEF t
<1> HIDE DEF s
<1> HIDE DEF p
<1>2. /\ p \in NodeType /\ p.terminal = "end"
      /\ p.used = nodes[x].used /\ p.parent = nodes[x].parent /\ p.index = nodes[x].index
      /\ p.edges = nodes[x].edges /\ p.child = nodes[x].child /\ p.n = nodes[x].n
    BY SetTerminal DEF p
<1>3. /\ s \in NodeType /\ s.terminal = "end" /\ s.lower = r
      /\ s.used = nodes[x].used /\ s.parent = nodes[x].parent /\ s.index = nodes[x].index
      /\ s.edges = nodes[x].edges /\ s.child = nodes[x].child /\ s.n = nodes[x].n
    BY <1>2, SetLower DEF s
<1> QED  BY <1>1, <1>3, SetUpper DEF t

\* What a node is like once it has been extended: p is the position there.
Leaf(nodes, after, c, p) ==
  /\ after \in [Address -> NodeType] /\ \A y \in Address \ {c} : after[y] = nodes[y]
  /\ after[c].used = nodes[c].used /\ after[c].parent = nodes[c].parent
  /\ after[c].index = nodes[c].index
  /\ after[c].child = nodes[c].child /\ after[c].n = nodes[c].n
  /\ \/ /\ after[c].edges = {} /\ after[c].terminal = "end"
        /\ after[c].lower = after[c].upper
        /\ after[c].upper = IF LegalMoves(p.board) = {} /\ p.board \in Mated THEN 1 ELSE 0
     \/ /\ after[c].edges = {} /\ after[c].terminal = "twofold"
        /\ after[c].lower = nodes[c].lower /\ after[c].upper = nodes[c].upper
     \/ /\ after[c].edges = LegalMoves(p.board) /\ after[c].edges # {}
        /\ after[c].terminal = "no"
        /\ after[c].lower = nodes[c].lower /\ after[c].upper = nodes[c].upper

\* ExtendNode turns a node into such a leaf.
LEMMA ExtendPoints ==
  ASSUME NEW nodes \in [Address -> NodeType], NEW c \in Address, nodes[c].edges = {},
         nodes[c].terminal = "no", NEW p \in Pos, p = Latest(AppendMoves(history_, MovesTo(nodes, c, current_head_))),
         NEW after, after = Extend(nodes, c)
  PROVE  Leaf(nodes, after, c, p)
<1> DEFINE B1 == LegalMoves(p.board) = {}
           B2 == c # current_head_ /\ (p.rule50 >= Rule50 \/ p.repetitions >= 2)
           B3 == /\ c # current_head_ /\ p.repetitions = 1 /\ TwoFoldDraws
                 /\ Plies(nodes, c) >= 4 /\ Plies(nodes, c) >= p.cycle
           r == IF p.board \in Mated THEN 1 ELSE 0
<1>1. after = IF B1 THEN MakeTerminal(nodes, c, r)
              ELSE IF B2 THEN MakeTerminal(nodes, c, 0)
              ELSE IF B3 THEN [nodes EXCEPT ![c].terminal = "twofold", ![c].m = p.cycle]
              ELSE [nodes EXCEPT ![c].edges = LegalMoves(p.board)]
    BY DEF Extend
<1>2. r \in -1..1 /\ 0 \in -1..1 /\ nodes[c] \in NodeType /\ p.cycle \in Nat /\ LegalMoves(p.board) \subseteq Move
    BY DEF Pos, LegalMoves
<1>3. CASE B1
  <2> HIDE DEF r
  <2> QED  BY <1>1, <1>2, <1>3, TerminalPoints DEF Leaf, r
<1>4. CASE ~B1 /\ B2
  <2> DEFINE z == 0
  <2> HIDE DEF z
  <2> QED  BY <1>1, <1>2, <1>4, TerminalPoints DEF Leaf, z
<1>5. CASE ~B1 /\ ~B2 /\ B3
  <2> DEFINE s == [nodes[c] EXCEPT !.terminal = "twofold"]
             t == [s EXCEPT !.m = p.cycle]
  <2>1. after = [nodes EXCEPT ![c].terminal = "twofold", ![c].m = p.cycle]  BY <1>1, <1>5
  <2>2. after = [nodes EXCEPT ![c] = t]  BY <2>1
  <2> HIDE DEF t
  <2> HIDE DEF s
  <2>3. /\ s \in NodeType /\ s.terminal = "twofold"
        /\ s.used = nodes[c].used /\ s.parent = nodes[c].parent /\ s.index = nodes[c].index
        /\ s.edges = nodes[c].edges /\ s.child = nodes[c].child /\ s.n = nodes[c].n
        /\ s.lower = nodes[c].lower /\ s.upper = nodes[c].upper
      BY <1>2, SetTerminal DEF s
  <2> QED  BY <1>2, <2>2, <2>3, SetPlies DEF Leaf, t
<1>6. CASE ~B1 /\ ~B2 /\ ~B3
  <2> DEFINE E == LegalMoves(p.board)
             t == [nodes[c] EXCEPT !.edges = E]
  <2>1. after = [nodes EXCEPT ![c] = t]  BY <1>1, <1>6
  <2>2. E # {} /\ E \in SUBSET Move  BY <1>2, <1>6
  <2> HIDE DEF t
  <2> HIDE DEF E
  <2>3. /\ t \in NodeType /\ t.edges = E
        /\ t.used = nodes[c].used /\ t.parent = nodes[c].parent /\ t.index = nodes[c].index
        /\ t.terminal = nodes[c].terminal /\ t.child = nodes[c].child /\ t.n = nodes[c].n
        /\ t.lower = nodes[c].lower /\ t.upper = nodes[c].upper
      BY <1>2, <2>2, SetEdges DEF t
  <2> QED  BY <2>1, <2>2, <2>3 DEF E, Leaf
<1> HIDE DEF B1, B2, B3
<1> QED  BY <1>3, <1>4, <1>5, <1>6

\* A leaf is extended, or is the end of a game as it was. It is due its visit.
LEMMA SearchExtends ==
  ASSUME NEW start, NEW old, NEW top, NEW U, NEW nodes, NEW hs, NEW D,
         Searched(start, old, top, U, nodes, hs, D, None), current_head_ = top, history_ = hs[top],
         NEW q, Chain(nodes, top, q), NEW c, c = q[Len(q)],
         nodes[c].terminal = "no" => nodes[c].n = 0,
         NEW after, after = IF nodes[c].terminal = "no" THEN Extend(nodes, c) ELSE nodes
  PROVE  /\ Searched(start, old, top, U, after, hs, D, c)
         /\ \A y \in Address : after[y].child = nodes[y].child
<1>1. /\ Forest(nodes, hs) /\ Arena(start, top, U, nodes, D) /\ Healthy(nodes, hs, D, top, None)
      /\ hs[top] = old[top] /\ \A y \in Address \ U : hs[y] = old[y]
    BY DEF Searched
<1>2. /\ D \in SUBSET Address /\ top \in D /\ top \in Address /\ D \subseteq U
      /\ \A x \in D : x \in Address /\ nodes[x].used /\ nodes[x].child \subseteq D \ {top}
      /\ nodes \in [Address -> NodeType]
    BY <1>1, ArenaFacts DEF Forest
<1>3. c \in D /\ c \in Address /\ c # None
  <2>1. \A i \in 1..Len(q) : q[i] \in D  BY <1>2, ChainInside
  <2> QED  BY <1>1, <1>2, <2>1, NodeTreeAssumption, ChainFacts
<1>4. /\ Extended(nodes, hs, c) /\ Counted(nodes, c, None) /\ Drawn(nodes, c)
      /\ c # top => Bounded(nodes, hs, c)
    BY <1>1, <1>3 DEF Healthy
\* The others are due nothing.
<1>5. ASSUME NEW y \in D, y # c PROVE Counted(nodes, y, c)
    BY <1>1, <1>2, <1>5, NodeTreeAssumption DEF Counted, Healthy
<1>6. CASE nodes[c].terminal # "no"  BY <1>1, <1>5, <1>6 DEF Healthy, Counted, Searched
<1>7. CASE nodes[c].terminal = "no"
  <2>1. nodes[c].edges = {} /\ nodes[c].child = {}
    <3>1. VisitsOf(nodes, nodes[c].child) \in Nat  BY <1>2, <1>3, VisitsFacts, TypeFacts
    <3>2. nodes[c].edges = {}  BY <1>3, <1>4, <1>7, <3>1 DEF Counted
    <3> QED  BY <1>1, <1>3, <3>2, ChildFacts
  <2> DEFINE p == Latest(hs[c])
  <2>2. p \in Pos
    <3>1. Linked(hs[c])  BY <1>1, <1>2, <1>3 DEF Forest, Histories
    <3> QED  BY <3>1 DEF Linked, Latest
  <2>3. p = Latest(AppendMoves(history_, MovesTo(nodes, c, current_head_)))
    <3>1. \A k \in 1..Len(q) : hs[q[k]] = AppendMoves(hs[top], MovesOf(nodes, q, k))
        BY <1>1, <1>2, ChainHistory
    <3> QED  BY <1>1, <1>2, <3>1, ChainPath, ChainFacts
  <2>4. after = Extend(nodes, c)  BY <1>7
  <2> HIDE DEF p
  <2>5. /\ after \in [Address -> NodeType] /\ \A y \in Address \ {c} : after[y] = nodes[y]
        /\ after[c].used = nodes[c].used /\ after[c].parent = nodes[c].parent
        /\ after[c].index = nodes[c].index
        /\ after[c].child = nodes[c].child /\ after[c].n = nodes[c].n
        /\ \/ /\ after[c].edges = {} /\ after[c].terminal = "end"
              /\ after[c].lower = after[c].upper
              /\ after[c].upper = IF LegalMoves(p.board) = {} /\ p.board \in Mated THEN 1 ELSE 0
           \/ /\ after[c].edges = {} /\ after[c].terminal = "twofold"
              /\ after[c].lower = nodes[c].lower /\ after[c].upper = nodes[c].upper
           \/ /\ after[c].edges = LegalMoves(p.board) /\ after[c].edges # {}
              /\ after[c].terminal = "no"
              /\ after[c].lower = nodes[c].lower /\ after[c].upper = nodes[c].upper
    <3>1. nodes \in [Address -> NodeType] /\ c \in Address  BY <1>2, <1>3
    <3>2. Leaf(nodes, after, c, p)  BY <1>7, <2>1, <2>2, <2>3, <2>4, <3>1, ExtendPoints
    <3> QED  BY <3>2 DEF Leaf
  <2>6. \A y \in Address : after[y].child = nodes[y].child  BY <2>5
  <2>7. /\ Extended(after, hs, c) /\ Counted(after, c, c) /\ Drawn(after, c)
        /\ c # top => Bounded(after, hs, c)
    <3>1. Counted(after, c, c)
      <4>1. VisitsOf(after, {}) = 0  BY SumOfNothing DEF VisitsOf
      <4>2. after[c].child = {} /\ after[c].n = 0  BY <1>7, <2>1, <2>5
      <4>3. after[c].terminal = "no" => after[c].edges # {}  BY <2>5
      <4> QED  BY <4>1, <4>2, <4>3 DEF Counted
    <3>2. ASSUME c # top PROVE Bounded(after, hs, c)
        BY <1>4, <1>7, <2>1, <2>5, <3>2 DEF Bounded, p
    <3> QED  BY <2>5, <3>1, <3>2 DEF Extended, Drawn, p
  <2>8. Healthy(after, hs, D, top, c)
    <3> SUFFICES ASSUME NEW y \in D, y # c
                 PROVE  /\ Extended(after, hs, y) /\ Counted(after, y, c) /\ Drawn(after, y)
                        /\ y # top => Bounded(after, hs, y)
        BY <2>7 DEF Healthy
    <3>1. after[y] = nodes[y] /\ y \in Address /\ nodes[y].child \subseteq Address
        BY <1>2, <2>5
    <3>2. /\ Extended(nodes, hs, y) /\ Drawn(nodes, y)
          /\ y # top => Bounded(nodes, hs, y)
        BY <1>1 DEF Healthy
    <3>3. Counted(after, y, c)
      <4>1. nodes \in [Address -> NodeType] /\ after \in [Address -> NodeType]  BY <1>2, <2>5
      <4>2. \A d \in nodes[y].child : after[d].n = nodes[d].n  BY <2>5, <3>1
      <4>3. SameNode(after[y], nodes[y]) /\ after[y].child = nodes[y].child  BY <3>1 DEF SameNode
      <4> QED  BY <1>5, <3>1, <4>1, <4>2, <4>3, CountedSame
    <3>4. ASSUME y # top PROVE Bounded(after, hs, y)
      <4>1. ASSUME NEW d \in nodes[y].child
            PROVE  /\ after[d].index = nodes[d].index
                   /\ after[d].lower >= nodes[d].lower /\ after[d].upper <= nodes[d].upper
        <5>1. d \in Address /\ d # top  BY <1>2, <3>1
        <5>2. /\ nodes[d].lower \in -1..1 /\ nodes[d].upper \in -1..1
              /\ after[d].lower \in -1..1 /\ after[d].upper \in -1..1
            BY <1>2, <2>5, <5>1, TypeFacts
        <5>3. CASE d # c  BY <2>5, <5>1, <5>2, <5>3
        <5>4. CASE d = c
          <6>1. nodes[c].lower = -1 /\ nodes[c].upper = 1
              BY <1>4, <1>7, <2>1, <5>1, <5>4 DEF Bounded
          <6>2. after[d].index = nodes[d].index  BY <2>5, <5>4
          <6> QED  BY <5>2, <5>4, <6>1, <6>2
        <5> QED  BY <5>3, <5>4
      <4>2. /\ after[y].edges = nodes[y].edges /\ after[y].terminal = nodes[y].terminal
            /\ after[y].lower = nodes[y].lower /\ after[y].upper = nodes[y].upper
            /\ after[y].child = nodes[y].child
          BY <3>1
      <4>3. Bounded(nodes, hs, y)  BY <3>2, <3>4
      <4>4. nodes \in [Address -> NodeType] /\ after \in [Address -> NodeType]  BY <1>2, <2>5
      <4> QED  BY <3>1, <4>1, <4>2, <4>3, <4>4, BoundedKept
    <3> QED  BY <3>1, <3>2, <3>3, <3>4 DEF Extended, Drawn
  <2>9. ASSUME NEW x \in Address
        PROVE  /\ after[x].used = nodes[x].used /\ after[x].parent = nodes[x].parent
               /\ after[x].index = nodes[x].index /\ after[x].child = nodes[x].child
      BY <2>5
  <2>10. ASSUME NEW x \in D
         PROVE  \/ after[x].edges = nodes[x].edges
                \/ /\ after[x].edges \subseteq LegalMoves(Latest(hs[x]).board)
                   /\ \A d \in nodes[x].child : nodes[d].index \in after[x].edges
    <3>1. CASE x = c  BY <2>1, <2>5, <3>1 DEF p
    <3>2. CASE x # c  BY <1>2, <2>5, <3>2
    <3> QED  BY <3>1, <3>2
  <2>11. \A x \in Address \ D : after[x] = nodes[x]  BY <1>3, <2>5
  <2> QED  BY <2>5, <2>6, <2>8, <2>9, <2>10, <2>11, SearchedKept
<1> QED  BY <1>6, <1>7

\* Sets of bounds have a largest member.
LEMMA MaxOfBounds ==
  ASSUME NEW S \in SUBSET (-1..1), S # {}
  PROVE  Max(S) \in S /\ Max(S) \in -1..1 /\ \A s \in S : s <= Max(S)
<1>1. \A s \in S : s = -1 \/ s = 0 \/ s = 1  OBVIOUS
<1>2. \E x \in S : \A y \in S : x >= y
  <2>1. CASE 1 \in S  BY <1>1, <2>1
  <2>2. CASE 1 \notin S /\ 0 \in S  BY <1>1, <2>2
  <2>3. CASE 1 \notin S /\ 0 \notin S
    <3>1. PICK x \in S : TRUE  OBVIOUS
    <3> QED  BY <1>1, <2>3, <3>1
  <2> QED  BY <2>1, <2>2, <2>3
<1>3. Max(S) \in S /\ \A y \in S : Max(S) >= y  BY <1>2 DEF Max
<1> QED  BY <1>1, <1>3

\* The implied bounds say of each edge what Bounded asks for, and no bounds that are right
\* are tighter.
LEMMA ImpliedFacts ==
  ASSUME NEW nodes \in [Address -> NodeType], NEW x \in Address,
         \A c, d \in nodes[x].child : nodes[c].index = nodes[d].index => c = d,
         \A c \in nodes[x].child : nodes[c].index \in nodes[x].edges,
         NEW b, b = ImpliedBounds(nodes, x)
  PROVE  /\ b = [lower |-> b.lower, upper |-> b.upper]
         /\ b.lower \in -1..1 /\ b.upper \in -1..1
         /\ \/ b.lower = -1
            \/ \A m \in nodes[x].edges : \E c \in nodes[x].child :
                 nodes[c].index = m /\ nodes[c].upper <= -b.lower
         /\ \/ b.upper = 1
            \/ \E c \in nodes[x].child : nodes[c].lower >= -b.upper
         /\ \A l \in -1..1 :
              l = -1 \/ (\A m \in nodes[x].edges : \E c \in nodes[x].child :
                           nodes[c].index = m /\ nodes[c].upper <= -l)
                => b.lower >= l
         /\ \A u \in -1..1 :
              u = 1 \/ (\E c \in nodes[x].child : nodes[c].lower >= -u) => b.upper <= u
<1> DEFINE C == nodes[x].child
           open == {m \in nodes[x].edges : ChildAt(nodes, x, m) = {}}
           e == IF open = {} THEN -1 ELSE 1
           Us == {nodes[c].upper : c \in C} \cup {e}
           Ls == {nodes[c].lower : c \in C} \cup {-1}
<1>1. /\ C \subseteq Address
      /\ \A c \in C : nodes[c].lower \in -1..1 /\ nodes[c].upper \in -1..1
    BY TypeFacts
<1>2. b = [lower |-> -Max(Us), upper |-> -Max(Ls)]  BY DEF ImpliedBounds
<1>3. /\ Us \in SUBSET (-1..1) /\ Us # {} /\ e \in Us /\ \A c \in C : nodes[c].upper \in Us
      /\ \A s \in Us : s = e \/ \E c \in C : s = nodes[c].upper
      /\ Ls \in SUBSET (-1..1) /\ Ls # {} /\ -1 \in Ls /\ \A c \in C : nodes[c].lower \in Ls
      /\ \A s \in Ls : s = -1 \/ \E c \in C : s = nodes[c].lower
    BY <1>1
<1>4. e \in -1..1 /\ (e = -1 <=> open = {}) /\ (e = 1 <=> open # {})  OBVIOUS
<1>5. \A m \in nodes[x].edges : m \notin open => \E c \in C : nodes[c].index = m
    BY DEF ChildAt
<1>6. \A m \in nodes[x].edges : (\E c \in C : nodes[c].index = m) => m \notin open
    BY DEF ChildAt
<1>7. open \subseteq nodes[x].edges  OBVIOUS
<1> HIDE DEF Us, Ls, e, open
<1> DEFINE MU == Max(Us)
           ML == Max(Ls)
<1>8. /\ MU \in Us /\ MU \in -1..1 /\ \A s \in Us : s <= MU
      /\ ML \in Ls /\ ML \in -1..1 /\ \A s \in Ls : s <= ML
    BY <1>3, MaxOfBounds
<1>9. b = [lower |-> -MU, upper |-> -ML]  BY <1>2
<1> HIDE DEF MU, ML
<1>10. b.lower = -MU /\ b.upper = -ML /\ -MU \in -1..1 /\ -ML \in -1..1  BY <1>8, <1>9
<1>11. ASSUME b.lower # -1, NEW m \in nodes[x].edges
       PROVE  \E c \in C : nodes[c].index = m /\ nodes[c].upper <= -b.lower
  <2>1. MU # 1 /\ -b.lower = MU  BY <1>8, <1>10, <1>11
  <2>2. PICK c \in C : nodes[c].index = m  BY <1>3, <1>4, <1>5, <1>8, <2>1
  <2>3. nodes[c].upper <= MU  BY <1>3, <1>8, <2>2
  <2> QED  BY <2>1, <2>2, <2>3
<1>12. ASSUME b.upper # 1 PROVE \E c \in C : nodes[c].lower >= -b.upper
    BY <1>1, <1>3, <1>8, <1>10, <1>12
<1>13. ASSUME NEW l \in -1..1,
              l = -1 \/ (\A m \in nodes[x].edges : \E c \in C : nodes[c].index = m /\ nodes[c].upper <= -l)
       PROVE  b.lower >= l
  <2>1. CASE l = -1  BY <1>10, <2>1
  <2>2. CASE l # -1
    <3>1. \A m \in nodes[x].edges : \E c \in C : nodes[c].index = m /\ nodes[c].upper <= -l
        BY <1>13, <2>2
    <3>2. open = {}  BY <1>6, <1>7, <3>1
    <3>3. ASSUME NEW c \in C PROVE nodes[c].upper <= -l  BY <3>1
    <3>4. MU <= -l  BY <1>3, <1>4, <1>8, <3>2, <3>3
    <3> QED  BY <1>8, <1>10, <3>4
  <2> QED  BY <2>1, <2>2
<1>14. ASSUME NEW u \in -1..1, u = 1 \/ (\E c \in C : nodes[c].lower >= -u)
       PROVE  b.upper <= u
    BY <1>1, <1>3, <1>8, <1>10, <1>14
<1> QED  BY <1>9, <1>10, <1>11, <1>12, <1>13, <1>14

\* What SetBounds() leaves: b are the bounds the children imply.
BoundsSet(nodes, after, x, b) ==
  /\ after \in [Address -> NodeType] /\ \A y \in Address \ {x} : after[y] = nodes[y]
  /\ after[x].used = nodes[x].used /\ after[x].parent = nodes[x].parent
  /\ after[x].index = nodes[x].index /\ after[x].edges = nodes[x].edges
  /\ after[x].child = nodes[x].child /\ after[x].n = nodes[x].n
  /\ \/ after[x] = nodes[x]
     \/ /\ after[x].lower = b.lower /\ after[x].upper = b.upper
        /\ \/ after[x].terminal = nodes[x].terminal
           \/ after[x].terminal = "end" /\ b.lower = b.upper

\* MaybeSetBounds changes bounds, and the mark of an end, of one node.
LEMMA SetBoundsPoints ==
  ASSUME NEW nodes \in [Address -> NodeType], NEW x \in Address,
         NEW b, b = ImpliedBounds(nodes, x), b.lower \in -1..1, b.upper \in -1..1,
         NEW after, after = SetBounds(nodes, x)
  PROVE  BoundsSet(nodes, after, x, b)
<1>1. CASE b = Unbounded  BY <1>1 DEF SetBounds, BoundsSet
<1>2. CASE b # Unbounded /\ b.lower = b.upper
  <2> DEFINE r == b.lower
  <2> HIDE DEF r
  <2> QED  BY <1>2, TerminalPoints DEF BoundsSet, r, SetBounds
<1>3. CASE b # Unbounded /\ b.lower # b.upper
  <2> DEFINE s == [nodes[x] EXCEPT !.lower = b.lower]
             t == [s EXCEPT !.upper = b.upper]
  <2>1. after = [nodes EXCEPT ![x].lower = b.lower, ![x].upper = b.upper]
      BY <1>3 DEF SetBounds
  <2>2. after = [nodes EXCEPT ![x] = t] /\ nodes[x] \in NodeType  BY <2>1
  <2> HIDE DEF t
  <2> HIDE DEF s
  <2>3. /\ s \in NodeType /\ s.lower = b.lower /\ s.terminal = nodes[x].terminal
        /\ s.used = nodes[x].used /\ s.parent = nodes[x].parent /\ s.index = nodes[x].index
        /\ s.edges = nodes[x].edges /\ s.child = nodes[x].child /\ s.n = nodes[x].n
      BY <2>2, SetLower DEF s
  <2> QED  BY <2>2, <2>3, SetUpper DEF BoundsSet, t
<1> QED  BY <1>1, <1>2, <1>3

\* Bounds that are implied by the children are right, and only get tighter.
LEMMA SearchBounds ==
  ASSUME NEW start, NEW old, NEW top, NEW U, NEW nodes, NEW hs, NEW D, NEW due,
         Searched(start, old, top, U, nodes, hs, D, due),
         NEW x \in D, x # top, nodes[x].terminal = "no", nodes[x].edges # {},
         NEW after, after = SetBounds(nodes, x)
  PROVE  /\ Searched(start, old, top, U, after, hs, D, due)
         /\ \A y \in Address : after[y].child = nodes[y].child
<1> DEFINE b == ImpliedBounds(nodes, x)
<1>1. /\ Forest(nodes, hs) /\ Arena(start, top, U, nodes, D) /\ Healthy(nodes, hs, D, top, due)
    BY DEF Searched
<1>2. /\ D \in SUBSET Address /\ top \in D /\ x \in Address
      /\ \A y \in D : y \in Address /\ nodes[y].used /\ nodes[y].child \subseteq D \ {top}
      /\ nodes \in [Address -> NodeType]
    BY <1>1, ArenaFacts DEF Forest
<1>3. /\ \A c, d \in nodes[x].child : nodes[c].index = nodes[d].index => c = d
      /\ \A c \in nodes[x].child : nodes[c].index \in nodes[x].edges
      /\ x \notin nodes[x].child
    BY <1>1, <1>2, ChildFacts DEF Forest, Families
<1>4. /\ b.lower \in -1..1 /\ b.upper \in -1..1
      /\ \/ b.lower = -1
         \/ \A m \in nodes[x].edges : \E c \in nodes[x].child :
              nodes[c].index = m /\ nodes[c].upper <= -b.lower
      /\ \/ b.upper = 1
         \/ \E c \in nodes[x].child : nodes[c].lower >= -b.upper
      /\ \A l \in -1..1 :
           l = -1 \/ (\A m \in nodes[x].edges : \E c \in nodes[x].child :
                        nodes[c].index = m /\ nodes[c].upper <= -l)
             => b.lower >= l
      /\ \A u \in -1..1 :
           u = 1 \/ (\E c \in nodes[x].child : nodes[c].lower >= -u) => b.upper <= u
    BY <1>2, <1>3, ImpliedFacts
<1>5. BoundsSet(nodes, after, x, b)  BY <1>2, <1>4, SetBoundsPoints
<1> HIDE DEF b
<1>6. /\ after \in [Address -> NodeType] /\ \A y \in Address \ {x} : after[y] = nodes[y]
      /\ after[x].used = nodes[x].used /\ after[x].parent = nodes[x].parent
      /\ after[x].index = nodes[x].index /\ after[x].edges = nodes[x].edges
      /\ after[x].child = nodes[x].child /\ after[x].n = nodes[x].n
      /\ \/ after[x] = nodes[x]
         \/ /\ after[x].lower = b.lower /\ after[x].upper = b.upper
            /\ \/ after[x].terminal = nodes[x].terminal
               \/ after[x].terminal = "end" /\ b.lower = b.upper
    BY <1>5 DEF BoundsSet
<1>7. /\ Extended(nodes, hs, x) /\ Counted(nodes, x, due) /\ Drawn(nodes, x) /\ Bounded(nodes, hs, x)
    BY <1>1 DEF Healthy
<1>8. after[x].lower >= nodes[x].lower /\ after[x].upper <= nodes[x].upper
    BY <1>2, <1>4, <1>6, <1>7, TypeFacts DEF Bounded
<1>9. Bounded(after, hs, x)
  <2>1. CASE after[x] = nodes[x]
    <3>1. \A c \in nodes[x].child : after[c] = nodes[c]  BY <1>2, <1>3, <1>6
    <3> QED  BY <1>7, <2>1, <3>1 DEF Bounded
  <2>2. CASE after[x] # nodes[x]
    <3>1. \A c \in nodes[x].child : after[c] = nodes[c]  BY <1>2, <1>3, <1>6
    <3>2. /\ after[x].lower = b.lower /\ after[x].upper = b.upper
          /\ after[x].terminal = "end" => b.lower = b.upper
        BY <1>6, <2>2
    <3> QED  BY <1>4, <1>6, <3>1, <3>2 DEF Bounded
  <2> QED  BY <2>1, <2>2
<1>10. \A y \in Address : after[y].n = nodes[y].n  BY <1>6
<1>11. ASSUME NEW y \in D
       PROVE  /\ Extended(after, hs, y) /\ Counted(after, y, due) /\ Drawn(after, y)
              /\ y # top => Bounded(after, hs, y)
  <2>1. /\ Extended(nodes, hs, y) /\ Counted(nodes, y, due) /\ Drawn(nodes, y)
        /\ y # top => Bounded(nodes, hs, y)
        /\ y \in Address /\ nodes[y].child \in SUBSET Address
      BY <1>1, <1>2 DEF Healthy
  <2>2. CASE y = x
    <3>1. VisitsOf(after, after[x].child) = VisitsOf(nodes, nodes[x].child)
        BY <1>2, <1>6, <1>10, <2>1, <2>2, VisitsSame
    <3> QED  BY <1>6, <1>7, <1>9, <2>2, <3>1 DEF Drawn, Extended, Counted
  <2>3. CASE y # x
    <3>1. after[y] = nodes[y]  BY <1>6, <2>1, <2>3
    <3>2. Counted(after, y, due)  BY <1>2, <1>6, <1>10, <2>1, <3>1, VisitsSame DEF Counted
    <3>3. ASSUME y # top PROVE Bounded(after, hs, y)
      <4>1. ASSUME NEW c \in nodes[y].child
            PROVE  /\ after[c].index = nodes[c].index
                   /\ after[c].lower >= nodes[c].lower /\ after[c].upper <= nodes[c].upper
          BY <1>2, <1>6, <1>8, <2>1, TypeFacts
      <4>2. /\ after[y].edges = nodes[y].edges /\ after[y].terminal = nodes[y].terminal
            /\ after[y].lower = nodes[y].lower /\ after[y].upper = nodes[y].upper
            /\ after[y].child = nodes[y].child
          BY <3>1
      <4>3. Bounded(nodes, hs, y)  BY <2>1, <3>3
      <4> QED  BY <1>2, <1>6, <2>1, <4>1, <4>2, <4>3, BoundedKept
    <3> QED  BY <2>1, <3>1, <3>2, <3>3 DEF Extended, Drawn
  <2> QED  BY <2>2, <2>3
<1>12. ASSUME NEW y \in Address
       PROVE  /\ after[y].used = nodes[y].used /\ after[y].parent = nodes[y].parent
              /\ after[y].index = nodes[y].index /\ after[y].child = nodes[y].child
              /\ after[y].edges = nodes[y].edges
    BY <1>6
<1> QED  BY <1>2, <1>6, <1>11, <1>12, SearchedKept DEF Healthy

\* One visit more at x.
Visited(nodes, after, x) ==
  /\ after \in [Address -> NodeType] /\ \A y \in Address \ {x} : after[y] = nodes[y]
  /\ \A y \in Address :
       /\ after[y].used = nodes[y].used /\ after[y].parent = nodes[y].parent
       /\ after[y].index = nodes[y].index /\ after[y].child = nodes[y].child
       /\ after[y].edges = nodes[y].edges /\ after[y].terminal = nodes[y].terminal
       /\ after[y].lower = nodes[y].lower /\ after[y].upper = nodes[y].upper
       /\ y # x => after[y].n = nodes[y].n
  /\ after[x].n = nodes[x].n + 1

\* One visit more changes nothing else.
LEMMA VisitPoints ==
  ASSUME NEW nodes \in [Address -> NodeType], NEW x \in Address,
         NEW after, after = [nodes EXCEPT ![x].n = @ + 1]
  PROVE  Visited(nodes, after, x)
<1> DEFINE k == nodes[x].n + 1
           t == [nodes[x] EXCEPT !.n = k]
<1>1. k \in Nat /\ k = nodes[x].n + 1 /\ nodes[x] \in NodeType /\ nodes[x].n \in Nat
    BY TypeFacts
<1>2. after = [nodes EXCEPT ![x] = t]  BY DEF NodeType
<1> HIDE DEF t
<1> HIDE DEF k
<1>3. /\ t \in NodeType /\ t.n = k
      /\ t.used = nodes[x].used /\ t.parent = nodes[x].parent /\ t.index = nodes[x].index
      /\ t.edges = nodes[x].edges /\ t.child = nodes[x].child /\ t.terminal = nodes[x].terminal
      /\ t.lower = nodes[x].lower /\ t.upper = nodes[x].upper
    BY <1>1, SetVisits DEF t
<1>4. after \in [Address -> NodeType] /\ after[x] = t /\ \A y \in Address \ {x} : after[y] = nodes[y]
    BY <1>2, <1>3
<1>5. ASSUME NEW y \in Address
      PROVE  /\ after[y].used = nodes[y].used /\ after[y].parent = nodes[y].parent
             /\ after[y].index = nodes[y].index /\ after[y].child = nodes[y].child
             /\ after[y].edges = nodes[y].edges /\ after[y].terminal = nodes[y].terminal
             /\ after[y].lower = nodes[y].lower /\ after[y].upper = nodes[y].upper
             /\ y # x => after[y].n = nodes[y].n
    BY <1>3, <1>4
<1> QED  BY <1>1, <1>3, <1>4, <1>5 DEF Visited

\* The node above, if any.
Parental(nodes, D, top, x, next) == (x = top /\ next = None) \/ (next \in D /\ x \in nodes[next].child)

\* A node gets its visit, and the node above is due one.
LEMMA SearchVisits ==
  ASSUME NEW start, NEW old, NEW top, NEW U, NEW nodes, NEW hs, NEW D, NEW x \in D,
         Searched(start, old, top, U, nodes, hs, D, x),
         NEW next, Parental(nodes, D, top, x, next),
         NEW after, Visited(nodes, after, x)
  PROVE  /\ Searched(start, old, top, U, after, hs, D, next)
         /\ \A y \in Address : /\ after[y].child = nodes[y].child /\ after[y].edges = nodes[y].edges
                               /\ after[y].terminal = nodes[y].terminal
                               /\ after[y].parent = nodes[y].parent
<1>1. (x = top /\ next = None) \/ (next \in D /\ x \in nodes[next].child)  BY DEF Parental
<1>2. /\ Forest(nodes, hs) /\ Arena(start, top, U, nodes, D) /\ Healthy(nodes, hs, D, top, x)
    BY DEF Searched
<1>3. /\ D \in SUBSET Address /\ top \in D /\ x \in Address
      /\ \A y \in D : y \in Address /\ y # None /\ nodes[y].used /\ nodes[y].child \subseteq D \ {top}
      /\ nodes \in [Address -> NodeType]
    BY <1>2, ArenaFacts, NodeTreeAssumption DEF Forest
<1>4. after \in [Address -> NodeType] /\ \A y \in Address \ {x} : after[y] = nodes[y]
    BY DEF Visited
<1>5. ASSUME NEW y \in Address
      PROVE  /\ after[y].used = nodes[y].used /\ after[y].parent = nodes[y].parent
             /\ after[y].index = nodes[y].index /\ after[y].child = nodes[y].child
             /\ after[y].edges = nodes[y].edges /\ after[y].terminal = nodes[y].terminal
             /\ after[y].lower = nodes[y].lower /\ after[y].upper = nodes[y].upper
             /\ y # x => after[y].n = nodes[y].n
    BY DEF Visited
<1>6. after[x].n = nodes[x].n + 1  BY DEF Visited
\* Only the node above has it as a child.
<1>7. \A y \in D : x \in nodes[y].child => y = next  BY <1>1, <1>2, <1>3, ChildFacts
<1>8. ASSUME NEW y \in D
       PROVE  /\ Extended(after, hs, y) /\ Counted(after, y, next) /\ Drawn(after, y)
              /\ y # top => Bounded(after, hs, y)
  <2>1. /\ Extended(nodes, hs, y) /\ Counted(nodes, y, x) /\ Drawn(nodes, y)
        /\ y # top => Bounded(nodes, hs, y)
        /\ y \in Address /\ nodes[y].child \in SUBSET Address /\ y # None
      BY <1>2, <1>3 DEF Healthy
  <2>2. ASSUME y # top PROVE Bounded(after, hs, y)
    <3>1. ASSUME NEW c \in nodes[y].child
          PROVE  /\ after[c].index = nodes[c].index
                 /\ after[c].lower >= nodes[c].lower /\ after[c].upper <= nodes[c].upper
        BY <1>3, <1>5, <2>1, TypeFacts
    <3>2. Bounded(nodes, hs, y)  BY <2>1, <2>2
    <3> QED  BY <1>3, <1>4, <1>5, <2>1, <3>1, <3>2, BoundedKept
  <2> DEFINE V == VisitsOf(nodes, nodes[y].child)
             W == VisitsOf(after, after[y].child)
  <2>3. V \in Nat /\ nodes[y].n \in Nat /\ after[y].child = nodes[y].child
      BY <1>3, <1>5, <2>1, VisitsFacts
  <2>4. (x \notin nodes[y].child => W = V) /\ (x \in nodes[y].child => W = V + 1)
    <3>1. /\ x \notin nodes[y].child => VisitsOf(after, nodes[y].child) = V
          /\ x \in nodes[y].child => VisitsOf(after, nodes[y].child) = V + (after[x].n - nodes[x].n)
        BY <1>3, <1>4, <1>5, <2>1, VisitsChange
    <3>2. W = VisitsOf(after, nodes[y].child)  BY <2>3
    <3> HIDE DEF V, W
    <3> QED  BY <1>3, <1>6, <3>1, <3>2, TypeFacts
  <2>5. Counted(after, y, next)
    <3> SUFFICES ASSUME after[y].terminal = "no"
                 PROVE  IF y = next THEN after[y].edges # {} /\ after[y].n = W
                        ELSE IF after[y].edges = {} THEN after[y].n = 0
                        ELSE after[y].n = 1 + W
        BY DEF Counted
    <3>1. nodes[y].terminal = "no" /\ after[y].edges = nodes[y].edges  BY <1>5, <2>1
    <3>2. CASE y = x
      <4>1. nodes[y].edges # {} /\ nodes[y].n = V  BY <2>1, <3>1, <3>2 DEF Counted
      <4>2. x \notin nodes[y].child  BY <1>2, <1>3, <3>2, ChildFacts
      <4>3. y # next  BY <1>1, <1>3, <3>2, <4>2
      <4>4. after[y].n = 1 + W
        <5>1. after[y].n = nodes[y].n + 1 /\ W = V  BY <1>6, <2>4, <3>2, <4>2
        <5> HIDE DEF V, W
        <5> QED  BY <2>3, <4>1, <5>1
      <4> QED  BY <3>1, <4>1, <4>3, <4>4
    <3>3. CASE y # x /\ y = next
      <4>1. x \in nodes[y].child  BY <1>1, <2>1, <3>3
      <4>2. nodes[x].index \in nodes[y].edges  BY <1>2, <2>1, <4>1, ChildFacts
      <4>3. nodes[y].edges # {} /\ nodes[y].n = 1 + V  BY <2>1, <3>1, <3>3, <4>2 DEF Counted
      <4>4. after[y].n = W
        <5>1. after[y].n = nodes[y].n /\ W = V + 1  BY <1>5, <2>1, <2>4, <3>3, <4>1
        <5> HIDE DEF V, W
        <5> QED  BY <2>3, <4>3, <5>1
      <4> QED  BY <3>1, <3>3, <4>3, <4>4
    <3>4. CASE y # x /\ y # next  BY <1>5, <1>7, <2>1, <2>4, <3>1, <3>4 DEF Counted
    <3> QED  BY <3>2, <3>3, <3>4
  <2> QED  BY <1>5, <2>1, <2>2, <2>5 DEF Extended, Drawn
<1> QED  BY <1>3, <1>4, <1>5, <1>8, SearchedKept DEF Healthy

\* The children of a node move into a block: a search goes on with them in their new places.
LEMMA SearchRelocates ==
  ASSUME NEW start, NEW old, NEW top, NEW U, NEW nodes, NEW hs, NEW D, NEW due, NEW x \in D,
         Searched(start, old, top, U, nodes, hs, D, due),
         NEW S, nodes[x].child \subseteq S, due = None \/ (due \in D /\ due # x /\ due \notin S),
         NEW after, NEW to, NEW B, Relocated(nodes, after, x, S, to, B),
         NEW E, E = (D \ S) \cup B, NEW g, g = Rehomed(hs, after, x, B)
  PROVE  Searched(start, old, top, U, after, g, E, due)
<1>1. S = nodes[x].child  BY DEF Relocated
<1>2. /\ Forest(nodes, hs) /\ Arena(start, top, U, nodes, D) /\ Healthy(nodes, hs, D, top, due)
      /\ hs[top] = old[top] /\ \A y \in Address \ U : hs[y] = old[y]
    BY DEF Searched
<1>3. /\ D \in SUBSET Address /\ D \subseteq U /\ U \subseteq Address /\ top \in D /\ x \in Address
      /\ \A y \in D : y \in Address /\ y # None /\ nodes[y].used /\ nodes[y].child \subseteq D \ {top}
      /\ nodes \in [Address -> NodeType] /\ \A a \in Free(nodes) : a \in U \ D
    BY <1>2, ArenaFacts, NodeTreeAssumption DEF Forest
<1>4. /\ x \notin S /\ x \notin B /\ S \cap B = {} /\ S \subseteq Address /\ B \subseteq Address
      /\ \A y \in Address : \A c \in nodes[y].child : c \notin B /\ (y # x => c \notin S)
    BY <1>2, RelocatedFacts
<1>5. B \subseteq U /\ B \cap D = {} /\ S \subseteq D /\ top \notin S /\ top \notin B
    BY <1>1, <1>3 DEF Relocated
<1>6. ASSUME NEW y \in Address, y \notin B, y \notin S
      PROVE  /\ after[y].edges = nodes[y].edges /\ after[y].n = nodes[y].n
             /\ after[y].terminal = nodes[y].terminal /\ after[y].index = nodes[y].index
             /\ after[y].lower = nodes[y].lower /\ after[y].upper = nodes[y].upper
             /\ y # x => after[y].child = nodes[y].child
    BY <1>2, <1>6, Unmoved DEF SameNode
<1>7. \A z \in Address : /\ ChildOfNone(after, z) <=> z \notin B /\ (ChildOfNone(nodes, z) \/ z \in S)
                         /\ after[z].used <=> nodes[z].used \/ z \in B
    BY <1>1, <1>2, RelocatedRoots
<1>8. after \in [Address -> NodeType] /\ after[x].child = B  BY DEF Relocated
<1>9. ASSUME NEW b \in B
      PROVE  (\E s \in S : to[s] = b /\ after[b] = nodes[s])
             \/ (after[b].edges = {} /\ after[b].child = {} /\ after[b].n = 0
                 /\ after[b].terminal = "no" /\ after[b].lower = -1 /\ after[b].upper = 1)
    BY NewNodeFacts DEF Relocated
<1>10. \A s \in S : /\ to[s] \in B /\ after[to[s]] = nodes[s]
                    /\ after[s].child = {} /\ s # x /\ nodes[s].child \subseteq D \ {top}
                    /\ \A z \in nodes[s].child : z \in Address /\ z \notin S /\ z \notin B
    BY <1>3, <1>4, <1>5, NewNodeFacts DEF Relocated
<1>11. Forest(after, g)  BY <1>2, <1>3, ForestRelocated
<1>12. E = (D \ S) \cup B  OBVIOUS
<1>13. Arena(start, top, U, after, E)
  <2>1. E \subseteq U /\ top \in E  BY <1>3, <1>5, <1>12
  <2>2. ASSUME NEW y \in E PROVE after[y].used /\ after[y].child \subseteq E \ {top}
    <3>1. y \in Address  BY <1>3, <2>1
    <3>2. after[y].used  BY <1>3, <1>7, <1>12, <3>1
    <3>3. CASE y \in B  BY <1>9, <1>10, <1>12, <3>2, <3>3
    <3>4. CASE y = x  BY <1>5, <1>8, <1>12, <3>2, <3>4
    <3>5. CASE y \notin B /\ y # x  BY <1>3, <1>4, <1>6, <1>12, <3>1, <3>2, <3>5
    <3> QED  BY <3>3, <3>4, <3>5
  <2>3. ASSUME NEW y \in E \ {top} PROVE ~ChildOfNone(after, y)
      BY <1>2, <1>3, <1>7, <1>12, <2>1 DEF Arena
  <2>4. ASSUME NEW y \in U \ E PROVE after[y].child = {} /\ ChildOfNone(after, y)
      BY <1>2, <1>3, <1>6, <1>7, <1>10, <1>12 DEF Arena
  <2>5. ASSUME NEW y \in Address \ U
        PROVE  after[y] = start[y] /\ start[y].used /\ start[y].child \cap U \subseteq {top}
      BY <1>2, <1>3, <1>5, <1>10 DEF Arena, Relocated
  <2>6. after[top].index = start[top].index  BY <1>2, <1>3, <1>5, <1>6 DEF Arena
  <2> QED  BY <1>3, <2>1, <2>2, <2>3, <2>4, <2>5, <2>6 DEF Arena
<1>14. \A y \in Address : y \notin B => g[y] = hs[y]  BY DEF Rehomed
\* The children of a node that keeps them.
<1>15. ASSUME NEW y \in D, y # x, NEW z \in Address,
              after[z].edges = nodes[y].edges, after[z].n = nodes[y].n,
              after[z].terminal = nodes[y].terminal, after[z].lower = nodes[y].lower,
              after[z].upper = nodes[y].upper, after[z].child = nodes[y].child,
              g[z] = hs[y], y = due <=> z = due
       PROVE  /\ Extended(after, g, z) /\ Counted(after, z, due) /\ Drawn(after, z)
              /\ y # top => Bounded(after, g, z)
  <2>1. /\ Extended(nodes, hs, y) /\ Counted(nodes, y, due) /\ Drawn(nodes, y)
        /\ y # top => Bounded(nodes, hs, y)
        /\ y \in Address /\ nodes[y].child \in SUBSET Address
      BY <1>2, <1>3 DEF Healthy
  <2>2. \A c \in nodes[y].child : c \in Address /\ c \notin S /\ c \notin B
      BY <1>4, <1>15, <2>1
  <2>3. \A c \in nodes[y].child : after[c].n = nodes[c].n  BY <1>6, <2>2
  <2>4. VisitsOf(after, nodes[y].child) = VisitsOf(nodes, nodes[y].child)
      BY <1>3, <1>8, <2>1, <2>3, VisitsSame
  <2>5. ASSUME y # top PROVE Bounded(after, g, z)
    <3>1. ASSUME NEW c \in nodes[y].child
          PROVE  \E d \in after[z].child :
                   /\ after[d].index = nodes[c].index
                   /\ after[d].lower >= nodes[c].lower /\ after[d].upper <= nodes[c].upper
        BY <1>3, <1>6, <1>15, <2>2, TypeFacts
    <3>2. Bounded(nodes, hs, y)  BY <2>1, <2>5
    <3>3. nodes[y].child \subseteq Address /\ after[z].child \subseteq Address
        BY <1>15, <2>1
    <3> QED  BY <1>3, <1>8, <1>15, <2>1, <3>1, <3>2, <3>3, BoundedStays
  <2> QED  BY <1>15, <2>1, <2>4, <2>5 DEF Extended, Drawn, Counted
<1>16. ASSUME NEW y \in E
       PROVE  /\ Extended(after, g, y) /\ Counted(after, y, due) /\ Drawn(after, y)
              /\ y # top => Bounded(after, g, y)
  <2>1. y \in Address  BY <1>3, <1>4, <1>12
  <2>2. ASSUME y \in B, NEW s \in S, to[s] = y, after[y] = nodes[s]
        PROVE  /\ Extended(after, g, y) /\ Counted(after, y, due) /\ Drawn(after, y)
               /\ y # top => Bounded(after, g, y)
    <3>1. s \in D /\ s # x /\ s # top  BY <1>5, <1>10
    <3>2. g[y] = hs[s]  BY <1>1, <1>2, <1>3, <2>1, <2>2, ChildFacts DEF Rehomed
    <3>3. s = due <=> y = due  BY <1>3, <1>5, <2>1, <2>2, <3>1, NodeTreeAssumption
    <3> QED  BY <1>15, <2>1, <2>2, <3>1, <3>2, <3>3
  <2>3. ASSUME y \in B, after[y].edges = {}, after[y].child = {}, after[y].n = 0,
               after[y].terminal = "no", after[y].lower = -1, after[y].upper = 1
        PROVE  /\ Extended(after, g, y) /\ Counted(after, y, due) /\ Drawn(after, y)
               /\ Bounded(after, g, y)
    <3>1. y # due  BY <1>3, <1>5, <2>1, <2>3, NodeTreeAssumption
    <3> QED  BY <2>3, <3>1 DEF Extended, Counted, Drawn, Bounded
  <2>4. CASE y = x
    <3>1. /\ after[x].edges = nodes[x].edges /\ after[x].n = nodes[x].n
          /\ after[x].terminal = nodes[x].terminal
          /\ after[x].lower = nodes[x].lower /\ after[x].upper = nodes[x].upper
        BY <1>3, <1>4, <1>6
    <3>2. /\ Extended(nodes, hs, x) /\ Counted(nodes, x, due) /\ Drawn(nodes, x)
          /\ x # top => Bounded(nodes, hs, x)
        BY <1>2 DEF Healthy
    <3>3. g[x] = hs[x]  BY <1>3, <1>4, <1>14
    <3>4. VisitsOf(after, after[x].child) = VisitsOf(nodes, nodes[x].child)
        BY <1>1, <1>2, <1>8, VisitsMoved
    <3>5. Extended(after, g, x) /\ Drawn(after, x)  BY <3>1, <3>2, <3>3 DEF Extended, Drawn
    <3>6. Counted(after, x, due)  BY <3>1, <3>2, <3>4 DEF Counted
    <3>7. ASSUME x # top PROVE Bounded(after, g, x)
      <4>1. ASSUME NEW c \in nodes[x].child
            PROVE  \E d \in after[x].child :
                     /\ after[d].index = nodes[c].index
                     /\ after[d].lower >= nodes[c].lower /\ after[d].upper <= nodes[c].upper
        <5>1. c \in Address /\ to[c] \in B /\ after[to[c]] = nodes[c]  BY <1>4, <1>10
        <5> QED  BY <1>3, <1>8, <5>1, TypeFacts
      <4>2. nodes[x].child \subseteq Address /\ after[x].child \subseteq Address
          BY <1>4, <1>8
      <4>3. Bounded(nodes, hs, x)  BY <3>2, <3>7
      <4> QED  BY <1>3, <1>8, <3>1, <3>3, <4>1, <4>2, <4>3, BoundedStays
    <3> QED  BY <2>4, <3>5, <3>6, <3>7
  <2>5. CASE y \notin B /\ y # x  BY <1>6, <1>12, <1>14, <1>15, <2>1, <2>5
  <2> QED  BY <1>9, <2>2, <2>3, <2>4, <2>5
<1>17. g[top] = old[top] /\ \A y \in Address \ U : g[y] = old[y]  BY <1>2, <1>3, <1>5, <1>14
<1> QED  BY <1>11, <1>13, <1>16, <1>17 DEF Searched, Healthy

\* Where a node was made solid, it and those that are not below it are where they were.
Solidified(nodes, after, x, D, E) ==
  /\ x \in E /\ SameNode(after[x], nodes[x]) /\ after[x].parent = nodes[x].parent
  /\ \A y \in D : y # x /\ y \notin nodes[x].child =>
       y \in E /\ SameNode(after[y], nodes[y]) /\ after[y].child = nodes[y].child

\* A node that is due a visit is not one of those that move.
Waits(nodes, D, x, due) == due = None \/ (due \in D /\ due # x /\ due \notin nodes[x].child)

\* A node becomes solid, if it does.
LEMMA SearchSolidifies ==
  ASSUME NEW start, NEW old, NEW top, NEW U, NEW nodes, NEW hs, NEW D, NEW due, NEW x \in D,
         Searched(start, old, top, U, nodes, hs, D, due),
         Waits(nodes, D, x, due),
         NEW after, after = Solidify(nodes, x)
  PROVE  \E g, E : Searched(start, old, top, U, after, g, E, due) /\ Solidified(nodes, after, x, D, E)
<1>1. Forest(nodes, hs) /\ Arena(start, top, U, nodes, D)  BY DEF Searched
<1>2. x \in Address /\ nodes[x].used /\ D \subseteq Address /\ nodes[x].edges \subseteq Move
    BY <1>1, ArenaFacts, TypeFacts DEF Forest
<1>3. CASE after = nodes  BY <1>3 DEF Solidified, SameNode
<1>4. CASE /\ after = MakeSolid(nodes, x)
           /\ ~(Cardinality(Free(nodes)) < Cardinality(nodes[x].edges))
  <2>1. Cardinality(nodes[x].edges) <= Cardinality(Free(nodes))
      BY <1>2, <1>4, NodeTreeAssumption, FS_Subset, FS_CardinalityType DEF Free
  <2>2. PICK B, to : Relocated(nodes, after, x, nodes[x].child, to, B)
      BY <1>1, <1>2, <1>4, <2>1, MakeSolidMoves
  <2> DEFINE S == nodes[x].child
             E == (D \ S) \cup B
             g == Rehomed(hs, after, x, B)
  <2>3. Relocated(nodes, after, x, S, to, B) /\ nodes[x].child \subseteq S
        /\ (due = None \/ (due \in D /\ due # x /\ due \notin S))
      BY <2>2 DEF Waits
  <2>4. E = (D \ S) \cup B /\ g = Rehomed(hs, after, x, B)  OBVIOUS
  <2>5. x \notin S  BY <1>1, <2>2, RelocatedFacts
  <2>6. S = nodes[x].child  OBVIOUS
  <2> HIDE DEF S, E, g
  <2>7. Searched(start, old, top, U, after, g, E, due)  BY <2>3, <2>4, SearchRelocates
  <2>8. Solidified(nodes, after, x, D, E)
    <3>1. ASSUME NEW y \in D, y # x, y \notin nodes[x].child
          PROVE  y \in E /\ SameNode(after[y], nodes[y]) /\ after[y].child = nodes[y].child
      <4>1. y \in Address /\ y \in E /\ y \notin S  BY <1>2, <2>4, <2>6, <3>1
      <4>2. y \notin B  BY <1>1, <2>3, RelocatedFacts, ArenaFacts
      <4> QED  BY <1>1, <2>3, <3>1, <4>1, <4>2, Unmoved
    <3> QED  BY <2>2, <2>4, <2>5, <3>1 DEF Solidified, Relocated
  <2> QED  BY <2>7, <2>8
<1> QED  BY <1>3, <1>4 DEF Solidify

-----------------------------------------------------------------------------
\* The part of the path that still waits for the visit.
Down(nodes, D, top, q, j) ==
  /\ q \in Seq(Address) /\ j \in 1..Len(q) /\ q[1] = top
  /\ \A i \in 1..j : q[i] \in D
  /\ \A i \in 1..(j - 1) : q[i + 1] \in nodes[q[i]].child

\* Nodes further up are not below.
LEMMA DownFacts ==
  ASSUME NEW start, NEW U, NEW nodes, NEW hs, Forest(nodes, hs), NEW D, NEW top,
         Arena(start, top, U, nodes, D), NEW q, NEW j, Down(nodes, D, top, q, j)
  PROVE  /\ j \in Nat /\ j >= 1 /\ q[j] \in D /\ q[j] \in Address
         /\ j = 1 => q[j] = top
         /\ j # 1 => /\ j - 1 \in 1..Len(q) /\ q[j - 1] \in D /\ q[j] \in nodes[q[j - 1]].child
                     /\ nodes[q[j]].parent = q[j - 1]
         /\ \A i \in 1..(j - 1) : q[i] # q[j] /\ q[i] \notin nodes[q[j]].child
<1>1. D \in SUBSET Address /\ \A y \in D : nodes[y].used  BY ArenaFacts
<1> DEFINE r == [i \in 1..j |-> q[i]]
<1>2. /\ q \in Seq(Address) /\ j \in 1..Len(q) /\ j \in Nat /\ j >= 1 /\ q[1] = top
      /\ \A i \in 1..j : q[i] \in D /\ q[i] \in Address
      /\ \A i \in 1..(j - 1) : q[i + 1] \in nodes[q[i]].child
    BY <1>1 DEF Down
<1>3. r \in Seq(Address) /\ Len(r) = j /\ \A i \in 1..j : r[i] = q[i]  BY <1>2
<1> HIDE DEF r
<1>4. Chain(nodes, top, r)  BY <1>2, <1>3 DEF Chain
<1>5. /\ \A i \in 1..j : Len(hs[q[i]]) \in Nat /\ Len(hs[q[i]]) = Len(hs[top]) + (i - 1)
      /\ \A i, k \in 1..j : q[i] = q[k] => i = k
      /\ Len(hs[top]) \in Nat
  <2>1. /\ \A i \in 1..Len(r) : Len(hs[r[i]]) \in Nat /\ Len(hs[r[i]]) = Len(hs[top]) + (i - 1)
        /\ \A i, k \in 1..Len(r) : r[i] = r[k] => i = k
      BY <1>1, <1>2, <1>4, ChainFacts
  <2>2. \A i \in 1..j : Len(hs[q[i]]) \in Nat /\ Len(hs[q[i]]) = Len(hs[top]) + (i - 1)
      BY <1>3, <2>1
  <2> QED  BY <1>2, <1>3, <2>1, <2>2
<1>6. ASSUME NEW i \in 1..(j - 1) PROVE q[i] # q[j] /\ q[i] \notin nodes[q[j]].child
  <2>1. i \in 1..j /\ j \in 1..j /\ i # j /\ i < j  BY <1>2
  <2>2. ASSUME q[i] \in nodes[q[j]].child PROVE FALSE
    <3>1. Len(hs[q[i]]) = Len(hs[q[j]]) + 1  BY <1>2, <2>1, <2>2, ChildFacts
    <3>2. Len(hs[top]) + (i - 1) = (Len(hs[top]) + (j - 1)) + 1  BY <1>5, <2>1, <3>1
    <3> QED  BY <1>2, <1>5, <2>1, <3>2
  <2> QED  BY <1>5, <2>1, <2>2
<1>7. j # 1 => /\ j - 1 \in 1..Len(q) /\ q[j - 1] \in D /\ q[j] \in nodes[q[j - 1]].child
               /\ nodes[q[j]].parent = q[j - 1]
    BY <1>2, ChildFacts
<1> QED  BY <1>2, <1>6, <1>7

\* The next node upwards is the one that is due a visit then.
Above(q, j) == IF j = 1 THEN None ELSE q[j - 1]

\* What waits for the visit is still a path, one node shorter.
LEMMA DownStays ==
  ASSUME NEW nodes, NEW D, NEW top, NEW q, NEW j, Down(nodes, D, top, q, j), j # 1,
         NEW after, NEW E,
         \A i \in 1..(j - 1) : q[i] \in E /\ after[q[i]].child = nodes[q[i]].child
  PROVE  Down(after, E, top, q, j - 1)
BY DEF Down

\* One step of the backup.
LEMMA BackupStep ==
  ASSUME NEW start, NEW old, NEW top, NEW U, NEW acc, NEW hs, NEW D, NEW q, NEW j,
         Searched(start, old, top, U, acc.nodes, hs, D, q[j]), current_head_ = top,
         Down(acc.nodes, D, top, q, j), NEW result, result = BackupOne(acc, q[j])
  PROVE  \E g, E : /\ Searched(start, old, top, U, result.nodes, g, E, Above(q, j))
                   /\ j # 1 => Down(result.nodes, E, top, q, j - 1)
<1> DEFINE nodes == acc.nodes
           x == q[j]
           next == Above(q, j)
           visited == [nodes EXCEPT ![x].n = @ + 1]
           solid == Solidify(visited, x)
           p == solid[x].parent
<1>1. /\ Searched(start, old, top, U, nodes, hs, D, x) /\ Down(nodes, D, top, q, j)
      /\ next = Above(q, j) /\ visited = [nodes EXCEPT ![x].n = @ + 1]
      /\ solid = Solidify(visited, x) /\ p = solid[x].parent /\ x = q[j]
    OBVIOUS
<1>2. \/ /\ result.nodes = SetBounds(solid, p)
         /\ x # current_head_ /\ p # current_head_ /\ solid[p].terminal = "no"
      \/ result.nodes = solid
    BY DEF BackupOne
<1> HIDE DEF nodes, next, visited, solid, p
<1>3. Forest(nodes, hs) /\ Arena(start, top, U, nodes, D)  BY <1>1 DEF Searched
<1>4. /\ D \in SUBSET Address /\ top \in D /\ top \in Address
      /\ \A y \in D : nodes[y].used /\ nodes[y].child \subseteq D \ {top}
    BY <1>3, ArenaFacts
<1>5. /\ j \in Nat /\ j >= 1 /\ x \in D /\ x \in Address
      /\ j = 1 => x = top
      /\ j # 1 => /\ q[j - 1] \in D /\ x \in nodes[q[j - 1]].child /\ nodes[x].parent = q[j - 1]
      /\ \A i \in 1..(j - 1) : q[i] # x /\ q[i] \notin nodes[x].child
    BY <1>1, <1>3, <1>4, DownFacts
<1> HIDE DEF x
<1>6. /\ Parental(nodes, D, top, x, next)
      /\ j # 1 => next = q[j - 1]
    BY <1>1, <1>5 DEF Above, Parental
<1>7. Visited(nodes, visited, x)
  <2>1. nodes \in [Address -> NodeType]  BY <1>3 DEF Forest
  <2> QED  BY <1>1, <1>5, <2>1, VisitPoints
<1>8. /\ Searched(start, old, top, U, visited, hs, D, next)
      /\ \A y \in Address : visited[y].child = nodes[y].child /\ visited[y].parent = nodes[y].parent
    BY <1>1, <1>5, <1>6, <1>7, SearchVisits
<1>9. Waits(visited, D, x, next)  BY <1>1, <1>5, <1>6, <1>8 DEF Above, Waits
<1>10. PICK g, E : Searched(start, old, top, U, solid, g, E, next) /\ Solidified(visited, solid, x, D, E)
    BY <1>1, <1>5, <1>8, <1>9, SearchSolidifies
<1>11. /\ p = visited[x].parent /\ x \in E
       /\ \A i \in 1..(j - 1) :
            q[i] \in D => q[i] \in E /\ SameNode(solid[q[i]], visited[q[i]]) /\ solid[q[i]].child = nodes[q[i]].child
  <2>1. ASSUME NEW i \in 1..(j - 1), q[i] \in D
        PROVE  q[i] \in E /\ SameNode(solid[q[i]], visited[q[i]]) /\ solid[q[i]].child = nodes[q[i]].child
      BY <1>4, <1>5, <1>8, <1>10, <2>1 DEF Solidified
  <2>2. p = visited[x].parent /\ x \in E  BY <1>1, <1>10 DEF Solidified
  <2> QED  BY <2>1, <2>2
<1>12. \A i \in 1..(j - 1) : q[i] \in D /\ q[i] \in E /\ solid[q[i]].child = nodes[q[i]].child
  <2>1. \A i \in 1..j : q[i] \in D  BY <1>1 DEF Down
  <2> QED  BY <1>5, <1>11, <2>1
<1>13. CASE result.nodes = solid
  <2>1. j # 1 => Down(solid, E, top, q, j - 1)  BY <1>1, <1>12, DownStays
  <2> QED  BY <1>1, <1>10, <1>13, <2>1
<1>14. CASE result.nodes = SetBounds(solid, p) /\ x # top /\ p # top /\ solid[p].terminal = "no"
  <2>1. j # 1 /\ j - 1 \in 1..(j - 1) /\ p = q[j - 1]  BY <1>5, <1>8, <1>11, <1>14
  <2>2. p \in E /\ solid[p].child = nodes[p].child /\ x \in solid[p].child
      BY <1>5, <1>12, <2>1
  <2>3. solid[p].edges # {}  BY <1>10, <2>2, ArenaFacts, ChildFacts DEF Searched
  <2>4. /\ Searched(start, old, top, U, result.nodes, g, E, next)
        /\ \A y \in Address : result.nodes[y].child = solid[y].child
      BY <1>10, <1>14, <2>2, <2>3, SearchBounds
  <2>5. \A i \in 1..(j - 1) : q[i] \in E /\ result.nodes[q[i]].child = nodes[q[i]].child
      BY <1>4, <1>12, <2>4
  <2> QED  BY <1>1, <2>1, <2>4, <2>5, DownStays
<1> QED  BY <1>2, <1>13, <1>14

-----------------------------------------------------------------------------
Backed(nodes, path, first, f) ==
  f = [k \in 0..Len(path) |->
         IF k = 0 THEN [nodes |-> nodes, update_parent_bounds |-> first]
         ELSE BackupOne(f[k - 1], path[Len(path) + 1 - k])]

\* The recursion of Backup() has a solution.
LEMMA BackedExists ==
  ASSUME NEW nodes, NEW path, Len(path) \in Nat, NEW first
  PROVE  \E f : Backed(nodes, path, first, f)
<1> DEFINE h == [nodes |-> nodes, update_parent_bounds |-> first]
           On(f, n) == f = [k \in 0..n |-> IF k = 0 THEN h ELSE BackupOne(f[k - 1], path[Len(path) + 1 - k])]
           S == {n \in Nat : ~ \E f : On(f, n)}
<1>1. SUFFICES ASSUME S # {} PROVE FALSE  BY DEF Backed
<1>2. PICK n \in S : \A m \in S : n <= m
  <2>1. S \in SUBSET Nat  OBVIOUS
  <2> HIDE DEF S
  <2> QED  BY <1>1, <2>1, SmallestNumber
<1>3. n # 0
  <2> DEFINE g == [k \in 0..0 |-> h]
  <2>1. On(g, 0)  OBVIOUS
  <2> QED  BY <2>1
<1>4. n - 1 \in Nat /\ n - 1 \notin S
  <2>1. n \in Nat  OBVIOUS
  <2> HIDE DEF S
  <2> QED  BY <1>2, <1>3, <2>1
<1>5. PICK f : On(f, n - 1)  BY <1>4
<1> DEFINE g == [k \in 0..n |-> IF k = n THEN BackupOne(f[n - 1], path[Len(path) + 1 - n]) ELSE f[k]]
<1>6. ASSUME NEW k \in 0..n
      PROVE  g[k] = IF k = 0 THEN h ELSE BackupOne(g[k - 1], path[Len(path) + 1 - k])
    BY <1>3, <1>4, <1>5
<1>7. DOMAIN g = 0..n  OBVIOUS
<1>8. On(g, n)
  <2> HIDE DEF g
  <2> QED  BY <1>6 DEF g
<1> QED  BY <1>8


\* A visit is backed up: nothing is due one any more.
LEMMA SearchBacksUp ==
  ASSUME NEW start, NEW old, NEW top, NEW U, NEW nodes, NEW hs, NEW D, NEW c,
         Searched(start, old, top, U, nodes, hs, D, c), current_head_ = top,
         NEW q, Chain(nodes, top, q), c = q[Len(q)], NEW after, after = Backup(nodes, c)
  PROVE  \E g, E : Searched(start, old, top, U, after, g, E, None)
<1> DEFINE first == StickyEndgames /\ nodes[c].terminal # "no" /\ nodes[c].n = 0
           backed == CHOOSE f : Backed(nodes, q, first, f)
           n == Len(q)
<1>1. Forest(nodes, hs) /\ Arena(start, top, U, nodes, D)  BY DEF Searched
<1>2. top \in Address /\ nodes[top].used /\ top \in D /\ \A x \in D : nodes[x].child \subseteq D
    BY <1>1, ArenaFacts
<1>3. /\ n \in Nat /\ n >= 1 /\ q \in Seq(Address) /\ q[1] = top
      /\ \A i \in 1..(n - 1) : q[i + 1] \in nodes[q[i]].child
    BY DEF Chain
<1>4. Path(nodes, current_head_, c) = q  BY <1>1, <1>2, ChainPath
<1>5. after = backed[n].nodes  BY <1>4 DEF Backup, Backed
<1>6. Backed(nodes, q, first, backed)
  <2> HIDE DEF first
  <2>1. \E f : Backed(nodes, q, first, f)  BY <1>3, BackedExists
  <2> QED  BY <2>1
<1> HIDE DEF first, backed
<1>7. /\ backed[0].nodes = nodes
      /\ \A k \in 1..n : backed[k] = BackupOne(backed[k - 1], q[n + 1 - k])
    BY <1>3, <1>6 DEF Backed
<1> DEFINE Good(k) == \E g, E : /\ Searched(start, old, top, U, backed[k].nodes, g, E,
                                             IF k = n THEN None ELSE q[n - k])
                                /\ k # n => Down(backed[k].nodes, E, top, q, n - k)
           Bad == {k \in 0..n : ~Good(k)}
<1>8. Good(0)
  <2>1. n - 0 = n /\ n # 0 /\ n \in 1..n  BY <1>3
  <2>2. Down(backed[0].nodes, D, top, q, n - 0)
      BY <1>2, <1>3, <1>7, <2>1, ChainInside DEF Down
  <2> QED  BY <1>7, <2>1, <2>2
<1>9. ASSUME NEW k \in 1..n, Good(k - 1) PROVE Good(k)
  <2> DEFINE j == n + 1 - k
             acc == backed[k - 1]
  <2>1. j = n + 1 - k /\ j = n - (k - 1) /\ k - 1 # n /\ (j = 1 <=> k = n) /\ j - 1 = n - k
        /\ acc = backed[k - 1]
      BY <1>3
  <2> HIDE DEF j, acc
  <2>2. PICK g, E : /\ Searched(start, old, top, U, backed[k - 1].nodes, g, E,
                                IF k - 1 = n THEN None ELSE q[n - (k - 1)])
                    /\ k - 1 # n => Down(backed[k - 1].nodes, E, top, q, n - (k - 1))
      BY <1>9
  <2>3. Searched(start, old, top, U, acc.nodes, g, E, q[j]) /\ Down(acc.nodes, E, top, q, j)
      BY <2>1, <2>2
  <2> DEFINE result == backed[k]
  <2>4. result = BackupOne(acc, q[j])  BY <1>7, <2>1
  <2> HIDE DEF result
  <2>5. PICK h, F : /\ Searched(start, old, top, U, result.nodes, h, F, Above(q, j))
                    /\ j # 1 => Down(result.nodes, F, top, q, j - 1)
      BY <2>3, <2>4, BackupStep
  <2>6. Above(q, j) = IF k = n THEN None ELSE q[n - k]  BY <2>1 DEF Above
  <2>7. k # n => Down(backed[k].nodes, F, top, q, n - k)  BY <2>1, <2>5 DEF result
  <2> QED  BY <2>5, <2>6, <2>7 DEF result
<1>10. Bad = {}
  <2> SUFFICES ASSUME Bad # {} PROVE FALSE  OBVIOUS
  <2>1. \A k \in Bad : k \in 0..n /\ ~Good(k)  OBVIOUS
  <2>2. \A k \in 0..n : k \notin Bad => Good(k)  OBVIOUS
  <2> HIDE DEF Good, Bad
  <2>3. PICK k \in Bad : \A i \in Bad : k <= i  BY <2>1, SmallestNumber
  <2> QED  BY <1>8, <1>9, <2>1, <2>2, <2>3
<1> QED  BY <1>3, <1>5, <1>10

-----------------------------------------------------------------------------
(* Before and after a search.                                              *)

\* What a search finds below its root.
LEMMA ArenaAround ==
  ASSUME NEW hs, Forest(node, hs), NEW top \in Address, NEW D \in SUBSET Address, top \in D,
         \A T \in SUBSET Address : top \in T /\ Closed(node, T) => D \subseteq T,
         Closed(node, D), \A x \in D : node[x].used,
         \A y \in D \ {top} : \E x \in D : y \in node[x].child,
         NEW U \in SUBSET Address, \A a \in Address : a \in U <=> a \in Free(node) \/ a \in D
  PROVE  Arena(node, top, U, node, D)
<1>1. /\ D \in SUBSET Address /\ top \in D /\ Closed(node, D)
      /\ \A T \in SUBSET Address : top \in T /\ Closed(node, T) => D \subseteq T
    OBVIOUS
<1>2. \A x \in D : node[x].used  OBVIOUS
<1>3. \A y \in D \ {top} : \E x \in D : y \in node[x].child  OBVIOUS
<1>4. \A x \in D : top \notin node[x].child
  <2> DEFINE T == {y \in D : Len(hs[y]) >= Len(hs[top])}
  <2>1. \A x \in D : x \in Address /\ node[x].child \subseteq D  BY <1>1 DEF Closed
  <2>2. \A x \in D : Len(hs[x]) \in Nat  BY <1>1, <1>2 DEF Forest, Histories, Linked
  <2>3. Closed(node, T)  BY <1>1, <2>1, <2>2, ChildFacts DEF Closed
  <2>4. D \subseteq T  BY <1>1, <2>2, <2>3
  <2>5. ASSUME NEW x \in D, top \in node[x].child PROVE FALSE
      BY <1>1, <2>1, <2>2, <2>4, <2>5, ChildFacts
  <2> QED  BY <2>5
<1>5. U \subseteq Address /\ D \subseteq U  BY <1>1 DEF Free
<1>6. ASSUME NEW x \in D PROVE node[x].used /\ node[x].child \subseteq D \ {top}
    BY <1>1, <1>2, <1>4 DEF Closed
<1>7. ASSUME NEW x \in D \ {top} PROVE ~ChildOfNone(node, x)  BY <1>1, <1>3 DEF ChildOfNone
<1>8. ASSUME NEW x \in U \ D PROVE node[x].child = {} /\ ChildOfNone(node, x)  BY FreeFacts
<1>9. ASSUME NEW x \in Address \ U
      PROVE  node[x] = node[x] /\ node[x].used /\ node[x].child \cap U \subseteq {top}
    BY <1>1, <1>3, <1>5, ChildFacts DEF Free
<1> QED  BY <1>1, <1>5, <1>6, <1>7, <1>8, <1>9 DEF Arena

\* A search starts with what is below the head and the free memory.
LEMMA SearchStarts ==
  ASSUME NEW hs, Forest(node, hs), NEW top \in Address, node[top].used,
         NEW D, D = Subtree(node, {top}), NEW U, U = Free(node) \cup D
  PROVE  /\ Arena(node, top, U, node, D)
         /\ Healthy(node, hs, D, top, None) => Searched(node, hs, top, U, node, hs, D, None)
<1> DEFINE B == Subtree(node, {top})
<1>1. {top} \in SUBSET Address /\ \A a \in {top} : node[a].used  OBVIOUS
<1>2. /\ B \in SUBSET Address /\ {top} \subseteq B /\ Closed(node, B)
      /\ \A T \in SUBSET Address : {top} \subseteq T /\ Closed(node, T) => B \subseteq T
    BY <1>1, SubtreeFacts
<1>3. \A x \in B : node[x].used  BY <1>1, SubtreeUsed
<1>4. \A y \in B \ {top} : \E x \in B : y \in node[x].child  BY <1>1, SubtreeFromAbove
<1>5. D = B  OBVIOUS
<1> HIDE DEF B
<1>6. /\ D \in SUBSET Address /\ top \in D /\ Closed(node, D) /\ \A x \in D : node[x].used
      /\ \A T \in SUBSET Address : top \in T /\ Closed(node, T) => D \subseteq T
      /\ \A y \in D \ {top} : \E x \in D : y \in node[x].child
    BY <1>2, <1>3, <1>4, <1>5
<1>7. U \in SUBSET Address /\ \A a \in Address : a \in U <=> a \in Free(node) \/ a \in D
    BY <1>6 DEF Free
<1>8. Arena(node, top, U, node, D)  BY <1>6, <1>7, ArenaAround
<1> QED  BY <1>8 DEF Searched

\* What is below the root afterwards is what the search knows.
LEMMA SearchedSubtree ==
  ASSUME NEW start, NEW old, NEW top, NEW U, NEW nodes, NEW hs, NEW D, NEW due,
         Searched(start, old, top, U, nodes, hs, D, due)
  PROVE  Subtree(nodes, {top}) = D
<1>1. Forest(nodes, hs) /\ Arena(start, top, U, nodes, D)  BY DEF Searched
<1>2. /\ D \in SUBSET Address /\ D \subseteq U /\ top \in D /\ top \in Address
      /\ \A x \in D : nodes[x].used /\ nodes[x].child \subseteq D
    BY <1>1, ArenaFacts
<1> DEFINE T == Subtree(nodes, {top})
<1>3. T \in SUBSET Address /\ top \in T /\ Closed(nodes, T)
      /\ \A V \in SUBSET Address : top \in V /\ Closed(nodes, V) => T \subseteq V
    BY <1>1, <1>2, SubtreeFacts
<1> HIDE DEF T
<1>4. ASSUME NEW y \in D, y \notin T PROVE \E x \in D : x \notin T /\ y \in nodes[x].child
    BY <1>1, <1>2, <1>3, <1>4 DEF Arena, ChildOfNone, Closed
<1>5. ASSUME NEW z \in D, z \notin T PROVE FALSE
  <2> DEFINE lengths == {Len(hs[y]) : y \in {y \in D : y \notin T}}
  <2>1. \A y \in D : Len(hs[y]) \in Nat  BY <1>1, <1>2 DEF Forest, Histories, Linked
  <2>2. lengths \in SUBSET Nat /\ lengths # {}  BY <1>5, <2>1
  <2>3. PICK l \in lengths : \A k \in lengths : l <= k
    <3> HIDE DEF lengths
    <3> QED  BY <2>2, SmallestNumber
  <2>4. PICK y \in D : y \notin T /\ l = Len(hs[y])  OBVIOUS
  <2>5. PICK x \in D : x \notin T /\ y \in nodes[x].child  BY <1>4, <2>4
  <2>6. Len(hs[x]) \in lengths  BY <2>5
  <2> HIDE DEF lengths
  <2>7. Len(hs[y]) = Len(hs[x]) + 1  BY <1>1, <1>2, <2>5, ChildFacts
  <2> QED  BY <2>1, <2>3, <2>4, <2>6, <2>7
<1>6. T = D  BY <1>2, <1>3, <1>5 DEF Closed
<1> QED  BY <1>6 DEF T

\* The nodes in the part of the search, other than its root, are not owned by others.
Left(U, D, after, E, shells) ==
  /\ \A a \in U : a \in D \/ a \in Free(node)
  /\ \A e \in shells : \E a \in U : e = {a} /\ after[a].used /\ a \notin E
  /\ \A a \in U : after[a].used /\ a \notin E => {a} \in shells

\* After a search the shells it left are garbage, and all else belongs where it did.
LEMMA SearchOwners ==
  ASSUME NEW hs, Forest(node, hs), NEW top \in Address, node[top].used,
         NEW D, NEW U, Arena(node, top, U, node, D),
         NEW garbage, NEW root, Owners(node, garbage, root),
         NEW after, NEW g, NEW E, Searched(node, hs, top, U, after, g, E, None),
         NEW shells, Left(U, D, after, E, shells)
  PROVE  Owners(after, garbage \cup shells, root)
<1>1. /\ \A a \in U : a \in D \/ a \in Free(node)
      /\ \A e \in shells : \E a \in U : e = {a} /\ after[a].used /\ a \notin E
      /\ \A a \in U : after[a].used /\ a \notin E => {a} \in shells
    BY DEF Left
<1> USE <1>1
<1>2. Arena(node, top, U, node, D) /\ Arena(node, top, U, after, E) /\ Forest(after, g)
    BY DEF Searched
<1>3. /\ U \subseteq Address /\ D \subseteq U /\ E \subseteq U /\ top \in D /\ top \in E
      /\ \A x \in D : node[x].child \subseteq D \ {top}
      /\ \A x \in E : after[x].used /\ after[x].child \subseteq E \ {top}
    BY <1>2 DEF Arena
<1>4. ASSUME NEW a \in U, a # top PROVE a # root /\ \A e \in garbage : a \notin e
    BY <1>2, <1>3, <1>4 DEF Arena, Free, Owners
<1>5. ASSUME NEW a \in Address, a = top \/ a \notin U
      PROVE  ChildOfNone(after, a) <=> ChildOfNone(node, a)
    BY <1>2, <1>3, <1>5 DEF Arena, ChildOfNone
<1>6. ASSUME NEW a \in Address
      PROVE  after[a].used /\ ChildOfNone(after, a)
               <=> a = root \/ \E e \in garbage \cup shells : a \in e
  <2>1. CASE a = top \/ a \notin U  BY <1>2, <1>3, <1>5, <2>1 DEF Arena, Owners
  <2>2. CASE a \in E /\ a # top  BY <1>2, <1>3, <1>4, <2>2 DEF Arena
  <2>3. CASE a \in U /\ a \notin E
    <3>1. (\E e \in shells : a \in e) <=> after[a].used  BY <2>3
    <3> QED  BY <1>2, <1>3, <1>4, <2>3, <3>1 DEF Arena
  <2> QED  BY <2>1, <2>2, <2>3
<1>7. ASSUME NEW e \in garbage \cup shells, NEW f \in garbage \cup shells, e # f
      PROVE  e \cap f = {}
  <2>1. \A s \in shells : \E a \in U : s = {a} /\ a # top  BY <1>3
  <2>2. ASSUME e \in shells, f \in shells PROVE e \cap f = {}
    <3>1. PICK a \in U : e = {a}  BY <2>1, <2>2
    <3>2. PICK b \in U : f = {b}  BY <2>1, <2>2
    <3> QED  BY <1>7, <3>1, <3>2
  <2> QED  BY <1>4, <1>7, <2>1, <2>2 DEF Owners
<1>8. ASSUME NEW e \in garbage \cup shells PROVE root \notin e  BY <1>3, <1>4 DEF Owners
<1> QED  BY <1>3, <1>6, <1>7, <1>8 DEF Owners

-----------------------------------------------------------------------------
(* A playout.                                                              *)

\* A path stays one when nodes get more children.
LEMMA ChainSame ==
  ASSUME NEW nodes, NEW top, NEW q, Chain(nodes, top, q), q \in Seq(Address), NEW after,
         \A y \in Address : nodes[y].child \subseteq after[y].child
  PROVE  Chain(after, top, q)
BY DEF Chain

\* From the node that was picked: extension and backup.
LEMMA SearchEnds ==
  ASSUME NEW start, NEW old, NEW top, NEW U, NEW nodes, NEW hs, NEW D,
         Searched(start, old, top, U, nodes, hs, D, None), current_head_ = top, history_ = old[top],
         NEW q, Chain(nodes, top, q), NEW c, c = q[Len(q)],
         nodes[c].terminal = "no" => nodes[c].n = 0,
         NEW extended, extended = IF nodes[c].terminal = "no" THEN Extend(nodes, c) ELSE nodes,
         NEW after, after = Backup(extended, c)
  PROVE  \E g, E : Searched(start, old, top, U, after, g, E, None)
<1>1. history_ = hs[top] /\ q \in Seq(Address)  BY DEF Searched, Chain
<1>2. /\ Searched(start, old, top, U, extended, hs, D, c)
      /\ \A y \in Address : extended[y].child = nodes[y].child
    BY <1>1, SearchExtends
<1> QED  BY <1>1, <1>2, SearchBacksUp, ChainSame

\* From a node that may be a draw no more.
LEMMA SearchPlays ==
  ASSUME NEW start, NEW old, NEW top, NEW U, NEW nodes, NEW hs, NEW D,
         Searched(start, old, top, U, nodes, hs, D, None), current_head_ = top, history_ = old[top],
         NEW q, Chain(nodes, top, q), NEW c, c = q[Len(q)],
         \A i \in 1..(Len(q) - 1) : Inner(nodes, q[i]),
         nodes[c].terminal = "no" => nodes[c].n = 0,
         NEW right, right = Correct(nodes, c),
         NEW extended, extended = IF right[c].terminal = "no" THEN Extend(right, c) ELSE right,
         NEW after, after = Backup(extended, c)
  PROVE  \E g, E : Searched(start, old, top, U, after, g, E, None)
<1>1. /\ Searched(start, old, top, U, right, hs, D, None)
      /\ \A y \in Address : right[y].child = nodes[y].child
      /\ right = nodes \/ (right[c].terminal = "no" /\ right[c].n = 0)
    BY SearchCorrects
<1>2. Chain(right, top, q)  BY <1>1, ChainSame DEF Chain
<1> QED  BY <1>1, <1>2, SearchEnds

\* A node at an edge has been found or made.
Found(nodes, spawned, x, m, D) ==
  /\ ChildAt(spawned, x, m) # {}
  /\ \A c \in ChildAt(spawned, x, m) : /\ c \in spawned[x].child /\ c \in Address
                                       /\ spawned[c] = nodes[c] \/ spawned[c].n = 0
  /\ \A y \in Address : nodes[y].child \subseteq spawned[y].child
  /\ \A y \in D : spawned[y].n = nodes[y].n /\ spawned[y].terminal = nodes[y].terminal

\* The descent of a playout ends at a node, new or not.
LEMMA SearchFinds ==
  ASSUME NEW hs, NEW top, NEW U, NEW D, Searched(node, hs, top, U, node, hs, D, None),
         NEW x \in D, NEW m \in node[x].edges, Free(node) # {},
         NEW a, a = Min(Free(node)), NEW spawned, spawned = Spawn(node, x, m, a)
  PROVE  /\ \E g, E : Searched(node, hs, top, U, spawned, g, E, None)
         /\ Found(node, spawned, x, m, D)
<1>1. Forest(node, hs) /\ Arena(node, top, U, node, D)  BY DEF Searched
<1>2. /\ D \subseteq Address /\ node \in [Address -> NodeType]
      /\ \A y \in D : node[y].used
    BY <1>1, ArenaFacts DEF Forest
<1>3. /\ x \in Address /\ node[x].used /\ node[x].edges \subseteq Move
      /\ \A y \in Address : node[y].child \subseteq Address
    BY <1>2, TypeFacts
<1>4. CASE ChildAt(node, x, m) # {}  BY <1>3, <1>4 DEF Spawn, ChildAt, Found
<1>5. CASE ChildAt(node, x, m) = {}
  <2> DEFINE g == With(hs, a, AppendMove(hs[x], m))
             E == D \cup {a}
  <2>1. a \in Free(node)  BY NodeTreeAssumption, MinIsLeast DEF Free
  <2>2. /\ a \in Address /\ a # x /\ spawned[a] = NewNode(x, m)
        /\ spawned[x].child = node[x].child \cup {a}
        /\ spawned[x].n = node[x].n /\ spawned[x].terminal = node[x].terminal
        /\ \A y \in Address \ {a, x} : spawned[y] = node[y]
      BY <1>1, <1>3, <1>5, <2>1, SpawnPoints
  <2>3. Searched(node, hs, top, U, spawned, g, E, None)  BY <1>5, <2>1, SearchSpawns
  <2>4. spawned[a].n = 0 /\ spawned[a].index = m  BY <2>2, NewNodeFacts
  <2>5. /\ ChildAt(spawned, x, m) # {}
        /\ \A c \in ChildAt(spawned, x, m) : c \in spawned[x].child /\ c \in Address
      BY <1>3, <2>2, <2>4 DEF ChildAt
  <2>6. \A c \in ChildAt(spawned, x, m) : spawned[c] = node[c] \/ spawned[c].n = 0
      BY <1>1, <1>3, <2>2, <2>4, ChildFacts DEF ChildAt
  <2>7. \A y \in Address : node[y].child \subseteq spawned[y].child
      BY <1>1, <2>1, <2>2, FreeFacts
  <2>8. \A y \in D : spawned[y].n = node[y].n /\ spawned[y].terminal = node[y].terminal
      BY <1>2, <2>1, <2>2 DEF Free
  <2> QED  BY <2>3, <2>5, <2>6, <2>7, <2>8 DEF Found
<1> QED  BY <1>4, <1>5

\* So a whole playout is such a search.
LEMMA PlayoutSearches ==
  ASSUME NEW hs, Forest(node, hs), NEW top \in Address, node[top].used,
         current_head_ = top, history_ = hs[top],
         NEW D, D = Subtree(node, {top}), Healthy(node, hs, D, top, None),
         NEW U, U = Free(node) \cup D, Playout
  PROVE  \E g, E : Searched(node, hs, top, U, node', g, E, None)
<1>1. Searched(node, hs, top, U, node, hs, D, None)  BY SearchStarts
<1>2. node \in [Address -> NodeType] /\ \A y \in Address : node[y].n \in Nat
    BY TypeFacts DEF Forest
<1>3. Free(node) # {}
  <2>1. ASSUME Free(node) = {} PROVE FALSE
    <3> HIDE DEF Free
    <3> QED  BY <2>1, NodeTreeAssumption, FS_CardinalityType, FS_EmptySet DEF Playout
  <2> QED  BY <2>1
<1>4. CASE /\ ~Inner(node, current_head_)
           /\ LET extended == IF node[current_head_].terminal = "no"
                                THEN Extend(node, current_head_) ELSE node
              IN node' = Backup(extended, current_head_)
  <2> DEFINE q == <<top>>
             extended == IF node[top].terminal = "no" THEN Extend(node, top) ELSE node
  <2>1. Chain(node, top, q) /\ top = q[Len(q)]  BY DEF Chain
  <2>2. node[top].terminal = "no" => node[top].n = 0  BY <1>2, <1>4 DEF Inner
  <2>3. node' = Backup(extended, top)  BY <1>4
  <2>4. extended = IF node[top].terminal = "no" THEN Extend(node, top) ELSE node  OBVIOUS
  <2> HIDE DEF q, extended
  <2> QED  BY <1>1, <2>1, <2>2, <2>3, <2>4, SearchEnds
<1>5. ASSUME NEW x \in Subtree(node, {current_head_}), NEW m \in node[x].edges,
             \A y \in ToSet(Path(node, current_head_, x)) : Inner(node, y),
             LET spawned == Spawn(node, x, m, Min(Free(node)))
                 c == CHOOSE c \in ChildAt(spawned, x, m) : TRUE
                 right == Correct(spawned, c)
                 extended == IF right[c].terminal = "no" THEN Extend(right, c) ELSE right
             IN /\ ~Inner(node, c)
                /\ node' = Backup(extended, c)
      PROVE  \E g, E : Searched(node, hs, top, U, node', g, E, None)
  <2> DEFINE a == Min(Free(node))
             spawned == Spawn(node, x, m, a)
             c == CHOOSE c \in ChildAt(spawned, x, m) : TRUE
             right == Correct(spawned, c)
             extended == IF right[c].terminal = "no" THEN Extend(right, c) ELSE right
  <2>1. ~Inner(node, c) /\ node' = Backup(extended, c)  BY <1>5
  <2>2. /\ a = Min(Free(node)) /\ spawned = Spawn(node, x, m, a) /\ right = Correct(spawned, c)
        /\ extended = IF right[c].terminal = "no" THEN Extend(right, c) ELSE right
      OBVIOUS
  <2>3. ChildAt(spawned, x, m) # {} => c \in ChildAt(spawned, x, m)  OBVIOUS
  <2> HIDE DEF a, spawned, c, right, extended
  <2>4. x \in D /\ x \in Subtree(node, {top})  OBVIOUS
  <2>5. /\ \E g, E : Searched(node, hs, top, U, spawned, g, E, None)
        /\ Found(node, spawned, x, m, D)
      BY <1>1, <1>3, <2>2, <2>4, SearchFinds
  <2>6. /\ c \in spawned[x].child /\ c \in Address
        /\ spawned[c].terminal = "no" => spawned[c].n = 0
      BY <1>2, <2>1, <2>3, <2>5 DEF Found, Inner
  <2>7. PICK p : Chain(node, top, p) /\ p[Len(p)] = x  BY <2>4, ChainExists
  <2>8. /\ p \in Seq(Address) /\ Len(p) \in Nat /\ Len(p) >= 1 /\ p[1] = top
        /\ \A i \in 1..Len(p) : p[i] \in Address
        /\ \A i \in 1..(Len(p) - 1) : p[i + 1] \in node[p[i]].child
      BY <2>7 DEF Chain
  <2>9. \A i \in 1..Len(p) : p[i] \in D
    <3>1. Arena(node, top, U, node, D)  BY <1>1 DEF Searched
    <3>2. top \in D /\ \A y \in D : node[y].child \subseteq D  BY <3>1 DEF Arena
    <3> QED  BY <2>7, <3>2, ChainInside
  <2>10. \A i \in 1..Len(p) : Inner(spawned, p[i])
    <3>1. \A i \in 1..Len(p) : Inner(node, p[i])  BY <1>5, <2>7, <2>8, ChainPath DEF ToSet
    <3> QED  BY <2>5, <2>9, <3>1 DEF Found, Inner
  <2> DEFINE q == Append(p, c)
  <2>11. /\ q \in Seq(Address) /\ Len(q) = Len(p) + 1 /\ q[Len(q)] = c
         /\ \A i \in 1..Len(p) : q[i] = p[i]
      BY <2>6, <2>8
  <2> HIDE DEF q
  <2>12. Chain(spawned, top, q)  BY <2>5, <2>6, <2>7, <2>8, <2>11 DEF Found, Chain
  <2>13. \A i \in 1..(Len(q) - 1) : Inner(spawned, q[i])  BY <2>8, <2>10, <2>11
  <2> QED  BY <2>1, <2>2, <2>5, <2>6, <2>11, <2>12, <2>13, SearchPlays
<1> QED  BY <1>4, <1>5 DEF Playout

-----------------------------------------------------------------------------
(* The nodes of the game.                                                  *)

\* From the root on each node has one child, kept apart, and the k-th is the head.
Line(nodes, hs, root, start, q, k) ==
  /\ q \in Seq(Address) /\ k \in 1..Len(q) /\ q[1] = root /\ hs[root] = <<start>>
  /\ \A i \in 1..(Len(q) - 1) : nodes[q[i]].child = {q[i + 1]} /\ ~nodes[q[i]].solid

\* What is known of the nodes of a line.
LEMMA LineFacts ==
  ASSUME NEW nodes, NEW hs, Forest(nodes, hs), NEW root, nodes[root].used, NEW start, NEW q, NEW k,
         Line(nodes, hs, root, start, q, k)
  PROVE  /\ Len(q) \in Nat /\ Len(q) >= 1 /\ k \in Nat /\ k >= 1 /\ k <= Len(q)
         /\ Chain(nodes, root, q) /\ root \in Address
         /\ \A i \in 1..Len(q) : q[i] \in Address /\ nodes[q[i]].used
         /\ \A i, j \in 1..Len(q) : q[i] = q[j] => i = j
         /\ \A i \in 1..(Len(q) - 1) : nodes[q[i + 1]].index \in Move /\ nodes[q[i + 1]].parent = q[i]
<1>1. /\ q \in Seq(Address) /\ k \in 1..Len(q) /\ q[1] = root
      /\ \A i \in 1..(Len(q) - 1) : nodes[q[i]].child = {q[i + 1]}
    BY DEF Line
<1>2. Len(q) \in Nat /\ Len(q) >= 1 /\ k \in Nat /\ k >= 1 /\ k <= Len(q) /\ root \in Address
    BY <1>1
<1>3. Chain(nodes, root, q)  BY <1>1, <1>2 DEF Chain
<1> QED  BY <1>2, <1>3, ChainFacts

\* What a line needs: its nodes below the j-th may be forgotten.
Along(nodes, hs, after, g, q, j) ==
  /\ g[q[1]] = hs[q[1]]
  /\ \A i \in 1..j : after[q[i]].index = nodes[q[i]].index
  /\ \A i \in 1..(j - 1) : /\ after[q[i]].child = nodes[q[i]].child
                           /\ after[q[i]].solid = nodes[q[i]].solid

\* The places of a longer sequence.
LEMMA AppendAt ==
  ASSUME NEW T, NEW s \in Seq(T), NEW t \in T
  PROVE  /\ Append(s, t) \in Seq(T) /\ Len(Append(s, t)) = Len(s) + 1
         /\ \A i \in 1..Len(s) : Append(s, t)[i] = s[i]
         /\ Append(s, t)[Len(s) + 1] = t
OBVIOUS

\* The nodes of a line down to the j-th, and one more.
Prefix(q, j, r) == r \in Seq(Address) /\ Len(r) = j /\ \A i \in 1..j : r[i] = q[i]
Longer(q, k, d, r) ==
  r \in Seq(Address) /\ Len(r) = k + 1 /\ r[k + 1] = d /\ \A i \in 1..k : r[i] = q[i]

\* There are such sequences.
LEMMA PrefixExists ==
  ASSUME NEW q \in Seq(Address), NEW j \in 1..Len(q)
  PROVE  /\ \E r : Prefix(q, j, r)
         /\ Prefix(q, Len(q), q)
         /\ \A d \in Address : \E r : Longer(q, j, d, r)
<1> DEFINE p == SubSeq(q, 1, j)
<1>1. Prefix(q, j, p)  BY DEF Prefix
<1> HIDE DEF p
<1>2. ASSUME NEW d \in Address PROVE Longer(q, j, d, Append(p, d))
    BY <1>1, AppendAt DEF Prefix, Longer
<1> QED  BY <1>1, <1>2 DEF Prefix

\* A line that is cut off below its j-th node.
LEMMA LineKept ==
  ASSUME NEW nodes, NEW hs, NEW root, NEW start, NEW q, NEW k, Line(nodes, hs, root, start, q, k),
         NEW j \in k..Len(q), NEW after, NEW g, Along(nodes, hs, after, g, q, j),
         NEW r, Prefix(q, j, r)
  PROVE  Line(after, g, root, start, r, k) /\ MovesOf(after, r, k) = MovesOf(nodes, q, k)
<1>1. /\ q \in Seq(Address) /\ k \in 1..Len(q) /\ q[1] = root /\ hs[root] = <<start>>
      /\ Len(q) \in Nat /\ k \in Nat /\ k >= 1 /\ j \in Nat /\ j >= k /\ j <= Len(q)
      /\ \A i \in 1..(Len(q) - 1) : nodes[q[i]].child = {q[i + 1]} /\ ~nodes[q[i]].solid
  <2>1. /\ q \in Seq(Address) /\ k \in 1..Len(q) /\ q[1] = root /\ hs[root] = <<start>>
        /\ \A i \in 1..(Len(q) - 1) : nodes[q[i]].child = {q[i + 1]} /\ ~nodes[q[i]].solid
      BY DEF Line
  <2>2. Len(q) \in Nat /\ k \in Nat /\ k >= 1  BY <2>1
  <2> QED  BY <2>1, <2>2
<1>2. r \in Seq(Address) /\ Len(r) = j /\ \A i \in 1..j : r[i] = q[i]  BY DEF Prefix
<1>3. ASSUME NEW i \in 1..(j - 1) PROVE after[r[i]].child = {r[i + 1]} /\ ~after[r[i]].solid
  <2>1. i \in 1..(Len(q) - 1) /\ i \in 1..j /\ i + 1 \in 1..j  BY <1>1
  <2>2. nodes[q[i]].child = {q[i + 1]} /\ ~nodes[q[i]].solid  BY <1>1, <2>1
  <2> QED  BY <1>2, <2>1, <2>2 DEF Along
<1>4. k \in 1..Len(r) /\ r[1] = root /\ g[root] = <<start>>  BY <1>1, <1>2 DEF Along
<1>5. \A i \in 1..(k - 1) : after[r[i + 1]].index = nodes[q[i + 1]].index
    BY <1>1, <1>2 DEF Along
<1> QED  BY <1>2, <1>3, <1>4, <1>5 DEF Line, MovesOf

\* The head moves on, to a child that becomes the only one.
LEMMA LineGrows ==
  ASSUME NEW nodes, NEW hs, NEW root, NEW start, NEW q, NEW k, Line(nodes, hs, root, start, q, k),
         NEW after, NEW g, Along(nodes, hs, after, g, q, k),
         NEW d \in Address, after[q[k]].child = {d}, ~after[q[k]].solid,
         NEW r, Longer(q, k, d, r), NEW m, after[d].index = m
  PROVE  /\ Line(after, g, root, start, r, k + 1)
         /\ MovesOf(after, r, k + 1) = Append(MovesOf(nodes, q, k), m)
<1>1. /\ q \in Seq(Address) /\ k \in 1..Len(q) /\ k \in Nat /\ k >= 1 /\ k \in k..Len(q)
      /\ q[1] = root
    BY DEF Line
<1>2. PICK p : Prefix(q, k, p)  BY <1>1, PrefixExists
<1>3. Line(after, g, root, start, p, k) /\ MovesOf(after, p, k) = MovesOf(nodes, q, k)
    BY <1>1, <1>2, LineKept
<1>4. /\ r \in Seq(Address) /\ Len(r) = k + 1 /\ r[k + 1] = d /\ Len(p) = k
      /\ \A i \in 1..k : r[i] = q[i] /\ p[i] = q[i]
    BY <1>2 DEF Prefix, Longer
<1>5. /\ g[root] = <<start>> /\ p[1] = root
      /\ \A i \in 1..(k - 1) : after[p[i]].child = {p[i + 1]} /\ ~after[p[i]].solid
    BY <1>3, <1>4 DEF Line
<1>6. ASSUME NEW i \in 1..k PROVE after[r[i]].child = {r[i + 1]} /\ ~after[r[i]].solid
  <2>1. CASE i = k  BY <1>1, <1>4, <2>1
  <2>2. CASE i # k
    <3>1. i \in 1..(k - 1) /\ i + 1 \in 1..k  BY <1>1, <2>2
    <3>2. r[i] = p[i] /\ r[i + 1] = p[i + 1]  BY <1>4, <3>1
    <3> QED  BY <1>5, <3>1, <3>2
  <2> QED  BY <2>1, <2>2
<1>7. Line(after, g, root, start, r, k + 1)
  <2>1. k + 1 \in 1..Len(r) /\ r[1] = root /\ Len(r) - 1 = k  BY <1>1, <1>4
  <2> QED  BY <1>4, <1>5, <1>6, <2>1 DEF Line
<1>8. MovesOf(after, r, k + 1) = Append(MovesOf(after, p, k), m)
  <2> DEFINE a == MovesOf(after, r, k + 1)
             b == MovesOf(after, p, k)
             T == {after[r[i + 1]].index : i \in 1..k}
  <2>1. a = [i \in 1..k |-> after[r[i + 1]].index] /\ b = [i \in 1..(k - 1) |-> after[p[i + 1]].index]
      BY <1>1 DEF MovesOf
  <2>2. \A i \in 1..(k - 1) : i \in 1..k /\ i + 1 \in 1..k /\ p[i + 1] = r[i + 1]
      BY <1>1, <1>4
  <2>3. \A i \in 1..k : after[r[i + 1]].index \in T  OBVIOUS
  <2>4. b = [i \in 1..(k - 1) |-> after[r[i + 1]].index]  BY <2>1, <2>2
  <2>5. m \in T /\ k - 1 + 1 = k /\ after[r[k + 1]].index = m /\ k - 1 \in Nat
      BY <1>1, <1>4
  <2> HIDE DEF a, b, T
  <2>6. a \in Seq(T) /\ Len(a) = k /\ \A i \in 1..k : a[i] = after[r[i + 1]].index
      BY <1>1, <2>1, <2>3
  <2>7. b \in Seq(T) /\ Len(b) = k - 1 /\ \A i \in 1..(k - 1) : b[i] = after[r[i + 1]].index
      BY <2>2, <2>3, <2>4, <2>5
  <2>8. Append(b, m) \in Seq(T) /\ Len(Append(b, m)) = k /\ \A i \in 1..(k - 1) : Append(b, m)[i] = b[i]
        /\ Append(b, m)[k] = m
      BY <2>5, <2>7, AppendAt
  <2>9. ASSUME NEW i \in 1..k PROVE a[i] = Append(b, m)[i]
    <3>1. CASE i = k  BY <2>5, <2>6, <2>8, <3>1
    <3>2. CASE i # k
      <4>1. i \in 1..(k - 1)  BY <1>1, <3>2
      <4> QED  BY <2>6, <2>7, <2>8, <4>1
    <3> QED  BY <3>1, <3>2
  <2> QED  BY <2>6, <2>8, <2>9, SeqEqual DEF a, b
<1> QED  BY <1>3, <1>7, <1>8

-----------------------------------------------------------------------------
(* Nodes that a move leaves as they were.                                  *)

Alike(nodes, hs, y, after, g, z) ==
  /\ after[z].edges = nodes[y].edges /\ after[z].n = nodes[y].n
  /\ after[z].terminal = nodes[y].terminal
  /\ after[z].lower = nodes[y].lower /\ after[z].upper = nodes[y].upper
  /\ after[z].child = nodes[y].child /\ g[z] = hs[y]
  /\ \A c \in nodes[y].child : /\ after[c].n = nodes[c].n /\ after[c].index = nodes[c].index
                               /\ after[c].lower = nodes[c].lower /\ after[c].upper = nodes[c].upper

\* The root of the next search, whose bounds do not matter.
Sound(nodes, hs, x) == Extended(nodes, hs, x) /\ Counted(nodes, x, None) /\ Drawn(nodes, x)

\* Nodes that are like healthy ones are healthy.
LEMMA HealthyAs ==
  ASSUME NEW nodes \in [Address -> NodeType], NEW after \in [Address -> NodeType],
         NEW hs, NEW g, NEW D \in SUBSET Address, NEW E \in SUBSET Address, NEW top, NEW head,
         Healthy(nodes, hs, D, top, None),
         \A z \in E \ {head} : \E y \in D \ {top} : Alike(nodes, hs, y, after, g, z),
         Sound(after, g, head)
  PROVE  Healthy(after, g, E, head, None)
<1>1. ASSUME NEW z \in E, z # head
      PROVE  Extended(after, g, z) /\ Counted(after, z, None) /\ Drawn(after, z) /\ Bounded(after, g, z)
  <2>1. PICK y \in D \ {top} : Alike(nodes, hs, y, after, g, z)  BY <1>1
  <2>2. y \in Address /\ z \in Address /\ y # None /\ z # None  BY NodeTreeAssumption
  <2>3. nodes[y].child \in SUBSET Address /\ after[z].child \in SUBSET Address
      BY <2>2, TypeFacts
  <2>4. Extended(nodes, hs, y) /\ Counted(nodes, y, None) /\ Drawn(nodes, y) /\ Bounded(nodes, hs, y)
      BY <2>1 DEF Healthy
  <2>5. /\ after[z].edges = nodes[y].edges /\ after[z].n = nodes[y].n
        /\ after[z].terminal = nodes[y].terminal
        /\ after[z].lower = nodes[y].lower /\ after[z].upper = nodes[y].upper
        /\ after[z].child = nodes[y].child /\ g[z] = hs[y]
        /\ \A c \in nodes[y].child : after[c].n = nodes[c].n
      BY <2>1 DEF Alike
  <2>6. Counted(after, z, None)  BY <2>2, <2>3, <2>4, <2>5, VisitsSame DEF Counted
  <2>7. ASSUME NEW c \in nodes[y].child
        PROVE  \E d \in after[z].child :
                 /\ after[d].index = nodes[c].index
                 /\ after[d].lower >= nodes[c].lower /\ after[d].upper <= nodes[c].upper
      BY <2>1, <2>3, <2>5, TypeFacts DEF Alike
  <2>8. nodes[y].child \subseteq Address /\ after[z].child \subseteq Address  BY <2>3
  <2>9. Bounded(after, g, z)  BY <2>2, <2>4, <2>5, <2>7, <2>8, BoundedStays
  <2> QED  BY <2>4, <2>5, <2>6, <2>9 DEF Extended, Drawn
<1> QED  BY <1>1 DEF Healthy, Sound

\* A node that is nothing yet.
LEMMA NewSound ==
  ASSUME NEW nodes, NEW hs, NEW x \in Address, nodes[x].edges = {}, nodes[x].n = 0,
         nodes[x].terminal = "no"
  PROVE  Sound(nodes, hs, x)
BY NodeTreeAssumption DEF Sound, Extended, Counted, Drawn

\* If the next head was the end of a game for the last search, it is not any more.
Opened(nodes, c) == IF nodes[c].terminal = "no" THEN nodes ELSE MakeNotTerminal(nodes, c)

\* A node that is no end of the game any more.
LEMMA SetOpen ==
  ASSUME NEW p \in NodeType, NEW q, q = [p EXCEPT !.terminal = "no"]
  PROVE  /\ q \in NodeType /\ q.terminal = "no"
         /\ q.used = p.used /\ q.parent = p.parent /\ q.index = p.index
         /\ q.edges = p.edges /\ q.child = p.child /\ q.solid = p.solid
         /\ q.lower = p.lower /\ q.upper = p.upper
BY DEF NodeType

Reopened(nodes, after, c) ==
  /\ after \in [Address -> NodeType] /\ \A y \in Address \ {c} : after[y] = nodes[y]
  /\ after[c].used = nodes[c].used /\ after[c].parent = nodes[c].parent
  /\ after[c].index = nodes[c].index /\ after[c].edges = nodes[c].edges
  /\ after[c].child = nodes[c].child /\ after[c].solid = nodes[c].solid
  /\ after[c].lower = nodes[c].lower /\ after[c].upper = nodes[c].upper
  /\ after[c].terminal = "no"
  /\ after = nodes \/ after[c].n = IF nodes[c].edges = {} THEN 0
                                   ELSE 1 + VisitsOf(nodes, nodes[c].child)

\* MakeNotTerminal, where it is called, counts the visits of the children again.
LEMMA OpenPoints ==
  ASSUME NEW nodes, NEW hs, Forest(nodes, hs), NEW c \in Address, nodes[c].used,
         NEW after, after = Opened(nodes, c)
  PROVE  Reopened(nodes, after, c)
<1>1. nodes \in [Address -> NodeType] /\ nodes[c] \in NodeType  BY DEF Forest
<1>2. CASE nodes[c].terminal = "no"  BY <1>1, <1>2 DEF Opened, Reopened
<1>3. CASE nodes[c].terminal # "no"
  <2> DEFINE v == IF nodes[c].edges = {} THEN 0 ELSE 1 + VisitsOf(nodes, nodes[c].child)
             p == [nodes[c] EXCEPT !.terminal = "no"]
             r == [p EXCEPT !.n = v]
  <2>1. after = [nodes EXCEPT ![c] = r]
    <3>1. after = MakeNotTerminal(nodes, c)  BY <1>3 DEF Opened
    <3> QED  BY <3>1 DEF MakeNotTerminal
  <2>2. v \in Nat  BY <1>1, TypeFacts, VisitsFacts
  <2>3. /\ p \in NodeType /\ p.terminal = "no"
        /\ p.used = nodes[c].used /\ p.parent = nodes[c].parent /\ p.index = nodes[c].index
        /\ p.edges = nodes[c].edges /\ p.child = nodes[c].child /\ p.solid = nodes[c].solid
        /\ p.lower = nodes[c].lower /\ p.upper = nodes[c].upper
    <3>1. PICK o : o = nodes[c]  OBVIOUS
    <3>2. o \in NodeType /\ p = [o EXCEPT !.terminal = "no"]  BY <1>1, <3>1
    <3> HIDE DEF p, v, r
    <3>3. p \in NodeType /\ p.terminal = "no"  BY <3>2, SetOpen
    <3>4. /\ p.used = o.used /\ p.parent = o.parent /\ p.index = o.index
          /\ p.edges = o.edges /\ p.child = o.child /\ p.solid = o.solid
          /\ p.lower = o.lower /\ p.upper = o.upper
        BY <3>2, SetOpen
    <3> QED  BY <3>1, <3>3, <3>4
  <2> HIDE DEF v, p
  <2>4. /\ r \in NodeType /\ r.n = v /\ r.terminal = p.terminal
        /\ r.used = p.used /\ r.parent = p.parent /\ r.index = p.index
        /\ r.edges = p.edges /\ r.child = p.child /\ r.solid = p.solid
        /\ r.lower = p.lower /\ r.upper = p.upper
    <3>1. r = [p EXCEPT !.n = v]  OBVIOUS
    <3> HIDE DEF r
    <3> QED  BY <2>2, <2>3, <3>1, SetVisits
  <2> HIDE DEF r
  <2>5. after \in [Address -> NodeType] /\ after[c] = r /\ \A y \in Address \ {c} : after[y] = nodes[y]
      BY <1>1, <2>1, <2>4
  <2>6. v = IF nodes[c].edges = {} THEN 0 ELSE 1 + VisitsOf(nodes, nodes[c].child)  BY DEF v
  <2> QED  BY <2>3, <2>4, <2>5, <2>6 DEF Reopened
<1> QED  BY <1>2, <1>3

\* So the next root is right.
LEMMA OpenFacts ==
  ASSUME NEW nodes, NEW hs, Forest(nodes, hs), NEW c \in Address, nodes[c].used,
         NEW after, after = Opened(nodes, c)
  PROVE  /\ Forest(after, hs)
         /\ Extended(nodes, hs, c) /\ Counted(nodes, c, None) => Sound(after, hs, c)
<1>1. /\ after \in [Address -> NodeType] /\ \A y \in Address \ {c} : after[y] = nodes[y]
      /\ after[c].used = nodes[c].used /\ after[c].parent = nodes[c].parent
      /\ after[c].index = nodes[c].index /\ after[c].edges = nodes[c].edges
      /\ after[c].child = nodes[c].child /\ after[c].terminal = "no"
      /\ after = nodes \/ after[c].n = IF nodes[c].edges = {} THEN 0
                                       ELSE 1 + VisitsOf(nodes, nodes[c].child)
  <2>1. Reopened(nodes, after, c)  BY OpenPoints
  <2> QED  BY <2>1 DEF Reopened
<1>2. Forest(after, hs)
  <2>1. ASSUME NEW x \in Address
        PROVE  /\ after[x].used = nodes[x].used /\ after[x].parent = nodes[x].parent
               /\ after[x].index = nodes[x].index /\ after[x].child \subseteq nodes[x].child
               /\ ~nodes[x].used => after[x] = nodes[x]
               /\ after[x].edges = nodes[x].edges
               /\ \A d \in after[x].child : nodes[d].index \in after[x].edges
    <3>1. \A d \in nodes[x].child : nodes[d].index \in nodes[x].edges  BY ChildFacts
    <3>2. CASE x = c  BY <1>1, <3>1, <3>2
    <3>3. CASE x # c  BY <1>1, <3>1, <3>3
    <3> QED  BY <3>2, <3>3
  <2> QED  BY <1>1, <2>1, ForestKept
<1>3. ASSUME Extended(nodes, hs, c), Counted(nodes, c, None) PROVE Sound(after, hs, c)
  <2>1. nodes \in [Address -> NodeType] /\ nodes[c].child \in SUBSET Address /\ c # None
      BY TypeFacts, NodeTreeAssumption DEF Forest
  <2>2. Counted(after, c, None)  BY <1>1, <1>3, <2>1, VisitsSame, ChildFacts DEF Counted
  <2> QED  BY <1>1, <1>3, <2>2 DEF Sound, Extended, Drawn
<1> QED  BY <1>2, <1>3

\* Nodes that are like sound ones are sound.
LEMMA SoundAs ==
  ASSUME NEW nodes \in [Address -> NodeType], NEW after \in [Address -> NodeType],
         NEW hs, NEW g, NEW y \in Address, NEW z \in Address, Sound(nodes, hs, y),
         Alike(nodes, hs, y, after, g, z)
  PROVE  Sound(after, g, z)
<1>1. /\ after[z].edges = nodes[y].edges /\ after[z].n = nodes[y].n
      /\ after[z].terminal = nodes[y].terminal
      /\ after[z].child = nodes[y].child /\ g[z] = hs[y]
      /\ \A c \in nodes[y].child : after[c].n = nodes[c].n
    BY DEF Alike
<1>2. Extended(nodes, hs, y) /\ Counted(nodes, y, None) /\ Drawn(nodes, y)  BY DEF Sound
<1>3. Counted(after, z, None)
    BY <1>1, <1>2, VisitsSame, TypeFacts, NodeTreeAssumption DEF Counted
<1> QED  BY <1>1, <1>2, <1>3 DEF Sound, Extended, Drawn

\* All children of a node are queued, and another one has come.
LEMMA OwnersMoved ==
  ASSUME NEW nodes, NEW hs, Forest(nodes, hs), NEW after, NEW garbage, NEW root,
         Owners(nodes, garbage, root), NEW x \in Address, NEW a \in Free(nodes),
         \A z \in Address : after[z].used <=> nodes[z].used \/ z = a,
         \A z \in Address :
           ChildOfNone(after, z) <=> z # a /\ (ChildOfNone(nodes, z) \/ z \in nodes[x].child),
         NEW more, more = IF nodes[x].child = {} THEN garbage ELSE garbage \cup {nodes[x].child}
  PROVE  Owners(after, more, root)
BY ChildFacts, FreeFacts DEF ChildOfNone, Owners

\* A new node is the only child.
Grown(spawned, after, x, a) ==
  /\ after \in [Address -> NodeType]
  /\ \A y \in Address \ {x} : after[y] = spawned[y]
  /\ after[x].used = spawned[x].used /\ after[x].parent = spawned[x].parent
  /\ after[x].index = spawned[x].index /\ after[x].edges = spawned[x].edges
  /\ after[x].child = {a} /\ ~after[x].solid

\* The new node belongs to the forest, ...
LEMMA ForestGrown ==
  ASSUME NEW nodes, NEW hs, Forest(nodes, hs), NEW x \in Address, nodes[x].used,
         NEW m \in nodes[x].edges, ChildAt(nodes, x, m) = {}, NEW a \in Free(nodes),
         NEW spawned, spawned = Spawn(nodes, x, m, a), NEW after, Grown(spawned, after, x, a)
  PROVE  /\ Forest(after, With(hs, a, AppendMove(hs[x], m)))
         /\ a # x /\ after[a] = NewNode(x, m)
         /\ \A y \in Address \ {x, a} : after[y] = nodes[y]
         /\ after[x].index = nodes[x].index
<1>1. /\ a \in Address /\ a # x /\ spawned[a] = NewNode(x, m)
      /\ spawned[x].child = nodes[x].child \cup {a} /\ spawned[x].index = nodes[x].index
      /\ spawned[x].used
      /\ \A y \in Address \ {a, x} : spawned[y] = nodes[y]
    BY SpawnPoints DEF Forest, NodeType
<1>2. Forest(spawned, With(hs, a, AppendMove(hs[x], m)))  BY ForestSpawn
<1>3. ASSUME NEW y \in Address
      PROVE  /\ after[y].used = spawned[y].used /\ after[y].parent = spawned[y].parent
             /\ after[y].index = spawned[y].index /\ after[y].child \subseteq spawned[y].child
             /\ ~spawned[y].used => after[y] = spawned[y]
             /\ after[y].edges = spawned[y].edges
             /\ \A c \in after[y].child : spawned[c].index \in after[y].edges
  <2>1. \A c \in spawned[y].child : spawned[c].index \in spawned[y].edges
      BY <1>2, ChildFacts
  <2>2. CASE y = x  BY <1>1, <2>1, <2>2 DEF Grown
  <2>3. CASE y # x  BY <2>1, <2>3 DEF Grown
  <2> QED  BY <2>2, <2>3
<1>4. Forest(after, With(hs, a, AppendMove(hs[x], m)))
  <2> DEFINE g == With(hs, a, AppendMove(hs[x], m))
  <2> HIDE DEF g
  <2> QED  BY <1>2, <1>3, ForestKept DEF g, Grown
<1> QED  BY <1>1, <1>4 DEF Grown

\* ... and those that were there before are garbage.
LEMMA OwnersGrown ==
  ASSUME NEW nodes, NEW hs, Forest(nodes, hs), NEW x \in Address, nodes[x].used,
         NEW m \in Move, NEW a \in Free(nodes), NEW after,
         after[a] = NewNode(x, m), after[x].child = {a}, after[x].used,
         \A y \in Address \ {x, a} : after[y] = nodes[y],
         NEW garbage, NEW root, Owners(nodes, garbage, root),
         NEW more, more = IF nodes[x].child = {} THEN garbage ELSE garbage \cup {nodes[x].child}
  PROVE  Owners(after, more, root)
<1>1. /\ a \in Address /\ ~nodes[a].used /\ nodes[a].child = {} /\ ChildOfNone(nodes, a) /\ a # x
    BY FreeFacts
<1>2. after[a].used /\ after[a].child = {}  BY NewNodeFacts
<1>3. ASSUME NEW z \in Address
      PROVE  ChildOfNone(after, z) <=> z # a /\ (ChildOfNone(nodes, z) \/ z \in nodes[x].child)
    BY <1>1, <1>2, ChildFacts DEF ChildOfNone
<1> QED  BY <1>1, <1>2, <1>3, OwnersMoved

-----------------------------------------------------------------------------
(* The invariant.                                                          *)

\* The nodes D hold the end of the line and what is below it, ready for a search.
Ready(nodes, hs, q, D) ==
  /\ D \subseteq Address /\ q[Len(q)] \in D /\ Closed(nodes, D)
  /\ \A i \in 1..(Len(q) - 1) : q[i] \notin D
  /\ Healthy(nodes, hs, D, q[Len(q)], None)

\* The line leads to the head by the moves made. It goes on only while the caller asks for
\* an earlier position of the same game, and until it is known that the old head is left.
Standing(hs, q, k) ==
  /\ Line(node, hs, gamebegin_node_, game.startpos, q, k)
  /\ q[k] = current_head_ /\ history_ = hs[q[k]] /\ history_[1] = game.startpos
  /\ game.moves = MovesOf(node, q, k) \o todo
  /\ \/ k = Len(q)
     \/ pc \in {"moving", "finish"} /\ resetting /\ ~seen_old_head /\ q[Len(q)] = old_head
  /\ pc \in {"idle", "finish"} => todo = <<>>
  /\ pc = "create" => /\ node[current_head_].edges = {} /\ node[current_head_].child = {}
                      /\ ~node[current_head_].solid

InGame(hs, q, k, D) == Standing(hs, q, k) /\ (pc # "create" => Ready(node, hs, q, D))

Owned(hs) == Forest(node, hs) /\ Owners(node, subtrees_to_gc_, gamebegin_node_)

TreeInv ==
  /\ gamebegin_node_ \in Address \cup {None} /\ (gamebegin_node_ = None => pc = "idle")
  /\ pc \in {"idle", "moving", "create", "finish"}
  /\ \E hs : Owned(hs) /\ (gamebegin_node_ # None => \E q, k, D : InGame(hs, q, k, D))

\* The root of the tree is the child of none.
LEMMA OwnersRoot ==
  ASSUME NEW hs, Owned(hs), gamebegin_node_ \in Address
  PROVE  node[gamebegin_node_].used /\ ChildOfNone(node, gamebegin_node_)
BY DEF Owned, Owners

\* The head is in the tree, and so is what is below it, in the part of the search.
LEMMA HeadFacts ==
  ASSUME NEW hs, Owned(hs), NEW q, NEW k, Standing(hs, q, k), gamebegin_node_ \in Address
  PROVE  /\ node \in [Address -> NodeType] /\ node[gamebegin_node_].used
         /\ current_head_ \in Address /\ node[current_head_].used /\ q[k] = current_head_
         /\ Len(q) \in Nat /\ k \in Nat /\ k >= 1 /\ k <= Len(q) /\ q \in Seq(Address)
         /\ \A i \in 1..Len(q) : q[i] \in Address /\ node[q[i]].used
         /\ \A i, j \in 1..Len(q) : q[i] = q[j] => i = j
         /\ \A i \in 1..(Len(q) - 1) : node[q[i + 1]].parent = q[i]
         /\ Chain(node, gamebegin_node_, q)
<1>1. Forest(node, hs) /\ node[gamebegin_node_].used  BY OwnersRoot DEF Owned
<1>2. Line(node, hs, gamebegin_node_, game.startpos, q, k) /\ q[k] = current_head_
    BY DEF Standing
<1>3. node \in [Address -> NodeType]  BY <1>1 DEF Forest
<1> QED  BY <1>1, <1>2, <1>3, LineFacts DEF Line

\* So the positions above are right.
LEMMA InvPosition ==
  ASSUME NEW hs, Owned(hs), NEW q, NEW k, Standing(hs, q, k), gamebegin_node_ \in Address,
         pc = "idle"
  PROVE  HeadIsPosition
<1>1. /\ Chain(node, gamebegin_node_, q) /\ node[gamebegin_node_].used
      /\ \A i \in 1..Len(q) : q[i] \in Address
      /\ Len(q) \in Nat /\ k >= 1 /\ k <= Len(q) /\ k \in Nat /\ current_head_ \in Address
    BY HeadFacts
<1>2. Forest(node, hs)  BY DEF Owned
<1>3. k = Len(q) /\ q[k] = current_head_ /\ todo = <<>> /\ history_ = hs[q[k]]
      /\ game.moves = MovesOf(node, q, k) \o todo /\ hs[gamebegin_node_] = <<game.startpos>>
    BY DEF Standing, Line
<1>4. MovesTo(node, current_head_, gamebegin_node_) = MovesOf(node, q, k)
    BY <1>1, <1>2, <1>3, ChainPath
<1>5. /\ MovesOf(node, q, k) \in Seq(Move)
      /\ history_ = AppendMoves(hs[gamebegin_node_], MovesOf(node, q, k))
  <2>1. /\ MovesOf(node, q, k) \in Seq(Move) /\ Len(MovesOf(node, q, k)) = k - 1
        /\ hs[q[k]] = AppendMoves(hs[gamebegin_node_], MovesOf(node, q, k))
      BY <1>1, <1>2, ChainHistory
  <2> QED  BY <1>3, <2>1
<1>6. current_head_ \in Live
  <2> DEFINE T == Subtree(node, {gamebegin_node_})
  <2> HIDE DEF T
  <2>1. current_head_ \in T  BY <1>1, <1>2, <1>3, ChainInside, SubtreeFacts DEF T, Closed
  <2> QED  BY <2>1, NodeTreeAssumption DEF Live, T
<1> QED  BY <1>3, <1>4, <1>5, <1>6 DEF HeadIsPosition, Play

\* What is known of a node below the head.
LEMMA BelowHead ==
  ASSUME NEW hs, Owned(hs), NEW q, NEW k, NEW D, InGame(hs, q, k, D), gamebegin_node_ \in Address,
         pc = "idle", NEW x \in Subtree(node, {current_head_})
  PROVE  /\ x \in Address /\ Extended(node, hs, x) /\ Counted(node, x, None)
         /\ x # current_head_ => Bounded(node, hs, x)
         /\ hs[x] = AppendMoves(history_, MovesTo(node, x, current_head_))
<1>1. /\ current_head_ \in Address /\ node[current_head_].used
      /\ Len(q) \in Nat /\ k \in Nat /\ q[k] = current_head_
    BY HeadFacts DEF InGame
<1>2. Forest(node, hs)  BY DEF Owned
<1>3. Standing(hs, q, k) /\ Ready(node, hs, q, D)  BY DEF InGame
<1>4. k = Len(q) /\ history_ = hs[current_head_]  BY <1>1, <1>3 DEF Standing
<1>5. D \subseteq Address /\ current_head_ \in D /\ Closed(node, D)
      /\ Healthy(node, hs, D, current_head_, None)
    BY <1>1, <1>3, <1>4 DEF Ready
<1>6. PICK p : Chain(node, current_head_, p) /\ p[Len(p)] = x  BY <1>1, <1>2, ChainExists
<1>7. MovesTo(node, x, current_head_) = MovesOf(node, p, Len(p))
    BY <1>1, <1>2, <1>6, ChainPath
<1>8. hs[p[Len(p)]] = AppendMoves(hs[current_head_], MovesOf(node, p, Len(p)))
  <2> DEFINE j == Len(p)
             h == current_head_
  <2>1. h \in Address /\ node[h].used /\ Chain(node, h, p) /\ j \in 1..Len(p)
      BY <1>1, <1>2, <1>6, ChainFacts
  <2> HIDE DEF j, h
  <2> QED  BY <1>2, <2>1, ChainHistory DEF j, h
<1>9. hs[x] = AppendMoves(history_, MovesTo(node, x, current_head_))
    BY <1>4, <1>6, <1>7, <1>8
<1> QED  BY <1>1, <1>2, <1>5, <1>9, SubtreeFacts DEF Healthy

\* Visits add up.
LEMMA InvVisits ==
  ASSUME NEW hs, Owned(hs), NEW q, NEW k, NEW D, InGame(hs, q, k, D), gamebegin_node_ \in Address,
         pc = "idle"
  PROVE  VisitsAddUp
BY BelowHead, NodeTreeAssumption DEF VisitsAddUp, BoardAt, Extended, Counted

\* Bounds are justified.
LEMMA InvBounds ==
  ASSUME NEW hs, Owned(hs), NEW q, NEW k, NEW D, InGame(hs, q, k, D), gamebegin_node_ \in Address,
         pc = "idle"
  PROVE  BoundsJustified
<1> SUFFICES ASSUME NEW x \in Subtree(node, {current_head_}), x # current_head_, NEW b,
                    b = ImpliedBounds(node, x), NEW p,
                    p = Latest(AppendMoves(history_, MovesTo(node, x, current_head_)))
             PROVE  IF node[x].edges # {}
                      THEN /\ node[x].lower <= b.lower /\ b.upper <= node[x].upper
                           /\ node[x].terminal = "end" => node[x].lower = node[x].upper
                    ELSE IF node[x].terminal = "end"
                      THEN node[x].lower = node[x].upper /\
                           node[x].upper = IF LegalMoves(p.board) = {} /\ p.board \in Mated THEN 1 ELSE 0
                    ELSE node[x].terminal = "no" => node[x].lower = -1 /\ node[x].upper = 1
    BY DEF BoundsJustified
<1>1. /\ x \in Address /\ Bounded(node, hs, x)
      /\ hs[x] = AppendMoves(history_, MovesTo(node, x, current_head_))
    BY BelowHead
<1>2. Forest(node, hs) /\ node \in [Address -> NodeType]  BY DEF Owned, Forest
<1>3. CASE node[x].edges # {}
  <2>1. node[x].lower \in -1..1 /\ node[x].upper \in -1..1  BY <1>1, <1>2, TypeFacts
  <2> QED  BY <1>1, <1>2, <1>3, <2>1, ImpliedFacts DEF Bounded, Forest, Families
<1>4. CASE node[x].edges = {}  BY <1>1, <1>4 DEF Bounded
<1> QED  BY <1>3, <1>4

\* What follows from the invariant.
LEMMA InvImplies ==
  ASSUME TreeInv
  PROVE  OwnedOnce /\ ParentsRight /\ HeadIsPosition /\ VisitsAddUp /\ BoundsJustified
<1>1. PICK hs : Owned(hs) /\ (gamebegin_node_ # None => \E q, k, D : InGame(hs, q, k, D))
    BY DEF TreeInv
<1>2. gamebegin_node_ \in Address \cup {None}  BY DEF TreeInv
<1>3. OwnedOnce /\ ParentsRight  BY <1>1, <1>2, OwnersOwn, FamiliesRight DEF Owned
<1>4. CASE ~(pc = "idle" /\ gamebegin_node_ # None)
    BY <1>3, <1>4 DEF HeadIsPosition, VisitsAddUp, BoundsJustified
<1>5. CASE pc = "idle" /\ gamebegin_node_ # None
    BY <1>1, <1>2, <1>3, <1>5, InvPosition, InvVisits, InvBounds DEF InGame
<1> QED  BY <1>4, <1>5

\* An empty memory is right.
LEMMA TreeInit == Init => TreeInv
<1> SUFFICES ASSUME Init PROVE TreeInv  OBVIOUS
<1>1. /\ node = [a \in Address |-> Unused] /\ subtrees_to_gc_ = {}
      /\ gamebegin_node_ = None /\ pc = "idle"
    BY DEF Init
<1> DEFINE hs == [a \in Address |-> <<>>]
<1>2. node \in [Address -> NodeType] /\ \A a \in Address : node[a] = Unused
    BY <1>1, NewNodeFacts
<1>3. Families(node) /\ Histories(node, hs)  BY <1>2, NewNodeFacts DEF Families, Histories
<1>4. Owned(hs)
    BY <1>1, <1>2, <1>3, NewNodeFacts, NodeTreeAssumption DEF Owned, Forest, Owners
<1> HIDE DEF hs
<1> QED  BY <1>1, <1>4 DEF TreeInv

-----------------------------------------------------------------------------
(* The garbage collector.                                                  *)

\* What it frees is what is below an entry, and nothing else has children there.
LEMMA FreedApart ==
  ASSUME NEW nodes, NEW hs, Forest(nodes, hs), NEW garbage, NEW root, Owners(nodes, garbage, root),
         NEW entry \in garbage, NEW F, F = Subtree(nodes, entry)
  PROVE  /\ F \subseteq Address /\ Closed(nodes, F) /\ entry \subseteq F
         /\ \A y \in Address \ F : nodes[y].child \cap F = {}
         /\ \A a \in F : ChildOfNone(nodes, a) => a \in entry
BY SubtreeFacts, SubtreeFromAbove, ChildFacts DEF Owners, ChildOfNone

\* What is left when a closed part of the memory is freed.
LEMMA ForestFreed ==
  ASSUME NEW nodes, NEW hs, Forest(nodes, hs), NEW F \in SUBSET Address,
         \A y \in Address \ F : nodes[y].child \cap F = {},
         NEW after, after = [a \in Address |-> IF a \in F THEN Unused ELSE nodes[a]]
  PROVE  Forest(after, hs)
<1>1. /\ \A a \in F : after[a] = Unused
      /\ \A a \in Address \ F : after[a] = nodes[a]
    OBVIOUS
<1>2. \A y \in Address \ F : \A c \in nodes[y].child : c \in Address \ F  BY ChildFacts
<1>3. Histories(after, hs)  BY <1>1, <1>2, NewNodeFacts DEF Histories, Forest
<1> QED  BY <1>1, <1>2, <1>3, NewNodeFacts DEF Forest, Families

\* And the entry has gone with it.
LEMMA OwnersFreed ==
  ASSUME NEW nodes, NEW hs, Forest(nodes, hs), NEW garbage, NEW root, Owners(nodes, garbage, root),
         NEW entry \in garbage, NEW F, F = Subtree(nodes, entry),
         NEW after, \A a \in F : after[a] = Unused, \A a \in Address \ F : after[a] = nodes[a]
  PROVE  Owners(after, garbage \ {entry}, root)
<1>1. /\ F \subseteq Address /\ entry \subseteq F
      /\ \A y \in Address \ F : nodes[y].child \cap F = {}
      /\ \A a \in F : ChildOfNone(nodes, a) => a \in entry
    BY FreedApart
<1>2. Closed(nodes, F)  BY FreedApart
<1> DEFINE rest == garbage \ {entry}
<1>3. ASSUME NEW a \in Address
      PROVE  after[a].used /\ ChildOfNone(after, a) <=> a = root \/ \E e \in rest : a \in e
    BY <1>1, <1>2, NewNodeFacts DEF Owners, Closed, ChildOfNone
<1> HIDE DEF rest
<1> QED  BY <1>3 DEF rest, Owners

\* Nodes that stay as they are, with all that is below them.
LEMMA HealthyStays ==
  ASSUME NEW nodes, NEW hs, Forest(nodes, hs), NEW after \in [Address -> NodeType],
         NEW D \in SUBSET Address, NEW top, Healthy(nodes, hs, D, top, None),
         NEW E \in SUBSET D, top \in E, \A z \in E : after[z] = nodes[z],
         \A z \in E : \A c \in nodes[z].child : after[c] = nodes[c],
         NEW g, \A z \in E : g[z] = hs[z]
  PROVE  Healthy(after, g, E, top, None)
<1>1. nodes \in [Address -> NodeType]  BY DEF Forest
<1>2. \A z \in E : Alike(nodes, hs, z, after, g, z)  BY DEF Alike
<1>3. Sound(after, g, top)  BY <1>1, <1>2, SoundAs DEF Healthy, Sound
<1> QED  BY <1>1, <1>2, <1>3, HealthyAs

\* The head stands where it was when the nodes above and at it are as they were.
LEMMA StandingStays ==
  ASSUME NEW hs, NEW q, NEW k, Standing(hs, q, k), NEW g, Along(node, hs, node', g, q, Len(q)),
         g[q[k]] = hs[q[k]],
         UNCHANGED <<gamebegin_node_, current_head_, history_, game, call>>,
         pc = "create" => node'[current_head_] = node[current_head_]
  PROVE  Standing(g, q, k)'
<1>1. Line(node, hs, gamebegin_node_, game.startpos, q, k)  BY DEF Standing
<1>2. q \in Seq(Address) /\ k \in 1..Len(q) /\ Len(q) \in Nat /\ Len(q) \in 1..Len(q) /\ Len(q) \in k..Len(q)
    BY <1>1 DEF Line
<1> DEFINE after == node'
           root == gamebegin_node_
           start == game.startpos
<1> HIDE DEF after, root, start
<1>3. Line(node', g, gamebegin_node_, game.startpos, q, k) /\ MovesOf(node', q, k) = MovesOf(node, q, k)
    BY <1>1, <1>2, LineKept, PrefixExists DEF after, root, start
<1> QED  BY <1>3 DEF Standing, call

\* GarbageCollect frees nothing that anybody else uses.
LEMMA CollectKeeps ==
  ASSUME TreeInv, GarbageCollect
  PROVE  TreeInv'
<1>1. PICK hs : Owned(hs) /\ (gamebegin_node_ # None => \E q, k, D : InGame(hs, q, k, D))
    BY DEF TreeInv
<1>2. PICK entry \in subtrees_to_gc_ :
        /\ subtrees_to_gc_' = subtrees_to_gc_ \ {entry}
        /\ node' = [a \in Address |-> IF a \in Subtree(node, entry) THEN Unused ELSE node[a]]
        /\ UNCHANGED <<gamebegin_node_, current_head_, history_, game, call>>
    BY DEF GarbageCollect
<1>3. PICK F : F = Subtree(node, entry)  OBVIOUS
<1>4. Forest(node, hs) /\ Owners(node, subtrees_to_gc_, gamebegin_node_)  BY <1>1 DEF Owned
<1>5. /\ F \subseteq Address /\ entry \subseteq F
      /\ \A y \in Address \ F : node[y].child \cap F = {}
      /\ \A a \in F : ChildOfNone(node, a) => a \in entry
    BY <1>3, <1>4, FreedApart
<1>6. PICK after : after = node'  OBVIOUS
<1>7. /\ after = [a \in Address |-> IF a \in F THEN Unused ELSE node[a]]
      /\ \A a \in F : after[a] = Unused
      /\ \A a \in Address \ F : after[a] = node[a]
    BY <1>2, <1>3, <1>5, <1>6
<1>8. Forest(after, hs)  BY <1>4, <1>5, <1>7, ForestFreed
<1>9. Owners(after, subtrees_to_gc_ \ {entry}, gamebegin_node_)
    BY <1>3, <1>4, <1>7, OwnersFreed
<1>10. ASSUME gamebegin_node_ # None PROVE (\E q, k, D : InGame(hs, q, k, D))'
  <2>1. PICK q, k, D : InGame(hs, q, k, D)  BY <1>1, <1>10
  <2>2. Standing(hs, q, k) /\ gamebegin_node_ \in Address
      BY <1>10, <2>1 DEF InGame, TreeInv
  <2>3. /\ \A i \in 1..Len(q) : q[i] \in Address /\ Len(q) \in Nat /\ k \in 1..Len(q)
        /\ q[k] = current_head_ /\ q \in Seq(Address)
        /\ Chain(node, gamebegin_node_, q)
      BY <1>1, <2>2, HeadFacts
  <2>4. gamebegin_node_ \in Address \ F  BY <1>1, <1>4, <1>5, <2>2, OwnersRoot DEF Owners
  <2>5. \A x \in Address \ F : node[x].child \subseteq Address \ F
      BY <1>4, <1>5, ChildFacts
  <2>6. \A i \in 1..Len(q) : q[i] \in Address \ F
    <3> DEFINE K == Address \ F
    <3>1. gamebegin_node_ \in K /\ \A x \in K : node[x].child \subseteq K  BY <2>4, <2>5
    <3> HIDE DEF K
    <3>2. \A i \in 1..Len(q) : q[i] \in K  BY <2>3, <3>1, ChainInside
    <3> QED  BY <3>2 DEF K
  <2>7. \A i \in 1..Len(q) : after[q[i]] = node[q[i]]  BY <1>7, <2>6
  <2>8. k \in 1..Len(q) /\ Len(q) \in Nat /\ Len(q) \in 1..Len(q)  BY <1>1, <2>2, HeadFacts
  <2>9. Standing(hs, q, k)'
    <3>1. Along(node, hs, node', hs, q, Len(q))  BY <1>6, <2>7, <2>8 DEF Along
    <3>2. node'[current_head_] = node[current_head_]  BY <1>6, <2>3, <2>7, <2>8
    <3> QED  BY <1>2, <2>2, <3>1, <3>2, StandingStays
  <2>10. ASSUME pc # "create" PROVE Ready(after, hs, q, D \ F)
    <3>1. /\ D \subseteq Address /\ q[Len(q)] \in D /\ Closed(node, D)
          /\ \A i \in 1..(Len(q) - 1) : q[i] \notin D
          /\ Healthy(node, hs, D, q[Len(q)], None)
        BY <2>1, <2>10 DEF InGame, Ready
    <3>2. q[Len(q)] \in D \ F  BY <2>6, <2>8, <3>1
    <3>3. \A z \in D \ F : after[z] = node[z] /\ \A c \in node[z].child : c \in Address \ F /\ c \in D
        BY <1>7, <2>5, <3>1 DEF Closed
    <3>4. \A z \in D \ F : \A c \in node[z].child : after[c] = node[c]  BY <1>7, <3>3
    <3>5. Healthy(after, hs, D \ F, q[Len(q)], None)
      <4> DEFINE E == D \ F
                 top == q[Len(q)]
      <4>1. /\ E \in SUBSET D /\ top \in E /\ (\A z \in E : after[z] = node[z])
            /\ \A z \in E : \A c \in node[z].child : after[c] = node[c]
            /\ \A z \in E : hs[z] = hs[z]
            /\ D \in SUBSET Address /\ Healthy(node, hs, D, top, None)
          BY <3>1, <3>2, <3>3, <3>4
      <4> HIDE DEF E, top
      <4> QED  BY <1>4, <1>8, <4>1, HealthyStays DEF E, top, Forest
    <3> QED  BY <3>1, <3>2, <3>3, <3>5 DEF Ready, Closed
  <2>11. InGame(hs, q, k, D \ F)'  BY <1>2, <1>6, <2>9, <2>10 DEF InGame, call
  <2> QED  BY <2>11
<1> QED  BY <1>2, <1>6, <1>8, <1>9, <1>10 DEF TreeInv, call, Owned

-----------------------------------------------------------------------------
(* Another position.                                                       *)

\* At the root no move has been made.
LEMMA NoMovesYet ==
  ASSUME NEW nodes, NEW q, NEW s \in Seq(Move)
  PROVE  MovesOf(nodes, q, 1) \o s = s
BY DEF MovesOf

\* The tree is given up, ...
LEMMA OwnersAlone ==
  ASSUME NEW nodes, NEW garbage, NEW root \in Address, Owners(nodes, garbage, root),
         NEW more, more = garbage \cup {{root}}
  PROVE  Owners(nodes, more, None)
<1>1. None \notin Address  BY NodeTreeAssumption
<1>2. \A a \in Address : (\E e \in more : a \in e) <=> (\E e \in garbage : a \in e) \/ a = root
    OBVIOUS
<1>3. ASSUME NEW e \in more, NEW f \in more, e # f PROVE e \cap f = {}
  <2>1. e \in garbage \/ e = {root}  OBVIOUS
  <2>2. f \in garbage \/ f = {root}  OBVIOUS
  <2>3. \A d \in garbage : root \notin d  BY DEF Owners
  <2>4. \A c, d \in garbage : c # d => c \cap d = {}  BY DEF Owners
  <2>5. CASE e \in garbage  BY <1>3, <2>2, <2>3, <2>4, <2>5
  <2>6. CASE f \in garbage  BY <1>3, <2>1, <2>3, <2>4, <2>6
  <2> QED  BY <1>3, <2>1, <2>2, <2>5, <2>6
<1> QED  BY <1>1, <1>2, <1>3 DEF Owners

\* ... and there is another.
LEMMA OwnersFresh ==
  ASSUME NEW nodes, NEW hs, Forest(nodes, hs), NEW garbage, Owners(nodes, garbage, None),
         NEW a \in Free(nodes), NEW after, after[a] = NewNode(None, None),
         \A y \in Address \ {a} : after[y] = nodes[y]
  PROVE  Owners(after, garbage, a)
<1>1. a \in Address /\ ~nodes[a].used /\ nodes[a].child = {} /\ ChildOfNone(nodes, a)
    BY FreeFacts
<1>2. ASSUME NEW z \in Address
      PROVE  after[z].used /\ ChildOfNone(after, z) <=> z = a \/ \E e \in garbage : z \in e
    BY <1>1, NewNodeFacts, NodeTreeAssumption DEF Owners, ChildOfNone
<1> QED  BY <1>1, <1>2 DEF Owners

\* A line of one node.
LEMMA LineStarts ==
  ASSUME NEW nodes, NEW hs, NEW a \in Address, NEW start, hs[a] = <<start>>, NEW q, q = <<a>>
  PROVE  Line(nodes, hs, a, start, q, 1) /\ Len(q) = 1 /\ q[1] = a
<1>1. q \in Seq(Address) /\ Len(q) = 1 /\ q[1] = a /\ 1 \in 1..Len(q)  OBVIOUS
<1>2. ASSUME NEW p, p \in Seq(Address), Len(p) = 1, p[1] = a, 1 \in 1..Len(p)
      PROVE  Line(nodes, hs, a, start, p, 1)
    BY <1>2 DEF Line
<1> QED  BY <1>1, <1>2

\* A node that nothing is known of yet is ready for a search.
LEMMA ReadyAlone ==
  ASSUME NEW nodes, NEW hs, NEW a \in Address, nodes[a].edges = {}, nodes[a].n = 0,
         nodes[a].terminal = "no", nodes[a].child = {}, NEW q, q[Len(q)] = a,
         \A i \in 1..(Len(q) - 1) : q[i] # a
  PROVE  Ready(nodes, hs, q, {a})
<1>1. Healthy(nodes, hs, {a}, a, None)  BY NewSound DEF Sound, Healthy
<1> QED  BY <1>1 DEF Ready, Closed

\* ResetToPosition to another game, or to the first one: a new root.
LEMMA ResetKeepsOther ==
  ASSUME TreeInv, NEW state \in GameState, ResetToPosition(state),
         gamebegin_node_ = None \/ history_[1] # state.startpos
  PROVE  TreeInv'
<1>1. PICK hs : Owned(hs)  BY DEF TreeInv
<1> DEFINE start == state.startpos
<1>2. LegalGame(state) /\ None \notin Address  BY NodeTreeAssumption
<1>3. Linked(<<start>>) /\ CountersRight(<<start>>) /\ state.moves \in Seq(Move)
    BY <1>2, StartHasRightCounters DEF LegalGame
<1>4. PICK a \in Allocated :
        /\ node' = [node EXCEPT ![a] = NewNode(None, None)]
        /\ gamebegin_node_' = a /\ current_head_' = a
    BY DEF ResetToPosition
<1>5. /\ subtrees_to_gc_' = IF gamebegin_node_ # None THEN Queued({gamebegin_node_})
                            ELSE subtrees_to_gc_
      /\ history_' = <<start>> /\ game' = state /\ todo' = state.moves /\ resetting' = TRUE
      /\ pc' = IF state.moves = <<>> THEN "finish" ELSE "moving"
    BY DEF ResetToPosition
<1>6. a \in Free(node) /\ a \in Address  BY DEF Allocated, Free
<1>7. Forest(node, hs) /\ Owners(node, subtrees_to_gc_, gamebegin_node_)  BY <1>1 DEF Owned
<1>8. Owners(node, subtrees_to_gc_', None)
  <2>1. CASE gamebegin_node_ = None  BY <1>5, <1>7, <2>1
  <2>2. CASE gamebegin_node_ # None  BY <1>5, <1>7, <2>2, OwnersAlone DEF TreeInv, Queued
  <2> QED  BY <2>1, <2>2
<1>9. PICK after : after = node'  OBVIOUS
<1>10. PICK g : g = With(hs, a, <<start>>)  OBVIOUS
<1>11. g[a] = <<start>>  BY <1>6, <1>10 DEF With
<1>12. Forest(after, g)
  <2>1. after = [node EXCEPT ![a] = NewNode(None, None)]  BY <1>4, <1>9
  <2> HIDE DEF start
  <2>2. Forest(after, With(hs, a, <<start>>))  BY <1>3, <1>6, <1>7, <2>1, ForestNew
  <2> QED  BY <1>10, <2>2
<1>13. after[a] = NewNode(None, None) /\ \A y \in Address \ {a} : after[y] = node[y]
    BY <1>4, <1>6, <1>7, <1>9 DEF Forest
<1>14. Owners(after, subtrees_to_gc_', a)  BY <1>6, <1>7, <1>8, <1>13, OwnersFresh
<1>15. Owned(g)'  BY <1>4, <1>9, <1>12, <1>14 DEF Owned
<1>16. PICK q : q = <<a>>  OBVIOUS
<1>17. Line(after, g, a, start, q, 1) /\ Len(q) = 1 /\ q[1] = a
  <2> HIDE DEF start
  <2> QED  BY <1>6, <1>11, <1>16, LineStarts
<1>18. Standing(g, q, 1)'  BY <1>3, <1>4, <1>5, <1>9, <1>11, <1>17, NoMovesYet DEF Standing
<1>19. Ready(after, g, q, {a})
  <2>1. /\ after[a].edges = {} /\ after[a].n = 0 /\ after[a].terminal = "no"
        /\ after[a].child = {}
      BY <1>13, NewNodeFacts
  <2> QED  BY <1>6, <1>17, <2>1, ReadyAlone
<1>20. gamebegin_node_' # None /\ gamebegin_node_' \in Address /\ pc' \in {"finish", "moving"}
    BY <1>2, <1>4, <1>5, <1>6
<1> QED  BY <1>9, <1>15, <1>18, <1>19, <1>20 DEF TreeInv, InGame

\* ResetToPosition in the same game: the head is at the root, with the line ahead.
LEMMA ResetKeepsSame ==
  ASSUME TreeInv, NEW state \in GameState, ResetToPosition(state),
         gamebegin_node_ # None, history_[1] = state.startpos
  PROVE  TreeInv'
<1>1. PICK hs, q, k, D : Owned(hs) /\ InGame(hs, q, k, D)  BY DEF TreeInv
<1>2. /\ UNCHANGED <<node, subtrees_to_gc_, gamebegin_node_>>
      /\ current_head_' = gamebegin_node_ /\ old_head' = current_head_
      /\ seen_old_head' = (gamebegin_node_ = current_head_)
      /\ history_' = <<state.startpos>> /\ game' = state /\ todo' = state.moves /\ resetting' = TRUE
      /\ pc' = IF state.moves = <<>> THEN "finish" ELSE "moving"
      /\ pc = "idle"
    BY DEF ResetToPosition
<1>3. Standing(hs, q, k) /\ Ready(node, hs, q, D) /\ gamebegin_node_ \in Address
    BY <1>1, <1>2 DEF InGame, TreeInv
<1>4. /\ Line(node, hs, gamebegin_node_, state.startpos, q, k) /\ k = Len(q)
      /\ q[k] = current_head_
    BY <1>2, <1>3 DEF Standing
<1>5. /\ Len(q) \in Nat /\ k \in Nat /\ k >= 1 /\ k <= Len(q)
      /\ \A i, j \in 1..Len(q) : q[i] = q[j] => i = j
    BY <1>1, <1>3, HeadFacts
<1>6. q[1] = gamebegin_node_ /\ hs[gamebegin_node_] = <<state.startpos>>  BY <1>4 DEF Line
<1>7. Line(node, hs, gamebegin_node_, state.startpos, q, 1)
  <2>1. 1 \in 1..Len(q)  BY <1>5
  <2> QED  BY <1>4, <2>1 DEF Line
<1>8. Standing(hs, q, 1)'
  <2>1. history_'[1] = state.startpos /\ history_' = hs[q[1]]  BY <1>2, <1>6
  <2>2. pc' \in {"finish", "moving"} /\ (pc' = "finish" => todo' = <<>>)  BY <1>2
  <2>3. 1 = Len(q) \/ (~seen_old_head' /\ q[Len(q)] = old_head')
    <3>1. 1 \in 1..Len(q) /\ Len(q) \in 1..Len(q)  BY <1>5
    <3> QED  BY <1>2, <1>4, <1>5, <1>6, <3>1
  <2>4. q[1] = current_head_' /\ game'.moves = state.moves /\ game'.startpos = state.startpos
      BY <1>2, <1>6
  <2>5. Line(node', hs, gamebegin_node_', game'.startpos, q, 1)  BY <1>2, <1>7
  <2>6. MovesOf(node', q, 1) \o todo' = game'.moves
      BY <1>2, NoMovesYet, NodeTreeAssumption DEF LegalGame
  <2>7. history_'[1] = game'.startpos /\ resetting'  BY <1>2, <2>1
  <2> QED  BY <2>1, <2>2, <2>3, <2>4, <2>5, <2>6, <2>7 DEF Standing
<1> QED  BY <1>1, <1>2, <1>3, <1>8 DEF TreeInv, Owned, InGame

-----------------------------------------------------------------------------
(* What is below the head is given up.                                     *)

Emptied(after) ==
  LET x == current_head_ IN
  /\ after \in [Address -> NodeType] /\ \A y \in Address \ {x} : after[y] = node[y]
  /\ after[x].used = node[x].used /\ after[x].parent = node[x].parent
  /\ after[x].index = node[x].index
  /\ after[x].edges = {} /\ after[x].child = {} /\ ~after[x].solid

\* A head without children is right, and its line ends there.
LEMMA EmptiedKeeps ==
  ASSUME NEW hs, Owned(hs), NEW q, NEW k, Standing(hs, q, k), gamebegin_node_ \in Address,
         NEW after, Emptied(after), NEW r, Prefix(q, k, r)
  PROVE  /\ Forest(after, hs)
         /\ Owners(after, Queued(node[current_head_].child), gamebegin_node_)
         /\ Line(after, hs, gamebegin_node_, game.startpos, r, k)
         /\ MovesOf(after, r, k) = MovesOf(node, q, k) /\ r[k] = current_head_ /\ Len(r) = k
<1> DEFINE x == current_head_
<1>1. /\ node \in [Address -> NodeType] /\ x \in Address /\ node[x].used /\ q[k] = x
      /\ Len(q) \in Nat /\ k \in Nat /\ k >= 1 /\ k <= Len(q)
      /\ \A i \in 1..Len(q) : q[i] \in Address
      /\ \A i, j \in 1..Len(q) : q[i] = q[j] => i = j
    BY HeadFacts
<1>2. Forest(node, hs) /\ Owners(node, subtrees_to_gc_, gamebegin_node_)  BY DEF Owned
<1>3. /\ after \in [Address -> NodeType] /\ \A y \in Address \ {x} : after[y] = node[y]
      /\ after[x].used = node[x].used /\ after[x].parent = node[x].parent
      /\ after[x].index = node[x].index
      /\ after[x].edges = {} /\ after[x].child = {}
    BY DEF Emptied
<1>4. ASSUME NEW y \in Address
      PROVE  /\ after[y].used = node[y].used /\ after[y].parent = node[y].parent
             /\ after[y].index = node[y].index /\ after[y].child \subseteq node[y].child
             /\ ~node[y].used => after[y] = node[y]
             /\ after[y].edges \subseteq LegalMoves(Latest(hs[y]).board) \/ after[y].edges = node[y].edges
             /\ \A c \in after[y].child : node[c].index \in after[y].edges
  <2>1. CASE y = x  BY <1>1, <1>3, <2>1
  <2>2. CASE y # x  BY <1>2, <1>3, <2>2, ChildFacts
  <2> QED  BY <2>1, <2>2
<1>5. Forest(after, hs)  BY <1>2, <1>3, <1>4, ForestKept
<1>6. Owners(after, Queued(node[x].child), gamebegin_node_)
  <2> DEFINE lost == node[x].child \ after[x].child
  <2>1. lost = node[x].child  BY <1>3
  <2>2. /\ \A y \in Address : after[y].used = node[y].used
        /\ \A y \in Address \ {x} : after[y].child = node[y].child
        /\ after[x].child \subseteq node[x].child
      BY <1>3, <1>4
  <2>3. lost = node[x].child \ after[x].child  OBVIOUS
  <2> HIDE DEF lost, x
  <2>4. Owners(after, IF lost = {} THEN subtrees_to_gc_ ELSE subtrees_to_gc_ \cup {lost}, gamebegin_node_)
    <3>1. PICK garbage, root : garbage = subtrees_to_gc_ /\ root = gamebegin_node_  OBVIOUS
    <3>2. Owners(node, garbage, root)  BY <1>2, <3>1
    <3>3. Owners(after, IF lost = {} THEN garbage ELSE garbage \cup {lost}, root)
        BY <1>1, <1>2, <1>5, <2>2, <2>3, <3>2, OwnersRelease
    <3> QED  BY <3>1, <3>3
  <2> QED  BY <2>1, <2>4 DEF Queued, x
<1>7. Along(node, hs, after, hs, q, k)
  <2> HIDE DEF x
  <2> QED  BY <1>1, <1>3, <1>4 DEF Along
<1>8. Line(after, hs, gamebegin_node_, game.startpos, r, k) /\ MovesOf(after, r, k) = MovesOf(node, q, k)
  <2> DEFINE start == game.startpos
             root == gamebegin_node_
  <2> HIDE DEF start, root
  <2> QED  BY <1>1, <1>7, LineKept DEF start, root, Standing
<1> QED  BY <1>1, <1>5, <1>6, <1>8 DEF Prefix

\* The head is as good as new.
LEMMA TrimKeeps ==
  ASSUME NEW hs, Owned(hs), NEW q, NEW k, Standing(hs, q, k), gamebegin_node_ \in Address,
         pc \in {"idle", "finish"}, node' = TrimmedHead,
         subtrees_to_gc_' = Queued(node[current_head_].child),
         UNCHANGED <<gamebegin_node_, current_head_, history_, game, todo>>, pc' = "idle"
  PROVE  Owned(hs)' /\ \E r, D : InGame(hs, r, k, D)'
<1> DEFINE x == current_head_
<1>1. /\ node \in [Address -> NodeType] /\ x \in Address /\ node[x].used /\ q[k] = x
      /\ Len(q) \in Nat /\ k \in Nat /\ k >= 1 /\ k <= Len(q) /\ q \in Seq(Address)
      /\ \A i, j \in 1..Len(q) : q[i] = q[j] => i = j
    BY HeadFacts
<1>2. PICK after : after = node'  OBVIOUS
<1>3. after \in [Address -> NodeType] /\ after[x] = NewNode(node[x].parent, node[x].index)
      /\ \A y \in Address \ {x} : after[y] = node[y]
    BY <1>1, <1>2, NewNodeFacts, TypeFacts DEF TrimmedHead
<1>4. /\ after[x].used /\ after[x].parent = node[x].parent
      /\ after[x].index = node[x].index /\ after[x].edges = {} /\ after[x].child = {}
      /\ ~after[x].solid /\ after[x].n = 0 /\ after[x].terminal = "no"
    BY <1>3, NewNodeFacts
<1>5. Emptied(after)  BY <1>1, <1>3, <1>4 DEF Emptied
<1>6. PICK r : Prefix(q, k, r)  BY <1>1, PrefixExists
<1>7. /\ Forest(after, hs)
      /\ Owners(after, Queued(node[x].child), gamebegin_node_)
      /\ Line(after, hs, gamebegin_node_, game.startpos, r, k)
      /\ MovesOf(after, r, k) = MovesOf(node, q, k) /\ r[k] = x /\ Len(r) = k
    BY <1>5, <1>6, EmptiedKeeps
<1>8. Ready(after, hs, r, {x})
  <2>1. \A i \in 1..(Len(r) - 1) : r[i] # x  BY <1>1, <1>6, <1>7 DEF Prefix
  <2>2. r[Len(r)] = x  BY <1>7
  <2> HIDE DEF x
  <2> QED  BY <1>1, <1>4, <2>1, <2>2, ReadyAlone
<1> QED  BY <1>1, <1>2, <1>7, <1>8 DEF Owned, InGame, Standing

\* TrimTreeAtHead.
LEMMA TrimTreeKeeps ==
  ASSUME TreeInv, TrimTreeAtHead
  PROVE  TreeInv'
BY TrimKeeps DEF TreeInv, TrimTreeAtHead, call, InGame

\* The end of ResetToPosition: the line ahead is trimmed unless it was passed.
LEMMA FinishKeeps ==
  ASSUME TreeInv, Finish
  PROVE  TreeInv'
<1>1. /\ pc = "finish" /\ pc' = "idle"
      /\ UNCHANGED <<gamebegin_node_, current_head_, history_, game, todo>>
    BY DEF Finish
<1>2. PICK hs, q, k, D : Owned(hs) /\ InGame(hs, q, k, D)  BY <1>1 DEF TreeInv
<1>3. Standing(hs, q, k) /\ gamebegin_node_ \in Address /\ gamebegin_node_ # None
    BY <1>1, <1>2, NodeTreeAssumption DEF InGame, TreeInv
<1>4. CASE seen_old_head
  <2>1. UNCHANGED <<node, subtrees_to_gc_>>  BY <1>4 DEF Finish, memory
  <2>2. InGame(hs, q, k, D)'  BY <1>1, <1>2, <1>3, <1>4, <2>1 DEF InGame, Standing
  <2> QED  BY <1>1, <1>2, <1>3, <2>1, <2>2 DEF TreeInv, Owned
<1>5. CASE ~seen_old_head  BY <1>1, <1>2, <1>3, <1>5, TrimKeeps DEF Finish, TreeInv
<1> QED  BY <1>4, <1>5

\* MakeMove to where no edge leads, first half.
LEMMA ReleaseKeeps ==
  ASSUME TreeInv, ReleaseAll
  PROVE  TreeInv'
<1> DEFINE x == current_head_
<1>1. /\ pc = "moving" /\ pc' = "create"
      /\ subtrees_to_gc_' = Queued(node[x].child)
      /\ node' = [node EXCEPT ![x].child = {}, ![x].solid = FALSE, ![x].edges = {}]
      /\ UNCHANGED <<gamebegin_node_, current_head_, history_, game, todo>>
    BY DEF ReleaseAll
<1>2. PICK hs, q, k, D : Owned(hs) /\ InGame(hs, q, k, D)  BY <1>1 DEF TreeInv
<1>3. Standing(hs, q, k) /\ gamebegin_node_ \in Address /\ gamebegin_node_ # None
    BY <1>1, <1>2, NodeTreeAssumption DEF InGame, TreeInv
<1>4. /\ node \in [Address -> NodeType] /\ x \in Address /\ node[x].used /\ q[k] = x
      /\ Len(q) \in Nat /\ k \in Nat /\ k >= 1 /\ k <= Len(q) /\ q \in Seq(Address)
    BY <1>2, <1>3, HeadFacts
<1>5. PICK after : after = node'  OBVIOUS
<1>6. Emptied(after)
  <2>1. \A y \in Address \ {x} : after[y] = node[y]  BY <1>1, <1>4, <1>5
  <2>2. node[x] \in NodeType  BY <1>4
  <2>3. /\ after[x] \in NodeType
        /\ after[x].used = node[x].used /\ after[x].parent = node[x].parent
        /\ after[x].index = node[x].index
        /\ after[x].edges = {} /\ after[x].child = {} /\ ~after[x].solid
    <3> DEFINE p == [node[x] EXCEPT !.child = {}, !.solid = FALSE, !.edges = {}]
    <3>1. after[x] = p  BY <1>1, <1>4, <1>5
    <3>2. /\ p \in NodeType /\ p.used = node[x].used /\ p.parent = node[x].parent
          /\ p.index = node[x].index /\ p.edges = {} /\ p.child = {} /\ ~p.solid
        BY <2>2 DEF NodeType
    <3> QED  BY <3>1, <3>2
  <2>4. after \in [Address -> NodeType]  BY <1>1, <1>4, <1>5, <2>1, <2>3
  <2> QED  BY <2>1, <2>3, <2>4 DEF Emptied
<1>7. PICK r : Prefix(q, k, r)  BY <1>4, PrefixExists
<1>8. /\ Forest(after, hs)
      /\ Owners(after, Queued(node[x].child), gamebegin_node_)
      /\ Line(after, hs, gamebegin_node_, game.startpos, r, k)
      /\ MovesOf(after, r, k) = MovesOf(node, q, k) /\ r[k] = x /\ Len(r) = k
    BY <1>2, <1>3, <1>6, <1>7, EmptiedKeeps
<1>9. Standing(hs, r, k)'
  <2>1. /\ history_ = hs[x] /\ history_[1] = game.startpos
        /\ game.moves = MovesOf(node, q, k) \o todo
      BY <1>3, <1>4 DEF Standing
  <2>2. after[x].edges = {} /\ after[x].child = {} /\ ~after[x].solid  BY <1>6 DEF Emptied
  <2> QED  BY <1>1, <1>5, <1>8, <2>1, <2>2 DEF Standing
<1> QED  BY <1>1, <1>3, <1>5, <1>8, <1>9 DEF TreeInv, Owned, InGame

\* The call of MakeMove.
LEMMA MakeMoveKeeps ==
  ASSUME TreeInv, NEW m \in Move, MakeMove(m)
  PROVE  TreeInv'
<1>1. /\ pc = "idle" /\ gamebegin_node_ # None /\ pc' = "moving"
      /\ game' = [startpos |-> game.startpos, moves |-> Append(game.moves, m)]
      /\ todo' = <<m>>
      /\ UNCHANGED <<memory, gamebegin_node_, current_head_, history_>>
    BY DEF MakeMove
<1>2. PICK hs, q, k, D : Owned(hs) /\ InGame(hs, q, k, D)  BY <1>1 DEF TreeInv
<1>3. Standing(hs, q, k) /\ gamebegin_node_ \in Address  BY <1>1, <1>2 DEF InGame, TreeInv
<1>4. UNCHANGED <<node, subtrees_to_gc_>>  BY <1>1 DEF memory
<1>5. MovesOf(node, q, k) \in Seq(Move)  BY <1>2, <1>3, ChainHistory, HeadFacts DEF Owned
<1>6. Standing(hs, q, k)'  BY <1>1, <1>3, <1>4, <1>5 DEF Standing
<1> QED  BY <1>1, <1>2, <1>3, <1>4, <1>6 DEF TreeInv, Owned, InGame

-----------------------------------------------------------------------------
(* A playout leaves what the next one and the next move need.              *)

\* The nodes above the head are untouched by a search.
LEMMA PlayoutLine ==
  ASSUME NEW hs, Owned(hs), NEW q, NEW k, NEW D, Standing(hs, q, k), gamebegin_node_ \in Address,
         Ready(node, hs, q, D), k >= Len(q),
         NEW top, current_head_ = top, NEW U, \A a \in U : a \in D \/ ~node[a].used,
         NEW after, NEW g, NEW E, Searched(node, hs, top, U, after, g, E, None)
  PROVE  Along(node, hs, after, g, q, Len(q)) /\ Ready(after, g, q, E) /\ g[q[k]] = hs[q[k]]
<1>1. /\ Len(q) \in Nat /\ k \in Nat /\ k >= 1 /\ q[k] = top /\ k = Len(q)
      /\ \A i \in 1..Len(q) : q[i] \in Address /\ node[q[i]].used
    BY HeadFacts
<1>2. /\ Forest(after, g) /\ Healthy(after, g, E, top, None)
      /\ g[top] = hs[top] /\ \A x \in Address \ U : g[x] = hs[x]
    BY DEF Searched
<1>3. /\ U \subseteq Address /\ E \subseteq U /\ top \in E /\ after[top].index = node[top].index
      /\ \A x \in E : after[x].child \subseteq E
      /\ \A x \in Address \ U : after[x] = node[x]
    BY DEF Searched, Arena
<1> QED  BY <1>1, <1>2, <1>3 DEF Along, Ready, Closed

\* Playout.
LEMMA PlayoutKeeps ==
  ASSUME TreeInv, Playout
  PROVE  TreeInv'
<1>1. /\ pc = "idle" /\ gamebegin_node_ # None
      /\ subtrees_to_gc_' = subtrees_to_gc_ \cup Shells(node')
      /\ UNCHANGED <<gamebegin_node_, current_head_, history_, game, call>>
    BY DEF Playout
<1>2. PICK hs, q, k, D : Owned(hs) /\ InGame(hs, q, k, D)  BY <1>1 DEF TreeInv
<1>3. Standing(hs, q, k) /\ Ready(node, hs, q, D) /\ gamebegin_node_ \in Address
    BY <1>1, <1>2 DEF InGame, TreeInv
<1>4. Forest(node, hs) /\ Owners(node, subtrees_to_gc_, gamebegin_node_)  BY <1>2 DEF Owned
<1>5. PICK top : top = current_head_  OBVIOUS
<1>6. top \in Address /\ node[top].used /\ q[k] = top  BY <1>2, <1>3, <1>5, HeadFacts
<1>7. k = Len(q) /\ history_ = hs[top]  BY <1>1, <1>3, <1>6 DEF Standing
<1>8. /\ D \subseteq Address /\ top \in D /\ Closed(node, D) /\ Healthy(node, hs, D, top, None)
    BY <1>3, <1>6, <1>7 DEF Ready
<1>9. PICK T : T = Subtree(node, {top})  OBVIOUS
<1>10. T \subseteq D /\ T \subseteq Address  BY <1>4, <1>6, <1>8, <1>9, SubtreeFacts
<1>11. Healthy(node, hs, T, top, None)  BY <1>8, <1>10 DEF Healthy
<1>12. PICK U : U = Free(node) \cup T  OBVIOUS
<1>13. PICK g, E : Searched(node, hs, top, U, node', g, E, None)
    BY <1>4, <1>5, <1>6, <1>7, <1>9, <1>11, <1>12, PlayoutSearches
<1>14. PICK after : after = node'  OBVIOUS
<1>15. Searched(node, hs, top, U, after, g, E, None)  BY <1>13, <1>14
<1>16. Subtree(after, {top}) = E  BY <1>15, SearchedSubtree
<1>17. Owners(after, subtrees_to_gc_ \cup Shells(after), gamebegin_node_)
  <2>1. Arena(node, top, U, node, T)  BY <1>4, <1>6, <1>9, <1>12, SearchStarts
  <2> DEFINE shells == Shells(after)
  <2>2. /\ \A e \in shells : \E a \in U : e = {a} /\ after[a].used /\ a \notin E
        /\ \A a \in U : after[a].used /\ a \notin E => {a} \in shells
      BY <1>5, <1>9, <1>12, <1>16 DEF Shells
  <2> HIDE DEF shells
  <2>3. Left(U, T, after, E, shells)  BY <1>12, <2>2 DEF Left
  <2> DEFINE gc == subtrees_to_gc_
             root == gamebegin_node_
  <2>4. Forest(node, hs) /\ top \in Address /\ node[top].used /\ Owners(node, gc, root)
      BY <1>4, <1>6
  <2> HIDE DEF shells, gc, root
  <2> QED  BY <1>15, <2>1, <2>4, <2>3, SearchOwners DEF shells, gc, root
<1>18. Owned(g)'  BY <1>1, <1>14, <1>15, <1>17 DEF Searched, Owned
<1>19. Along(node, hs, after, g, q, Len(q)) /\ Ready(after, g, q, E) /\ g[q[k]] = hs[q[k]]
  <2>1. \A a \in U : a \in D \/ ~node[a].used  BY <1>10, <1>12 DEF Free
  <2>2. Owned(hs) /\ Standing(hs, q, k) /\ gamebegin_node_ \in Address /\ Ready(node, hs, q, D)
        /\ current_head_ = top
      BY <1>2, <1>3, <1>5
  <2>3. k >= Len(q)  BY <1>2, <1>3, <1>7, HeadFacts
  <2> QED  BY <1>15, <2>1, <2>2, <2>3, PlayoutLine
<1>20. InGame(g, q, k, E)'  BY <1>1, <1>3, <1>14, <1>19, StandingStays DEF InGame
<1> QED  BY <1>1, <1>3, <1>18, <1>20 DEF TreeInv, call

-----------------------------------------------------------------------------
(* The head moves on.                                                      *)

\* The first of the moves still to make becomes the last of those made.
LEMMA HeadGoesOver ==
  ASSUME NEW T, NEW s \in Seq(T), NEW t \in Seq(T), t # <<>>
  PROVE  s \o t = Append(s, Head(t)) \o Tail(t)
<1> DEFINE a == Append(s, Head(t))
           b == Tail(t)
<1>1. Len(s) \in Nat /\ Len(t) \in Nat /\ Len(t) >= 1 /\ Head(t) \in T /\ Head(t) = t[1]
    OBVIOUS
<1>2. b \in Seq(T) /\ Len(b) = Len(t) - 1 /\ \A i \in 1..(Len(t) - 1) : b[i] = t[i + 1]
    OBVIOUS
<1>3. a \in Seq(T) /\ Len(a) = Len(s) + 1 /\ (\A i \in 1..Len(s) : a[i] = s[i]) /\ a[Len(s) + 1] = t[1]
    BY <1>1, AppendAt
<1> HIDE DEF a, b
<1>4. /\ s \o t \in Seq(T) /\ Len(s \o t) = Len(s) + Len(t)
      /\ \A i \in 1..(Len(s) + Len(t)) : (s \o t)[i] = IF i <= Len(s) THEN s[i] ELSE t[i - Len(s)]
    OBVIOUS
<1>5. /\ a \o b \in Seq(T) /\ Len(a \o b) = Len(a) + Len(b)
      /\ \A i \in 1..(Len(a) + Len(b)) : (a \o b)[i] = IF i <= Len(a) THEN a[i] ELSE b[i - Len(a)]
  <2>1. a \in Seq(T) /\ b \in Seq(T)  BY <1>2, <1>3
  <2> QED  BY <2>1
<1>6. Len(a) + Len(b) = Len(s) + Len(t)  BY <1>1, <1>2, <1>3
<1>7. ASSUME NEW i \in 1..(Len(s) + Len(t)) PROVE (s \o t)[i] = (a \o b)[i]
  <2>1. CASE i <= Len(s)  BY <1>1, <1>3, <1>4, <1>5, <1>6, <1>7, <2>1
  <2>2. CASE i = Len(s) + 1  BY <1>1, <1>3, <1>4, <1>5, <1>6, <2>2
  <2>3. CASE i > Len(s) + 1
    <3>1. /\ ~(i <= Len(s)) /\ ~(i <= Len(a)) /\ i - Len(a) \in 1..(Len(t) - 1)
          /\ (i - Len(a)) + 1 = i - Len(s)
        BY <1>1, <1>3, <1>7, <2>3
    <3>2. (s \o t)[i] = t[i - Len(s)] /\ (a \o b)[i] = b[i - Len(a)]
        BY <1>4, <1>5, <1>6, <1>7, <3>1
    <3>3. b[i - Len(a)] = t[(i - Len(a)) + 1]  BY <1>2, <3>1
    <3> QED  BY <3>1, <3>2, <3>3
  <2>4. i <= Len(s) \/ i = Len(s) + 1 \/ i > Len(s) + 1  BY <1>1
  <2> QED  BY <2>1, <2>2, <2>3, <2>4
<1>8. s \o t = a \o b
  <2> DEFINE c == s \o t
             d == a \o b
  <2> HIDE DEF c, d
  <2> QED  BY <1>4, <1>5, <1>6, <1>7, SeqEqual DEF c, d
<1> QED  BY <1>8 DEF a, b

\* The next move is legal.
LEMMA MoveIsLegal ==
  ASSUME HistoryInv, pc \in {"moving", "create"}
  PROVE  /\ todo \in Seq(Move) /\ todo # <<>> /\ Head(todo) \in Move
         /\ Head(todo) \in LegalMoves(Latest(history_).board)
         /\ Linked(history_) /\ CountersRight(history_)
BY LatestBoard, LineGoesOn DEF HistoryInv, HistoryRight, TodoLegal, LegalMoves

\* Whether the old head is still ahead.
Ahead(r, j, d) ==
  \/ j = Len(r)
  \/ resetting /\ ~seen_old_head /\ r[Len(r)] = old_head /\ d # old_head

\* The head has arrived at the node that the move leads to.
LEMMA ArriveStands ==
  ASSUME HistoryInv, pc \in {"moving", "create"}, NEW hs, Owned(hs), NEW q, NEW k,
         Standing(hs, q, k), gamebegin_node_ \in Address,
         NEW d, Arrive(d), NEW g, NEW r, NEW j, j = k + 1,
         Line(node', g, gamebegin_node_, game.startpos, r, j),
         MovesOf(node', r, j) = Append(MovesOf(node, q, k), Head(todo)),
         r[j] = d, g[d] = AppendMove(hs[q[k]], Head(todo)), Ahead(r, j, d)
  PROVE  Standing(g, r, j)'
<1> DEFINE m == Head(todo)
<1>1. /\ todo \in Seq(Move) /\ todo # <<>> /\ m \in Move
      /\ m \in LegalMoves(Latest(history_).board) /\ Linked(history_) /\ CountersRight(history_)
    BY MoveIsLegal
<1>2. /\ current_head_' = d /\ history_' = AppendMove(history_, m) /\ todo' = Tail(todo)
      /\ seen_old_head' = (seen_old_head \/ d = old_head)
      /\ pc' = IF Len(todo) > 1 THEN "moving" ELSE IF resetting THEN "finish" ELSE "idle"
      /\ UNCHANGED <<gamebegin_node_, game, resetting, old_head>>
    BY DEF Arrive
<1>3. /\ history_ = hs[q[k]] /\ history_[1] = game.startpos
      /\ game.moves = MovesOf(node, q, k) \o todo
    BY DEF Standing
<1>4. history_' = g[r[j]] /\ history_'[1] = game.startpos
    BY <1>1, <1>2, <1>3, AppendMoveGrows
<1>5. game.moves = MovesOf(node', r, j) \o todo'
  <2> DEFINE s == MovesOf(node, q, k)
  <2>1. s \in Seq(Move)  BY HeadFacts, ChainHistory DEF Owned
  <2> HIDE DEF s, m
  <2>2. s \o todo = Append(s, Head(todo)) \o Tail(todo)  BY <1>1, <2>1, HeadGoesOver
  <2> QED  BY <1>2, <1>3, <2>2 DEF s
<1>6. pc' \in {"idle", "finish"} => todo' = <<>>
  <2>1. \A s \in Seq(Move) : s # <<>> /\ ~(Len(s) > 1) => Tail(s) = <<>>
    <3> SUFFICES ASSUME NEW s \in Seq(Move), s # <<>>, ~(Len(s) > 1) PROVE Tail(s) = <<>>
        OBVIOUS
    <3>1. Len(s) = 1 /\ Tail(s) \in Seq(Move) /\ Len(Tail(s)) = 0
      <4>1. Len(s) \in Nat /\ Len(s) # 0 /\ Tail(s) \in Seq(Move) /\ Len(Tail(s)) = Len(s) - 1
          OBVIOUS
      <4> QED  BY <4>1
    <3> QED  BY <3>1, EmptySeq
  <2> QED  BY <1>1, <1>2, <2>1
<1>7. \/ j = Len(r)
      \/ pc' \in {"moving", "finish"} /\ resetting' /\ ~seen_old_head' /\ r[Len(r)] = old_head'
    BY <1>2 DEF Ahead
<1>8. pc' # "create"  BY <1>2
<1>9. Line(node', g, gamebegin_node_', game'.startpos, r, j)  BY <1>2
<1>10. r[j] = current_head_' /\ game'.moves = MovesOf(node', r, j) \o todo'
       /\ history_'[1] = game'.startpos
    BY <1>2, <1>4, <1>5
<1> QED  BY <1>4, <1>6, <1>7, <1>8, <1>9, <1>10 DEF Standing

\* The ways of a move: to a new node, to a child that stays where it is, or to one that
\* gets a place of its own.
ToNew(x, m, a) ==
  /\ ChildAt(node, x, m) = {} /\ Grown(Spawn(node, x, m, a), node', x, a)
  /\ subtrees_to_gc_' = Queued(node[x].child) /\ Arrive(a)

ToChild(x, m, c) ==
  /\ c \in node[x].child /\ node[c].index = m /\ ~node[x].solid
  /\ node' = [Opened(node, c) EXCEPT ![x].child = {c}]
  /\ subtrees_to_gc_' = Queued(node[x].child \ {c}) /\ Arrive(c)

ToPlace(x, m, c, a) ==
  /\ c \in node[x].child /\ node[c].index = m /\ node[x].solid
  /\ node' = KeepOne(Opened(node, c), x, c, a)
  /\ subtrees_to_gc_' = Queued(node[x].child) /\ Arrive(a)

\* A node moves to where it is.
LEMMA KeepOneInPlace ==
  ASSUME NEW nodes \in [Address -> NodeType], NEW x \in Address, NEW a \in Address, a # x,
         nodes[a].child = {}, NEW after, after = KeepOne(nodes, x, a, a)
  PROVE  /\ after \in [Address -> NodeType] /\ \A y \in Address \ {x} : after[y] = nodes[y]
         /\ after[x].child = {a} /\ ~after[x].solid /\ SameNode(after[x], nodes[x])
         /\ after[x].parent = nodes[x].parent
<1> DEFINE to == [b \in {a} |-> a]
           moved == Moved(nodes, to)
<1>1. DOMAIN to = {a} /\ to[a] = a  OBVIOUS
<1>2. after = [moved EXCEPT ![x].child = {a}, ![x].solid = FALSE]  BY DEF KeepOne
<1>3. moved = Moved(nodes, to) /\ moved = [y \in Address |-> moved[y]]  BY DEF Moved
<1> HIDE DEF to, moved
<1>4. ASSUME NEW y \in Address PROVE moved[y] = nodes[y]  BY <1>1, <1>3, MovedPoints
<1>5. moved = nodes  BY <1>3, <1>4
<1>6. PICK p : p = [[nodes[x] EXCEPT !.child = {a}] EXCEPT !.solid = FALSE]  OBVIOUS
<1>7. /\ p.child = {a} /\ SameNode(p, nodes[x]) /\ p.parent = nodes[x].parent /\ p.solid = FALSE
      /\ p \in NodeType
  <2>1. nodes[x] \in NodeType  OBVIOUS
  <2> QED  BY <1>6, <2>1 DEF NodeType, SameNode
<1> HIDE DEF SameNode
<1> QED  BY <1>2, <1>5, <1>6, <1>7

\* Each move is one of the three.
LEMMA MoveSplits ==
  ASSUME NEW hs, Owned(hs), NEW x \in Address, current_head_ = x, node[x].used,
         NEW m \in Move, Head(todo) = m, MoveAlongEdge
  PROVE  /\ m \in node[x].edges
         /\ \E a \in Free(node) : \/ ToNew(x, m, a)
                                  \/ \E c : ToChild(x, m, c)
                                  \/ \E c : ToPlace(x, m, c, a)
<1>1. Forest(node, hs) /\ node \in [Address -> NodeType]  BY DEF Owned, Forest
<1>2. PICK a \in Allocated :
       LET spawned == Spawn(node, x, m, a)
           c == CHOOSE c \in ChildAt(spawned, x, m) : TRUE
           open == IF spawned[c].terminal = "no" THEN spawned ELSE MakeNotTerminal(spawned, c)
       IN IF node[x].solid
            THEN /\ node' = KeepOne(open, x, c, a)
                 /\ subtrees_to_gc_' = Queued(node[x].child)
                 /\ Arrive(a)
            ELSE /\ node' = [open EXCEPT ![x].child = {c}]
                 /\ subtrees_to_gc_' = Queued(node[x].child \ {c})
                 /\ Arrive(c)
    BY DEF MoveAlongEdge
<1>3. m \in node[x].edges  BY DEF MoveAlongEdge
<1>4. a \in Free(node) /\ a \in Address  BY DEF Allocated, Free
<1>5. PICK spawned : spawned = Spawn(node, x, m, a)  OBVIOUS
<1>6. PICK c : c = CHOOSE d \in ChildAt(spawned, x, m) : TRUE  OBVIOUS
<1>7. PICK open : open = Opened(spawned, c)  OBVIOUS
<1>8. IF node[x].solid
        THEN /\ node' = KeepOne(open, x, c, a)
             /\ subtrees_to_gc_' = Queued(node[x].child)
             /\ Arrive(a)
        ELSE /\ node' = [open EXCEPT ![x].child = {c}]
             /\ subtrees_to_gc_' = Queued(node[x].child \ {c})
             /\ Arrive(c)
    BY <1>2, <1>5, <1>6, <1>7 DEF Opened
<1>9. CASE ChildAt(node, x, m) = {}
  <2>1. /\ a # x /\ spawned[a] = NewNode(x, m)
        /\ spawned[x].child = node[x].child \cup {a}
        /\ \A y \in Address \ {a, x} : spawned[y] = node[y]
        /\ spawned \in [Address -> NodeType] /\ spawned[x].used
      BY <1>1, <1>4, <1>5, <1>9, SpawnPoints
  <2>2. spawned[a].index = m /\ spawned[a].terminal = "no" /\ spawned[a].child = {}
      BY <2>1, NewNodeFacts
  <2>3. \A d \in node[x].child : spawned[d].index # m
      BY <1>1, <1>4, <1>9, <2>1, FreeFacts, ChildFacts DEF ChildAt, ChildOfNone
  <2>4. c = a  BY <1>6, <2>1, <2>2, <2>3 DEF ChildAt
  <2>5. open = spawned  BY <1>7, <2>2, <2>4 DEF Opened
  <2>6. node[x].child \ {a} = node[x].child  BY <2>2, <2>3
  <2>7. CASE node[x].solid
    <3>1. node' = KeepOne(spawned, x, a, a) /\ subtrees_to_gc_' = Queued(node[x].child) /\ Arrive(a)
        BY <1>8, <2>4, <2>5, <2>7
    <3>2. PICK after : after = node'  OBVIOUS
    <3>3. /\ after \in [Address -> NodeType] /\ \A y \in Address \ {x} : after[y] = spawned[y]
          /\ after[x].child = {a} /\ ~after[x].solid /\ SameNode(after[x], spawned[x])
          /\ after[x].parent = spawned[x].parent
        BY <1>4, <2>1, <2>2, <3>1, <3>2, KeepOneInPlace
    <3>4. ToNew(x, m, a)  BY <1>5, <1>9, <3>1, <3>2, <3>3 DEF ToNew, Grown, SameNode
    <3> QED  BY <1>3, <1>4, <3>4
  <2>8. CASE ~node[x].solid
    <3>1. node' = [spawned EXCEPT ![x].child = {a}] /\ subtrees_to_gc_' = Queued(node[x].child) /\ Arrive(a)
        BY <1>8, <2>4, <2>5, <2>6, <2>8
    <3>2. PICK after : after = node'  OBVIOUS
    <3>3. PICK p : p = [spawned[x] EXCEPT !.child = {a}]  OBVIOUS
    <3>4. /\ p \in NodeType /\ p.used = spawned[x].used /\ p.parent = spawned[x].parent
          /\ p.index = spawned[x].index /\ p.edges = spawned[x].edges
          /\ p.child = {a} /\ p.solid = spawned[x].solid
      <4>1. spawned[x] \in NodeType  BY <2>1
      <4> QED  BY <1>4, <3>3, <4>1 DEF NodeType
    <3>5. after = [spawned EXCEPT ![x] = p]  BY <3>1, <3>2, <3>3
    <3>6. spawned[x].solid = node[x].solid  BY <1>1, <1>4, <1>5, <1>9, SpawnPoints
    <3>7. Grown(spawned, after, x, a)  BY <2>1, <2>8, <3>4, <3>5, <3>6 DEF Grown
    <3>8. ToNew(x, m, a)  BY <1>5, <1>9, <3>1, <3>2, <3>7 DEF ToNew
    <3> QED  BY <1>3, <1>4, <3>8
  <2> QED  BY <2>7, <2>8
<1>10. CASE ChildAt(node, x, m) # {}
  <2>1. c \in node[x].child /\ node[c].index = m /\ open = Opened(node, c)
      BY <1>5, <1>6, <1>7, <1>10 DEF ChildAt, Spawn
  <2>2. CASE node[x].solid  BY <1>3, <1>4, <1>8, <2>1, <2>2 DEF ToPlace
  <2>3. CASE ~node[x].solid
    <3>1. ToChild(x, m, c)  BY <1>8, <2>1, <2>3 DEF ToChild
    <3> QED  BY <1>3, <1>4, <3>1
  <2> QED  BY <2>2, <2>3
<1> QED  BY <1>9, <1>10

\* The head goes to a new node.
Joined(nodes, hs, x, a, m, after, g, h) ==
  /\ after[a] = NewNode(x, m) /\ after[x].child = {a} /\ ~after[x].solid
  /\ after[x].index = nodes[x].index /\ \A y \in Address \ {x, a} : after[y] = nodes[y]
  /\ g[a] = h /\ \A y \in Address \ {a} : g[y] = hs[y]

\* The line goes on.
GoneOn(nodes, q, k, after, g, r, a, m, h) ==
  /\ Line(after, g, gamebegin_node_, game.startpos, r, k + 1)
  /\ MovesOf(after, r, k + 1) = Append(MovesOf(nodes, q, k), m)
  /\ r[k + 1] = a /\ Len(r) = k + 1 /\ g[a] = h
  /\ Ready(after, g, r, {a})

\* The line to the new node, below which there is nothing.
LEMMA GrowsOn ==
  ASSUME NEW hs, Owned(hs), NEW q, NEW k, Standing(hs, q, k), gamebegin_node_ \in Address,
         NEW a \in Free(node), NEW m \in Move, NEW after,
         NEW g, NEW h, Joined(node, hs, current_head_, a, m, after, g, h),
         NEW r, Longer(q, k, a, r)
  PROVE  GoneOn(node, q, k, after, g, r, a, m, h)
<1> DEFINE x == current_head_
<1> HIDE DEF x
<1>1. /\ x \in Address /\ q[k] = x /\ Len(q) \in Nat /\ k \in Nat /\ k >= 1 /\ k <= Len(q)
      /\ \A i \in 1..Len(q) : q[i] \in Address /\ node[q[i]].used
      /\ \A i, j \in 1..Len(q) : q[i] = q[j] => i = j
    BY HeadFacts DEF x
<1>2. a \in Address /\ ~node[a].used  BY DEF Free
<1>3. r[k + 1] = a /\ Len(r) = k + 1 /\ \A i \in 1..k : r[i] = q[i]  BY DEF Longer
<1>4. /\ after[a] = NewNode(x, m) /\ after[x].child = {a} /\ ~after[x].solid
      /\ after[x].index = node[x].index /\ \A y \in Address \ {x, a} : after[y] = node[y]
      /\ g[a] = h /\ \A y \in Address \ {a} : g[y] = hs[y]
    BY DEF Joined, x
<1>5. /\ after[a].index = m /\ after[a].edges = {} /\ after[a].n = 0
      /\ after[a].terminal = "no" /\ after[a].child = {}
    BY <1>4, NewNodeFacts
<1>6. \A i \in 1..k : i \in 1..Len(q) /\ q[i] \in Address \ {a} /\ (i # k => q[i] # x)
    BY <1>1, <1>2
<1>7. Along(node, hs, after, g, q, k)  BY <1>1, <1>4, <1>6 DEF Along
<1>8. /\ Line(after, g, gamebegin_node_, game.startpos, r, k + 1)
      /\ MovesOf(after, r, k + 1) = Append(MovesOf(node, q, k), m)
  <2> DEFINE root == gamebegin_node_
             start == game.startpos
  <2>1. Line(node, hs, root, start, q, k) /\ after[q[k]].child = {a} /\ ~after[q[k]].solid
      BY <1>1, <1>4 DEF Standing
  <2> HIDE DEF root, start
  <2> QED  BY <1>2, <1>5, <1>7, <2>1, LineGrows DEF root, start
<1>9. Ready(after, g, r, {a})  BY <1>1, <1>2, <1>3, <1>5, <1>6, ReadyAlone
<1> QED  BY <1>3, <1>4, <1>8, <1>9 DEF GoneOn

\* The new node is the head.
NewHead(hs, g, a) ==
  LET x == current_head_ IN
  /\ g = With(hs, a, AppendMove(hs[x], Head(todo)))
  /\ Forest(node', g) /\ a # x /\ node'[a] = NewNode(x, Head(todo))
  /\ \A y \in Address \ {x, a} : node'[y] = node[y]
  /\ node'[x].index = node[x].index /\ node'[x].child = {a} /\ ~node'[x].solid /\ node'[x].used
  /\ subtrees_to_gc_' = Queued(node[x].child) /\ Arrive(a)

\* A new head is right.
LEMMA NewHeadKeeps ==
  ASSUME HistoryInv, pc \in {"moving", "create"}, NEW hs, Owned(hs), NEW q, NEW k,
         Standing(hs, q, k), gamebegin_node_ \in Address,
         NEW a \in Free(node), NEW g, NewHead(hs, g, a)
  PROVE  TreeInv'
<1> DEFINE x == current_head_
<1> HIDE DEF x
<1>1. x \in Address /\ node[x].used /\ q[k] = x /\ q \in Seq(Address) /\ k \in 1..Len(q)
    BY HeadFacts DEF x
<1>2. Forest(node, hs) /\ Owners(node, subtrees_to_gc_, gamebegin_node_)  BY DEF Owned
<1>3. PICK m : m = Head(todo)  OBVIOUS
<1>4. m \in Move  BY <1>3, MoveIsLegal
<1>5. PICK after : after = node'  OBVIOUS
<1>6. /\ g = With(hs, a, AppendMove(hs[x], m))
      /\ Forest(after, g) /\ a # x /\ after[a] = NewNode(x, m)
      /\ \A y \in Address \ {x, a} : after[y] = node[y]
      /\ after[x].index = node[x].index /\ after[x].child = {a} /\ ~after[x].solid /\ after[x].used
      /\ subtrees_to_gc_' = Queued(node[x].child) /\ Arrive(a)
    BY <1>3, <1>5 DEF NewHead, x
<1>7. Owners(after, subtrees_to_gc_', gamebegin_node_)
  <2> DEFINE more == Queued(node[x].child)
             gc == subtrees_to_gc_
             root == gamebegin_node_
  <2>1. more = IF node[x].child = {} THEN gc ELSE gc \cup {node[x].child}  BY DEF Queued
  <2>2. Owners(node, gc, root)  BY <1>2
  <2> HIDE DEF more, gc, root
  <2>3. Owners(after, more, root)  BY <1>1, <1>2, <1>4, <1>6, <2>1, <2>2, OwnersGrown
  <2> QED  BY <1>6, <2>3 DEF more, gc, root
<1>8. gamebegin_node_' = gamebegin_node_ /\ pc' \in {"idle", "moving", "finish"}
    BY <1>6 DEF Arrive
<1>9. Owned(g)'  BY <1>5, <1>6, <1>7, <1>8 DEF Owned
<1>10. a \in Address  BY DEF Free
<1>11. PICK r : Longer(q, k, a, r)  BY <1>1, <1>10, PrefixExists
<1>12. GoneOn(node, q, k, after, g, r, a, m, AppendMove(hs[x], m))
  <2> DEFINE h == AppendMove(hs[x], m)
  <2>1. Joined(node, hs, current_head_, a, m, after, g, h)
      BY <1>6, <1>10 DEF Joined, With, x
  <2> HIDE DEF h
  <2> QED  BY <1>4, <1>11, <2>1, GrowsOn DEF h
<1>13. PICK j : j = k + 1  OBVIOUS
<1>14. Standing(g, r, j)'
  <2>1. Ahead(r, j, a)  BY <1>12, <1>13 DEF Ahead, GoneOn
  <2>2. Line(node', g, gamebegin_node_, game.startpos, r, j)
      BY <1>5, <1>12, <1>13 DEF GoneOn
  <2>3. MovesOf(node', r, j) = Append(MovesOf(node, q, k), Head(todo))
      BY <1>3, <1>5, <1>12, <1>13 DEF GoneOn
  <2>4. r[j] = a /\ g[a] = AppendMove(hs[q[k]], Head(todo))
      BY <1>1, <1>3, <1>12, <1>13 DEF GoneOn
  <2>5. Arrive(a)  BY <1>6
  <2> QED  BY <1>13, <2>1, <2>2, <2>3, <2>4, <2>5, ArriveStands
<1>15. InGame(g, r, j, {a})'  BY <1>5, <1>12, <1>14 DEF InGame, GoneOn
<1> QED  BY <1>8, <1>9, <1>15, NodeTreeAssumption DEF TreeInv

\* MakeMove to a node that was not visited.
LEMMA ToNewKeeps ==
  ASSUME TreeInv, HistoryInv, pc = "moving", NEW hs, Owned(hs), NEW q, NEW k,
         Standing(hs, q, k), gamebegin_node_ \in Address,
         NEW x, current_head_ = x, NEW m, Head(todo) = m, m \in node[x].edges,
         NEW a \in Free(node), ToNew(x, m, a)
  PROVE  TreeInv'
<1>1. x \in Address /\ node[x].used  BY HeadFacts
<1>2. Forest(node, hs)  BY DEF Owned
<1>3. m \in Move  BY MoveIsLegal
<1>4. PICK after : after = node'  OBVIOUS
<1>5. PICK spawned : spawned = Spawn(node, x, m, a)  OBVIOUS
<1>6. /\ ChildAt(node, x, m) = {} /\ Grown(spawned, after, x, a)
      /\ subtrees_to_gc_' = Queued(node[x].child) /\ Arrive(a)
    BY <1>4, <1>5 DEF ToNew
<1>7. PICK g : g = With(hs, a, AppendMove(hs[x], m))  OBVIOUS
<1>8. /\ Forest(after, g)
      /\ a # x /\ after[a] = NewNode(x, m)
      /\ \A y \in Address \ {x, a} : after[y] = node[y]
      /\ after[x].index = node[x].index
    BY <1>1, <1>2, <1>5, <1>6, <1>7, ForestGrown
<1>9. after[x].child = {a} /\ ~after[x].solid /\ after[x].used = spawned[x].used
    BY <1>6 DEF Grown
<1>10. after[x].used  BY <1>1, <1>2, <1>3, <1>5, <1>6, <1>9, SpawnPoints
<1>11. NewHead(hs, g, a)  BY <1>4, <1>6, <1>7, <1>8, <1>9, <1>10 DEF NewHead
<1> QED  BY <1>11, NewHeadKeeps

\* CreateSingleChildNode: the head has no edges, so no children either.
LEMMA CreateKeeps ==
  ASSUME TreeInv, HistoryInv, CreateSingleChildNode
  PROVE  TreeInv'
<1>1. pc = "create" /\ gamebegin_node_ \in Address  BY DEF CreateSingleChildNode, TreeInv
<1>2. PICK hs, q, k, D : Owned(hs) /\ InGame(hs, q, k, D)  BY <1>1 DEF TreeInv
<1>3. Standing(hs, q, k)  BY <1>2 DEF InGame
<1>4. PICK x : x = current_head_  OBVIOUS
<1>5. /\ x \in Address /\ node[x].used
      /\ node[x].edges = {} /\ node[x].child = {} /\ ~node[x].solid
    <2>1. x \in Address /\ node[x].used  BY <1>1, <1>2, <1>3, <1>4, HeadFacts
    <2> QED  BY <1>1, <1>3, <1>4, <2>1 DEF Standing
<1>6. Forest(node, hs) /\ node \in [Address -> NodeType]  BY <1>2 DEF Owned, Forest
<1>7. PICK m : m = Head(todo)  OBVIOUS
<1>8. m \in Move /\ m \in LegalMoves(Latest(hs[x]).board)
    BY <1>1, <1>3, <1>4, <1>7, MoveIsLegal DEF Standing
<1>9. PICK a \in Free(node) : /\ node' = [Spawn(node, x, m, a) EXCEPT ![x].edges = @ \cup {m}]
                             /\ Arrive(a) /\ subtrees_to_gc_' = subtrees_to_gc_
    BY <1>4, <1>7 DEF CreateSingleChildNode, Allocated
<1>10. PICK p : p = Spawn(node, x, m, a)  OBVIOUS
<1>11. ChildAt(node, x, m) = {}  BY <1>5 DEF ChildAt
<1>12. /\ a \in Address /\ a # x /\ p[a] = NewNode(x, m) /\ p[x].child = {a}
       /\ p[x].used /\ p[x].parent = node[x].parent /\ p[x].index = node[x].index
       /\ p[x].edges = {} /\ ~p[x].solid
       /\ \A y \in Address \ {a, x} : p[y] = node[y] /\ p \in [Address -> NodeType]
    BY <1>5, <1>6, <1>8, <1>10, <1>11, SpawnPoints
<1>13. PICK after : after = node'  OBVIOUS
<1>14. /\ after \in [Address -> NodeType] /\ \A y \in Address \ {x} : after[y] = p[y]
       /\ after[x].used /\ after[x].parent = node[x].parent /\ after[x].index = node[x].index
       /\ after[x].edges = {m} /\ after[x].child = {a} /\ ~after[x].solid
  <2>1. p \in [Address -> NodeType] /\ p[x] \in NodeType
      BY <1>5, <1>6, <1>8, <1>10, <1>11, SpawnPoints
  <2>2. PICK v : v = p[x].edges \cup {m}  OBVIOUS
  <2>3. PICK z : z = [p[x] EXCEPT !.edges = v]  OBVIOUS
  <2>5. after = [p EXCEPT ![x] = z]
    <3>1. after = [p EXCEPT ![x].edges = @ \cup {m}]  BY <1>9, <1>10, <1>13
    <3> QED  BY <2>2, <2>3, <3>1
  <2>6. v = {m} /\ v \in SUBSET Move  BY <1>8, <1>12, <2>2
  <2>4. /\ z \in NodeType /\ z.edges = {m} /\ z.used = p[x].used /\ z.parent = p[x].parent
        /\ z.index = p[x].index /\ z.child = p[x].child /\ z.solid = p[x].solid
      BY <2>1, <2>3, <2>6, SetEdges
  <2> QED  BY <1>5, <1>12, <2>1, <2>4, <2>5
\* As if the edge had been there before.
<1>15. PICK mid : mid = [node EXCEPT ![x] = [node[x] EXCEPT !.edges = {m}]]  OBVIOUS
<1>16. /\ mid \in [Address -> NodeType] /\ \A y \in Address \ {x} : mid[y] = node[y]
       /\ mid[x].edges = {m} /\ mid[x].used = node[x].used /\ mid[x].parent = node[x].parent
       /\ mid[x].index = node[x].index /\ mid[x].child = node[x].child
  <2>1. PICK z : z = [node[x] EXCEPT !.edges = {m}]  OBVIOUS
  <2>2. /\ z \in NodeType /\ z.edges = {m} /\ z.used = node[x].used /\ z.parent = node[x].parent
        /\ z.index = node[x].index /\ z.child = node[x].child
    <3>1. PICK w : w = node[x]  OBVIOUS
    <3>2. PICK E : E = {m}  OBVIOUS
    <3>3. w \in NodeType /\ E \in SUBSET Move /\ z = [w EXCEPT !.edges = E]
        BY <1>5, <1>6, <1>8, <2>1, <3>1, <3>2
    <3>4. /\ z \in NodeType /\ z.edges = E /\ z.used = w.used /\ z.parent = w.parent
          /\ z.index = w.index /\ z.child = w.child
        BY <3>3, SetEdges
    <3> QED  BY <3>1, <3>2, <3>4
  <2> QED  BY <1>5, <1>6, <1>15, <2>1, <2>2
<1>17. Forest(mid, hs)
  <2>1. ASSUME NEW y \in Address
        PROVE  /\ mid[y].used = node[y].used /\ mid[y].parent = node[y].parent
               /\ mid[y].index = node[y].index /\ mid[y].child \subseteq node[y].child
               /\ ~node[y].used => mid[y] = node[y]
               /\ \/ mid[y].edges \subseteq LegalMoves(Latest(hs[y]).board)
                  \/ mid[y].edges = node[y].edges
               /\ \A c \in mid[y].child : node[c].index \in mid[y].edges
    <3>1. CASE y = x  BY <1>5, <1>8, <1>16, <3>1
    <3>2. CASE y # x  BY <1>6, <1>16, <3>2, ChildFacts
    <3> QED  BY <3>1, <3>2
  <2> QED  BY <1>6, <1>16, <2>1, ForestKept
<1>18. PICK spawned : spawned = Spawn(mid, x, m, a)  OBVIOUS
<1>19. ChildAt(mid, x, m) = {} /\ a \in Free(mid)
    BY <1>5, <1>12, <1>16, <1>9 DEF ChildAt, Free
<1>20. Grown(spawned, after, x, a)
  <2>1. /\ spawned[a] = NewNode(x, m) /\ spawned[x].used /\ spawned[x].parent = mid[x].parent
        /\ spawned[x].index = mid[x].index /\ spawned[x].edges = mid[x].edges
        /\ \A y \in Address \ {a, x} : spawned[y] = mid[y]
    <3>1. mid[x].used  BY <1>5, <1>16
    <3> QED  BY <1>5, <1>8, <1>17, <1>18, <1>19, <3>1, SpawnPoints
  <2>2. ASSUME NEW y \in Address \ {x} PROVE after[y] = spawned[y]
      BY <1>12, <1>14, <1>16, <2>1
  <2> QED  BY <1>14, <1>16, <2>1, <2>2 DEF Grown
<1>21. PICK g : g = With(hs, a, AppendMove(hs[x], m))  OBVIOUS
<1>22. m \in mid[x].edges /\ mid[x].used  BY <1>5, <1>16
<1>23. Forest(after, g)  BY <1>5, <1>17, <1>18, <1>19, <1>20, <1>21, <1>22, ForestGrown
<1>24. subtrees_to_gc_' = Queued(node[x].child)  BY <1>5, <1>9 DEF Queued
<1>25. \A y \in Address \ {x, a} : after[y] = node[y]  BY <1>12, <1>14
<1>26. after[a] = NewNode(x, m)  BY <1>12, <1>14
<1>27. NewHead(hs, g, a)
    BY <1>4, <1>7, <1>9, <1>12, <1>13, <1>14, <1>21, <1>23, <1>24, <1>25, <1>26 DEF NewHead
<1> QED  BY <1>1, <1>2, <1>3, <1>27, NewHeadKeeps

\* A node keeps one child, the next head, where it is.
Narrowed(nodes, hs, after, x, c) ==
  /\ Forest(after, hs) /\ \A y \in Address \ {x, c} : after[y] = nodes[y]
  /\ after[x].used = nodes[x].used /\ after[x].index = nodes[x].index
  /\ after[x].child = {c} /\ after[x].solid = nodes[x].solid
  /\ after[c].used = nodes[c].used /\ after[c].index = nodes[c].index
  /\ after[c].child = nodes[c].child /\ after[c].solid = nodes[c].solid
  /\ Extended(nodes, hs, c) /\ Counted(nodes, c, None) => Sound(after, hs, c)

\* The children of a node.
LEMMA SetChild ==
  ASSUME NEW p \in NodeType, NEW C \in SUBSET Address, NEW q, q = [p EXCEPT !.child = C]
  PROVE  q.child = C /\ SameNode(q, p) /\ q.parent = p.parent /\ q.solid = p.solid /\ q \in NodeType
BY DEF NodeType, SameNode

\* A node that keeps one child.
LEMMA ForestNarrowed ==
  ASSUME NEW nodes, NEW hs, Forest(nodes, hs), NEW x \in Address, NEW c \in nodes[x].child,
         NEW after \in [Address -> NodeType], \A y \in Address \ {x} : after[y] = nodes[y],
         after[x].child = {c}, SameNode(after[x], nodes[x]), after[x].parent = nodes[x].parent
  PROVE  Forest(after, hs)
BY ChildFacts, ForestKept DEF SameNode

Narrow(nodes, x, c) == [Opened(nodes, c) EXCEPT ![x].child = {c}]

\* ReleaseChildrenExceptOne for siblings in a list: nothing moves.
LEMMA NarrowPoints ==
  ASSUME NEW nodes, NEW hs, Forest(nodes, hs), NEW x \in Address, NEW c \in nodes[x].child,
         NEW after, after = Narrow(nodes, x, c)
  PROVE  Narrowed(nodes, hs, after, x, c)
<1>1. c \in Address /\ c # x /\ nodes[c].used /\ nodes[c].index \in nodes[x].edges
    BY ChildFacts
<1>2. PICK open : open = Opened(nodes, c)  OBVIOUS
<1>3. Reopened(nodes, open, c)  BY <1>1, <1>2, OpenPoints
<1>4. Forest(open, hs)  BY <1>1, <1>2, OpenFacts
<1>5. Extended(nodes, hs, c) /\ Counted(nodes, c, None) => Sound(open, hs, c)
    BY <1>1, <1>2, OpenFacts
<1>6. /\ open \in [Address -> NodeType] /\ \A y \in Address \ {c} : open[y] = nodes[y]
      /\ open[c].used = nodes[c].used /\ open[c].index = nodes[c].index
      /\ open[c].child = nodes[c].child /\ open[c].solid = nodes[c].solid
    BY <1>3 DEF Reopened
<1>7. PICK p : p = open[x]  OBVIOUS
<1>8. p = nodes[x] /\ p \in NodeType  BY <1>1, <1>6, <1>7
<1>9. PICK z : z = [p EXCEPT !.child = {c}]  OBVIOUS
<1>10. z.child = {c} /\ SameNode(z, p) /\ z.parent = p.parent /\ z.solid = p.solid /\ z \in NodeType
  <2>1. PICK C : C = {c}  OBVIOUS
  <2>2. C \in SUBSET Address /\ z = [p EXCEPT !.child = C]  BY <1>1, <1>9, <2>1
  <2> QED  BY <1>8, <2>1, <2>2, SetChild
<1>11. after \in [Address -> NodeType] /\ after[x] = z /\ \A y \in Address \ {x} : after[y] = open[y]
    BY <1>2, <1>6, <1>7, <1>9, <1>10 DEF Narrow
<1>12. Forest(after, hs)  BY <1>1, <1>4, <1>6, <1>7, <1>10, <1>11, ForestNarrowed
<1>13. Sound(open, hs, c) => Sound(after, hs, c)
  <2>1. SUFFICES ASSUME Sound(open, hs, c) PROVE Sound(after, hs, c)  OBVIOUS
  <2>2. ASSUME NEW d \in open[c].child
        PROVE  /\ after[d].n = open[d].n /\ after[d].index = open[d].index
               /\ after[d].lower = open[d].lower /\ after[d].upper = open[d].upper
      BY <1>1, <1>4, <1>7, <1>10, <1>11, <2>2, ChildFacts DEF SameNode
  <2>3. Alike(open, hs, c, after, hs, c)  BY <1>1, <1>11, <2>2 DEF Alike
  <2> QED  BY <1>1, <1>6, <1>11, <2>1, <2>3, SoundAs
<1> QED  BY <1>1, <1>5, <1>6, <1>7, <1>8, <1>10, <1>11, <1>12, <1>13 DEF Narrowed, SameNode

\* Its other children are queued.
LEMMA NarrowOwners ==
  ASSUME NEW nodes, NEW hs, Forest(nodes, hs), NEW x \in Address, NEW c \in nodes[x].child,
         NEW after, Narrowed(nodes, hs, after, x, c), NEW garbage, NEW root,
         Owners(nodes, garbage, root), NEW lost, lost = nodes[x].child \ {c},
         NEW more, more = IF lost = {} THEN garbage ELSE garbage \cup {lost}
  PROVE  Owners(after, more, root)
<1>1. c \in Address /\ c # x  BY ChildFacts
<1>2. Forest(after, hs)  BY DEF Narrowed
<1>3. \A y \in Address : after[y].used = nodes[y].used  BY DEF Narrowed
<1>4. \A y \in Address \ {x} : after[y].child = nodes[y].child  BY DEF Narrowed
<1>5. after[x].child \subseteq nodes[x].child /\ lost = nodes[x].child \ after[x].child
    BY DEF Narrowed
<1> QED  BY <1>2, <1>3, <1>4, <1>5, OwnersRelease

\* What is below the next head is ready.
LEMMA NarrowHealthy ==
  ASSUME NEW nodes, NEW hs, Forest(nodes, hs), NEW x \in Address, NEW c \in nodes[x].child,
         NEW after, Narrowed(nodes, hs, after, x, c),
         NEW D \in SUBSET Address, NEW top, Healthy(nodes, hs, D, top, None),
         NEW E \in SUBSET D, NEW head \in E, x \notin E, \A z \in E \ {head} : z # top,
         c \in E => c = head, Closed(nodes, E), \A z \in E : x \notin nodes[z].child
  PROVE  Closed(after, E) /\ Healthy(after, hs, E, head, None)
<1>1. /\ Forest(after, hs) /\ \A y \in Address \ {x, c} : after[y] = nodes[y]
      /\ after[c].child = nodes[c].child
      /\ Extended(nodes, hs, c) /\ Counted(nodes, c, None) => Sound(after, hs, c)
    BY DEF Narrowed
<1>2. nodes \in [Address -> NodeType] /\ after \in [Address -> NodeType]  BY <1>1 DEF Forest
<1>3. ASSUME NEW z \in E, z # c PROVE Alike(nodes, hs, z, after, hs, z)
    BY <1>1, <1>3, ChildFacts DEF Alike
<1>4. Sound(after, hs, head)  BY <1>1, <1>2, <1>3, SoundAs DEF Healthy, Sound
<1>5. ASSUME NEW z \in E \ {head} PROVE \E y \in D \ {top} : Alike(nodes, hs, y, after, hs, z)
    BY <1>3, <1>5
<1> QED  BY <1>1, <1>2, <1>4, <1>5, HealthyAs DEF Closed

\* In the part of the search, the head is the child of none.
LEMMA HeadAlone ==
  ASSUME NEW hs, Owned(hs), NEW q, NEW k, Standing(hs, q, k), gamebegin_node_ \in Address,
         NEW D, Ready(node, hs, q, D), NEW y \in D
  PROVE  current_head_ \notin node[y].child
<1>1. /\ Len(q) \in Nat /\ k \in Nat /\ k >= 1 /\ k <= Len(q) /\ q[k] = current_head_
      /\ \A i \in 1..(Len(q) - 1) : node[q[i + 1]].parent = q[i]
    BY HeadFacts
<1>2. D \subseteq Address /\ Closed(node, D) /\ \A i \in 1..(Len(q) - 1) : q[i] \notin D
    BY DEF Ready
<1>3. CASE k = Len(q)
  <2>1. CASE k = 1  BY <1>1, <1>2, <2>1, OwnersRoot DEF Standing, Line, ChildOfNone
  <2>2. CASE k > 1
    <3>1. PICK i \in 1..(Len(q) - 1) : k = i + 1
      <4>1. k - 1 \in 1..(Len(q) - 1) /\ k = (k - 1) + 1  BY <1>1, <1>3, <2>2
      <4> QED  BY <4>1
    <3>2. node[current_head_].parent = q[i] /\ q[i] \notin D  BY <1>1, <1>2, <3>1
    <3>3. Forest(node, hs) /\ y \in Address  BY <1>2 DEF Owned
    <3> QED  BY <3>2, <3>3, ChildFacts
  <2> QED  BY <1>1, <2>1, <2>2
<1>4. CASE k # Len(q)  BY <1>1, <1>2, <1>4 DEF Closed
<1> QED  BY <1>3, <1>4

\* The head follows the line, which goes on anyway.
OnLine(hs, after, q, k, c, m) ==
  /\ k + 1 <= Len(q) /\ q[k + 1] = c
  /\ Line(after, hs, gamebegin_node_, game.startpos, q, k + 1)
  /\ MovesOf(after, q, k + 1) = Append(MovesOf(node, q, k), m)

\* The head steps down the line.
LEMMA FollowsLine ==
  ASSUME NEW hs, Owned(hs), NEW q, NEW k, Standing(hs, q, k), gamebegin_node_ \in Address,
         k # Len(q), NEW c \in node[current_head_].child, NEW m, node[c].index = m,
         NEW after, Narrowed(node, hs, after, current_head_, c)
  PROVE  OnLine(hs, after, q, k, c, m)
<1> DEFINE x == current_head_
           root == gamebegin_node_
           start == game.startpos
<1>1. /\ x \in Address /\ q[k] = x /\ Len(q) \in Nat /\ k \in Nat /\ k >= 1 /\ k <= Len(q)
      /\ q \in Seq(Address) /\ \A i \in 1..Len(q) : q[i] \in Address
      /\ \A i, j \in 1..Len(q) : q[i] = q[j] => i = j
    BY HeadFacts
<1>2. Line(node, hs, root, start, q, k)  BY DEF Standing
<1> HIDE DEF root, start
<1>3. /\ \A i \in 1..(Len(q) - 1) : node[q[i]].child = {q[i + 1]} /\ ~node[q[i]].solid
      /\ q[1] = root /\ hs[root] = <<start>>
    BY <1>2 DEF Line
<1>4. k \in 1..(Len(q) - 1) /\ k + 1 \in 1..Len(q)  BY <1>1
<1>5. c = q[k + 1] /\ c \in Address /\ node[x].child = {c} /\ c # x
  <2>1. node[x].child = {q[k + 1]} /\ c \in node[x].child  BY <1>1, <1>3, <1>4 DEF x
  <2> QED  BY <1>1, <2>1, ChildFacts DEF Owned
<1>6. /\ \A y \in Address \ {x, c} : after[y] = node[y]
      /\ after[x].index = node[x].index /\ after[x].child = {c} /\ after[x].solid = node[x].solid
      /\ after[c].index = node[c].index
      /\ after[c].child = node[c].child /\ after[c].solid = node[c].solid
    BY DEF Narrowed, x
<1>7. ASSUME NEW y \in Address
      PROVE  /\ after[y].index = node[y].index /\ after[y].child = node[y].child
             /\ after[y].solid = node[y].solid
  <2>1. CASE y = x  BY <1>5, <1>6, <2>1
  <2>2. CASE y = c  BY <1>6, <2>2
  <2>3. CASE y # x /\ y # c  BY <1>6, <2>3
  <2> QED  BY <2>1, <2>2, <2>3
<1>8. Line(node, hs, root, start, q, k + 1)  BY <1>1, <1>2, <1>4 DEF Line
<1>9. PICK j : j = k + 1  OBVIOUS
<1>10. Along(node, hs, after, hs, q, Len(q)) /\ Along(node, hs, after, hs, q, j)
    BY <1>1, <1>4, <1>7, <1>9 DEF Along
<1>11. PICK r : Prefix(q, j, r)  BY <1>1, <1>4, <1>9, PrefixExists
<1>12. Longer(q, k, c, r)  BY <1>1, <1>5, <1>9, <1>11 DEF Prefix, Longer
<1>13. MovesOf(node, r, k + 1) = Append(MovesOf(node, q, k), m)
  <2>1. node[q[k]].child = {c} /\ ~node[q[k]].solid /\ c \in Address
      BY <1>1, <1>3, <1>4, <1>5
  <2> QED  BY <1>2, <1>12, <2>1, LineGrows DEF Along
<1>14. MovesOf(node, r, j) = MovesOf(node, q, j)
    BY <1>1, <1>4, <1>8, <1>9, <1>11, LineKept DEF Along
<1>15. Line(after, hs, root, start, q, j) /\ MovesOf(after, q, j) = MovesOf(node, q, j)
    BY <1>1, <1>4, <1>8, <1>9, <1>10, PrefixExists, LineKept
<1> QED  BY <1>1, <1>4, <1>5, <1>9, <1>13, <1>14, <1>15 DEF OnLine, root, start

\* The new head is at the end of the line: c is below it, in the part of the search.
PastLine(hs, after, q, k, c, m, r, E) ==
  /\ Line(after, hs, gamebegin_node_, game.startpos, r, k + 1)
  /\ MovesOf(after, r, k + 1) = Append(MovesOf(node, q, k), m)
  /\ r[k + 1] = c /\ Len(r) = k + 1 /\ Ready(after, hs, r, E)

\* The head steps down from the end of the line.
LEMMA LeavesLine ==
  ASSUME NEW hs, Owned(hs), NEW q, NEW k, Standing(hs, q, k), gamebegin_node_ \in Address,
         k = Len(q), NEW D, Ready(node, hs, q, D),
         NEW c \in node[current_head_].child, NEW m, node[c].index = m, ~node[current_head_].solid,
         NEW after, Narrowed(node, hs, after, current_head_, c),
         NEW r, Longer(q, k, c, r)
  PROVE  PastLine(hs, after, q, k, c, m, r, D \ {current_head_})
<1> DEFINE x == current_head_
           root == gamebegin_node_
           start == game.startpos
<1>1. /\ x \in Address /\ q[k] = x /\ Len(q) \in Nat /\ k \in Nat /\ k >= 1
      /\ q \in Seq(Address) /\ \A i \in 1..Len(q) : q[i] \in Address
      /\ \A i, j \in 1..Len(q) : q[i] = q[j] => i = j
  <2>1. /\ x \in Address /\ q[k] = x /\ Len(q) \in Nat /\ k \in Nat /\ k >= 1 /\ q \in Seq(Address)
      BY HeadFacts
  <2>2. \A i \in 1..Len(q) : q[i] \in Address  BY HeadFacts
  <2>3. \A i, j \in 1..Len(q) : q[i] = q[j] => i = j  BY HeadFacts
  <2> QED  BY <2>1, <2>2, <2>3
<1>2. Line(node, hs, root, start, q, k) /\ Forest(node, hs)  BY DEF Standing, Owned
<1>3. /\ D \subseteq Address /\ x \in D /\ Closed(node, D) /\ Healthy(node, hs, D, x, None)
      /\ \A i \in 1..(Len(q) - 1) : q[i] \notin D
    BY <1>1 DEF Ready
<1>4. \A y \in D : x \notin node[y].child  BY HeadAlone
<1>5. c \in D /\ c \in Address /\ c # x  BY <1>1, <1>2, <1>3, ChildFacts DEF Closed
<1>6. /\ \A y \in Address \ {x, c} : after[y] = node[y]
      /\ after[x].index = node[x].index /\ after[x].child = {c} /\ after[x].solid = node[x].solid
      /\ after[c].index = node[c].index
    BY DEF Narrowed
<1>7. c \in node[x].child /\ Narrowed(node, hs, after, x, c)  OBVIOUS
<1> HIDE DEF x, root, start
<1>8. \A i \in 1..(k - 1) : i \in 1..Len(q) /\ q[i] # x /\ q[i] # c /\ q[i] \in Address
    BY <1>1, <1>3, <1>5
<1>9. Along(node, hs, after, hs, q, k)
  <2>1. ASSUME NEW i \in 1..k PROVE after[q[i]].index = node[q[i]].index
      BY <1>1, <1>6, <1>8
  <2> QED  BY <1>6, <1>8, <2>1 DEF Along
<1>10. /\ Line(after, hs, root, start, r, k + 1)
       /\ MovesOf(after, r, k + 1) = Append(MovesOf(node, q, k), m)
    BY <1>1, <1>2, <1>5, <1>6, <1>9, LineGrows DEF x
<1>11. PICK E : E = D \ {x}  OBVIOUS
<1>12. c \in E /\ E \subseteq D /\ x \notin E /\ E \in SUBSET D  BY <1>5, <1>11
<1>13. Closed(after, E) /\ Healthy(after, hs, E, c, None)
  <2>1. \A z \in E \ {c} : z # x  BY <1>12
  <2>2. \A z \in E : x \notin node[z].child  BY <1>4, <1>12
  <2>3. Closed(node, E)  BY <1>3, <1>11, <2>2 DEF Closed
  <2>4. D \in SUBSET Address  BY <1>3
  <2> QED  BY <1>1, <1>2, <1>3, <1>7, <1>12, <2>1, <2>2, <2>3, <2>4, NarrowHealthy
<1>14. r[k + 1] = c /\ Len(r) = k + 1 /\ \A i \in 1..k : r[i] = q[i]  BY DEF Longer
<1>15. Ready(after, hs, r, E)  BY <1>1, <1>3, <1>12, <1>13, <1>14 DEF Ready
<1> QED  BY <1>10, <1>11, <1>14, <1>15 DEF PastLine, x, root, start

\* They are queued in the tree's garbage.
LEMMA NarrowQueued ==
  ASSUME NEW hs, Forest(node, hs), Owners(node, subtrees_to_gc_, gamebegin_node_),
         NEW x \in Address, NEW c \in node[x].child, NEW after, Narrowed(node, hs, after, x, c)
  PROVE  Owners(after, Queued(node[x].child \ {c}), gamebegin_node_)
<1>1. PICK lost : lost = node[x].child \ {c}  OBVIOUS
<1>2. PICK more : more = Queued(lost)  OBVIOUS
<1>3. PICK garbage, root : garbage = subtrees_to_gc_ /\ root = gamebegin_node_  OBVIOUS
<1>4. more = IF lost = {} THEN garbage ELSE garbage \cup {lost}  BY <1>2, <1>3 DEF Queued
<1>5. Owners(node, garbage, root)  BY <1>3
<1>6. Owners(after, more, root)  BY <1>1, <1>4, <1>5, NarrowOwners
<1> QED  BY <1>1, <1>2, <1>3, <1>6

\* MakeMove to a child in a list.
LEMMA ToChildKeeps ==
  ASSUME HistoryInv, pc = "moving", NEW hs, NEW q, NEW k, NEW D, Owned(hs), Standing(hs, q, k),
         Ready(node, hs, q, D), gamebegin_node_ \in Address,
         NEW x, current_head_ = x, NEW m, Head(todo) = m, NEW c, ToChild(x, m, c)
  PROVE  TreeInv'
<1>1. /\ x \in Address /\ q[k] = x /\ Len(q) \in Nat /\ k \in Nat /\ k >= 1 /\ k <= Len(q)
      /\ q \in Seq(Address) /\ \A i \in 1..Len(q) : q[i] \in Address
      /\ \A i, j \in 1..Len(q) : q[i] = q[j] => i = j
    BY HeadFacts
<1>2. Forest(node, hs) /\ Owners(node, subtrees_to_gc_, gamebegin_node_)  BY DEF Owned
<1>3. PICK after : after = node'  OBVIOUS
<1>4. /\ c \in node[x].child /\ node[c].index = m /\ ~node[x].solid /\ after = Narrow(node, x, c)
      /\ subtrees_to_gc_' = Queued(node[x].child \ {c}) /\ Arrive(c)
    BY <1>3 DEF ToChild, Narrow
<1>5. /\ Narrowed(node, hs, after, x, c) /\ c \in Address /\ hs[c] = AppendMove(hs[x], m)
    BY <1>1, <1>2, <1>4, NarrowPoints, ChildFacts
<1>6. Owners(after, subtrees_to_gc_', gamebegin_node_)
    BY <1>1, <1>2, <1>4, <1>5, NarrowQueued
<1>7. gamebegin_node_' = gamebegin_node_ /\ pc' \in {"idle", "moving", "finish"}
    BY <1>4 DEF Arrive
<1>8. Owned(hs)'  BY <1>3, <1>5, <1>6, <1>7 DEF Owned, Narrowed
<1>9. PICK j : j = k + 1  OBVIOUS
<1>10. ASSUME NEW r, NEW E, Ahead(r, j, c), Line(after, hs, gamebegin_node_, game.startpos, r, j),
              MovesOf(after, r, j) = Append(MovesOf(node, q, k), m), r[j] = c,
              Ready(after, hs, r, E)
       PROVE  InGame(hs, r, j, E)'
  <2>1. Line(node', hs, gamebegin_node_, game.startpos, r, j)  BY <1>3, <1>10
  <2>2. MovesOf(node', r, j) = Append(MovesOf(node, q, k), Head(todo))  BY <1>3, <1>10
  <2>3. hs[c] = AppendMove(hs[q[k]], Head(todo))  BY <1>1, <1>5
  <2>4. Arrive(c) /\ pc \in {"moving", "create"}  BY <1>4
  <2>5. Standing(hs, r, j)'  BY <1>9, <1>10, <2>1, <2>2, <2>3, <2>4, ArriveStands
  <2> QED  BY <1>3, <1>10, <2>5 DEF InGame
<1>11. \E r, E : InGame(hs, r, j, E)'
  <2>1. CASE k = Len(q)
    <3>1. PICK r : Longer(q, k, c, r)  BY <1>1, <1>5, <2>1, PrefixExists
    <3>2. PastLine(hs, after, q, k, c, m, r, D \ {current_head_})
        BY <1>4, <1>5, <2>1, <3>1, LeavesLine
    <3>3. PICK E : E = D \ {current_head_}  OBVIOUS
    <3> QED  BY <1>9, <1>10, <3>2, <3>3 DEF Ahead, PastLine
  <2>2. CASE k # Len(q)
    <3>1. /\ j <= Len(q) /\ q[j] = c
          /\ Line(after, hs, gamebegin_node_, game.startpos, q, j)
          /\ MovesOf(after, q, j) = Append(MovesOf(node, q, k), m)
        BY <1>4, <1>5, <1>9, <2>2, FollowsLine DEF OnLine
    <3>2. PICK l : l = Len(q)  OBVIOUS
    <3>3. l \in 1..Len(q) /\ j \in 1..Len(q) /\ k \in 1..(Len(q) - 1)
        BY <1>1, <1>9, <2>2, <3>1, <3>2
    <3>4. Ahead(q, j, c)  BY <1>1, <2>2, <3>1, <3>2, <3>3 DEF Standing, Ahead
    <3>5. /\ D \in SUBSET Address /\ q[l] \in D /\ Closed(node, D) /\ Healthy(node, hs, D, q[l], None)
          /\ \A i \in 1..(Len(q) - 1) : q[i] \notin D
        BY <3>2 DEF Ready
    <3>6. x \notin D  BY <1>1, <3>3, <3>5
    <3>7. \A z \in D : x \notin node[z].child  BY <3>5, <3>6 DEF Closed
    <3>8. c \in D => c = q[l]  BY <1>1, <3>1, <3>2, <3>3, <3>5
    <3>9. Closed(after, D) /\ Healthy(after, hs, D, q[l], None)
      <4>1. PICK top : top = q[l]  OBVIOUS
      <4>2. Healthy(node, hs, D, top, None) /\ top \in D /\ D \in SUBSET D /\ (c \in D => c = top)
          BY <3>5, <3>8, <4>1
      <4>3. \A z \in D \ {top} : z # top  OBVIOUS
      <4>4. Closed(after, D) /\ Healthy(after, hs, D, top, None)
          BY <1>1, <1>2, <1>4, <1>5, <3>5, <3>6, <3>7, <4>2, <4>3, NarrowHealthy
      <4> QED  BY <4>1, <4>4
    <3>10. Ready(after, hs, q, D)  BY <3>2, <3>5, <3>9 DEF Ready
    <3> QED  BY <1>10, <3>1, <3>4, <3>10
  <2> QED  BY <2>1, <2>2
<1> QED  BY <1>7, <1>8, <1>11, NodeTreeAssumption DEF TreeInv

\* The next head leaves the block of its siblings for a place of its own.
Placed(nodes, hs, after, g, x, c, a) ==
  /\ Forest(after, g)
  /\ after[x].child = {a} /\ ~after[x].solid /\ after[x].index = nodes[x].index
  /\ after[a].index = nodes[c].index /\ after[a].child = nodes[c].child
  /\ g[a] = hs[c] /\ \A y \in Address \ {a} : g[y] = hs[y]
  /\ \A y \in Address \ {x, c, a} :
       SameNode(after[y], nodes[y]) /\ after[y].child = nodes[y].child
         /\ after[y].solid = nodes[y].solid
  /\ Extended(nodes, hs, c) /\ Counted(nodes, c, None) => Sound(after, g, a)

\* ReleaseChildrenExceptOne for siblings in a block.
LEMMA PlacePoints ==
  ASSUME NEW nodes, NEW hs, Forest(nodes, hs), NEW x \in Address, NEW c \in nodes[x].child,
         NEW a \in Free(nodes), NEW after, after = KeepOne(Opened(nodes, c), x, c, a)
  PROVE  \E g : Placed(nodes, hs, after, g, x, c, a)
<1>1. /\ c \in Address /\ c # x /\ nodes[x].used /\ nodes[c].used
      /\ hs[c] = AppendMove(hs[x], nodes[c].index)
    BY ChildFacts
<1>2. a \in Address /\ ~nodes[a].used /\ a # c /\ a # x /\ ChildOfNone(nodes, a)
    BY <1>1, FreeFacts
<1>3. PICK open : open = Opened(nodes, c)  OBVIOUS
<1>4. Reopened(nodes, open, c)  BY <1>1, <1>3, OpenPoints
<1>5. Forest(open, hs)  BY <1>1, <1>3, OpenFacts
<1>6. Extended(nodes, hs, c) /\ Counted(nodes, c, None) => Sound(open, hs, c)
    BY <1>1, <1>3, OpenFacts
<1>7. /\ open \in [Address -> NodeType] /\ \A y \in Address \ {c} : open[y] = nodes[y]
      /\ open[c].used = nodes[c].used /\ open[c].index = nodes[c].index
      /\ open[c].child = nodes[c].child /\ open[c].solid = nodes[c].solid
    BY <1>4 DEF Reopened
<1>8. c \in open[x].child /\ open[x].used /\ a \in Free(open)  BY <1>1, <1>2, <1>7 DEF Free
<1>9. PICK to : to = [b \in {c} |-> a]  OBVIOUS
<1>10. /\ Relocated(open, after, x, {c}, to, {a}) /\ ~after[x].solid
  <2>1. after = KeepOne(open, x, c, a)  BY <1>3
  <2> QED  BY <1>5, <1>8, <1>9, <2>1, KeepOneMoves
<1>11. PICK g : g = Rehomed(hs, after, x, {a})  OBVIOUS
<1>12. Forest(after, g)  BY <1>5, <1>8, <1>10, <1>11, ForestRelocated
<1>13. /\ after[a] = open[c] /\ after[x].child = {a} /\ SameNode(after[x], open[x])
       /\ after \in [Address -> NodeType]
    BY <1>9, <1>10 DEF Relocated
<1>14. g[a] = hs[c] /\ \A y \in Address \ {a} : g[y] = hs[y]
    BY <1>1, <1>2, <1>7, <1>11, <1>13 DEF Rehomed
<1>15. ASSUME NEW y \in Address, y # c, y # a
       PROVE  /\ SameNode(after[y], open[y])
              /\ y # x => after[y].child = open[y].child /\ after[y].solid = open[y].solid
    BY <1>5, <1>10, <1>15, Unmoved
<1>16. Sound(open, hs, c) => Sound(after, g, a)
  <2>1. SUFFICES ASSUME Sound(open, hs, c) PROVE Sound(after, g, a)  OBVIOUS
  <2>2. ASSUME NEW d \in open[c].child
        PROVE  /\ after[d].n = open[d].n /\ after[d].index = open[d].index
               /\ after[d].lower = open[d].lower /\ after[d].upper = open[d].upper
      BY <1>1, <1>2, <1>5, <1>7, <1>15, ChildFacts DEF ChildOfNone, SameNode
  <2>3. Alike(open, hs, c, after, g, a)  BY <1>13, <1>14, <2>2 DEF Alike
  <2> QED  BY <1>1, <1>2, <1>7, <1>13, <2>1, <2>3, SoundAs
<1>17. \A y \in Address \ {x, c, a} :
         SameNode(after[y], nodes[y]) /\ after[y].child = nodes[y].child
           /\ after[y].solid = nodes[y].solid
    BY <1>7, <1>15
<1>18. after[x].index = nodes[x].index  BY <1>1, <1>7, <1>13 DEF SameNode
<1>19. after[a].index = nodes[c].index /\ after[a].child = nodes[c].child  BY <1>7, <1>13
<1> QED  BY <1>6, <1>10, <1>12, <1>13, <1>14, <1>16, <1>17, <1>18, <1>19 DEF Placed

\* The block is queued.
LEMMA PlaceOwners ==
  ASSUME NEW hs, Forest(node, hs), Owners(node, subtrees_to_gc_, gamebegin_node_),
         NEW x \in Address, NEW c \in node[x].child,
         NEW a \in Free(node), NEW after, after = KeepOne(Opened(node, c), x, c, a)
  PROVE  Owners(after, Queued(node[x].child), gamebegin_node_)
<1>1. c \in Address /\ c # x /\ node[c].used  BY ChildFacts
<1>2. PICK open : open = Opened(node, c)  OBVIOUS
<1>3. Forest(open, hs)  BY <1>1, <1>2, OpenFacts
<1>4. \A y \in Address : open[y].used = node[y].used /\ open[y].child = node[y].child
    BY <1>1, <1>2, OpenPoints DEF Reopened
<1>5. c \in open[x].child /\ a \in Free(open)  BY <1>1, <1>4, FreeFacts DEF Free
<1>6. PICK to : to = [b \in {c} |-> a]  OBVIOUS
<1>7. Relocated(open, after, x, {c}, to, {a})
  <2>1. after = KeepOne(open, x, c, a)  BY <1>2
  <2> QED  BY <1>3, <1>5, <1>6, <2>1, KeepOneMoves
<1>8. ASSUME NEW z \in Address
      PROVE  /\ ChildOfNone(after, z) <=> z # a /\ (ChildOfNone(node, z) \/ z \in node[x].child)
             /\ after[z].used <=> node[z].used \/ z = a
    BY <1>3, <1>4, <1>7, RelocatedRoots DEF ChildOfNone
<1>9. PICK more : more = Queued(node[x].child)  OBVIOUS
<1>10. PICK garbage, root : garbage = subtrees_to_gc_ /\ root = gamebegin_node_  OBVIOUS
<1> QED  BY <1>8, <1>9, <1>10, OwnersMoved DEF Queued

\* The new head is at the end of the line, and all below it came along.
LEMMA PlaceReady ==
  ASSUME NEW hs, Owned(hs), NEW q, NEW k, Standing(hs, q, k), gamebegin_node_ \in Address,
         k = Len(q), NEW D, Ready(node, hs, q, D),
         NEW c \in node[current_head_].child, NEW a \in Free(node), NEW after, NEW g,
         Placed(node, hs, after, g, current_head_, c, a), NEW r, Longer(q, k, a, r)
  PROVE  Ready(after, g, r, (D \ {current_head_, c}) \cup {a})
<1> DEFINE x == current_head_
<1>1. /\ x \in Address /\ q[k] = x /\ Len(q) \in Nat /\ k \in Nat /\ k >= 1
      /\ \A i \in 1..Len(q) : q[i] \in Address /\ node[q[i]].used
    BY HeadFacts
<1>2. Forest(node, hs) /\ node \in [Address -> NodeType]  BY DEF Owned, Forest
<1>3. /\ D \subseteq Address /\ x \in D /\ Closed(node, D) /\ Healthy(node, hs, D, x, None)
      /\ \A i \in 1..(Len(q) - 1) : q[i] \notin D
    BY <1>1 DEF Ready
<1>4. \A y \in D : x \notin node[y].child  BY HeadAlone
<1>5. c \in D /\ c \in Address /\ c # x /\ node[c].parent = x
    BY <1>1, <1>2, <1>3, ChildFacts DEF Closed
<1>6. a \in Address /\ ~node[a].used /\ ChildOfNone(node, a) /\ a # x /\ a # c
    BY <1>1, <1>2, ChildFacts, FreeFacts
<1>7. Placed(node, hs, after, g, x, c, a)  OBVIOUS
<1> HIDE DEF x
<1>8. /\ Forest(after, g)
      /\ after[x].child = {a} /\ ~after[x].solid /\ after[x].index = node[x].index
      /\ after[a].index = node[c].index /\ after[a].child = node[c].child
      /\ g[a] = hs[c] /\ \A y \in Address \ {a} : g[y] = hs[y]
      /\ \A y \in Address \ {x, c, a} :
           SameNode(after[y], node[y]) /\ after[y].child = node[y].child
             /\ after[y].solid = node[y].solid
      /\ Extended(node, hs, c) /\ Counted(node, c, None) => Sound(after, g, a)
    BY <1>7 DEF Placed
<1>9. after \in [Address -> NodeType]  BY <1>8 DEF Forest
<1>10. PICK E : E = (D \ {x, c}) \cup {a}  OBVIOUS
<1>11. E \in SUBSET Address /\ a \in E /\ x \notin E  BY <1>3, <1>6, <1>10
<1>12. ASSUME NEW z \in D, z # x, NEW d \in node[z].child PROVE d \in Address \ {x, c, a} /\ d \in E
  <2>1. d \in D /\ d # x  BY <1>3, <1>4, <1>12 DEF Closed
  <2>2. d # a  BY <1>3, <1>6, <1>12 DEF ChildOfNone
  <2>3. d # c  BY <1>2, <1>3, <1>5, <1>12, ChildFacts
  <2> QED  BY <1>3, <1>10, <2>1, <2>2, <2>3
<1>13. Closed(after, E)  BY <1>3, <1>5, <1>8, <1>10, <1>12 DEF Closed
<1>14. ASSUME NEW z \in E \ {a} PROVE \E y \in D \ {x} : Alike(node, hs, y, after, g, z)
    BY <1>3, <1>8, <1>10, <1>12, <1>14 DEF SameNode, Alike
<1>15. Sound(after, g, a)  BY <1>3, <1>5, <1>8 DEF Healthy
<1>16. Healthy(after, g, E, a, None)  BY <1>2, <1>3, <1>9, <1>11, <1>14, <1>15, HealthyAs
<1>17. r[k + 1] = a /\ Len(r) = k + 1 /\ \A i \in 1..k : r[i] = q[i]  BY DEF Longer
<1>18. Ready(after, g, r, E)
  <2>1. ASSUME NEW i \in 1..(Len(r) - 1) PROVE r[i] \notin E
      BY <1>1, <1>3, <1>6, <1>10, <1>11, <1>17
  <2> QED  BY <1>11, <1>13, <1>16, <1>17, <2>1 DEF Ready
<1> QED  BY <1>10, <1>18 DEF x

\* The line to where the next head is now.
LEMMA PlaceLine ==
  ASSUME NEW hs, Owned(hs), NEW q, NEW k, Standing(hs, q, k), gamebegin_node_ \in Address,
         k = Len(q), NEW D, Ready(node, hs, q, D),
         NEW c \in node[current_head_].child, NEW a \in Free(node), NEW m, node[c].index = m,
         NEW after, NEW g,
         Placed(node, hs, after, g, current_head_, c, a), NEW r, Longer(q, k, a, r)
  PROVE  /\ Line(after, g, gamebegin_node_, game.startpos, r, k + 1)
         /\ MovesOf(after, r, k + 1) = Append(MovesOf(node, q, k), m)
<1> DEFINE x == current_head_
           root == gamebegin_node_
           start == game.startpos
<1>1. /\ x \in Address /\ q[k] = x /\ Len(q) \in Nat /\ k \in Nat /\ k >= 1
      /\ \A i \in 1..Len(q) : q[i] \in Address /\ node[q[i]].used
      /\ \A i, j \in 1..Len(q) : q[i] = q[j] => i = j
    BY HeadFacts
<1>2. Line(node, hs, root, start, q, k) /\ Forest(node, hs)  BY DEF Standing, Owned
<1>3. /\ x \in D /\ Closed(node, D) /\ \A i \in 1..(Len(q) - 1) : q[i] \notin D
    BY <1>1 DEF Ready
<1>4. c \in D  BY <1>3 DEF Closed
<1>5. a \in Address /\ ~node[a].used  BY DEF Free
<1>6. Placed(node, hs, after, g, x, c, a)  OBVIOUS
<1> HIDE DEF x, root, start
<1>7. /\ after[x].child = {a} /\ ~after[x].solid /\ after[x].index = node[x].index
      /\ after[a].index = node[c].index /\ \A y \in Address \ {a} : g[y] = hs[y]
      /\ \A y \in Address \ {x, c, a} :
           SameNode(after[y], node[y]) /\ after[y].child = node[y].child
             /\ after[y].solid = node[y].solid
    BY <1>6 DEF Placed
<1>8. \A i \in 1..(k - 1) : i \in 1..Len(q) /\ q[i] \in Address \ {x, c, a}
    BY <1>1, <1>3, <1>4, <1>5
<1>9. Along(node, hs, after, g, q, k)
  <2>1. ASSUME NEW i \in 1..k PROVE after[q[i]].index = node[q[i]].index
    <3>1. CASE i = k  BY <1>1, <1>7, <3>1
    <3>2. CASE i # k
      <4>1. i \in 1..(k - 1)  BY <1>1, <3>2
      <4> QED  BY <1>7, <1>8, <4>1 DEF SameNode
    <3> QED  BY <3>1, <3>2
  <2>2. g[q[1]] = hs[q[1]]  BY <1>1, <1>5, <1>7
  <2> QED  BY <1>7, <1>8, <2>1, <2>2 DEF Along
<1>10. after[q[k]].child = {a} /\ ~after[q[k]].solid /\ after[a].index = m  BY <1>1, <1>7
<1> QED  BY <1>2, <1>5, <1>9, <1>10, LineGrows DEF root, start

\* MakeMove to a child in a block.
LEMMA ToPlaceKeeps ==
  ASSUME HistoryInv, pc = "moving", NEW hs, NEW q, NEW k, NEW D, Owned(hs), Standing(hs, q, k),
         Ready(node, hs, q, D), gamebegin_node_ \in Address,
         NEW x, current_head_ = x, NEW m, Head(todo) = m, NEW c, NEW a \in Free(node),
         ToPlace(x, m, c, a)
  PROVE  TreeInv'
<1>1. /\ x \in Address /\ q[k] = x /\ Len(q) \in Nat /\ k \in Nat /\ k >= 1 /\ k <= Len(q)
      /\ q \in Seq(Address)
    BY HeadFacts
<1>2. Forest(node, hs) /\ Owners(node, subtrees_to_gc_, gamebegin_node_)  BY DEF Owned
<1>3. PICK after : after = node'  OBVIOUS
<1>4. /\ c \in node[x].child /\ node[c].index = m /\ node[x].solid
      /\ after = KeepOne(Opened(node, c), x, c, a)
      /\ subtrees_to_gc_' = Queued(node[x].child) /\ Arrive(a)
    BY <1>3 DEF ToPlace
<1>5. k = Len(q)  BY <1>1, <1>4 DEF Standing, Line
<1>6. a \in Address /\ hs[c] = AppendMove(hs[x], m)
    BY <1>1, <1>2, <1>4, ChildFacts DEF Free
<1>7. PICK g : Placed(node, hs, after, g, x, c, a)  BY <1>1, <1>2, <1>4, PlacePoints
<1>8. Owners(after, subtrees_to_gc_', gamebegin_node_)  BY <1>1, <1>2, <1>4, PlaceOwners
<1>9. gamebegin_node_' = gamebegin_node_ /\ pc' \in {"idle", "moving", "finish"}
    BY <1>4 DEF Arrive
<1>10. Forest(after, g) /\ g[a] = hs[c]  BY <1>7 DEF Placed
<1>11. Owned(g)'  BY <1>3, <1>8, <1>9, <1>10 DEF Owned
<1>12. PICK j : j = k + 1  OBVIOUS
<1>13. PICK r : Longer(q, k, a, r)  BY <1>1, <1>6, PrefixExists
<1>14. r[j] = a /\ Len(r) = j  BY <1>12, <1>13 DEF Longer
<1>15. PICK E : E = (D \ {current_head_, c}) \cup {a}  OBVIOUS
<1>16. Ready(after, g, r, E)  BY <1>4, <1>5, <1>7, <1>13, <1>15, PlaceReady
<1>17. /\ Line(after, g, gamebegin_node_, game.startpos, r, k + 1)
       /\ MovesOf(after, r, k + 1) = Append(MovesOf(node, q, k), m)
    BY <1>4, <1>5, <1>7, <1>13, PlaceLine
<1>18. Standing(g, r, j)'
  <2>1. Ahead(r, j, a)  BY <1>14 DEF Ahead
  <2>2. Line(node', g, gamebegin_node_, game.startpos, r, j)  BY <1>3, <1>12, <1>17
  <2>3. MovesOf(node', r, j) = Append(MovesOf(node, q, k), Head(todo))
      BY <1>3, <1>12, <1>17
  <2>4. g[a] = AppendMove(hs[q[k]], Head(todo))  BY <1>1, <1>6, <1>10
  <2>5. Arrive(a) /\ pc \in {"moving", "create"}  BY <1>4
  <2> QED  BY <1>12, <1>14, <2>1, <2>2, <2>3, <2>4, <2>5, ArriveStands
<1>19. InGame(g, r, j, E)'  BY <1>3, <1>16, <1>18 DEF InGame
<1> QED  BY <1>9, <1>11, <1>19, NodeTreeAssumption DEF TreeInv

\* MakeMove where an edge leads.
LEMMA MoveKeeps ==
  ASSUME TreeInv, HistoryInv, MoveAlongEdge
  PROVE  TreeInv'
<1>1. pc = "moving" /\ gamebegin_node_ \in Address  BY DEF MoveAlongEdge, TreeInv
<1>2. PICK hs, q, k, D : Owned(hs) /\ InGame(hs, q, k, D)  BY <1>1 DEF TreeInv
<1>3. Standing(hs, q, k) /\ Ready(node, hs, q, D)  BY <1>1, <1>2 DEF InGame
<1>4. PICK x, m : x = current_head_ /\ m = Head(todo)  OBVIOUS
<1>5. x \in Address /\ node[x].used  BY <1>1, <1>2, <1>3, <1>4, HeadFacts
<1>6. m \in Move  BY <1>1, <1>4, MoveIsLegal
<1>7. /\ m \in node[x].edges
      /\ \E a \in Free(node) : \/ ToNew(x, m, a)
                               \/ \E c : ToChild(x, m, c)
                               \/ \E c : ToPlace(x, m, c, a)
    BY <1>2, <1>4, <1>5, <1>6, MoveSplits
<1>8. PICK a \in Free(node) : \/ ToNew(x, m, a)
                              \/ \E c : ToChild(x, m, c)
                              \/ \E c : ToPlace(x, m, c, a)
    BY <1>7
<1>9. CASE ToNew(x, m, a)  BY <1>1, <1>2, <1>3, <1>4, <1>7, <1>9, ToNewKeeps
<1>10. ASSUME NEW c, ToChild(x, m, c) PROVE TreeInv'
    BY <1>1, <1>2, <1>3, <1>4, <1>10, ToChildKeeps
<1>11. ASSUME NEW c, ToPlace(x, m, c, a) PROVE TreeInv'
    BY <1>1, <1>2, <1>3, <1>4, <1>11, ToPlaceKeeps
<1> QED  BY <1>8, <1>9, <1>10, <1>11

\* Nothing changes.
LEMMA StutterKeeps ==
  ASSUME TreeInv, UNCHANGED vars
  PROVE  TreeInv'
<1>1. /\ UNCHANGED <<node, subtrees_to_gc_, gamebegin_node_, current_head_, history_, game>>
      /\ UNCHANGED <<todo, pc, resetting, old_head, seen_old_head>>
    BY DEF vars, memory, call
<1>2. ASSUME NEW hs PROVE Owned(hs)' <=> Owned(hs)  BY <1>1 DEF Owned
<1>3. ASSUME NEW hs, NEW q, NEW k, NEW D PROVE InGame(hs, q, k, D)' <=> InGame(hs, q, k, D)
    BY <1>1 DEF InGame, Standing
<1> QED  BY <1>1, <1>2, <1>3 DEF TreeInv

\* Every step of the tree keeps the invariant.
LEMMA TreeNext == TreeInv /\ HistoryInv /\ [Next]_vars => TreeInv'
<1> SUFFICES ASSUME TreeInv, HistoryInv, [Next]_vars PROVE TreeInv'  OBVIOUS
<1>1. ASSUME NEW state \in GameState, ResetToPosition(state) PROVE TreeInv'
    BY <1>1, ResetKeepsOther, ResetKeepsSame
<1>2. ASSUME NEW m \in Move, MakeMove(m) PROVE TreeInv'  BY <1>2, MakeMoveKeeps
<1>3. CASE MoveAlongEdge  BY <1>3, MoveKeeps
<1>4. CASE ReleaseAll  BY <1>4, ReleaseKeeps
<1>5. CASE CreateSingleChildNode  BY <1>5, CreateKeeps
<1>6. CASE Finish  BY <1>6, FinishKeeps
<1>7. CASE TrimTreeAtHead  BY <1>7, TrimTreeKeeps
<1>8. CASE Playout  BY <1>8, PlayoutKeeps
<1>9. CASE GarbageCollect  BY <1>9, CollectKeeps
<1>10. CASE UNCHANGED vars  BY <1>10, StutterKeeps
<1> QED  BY <1>1, <1>2, <1>3, <1>4, <1>5, <1>6, <1>7, <1>8, <1>9, <1>10, Zenon DEF Next

\* The invariant holds for ever.
LEMMA TreeAlways == Spec => [](TreeInv /\ HistoryInv)
<1>1. Init => TreeInv /\ HistoryInv  BY TreeInit, HistoryInit
<1>2. (TreeInv /\ HistoryInv) /\ [Next]_vars => (TreeInv /\ HistoryInv)'
    BY TreeNext, HistoryNext
<1> QED  BY <1>1, <1>2, PTL DEF Spec

-----------------------------------------------------------------------------
\* node.cc:75-106, 413-449, 245-289: whatever is cut off, moved into blocks or left as a
\* shell, each node has one owner, the tree or one entry of the garbage: the collecting
\* thread frees no node in use and none twice, and none is lost.
THEOREM EveryNodeOwnedOnce == Spec => []OwnedOnce
<1>1. TreeInv /\ HistoryInv => OwnedOnce  BY InvImplies
<1> QED  BY <1>1, TreeAlways, PTL

\* node.cc:378-407: however nodes move in memory, each child in the tree points to its
\* parent and belongs to one of its edges, and no other child does.
THEOREM ParentsAlwaysRight == Spec => []ParentsRight
<1>1. TreeInv /\ HistoryInv => ParentsRight  BY InvImplies
<1> QED  BY <1>1, TreeAlways, PTL

\* node.cc:455-520: between two calls the path to the head is the game that was asked for,
\* and the history is that of its moves.
THEOREM HeadAlwaysPosition == Spec => []HeadIsPosition
<1>1. TreeInv /\ HistoryInv => HeadIsPosition  BY InvImplies
<1> QED  BY <1>1, TreeAlways, PTL

\* search.cc:1522-1561, 2212-2290 and node.cc:319-341: a search starts from a head that
\* leads everywhere or nowhere yet, and the visits of each node below are its own and
\* those of its children, also where they were taken back or moved.
THEOREM VisitsAlwaysAddUp == Spec => []VisitsAddUp
<1>1. TreeInv /\ HistoryInv => VisitsAddUp  BY InvImplies
<1> QED  BY <1>1, TreeAlways, PTL

\* search.cc:2294-2361: a bound below the head follows from the rules of the game or from
\* the children the node has now, whichever search set it.
THEOREM BoundsAlwaysJustified == Spec => []BoundsJustified
<1>1. TreeInv /\ HistoryInv => BoundsJustified  BY InvImplies
<1> QED  BY <1>1, TreeAlways, PTL
===============================================================================
