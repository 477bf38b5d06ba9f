------------------------- MODULE PropertyPool_proof -------------------------
(* The lists of PropertyPool.tla: that they divide the pool, whatever is   *)
(* created and removed, and that a search without the mutex finds what it  *)
(* looks for.                                                              *)
EXTENDS PropertyPool, FiniteSetTheorems, WellFoundedInduction, TLAPS

(* A set of numbers that is not empty has a least element.                 *)
LEMMA LowestIsIn ==
  ASSUME NEW S \in SUBSET Nat, S # {}
  PROVE  Lowest(S) \in S /\ \A x \in S : Lowest(S) <= x
<1> DEFINE Less == {ss \in Nat \X Nat : ss[1] < ss[2]}
<1>1. IsWellFoundedOn(Less, Nat)
  BY NatLessThanWellFounded DEF OpToRel
<1>2. PICK b \in S : \A x \in S : ~(<<x, b>> \in Less)
  <2> HIDE DEF Less
  <2> QED
    BY <1>1, WFMin
<1>3. \A x \in S : b <= x
  <2> TAKE x \in S
  <2>1. b \in Nat /\ x \in Nat
    OBVIOUS
  <2>2. ~(x < b)
    <3>1. x < b => <<x, b>> \in Less
      BY <2>1
    <3> QED
      BY <1>2, <3>1
  <2> QED
    BY <2>1, <2>2
<1> QED
  BY <1>3 DEF Lowest

(* What TypeOK says of the links.                                          *)
Linked == next \in [Slot -> Index]

(* The first m + 1 elements of a list, -1 once it has ended.               *)
Follows(f, m, start) ==
  f = [n \in 0 .. m |-> IF n = 0 THEN start
                        ELSE IF f[n - 1] = -1 THEN -1 ELSE next[f[n - 1]]]

(* A list can be followed for any number of elements.                      *)
LEMMA FollowingExists ==
  ASSUME NEW m \in Nat, NEW start
  PROVE  \E f : Follows(f, m, start)
<1> DEFINE Stuck == {k \in Nat : ~ \E f : Follows(f, k, start)}
<1>1. SUFFICES Stuck = {}
  OBVIOUS
<1>2. SUFFICES ASSUME Stuck # {} PROVE FALSE
  OBVIOUS
<1>3. PICK k \in Stuck : \A j \in Stuck : k <= j
  BY <1>2, LowestIsIn
<1>4. k # 0
  <2>1. Follows([n \in 0 .. 0 |-> start], 0, start)
    BY DEF Follows
  <2> QED
    BY <2>1
<1>5. k \in Nat /\ k - 1 \in Nat /\ k - 1 \notin Stuck
  BY <1>3, <1>4
<1>6. PICK g : Follows(g, k - 1, start)
  BY <1>5
<1> DEFINE f == [n \in 0 .. k |-> IF n < k THEN g[n]
                                  ELSE IF g[k - 1] = -1 THEN -1 ELSE next[g[k - 1]]]
<1>7. \A n \in 0 .. k : f[n] = IF n = 0 THEN start
                               ELSE IF f[n - 1] = -1 THEN -1 ELSE next[f[n - 1]]
  <2>1. \A n \in 0 .. k - 1 : g[n] = IF n = 0 THEN start
                                     ELSE IF g[n - 1] = -1 THEN -1 ELSE next[g[n - 1]]
    BY <1>6 DEF Follows
  <2> TAKE n \in 0 .. k
  <2>2. CASE n < k
    <3>1. n \in 0 .. k - 1 /\ f[n] = g[n] /\ (n # 0 => n - 1 \in 0 .. k - 1 /\ f[n - 1] = g[n - 1])
      BY <1>5, <2>2
    <3> HIDE DEF f
    <3> QED
      BY <2>1, <3>1
  <2>3. CASE n = k
    <3>1. f[n] = (IF g[k - 1] = -1 THEN -1 ELSE next[g[k - 1]]) /\ f[n - 1] = g[k - 1]
      BY <1>4, <1>5, <2>3
    <3> HIDE DEF f
    <3> QED
      BY <1>4, <2>3, <3>1
  <2> QED
    BY <1>5, <2>2, <2>3
<1>8. Follows(f, k, start)
  <2>1. f = [n \in 0 .. k |-> f[n]]
    OBVIOUS
  <2> HIDE DEF f
  <2> QED
    BY <1>7, <2>1 DEF Follows
<1> HIDE DEF f
<1> QED
  BY <1>3, <1>8

(* The definition of Chain is one of a function.                           *)
LEMMA ChainIs ==
  ASSUME Linked, NEW start \in Index
  PROVE  /\ Chain(start) \in [0 .. PoolSize -> Index]
         /\ Chain(start)[0] = start
         /\ \A n \in 1 .. PoolSize :
              Chain(start)[n] = IF Chain(start)[n - 1] = -1 THEN -1
                                ELSE next[Chain(start)[n - 1]]
<1> DEFINE f == Chain(start)
<1>1. PoolSize \in Nat
  BY PoolAssumption
<1>2. \E g : Follows(g, PoolSize, start)
  BY <1>1, FollowingExists
<1>3. Follows(f, PoolSize, start)
  BY <1>2 DEF Chain, Follows
<1>4. \A n \in 0 .. PoolSize : f[n] = IF n = 0 THEN start
                                      ELSE IF f[n - 1] = -1 THEN -1 ELSE next[f[n - 1]]
  BY <1>3 DEF Follows
<1>5. f = [n \in 0 .. PoolSize |-> f[n]]
  BY <1>3 DEF Follows
<1> HIDE DEF f
<1> DEFINE Astray == {n \in 0 .. PoolSize : f[n] \notin Index}
<1>6. Astray = {}
  <2> SUFFICES ASSUME Astray # {} PROVE FALSE
    OBVIOUS
  <2>0. Astray \in SUBSET Nat
    BY <1>1
  <2>1. PICK k \in Astray : \A j \in Astray : k <= j
    <3> HIDE DEF Astray
    <3> QED
      BY <2>0, LowestIsIn
  <2>2. k # 0
    BY <1>4, <2>1
  <2>3. k - 1 \in 0 .. PoolSize /\ f[k - 1] \in Index
    BY <1>1, <2>1, <2>2
  <2>4. f[k] = IF f[k - 1] = -1 THEN -1 ELSE next[f[k - 1]]
    BY <1>4, <2>1, <2>2
  <2>5. f[k] \in Index
    <3>1. -1 \in Index /\ (f[k - 1] # -1 => f[k - 1] \in Slot)
      BY <1>1, <2>3 DEF Index, Slot
    <3> QED
      BY <2>4, <3>1 DEF Linked
  <2> QED
    BY <2>1, <2>5
<1>7. f \in [0 .. PoolSize -> Index]
  BY <1>5, <1>6
<1>8. /\ f[0] = start
      /\ \A n \in 1 .. PoolSize : f[n] = IF f[n - 1] = -1 THEN -1 ELSE next[f[n - 1]]
  BY <1>1, <1>4
<1> QED
  BY <1>7, <1>8 DEF f
----------------------------------------------------------------------------
(* Which list each element is in, -1 for the free list, and its place      *)
(* there: each list is in the order of the ranks.                          *)
Lists    == Used \cup {-1}
First(x) == IF x = -1 THEN firstFree ELSE object[x].start

(* A link leads to the element of the same list with the next rank.        *)
Ordered(list, rank) ==
  /\ \A i \in Slot : next[i] # -1 => list[next[i]] = list[i] /\ rank[i] < rank[next[i]]
  /\ \A i, j \in Slot : list[i] = list[j] /\ rank[i] < rank[j]
                          => next[i] # -1 /\ rank[next[i]] <= rank[j]
  /\ \A i, j \in Slot : list[i] = list[j] /\ rank[i] = rank[j] => i = j

(* Each list begins with its element of the least rank.                    *)
Headed(list, rank) ==
  /\ \A i \in Slot : list[i] \in Lists
  /\ \A x \in Lists : First(x) # -1 => list[First(x)] = x
  /\ \A i \in Slot : First(list[i]) # -1 /\ rank[First(list[i])] <= rank[i]

(* What follows from the types.                                            *)
LEMMA TypesOfLists ==
  ASSUME TypeOK
  PROVE  /\ Linked /\ -1 \notin Used /\ Used \subseteq Object
         /\ \A x \in Lists : First(x) \in Index
         /\ \A i \in Index : i # -1 => i \in Slot
         /\ \A i \in Slot : i \in Index /\ i # -1
<1>1. -1 \notin Object /\ Used \subseteq Object
  BY DEF Object, Used
<1>2. \A i \in Index : i # -1 => i \in Slot
  BY PoolAssumption DEF Index, Slot
<1>3. \A i \in Slot : i \in Index /\ i # -1
  BY PoolAssumption DEF Index, Slot
<1>4. \A x \in Lists : First(x) \in Index
  BY <1>1 DEF TypeOK, First, Lists
<1> QED
  BY <1>1, <1>2, <1>3, <1>4 DEF TypeOK, Linked

(* Following a list from its first element meets elements of that list, in *)
(* the order of their ranks, until it ends.                                *)
LEMMA ChainIsOrdered ==
  ASSUME TypeOK, NEW list \in [Slot -> Object \cup {-1}], NEW rank \in [Slot -> Nat],
         Ordered(list, rank), Headed(list, rank), NEW x \in Lists
  PROVE  LET c == Chain(First(x)) IN
         /\ \A n \in 0 .. PoolSize : c[n] # -1 => c[n] \in Slot /\ list[c[n]] = x
         /\ \A n, m \in 0 .. PoolSize :
              n < m /\ c[m] # -1 => c[n] # -1 /\ rank[c[n]] < rank[c[m]]
<1> DEFINE c == Chain(First(x))
<1>0. PoolSize \in Nat /\ First(x) \in Index
  BY PoolAssumption, TypesOfLists
<1>1. /\ c \in [0 .. PoolSize -> Index] /\ c[0] = First(x)
      /\ \A n \in 1 .. PoolSize : c[n] = IF c[n - 1] = -1 THEN -1 ELSE next[c[n - 1]]
  BY <1>0, ChainIs, TypesOfLists
<1> HIDE DEF c
<1>2. \A n \in 0 .. PoolSize : c[n] # -1 => c[n] \in Slot
  BY <1>1, TypesOfLists
<1>3. \A n \in 0 .. PoolSize : c[n] # -1 => list[c[n]] = x
  <2> DEFINE Astray == {n \in 0 .. PoolSize : c[n] # -1 /\ list[c[n]] # x}
  <2> SUFFICES ASSUME Astray # {} PROVE FALSE
    OBVIOUS
  <2>1. Astray \in SUBSET Nat
    BY <1>0
  <2>2. PICK k \in Astray : \A j \in Astray : k <= j
    <3> HIDE DEF Astray
    <3> QED
      BY <2>1, LowestIsIn
  <2>3. k # 0
    BY <1>1, <2>2 DEF Headed
  <2>4. k \in 1 .. PoolSize /\ k - 1 \in 0 .. PoolSize /\ k - 1 < k
    BY <1>0, <2>2, <2>3
  <2>5. c[k - 1] # -1 /\ c[k] = next[c[k - 1]]
    BY <1>1, <2>2, <2>4
  <2>6. list[c[k - 1]] = x
    BY <2>2, <2>4, <2>5
  <2>7. list[c[k]] = x
    BY <1>2, <2>2, <2>4, <2>5, <2>6 DEF Ordered
  <2> QED
    BY <2>2, <2>7
<1>4. ASSUME NEW n \in 0 .. PoolSize
      PROVE  \A m \in 0 .. PoolSize :
               n < m /\ c[m] # -1 => c[n] # -1 /\ rank[c[n]] < rank[c[m]]
  <2> DEFINE Early == {m \in 0 .. PoolSize :
                         n < m /\ c[m] # -1 /\ ~(c[n] # -1 /\ rank[c[n]] < rank[c[m]])}
  <2> SUFFICES ASSUME Early # {} PROVE FALSE
    OBVIOUS
  <2>1. Early \in SUBSET Nat
    BY <1>0
  <2>2. PICK k \in Early : \A j \in Early : k <= j
    <3> HIDE DEF Early
    <3> QED
      BY <2>1, LowestIsIn
  <2>3. k \in 1 .. PoolSize /\ k - 1 \in 0 .. PoolSize /\ k - 1 < k /\ n <= k - 1
    BY <1>0, <2>2
  <2>4. c[k - 1] # -1 /\ c[k] = next[c[k - 1]]
    BY <1>1, <2>2, <2>3
  <2>5. c[k - 1] \in Slot /\ c[k] \in Slot /\ rank[c[k - 1]] < rank[c[k]]
    BY <1>2, <2>2, <2>3, <2>4 DEF Ordered
  <2>6. CASE n = k - 1
    BY <2>2, <2>4, <2>5, <2>6
  <2>7. CASE n # k - 1
    <3>1. c[n] # -1 /\ rank[c[n]] < rank[c[k - 1]]
      <4>1. k - 1 \notin Early
        BY <2>2, <2>3
      <4>2. n < k - 1
        BY <2>3, <2>7
      <4> QED
        BY <2>3, <2>4, <4>1, <4>2
    <3>2. rank[c[n]] \in Nat /\ rank[c[k - 1]] \in Nat /\ rank[c[k]] \in Nat
      BY <1>2, <2>5, <3>1
    <3>3. rank[c[n]] < rank[c[k]]
      BY <2>5, <3>1, <3>2
    <3> QED
      BY <2>2, <3>1, <3>3
  <2> QED
    BY <2>6, <2>7
<1> QED
  BY <1>2, <1>3, <1>4 DEF c

(* A list ends: there are no more ranks than elements of the pool.         *)
LEMMA ListsEnd ==
  ASSUME TypeOK, NEW list \in [Slot -> Object \cup {-1}], NEW rank \in [Slot -> Nat],
         Ordered(list, rank), Headed(list, rank), NEW x \in Lists
  PROVE  Ends(First(x))
<1> DEFINE c == Chain(First(x))
<1>0. PoolSize \in Nat
  BY PoolAssumption
<1>1. /\ \A n \in 0 .. PoolSize : c[n] # -1 => c[n] \in Slot
      /\ \A n, m \in 0 .. PoolSize :
           n < m /\ c[m] # -1 => c[n] # -1 /\ rank[c[n]] < rank[c[m]]
  BY ChainIsOrdered
<1> SUFFICES ASSUME c[PoolSize] # -1 PROVE FALSE
  BY DEF Ends
<1>2. c \in [0 .. PoolSize -> Index]
  BY ChainIs, TypesOfLists
<1> HIDE DEF c
<1>3. \A n \in 0 .. PoolSize : c[n] # -1
  <2> TAKE n \in 0 .. PoolSize
  <2>1. PoolSize \in 0 .. PoolSize /\ (n = PoolSize \/ n < PoolSize)
    BY <1>0
  <2> QED
    BY <1>1, <2>1
<1>4. c \in [0 .. PoolSize -> Slot]
  BY <1>1, <1>2, <1>3
<1>5. /\ IsFiniteSet(0 .. PoolSize) /\ Cardinality(0 .. PoolSize) = PoolSize + 1
      /\ IsFiniteSet(Slot) /\ Cardinality(Slot) = PoolSize
  <2>1. Cardinality(0 .. PoolSize) = PoolSize + 1 /\ IsFiniteSet(0 .. PoolSize)
    BY <1>0, FS_Interval
  <2>2. Cardinality(Slot) = PoolSize /\ IsFiniteSet(Slot)
    BY <1>0, PoolAssumption, FS_Interval DEF Slot
  <2> QED
    BY <2>1, <2>2
<1>6. PICK n, m \in 0 .. PoolSize : n # m /\ c[n] = c[m]
  <2>1. Cardinality(Slot) < Cardinality(0 .. PoolSize)
    BY <1>0, <1>5
  <2> DEFINE D == 0 .. PoolSize
  <2>2. /\ c \in [D -> Slot] /\ IsFiniteSet(D) /\ IsFiniteSet(Slot)
        /\ Cardinality(Slot) < Cardinality(D)
    BY <1>4, <1>5, <2>1
  <2> HIDE DEF D
  <2>3. \E n, m \in D : n # m /\ c[n] = c[m]
    BY ONLY <2>2, FS_PigeonHole
  <2> QED
    BY <2>3 DEF D
<1>7. n < m \/ m < n
  BY <1>6
<1>8. rank[c[n]] < rank[c[m]] \/ rank[c[m]] < rank[c[n]]
  BY <1>1, <1>3, <1>7
<1>9. rank[c[n]] \in Nat
  BY <1>4
<1> QED
  BY <1>6, <1>8, <1>9

(* The elements that are met from the first one on are those of the list;  *)
(* each but the first has a predecessor.                                   *)
LEMMA ElementsAre ==
  ASSUME TypeOK, NEW list \in [Slot -> Object \cup {-1}], NEW rank \in [Slot -> Nat],
         Ordered(list, rank), Headed(list, rank), NEW x \in Lists
  PROVE  /\ Elements(First(x)) = {i \in Slot : list[i] = x}
         /\ \A i \in Elements(First(x)) :
              i # First(x) => \E j \in Slot : list[j] = x /\ next[j] = i
<1> DEFINE c == Chain(First(x))
           E == Elements(First(x))
<1>0. PoolSize \in Nat
  BY PoolAssumption
<1>1. \A n \in 0 .. PoolSize : c[n] # -1 => c[n] \in Slot /\ list[c[n]] = x
  BY ChainIsOrdered
<1>2. /\ c[0] = First(x)
      /\ \A n \in 1 .. PoolSize : c[n] = IF c[n - 1] = -1 THEN -1 ELSE next[c[n - 1]]
  BY ChainIs, TypesOfLists
<1>3. c[PoolSize] = -1
  BY ListsEnd DEF Ends
<1>4. E = {c[n] : n \in 0 .. PoolSize} \ {-1}
  BY DEF Elements
<1> HIDE DEF c, E
<1>5. E \subseteq {i \in Slot : list[i] = x}
  BY <1>1, <1>4
<1>6. \A i \in E : next[i] # -1 => next[i] \in E
  <2> TAKE i \in E
  <2>1. PICK n \in 0 .. PoolSize : i = c[n] /\ i # -1
    BY <1>4
  <2>2. n + 1 \in 1 .. PoolSize /\ n + 1 \in 0 .. PoolSize /\ (n + 1) - 1 = n
    BY <1>0, <1>3, <2>1
  <2>3. c[n + 1] = next[i]
    BY <1>2, <2>1, <2>2
  <2> QED
    BY <1>4, <2>2, <2>3
<1>7. \A i \in E : i # First(x) => \E j \in Slot : list[j] = x /\ next[j] = i
  <2> TAKE i \in E
  <2> HAVE i # First(x)
  <2>1. PICK n \in 0 .. PoolSize : i = c[n] /\ i # -1
    BY <1>4
  <2>2. n \in 1 .. PoolSize /\ n - 1 \in 0 .. PoolSize
    BY <1>0, <1>2, <2>1
  <2>3. c[n - 1] # -1 /\ next[c[n - 1]] = i
    BY <1>2, <2>1, <2>2
  <2> QED
    BY <1>1, <2>2, <2>3
<1>8. ASSUME NEW i \in Slot, list[i] = x, i \notin E PROVE FALSE
  <2> DEFINE Dist == {d \in Nat : \E j \in E : rank[j] < rank[i] /\ d = rank[i] - rank[j]}
  <2>1. First(x) # -1 /\ First(x) \in E /\ rank[First(x)] <= rank[i]
    <3>1. First(x) # -1 /\ rank[First(x)] <= rank[i]
      BY <1>8 DEF Headed
    <3>2. 0 \in 0 .. PoolSize
      BY <1>0
    <3> QED
      BY <1>2, <1>4, <3>1, <3>2
  <2>2. First(x) \in Slot /\ list[First(x)] = x
    BY <1>5, <2>1
  <2>3. rank[First(x)] < rank[i]
    <3>1. rank[First(x)] # rank[i]
      BY <1>8, <2>1, <2>2 DEF Ordered
    <3>2. rank[First(x)] \in Nat /\ rank[i] \in Nat
      BY <1>8, <2>2
    <3> QED
      BY <2>1, <3>1, <3>2
  <2>4. Dist # {}
    <3>1. rank[First(x)] \in Nat /\ rank[i] \in Nat
      BY <1>8, <2>2
    <3>2. rank[i] - rank[First(x)] \in Nat
      BY <2>3, <3>1
    <3> QED
      BY <2>1, <2>3, <3>2
  <2>5. PICK d \in Dist : \A e \in Dist : d <= e
    <3>1. Dist \in SUBSET Nat
      OBVIOUS
    <3> HIDE DEF Dist
    <3> QED
      BY <2>4, <3>1, LowestIsIn
  <2>6. PICK j \in E : rank[j] < rank[i] /\ d = rank[i] - rank[j]
    BY <2>5
  <2>7. j \in Slot /\ list[j] = x
    BY <1>5
  <2>8. next[j] # -1 /\ rank[next[j]] <= rank[i]
    BY <1>8, <2>6, <2>7 DEF Ordered
  <2>9. next[j] \in E /\ next[j] \in Slot /\ list[next[j]] = x
    BY <1>5, <1>6, <2>8
  <2>10. next[j] # i
    BY <1>8, <2>9
  <2>11. rank[next[j]] # rank[i]
    BY <1>8, <2>9, <2>10 DEF Ordered
  <2>12. rank[j] < rank[next[j]]
    BY <2>7, <2>8 DEF Ordered
  <2>13. rank[next[j]] \in Nat /\ rank[i] \in Nat /\ rank[j] \in Nat
    BY <1>8, <2>7, <2>9
  <2>14. rank[i] - rank[next[j]] \in Dist
    BY <2>8, <2>9, <2>11, <2>13
  <2>15. d <= rank[i] - rank[next[j]]
    BY <2>5, <2>14
  <2> QED
    BY <2>6, <2>12, <2>13, <2>15
<1>9. E = {i \in Slot : list[i] = x}
  BY <1>5, <1>8
<1> QED
  BY <1>7, <1>9 DEF E
----------------------------------------------------------------------------
(* An element moves from its list to the beginning of another.             *)
NewList(list, i, y) == [list EXCEPT ![i] = y]
NewRank(rank, i)    == [j \in Slot |-> IF j = i THEN 0 ELSE rank[j] + 1]

Moves(i, x, y) ==
  /\ Lists' = Lists
  /\ First(y)' = i
  /\ First(x)' = IF First(x) = i THEN next[i] ELSE First(x)
  /\ \A z \in Lists \ {x, y} : First(z)' = First(z)
  /\ next' = [j \in Slot |-> IF j = i THEN First(y)
                             ELSE IF next[j] = i THEN next[i] ELSE next[j]]

(* Taking an element from the free list and giving one back leave the      *)
(* other elements in order.                                                *)
LEMMA MovingKeepsOrder ==
  ASSUME TypeOK, NEW list \in [Slot -> Object \cup {-1}], NEW rank \in [Slot -> Nat],
         Ordered(list, rank), Headed(list, rank),
         NEW i \in Slot, NEW y \in Lists, list[i] # y, Moves(i, list[i], y)
  PROVE  /\ NewList(list, i, y) \in [Slot -> Object \cup {-1}]
         /\ NewRank(rank, i) \in [Slot -> Nat]
         /\ Ordered(NewList(list, i, y), NewRank(rank, i))'
         /\ Headed(NewList(list, i, y), NewRank(rank, i))'
<1> DEFINE l == NewList(list, i, y)
           r == NewRank(rank, i)
<1>1. /\ l \in [Slot -> Object \cup {-1}] /\ l[i] = y
      /\ \A j \in Slot \ {i} : l[j] = list[j]
  BY TypesOfLists DEF NewList, Lists
<1>2. /\ r \in [Slot -> Nat] /\ r[i] = 0
      /\ \A j \in Slot \ {i} : r[j] = rank[j] + 1
  BY DEF NewRank
<1>3. /\ \A j \in Slot : next[j] # -1 => next[j] \in Slot
      /\ \A x \in Lists : First(x) # -1 => First(x) \in Slot
  BY TypesOfLists DEF TypeOK
<1>4. \A j, k \in Slot : /\ j # i /\ k # i => (r[j] < r[k] <=> rank[j] < rank[k])
                         /\ j # i /\ k # i => (r[j] <= r[k] <=> rank[j] <= rank[k])
                         /\ j # i /\ k # i => (r[j] = r[k] <=> rank[j] = rank[k])
                         /\ j # i => r[i] < r[j] /\ ~(r[j] <= r[i])
  BY <1>2
<1>5. \A j, k, m \in Slot : /\ rank[j] < rank[k] /\ rank[k] < rank[m] => rank[j] < rank[m]
                            /\ rank[j] < rank[k] => j # k /\ ~(rank[k] <= rank[j])
                            /\ rank[j] <= rank[k] => rank[j] < rank[k] \/ rank[j] = rank[k]
                            /\ r[j] <= r[j] /\ ~(r[j] < r[j])
  BY <1>2
<1>6. /\ \A j \in Slot : l[j] \in Lists
      /\ list[i] \in Lists
  BY <1>1 DEF Headed
<1> HIDE DEF l, r
<1>7. /\ next'[i] = First(y)
      /\ \A j \in Slot \ {i} : next'[j] = IF next[j] = i THEN next[i] ELSE next[j]
  BY DEF Moves
<1>8. First(y) # -1 => First(y) # i /\ First(y) \in Slot /\ l[First(y)] = y
  BY <1>1, <1>3 DEF Headed
<1>9. next[i] # -1 => /\ next[i] # i /\ next[i] \in Slot /\ list[next[i]] = list[i]
                      /\ l[next[i]] = list[i] /\ rank[i] < rank[next[i]]
  BY <1>1, <1>3, <1>5 DEF Ordered
<1>10. ASSUME NEW j \in Slot, next'[j] # -1
       PROVE  next'[j] \in Slot /\ l[next'[j]] = l[j] /\ r[j] < r[next'[j]]
  <2>1. CASE j = i
    BY <1>1, <1>4, <1>7, <1>8, <1>10, <2>1
  <2>2. CASE j # i /\ next[j] = i
    <3>1. next'[j] = next[i] /\ list[j] = list[i] /\ rank[j] < rank[i]
      BY <1>7, <2>2, TypesOfLists DEF Ordered
    <3> QED
      BY <1>1, <1>4, <1>5, <1>9, <1>10, <2>2, <3>1
  <2>3. CASE j # i /\ next[j] # i
    <3>1. next'[j] = next[j] /\ next[j] \in Slot /\ list[next[j]] = list[j] /\ rank[j] < rank[next[j]]
      BY <1>3, <1>7, <1>10, <2>3 DEF Ordered
    <3> QED
      BY <1>1, <1>4, <2>3, <3>1
  <2> QED
    BY <2>1, <2>2, <2>3
<1>11. ASSUME NEW j \in Slot, NEW k \in Slot, l[j] = l[k], r[j] < r[k]
       PROVE  next'[j] # -1 /\ r[next'[j]] <= r[k]
  <2>1. k # i
    BY <1>2, <1>4, <1>5, <1>11
  <2>2. CASE j = i
    <3>1. list[k] = y
      BY <1>1, <1>11, <2>1, <2>2
    <3>2. First(y) # -1 /\ rank[First(y)] <= rank[k]
      BY <3>1 DEF Headed
    <3> QED
      BY <1>4, <1>7, <1>8, <2>1, <2>2, <3>2
  <2>3. CASE j # i
    <3>1. list[j] = list[k] /\ rank[j] < rank[k]
      BY <1>1, <1>4, <1>11, <2>1, <2>3
    <3>2. next[j] # -1 /\ next[j] \in Slot /\ rank[next[j]] <= rank[k] /\ list[next[j]] = list[j]
      BY <1>3, <3>1 DEF Ordered
    <3>3. CASE next[j] # i
      BY <1>4, <1>7, <2>1, <2>3, <3>2, <3>3
    <3>4. CASE next[j] = i
      <4>1. rank[i] # rank[k]
        BY <2>1, <3>1, <3>2, <3>4 DEF Ordered
      <4>2. rank[i] < rank[k] /\ list[i] = list[k]
        BY <1>5, <3>1, <3>2, <3>4, <4>1
      <4>3. next[i] # -1 /\ rank[next[i]] <= rank[k]
        BY <4>2 DEF Ordered
      <4> QED
        BY <1>4, <1>7, <1>9, <2>1, <2>3, <3>4, <4>3
    <3> QED
      BY <3>3, <3>4
  <2> QED
    BY <2>2, <2>3
<1>12. ASSUME NEW j \in Slot, NEW k \in Slot, l[j] = l[k], r[j] = r[k]
       PROVE  j = k
  <2>1. (j = i <=> k = i)
    BY <1>4, <1>5, <1>12
  <2> QED
    BY <1>1, <1>4, <1>12, <2>1 DEF Ordered
<1>13. Ordered(l, r)'
  BY <1>10, <1>11, <1>12 DEF Ordered
<1>14. ASSUME NEW x \in Lists, First(x)' # -1
       PROVE  First(x)' \in Slot /\ l[First(x)'] = x
  <2>1. CASE x = y
    BY <1>1, <2>1 DEF Moves
  <2>2. CASE x = list[i]
    <3>1. First(x)' = IF First(x) = i THEN next[i] ELSE First(x)
      BY <2>2 DEF Moves
    <3>2. First(x) # -1 => First(x) \in Slot /\ list[First(x)] = x
      BY <1>3 DEF Headed
    <3> QED
      BY <1>1, <1>9, <1>14, <2>2, <3>1, <3>2
  <2>3. CASE x # y /\ x # list[i]
    <3>1. First(x)' = First(x)
      BY <2>3 DEF Moves
    <3>2. First(x) # -1 => First(x) \in Slot /\ list[First(x)] = x
      BY <1>3 DEF Headed
    <3> QED
      BY <1>1, <1>14, <2>3, <3>1, <3>2
  <2> QED
    BY <2>1, <2>2, <2>3
<1>15. ASSUME NEW j \in Slot
       PROVE  First(l[j])' # -1 /\ r[First(l[j])'] <= r[j]
  <2>1. CASE l[j] = y
    <3>1. First(l[j])' = i
      BY <2>1 DEF Moves
    <3>2. r[i] <= r[j]
      BY <1>2, <1>4, <1>5 DEF r
    <3> QED
      BY <1>3, <3>1, <3>2, TypesOfLists
  <2>2. CASE l[j] # y
    <3>1. j # i /\ l[j] = list[j] /\ list[j] \in Lists
      BY <1>1, <1>6, <2>2
    <3>2. First(list[j]) # -1 /\ First(list[j]) \in Slot /\ rank[First(list[j])] <= rank[j]
      BY <1>3, <3>1 DEF Headed
    <3>3. CASE list[j] = list[i] /\ First(list[j]) = i
      <4>1. First(l[j])' = next[i]
        BY <3>1, <3>3 DEF Moves
      <4>2. rank[i] # rank[j]
        BY <3>1, <3>3 DEF Ordered
      <4>3. rank[i] < rank[j]
        BY <1>5, <3>2, <3>3, <4>2
      <4>4. next[i] # -1 /\ rank[next[i]] <= rank[j]
        BY <3>3, <4>3 DEF Ordered
      <4> QED
        BY <1>4, <1>9, <3>1, <4>1, <4>4
    <3>4. CASE ~(list[j] = list[i] /\ First(list[j]) = i)
      <4>1. First(l[j])' = First(list[j])
        BY <2>2, <3>1, <3>4 DEF Moves
      <4>2. First(list[j]) # i
        BY <3>1, <3>2, <3>4 DEF Headed
      <4> QED
        BY <1>4, <3>1, <3>2, <4>1, <4>2
    <3> QED
      BY <3>3, <3>4
  <2> QED
    BY <2>1, <2>2
<1>16. Headed(l, r)'
  <2>1. Lists' = Lists
    BY DEF Moves
  <2> QED
    BY <1>6, <1>14, <1>15, <2>1 DEF Headed
<1> QED
  BY <1>1, <1>2, <1>13, <1>16 DEF l, r
----------------------------------------------------------------------------
(* Exactly the free elements have no id, and no two of a list have one.    *)
Filled(list) ==
  /\ \A i \in Slot : id[i] = 0 <=> list[i] = -1
  /\ \A i, j \in Slot : list[i] = list[j] /\ list[i] # -1 /\ id[i] = id[j] => i = j

(* Element 0 is the gateway's, whose object is the only one that no call   *)
(* removes properties from.                                                *)
GatewayIsFirst(list) ==
  /\ list[0] = 0
  /\ object[0].dev = Gateway /\ \A o \in Object \ {0} : object[o].dev # Gateway

(* What a search that nothing has disturbed looks for lies ahead of it.    *)
LiesAhead(list, rank) ==
  walk.at \in {"begin", "walking"} /\ walk.linked =>
    /\ list[walk.slot] = walk.o /\ walk.o \in Used /\ id[walk.slot] = walk.p
    /\ walk.at = "walking" => /\ walk.i \in Slot /\ list[walk.i] = walk.o
                              /\ rank[walk.i] <= rank[walk.slot]

Divided(list, rank) ==
  /\ list \in [Slot -> Object \cup {-1}] /\ rank \in [Slot -> Nat]
  /\ Ordered(list, rank) /\ Headed(list, rank)
  /\ Filled(list) /\ GatewayIsFirst(list) /\ LiesAhead(list, rank)

IInv == TypeOK /\ FindsWhatIsThere /\ \E list, rank : Divided(list, rank)

(* A search is of the shape its place says.                                *)
LEMMA WalkIs ==
  ASSUME NEW w \in Walks
  PROVE  /\ w.at \in {"idle", "begin", "walking", "found", "not found"}
         /\ w.at = "idle" => w = NoWalk
         /\ w.at # "idle" => /\ w.o \in Object /\ w.p \in Id /\ w.slot \in Slot
                             /\ w.linked \in BOOLEAN
         /\ w.at \in {"walking", "found", "not found"} => w.i \in Index
         /\ w.at = "begin" =>
              w \in [at : {"begin"}, o : Object, p : Id, slot : Slot, linked : BOOLEAN]
         /\ w.at \in {"walking", "found", "not found"} =>
              w \in [at : {"walking", "found", "not found"}, i : Index, o : Object, p : Id,
                     slot : Slot, linked : BOOLEAN]
<1>1. CASE w = NoWalk
  BY <1>1 DEF NoWalk
<1>2. CASE w \in [at : {"begin"}, o : Object, p : Id, slot : Slot, linked : BOOLEAN]
  <2>1. /\ w.at = "begin" /\ w.o \in Object /\ w.p \in Id /\ w.slot \in Slot
        /\ w.linked \in BOOLEAN
    BY <1>2
  <2> QED
    BY <1>2, <2>1
<1>3. CASE w \in [at : {"walking", "found", "not found"}, i : Index, o : Object, p : Id,
                  slot : Slot, linked : BOOLEAN]
  <2>1. /\ w.at \in {"walking", "found", "not found"}
        /\ w.o \in Object /\ w.p \in Id /\ w.slot \in Slot
        /\ w.linked \in BOOLEAN /\ w.i \in Index
    BY <1>3
  <2> QED
    BY <1>3, <2>1
<1> QED
  BY <1>1, <1>2, <1>3 DEF Walks

(* The history of a search when an element leaves its list.                *)
LEMMA UnlinkedIs ==
  ASSUME walk \in Walks, NEW i \in Slot
  PROVE  /\ Unlinked(i) \in Walks /\ Unlinked(i).at = walk.at
         /\ walk.at \notin {"begin", "walking"} => Unlinked(i) = walk
         /\ walk.at # "idle" /\ Unlinked(i).linked =>
              /\ Unlinked(i) = walk
              /\ walk.at \in {"begin", "walking"} => walk.slot # i
              /\ walk.at = "walking" => walk.i # i
<1>1. CASE ~(\/ walk.at \in {"begin", "walking"} /\ walk.slot = i
             \/ walk.at = "walking" /\ walk.i = i)
  BY <1>1 DEF Unlinked
<1>2. CASE \/ walk.at \in {"begin", "walking"} /\ walk.slot = i
           \/ walk.at = "walking" /\ walk.i = i
  <2>1. Unlinked(i) = [walk EXCEPT !.linked = FALSE]
    BY <1>2 DEF Unlinked
  <2>2. CASE walk.at = "begin"
    BY <2>1, <2>2, WalkIs DEF Walks
  <2>3. CASE walk.at = "walking"
    BY <2>1, <2>3, WalkIs DEF Walks
  <2> QED
    BY <1>2, <2>2, <2>3
<1> QED
  BY <1>1, <1>2

(* The list of an object begins where its object says.                     *)
LEMMA FirstOfObject == TypeOK => \A o \in Used : First(o) = object[o].start
  BY TypesOfLists DEF First

(* A move of an element keeps the division, if it is given an id that is   *)
(* new to its list, or loses its id.                                       *)
LEMMA MovingKeepsDivision ==
  ASSUME TypeOK, FindsWhatIsThere, NEW list, NEW rank, Divided(list, rank),
         NEW i \in Slot, NEW y \in Lists, list[i] # y, Moves(i, list[i], y), i # 0,
         NEW p \in Id \cup {0}, id' = [id EXCEPT ![i] = p], p = 0 <=> y = -1,
         y # -1 => \A j \in Slot : list[j] = y => id[j] # p,
         \A o \in Object : object'[o].dev = object[o].dev,
         walk' = Unlinked(i) \/ (list[i] = -1 /\ walk' = walk)
  PROVE  /\ \E l, r : Divided(l, r)'
         /\ FindsWhatIsThere' /\ walk' \in Walks
<1> DEFINE l == NewList(list, i, y)
           r == NewRank(rank, i)
<1>0. /\ list \in [Slot -> Object \cup {-1}] /\ rank \in [Slot -> Nat]
      /\ Ordered(list, rank) /\ Headed(list, rank)
      /\ Filled(list) /\ GatewayIsFirst(list) /\ LiesAhead(list, rank)
  BY DEF Divided
<1>1. /\ l \in [Slot -> Object \cup {-1}] /\ r \in [Slot -> Nat]
      /\ Ordered(l, r)' /\ Headed(l, r)'
  BY <1>0, MovingKeepsOrder
<1>2. l[i] = y /\ \A j \in Slot \ {i} : l[j] = list[j]
  BY <1>0 DEF NewList
<1>3. \A j, k \in Slot \ {i} : r[j] <= r[k] <=> rank[j] <= rank[k]
  BY <1>0 DEF NewRank
<1> HIDE DEF l, r
<1>4. id'[i] = p /\ \A j \in Slot \ {i} : id'[j] = id[j]
  BY DEF TypeOK
<1>5. Filled(l)'
  BY <1>0, <1>2, <1>4 DEF Filled
<1>6. GatewayIsFirst(l)'
  <2>1. 0 \in Slot
    BY PoolAssumption DEF Slot
  <2>2. 0 \in Object
    BY PoolAssumption DEF Object
  <2> QED
    BY <1>0, <1>2, <2>1, <2>2 DEF GatewayIsFirst
<1>7. walk \in Walks /\ walk' \in Walks /\ walk'.at = walk.at
  BY UnlinkedIs DEF TypeOK
<1>8. Used' = Used
  <2>1. Lists' = Lists
    BY DEF Moves
  <2>2. -1 \notin Used /\ Used' \subseteq Object /\ -1 \notin Object
    BY TypesOfLists DEF Used, Object
  <2> QED
    BY <2>1, <2>2 DEF Lists
<1>9. LiesAhead(l, r)'
  <2> SUFFICES ASSUME walk'.at \in {"begin", "walking"}, walk'.linked
               PROVE  /\ l[walk'.slot] = walk'.o /\ walk'.o \in Used'
                      /\ id'[walk'.slot] = walk'.p
                      /\ walk'.at = "walking" => /\ walk'.i \in Slot /\ l[walk'.i] = walk'.o
                                                 /\ r[walk'.i] <= r[walk'.slot]
    BY DEF LiesAhead
  <2>1. walk' = walk /\ walk.at # "idle"
    BY <1>7, UnlinkedIs
  <2>2. /\ list[walk.slot] = walk.o /\ walk.o \in Used /\ id[walk.slot] = walk.p
        /\ walk.slot \in Slot
        /\ walk.at = "walking" => /\ walk.i \in Slot /\ list[walk.i] = walk.o
                                  /\ rank[walk.i] <= rank[walk.slot]
    BY <1>0, <1>7, <2>1, WalkIs DEF LiesAhead
  <2>3. walk.slot # i /\ (walk.at = "walking" => walk.i # i)
    <3>1. CASE list[i] = -1
      BY <2>2, <3>1, TypesOfLists
    <3>2. CASE walk' = Unlinked(i)
      BY <1>7, <2>1, <3>2, UnlinkedIs
    <3> QED
      BY <3>1, <3>2
  <2> QED
    BY <1>2, <1>3, <1>4, <1>8, <2>1, <2>2, <2>3
<1>10. FindsWhatIsThere'
  BY <1>7, UnlinkedIs DEF FindsWhatIsThere
<1>11. Divided(l, r)'
  BY <1>1, <1>5, <1>6, <1>9 DEF Divided
<1> QED
  BY <1>7, <1>10, <1>11
----------------------------------------------------------------------------
(* The pool as SYS_Initialise leaves it.                                   *)
LEMMA InitEstablishesInvariant == Init => IInv
<1> SUFFICES ASSUME Init PROVE IInv
  OBVIOUS
<1>0. /\ PoolSize \in Nat \ {0} /\ MaxThing \in Nat /\ MaxOps \in Nat
      /\ Gateway \notin Device /\ NoDevice \notin Device \cup {Gateway}
      /\ Id # {} /\ Id \in SUBSET Nat /\ 0 \notin Id
  BY PoolAssumption
<1>1. FirstId \in Id
  <2>1. PICK b \in Id : \A x \in Id : b <= x
    BY <1>0, LowestIsIn
  <2> QED
    BY <2>1 DEF FirstId
<1>2. /\ object = [o \in Object |-> IF o = 0 THEN [dev |-> Gateway, start |-> 0]
                                    ELSE [dev |-> NoDevice, start |-> 0]]
      /\ id = [i \in Slot |-> IF i = 0 THEN FirstId ELSE 0]
      /\ next = [i \in Slot |-> IF i \in {0, PoolSize - 1} THEN -1 ELSE i + 1]
      /\ firstFree = (IF PoolSize > 1 THEN 1 ELSE -1)
      /\ deleting = NoDevice /\ walk = NoWalk /\ ops = 0
  BY DEF Init
<1>3. 0 \in Slot /\ 0 \in Object /\ 0 \in Index /\ -1 \in Index
  BY <1>0 DEF Slot, Object, Index
<1>4. Used = {0}
  BY <1>0, <1>2, <1>3 DEF Used, Unused, Find
<1>5. TypeOK
  <2>1. object \in [Object -> [dev : Device \cup {Gateway, NoDevice}, start : Index]]
    BY <1>2, <1>3
  <2>2. next \in [Slot -> Index] /\ firstFree \in Index
    BY <1>0, <1>2 DEF Slot, Index
  <2>3. ops \in 0 .. MaxOps
    BY <1>0, <1>2
  <2> QED
    BY <1>1, <1>2, <2>1, <2>2, <2>3 DEF TypeOK, Walks
<1> DEFINE list == [i \in Slot |-> IF i = 0 THEN 0 ELSE -1]
           rank == [i \in Slot |-> i]
<1>6. list \in [Slot -> Object \cup {-1}] /\ rank \in [Slot -> Nat]
  BY <1>0, <1>3 DEF Slot
<1>7. Ordered(list, rank)
  BY <1>0, <1>2 DEF Ordered, Slot
<1>8. Headed(list, rank)
  <2>1. First(0) = 0 /\ First(-1) = firstFree
    BY <1>2, <1>3 DEF First
  <2>2. Lists = {0, -1}
    BY <1>4 DEF Lists
  <2>3. \A i \in Slot : list[i] \in Lists
    BY <2>2
  <2>4. \A x \in Lists : First(x) # -1 => list[First(x)] = x
    BY <1>0, <1>2, <2>1, <2>2 DEF Slot
  <2>5. \A i \in Slot : First(list[i]) # -1 /\ rank[First(list[i])] <= rank[i]
    BY <1>0, <1>2, <2>1 DEF Slot
  <2> QED
    BY <2>3, <2>4, <2>5 DEF Headed
<1>9. Filled(list)
  BY <1>0, <1>1, <1>2 DEF Filled
<1>10. GatewayIsFirst(list) /\ LiesAhead(list, rank) /\ FindsWhatIsThere
  BY <1>0, <1>2, <1>3 DEF GatewayIsFirst, LiesAhead, FindsWhatIsThere, NoWalk
<1> HIDE DEF list, rank
<1>11. Divided(list, rank)
  BY <1>6, <1>7, <1>8, <1>9, <1>10 DEF Divided
<1> QED
  BY <1>5, <1>10, <1>11 DEF IInv

(* An object takes the place of one that is not in use, with an empty list.*)
LEMMA CreateObjectKeepsInvariant ==
  ASSUME IInv, NEW d \in Device, CreateObject(d)
  PROVE  IInv'
<1>1. PICK list, rank : Divided(list, rank)
  BY DEF IInv
<1>2. TypeOK /\ FindsWhatIsThere
  BY DEF IInv
<1>3. PICK o \in Unused : o = Lowest(Unused)
  <2>1. Unused \in SUBSET Nat
    BY PoolAssumption DEF Unused, Find, Object
  <2> QED
    BY <2>1, LowestIsIn DEF CreateObject
<1>4. o \in Object /\ object[o].dev = NoDevice /\ o # 0 /\ o # -1
  BY <1>1, <1>3, PoolAssumption DEF Unused, Find, Divided, GatewayIsFirst, Object
<1>5. /\ object' = [object EXCEPT ![o] = [dev |-> d, start |-> -1]]
      /\ UNCHANGED <<id, next, firstFree, deleting, walk>>
  BY <1>3 DEF CreateObject
<1>6. /\ object'[o] = [dev |-> d, start |-> -1]
      /\ \A q \in Object \ {o} : object'[q] = object[q]
  BY <1>2, <1>4, <1>5 DEF TypeOK
<1>7. TypeOK'
  <2>1. -1 \in Index
    BY PoolAssumption DEF Index
  <2>2. object' \in [Object -> [dev : Device \cup {Gateway, NoDevice}, start : Index]]
    BY <1>2, <1>5, <2>1 DEF TypeOK
  <2>3. ops' \in 0 .. MaxOps
    BY <1>2, PoolAssumption DEF TypeOK, CreateObject, Op
  <2> QED
    BY <1>2, <1>5, <2>2, <2>3 DEF TypeOK
<1>8. Used' = Used \cup {o} /\ o \notin Used
  BY <1>3, <1>4, <1>6, PoolAssumption DEF Used, Unused, Find
<1>9. Lists' = Lists \cup {o} /\ o \notin Lists
  BY <1>4, <1>8 DEF Lists
<1>10. First(o)' = -1 /\ \A x \in Lists : First(x)' = First(x)
  <2>1. First(o)' = -1
    BY <1>4, <1>6 DEF First
  <2>2. ASSUME NEW x \in Lists PROVE First(x)' = First(x)
    <3>1. CASE x = -1
      BY <1>5, <3>1 DEF First
    <3>2. CASE x # -1
      <4>1. x \in Object \ {o}
        BY <1>2, <1>9, <3>2, TypesOfLists DEF Lists
      <4> QED
        BY <1>6, <3>2, <4>1 DEF First
    <3> QED
      BY <3>1, <3>2
  <2> QED
    BY <2>1, <2>2
<1>11. Headed(list, rank)'
  <2>1. Headed(list, rank)
    BY <1>1 DEF Divided
  <2>2. \A i \in Slot : list[i] \in Lists'
    BY <1>9, <2>1 DEF Headed
  <2>3. \A x \in Lists' : First(x)' # -1 => list[First(x)'] = x
    BY <1>9, <1>10, <2>1 DEF Headed
  <2>4. \A i \in Slot : First(list[i])' # -1 /\ rank[First(list[i])'] <= rank[i]
    BY <1>10, <2>1 DEF Headed
  <2> QED
    BY <2>2, <2>3, <2>4 DEF Headed
<1>12. Divided(list, rank)'
  <2>1. Ordered(list, rank)' /\ Filled(list)'
    BY <1>1, <1>5 DEF Divided, Ordered, Filled
  <2>2. GatewayIsFirst(list)'
    BY <1>1, <1>4, <1>6, PoolAssumption DEF Divided, GatewayIsFirst, Object
  <2>3. LiesAhead(list, rank)'
    BY <1>1, <1>5, <1>8 DEF Divided, LiesAhead
  <2> QED
    BY <1>1, <1>11, <2>1, <2>2, <2>3 DEF Divided
<1> QED
  BY <1>2, <1>5, <1>7, <1>12 DEF IInv, FindsWhatIsThere

(* memset on an object whose list is empty.                                *)
LEMMA DestroyObjectKeepsInvariant ==
  ASSUME IInv, DestroyObject
  PROVE  IInv'
<1>1. PICK list, rank : Divided(list, rank)
  BY DEF IInv
<1>2. TypeOK /\ FindsWhatIsThere
  BY DEF IInv
<1>3. PICK o \in Find(deleting) :
        /\ object[o].start = -1
        /\ object' = [object EXCEPT ![o] = [dev |-> NoDevice, start |-> 0]]
  BY DEF DestroyObject
<1>4. /\ deleting \in Device /\ UNCHANGED <<id, next, firstFree, walk, ops>>
      /\ deleting' = NoDevice
  BY <1>2 DEF DestroyObject, TypeOK
<1>5. o \in Object /\ object[o].dev = deleting /\ o # 0 /\ o # -1
  BY <1>1, <1>3, <1>4, PoolAssumption DEF Find, Divided, GatewayIsFirst, Object
<1>6. /\ object'[o] = [dev |-> NoDevice, start |-> 0]
      /\ \A q \in Object \ {o} : object'[q] = object[q]
  BY <1>2, <1>3, <1>5 DEF TypeOK
<1>7. TypeOK'
  <2>1. 0 \in Index
    BY PoolAssumption DEF Index
  <2>2. object' \in [Object -> [dev : Device \cup {Gateway, NoDevice}, start : Index]]
    BY <1>2, <1>3, <2>1 DEF TypeOK
  <2> QED
    BY <1>2, <1>4, <2>2 DEF TypeOK
<1>8. Used' = Used \ {o} /\ o \in Used
  BY <1>4, <1>5, <1>6, PoolAssumption DEF Used, Unused, Find
<1>9. Lists' = Lists \ {o} /\ o \in Lists
  BY <1>5, <1>8 DEF Lists
<1>10. First(o) = -1 /\ \A x \in Lists' : First(x)' = First(x)
  BY <1>2, <1>3, <1>4, <1>5, <1>6, <1>9, TypesOfLists DEF First, Lists
<1>11. \A i \in Slot : list[i] # o
  BY <1>1, <1>10 DEF Divided, Headed
<1>12. Headed(list, rank)'
  BY <1>1, <1>9, <1>10, <1>11 DEF Divided, Headed
<1>13. Divided(list, rank)'
  <2>1. Ordered(list, rank)' /\ Filled(list)'
    BY <1>1, <1>4 DEF Divided, Ordered, Filled
  <2>2. GatewayIsFirst(list)'
    BY <1>1, <1>5, <1>6, PoolAssumption DEF Divided, GatewayIsFirst, Object
  <2>3. LiesAhead(list, rank)'
    <3>1. walk.at \in {"begin", "walking"} => walk.slot \in Slot
      BY <1>2, WalkIs DEF TypeOK
    <3> QED
      BY <1>1, <1>4, <1>8, <1>11, <3>1 DEF Divided, LiesAhead
  <2> QED
    BY <1>1, <1>12, <2>1, <2>2, <2>3 DEF Divided
<1> QED
  BY <1>2, <1>4, <1>7, <1>13 DEF IInv, FindsWhatIsThere

(* prv_CreateProperty takes the first free element.                        *)
LEMMA CreatePropertyKeepsInvariant ==
  ASSUME IInv, NEW o \in Object, NEW p \in Id, CreateProperty(o, p)
  PROVE  IInv'
<1>1. PICK list, rank : Divided(list, rank)
  BY DEF IInv
<1>2. TypeOK /\ FindsWhatIsThere
  BY DEF IInv
<1>3. /\ list \in [Slot -> Object \cup {-1}] /\ rank \in [Slot -> Nat]
      /\ Ordered(list, rank) /\ Headed(list, rank)
      /\ Filled(list) /\ GatewayIsFirst(list)
  BY <1>1 DEF Divided
<1>0. PICK i : i = firstFree
  OBVIOUS
<1>4. /\ firstFree >= 0 /\ p \notin IdsOf(o) /\ object[o].dev # NoDevice
      /\ firstFree' = next[i] /\ id' = [id EXCEPT ![i] = p]
      /\ next' = [next EXCEPT ![i] = object[o].start]
      /\ object' = [object EXCEPT ![o].start = i]
      /\ UNCHANGED <<deleting, walk>>
  BY <1>0 DEF CreateProperty
<1>5. i \in Slot /\ i # -1 /\ i \in Index
  BY <1>0, <1>2, <1>4, TypesOfLists DEF TypeOK
<1>6. o \in Used /\ o \in Lists /\ o # -1
  BY <1>2, <1>4, TypesOfLists DEF Used, Unused, Find, Lists
<1>7. -1 \in Lists /\ First(-1) = i /\ list[i] = -1
  BY <1>0, <1>3, <1>5 DEF Lists, First, Headed
<1>8. i # 0
  BY <1>3, <1>7, PoolAssumption DEF GatewayIsFirst, Object
<1>9. \A j \in Slot : next[j] # i
  <2> SUFFICES ASSUME NEW j \in Slot, next[j] = i PROVE FALSE
    OBVIOUS
  <2>1. list[j] = -1 /\ rank[j] < rank[i]
    BY <1>3, <1>5, <1>7 DEF Ordered
  <2>2. rank[i] <= rank[j]
    BY <1>3, <1>7, <2>1 DEF Headed
  <2>3. rank[i] \in Nat /\ rank[j] \in Nat
    BY <1>3, <1>5
  <2> QED
    BY <2>1, <2>2, <2>3
<1>10. /\ object' \in [Object -> [dev : Device \cup {Gateway, NoDevice}, start : Index]]
       /\ \A q \in Object : object'[q].dev = object[q].dev
       /\ object'[o].start = i /\ \A q \in Object \ {o} : object'[q] = object[q]
  BY <1>2, <1>4, <1>5 DEF TypeOK
<1>11. Used' = Used
  BY <1>10 DEF Used, Unused, Find
<1>12. Moves(i, -1, o)
  <2>1. Lists' = Lists
    BY <1>11 DEF Lists
  <2>2. First(o)' = i
    BY <1>6, <1>10 DEF First
  <2>3. First(-1)' = next[i]
    BY <1>4 DEF First
  <2>4. \A z \in Lists \ {-1, o} : First(z)' = First(z)
    BY <1>2, <1>10, TypesOfLists DEF First, Lists
  <2>5. next' = [j \in Slot |-> IF j = i THEN First(o)
                                ELSE IF next[j] = i THEN next[i] ELSE next[j]]
    BY <1>2, <1>4, <1>5, <1>6, <1>9 DEF First, TypeOK
  <2> QED
    BY <1>7, <2>1, <2>2, <2>3, <2>4, <2>5 DEF Moves
<1>13. \A j \in Slot : list[j] = o => id[j] # p
  <2>1. Elements(object[o].start) = {j \in Slot : list[j] = o}
    BY <1>2, <1>3, <1>6, ElementsAre, FirstOfObject
  <2> QED
    BY <1>4, <2>1 DEF IdsOf
<1>14. (\E l, r : Divided(l, r)') /\ FindsWhatIsThere' /\ walk' \in Walks
  <2>1. p # 0 /\ p \in Id \cup {0}
    BY PoolAssumption
  <2>2. Moves(i, list[i], o) /\ list[i] # o /\ (p = 0 <=> o = -1)
    BY <1>6, <1>7, <1>12, <2>1
  <2>3. id' = [id EXCEPT ![i] = p] /\ list[i] = -1 /\ walk' = walk
    BY <1>4, <1>7
  <2>4. o # -1 => \A j \in Slot : list[j] = o => id[j] # p
    BY <1>13
  <2>5. walk' = Unlinked(i) \/ (list[i] = -1 /\ walk' = walk)
    BY <2>3
  <2>6. \A q \in Object : object'[q].dev = object[q].dev
    BY <1>10
  <2> QED
    BY ONLY <1>1, <1>2, <1>5, <1>6, <1>8, <2>1, <2>2, <2>3, <2>4, <2>5, <2>6,
            MovingKeepsDivision
<1>15. TypeOK'
  <2>1. next' \in [Slot -> Index] /\ firstFree' \in Index /\ id' \in [Slot -> Id \cup {0}]
    BY <1>2, <1>4, <1>5 DEF TypeOK
  <2>2. ops' \in 0 .. MaxOps
    BY <1>2, PoolAssumption DEF TypeOK, CreateProperty, Op
  <2> QED
    BY <1>2, <1>4, <1>10, <1>14, <2>1, <2>2 DEF TypeOK
<1> QED
  BY <1>14, <1>15 DEF IInv

(* LSD_RemoveProperty_Safe: taking element 0 for "no previous element" does*)
(* no harm, because properties are removed from devices only.              *)
LEMMA RemovingKeepsInvariant ==
  ASSUME IInv, NEW o \in Object, object[o].dev \in Device,
         NEW i \in Elements(object[o].start), Remove(o, i),
         deleting' = deleting, ops' \in 0 .. MaxOps
  PROVE  IInv'
<1>1. PICK list, rank : Divided(list, rank)
  BY DEF IInv
<1>2. TypeOK /\ FindsWhatIsThere
  BY DEF IInv
<1>3. /\ list \in [Slot -> Object \cup {-1}] /\ rank \in [Slot -> Nat]
      /\ Ordered(list, rank) /\ Headed(list, rank) /\ GatewayIsFirst(list)
  BY <1>1 DEF Divided
<1>4. o \in Used /\ o \in Lists /\ o # -1 /\ o # 0 /\ First(o) = object[o].start
  <2>1. o \in Used
    BY PoolAssumption DEF Used, Unused, Find
  <2>2. o # 0
    BY <1>3, PoolAssumption DEF GatewayIsFirst
  <2> QED
    BY <1>2, <2>1, <2>2, TypesOfLists, FirstOfObject DEF Lists
<1>5. /\ Elements(First(o)) = {j \in Slot : list[j] = o}
      /\ i # First(o) => \E j \in Slot : list[j] = o /\ next[j] = i
  BY <1>2, <1>3, <1>4, ElementsAre
<1>6. i \in Slot /\ list[i] = o /\ i # 0 /\ i # -1 /\ i \in Index
  BY <1>2, <1>3, <1>4, <1>5, TypesOfLists DEF GatewayIsFirst
<1>7. PICK relink : relink = {j \in Previous(o, i) : j > 0}
  OBVIOUS
<1>8. relink = {j \in Slot : next[j] = i}
  <2>1. Previous(o, i) = {j \in Slot : list[j] = o /\ next[j] = i}
    BY <1>4, <1>5 DEF Previous
  <2>2. \A j \in Slot : next[j] = i => list[j] = o
    BY <1>3, <1>6 DEF Ordered
  <2>3. \A j \in Slot : list[j] = o => j > 0
    BY <1>3, <1>4, PoolAssumption DEF GatewayIsFirst, Slot
  <2> QED
    BY <1>7, <2>1, <2>2, <2>3
<1>9. relink = {} <=> First(o) = i
  <2>1. ASSUME First(o) = i, NEW j \in relink PROVE FALSE
    <3>1. j \in Slot /\ list[j] = o /\ rank[j] < rank[i]
      BY <1>3, <1>6, <1>8, <2>1 DEF Ordered
    <3>2. rank[i] <= rank[j]
      BY <1>3, <2>1, <3>1 DEF Headed
    <3>3. rank[i] \in Nat /\ rank[j] \in Nat
      BY <1>3, <1>6, <3>1
    <3> QED
      BY <3>1, <3>2, <3>3
  <2> QED
    BY <1>5, <1>8, <2>1
<1>10. /\ object' = IF relink = {} THEN [object EXCEPT ![o].start = next[i]] ELSE object
       /\ next' = [j \in Slot |-> IF j = i THEN firstFree
                                  ELSE IF j \in relink THEN next[i] ELSE next[j]]
       /\ id' = [id EXCEPT ![i] = 0] /\ firstFree' = i /\ walk' = Unlinked(i)
  BY <1>7 DEF Remove
<1>11. next[i] \in Index
  BY <1>2, <1>6 DEF TypeOK
<1>12. /\ object' \in [Object -> [dev : Device \cup {Gateway, NoDevice}, start : Index]]
       /\ \A q \in Object : object'[q].dev = object[q].dev
       /\ object'[o].start = IF relink = {} THEN next[i] ELSE object[o].start
       /\ \A q \in Object \ {o} : object'[q] = object[q]
  BY <1>2, <1>10, <1>11 DEF TypeOK
<1>13. Used' = Used
  BY <1>12 DEF Used, Unused, Find
<1>14. Moves(i, o, -1)
  <2>1. Lists' = Lists
    BY <1>13 DEF Lists
  <2>2. First(-1)' = i /\ First(-1) = firstFree
    BY <1>10 DEF First
  <2>3. First(o)' = IF First(o) = i THEN next[i] ELSE First(o)
    BY <1>4, <1>9, <1>12 DEF First
  <2>4. \A z \in Lists \ {o, -1} : First(z)' = First(z)
    BY <1>2, <1>12, TypesOfLists DEF First, Lists
  <2>5. next' = [j \in Slot |-> IF j = i THEN First(-1)
                                ELSE IF next[j] = i THEN next[i] ELSE next[j]]
    BY <1>8, <1>10, <2>2
  <2> QED
    BY <2>1, <2>2, <2>3, <2>4, <2>5 DEF Moves
<1>15. (\E l, r : Divided(l, r)') /\ FindsWhatIsThere' /\ walk' \in Walks
  <2>1. -1 \in Lists /\ list[i] # -1 /\ Moves(i, list[i], -1)
    BY <1>4, <1>6, <1>14 DEF Lists
  <2>2. 0 \in Id \cup {0} /\ id' = [id EXCEPT ![i] = 0] /\ walk' = Unlinked(i)
    BY <1>10
  <2>3. \A q \in Object : object'[q].dev = object[q].dev
    BY <1>12
  <2>4. /\ 0 = 0 <=> -1 = -1
        /\ -1 # -1 => \A j \in Slot : list[j] = -1 => id[j] # 0
    OBVIOUS
  <2>5. walk' = Unlinked(i) \/ (list[i] = -1 /\ walk' = walk)
    BY <2>2
  <2> QED
    BY ONLY <1>1, <1>2, <1>6, <2>1, <2>2, <2>3, <2>4, <2>5, MovingKeepsDivision
<1>16. TypeOK'
  <2>1. next' \in [Slot -> Index] /\ firstFree' \in Index /\ id' \in [Slot -> Id \cup {0}]
    BY <1>2, <1>6, <1>10, <1>11 DEF TypeOK
  <2> QED
    BY <1>2, <1>12, <1>15, <2>1 DEF TypeOK
<1> QED
  BY <1>15, <1>16 DEF IInv

(* Starting to delete a device changes no list.                            *)
LEMMA DestroyDeviceKeepsInvariant ==
  ASSUME IInv, NEW d \in Device, DestroyDevice(d)
  PROVE  IInv'
<1>1. UNCHANGED <<object, id, next, firstFree, walk>> /\ deleting' = d
  BY DEF DestroyDevice, pool
<1>2. TypeOK'
  <2>1. ops' \in 0 .. MaxOps
    BY PoolAssumption DEF IInv, TypeOK, DestroyDevice, Op
  <2> QED
    BY <1>1, <2>1 DEF IInv, TypeOK
<1>3. PICK list, rank : Divided(list, rank)
  BY DEF IInv
<1>4. Used' = Used /\ Lists' = Lists
  BY <1>1 DEF Used, Unused, Find, Lists
<1>5. Divided(list, rank)'
  BY <1>1, <1>3, <1>4
  DEF Divided, Ordered, Headed, Filled, GatewayIsFirst, LiesAhead, First
<1> QED
  BY <1>1, <1>2, <1>5 DEF IInv, FindsWhatIsThere

(* A search goes on along its list, where what it looks for lies ahead.    *)
LEMMA WalkingKeepsInvariant ==
  ASSUME IInv, (\E o \in Object, i \in Slot : WalkStart(o, i))
                 \/ WalkBegin \/ WalkStep \/ WalkDone
  PROVE  IInv'
<1>1. PICK list, rank : Divided(list, rank)
  BY DEF IInv
<1>2. TypeOK /\ FindsWhatIsThere /\ walk \in Walks
  BY DEF IInv, TypeOK
<1>3. /\ list \in [Slot -> Object \cup {-1}] /\ rank \in [Slot -> Nat]
      /\ Ordered(list, rank) /\ Headed(list, rank) /\ Filled(list) /\ GatewayIsFirst(list)
      /\ LiesAhead(list, rank)
  BY <1>1 DEF Divided
<1>4. UNCHANGED <<object, id, next, firstFree, deleting>> /\ ops' \in 0 .. MaxOps
  <2>1. UNCHANGED <<object, id, next, firstFree, deleting>>
    BY DEF WalkStart, WalkBegin, WalkStep, WalkDone, pool
  <2>2. ops' = ops \/ Op
    BY DEF WalkStart, WalkBegin, WalkStep, WalkDone
  <2>3. ops' \in 0 .. MaxOps
    BY <1>2, <2>2, PoolAssumption DEF TypeOK, Op
  <2> QED
    BY <2>1, <2>3
<1>5. Used' = Used /\ Lists' = Lists
  BY <1>4 DEF Used, Unused, Find, Lists
<1>6. ASSUME walk' \in Walks, LiesAhead(list, rank)', FindsWhatIsThere'
      PROVE  IInv'
  <2>1. TypeOK'
    BY <1>2, <1>4, <1>6 DEF TypeOK
  <2>2. Ordered(list, rank)' /\ Headed(list, rank)' /\ Filled(list)' /\ GatewayIsFirst(list)'
    BY <1>3, <1>4, <1>5 DEF Ordered, Headed, Filled, GatewayIsFirst, First
  <2>3. Divided(list, rank)'
    BY <1>3, <1>6, <2>2 DEF Divided
  <2> QED
    BY <1>6, <2>1, <2>3 DEF IInv
<1>7. CASE \E o \in Object, i \in Slot : WalkStart(o, i)
  <2>1. PICK o \in Object, i \in Slot : WalkStart(o, i)
    BY <1>7
  <2>2. o \in Used /\ i \in Elements(First(o)) /\ o # -1
    BY <1>2, <2>1, TypesOfLists, FirstOfObject DEF WalkStart, Used, Unused, Find
  <2>3. list[i] = o
    BY <1>2, <1>3, <2>2, ElementsAre DEF Lists
  <2>4. id[i] \in Id
    BY <1>2, <1>3, <2>2, <2>3 DEF TypeOK, Filled
  <2>5. walk' = [at |-> "begin", o |-> o, p |-> id[i], slot |-> i, linked |-> TRUE]
    BY <2>1 DEF WalkStart
  <2>6. walk' \in Walks
    BY <2>4, <2>5 DEF Walks
  <2> QED
    BY <1>4, <1>5, <1>6, <2>2, <2>3, <2>5, <2>6 DEF LiesAhead, FindsWhatIsThere
<1>8. CASE WalkBegin
  <2>1. walk.at = "begin"
    BY <1>8 DEF WalkBegin
  <2>2. walk' = [at |-> "walking", i |-> object[walk.o].start, o |-> walk.o, p |-> walk.p,
                 slot |-> walk.slot, linked |-> walk.linked]
    BY <1>8 DEF WalkBegin
  <2>3. /\ walk.o \in Object /\ walk.p \in Id /\ walk.slot \in Slot
        /\ walk.linked \in BOOLEAN
    BY <1>2, <2>1, WalkIs
  <2>4. object[walk.o].start \in Index
    BY <1>2, <2>3 DEF TypeOK
  <2>5. walk' \in Walks
    BY <2>2, <2>3, <2>4 DEF Walks
  <2>6. ASSUME walk.linked
        PROVE  /\ list[walk.slot] = walk.o /\ walk.o \in Used /\ id[walk.slot] = walk.p
               /\ object[walk.o].start \in Slot /\ list[object[walk.o].start] = walk.o
               /\ rank[object[walk.o].start] <= rank[walk.slot]
    <3>1. list[walk.slot] = walk.o /\ walk.o \in Used /\ id[walk.slot] = walk.p
      BY <1>3, <2>1, <2>6 DEF LiesAhead
    <3>2. First(walk.o) = object[walk.o].start /\ walk.o \in Lists
      BY <1>2, <3>1, FirstOfObject DEF Lists
    <3> QED
      BY <1>2, <1>3, <2>3, <3>1, <3>2, TypesOfLists DEF Headed
  <2> QED
    BY <1>4, <1>5, <1>6, <2>2, <2>5, <2>6 DEF LiesAhead, FindsWhatIsThere
<1>9. CASE WalkStep
  <2>1. walk.at = "walking"
    BY <1>9 DEF WalkStep
  <2>2. walk' = IF walk.i = -1 THEN [walk EXCEPT !.at = "not found"]
                ELSE IF id[walk.i] = walk.p THEN [walk EXCEPT !.at = "found"]
                ELSE [walk EXCEPT !.i = next[walk.i]]
    BY <1>9 DEF WalkStep
  <2>3. /\ walk \in [at : {"walking", "found", "not found"}, i : Index, o : Object, p : Id,
                     slot : Slot, linked : BOOLEAN]
        /\ walk.i \in Index /\ walk.slot \in Slot /\ walk.linked \in BOOLEAN
    BY <1>2, <2>1, WalkIs
  <2>4. walk.linked => /\ list[walk.slot] = walk.o /\ walk.o \in Used /\ id[walk.slot] = walk.p
                       /\ walk.i \in Slot /\ list[walk.i] = walk.o
                       /\ rank[walk.i] <= rank[walk.slot]
    BY <1>3, <2>1 DEF LiesAhead
  <2>5. CASE walk.i = -1
    <3>1. walk' = [walk EXCEPT !.at = "not found"]
      BY <2>2, <2>5
    <3>2. walk' \in Walks /\ walk'.at = "not found" /\ walk'.linked = walk.linked
      BY <2>3, <3>1 DEF Walks
    <3>3. ~walk.linked
      BY <1>2, <2>4, <2>5, TypesOfLists
    <3> QED
      BY <1>6, <3>2, <3>3 DEF LiesAhead, FindsWhatIsThere
  <2>6. CASE walk.i # -1 /\ id[walk.i] = walk.p
    <3>1. walk' = [walk EXCEPT !.at = "found"]
      BY <2>2, <2>6
    <3>2. walk' \in Walks /\ walk'.at = "found"
      BY <2>3, <3>1 DEF Walks
    <3> QED
      BY <1>6, <3>2 DEF LiesAhead, FindsWhatIsThere
  <2>7. CASE walk.i # -1 /\ id[walk.i] # walk.p
    <3>1. walk' = [walk EXCEPT !.i = next[walk.i]]
      BY <2>2, <2>7
    <3>2. walk.i \in Slot /\ next[walk.i] \in Index
      BY <1>2, <2>3, <2>7, TypesOfLists DEF TypeOK
    <3>3. /\ walk' \in Walks /\ walk'.at = "walking" /\ walk'.i = next[walk.i]
          /\ walk'.linked = walk.linked /\ walk'.slot = walk.slot
          /\ walk'.o = walk.o /\ walk'.p = walk.p
      BY <2>1, <2>3, <3>1, <3>2 DEF Walks
    <3>4. ASSUME walk.linked
          PROVE  /\ next[walk.i] \in Slot /\ list[next[walk.i]] = walk.o
                 /\ rank[next[walk.i]] <= rank[walk.slot]
      <4>0. /\ rank[walk.i] \in Nat /\ rank[walk.slot] \in Nat
            /\ list[walk.i] = list[walk.slot] /\ rank[walk.i] <= rank[walk.slot]
        BY <1>3, <2>3, <2>4, <3>2, <3>4
      <4>1. walk.i # walk.slot
        BY <2>4, <2>7, <3>4
      <4>2. rank[walk.i] # rank[walk.slot]
        BY <1>3, <2>3, <3>2, <4>0, <4>1 DEF Ordered
      <4>3. rank[walk.i] < rank[walk.slot]
        BY <4>0, <4>2
      <4>4. next[walk.i] # -1 /\ rank[next[walk.i]] <= rank[walk.slot]
        BY <1>3, <2>3, <3>2, <4>0, <4>3 DEF Ordered
      <4> QED
        BY <1>2, <1>3, <2>4, <3>2, <3>4, <4>4, TypesOfLists DEF Ordered
    <3> QED
      BY <1>4, <1>5, <1>6, <2>4, <3>3, <3>4 DEF LiesAhead, FindsWhatIsThere
  <2> QED
    BY <2>5, <2>6, <2>7
<1>10. CASE WalkDone
  BY <1>6, <1>10 DEF WalkDone, Walks, NoWalk, LiesAhead, FindsWhatIsThere
<1> QED
  BY <1>7, <1>8, <1>9, <1>10

(* Every step of the pool keeps the invariant.                             *)
LEMMA StepsKeepInvariant == IInv /\ [Next]_vars => IInv'
<1> SUFFICES ASSUME IInv, [Next]_vars
             PROVE  IInv'
  OBVIOUS
<1>1. CASE \E d \in Device : CreateObject(d) \/ DestroyDevice(d)
  BY <1>1, CreateObjectKeepsInvariant, DestroyDeviceKeepsInvariant
<1>2. CASE \E o \in Object, p \in Id : CreateProperty(o, p)
  BY <1>2, CreatePropertyKeepsInvariant
<1>3. CASE \E o \in Object, p \in Id : RemoveProperty(o, p)
  <2>1. PICK o \in Object, p \in Id : RemoveProperty(o, p)
    BY <1>3
  <2>2. PICK i \in Elements(object[o].start) : Remove(o, i)
    BY <2>1 DEF RemoveProperty
  <2>3. object[o].dev \in Device /\ deleting' = deleting /\ ops' \in 0 .. MaxOps
    BY <2>1, PoolAssumption DEF RemoveProperty, Op, IInv, TypeOK
  <2> QED
    BY <2>2, <2>3, RemovingKeepsInvariant
<1>4. CASE RemoveFirst
  <2>1. PICK o \in Find(deleting) : object[o].start >= 0 /\ Remove(o, object[o].start)
    BY <1>4 DEF RemoveFirst
  <2>2. deleting \in Device /\ deleting' = deleting /\ ops' \in 0 .. MaxOps
    BY <1>4 DEF RemoveFirst, IInv, TypeOK
  <2>3. o \in Object /\ object[o].dev \in Device
    BY <2>2 DEF Find
  <2>4. object[o].start \in Elements(object[o].start)
    <3>1. PICK list, rank : Divided(list, rank)
      BY DEF IInv
    <3>2. TypeOK
      BY DEF IInv
    <3>3. o \in Used /\ o \in Lists
      BY <2>3, PoolAssumption DEF Used, Unused, Find, Lists
    <3>4. First(o) = object[o].start /\ First(o) # -1 /\ First(o) \in Slot
      BY <2>1, <3>2, <3>3, FirstOfObject, TypesOfLists
    <3>5. list[First(o)] = o
      BY <3>1, <3>3, <3>4 DEF Divided, Headed
    <3>6. Elements(First(o)) = {i \in Slot : list[i] = o}
      BY <3>1, <3>2, <3>3, ElementsAre DEF Divided
    <3> QED
      BY <3>4, <3>5, <3>6
  <2> QED
    BY <2>1, <2>2, <2>3, <2>4, RemovingKeepsInvariant
<1>5. CASE DestroyObject
  BY <1>5, DestroyObjectKeepsInvariant
<1>6. CASE (\E o \in Object, i \in Slot : WalkStart(o, i)) \/ WalkBegin \/ WalkStep \/ WalkDone
  BY <1>6, WalkingKeepsInvariant
<1>7. CASE UNCHANGED vars
  <2>1. UNCHANGED <<object, id, next, firstFree, deleting, walk, ops>>
    BY <1>7 DEF vars, pool
  <2>2. Used' = Used /\ Lists' = Lists
    BY <2>1 DEF Used, Unused, Find, Lists
  <2>3. PICK list, rank : Divided(list, rank)
    BY DEF IInv
  <2>4. Divided(list, rank)'
    BY <2>1, <2>2, <2>3
    DEF Divided, Ordered, Headed, Filled, GatewayIsFirst, LiesAhead, First
  <2> QED
    BY <2>1, <2>4 DEF IInv, TypeOK, FindsWhatIsThere
<1> QED
  BY <1>1, <1>2, <1>3, <1>4, <1>5, <1>6, <1>7 DEF Next

(* The pool never leaves the inductive invariant: some assignment of its   *)
(* elements to lists, and some order in them, is what the links describe.  *)
THEOREM InvariantHolds == Spec => []IInv
<1>1. Init => IInv
  BY InitEstablishesInvariant
<1>2. IInv /\ [Next]_vars => IInv'
  BY StepsKeepInvariant
<1> QED
  BY <1>1, <1>2, PTL DEF Spec

(* An assignment of elements to lists divides the pool as the property     *)
(* says.                                                                   *)
LEMMA DivisionIsPartition == IInv => PoolIsPartitioned /\ IdsAreUnique
<1> SUFFICES ASSUME IInv PROVE PoolIsPartitioned /\ IdsAreUnique
  OBVIOUS
<1>1. PICK list, rank : Divided(list, rank)
  BY DEF IInv
<1>2. TypeOK
  BY DEF IInv
<1>3. /\ list \in [Slot -> Object \cup {-1}] /\ rank \in [Slot -> Nat]
      /\ Ordered(list, rank) /\ Headed(list, rank) /\ Filled(list)
  BY <1>1 DEF Divided
<1>4. \A x \in Lists : Elements(First(x)) = {i \in Slot : list[i] = x} /\ Ends(First(x))
  BY <1>2, <1>3, ElementsAre, ListsEnd
<1>5. Elements(firstFree) = {i \in Slot : list[i] = -1} /\ Ends(firstFree)
  BY <1>4 DEF Lists, First
<1>6. \A o \in Used : /\ Elements(object[o].start) = {i \in Slot : list[i] = o}
                      /\ Ends(object[o].start) /\ o # -1
  BY <1>2, <1>4, FirstOfObject, TypesOfLists DEF Lists
<1>7. \A i \in Slot : list[i] \in Used \cup {-1}
  BY <1>3 DEF Headed, Lists
<1>8. PoolIsPartitioned
  <2>1. Elements(firstFree) \cup UNION {Elements(object[o].start) : o \in Used} = Slot
    BY <1>5, <1>6, <1>7
  <2>2. Elements(firstFree) = {i \in Slot : id[i] = 0}
    BY <1>3, <1>5 DEF Filled
  <2> QED
    BY <1>5, <1>6, <2>1, <2>2 DEF PoolIsPartitioned
<1>9. IdsAreUnique
  BY <1>3, <1>6 DEF IdsAreUnique, Filled
<1> QED
  BY <1>8, <1>9

(* The free list and the lists of the objects end, share no element and    *)
(* hold the whole pool, whatever is created, removed and destroyed, for    *)
(* every size of the pool.                                                 *)
THEOREM PoolStaysPartitioned == Spec => []PoolIsPartitioned
  BY InvariantHolds, DivisionIsPartition, PTL

(* No two properties of an object have the same id.                        *)
THEOREM IdsStayUnique == Spec => []IdsAreUnique
  BY InvariantHolds, DivisionIsPartition, PTL

(* LSD_NotifyDirectly, without the mutex, finds what stays in its list,    *)
(* unless the element it stands on is freed.                               *)
THEOREM SearchFindsWhatIsThere == Spec => []FindsWhatIsThere
  BY InvariantHolds, PTL DEF IInv

(* Every variable of the pool has its type.                                *)
THEOREM TypeCorrectness == Spec => []TypeOK
  BY InvariantHolds, PTL DEF IInv
============================================================================
