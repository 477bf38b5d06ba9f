------------------------ MODULE PendingEvents_proof ------------------------
(***************************************************************************)
(* Proofs about PendingEvents.tla, for any pool of buffers, any devices and*)
(* any messages.                                                           *)
(***************************************************************************)
EXTENDS PendingEvents, FiniteSetTheorems, FunctionTheorems, SequenceTheorems,
        WellFoundedInduction, TLAPS

Size  == Cardinality(Buffer)
Link  == Buffer \cup {Nil}
Place == List \cup {"busy"}

Timeout == [list : {"faults", "alarms"}, buffer : Buffer, event : Nat \ {0}]

Memory ==
  [next : [Buffer -> Link], head : [List -> Link], data : [Buffer -> Content],
   timers : SUBSET Timeout]

(* Which list each buffer is in, and its place there: a link leads to the  *)
(* buffer of the same list with the next rank.                             *)
Placed(m, place, rank) ==
  /\ place \in [Buffer -> Place] /\ rank \in [Buffer -> Nat]
  /\ \A l \in List : m.head[l] # Nil => place[m.head[l]] = l
  /\ \A b \in Buffer : place[b] \in List =>
       /\ m.head[place[b]] # Nil /\ rank[m.head[place[b]]] <= rank[b]
       /\ m.next[b] # Nil => place[m.next[b]] = place[b] /\ rank[b] < rank[m.next[b]]
  /\ \A b, c \in Buffer : place[b] \in List /\ place[b] = place[c] =>
       /\ rank[b] < rank[c] => m.next[b] # Nil /\ rank[m.next[b]] <= rank[c]
       /\ rank[b] = rank[c] => b = c
----------------------------------------------------------------------------
(* Following a list.                                                       *)

(* A set of numbers that is not empty has a least element.                 *)
LEMMA LeastIsIn ==
  ASSUME NEW S \in SUBSET Nat, S # {}
  PROVE  \E b \in S : \A x \in S : b <= x
<1> DEFINE Less == {ss \in Nat \X Nat : ss[1] < ss[2]}
<1>1. IsWellFoundedOn(Less, Nat)
  BY NatLessThanWellFounded DEF OpToRel
<1>2. PICK b \in S : \A x \in S : ~(<<x, b>> \in Less)
  <2> HIDE DEF Less
  <2> QED
    BY <1>1, WFMin
<1>3. \A x \in S : b <= x
  <2> TAKE x \in S
  <2>1. b \in Nat /\ x \in Nat
    OBVIOUS
  <2>2. ~(x < b)
    <3>1. x < b => <<x, b>> \in Less
      BY <2>1
    <3> QED
      BY <1>2, <3>1
  <2> QED
    BY <2>1, <2>2
<1> QED
  BY <1>3

(* The pool is not empty.                                                  *)
LEMMA SizeIs == Size \in Nat \ {0} /\ IsFiniteSet(Buffer) /\ Buffer # {} /\ Nil \notin Buffer
<1>1. IsFiniteSet(Buffer) /\ Buffer # {} /\ Nil \notin Buffer
  BY PendingAssumption
<1>2. Cardinality(Buffer) \in Nat /\ (Cardinality(Buffer) = 0 <=> Buffer = {})
  BY <1>1, FS_CardinalityType, FS_EmptySet
<1> QED
  BY <1>1, <1>2 DEF Size

Follows(f, m, l, n) ==
  f = [i \in 0 .. n |-> IF i = 0 THEN m.head[l] ELSE Follow(m, f[i - 1])]

(* A list can be followed for any number of links.                         *)
LEMMA FollowingExists ==
  ASSUME NEW m, NEW l, NEW n \in Nat
  PROVE  \E f : Follows(f, m, l, n)
<1> DEFINE Stuck == {k \in Nat : ~ \E f : Follows(f, m, l, k)}
<1>1. SUFFICES ASSUME Stuck # {} PROVE FALSE
  OBVIOUS
<1>2. PICK k \in Stuck : \A j \in Stuck : k <= j
  <2>1. Stuck \in SUBSET Nat
    OBVIOUS
  <2> HIDE DEF Stuck
  <2> QED
    BY <1>1, <2>1, LeastIsIn
<1>3. k # 0
  <2>1. Follows([i \in 0 .. 0 |-> m.head[l]], m, l, 0)
    BY DEF Follows
  <2> QED
    BY <1>2, <2>1
<1>4. k \in Nat /\ k - 1 \in Nat /\ k - 1 \notin Stuck
  BY <1>2, <1>3
<1>5. PICK g : Follows(g, m, l, k - 1)
  BY <1>4
<1> DEFINE f == [i \in 0 .. k |-> IF i < k THEN g[i] ELSE Follow(m, g[k - 1])]
<1>6. \A i \in 0 .. k : f[i] = IF i = 0 THEN m.head[l] ELSE Follow(m, f[i - 1])
  <2>1. \A i \in 0 .. k - 1 : g[i] = IF i = 0 THEN m.head[l] ELSE Follow(m, g[i - 1])
    BY <1>5 DEF Follows
  <2> TAKE i \in 0 .. k
  <2>2. CASE i < k
    <3>1. i \in 0 .. k - 1 /\ f[i] = g[i] /\ (i # 0 => i - 1 \in 0 .. k - 1 /\ f[i - 1] = g[i - 1])
      BY <1>4, <2>2
    <3> HIDE DEF f
    <3> QED
      BY <2>1, <3>1
  <2>3. CASE i = k
    <3>1. f[i] = Follow(m, g[k - 1]) /\ f[i - 1] = g[k - 1]
      BY <1>3, <1>4, <2>3
    <3> HIDE DEF f
    <3> QED
      BY <1>3, <2>3, <3>1
  <2> QED
    BY <1>4, <2>2, <2>3
<1>7. Follows(f, m, l, k)
  <2>1. f = [i \in 0 .. k |-> f[i]]
    OBVIOUS
  <2> HIDE DEF f
  <2> QED
    BY <1>6, <2>1 DEF Follows
<1> HIDE DEF f
<1> QED
  BY <1>2, <1>7

(* The definition of a walk is one of a function.                          *)
LEMMA WalkIs ==
  ASSUME NEW m \in Memory, NEW l \in List
  PROVE  /\ Walk(m, l) \in [0 .. Size -> Link]
         /\ Walk(m, l)[0] = m.head[l]
         /\ \A i \in 1 .. Size : Walk(m, l)[i] = Follow(m, Walk(m, l)[i - 1])
<1> DEFINE f == Walk(m, l)
<1>0. Size \in Nat
  BY SizeIs
<1>1. \E g : Follows(g, m, l, Size)
  BY <1>0, FollowingExists
<1>2. Follows(f, m, l, Size)
  BY <1>1 DEF Walk, Follows, Size
<1>3. \A i \in 0 .. Size : f[i] = IF i = 0 THEN m.head[l] ELSE Follow(m, f[i - 1])
  BY <1>2 DEF Follows
<1>4. f = [i \in 0 .. Size |-> f[i]]
  BY <1>2 DEF Follows
<1> HIDE DEF f
<1>5. m.next \in [Buffer -> Link] /\ m.head \in [List -> Link]
  BY DEF Memory
<1>6. \A b \in Link : Follow(m, b) \in Link
  BY <1>5 DEF Follow, Link
<1> DEFINE Astray == {i \in 0 .. Size : f[i] \notin Link}
<1>7. Astray = {}
  <2> SUFFICES ASSUME Astray # {} PROVE FALSE
    OBVIOUS
  <2>1. PICK k \in Astray : \A j \in Astray : k <= j
    <3>1. Astray \in SUBSET Nat
      BY <1>0
    <3> HIDE DEF Astray
    <3> QED
      BY <3>1, LeastIsIn
  <2>2. k # 0
    BY <1>3, <1>5, <2>1
  <2>3. k - 1 \in 0 .. Size /\ f[k - 1] \in Link
    BY <1>0, <2>1, <2>2
  <2>4. f[k] = Follow(m, f[k - 1])
    BY <1>3, <2>1, <2>2
  <2> QED
    BY <1>6, <2>1, <2>3, <2>4
<1>8. f \in [0 .. Size -> Link]
  BY <1>4, <1>7
<1>9. f[0] = m.head[l] /\ \A i \in 1 .. Size : f[i] = Follow(m, f[i - 1])
  BY <1>0, <1>3
<1> QED
  BY <1>8, <1>9 DEF f

(* Following a list meets its buffers in the order of their ranks.         *)
LEMMA WalkIsOrdered ==
  ASSUME NEW m \in Memory, NEW place, NEW rank, Placed(m, place, rank), NEW l \in List
  PROVE  LET c == Walk(m, l) IN
         /\ \A i \in 0 .. Size : c[i] # Nil => c[i] \in Buffer /\ place[c[i]] = l
         /\ \A i, j \in 0 .. Size :
              i < j /\ c[j] # Nil => c[i] # Nil /\ rank[c[i]] < rank[c[j]]
<1> DEFINE c == Walk(m, l)
<1>0. Size \in Nat /\ Nil \notin Buffer
  BY SizeIs
<1>1. /\ c \in [0 .. Size -> Link] /\ c[0] = m.head[l]
      /\ \A i \in 1 .. Size : c[i] = Follow(m, c[i - 1])
  BY WalkIs
<1> HIDE DEF c
<1>2. \A i \in 0 .. Size : c[i] # Nil => c[i] \in Buffer
  BY <1>1 DEF Link
<1>3. \A i \in 1 .. Size : c[i] # Nil => c[i - 1] # Nil /\ c[i] = m.next[c[i - 1]]
  BY <1>1 DEF Follow
<1>4. place \in [Buffer -> Place] /\ rank \in [Buffer -> Nat]
  BY DEF Placed
<1>5. \A i \in 0 .. Size : c[i] # Nil => place[c[i]] = l
  <2> DEFINE Astray == {i \in 0 .. Size : c[i] # Nil /\ place[c[i]] # l}
  <2> SUFFICES ASSUME Astray # {} PROVE FALSE
    OBVIOUS
  <2>1. PICK k \in Astray : \A j \in Astray : k <= j
    <3>1. Astray \in SUBSET Nat
      BY <1>0
    <3> HIDE DEF Astray
    <3> QED
      BY <3>1, LeastIsIn
  <2>2. k # 0
    BY <1>1, <2>1 DEF Placed
  <2>3. k \in 1 .. Size /\ k - 1 \in 0 .. Size /\ k - 1 < k
    BY <1>0, <2>1, <2>2
  <2>4. c[k - 1] # Nil /\ c[k] = m.next[c[k - 1]] /\ c[k - 1] \in Buffer
    BY <1>2, <1>3, <2>1, <2>3
  <2>5. place[c[k - 1]] = l
    BY <2>1, <2>3, <2>4
  <2> QED
    BY <2>1, <2>4, <2>5 DEF Placed
<1>6. ASSUME NEW i \in 0 .. Size
      PROVE  \A j \in 0 .. Size :
               i < j /\ c[j] # Nil => c[i] # Nil /\ rank[c[i]] < rank[c[j]]
  <2> DEFINE Early == {j \in 0 .. Size :
                         i < j /\ c[j] # Nil /\ ~(c[i] # Nil /\ rank[c[i]] < rank[c[j]])}
  <2> SUFFICES ASSUME Early # {} PROVE FALSE
    OBVIOUS
  <2>1. PICK k \in Early : \A j \in Early : k <= j
    <3>1. Early \in SUBSET Nat
      BY <1>0
    <3> HIDE DEF Early
    <3> QED
      BY <3>1, LeastIsIn
  <2>2. k \in 1 .. Size /\ k - 1 \in 0 .. Size /\ k - 1 < k /\ i <= k - 1
    BY <1>0, <2>1
  <2>3. c[k - 1] # Nil /\ c[k] = m.next[c[k - 1]]
    BY <1>3, <2>1, <2>2
  <2>4. c[k - 1] \in Buffer /\ c[k] \in Buffer /\ rank[c[k - 1]] < rank[c[k]]
    BY <1>2, <1>5, <2>1, <2>2, <2>3 DEF Placed
  <2>5. CASE i = k - 1
    BY <2>1, <2>3, <2>4, <2>5
  <2>6. CASE i # k - 1
    <3>1. k - 1 \notin Early /\ i < k - 1
      BY <2>1, <2>2, <2>6
    <3>2. c[i] # Nil /\ rank[c[i]] < rank[c[k - 1]]
      BY <2>2, <2>3, <3>1
    <3>3. rank[c[i]] \in Nat /\ rank[c[k - 1]] \in Nat /\ rank[c[k]] \in Nat
      BY <1>2, <1>4, <2>4, <3>2
    <3>4. rank[c[i]] < rank[c[k]]
      BY <2>4, <3>2, <3>3
    <3> QED
      BY <2>1, <3>2, <3>4
  <2> QED
    BY <2>5, <2>6
<1> QED
  BY <1>2, <1>5, <1>6 DEF c

(* A list ends: there are no more ranks than buffers.                      *)
LEMMA ListsEnd ==
  ASSUME NEW m \in Memory, NEW place, NEW rank, Placed(m, place, rank), NEW l \in List
  PROVE  ~Endless(m, l)
<1> DEFINE c == Walk(m, l)
           D == 0 .. Size
<1>0. Size \in Nat /\ Nil \notin Buffer /\ IsFiniteSet(Buffer) /\ Cardinality(Buffer) = Size
  BY SizeIs DEF Size
<1>1. /\ \A i \in D : c[i] # Nil => c[i] \in Buffer
      /\ \A i, j \in D : i < j /\ c[j] # Nil => c[i] # Nil /\ rank[c[i]] < rank[c[j]]
  BY WalkIsOrdered
<1>2. c \in [D -> Link]
  BY WalkIs
<1>3. Size \in D /\ \A i \in D : i = Size \/ i < Size
  BY <1>0
<1>4. IsFiniteSet(D) /\ Cardinality(D) = Size + 1 /\ Cardinality(Buffer) < Cardinality(D)
  BY <1>0, FS_Interval
<1>5. \A i, j \in D : i # j => i < j \/ j < i
  BY <1>0
<1> SUFFICES ASSUME c[Size] # Nil PROVE FALSE
  BY DEF Endless, Size
<1> HIDE DEF c, D
<1>6. \A i \in D : c[i] # Nil
  BY <1>1, <1>3
<1>7. c \in [D -> Buffer]
  BY <1>1, <1>2, <1>6
<1>8. PICK i, j \in D : i # j /\ c[i] = c[j]
  BY ONLY <1>0, <1>4, <1>7, FS_PigeonHole
<1>9. rank[c[i]] < rank[c[j]] \/ rank[c[j]] < rank[c[i]]
  BY <1>1, <1>5, <1>6, <1>8
<1>10. rank[c[i]] \in Nat
  BY <1>7 DEF Placed
<1> QED
  BY <1>8, <1>9, <1>10

(* The buffers that a walk meets are those of the list.                    *)
LEMMA MembersAre ==
  ASSUME NEW m \in Memory, NEW place, NEW rank, Placed(m, place, rank), NEW l \in List
  PROVE  Members(m, l) = {b \in Buffer : place[b] = l}
<1> DEFINE c == Walk(m, l)
           E == Members(m, l)
<1>0. Size \in Nat /\ Nil \notin Buffer
  BY SizeIs
<1>1. \A i \in 0 .. Size : c[i] # Nil => c[i] \in Buffer /\ place[c[i]] = l
  BY WalkIsOrdered
<1>2. /\ c \in [0 .. Size -> Link] /\ c[0] = m.head[l]
      /\ \A i \in 1 .. Size : c[i] = Follow(m, c[i - 1])
  BY WalkIs
<1>3. c[Size] = Nil
  BY ListsEnd DEF Endless, Size
<1>4. E = {c[i] : i \in 0 .. Size} \ {Nil}
  BY <1>2 DEF Members
<1> HIDE DEF c, E
<1>5. E \subseteq {b \in Buffer : place[b] = l}
  BY <1>1, <1>4
<1>6. \A b \in E : m.next[b] # Nil => m.next[b] \in E
  <2> TAKE b \in E
  <2>1. PICK i \in 0 .. Size : b = c[i] /\ b # Nil
    BY <1>4
  <2>2. i + 1 \in 1 .. Size /\ i + 1 \in 0 .. Size /\ (i + 1) - 1 = i
    BY <1>0, <1>3, <2>1
  <2>3. c[i + 1] = m.next[b]
    BY <1>2, <2>1, <2>2 DEF Follow
  <2> QED
    BY <1>4, <2>2, <2>3
<1>7. ASSUME NEW b \in Buffer, place[b] = l, b \notin E PROVE FALSE
  <2> DEFINE h == m.head[l]
             Dist == {d \in Nat : \E j \in E : rank[j] < rank[b] /\ d = rank[b] - rank[j]}
  <2>0. rank \in [Buffer -> Nat]
    BY DEF Placed
  <2>1. h # Nil /\ rank[h] <= rank[b]
    BY <1>7 DEF Placed
  <2>2. h \in E
    <3>1. 0 \in 0 .. Size
      BY <1>0
    <3> QED
      BY <1>2, <1>4, <2>1, <3>1
  <2>3. h \in Buffer /\ place[h] = l
    BY <1>5, <2>2
  <2>4. rank[h] # rank[b]
    BY <1>7, <2>2, <2>3 DEF Placed
  <2>5. rank[h] < rank[b] /\ rank[b] - rank[h] \in Nat
    BY <2>0, <2>1, <2>3, <2>4
  <2>6. rank[b] - rank[h] \in Dist
    BY <2>2, <2>5
  <2> HIDE DEF h
  <2>7. PICK d \in Dist : \A e \in Dist : d <= e
    <3>1. Dist \in SUBSET Nat
      OBVIOUS
    <3> HIDE DEF Dist
    <3> QED
      BY <2>6, <3>1, LeastIsIn
  <2>8. PICK j \in E : rank[j] < rank[b] /\ d = rank[b] - rank[j]
    BY <2>7
  <2>9. j \in Buffer /\ place[j] = l
    BY <1>5
  <2>10. m.next[j] # Nil /\ rank[m.next[j]] <= rank[b]
    BY <1>7, <2>8, <2>9 DEF Placed
  <2>11. m.next[j] \in E /\ m.next[j] \in Buffer /\ place[m.next[j]] = l
    BY <1>5, <1>6, <2>10
  <2>12. m.next[j] # b
    BY <1>7, <2>11
  <2>13. rank[m.next[j]] # rank[b]
    BY <1>7, <2>11, <2>12 DEF Placed
  <2>14. rank[j] < rank[m.next[j]]
    BY <2>9, <2>10 DEF Placed
  <2>15. rank[m.next[j]] \in Nat /\ rank[b] \in Nat /\ rank[j] \in Nat
    BY <1>7, <2>0, <2>9, <2>11
  <2>16. rank[m.next[j]] < rank[b] /\ rank[b] - rank[m.next[j]] \in Nat
    BY <2>10, <2>13, <2>15
  <2>17. rank[b] - rank[m.next[j]] \in Dist
    BY <2>11, <2>16
  <2>18. d <= rank[b] - rank[m.next[j]]
    BY <2>7, <2>17
  <2> QED
    BY <2>8, <2>14, <2>15, <2>18
<1> QED
  BY <1>5, <1>7 DEF E
----------------------------------------------------------------------------
(* Taking a buffer out of a list, and putting one at its beginning.        *)

Unlinks(m, n, place, b) ==
  /\ n.head = [m.head EXCEPT ![place[b]] = IF m.head[place[b]] = b THEN m.next[b] ELSE @]
  /\ \A j \in Buffer \ {b} : place[j] \in List =>
       n.next[j] = IF m.next[j] = b THEN m.next[b] ELSE m.next[j]

Links(m, n, l, b) ==
  n.head = [m.head EXCEPT ![l] = b] /\ n.next = [m.next EXCEPT ![b] = m.head[l]]

At(place, b, p)  == [place EXCEPT ![b] = p]
NewRank(rank, b) == [j \in Buffer |-> IF j = b THEN 0 ELSE rank[j] + 1]

(* A buffer taken out of its list leaves the others in their order.         *)
LEMMA UnlinkingKeepsOrder ==
  ASSUME NEW m \in Memory, NEW n \in Memory, NEW place, NEW rank, Placed(m, place, rank),
         NEW b \in Buffer, place[b] \in List, Unlinks(m, n, place, b)
  PROVE  Placed(n, At(place, b, "busy"), rank)
<1> DEFINE q == At(place, b, "busy")
           l == place[b]
<1>0. Nil \notin Buffer /\ "busy" \notin List
  BY SizeIs DEF List
<1>1. /\ m.next \in [Buffer -> Link] /\ m.head \in [List -> Link]
      /\ n.next \in [Buffer -> Link] /\ n.head \in [List -> Link]
      /\ place \in [Buffer -> Place] /\ rank \in [Buffer -> Nat]
  BY DEF Memory, Placed
<1>2. /\ q \in [Buffer -> Place] /\ q[b] = "busy"
      /\ \A j \in Buffer \ {b} : q[j] = place[j]
  BY <1>1 DEF At, Place
<1>3. /\ n.head[l] = IF m.head[l] = b THEN m.next[b] ELSE m.head[l]
      /\ \A x \in List \ {l} : n.head[x] = m.head[x]
  BY <1>1 DEF Unlinks
<1>4. /\ \A j \in Buffer : m.next[j] # Nil => m.next[j] \in Buffer
      /\ \A x \in List : m.head[x] # Nil => m.head[x] \in Buffer
  BY <1>1 DEF Link
<1>5. \A j \in Buffer \ {b} : q[j] \in List =>
         n.next[j] = IF m.next[j] = b THEN m.next[b] ELSE m.next[j]
  BY <1>2 DEF Unlinks
<1>6. \A j, k, i \in Buffer : /\ rank[j] < rank[k] /\ rank[k] < rank[i] => rank[j] < rank[i]
                              /\ rank[j] < rank[k] => j # k /\ ~(rank[k] <= rank[j])
                              /\ rank[j] <= rank[k] => rank[j] < rank[k] \/ rank[j] = rank[k]
  BY <1>1
<1>7. m.next[b] # Nil => /\ m.next[b] \in Buffer /\ place[m.next[b]] = l
                         /\ rank[b] < rank[m.next[b]] /\ m.next[b] # b
  BY <1>4, <1>6 DEF Placed
<1> HIDE DEF q
<1>8. ASSUME NEW x \in List, n.head[x] # Nil PROVE q[n.head[x]] = x
  <2>1. CASE x = l /\ m.head[l] = b
    BY <1>2, <1>3, <1>7, <1>8, <2>1
  <2>2. CASE ~(x = l /\ m.head[l] = b)
    <3>1. n.head[x] = m.head[x] /\ m.head[x] \in Buffer /\ place[m.head[x]] = x
      BY <1>3, <1>4, <1>8, <2>2 DEF Placed
    <3> QED
      BY <1>2, <2>2, <3>1
  <2> QED
    BY <2>1, <2>2
<1>9. ASSUME NEW j \in Buffer, q[j] \in List
      PROVE  n.head[q[j]] # Nil /\ rank[n.head[q[j]]] <= rank[j]
  <2>1. j # b /\ q[j] = place[j]
    BY <1>0, <1>2, <1>9
  <2>2. m.head[place[j]] # Nil /\ m.head[place[j]] \in Buffer /\ rank[m.head[place[j]]] <= rank[j]
    BY <1>4, <1>9, <2>1 DEF Placed
  <2>3. CASE place[j] = l /\ m.head[l] = b
    <3>1. rank[b] # rank[j]
      BY <2>1, <2>3 DEF Placed
    <3>2. rank[b] < rank[j]
      BY <1>6, <2>2, <2>3, <3>1
    <3>3. m.next[b] # Nil /\ rank[m.next[b]] <= rank[j]
      BY <2>3, <3>2 DEF Placed
    <3> QED
      BY <1>3, <2>1, <2>3, <3>3
  <2>4. CASE ~(place[j] = l /\ m.head[l] = b)
    BY <1>3, <1>9, <2>1, <2>2, <2>4
  <2> QED
    BY <2>3, <2>4
<1>10. ASSUME NEW j \in Buffer, q[j] \in List, n.next[j] # Nil
       PROVE  q[n.next[j]] = q[j] /\ rank[j] < rank[n.next[j]]
  <2>1. j # b /\ q[j] = place[j]
    BY <1>0, <1>2, <1>10
  <2>2. CASE m.next[j] = b
    <3>1. n.next[j] = m.next[b] /\ place[j] = l /\ rank[j] < rank[b]
      BY <1>0, <1>5, <1>10, <2>1, <2>2 DEF Placed
    <3> QED
      BY <1>2, <1>6, <1>7, <1>10, <2>1, <3>1
  <2>3. CASE m.next[j] # b
    <3>1. n.next[j] = m.next[j]
      BY <1>5, <1>10, <2>1, <2>3
    <3>2. m.next[j] \in Buffer /\ place[m.next[j]] = place[j] /\ rank[j] < rank[m.next[j]]
      BY <1>4, <1>10, <2>1, <3>1 DEF Placed
    <3> QED
      BY <1>2, <2>1, <2>3, <3>1, <3>2
  <2> QED
    BY <2>2, <2>3
<1>11. ASSUME NEW j \in Buffer, NEW k \in Buffer, q[j] \in List, q[j] = q[k]
       PROVE  /\ rank[j] < rank[k] => n.next[j] # Nil /\ rank[n.next[j]] <= rank[k]
              /\ rank[j] = rank[k] => j = k
  <2>1. j # b /\ k # b /\ q[j] = place[j] /\ q[k] = place[k] /\ place[j] = place[k]
    BY <1>0, <1>2, <1>11
  <2>2. rank[j] = rank[k] => j = k
    BY <1>11, <2>1 DEF Placed
  <2>3. ASSUME rank[j] < rank[k] PROVE n.next[j] # Nil /\ rank[n.next[j]] <= rank[k]
    <3>1. m.next[j] # Nil /\ rank[m.next[j]] <= rank[k]
      BY <1>11, <2>1, <2>3 DEF Placed
    <3>2. CASE m.next[j] # b
      BY <1>5, <1>11, <2>1, <3>1, <3>2
    <3>3. CASE m.next[j] = b
      <4>1. place[b] = place[k]
        BY <1>0, <1>11, <2>1, <3>3 DEF Placed
      <4>2. rank[b] # rank[k]
        BY <2>1, <4>1 DEF Placed
      <4>3. rank[b] < rank[k]
        BY <1>6, <3>1, <3>3, <4>2
      <4>4. m.next[b] # Nil /\ rank[m.next[b]] <= rank[k]
        BY <4>1, <4>3 DEF Placed
      <4> QED
        BY <1>5, <1>11, <2>1, <3>3, <4>4
    <3> QED
      BY <3>2, <3>3
  <2> QED
    BY <2>2, <2>3
<1> QED
  BY <1>1, <1>2, <1>8, <1>9, <1>10, <1>11 DEF Placed, q

(* A buffer put at the beginning of a list comes before its others.         *)
LEMMA LinkingKeepsOrder ==
  ASSUME NEW m \in Memory, NEW n \in Memory, NEW place, NEW rank, Placed(m, place, rank),
         NEW b \in Buffer, place[b] = "busy", NEW l \in List, Links(m, n, l, b)
  PROVE  Placed(n, At(place, b, l), NewRank(rank, b))
<1> DEFINE q == At(place, b, l)
           r == NewRank(rank, b)
<1>0. Nil \notin Buffer /\ "busy" \notin List
  BY SizeIs DEF List
<1>1. /\ m.next \in [Buffer -> Link] /\ m.head \in [List -> Link]
      /\ place \in [Buffer -> Place] /\ rank \in [Buffer -> Nat]
  BY DEF Memory, Placed
<1>2. /\ q \in [Buffer -> Place] /\ q[b] = l
      /\ \A j \in Buffer \ {b} : q[j] = place[j]
  BY <1>1 DEF At, Place
<1>3. /\ r \in [Buffer -> Nat] /\ r[b] = 0
      /\ \A j \in Buffer \ {b} : r[j] = rank[j] + 1
  BY <1>1 DEF NewRank
<1>4. /\ \A j \in Buffer : m.next[j] # Nil => m.next[j] \in Buffer
      /\ \A x \in List : m.head[x] # Nil => m.head[x] \in Buffer
  BY <1>1 DEF Link
<1>5. /\ n.head[l] = b /\ n.next[b] = m.head[l]
      /\ \A x \in List \ {l} : n.head[x] = m.head[x]
      /\ \A j \in Buffer \ {b} : n.next[j] = m.next[j]
  BY <1>1 DEF Links
<1>6. \A j, k \in Buffer \ {b} : /\ r[j] < r[k] <=> rank[j] < rank[k]
                                 /\ r[j] <= r[k] <=> rank[j] <= rank[k]
                                 /\ r[j] = r[k] <=> rank[j] = rank[k]
                                 /\ r[b] < r[j] /\ r[b] # r[j]
                                 /\ ~(r[j] < r[b]) /\ r[b] <= r[j]
  BY <1>1, <1>3
<1>7. r[b] <= r[b] /\ ~(r[b] < r[b])
  BY <1>3
<1>8. /\ \A x \in List : m.head[x] # Nil => m.head[x] # b /\ place[m.head[x]] = x
      /\ \A j \in Buffer : place[j] \in List /\ m.next[j] # Nil =>
           m.next[j] # b /\ place[m.next[j]] = place[j] /\ rank[j] < rank[m.next[j]]
  BY <1>0 DEF Placed
<1> HIDE DEF q, r
<1>9. ASSUME NEW x \in List, n.head[x] # Nil PROVE q[n.head[x]] = x
  BY <1>2, <1>4, <1>5, <1>8, <1>9
<1>10. ASSUME NEW j \in Buffer, q[j] \in List
       PROVE  n.head[q[j]] # Nil /\ r[n.head[q[j]]] <= r[j]
  <2>1. CASE q[j] = l
    BY <1>0, <1>5, <1>6, <1>7, <2>1
  <2>2. CASE q[j] # l
    <3>1. j # b /\ place[j] = q[j] /\ place[j] \in List \ {l}
      BY <1>2, <1>10, <2>2
    <3>2. m.head[place[j]] # Nil /\ m.head[place[j]] \in Buffer \ {b}
          /\ rank[m.head[place[j]]] <= rank[j]
      BY <1>4, <1>8, <3>1 DEF Placed
    <3> QED
      BY <1>5, <1>6, <3>1, <3>2
  <2> QED
    BY <2>1, <2>2
<1>11. ASSUME NEW j \in Buffer, q[j] \in List, n.next[j] # Nil
       PROVE  q[n.next[j]] = q[j] /\ r[j] < r[n.next[j]]
  <2>1. CASE j = b
    BY <1>2, <1>4, <1>5, <1>6, <1>8, <1>11, <2>1
  <2>2. CASE j # b
    <3>1. n.next[j] = m.next[j] /\ place[j] = q[j]
      BY <1>2, <1>5, <2>2
    <3>2. m.next[j] \in Buffer \ {b} /\ place[m.next[j]] = place[j] /\ rank[j] < rank[m.next[j]]
      BY <1>4, <1>8, <1>11, <3>1
    <3> QED
      BY <1>2, <1>6, <2>2, <3>1, <3>2
  <2> QED
    BY <2>1, <2>2
<1>12. ASSUME NEW j \in Buffer, NEW k \in Buffer, q[j] \in List, q[j] = q[k]
       PROVE  /\ r[j] < r[k] => n.next[j] # Nil /\ r[n.next[j]] <= r[k]
              /\ r[j] = r[k] => j = k
  <2>1. r[j] = r[k] => j = k
    <3>1. CASE j # b /\ k # b
      BY <1>2, <1>6, <1>12, <3>1 DEF Placed
    <3>2. CASE j = b \/ k = b
      BY <1>6, <3>2
    <3> QED
      BY <3>1, <3>2
  <2>2. ASSUME r[j] < r[k] PROVE n.next[j] # Nil /\ r[n.next[j]] <= r[k]
    <3>1. k # b
      BY <1>6, <1>7, <2>2
    <3>2. CASE j = b
      <4>1. place[k] = l
        BY <1>2, <1>12, <3>1, <3>2
      <4>2. m.head[l] # Nil /\ rank[m.head[l]] <= rank[k] /\ m.head[l] \in Buffer \ {b}
        BY <1>4, <1>8, <4>1 DEF Placed
      <4> QED
        BY <1>5, <1>6, <3>1, <3>2, <4>2
    <3>3. CASE j # b
      <4>1. place[j] \in List /\ place[j] = place[k] /\ rank[j] < rank[k]
        BY <1>2, <1>6, <1>12, <2>2, <3>1, <3>3
      <4>2. m.next[j] # Nil /\ rank[m.next[j]] <= rank[k] /\ m.next[j] \in Buffer \ {b}
        BY <1>4, <1>8, <4>1 DEF Placed
      <4> QED
        BY <1>5, <1>6, <3>1, <3>3, <4>2
    <3> QED
      BY <3>2, <3>3
  <2> QED
    BY <2>1, <2>2
<1> QED
  BY <1>2, <1>3, <1>9, <1>10, <1>11, <1>12 DEF Placed, q, r
----------------------------------------------------------------------------
(* What the operators on the memory do to the lists.                       *)

EventList == {"faults", "alarms"}
EventOf(d, cause, e) == [type |-> "event", id |-> d, cause |-> cause, event |-> e]
Cause == {"faulty", "battery", "alarm"}
Unused == [type |-> "unused"]

(* What a buffer holds has the fields of its type.                          *)
LEMMA ContentIs ==
  ASSUME NEW c \in Content
  PROVE  /\ c.type = "event" => /\ c.id \in Device /\ c.cause \in Cause /\ c.event \in Nat \ {0}
                                /\ c = EventOf(c.id, c.cause, c.event)
         /\ c.type = "fault" => /\ c \in Message /\ c.id \in Device
                                /\ c.faulty \in BOOLEAN /\ c.battery \in BOOLEAN
         /\ c.type \in {"alarm", "variable", "detail"} => c.id \in Device
<1>1. CASE c \in [type : {"unused", "command"}]
  BY <1>1
<1>2. CASE c \in [type : {"fault"}, id : Device, faulty : BOOLEAN, battery : BOOLEAN]
  BY <1>2 DEF Message
<1>3. CASE c \in [type : {"alarm"}, id : Device] \cup [type : {"other"}]
  BY <1>3
<1>4. CASE c \in [type : {"variable"}, id : Device]
                 \cup [type : {"detail"}, id : Device, set : BOOLEAN]
  BY <1>4
<1>5. CASE c \in [type : {"event"}, id : Device, cause : {"faulty", "battery", "alarm"},
                  event : Nat \ {0}]
  BY <1>5 DEF EventOf, Cause
<1> QED
  BY <1>1, <1>2, <1>3, <1>4, <1>5 DEF Content, Message

(* An event in a buffer has its type.                                       *)
LEMMA EventTyped ==
  ASSUME NEW d \in Device, NEW cause \in Cause, NEW e \in Nat \ {0}
  PROVE  EventOf(d, cause, e) \in Content /\ EventOf(d, cause, e).type = "event"
BY DEF EventOf, Cause, Content

(* So has what a freed buffer holds.                                        *)
LEMMA UnusedTyped == Unused \in Content /\ Unused.type = "unused"
BY DEF Unused, Content

(* A free buffer is taken from the head of its list.                       *)
LEMMA GetIs ==
  ASSUME NEW m \in Memory, NEW place, NEW rank, Placed(m, place, rank), m.head.free # Nil
  PROVE  /\ m.head.free \in Buffer /\ place[m.head.free] = "free"
         /\ Get(m) \in Memory /\ Get(m).data = m.data /\ Get(m).timers = m.timers
         /\ Placed(Get(m), At(place, m.head.free, "busy"), rank)
<1> DEFINE b == m.head["free"]
           n == [m EXCEPT !.head = [m.head EXCEPT !["free"] = m.next[b]],
                          !.next = [m.next EXCEPT ![b] = Nil]]
<1>0. "free" \in List /\ m.next \in [Buffer -> Link] /\ m.head \in [List -> Link]
  BY DEF List, Memory
<1>1. b \in Buffer /\ place[b] = "free"
  BY <1>0 DEF Placed, Link
<1>2. Get(m) = n
  BY DEF Get, Memory
<1>3. n \in Memory /\ n.data = m.data /\ n.timers = m.timers
  BY <1>0, <1>1 DEF Memory, Link
<1>4. n.head = [m.head EXCEPT !["free"] = m.next[b]] /\ n.next = [m.next EXCEPT ![b] = Nil]
  BY DEF Memory
<1>5. \A j \in Buffer \ {b} : place[j] \in List => m.next[j] # b
  <2> TAKE j \in Buffer \ {b}
  <2> SUFFICES ASSUME place[j] \in List, m.next[j] = b PROVE FALSE
    OBVIOUS
  <2>1. b # Nil /\ place[j] = "free" /\ rank[j] < rank[b]
    BY <1>1, SizeIs DEF Placed
  <2>2. rank[b] <= rank[j]
    BY <1>1, <2>1 DEF Placed
  <2>3. rank[b] \in Nat /\ rank[j] \in Nat
    BY <1>1 DEF Placed
  <2> QED
    BY <2>1, <2>2, <2>3
<1> HIDE DEF n
<1>6. Unlinks(m, n, place, b)
  BY <1>0, <1>1, <1>4, <1>5 DEF Unlinks
<1>7. Placed(n, At(place, b, "busy"), rank)
  BY <1>0, <1>1, <1>3, <1>6, UnlinkingKeepsOrder
<1> QED
  BY <1>1, <1>2, <1>3, <1>7

(* A released buffer is the first free one.                                 *)
LEMMA ReleaseIs ==
  ASSUME NEW m \in Memory, NEW place, NEW rank, Placed(m, place, rank),
         NEW b \in Buffer, place[b] = "busy"
  PROVE  /\ Release(m, b) \in Memory
         /\ Release(m, b).data = m.data /\ Release(m, b).timers = m.timers
         /\ Placed(Release(m, b), At(place, b, "free"), NewRank(rank, b))
<1> DEFINE n == [m EXCEPT !.next = [m.next EXCEPT ![b] = m.head["free"]],
                          !.head = [m.head EXCEPT !["free"] = b]]
<1>0. "free" \in List /\ m.next \in [Buffer -> Link] /\ m.head \in [List -> Link]
  BY DEF List, Memory
<1>1. Release(m, b) = n
  BY DEF Release, Memory
<1>2. n \in Memory /\ n.data = m.data /\ n.timers = m.timers
  BY <1>0 DEF Memory, Link
<1>3. Links(m, n, "free", b)
  BY DEF Memory, Links
<1> HIDE DEF n
<1>4. Placed(n, At(place, b, "free"), NewRank(rank, b))
  BY <1>0, <1>2, <1>3, LinkingKeepsOrder
<1> QED
  BY <1>1, <1>2, <1>4

Rewritten(m, b, c) == [m EXCEPT !.data[b] = c]

(* The lists do not depend on what the buffers hold.                       *)
LEMMA RewritingKeepsOrder ==
  ASSUME NEW m \in Memory, NEW b \in Buffer, NEW c \in Content
  PROVE  /\ Rewritten(m, b, c) \in Memory /\ Rewritten(m, b, c).timers = m.timers
         /\ Rewritten(m, b, c).data = [m.data EXCEPT ![b] = c]
         /\ Rewritten(m, b, c).head = m.head /\ Rewritten(m, b, c).next = m.next
         /\ \A place, rank : Placed(m, place, rank) => Placed(Rewritten(m, b, c), place, rank)
<1>1. /\ Rewritten(m, b, c).head = m.head /\ Rewritten(m, b, c).next = m.next
      /\ Rewritten(m, b, c) \in Memory /\ Rewritten(m, b, c).timers = m.timers
      /\ Rewritten(m, b, c).data = [m.data EXCEPT ![b] = c]
  BY DEF Memory, Rewritten
<1> QED
  BY <1>1 DEF Placed

(* So is one whose content is forgotten.                                    *)
LEMMA DiscardIs ==
  ASSUME NEW m \in Memory, NEW b \in Buffer
  PROVE  /\ Discard(m, b) \in Memory /\ Discard(m, b).timers = m.timers
         /\ Discard(m, b).data = [m.data EXCEPT ![b] = Unused]
         /\ \A place, rank : Placed(m, place, rank) /\ place[b] = "busy" =>
              Placed(Discard(m, b), At(place, b, "free"), NewRank(rank, b))
<1> DEFINE n == Rewritten(m, b, Unused)
<1>1. Discard(m, b) = Release(n, b)
  BY DEF Discard, Rewritten, Unused
<1>2. /\ n \in Memory /\ n.timers = m.timers /\ n.data = [m.data EXCEPT ![b] = Unused]
      /\ \A place, rank : Placed(m, place, rank) => Placed(n, place, rank)
  BY RewritingKeepsOrder, UnusedTyped
<1> HIDE DEF n
<1>3. /\ Release(n, b) \in Memory /\ Release(n, b).timers = n.timers
      /\ Release(n, b).data = n.data
  BY <1>2 DEF Release, Memory, Link, List
<1>4. ASSUME NEW place, NEW rank, Placed(m, place, rank), place[b] = "busy"
      PROVE  Placed(Release(n, b), At(place, b, "free"), NewRank(rank, b))
  BY <1>2, <1>4, ReleaseIs
<1> QED
  BY <1>1, <1>2, <1>3, <1>4

(* The first turn of a walk that meets a buffer of a set.                  *)
LEMMA FirstIs ==
  ASSUME NEW m \in Memory, NEW place, NEW rank, Placed(m, place, rank), NEW l \in List,
         NEW S, S \cap Members(m, l) # {}
  PROVE  LET i == First(Walk(m, l), S) IN
         /\ i \in 0 .. Size /\ Walk(m, l)[i] \in S \cap Members(m, l)
         /\ \A j \in 0 .. (i - 1) : Walk(m, l)[j] \notin S
<1> DEFINE c == Walk(m, l)
           Turns == {i \in 0 .. Size : c[i] \in S \cap Members(m, l)}
           P(i) == i \in DOMAIN c /\ c[i] \in S /\ \A j \in 0 .. (i - 1) : c[j] \notin S
<1>0. Size \in Nat /\ Nil \notin Buffer
  BY SizeIs
<1>1. c \in [0 .. Size -> Link]
  BY WalkIs
<1>2. Members(m, l) = {c[i] : i \in 0 .. Size} \ {Nil}
  BY <1>1 DEF Members
<1>3. \A i, j \in 0 .. Size : i < j /\ c[j] # Nil => c[i] # Nil
  BY WalkIsOrdered
<1> HIDE DEF c
<1>4. PICK i \in Turns : \A j \in Turns : i <= j
  <2>1. Turns \in SUBSET Nat /\ Turns # {}
    BY <1>0, <1>2
  <2> HIDE DEF Turns
  <2> QED
    BY <2>1, LeastIsIn
<1>5. i \in 0 .. Size /\ c[i] \in S /\ c[i] # Nil
  BY <1>2, <1>4
<1>6. \A j \in 0 .. (i - 1) : c[j] \notin S
  <2> TAKE j \in 0 .. (i - 1)
  <2>1. j \in 0 .. Size /\ j < i
    BY <1>0, <1>5
  <2>2. c[j] # Nil /\ c[j] \in Members(m, l)
    BY <1>2, <1>3, <1>5, <2>1
  <2>3. j \notin Turns
    BY <1>4, <1>5, <2>1
  <2> QED
    BY <2>1, <2>2, <2>3
<1>7. P(i)
  BY <1>1, <1>5, <1>6
<1>8. First(c, S) = CHOOSE k \in DOMAIN c : c[k] \in S /\ \A j \in 0 .. (k - 1) : c[j] \notin S
  BY DEF First
<1>9. P(First(c, S))
  BY <1>7, <1>8
<1>10. ASSUME NEW k, P(k) PROVE k = i
  <2>1. k \in 0 .. Size
    BY <1>1, <1>10
  <2>2. ~(k < i) /\ ~(i < k)
    <3>1. k < i => k \in 0 .. (i - 1)
      BY <1>5, <2>1
    <3>2. i < k => i \in 0 .. (k - 1)
      BY <1>5, <2>1
    <3> QED
      BY <1>5, <1>6, <1>10, <3>1, <3>2
  <2> QED
    BY <1>5, <2>1, <2>2
<1>11. First(c, S) = i
  BY <1>9, <1>10
<1> QED
  BY <1>4, <1>5, <1>6, <1>11 DEF c

(* A buffer that is in the list is taken out of it.                         *)
LEMMA RemoveIs ==
  ASSUME NEW m \in Memory, NEW place, NEW rank, Placed(m, place, rank),
         NEW b \in Buffer, place[b] \in List
  PROVE  LET n == Remove(m, place[b], b) IN
         /\ n \in Memory /\ n.data = m.data /\ n.timers = m.timers
         /\ Placed(n, At(place, b, "busy"), rank)
<1> DEFINE l == place[b]
           c == Walk(m, l)
           i == First(c, {b})
           n == Remove(m, l, b)
<1>0. /\ m.next \in [Buffer -> Link] /\ m.head \in [List -> Link] /\ Nil \notin Buffer
      /\ rank \in [Buffer -> Nat] /\ Size \in Nat
  BY SizeIs DEF Memory, Placed
<1>1. b \in Members(m, l)
  BY MembersAre
<1>2. \A j \in Buffer : place[j] \in List /\ m.next[j] # Nil =>
         place[m.next[j]] = place[j] /\ rank[j] < rank[m.next[j]]
  BY DEF Placed
<1>3. CASE m.head[l] = b
  <2>0. n = [m EXCEPT !.head[l] = m.next[b]]
    BY <1>1, <1>3 DEF Remove
  <2> HIDE DEF n
  <2>1. n = [m EXCEPT !.head = [m.head EXCEPT ![l] = m.next[b]]]
    BY <2>0 DEF Memory
  <2>2. /\ n \in Memory /\ n.data = m.data /\ n.timers = m.timers
        /\ n.head = [m.head EXCEPT ![l] = m.next[b]] /\ n.next = m.next
    BY <1>0, <2>1 DEF Memory, Link
  <2>3. \A j \in Buffer \ {b} : place[j] \in List => m.next[j] # b
    <3> TAKE j \in Buffer \ {b}
    <3> SUFFICES ASSUME place[j] \in List, m.next[j] = b PROVE FALSE
      OBVIOUS
    <3>1. place[j] = l /\ rank[j] < rank[b]
      BY <1>0, <1>2
    <3>2. rank[b] <= rank[j]
      BY <1>3, <3>1 DEF Placed
    <3> QED
      BY <1>0, <3>1, <3>2
  <2>4. Unlinks(m, n, place, b)
    BY <1>3, <2>2, <2>3 DEF Unlinks
  <2> QED
    BY <2>2, <2>4, UnlinkingKeepsOrder DEF n
<1>4. CASE m.head[l] # b
  <2>1. i \in 0 .. Size /\ c[i] = b
    <3>1. {b} \cap Members(m, l) # {}
      BY <1>1
    <3> HIDE DEF c
    <3>2. i \in 0 .. Size /\ c[i] \in {b} \cap Members(m, l)
      BY <3>1, FirstIs DEF c
    <3> QED
      BY <3>2
  <2>2. c[0] = m.head[l] /\ \A j \in 1 .. Size : c[j] = Follow(m, c[j - 1])
    BY WalkIs
  <2>3. \A j \in 0 .. Size : c[j] # Nil => c[j] \in Buffer /\ place[c[j]] = l
    BY WalkIsOrdered
  <2>4. n = [m EXCEPT !.next[c[i - 1]] = m.next[b]]
    BY <1>1, <1>4 DEF Remove
  <2> HIDE DEF c, i, n
  <2>5. i \in 1 .. Size /\ i - 1 \in 0 .. Size
    BY <1>0, <1>4, <2>1, <2>2
  <2> DEFINE p == c[i - 1]
  <2>6. p \in Buffer /\ place[p] = l /\ m.next[p] = b
    BY <1>0, <2>1, <2>2, <2>3, <2>5 DEF Follow
  <2>7. n = [m EXCEPT !.next = [m.next EXCEPT ![p] = m.next[b]]]
    BY <2>4 DEF Memory
  <2> HIDE DEF p
  <2>8. /\ n \in Memory /\ n.data = m.data /\ n.timers = m.timers
        /\ n.head = m.head /\ n.next = [m.next EXCEPT ![p] = m.next[b]]
    BY <1>0, <2>6, <2>7 DEF Memory
  <2>9. \A j \in Buffer : place[j] \in List /\ m.next[j] = b => j = p
    <3> TAKE j \in Buffer
    <3> SUFFICES ASSUME place[j] \in List, m.next[j] = b, j # p PROVE FALSE
      OBVIOUS
    <3>1. place[j] = l /\ rank[j] < rank[b] /\ rank[p] < rank[b]
      BY <1>0, <1>2, <2>6
    <3>2. rank[j] # rank[p] /\ ~(rank[j] < rank[p] /\ ~(rank[b] <= rank[p]))
          /\ ~(rank[p] < rank[j] /\ ~(rank[b] <= rank[j]))
      BY <2>6, <3>1 DEF Placed
    <3>3. rank[j] \in Nat /\ rank[p] \in Nat /\ rank[b] \in Nat
      BY <1>0, <2>6
    <3> QED
      BY <3>1, <3>2, <3>3
  <2>10. n.next[p] = m.next[b] /\ \A j \in Buffer \ {p} : n.next[j] = m.next[j]
    BY <1>0, <2>6, <2>8
  <2>11. n.head = [m.head EXCEPT ![l] = IF m.head[l] = b THEN m.next[b] ELSE @]
    BY <1>0, <1>4, <2>8
  <2>12. Unlinks(m, n, place, b)
    BY <2>6, <2>9, <2>10, <2>11 DEF Unlinks
  <2> QED
    BY <2>8, <2>12, UnlinkingKeepsOrder DEF n
<1> QED
  BY <1>3, <1>4

(* What is not in a list is not removed from it.                           *)
LEMMA RemoveElsewhereIs ==
  ASSUME NEW m \in Memory, NEW place, NEW rank, Placed(m, place, rank),
         NEW b \in Buffer, NEW l \in List, place[b] # l
  PROVE  Remove(m, l, b) = m
<1>1. b \notin Members(m, l)
  BY MembersAre
<1>2. m.head[l] # b
  BY SizeIs DEF Placed
<1> QED
  BY <1>1, <1>2 DEF Remove

(* A search finds an event of the device, if the list has one.             *)
LEMMA FindIs ==
  ASSUME NEW m \in Memory, NEW place, NEW rank, Placed(m, place, rank), NEW l \in List, NEW d
  PROVE  /\ Find(m, l, d) # Nil => /\ Find(m, l, d) \in Buffer /\ place[Find(m, l, d)] = l
                                   /\ IsEvent(m, Find(m, l, d)) /\ m.data[Find(m, l, d)].id = d
         /\ Find(m, l, d) = Nil <=>
              \A b \in Buffer : place[b] = l /\ IsEvent(m, b) => m.data[b].id # d
<1> DEFINE S == {c \in Members(m, l) : IsEvent(m, c) /\ m.data[c].id = d}
           c == Walk(m, l)
<1>1. Members(m, l) = {b \in Buffer : place[b] = l}
  BY MembersAre
<1>2. Find(m, l, d) = IF S = {} THEN Nil ELSE c[First(c, S)]
  BY DEF Find
<1>3. S # {} => c[First(c, S)] \in S
  <2> SUFFICES ASSUME S # {} PROVE c[First(c, S)] \in S
    OBVIOUS
  <2>1. S \cap Members(m, l) # {}
    OBVIOUS
  <2> HIDE DEF S
  <2> QED
    BY <2>1, FirstIs
<1> QED
  BY <1>1, <1>2, <1>3, SizeIs

TimeoutOf(l, b, e) == [list |-> l, buffer |-> b, event |-> e]
NextEvent == Len(reports) + 1

(* Of two places that a buffer is put in, the second counts.                *)
LEMMA AtAgain ==
  ASSUME NEW place \in [Buffer -> Place], NEW b \in Buffer, NEW x, NEW y
  PROVE  At(At(place, b, x), b, y) = At(place, b, y)
BY DEF At

(* An event is put in its list, in a free buffer.                          *)
LEMMA CreatePendingIs ==
  ASSUME NEW m \in Memory, NEW place, NEW rank, Placed(m, place, rank), m.head.free # Nil,
         NEW l \in EventList, NEW d \in Device, NEW cause \in Cause, reports \in Seq(Nat)
  PROVE  LET b == m.head.free
             n == CreatePending(m, l, d, cause)
         IN  /\ b \in Buffer /\ place[b] = "free" /\ n \in Memory
             /\ n.data = [m.data EXCEPT ![b] = EventOf(d, cause, NextEvent)]
             /\ n.timers = m.timers \cup {TimeoutOf(l, b, NextEvent)}
             /\ Placed(n, At(place, b, l), NewRank(rank, b))
<1> DEFINE b == m.head.free
           g == Get(m)
           n == CreatePending(m, l, d, cause)
           o == [g EXCEPT !.data = [g.data EXCEPT ![b] = EventOf(d, cause, NextEvent)],
                          !.timers = g.timers \cup {TimeoutOf(l, b, NextEvent)},
                          !.next = [g.next EXCEPT ![b] = g.head[l]],
                          !.head = [g.head EXCEPT ![l] = b]]
<1>0. l \in List /\ NextEvent \in Nat \ {0} /\ place \in [Buffer -> Place]
  BY DEF EventList, List, NextEvent, Placed
<1>1. /\ b \in Buffer /\ place[b] = "free"
      /\ g \in Memory /\ g.data = m.data /\ g.timers = m.timers
      /\ Placed(g, At(place, b, "busy"), rank)
  BY GetIs
<1>2. n = [g EXCEPT !.data[b] = EventOf(d, cause, NextEvent),
                    !.timers = @ \cup {TimeoutOf(l, b, NextEvent)},
                    !.next[b] = g.head[l], !.head[l] = b]
  BY DEF CreatePending, EventOf, TimeoutOf, NextEvent
<1> HIDE DEF b, g, n
<1>3. n = o
  BY <1>1, <1>2 DEF Memory
<1>4. EventOf(d, cause, NextEvent) \in Content /\ TimeoutOf(l, b, NextEvent) \in Timeout
  BY <1>0, <1>1, EventTyped DEF TimeoutOf, Timeout, EventList
<1>5. o \in Memory
  BY <1>0, <1>1, <1>4 DEF Memory, Link
<1>6. /\ o.data = [g.data EXCEPT ![b] = EventOf(d, cause, NextEvent)]
      /\ o.timers = g.timers \cup {TimeoutOf(l, b, NextEvent)}
      /\ o.next = [g.next EXCEPT ![b] = g.head[l]] /\ o.head = [g.head EXCEPT ![l] = b]
  BY <1>1 DEF Memory
<1> HIDE DEF o
<1>7. Links(g, o, l, b)
  BY <1>6 DEF Links
<1>8. At(place, b, "busy")[b] = "busy"
  BY <1>0, <1>1 DEF At
<1>9. Placed(o, At(At(place, b, "busy"), b, l), NewRank(rank, b))
  BY <1>0, <1>1, <1>5, <1>7, <1>8, LinkingKeepsOrder
<1>10. Placed(o, At(place, b, l), NewRank(rank, b))
  BY <1>0, <1>1, <1>9, AtAgain
<1> QED
  BY <1>1, <1>3, <1>5, <1>6, <1>10 DEF b, n

(* Buffer b is taken out of its list, and freed.                           *)
TakenOut(m, n, place, b) ==
  /\ n \in Memory /\ \E r : Placed(n, At(place, b, "free"), r)
  /\ \A c \in Buffer \ {b} : n.data[c] = m.data[c]

\* The timers of other events than the one in buffer b.
TimersBut(timers, data, b) == {t \in timers : t.event # data[b].event}

(* An event that has been answered is taken out, its timer cancelled.      *)
LEMMA DeleteAnsweredIs ==
  ASSUME NEW m \in Memory, NEW place, NEW rank, Placed(m, place, rank),
         NEW b \in Buffer, NEW l \in EventList, place[b] = l
  PROVE  LET n == DeletePending(m, l, b, TRUE)
         IN  TakenOut(m, n, place, b) /\ n.timers = TimersBut(m.timers, m.data, b)
<1> DEFINE T == {t \in m.timers : t.event # m.data[b].event}
           k == [m EXCEPT !.timers = {t \in @ : t.event # m.data[b].event}]
           r == Remove(k, l, b)
           n == DeletePending(m, l, b, TRUE)
<1>0. l \in List /\ place \in [Buffer -> Place]
  BY DEF EventList, List, Placed
<1>1. /\ k \in Memory /\ k.timers = T /\ k.data = m.data
      /\ k.next = m.next /\ k.head = m.head
  BY DEF Memory
<1>2. n = IF Late(b) THEN Release(r, b) ELSE Discard(r, b)
  BY DEF DeletePending
<1> HIDE DEF k, n
<1>3. Placed(k, place, rank)
  BY <1>1 DEF Placed
<1>4. r \in Memory /\ r.data = m.data /\ r.timers = T /\ Placed(r, At(place, b, "busy"), rank)
  BY <1>0, <1>1, <1>3, RemoveIs
<1> HIDE DEF r, T
<1>5. At(place, b, "busy")[b] = "busy" /\ At(At(place, b, "busy"), b, "free") = At(place, b, "free")
  BY <1>0, AtAgain DEF At
<1>6. /\ Release(r, b) \in Memory /\ Release(r, b).data = m.data /\ Release(r, b).timers = T
      /\ Placed(Release(r, b), At(place, b, "free"), NewRank(rank, b))
  BY <1>4, <1>5, ReleaseIs
<1>7. /\ Discard(r, b) \in Memory /\ Discard(r, b).timers = T
      /\ Discard(r, b).data = [m.data EXCEPT ![b] = Unused]
      /\ Placed(Discard(r, b), At(place, b, "free"), NewRank(rank, b))
  BY <1>4, <1>5, DiscardIs
<1>8. m.data \in [Buffer -> Content]
  BY DEF Memory
<1> QED
  <2>1. n \in Memory /\ n.timers = T /\ Placed(n, At(place, b, "free"), NewRank(rank, b))
    BY <1>2, <1>6, <1>7
  <2>2. \A c \in Buffer \ {b} : n.data[c] = m.data[c]
    BY <1>2, <1>6, <1>7, <1>8
  <2>3. TakenOut(m, n, place, b)
    BY <2>1, <2>2 DEF TakenOut
  <2> QED
    BY <2>1, <2>3 DEF n, T, TimersBut

(* So is one whose timeout is handled, but its timer is not cancelled.     *)
LEMMA DeleteTimedOutIs ==
  ASSUME NEW m \in Memory, NEW place, NEW rank, Placed(m, place, rank),
         NEW b \in Buffer, NEW l \in EventList, place[b] = l
  PROVE  LET n == DeletePending(m, l, b, FALSE)
         IN  TakenOut(m, n, place, b) /\ n.timers = m.timers
<1> DEFINE r == Remove(m, l, b)
<1>0. l \in List /\ place \in [Buffer -> Place] /\ m.data \in [Buffer -> Content]
  BY DEF EventList, List, Placed, Memory
<1>1. DeletePending(m, l, b, FALSE) = Discard(r, b)
  BY DEF DeletePending
<1>2. r \in Memory /\ r.data = m.data /\ r.timers = m.timers
      /\ Placed(r, At(place, b, "busy"), rank)
  BY <1>0, RemoveIs
<1> HIDE DEF r
<1>3. At(place, b, "busy")[b] = "busy" /\ At(At(place, b, "busy"), b, "free") = At(place, b, "free")
  BY <1>0, AtAgain DEF At
<1>4. /\ Discard(r, b) \in Memory /\ Discard(r, b).timers = m.timers
      /\ Discard(r, b).data = [m.data EXCEPT ![b] = Unused]
      /\ Placed(Discard(r, b), At(place, b, "free"), NewRank(rank, b))
  BY <1>2, <1>3, DiscardIs
<1>5. \A c \in Buffer \ {b} : Discard(r, b).data[c] = m.data[c]
  BY <1>0, <1>4
<1>6. TakenOut(m, Discard(r, b), place, b)
  BY <1>4, <1>5 DEF TakenOut
<1> QED
  BY <1>1, <1>4, <1>6

(* The buffer of a timeout that comes too late may be anyone's.            *)
LEMMA DeletedElsewhereIs ==
  ASSUME NEW m \in Memory, NEW place, NEW rank, Placed(m, place, rank),
         NEW b \in Buffer, NEW l \in EventList, place[b] # l
  PROVE  LET n == DeletePending(m, l, b, FALSE) IN n \in Memory /\ n.timers = m.timers
<1>1. Remove(m, l, b) = m
  BY RemoveElsewhereIs DEF EventList, List
<1>2. DeletePending(m, l, b, FALSE) = Discard(m, b)
  BY <1>1 DEF DeletePending
<1> QED
  BY <1>2, DiscardIs

(* An event for which the device cannot be asked leaves nothing behind.    *)
LEMMA NotDeferredIs ==
  ASSUME NEW m \in Memory, NEW place, NEW rank, Placed(m, place, rank), ~CanAsk(m),
         NEW l \in EventList, NEW d \in Device, NEW cause \in Cause, reports \in Seq(Nat),
         \A t \in m.timers : t.event \in DOMAIN reports
  PROVE  LET n == Deferred(m, l, d, cause)
         IN  /\ n \in Memory /\ n.timers = m.timers
             /\ \A c \in Buffer : place[c] # "free" => n.data[c] = m.data[c]
             /\ \E r : Placed(n, place, r)
<1> DEFINE b == m.head.free
           p == CreatePending(m, l, d, cause)
           n == Deferred(m, l, d, cause)
<1>1. CASE b = Nil
  BY <1>1 DEF Deferred, CanAsk
<1>2. CASE b # Nil
  <2>1. n = DeletePending(p, l, b, TRUE)
    BY <1>2 DEF Deferred
  <2>2. /\ b \in Buffer /\ place[b] = "free" /\ p \in Memory
        /\ p.data = [m.data EXCEPT ![b] = EventOf(d, cause, NextEvent)]
        /\ p.timers = m.timers \cup {TimeoutOf(l, b, NextEvent)}
        /\ Placed(p, At(place, b, l), NewRank(rank, b))
    BY <1>2, CreatePendingIs
  <2> HIDE DEF b, p, n
  <2>3. place \in [Buffer -> Place] /\ m.data \in [Buffer -> Content] /\ m.timers \subseteq Timeout
    BY DEF Placed, Memory
  <2>4. At(place, b, l)[b] = l /\ l \in EventList
    BY <2>2, <2>3 DEF At
  <2>5. /\ TakenOut(p, DeletePending(p, l, b, TRUE), At(place, b, l), b)
        /\ DeletePending(p, l, b, TRUE).timers = TimersBut(p.timers, p.data, b)
    <3>1. b \in Buffer /\ p \in Memory /\ Placed(p, At(place, b, l), NewRank(rank, b))
      BY <2>2
    <3> QED
      BY <2>4, <3>1, DeleteAnsweredIs
  <2>6. At(At(place, b, l), b, "free") = place
    BY <2>2, <2>3 DEF At
  <2>7. p.data[b].event = NextEvent /\ NextEvent \notin DOMAIN reports
        /\ TimeoutOf(l, b, NextEvent).event = NextEvent
    BY <2>2, <2>3 DEF EventOf, NextEvent, TimeoutOf
  <2>8. TimersBut(p.timers, p.data, b) = m.timers
    BY <2>2, <2>7 DEF TimersBut
  <2>9. \A c \in Buffer : place[c] # "free" => c # b /\ p.data[c] = m.data[c]
    BY <2>2, <2>3
  <2> QED
    BY <2>1, <2>5, <2>6, <2>8, <2>9 DEF n, TakenOut
<1> QED
  BY <1>1, <1>2

(* The places after the attempt to defer an event.                         *)
PlaceDeferred(m, place, l) == IF CanAsk(m) THEN At(place, m.head.free, l) ELSE place

(* The attempt to defer an event.                                          *)
LEMMA DeferredIs ==
  ASSUME NEW m \in Memory, NEW place, NEW rank, Placed(m, place, rank),
         NEW l \in EventList, NEW d \in Device, NEW cause \in Cause, reports \in Seq(Nat),
         \A t \in m.timers : t.event \in DOMAIN reports
  PROVE  LET b == m.head.free
             n == Deferred(m, l, d, cause)
         IN  /\ n \in Memory /\ \E r : Placed(n, PlaceDeferred(m, place, l), r)
             /\ \A c \in Buffer : place[c] # "free" => n.data[c] = m.data[c]
             /\ CanAsk(m) => /\ b \in Buffer /\ place[b] = "free"
                             /\ n.data[b] = EventOf(d, cause, NextEvent)
                             /\ n.timers = m.timers \cup {TimeoutOf(l, b, NextEvent)}
             /\ ~CanAsk(m) => n.timers = m.timers
<1> DEFINE b == m.head.free
           n == Deferred(m, l, d, cause)
<1>1. CASE CanAsk(m)
  <2>1. b # Nil /\ n = CreatePending(m, l, d, cause)
    BY <1>1 DEF CanAsk, Deferred
  <2>2. /\ b \in Buffer /\ place[b] = "free" /\ CreatePending(m, l, d, cause) \in Memory
        /\ CreatePending(m, l, d, cause).data = [m.data EXCEPT ![b] = EventOf(d, cause, NextEvent)]
        /\ CreatePending(m, l, d, cause).timers = m.timers \cup {TimeoutOf(l, b, NextEvent)}
        /\ Placed(CreatePending(m, l, d, cause), At(place, b, l), NewRank(rank, b))
    BY <2>1, CreatePendingIs
  <2>3. PlaceDeferred(m, place, l) = At(place, b, l)
    BY <1>1 DEF PlaceDeferred
  <2>4. m.data \in [Buffer -> Content]
    BY DEF Memory
  <2> HIDE DEF b, n
  <2> QED
    BY <1>1, <2>1, <2>2, <2>3, <2>4 DEF b, n
<1>2. CASE ~CanAsk(m)
  <2>1. PlaceDeferred(m, place, l) = place
    BY <1>2 DEF PlaceDeferred
  <2> QED
    BY <1>2, <2>1, NotDeferredIs
<1> QED
  BY <1>1, <1>2
----------------------------------------------------------------------------
(* The queue.                                                              *)

Posted == [type : {"rx", "command", "faults", "alarms"}, buffer : Buffer]
Radio  == {"rx", "command"}

Named(q, types) == {q[i].buffer : i \in {j \in DOMAIN q : q[j].type \in types}}

Distinct(q, types) ==
  \A i, j \in DOMAIN q :
    q[i].type \in types /\ q[j].type \in types /\ q[i].buffer = q[j].buffer => i = j

(* The first message is received.                                          *)
LEMMA ReceivedIs ==
  ASSUME NEW q \in Seq(Posted), q # <<>>, NEW types
  PROVE  /\ Head(q) \in Posted /\ Tail(q) \in Seq(Posted)
         /\ Head(q).type \in types => Head(q).buffer \in Named(q, types)
         /\ Head(q).type \notin types => Named(Tail(q), types) = Named(q, types)
         /\ Distinct(q, types) => /\ Distinct(Tail(q), types)
                                  /\ Head(q).type \in types =>
                                       Named(Tail(q), types) = Named(q, types) \ {Head(q).buffer}
<1>1. /\ Head(q) = q[1] /\ Head(q) \in Posted /\ Tail(q) \in Seq(Posted)
      /\ 1 \in DOMAIN q /\ DOMAIN q = 1 .. Len(q) /\ Len(q) \in Nat \ {0}
      /\ DOMAIN Tail(q) = 1 .. (Len(q) - 1)
      /\ \A i \in DOMAIN Tail(q) : i + 1 \in DOMAIN q /\ Tail(q)[i] = q[i + 1]
  <2>1. Head(q) = q[1] /\ Len(q) \in Nat \ {0} /\ DOMAIN q = 1 .. Len(q)
    BY EmptySeq, LenProperties
  <2>2. /\ Tail(q) \in Seq(Posted) /\ Len(Tail(q)) = Len(q) - 1
        /\ \A i \in 1 .. Len(Tail(q)) : Tail(q)[i] = q[i + 1]
    BY HeadTailProperties
  <2>3. DOMAIN Tail(q) = 1 .. (Len(q) - 1)
    BY <2>2, LenProperties
  <2>4. Head(q) \in Posted
    BY HeadTailProperties
  <2> QED
    BY <2>1, <2>2, <2>3, <2>4
<1> DEFINE t == Tail(q)
<1>2. \A j \in DOMAIN q \ {1} : j - 1 \in DOMAIN t /\ t[j - 1] = q[j]
  <2> TAKE j \in DOMAIN q \ {1}
  <2>1. j \in 1 .. Len(q) /\ j # 1 /\ j - 1 \in 1 .. (Len(q) - 1) /\ (j - 1) + 1 = j
    BY <1>1
  <2> QED
    BY <1>1, <2>1
<1> HIDE DEF t
<1>3. \A x : x \in Named(t, types) <=>
               \E j \in DOMAIN q \ {1} : q[j].type \in types /\ x = q[j].buffer
  <2> TAKE x
  <2>1. ASSUME NEW i \in DOMAIN t, t[i].type \in types, x = t[i].buffer
        PROVE  \E j \in DOMAIN q \ {1} : q[j].type \in types /\ x = q[j].buffer
    <3>1. i + 1 \in DOMAIN q \ {1} /\ t[i] = q[i + 1]
      BY <1>1, <2>1 DEF t
    <3> QED
      BY <2>1, <3>1
  <2>2. ASSUME NEW j \in DOMAIN q \ {1}, q[j].type \in types, x = q[j].buffer
        PROVE  \E i \in DOMAIN t : t[i].type \in types /\ x = t[i].buffer
    BY <1>2, <2>2
  <2> QED
    BY <2>1, <2>2 DEF Named
<1>4. \A x : x \in Named(q, types) <=> \E j \in DOMAIN q : q[j].type \in types /\ x = q[j].buffer
  BY DEF Named
<1>5. Distinct(q, types) => Distinct(t, types)
  <2> SUFFICES ASSUME Distinct(q, types),
                      NEW i \in DOMAIN t, NEW j \in DOMAIN t,
                      t[i].type \in types, t[j].type \in types, t[i].buffer = t[j].buffer
               PROVE  i = j
    BY DEF Distinct
  <2>1. /\ i + 1 \in DOMAIN q /\ t[i] = q[i + 1] /\ j + 1 \in DOMAIN q /\ t[j] = q[j + 1]
        /\ i \in Nat /\ j \in Nat
    BY <1>1 DEF t
  <2>2. i + 1 = j + 1
    BY <2>1 DEF Distinct
  <2> QED
    BY <2>1, <2>2
<1>6. Head(q).type \notin types => Named(t, types) = Named(q, types)
  <2> SUFFICES ASSUME Head(q).type \notin types PROVE Named(t, types) = Named(q, types)
    OBVIOUS
  <2>1. \A j \in DOMAIN q : q[j].type \in types => j \in DOMAIN q \ {1}
    BY <1>1
  <2>2. \A x : x \in Named(t, types) <=> x \in Named(q, types)
    BY <1>3, <1>4, <2>1
  <2> QED
    BY <2>2
<1>7. Head(q).type \in types => Head(q).buffer \in Named(q, types)
  BY <1>1, <1>4
<1>8. Distinct(q, types) /\ Head(q).type \in types =>
         Named(t, types) = Named(q, types) \ {Head(q).buffer}
  <2> SUFFICES ASSUME Distinct(q, types), Head(q).type \in types
               PROVE  Named(t, types) = Named(q, types) \ {Head(q).buffer}
    OBVIOUS
  <2>1. \A j \in DOMAIN q \ {1} : q[j].type \in types => q[j].buffer # q[1].buffer
    BY <1>1 DEF Distinct
  <2> QED
    BY <1>1, <1>3, <1>4, <2>1
<1> QED
  BY <1>1, <1>5, <1>6, <1>7, <1>8 DEF t

(* A message is posted to the front.                                       *)
LEMMA PostedIs ==
  ASSUME NEW q \in Seq(Posted), NEW p \in Posted, NEW types
  PROVE  /\ <<p>> \o q \in Seq(Posted)
         /\ p.type \notin types => Named(<<p>> \o q, types) = Named(q, types)
         /\ p.type \in types => Named(<<p>> \o q, types) = Named(q, types) \cup {p.buffer}
         /\ Distinct(q, types) /\ (p.type \in types => p.buffer \notin Named(q, types)) =>
              Distinct(<<p>> \o q, types)
<1> DEFINE s == <<p>> \o q
<1>1. /\ s \in Seq(Posted) /\ DOMAIN q = 1 .. Len(q) /\ Len(q) \in Nat
      /\ DOMAIN s = 1 .. (Len(q) + 1) /\ s[1] = p
      /\ \A i \in DOMAIN q : s[i + 1] = q[i]
  BY LenProperties, ConcatProperties
<1> HIDE DEF s
<1>2. /\ 1 \in DOMAIN s
      /\ \A i \in DOMAIN q : i + 1 \in DOMAIN s /\ s[i + 1] = q[i]
      /\ \A j \in DOMAIN s \ {1} : j - 1 \in DOMAIN q /\ s[j] = q[j - 1]
  <2>1. ASSUME NEW j \in DOMAIN s \ {1} PROVE j - 1 \in DOMAIN q /\ s[j] = q[j - 1]
    <3>1. j \in 1 .. (Len(q) + 1) /\ j # 1 /\ j - 1 \in 1 .. Len(q) /\ (j - 1) + 1 = j
      BY <1>1
    <3> QED
      BY <1>1, <3>1
  <2> QED
    BY <1>1, <2>1
<1>3. \A x : x \in Named(s, types) <=>
               \/ p.type \in types /\ x = p.buffer
               \/ x \in Named(q, types)
  <2> TAKE x
  <2>1. x \in Named(s, types) <=> \E j \in DOMAIN s : s[j].type \in types /\ x = s[j].buffer
    BY DEF Named
  <2>2. x \in Named(q, types) <=> \E j \in DOMAIN q : q[j].type \in types /\ x = q[j].buffer
    BY DEF Named
  <2>3. ASSUME NEW j \in DOMAIN s, s[j].type \in types, x = s[j].buffer
        PROVE  (p.type \in types /\ x = p.buffer) \/ x \in Named(q, types)
    BY <1>1, <1>2, <2>2, <2>3
  <2>4. ASSUME NEW i \in DOMAIN q, q[i].type \in types, x = q[i].buffer
        PROVE  \E j \in DOMAIN s : s[j].type \in types /\ x = s[j].buffer
    <3>1. i + 1 \in DOMAIN s /\ s[i + 1] = q[i]
      BY <1>2
    <3> QED
      BY <2>4, <3>1
  <2> QED
    BY <1>1, <1>2, <2>1, <2>2, <2>3, <2>4
<1>4. ASSUME Distinct(q, types), p.type \in types => p.buffer \notin Named(q, types)
      PROVE  Distinct(s, types)
  <2> SUFFICES ASSUME NEW i \in DOMAIN s, NEW j \in DOMAIN s,
                      s[i].type \in types, s[j].type \in types, s[i].buffer = s[j].buffer
               PROVE  i = j
    BY DEF Distinct
  <2>1. \A k \in DOMAIN s \ {1} : s[k].type \in types => s[k].buffer \in Named(q, types)
    BY <1>2 DEF Named
  <2>2. CASE i = 1 \/ j = 1
    BY <1>1, <1>4, <2>1, <2>2
  <2>3. CASE i # 1 /\ j # 1
    <3>1. i - 1 \in DOMAIN q /\ s[i] = q[i - 1] /\ j - 1 \in DOMAIN q /\ s[j] = q[j - 1]
      BY <1>2, <2>3
    <3>2. i - 1 = j - 1
      BY <1>4, <3>1 DEF Distinct
    <3>3. i \in Nat /\ j \in Nat
      BY <1>1
    <3> QED
      BY <3>2, <3>3
  <2> QED
    BY <2>2, <2>3
<1>5. p.type \notin types => Named(s, types) = Named(q, types)
  BY <1>3
<1>6. p.type \in types => Named(s, types) = Named(q, types) \cup {p.buffer}
  BY <1>3
<1> QED
  BY <1>1, <1>4, <1>5, <1>6 DEF s
----------------------------------------------------------------------------
(* The invariant.                                                          *)

FaultMessage == [type : {"fault"}, id : Device, faulty : BOOLEAN, battery : BOOLEAN]

(* The values of the variables, the fault messages among them.             *)
Typed ==
  /\ mem \in Memory /\ \A t \in mem.timers : t.event \in DOMAIN reports
  /\ queue \in Seq(Posted)
  /\ main \in [buffer : Buffer, msg : FaultMessage] \cup {Idle, Broken} /\ rx \in Link
  /\ active \subseteq Device \X Code
  /\ asked \subseteq Device \X {"variable", "detail"}
  /\ left \in 0 .. MaxInputs
  /\ reports \in Seq(Nat)
  /\ flagged \in [Device -> SUBSET {"faulty", "battery"}] /\ mixed \subseteq Device
  /\ overtaken \in BOOLEAN

(* A buffer that is in no list is with the one message or thread that uses *)
(* it; what is in a list of events is an event.                            *)
Owned(place, data, q, who, r) ==
  /\ \A b \in Buffer : place[b] = "busy" <=> b \in Named(q, Radio) \cup {who.buffer, r}
  /\ \A b \in Buffer : place[b] \in EventList => data[b].type = "event"
  /\ Distinct(q, Radio)
  /\ who.buffer # Nil => who.buffer # r /\ who.buffer \notin Named(q, Radio)
  /\ r \notin Named(q, Radio)

Pending(place) == {b \in Buffer : place[b] \in EventList}

(* Every event has a number of its own, is in a list as long as it has not *)
(* been reported, and has as long one timer or one timeout in the queue.   *)
Accounted(place, data, timers, q, counts) ==
  /\ \A b \in Pending(place) : data[b].event \in DOMAIN counts
  /\ \A b, c \in Pending(place) : data[b].event = data[c].event => b = c
  /\ \A e \in DOMAIN counts :
       counts[e] = IF \E b \in Pending(place) : data[b].event = e THEN 0 ELSE 1
  /\ \A t \in timers : /\ place[t.buffer] = t.list /\ data[t.buffer].event = t.event
                       /\ t.buffer \notin Named(q, EventList)
  /\ \A l \in EventList : \A b \in Named(q, {l}) : place[b] = l
  /\ Distinct(q, EventList)
  /\ \A b \in Pending(place) : b \in Named(q, EventList) \/ \E t \in timers : t.buffer = b

PendingOf(place, data, d) == {b \in Buffer : place[b] = "faults" /\ data[b].id = d}

(* The handler's thread is at the flag SD_BATTERY_FAULT of device d.       *)
Handles(who, d) == who.buffer # Nil /\ who.msg.id = d

(* What the last fault message of device d says of its faults is what is   *)
(* reported of them, or what an event in the list will report.             *)
FlaggedFor(place, data, who, faults, flags, d) ==
  /\ \A b \in PendingOf(place, data, d) :
       \/ data[b].cause = "battery" /\ "battery" \in flags
       \/ data[b].cause = "faulty" /\ "faulty" \in flags /\ d \in Detailed
  /\ IF Handles(who, d)
     THEN who.msg.battery <=> "battery" \in flags
     ELSE /\ "battery" \in flags =>
               \/ <<d, "battery">> \in faults
               \/ \E b \in PendingOf(place, data, d) : data[b].cause = "battery"
          /\ "battery" \notin flags => <<d, "battery">> \notin faults
  /\ "faulty" \notin flags => <<d, "default">> \notin faults /\ <<d, "detail">> \notin faults
  /\ d \notin Detailed => <<d, "detail">> \notin faults

(* Every buffer has a place, on which the memory, the queue and the owners *)
(* of the buffers agree.                                                   *)
InOrder(place) ==
  /\ \E rank : Placed(mem, place, rank)
  /\ Owned(place, mem.data, queue, main, rx)
  /\ ~overtaken => /\ Accounted(place, mem.data, mem.timers, queue, reports)
                   /\ \A d \in Device \ mixed :
                        FlaggedFor(place, mem.data, main, active, flagged[d], d)

(* There is such a place until a buffer is freed that was not in use, and  *)
(* for that an answer must have overtaken the timeout of its event.        *)
Ordered ==
  /\ Typed
  /\ main = Broken => overtaken
  /\ main # Broken => \E place : InOrder(place)

(* Until then a callback that waits to post is one of a timer that has not *)
(* been cancelled.                                                         *)
Called ==
  /\ fired \subseteq Timeout /\ dead \subseteq Nat \ {0}
  /\ ~overtaken /\ main # Broken => fired \subseteq mem.timers

IInv == Ordered /\ Called
----------------------------------------------------------------------------
(* The events that wait.                                                   *)

(* The messages about events are the same.                                 *)
SameNames(q, q2) ==
  /\ Distinct(q, EventList) => Distinct(q2, EventList)
  /\ \A types \in {{"faults"}, {"alarms"}, EventList} : Named(q2, types) = Named(q, types)

(* What a buffer holds of an event is the same.                            *)
Kept(place, data, place2, data2, c) ==
  place[c] \in EventList \/ place2[c] \in EventList => place2[c] = place[c] /\ data2[c] = data[c]

(* A timeout in the queue is of a buffer in the list of its type.          *)
LEMMA NamedArePending ==
  ASSUME NEW place, NEW data, NEW timers, NEW q \in Seq(Posted), NEW counts,
         Accounted(place, data, timers, q, counts)
  PROVE  /\ Named(q, EventList) = Named(q, {"faults"}) \cup Named(q, {"alarms"})
         /\ Named(q, EventList) \subseteq Pending(place)
<1>1. \A i \in DOMAIN q : q[i].buffer \in Buffer
  <2>1. \A i \in DOMAIN q : q[i] \in Posted
    BY ElementOfSeq, LenProperties
  <2> QED
    BY <2>1 DEF Posted
<1>2. Named(q, EventList) = Named(q, {"faults"}) \cup Named(q, {"alarms"})
  BY DEF Named, EventList
<1>3. Named(q, EventList) \subseteq Buffer
  BY <1>1 DEF Named
<1>4. \A l \in EventList : \A b \in Named(q, {l}) : place[b] = l
  BY DEF Accounted
<1> QED
  BY <1>2, <1>3, <1>4 DEF EventList, Pending

(* A step that does not touch an event.                                    *)
LEMMA AccountedAlike ==
  ASSUME NEW place, NEW data, NEW timers \in SUBSET Timeout, NEW q \in Seq(Posted), NEW counts,
         Accounted(place, data, timers, q, counts),
         NEW place2, NEW data2, NEW q2, SameNames(q, q2),
         \A c \in Buffer : Kept(place, data, place2, data2, c)
  PROVE  Accounted(place2, data2, timers, q2, counts)
<1>1. /\ Distinct(q2, EventList) /\ Named(q2, EventList) = Named(q, EventList)
      /\ \A l \in EventList : Named(q2, {l}) = Named(q, {l})
  BY DEF SameNames, EventList, Accounted
<1>2. /\ Pending(place2) = Pending(place)
      /\ \A b \in Pending(place) : b \in Buffer /\ place2[b] = place[b] /\ data2[b] = data[b]
  BY DEF Kept, Pending
<1>3. /\ Named(q, EventList) \subseteq Pending(place)
      /\ \A l \in EventList : Named(q, {l}) \subseteq Pending(place)
  BY NamedArePending DEF EventList
<1>4. \A t \in timers : t.buffer \in Buffer /\ t.list \in EventList
  BY DEF Timeout, EventList
<1>5. \A t \in timers : t.buffer \in Pending(place)
  BY <1>4 DEF Accounted, Pending
<1>6. /\ \A t \in timers : /\ place2[t.buffer] = t.list /\ data2[t.buffer].event = t.event
                           /\ t.buffer \notin Named(q2, EventList)
  BY <1>1, <1>2, <1>5 DEF Accounted
<1>7. \A l \in EventList : \A b \in Named(q2, {l}) : place2[b] = l
  BY <1>1, <1>2, <1>3 DEF Accounted
<1>8. \A b \in Pending(place2) : b \in Named(q2, EventList) \/ \E t \in timers : t.buffer = b
  BY <1>1, <1>2 DEF Accounted
<1>9. /\ \A b \in Pending(place2) : data2[b].event \in DOMAIN counts
      /\ \A b, c \in Pending(place2) : data2[b].event = data2[c].event => b = c
  BY <1>2 DEF Accounted
<1>10. \A e \in DOMAIN counts :
         (\E b \in Pending(place2) : data2[b].event = e) <=>
         (\E b \in Pending(place) : data[b].event = e)
  BY <1>2
<1>11. \A e \in DOMAIN counts :
         counts[e] = IF \E b \in Pending(place2) : data2[b].event = e THEN 0 ELSE 1
  BY <1>10 DEF Accounted
<1> QED
  BY <1>1, <1>6, <1>7, <1>8, <1>9, <1>11 DEF Accounted

(* A step that defers a new event.                                         *)
LEMMA AccountedOpened ==
  ASSUME NEW place, NEW data, NEW timers \in SUBSET Timeout, NEW q \in Seq(Posted),
         NEW counts \in Seq(Nat), Accounted(place, data, timers, q, counts),
         NEW place2, NEW data2, NEW q2, SameNames(q, q2),
         NEW f \in Buffer, place[f] \notin EventList, NEW l \in EventList, place2[f] = l,
         data2[f].event = Len(counts) + 1,
         \A c \in Buffer \ {f} : Kept(place, data, place2, data2, c)
  PROVE  Accounted(place2, data2, timers \cup {TimeoutOf(l, f, Len(counts) + 1)}, q2,
                   Append(counts, 0))
<1> DEFINE e0 == Len(counts) + 1
           t0 == TimeoutOf(l, f, e0)
           counts2 == Append(counts, 0)
<1>0. /\ DOMAIN counts = 1 .. Len(counts) /\ Len(counts) \in Nat
      /\ DOMAIN counts2 = 1 .. e0 /\ counts2[e0] = 0
      /\ \A e \in 1 .. Len(counts) : counts2[e] = counts[e]
  BY LenProperties, AppendProperties
<1>1. /\ DOMAIN counts2 = DOMAIN counts \cup {e0} /\ e0 \notin DOMAIN counts
      /\ counts2[e0] = 0 /\ \A e \in DOMAIN counts : counts2[e] = counts[e]
  BY <1>0
<1>2. t0.list = l /\ t0.buffer = f /\ t0.event = e0
  BY DEF TimeoutOf
<1>3. data2[f].event = e0
  OBVIOUS
<1> HIDE DEF e0, t0, counts2
<1>4. /\ Distinct(q2, EventList) /\ Named(q2, EventList) = Named(q, EventList)
      /\ \A ll \in EventList : Named(q2, {ll}) = Named(q, {ll})
  BY DEF SameNames, EventList, Accounted
<1>5. /\ Pending(place2) = Pending(place) \cup {f} /\ f \notin Pending(place)
      /\ \A b \in Pending(place) : b \in Buffer /\ place2[b] = place[b] /\ data2[b] = data[b]
  BY DEF Kept, Pending
<1>6. /\ Named(q, EventList) \subseteq Pending(place)
      /\ \A ll \in EventList : Named(q, {ll}) \subseteq Pending(place)
  BY NamedArePending DEF EventList
<1>7. \A t \in timers : t.buffer \in Buffer /\ t.list \in EventList
  BY DEF Timeout, EventList
<1>8. \A t \in timers : t.buffer \in Pending(place)
  BY <1>7 DEF Accounted, Pending
<1>9. \A b \in Pending(place) : data[b].event \in DOMAIN counts
  BY DEF Accounted
<1>10. /\ \A b \in Pending(place2) : data2[b].event \in DOMAIN counts2
       /\ \A b, c \in Pending(place2) : data2[b].event = data2[c].event => b = c
  <2>1. \A b \in Pending(place2) : data2[b].event \in DOMAIN counts2
    BY <1>1, <1>3, <1>5, <1>9
  <2>2. \A b, c \in Pending(place) : data[b].event = data[c].event => b = c
    BY DEF Accounted
  <2>3. \A b \in Pending(place) : data2[b].event # e0
    BY <1>1, <1>5, <1>9
  <2>4. \A b, c \in Pending(place2) : data2[b].event = data2[c].event => b = c
    BY <1>3, <1>5, <2>2, <2>3
  <2> QED
    BY <2>1, <2>4
<1>11. \A e \in DOMAIN counts :
         (\E b \in Pending(place2) : data2[b].event = e) <=>
         (\E b \in Pending(place) : data[b].event = e)
  BY <1>1, <1>3, <1>5
<1>12. \A e \in DOMAIN counts2 :
         counts2[e] = IF \E b \in Pending(place2) : data2[b].event = e THEN 0 ELSE 1
  <2>1. ASSUME NEW e \in DOMAIN counts
        PROVE  counts2[e] = IF \E b \in Pending(place2) : data2[b].event = e THEN 0 ELSE 1
    BY <1>1, <1>11 DEF Accounted
  <2>2. \E b \in Pending(place2) : data2[b].event = e0
    BY <1>3, <1>5
  <2> QED
    BY <1>1, <2>1, <2>2
<1>13. \A t \in timers \cup {t0} :
         /\ place2[t.buffer] = t.list /\ data2[t.buffer].event = t.event
         /\ t.buffer \notin Named(q2, EventList)
  <2>1. ASSUME NEW t \in timers
        PROVE  /\ place2[t.buffer] = t.list /\ data2[t.buffer].event = t.event
               /\ t.buffer \notin Named(q2, EventList)
    BY <1>4, <1>5, <1>8 DEF Accounted
  <2>2. /\ place2[t0.buffer] = t0.list /\ data2[t0.buffer].event = t0.event
        /\ t0.buffer \notin Named(q2, EventList)
    BY <1>2, <1>3, <1>4, <1>5, <1>6
  <2> QED
    BY <2>1, <2>2
<1>14. \A ll \in EventList : \A b \in Named(q2, {ll}) : place2[b] = ll
  <2>1. \A ll \in EventList : \A b \in Named(q, {ll}) : place[b] = ll
    BY DEF Accounted
  <2> TAKE ll \in EventList
  <2> TAKE b \in Named(q2, {ll})
  <2>2. b \in Named(q, {ll}) /\ b \in Pending(place)
    BY <1>4, <1>6
  <2> QED
    BY <1>5, <2>1, <2>2
<1>15. \A b \in Pending(place2) :
         b \in Named(q2, EventList) \/ \E t \in timers \cup {t0} : t.buffer = b
  <2> TAKE b \in Pending(place2)
  <2>1. CASE b = f
    BY <1>2, <2>1
  <2>2. CASE b # f
    <3>1. b \in Pending(place)
      BY <1>5, <2>2
    <3> QED
      BY <1>4, <3>1 DEF Accounted
  <2> QED
    BY <2>1, <2>2
<1>16. Accounted(place2, data2, timers \cup {t0}, q2, counts2)
  BY <1>4, <1>10, <1>12, <1>13, <1>14, <1>15 DEF Accounted
<1> QED
  BY <1>16 DEF e0, t0, counts2

(* Messages that are not about an event come and go.                       *)
LEMMA RadioMessagesAlike ==
  ASSUME NEW q \in Seq(Posted)
  PROVE  /\ q # <<>> /\ Head(q).type \in Radio => SameNames(q, Tail(q))
         /\ \A p \in Posted : p.type \in Radio => SameNames(q, <<p>> \o q)
<1>1. Radio \cap EventList = {}
  BY DEF Radio, EventList
<1>2. \A types \in {{"faults"}, {"alarms"}, EventList} : Radio \cap types = {}
  BY <1>1 DEF EventList
<1>3. q # <<>> /\ Head(q).type \in Radio => SameNames(q, Tail(q))
  <2> SUFFICES ASSUME q # <<>>, Head(q).type \in Radio PROVE SameNames(q, Tail(q))
    OBVIOUS
  <2>1. Distinct(q, EventList) => Distinct(Tail(q), EventList)
    BY ReceivedIs
  <2>2. ASSUME NEW types \in {{"faults"}, {"alarms"}, EventList}
        PROVE  Named(Tail(q), types) = Named(q, types)
    <3>1. Head(q).type \notin types
      BY <1>2
    <3> QED
      BY <3>1, ReceivedIs
  <2> QED
    BY <2>1, <2>2 DEF SameNames
<1>4. ASSUME NEW p \in Posted, p.type \in Radio PROVE SameNames(q, <<p>> \o q)
  <2>1. Distinct(q, EventList) => Distinct(<<p>> \o q, EventList)
    <3>1. p.type \notin EventList
      BY <1>1, <1>4
    <3> QED
      BY <3>1, PostedIs
  <2>2. ASSUME NEW types \in {{"faults"}, {"alarms"}, EventList}
        PROVE  Named(<<p>> \o q, types) = Named(q, types)
    <3>1. p.type \notin types
      BY <1>2, <1>4
    <3> QED
      BY <3>1, PostedIs
  <2> QED
    BY <2>1, <2>2 DEF SameNames
<1> QED
  BY <1>3, <1>4

(* The event in buffer f leaves its list, with what is in the queue of it. *)
Closes(place, data, q, place2, data2, q2, f) ==
  /\ place[f] \in EventList /\ place2[f] \notin EventList /\ Distinct(q2, EventList)
  /\ \A types \in {{"faults"}, {"alarms"}, EventList} : Named(q2, types) = Named(q, types) \ {f}
  /\ \A c \in Buffer \ {f} : Kept(place, data, place2, data2, c)

CountedIn(counts, n) == [e \in DOMAIN counts |-> IF e = n THEN counts[e] + 1 ELSE counts[e]]

(* A step that reports an event, after its answer or its timeout.          *)
LEMMA AccountedClosed ==
  ASSUME NEW place, NEW data, NEW timers \in SUBSET Timeout, NEW q \in Seq(Posted),
         NEW counts \in Seq(Nat), Accounted(place, data, timers, q, counts),
         NEW place2, NEW data2, NEW q2, NEW f \in Buffer,
         Closes(place, data, q, place2, data2, q2, f)
  PROVE  Accounted(place2, data2, TimersBut(timers, data, f), q2,
                   CountedIn(counts, data[f].event))
<1> DEFINE e0 == data[f].event
           timers2 == {t \in timers : t.event # e0}
           counts2 == [e \in DOMAIN counts |-> IF e = e0 THEN counts[e] + 1 ELSE counts[e]]
<1>1. /\ f \in Pending(place) /\ Pending(place2) = Pending(place) \ {f}
      /\ \A b \in Pending(place2) : b \in Buffer /\ place2[b] = place[b] /\ data2[b] = data[b]
  BY DEF Kept, Pending, Closes
<1>2. /\ Named(q2, EventList) = Named(q, EventList) \ {f}
      /\ \A l \in EventList : Named(q2, {l}) = Named(q, {l}) \ {f}
  BY DEF EventList, Closes
<1>3. /\ Named(q, EventList) \subseteq Pending(place)
      /\ \A l \in EventList : Named(q, {l}) \subseteq Pending(place)
  BY NamedArePending DEF EventList
<1>4. \A t \in timers : t.buffer \in Buffer /\ t.list \in EventList
  BY DEF Timeout, EventList
<1>5. \A t \in timers : t.buffer \in Pending(place)
  BY <1>4 DEF Accounted, Pending
<1>6. /\ \A b \in Pending(place) : data[b].event \in DOMAIN counts
      /\ \A b, c \in Pending(place) : data[b].event = data[c].event => b = c
  BY DEF Accounted
<1>7. \A t \in timers : t \in timers2 <=> t.buffer # f
  <2>1. \A t \in timers : data[t.buffer].event = t.event
    BY DEF Accounted
  <2> QED
    BY <1>1, <1>5, <1>6, <2>1
<1>8. /\ DOMAIN counts2 = DOMAIN counts /\ e0 \in DOMAIN counts
      /\ \A e \in DOMAIN counts : e # e0 => counts2[e] = counts[e]
      /\ counts2[e0] = counts[e0] + 1
  BY <1>1, <1>6
<1>9. timers2 \subseteq timers
  OBVIOUS
<1>10. e0 = data[f].event
  OBVIOUS
<1> HIDE DEF e0, timers2, counts2
<1>11. /\ \A b \in Pending(place2) : data2[b].event \in DOMAIN counts2
       /\ \A b, c \in Pending(place2) : data2[b].event = data2[c].event => b = c
  BY <1>1, <1>6, <1>8
<1>12. \A e \in DOMAIN counts2 :
         counts2[e] = IF \E b \in Pending(place2) : data2[b].event = e THEN 0 ELSE 1
  <2> TAKE e \in DOMAIN counts2
  <2>1. counts[e] = IF \E b \in Pending(place) : data[b].event = e THEN 0 ELSE 1
    BY <1>8 DEF Accounted
  <2>2. CASE e = e0
    <3>1. \A b \in Pending(place2) : data2[b].event # e0
      BY <1>1, <1>6, <1>10
    <3>2. counts[e0] = 0
      BY <1>1, <1>10, <2>1, <2>2
    <3> QED
      BY <1>8, <2>2, <3>1, <3>2
  <2>3. CASE e # e0
    <3>1. (\E b \in Pending(place2) : data2[b].event = e) <=>
          (\E b \in Pending(place) : data[b].event = e)
      BY <1>1, <1>10, <2>3
    <3> QED
      BY <1>8, <2>1, <2>3, <3>1
  <2> QED
    BY <2>2, <2>3
<1>13. \A t \in timers2 : /\ place2[t.buffer] = t.list /\ data2[t.buffer].event = t.event
                          /\ t.buffer \notin Named(q2, EventList)
  <2>1. \A t \in timers : /\ place[t.buffer] = t.list /\ data[t.buffer].event = t.event
                          /\ t.buffer \notin Named(q, EventList)
    BY DEF Accounted
  <2> QED
    BY <1>1, <1>2, <1>5, <1>7, <1>9, <2>1
<1>14. \A l \in EventList : \A b \in Named(q2, {l}) : place2[b] = l
  <2>1. \A l \in EventList : \A b \in Named(q, {l}) : place[b] = l
    BY DEF Accounted
  <2> TAKE l \in EventList
  <2> TAKE b \in Named(q2, {l})
  <2>2. b \in Named(q, {l}) /\ b \in Pending(place2)
    BY <1>1, <1>2, <1>3
  <2> QED
    BY <1>1, <2>1, <2>2
<1>15. \A b \in Pending(place2) :
         b \in Named(q2, EventList) \/ \E t \in timers2 : t.buffer = b
  <2> TAKE b \in Pending(place2)
  <2>1. b \in Pending(place) /\ b # f
    BY <1>1
  <2>2. b \in Named(q, EventList) \/ \E t \in timers : t.buffer = b
    BY <2>1 DEF Accounted
  <2> QED
    BY <1>2, <1>7, <2>1, <2>2
<1>16. Accounted(place2, data2, timers2, q2, counts2)
  BY <1>11, <1>12, <1>13, <1>14, <1>15 DEF Accounted, Closes
<1> QED
  BY <1>16 DEF e0, timers2, counts2, TimersBut, CountedIn

(* A buffer whose timeout is in the queue has no timer.                    *)
LEMMA TimedOutHasNoTimer ==
  ASSUME NEW place, NEW data, NEW timers \in SUBSET Timeout, NEW q \in Seq(Posted), NEW counts,
         Accounted(place, data, timers, q, counts), NEW f \in Named(q, EventList)
  PROVE  TimersBut(timers, data, f) = timers
<1>1. f \in Pending(place)
  BY NamedArePending
<1>2. \A t \in timers : t.buffer \in Buffer /\ t.list \in EventList
  BY DEF Timeout, EventList
<1>3. \A t \in timers : /\ t.buffer \in Pending(place) /\ data[t.buffer].event = t.event
                        /\ t.buffer # f
  BY <1>2 DEF Accounted, Pending
<1>4. \A b, c \in Pending(place) : data[b].event = data[c].event => b = c
  BY DEF Accounted
<1> QED
  BY <1>1, <1>3, <1>4 DEF TimersBut

(* A timer runs out.                                                       *)
LEMMA AccountedFired ==
  ASSUME NEW place, NEW data, NEW timers \in SUBSET Timeout, NEW q \in Seq(Posted), NEW counts,
         Accounted(place, data, timers, q, counts),
         NEW t \in timers, NEW p \in Posted, p.type = t.list, p.buffer = t.buffer
  PROVE  Accounted(place, data, timers \ {t}, <<p>> \o q, counts)
<1> DEFINE q2 == <<p>> \o q
<1>1. /\ t.buffer \in Buffer /\ t.list \in EventList
      /\ \A u \in timers : u = TimeoutOf(u.list, u.buffer, u.event)
  BY DEF Timeout, EventList, TimeoutOf
<1>2. /\ \A u \in timers : /\ place[u.buffer] = u.list /\ data[u.buffer].event = u.event
                           /\ u.buffer \notin Named(q, EventList)
      /\ \A l \in EventList : \A b \in Named(q, {l}) : place[b] = l
      /\ Distinct(q, EventList)
  BY DEF Accounted
<1>3. Distinct(q2, EventList) /\ Named(q2, EventList) = Named(q, EventList) \cup {t.buffer}
  BY <1>1, <1>2, PostedIs
<1>4. \A l \in EventList : Named(q2, {l}) \subseteq
                             IF l = t.list THEN Named(q, {l}) \cup {t.buffer} ELSE Named(q, {l})
  <2> TAKE l \in EventList
  <2>1. CASE l = t.list
    BY <2>1, PostedIs
  <2>2. CASE l # t.list
    BY <2>2, PostedIs
  <2> QED
    BY <2>1, <2>2
<1> HIDE DEF q2
<1>5. \A l \in EventList : \A b \in Named(q2, {l}) : place[b] = l
  BY <1>2, <1>4
<1>6. \A u \in timers \ {t} : u.buffer # t.buffer
  BY <1>1, <1>2
<1>7. \A u \in timers \ {t} : /\ place[u.buffer] = u.list /\ data[u.buffer].event = u.event
                              /\ u.buffer \notin Named(q2, EventList)
  BY <1>2, <1>3, <1>6
<1>8. \A b \in Pending(place) :
        b \in Named(q2, EventList) \/ \E u \in timers \ {t} : u.buffer = b
  <2> TAKE b \in Pending(place)
  <2>1. b \in Named(q, EventList) \/ \E u \in timers : u.buffer = b
    BY DEF Accounted
  <2> QED
    BY <1>3, <2>1
<1>9. /\ \A b \in Pending(place) : data[b].event \in DOMAIN counts
      /\ \A b, c \in Pending(place) : data[b].event = data[c].event => b = c
      /\ \A e \in DOMAIN counts :
           counts[e] = IF \E b \in Pending(place) : data[b].event = e THEN 0 ELSE 1
  BY DEF Accounted
<1>10. Accounted(place, data, timers \ {t}, q2, counts)
  BY <1>3, <1>5, <1>7, <1>8, <1>9 DEF Accounted
<1> QED
  BY <1>10 DEF q2
----------------------------------------------------------------------------
(* The faults of a device.                                                 *)

(* A step that is not about the device.                                    *)
LEMMA FlaggedAlike ==
  ASSUME NEW place, NEW data, NEW who, NEW faults, NEW flags, NEW d,
         FlaggedFor(place, data, who, faults, flags, d),
         NEW place2, NEW data2, NEW who2, NEW faults2,
         who2 = who \/ (~Handles(who, d) /\ ~Handles(who2, d)),
         PendingOf(place2, data2, d) = PendingOf(place, data, d),
         \A b \in PendingOf(place, data, d) : data2[b] = data[b],
         \A x \in Code : <<d, x>> \in faults2 <=> <<d, x>> \in faults
  PROVE  FlaggedFor(place2, data2, who2, faults2, flags, d)
<1> DEFINE P == PendingOf(place, data, d)
<1>1. PendingOf(place2, data2, d) = P /\ \A b \in P : data2[b] = data[b]
  OBVIOUS
<1>2. /\ <<d, "battery">> \in faults2 <=> <<d, "battery">> \in faults
      /\ <<d, "default">> \in faults2 <=> <<d, "default">> \in faults
      /\ <<d, "detail">> \in faults2 <=> <<d, "detail">> \in faults
  BY DEF Code
<1>3. /\ \A b \in P : \/ data[b].cause = "battery" /\ "battery" \in flags
                      \/ data[b].cause = "faulty" /\ "faulty" \in flags /\ d \in Detailed
      /\ Handles(who, d) => (who.msg.battery <=> "battery" \in flags)
      /\ ~Handles(who, d) =>
           /\ "battery" \in flags => \/ <<d, "battery">> \in faults
                                     \/ \E b \in P : data[b].cause = "battery"
           /\ "battery" \notin flags => <<d, "battery">> \notin faults
      /\ "faulty" \notin flags => <<d, "default">> \notin faults /\ <<d, "detail">> \notin faults
      /\ d \notin Detailed => <<d, "detail">> \notin faults
  BY DEF FlaggedFor
<1> HIDE DEF P
<1>4. /\ Handles(who2, d) => (who2.msg.battery <=> "battery" \in flags)
      /\ ~Handles(who2, d) =>
           /\ "battery" \in flags => \/ <<d, "battery">> \in faults2
                                     \/ \E b \in P : data2[b].cause = "battery"
           /\ "battery" \notin flags => <<d, "battery">> \notin faults2
  BY <1>1, <1>2, <1>3
<1>5. /\ \A b \in P : \/ data2[b].cause = "battery" /\ "battery" \in flags
                      \/ data2[b].cause = "faulty" /\ "faulty" \in flags /\ d \in Detailed
      /\ "faulty" \notin flags => <<d, "default">> \notin faults2 /\ <<d, "detail">> \notin faults2
      /\ d \notin Detailed => <<d, "detail">> \notin faults2
  BY <1>1, <1>2, <1>3
<1> QED
  BY <1>1, <1>4, <1>5 DEF FlaggedFor

(* A step that changes one event, and none of device d.                    *)
KeptOf(d, place, data, place2, data2, f) ==
  /\ \A c \in Buffer \ {f} : Kept(place, data, place2, data2, c)
  /\ place[f] = "faults" => data[f].id # d
  /\ place2[f] = "faults" => data2[f].id # d

(* Then the faults of d wait as before.                                     *)
LEMMA PendingOfAlike ==
  ASSUME NEW place, NEW data, NEW place2, NEW data2, NEW d, NEW f,
         KeptOf(d, place, data, place2, data2, f)
  PROVE  /\ PendingOf(place2, data2, d) = PendingOf(place, data, d)
         /\ \A b \in PendingOf(place, data, d) : data2[b] = data[b]
<1>1. \A c \in Buffer \ {f} : (place[c] = "faults" \/ place2[c] = "faults") =>
                                 place2[c] = place[c] /\ data2[c] = data[c]
  BY DEF KeptOf, Kept, EventList
<1>2. f \notin PendingOf(place2, data2, d) /\ f \notin PendingOf(place, data, d)
  BY DEF KeptOf, PendingOf
<1>3. \A c \in Buffer \ {f} : c \in PendingOf(place2, data2, d) <=> c \in PendingOf(place, data, d)
  BY <1>1 DEF PendingOf
<1>4. PendingOf(place2, data2, d) \subseteq Buffer /\ PendingOf(place, data, d) \subseteq Buffer
  BY DEF PendingOf
<1>5. PendingOf(place2, data2, d) = PendingOf(place, data, d)
  BY <1>2, <1>3, <1>4
<1>6. \A b \in PendingOf(place, data, d) : b \in Buffer \ {f} /\ place[b] = "faults"
  BY <1>2 DEF PendingOf
<1> QED
  BY <1>1, <1>5, <1>6
----------------------------------------------------------------------------
(* The messages of the radio and the commands.                             *)

(* The first message is about a buffer in use.                             *)
LEMMA Consumed ==
  ASSUME queue \in Seq(Posted), queue # <<>>, NEW b, NEW type \in Radio,
         Head(queue) = [type |-> type, buffer |-> b], queue' = Tail(queue)
  PROVE  /\ b \in Buffer /\ b \in Named(queue, Radio)
         /\ queue' \in Seq(Posted) /\ SameNames(queue, queue')
         /\ Distinct(queue, Radio) => /\ Distinct(queue', Radio)
                                      /\ Named(queue', Radio) = Named(queue, Radio) \ {b}
<1>1. Head(queue).type = type /\ Head(queue).buffer = b
  OBVIOUS
<1>2. Head(queue) \in Posted /\ Tail(queue) \in Seq(Posted)
  BY ReceivedIs
<1>3. SameNames(queue, Tail(queue))
  BY <1>1, RadioMessagesAlike
<1>4. /\ b \in Named(queue, Radio)
      /\ Distinct(queue, Radio) =>
           /\ Distinct(Tail(queue), Radio)
           /\ Named(Tail(queue), Radio) = Named(queue, Radio) \ {b}
  BY <1>1, ReceivedIs
<1> QED
  BY <1>1, <1>2, <1>3, <1>4 DEF Posted

(* Its buffer is freed.                                                    *)
LEMMA OwnedReceived ==
  ASSUME NEW place, NEW data, NEW q, NEW r, Owned(place, data, q, Idle, r),
         NEW b \in Buffer, b \in Named(q, Radio),
         NEW q2, Distinct(q2, Radio), Named(q2, Radio) = Named(q, Radio) \ {b},
         NEW place2, NEW data2, place2[b] = "free",
         \A c \in Buffer \ {b} : place2[c] = "busy" <=> place[c] = "busy",
         \A c \in Buffer : place2[c] \in EventList => data2[c].type = "event"
  PROVE  Owned(place2, data2, q2, Idle, r)
<1>1. Idle.buffer = Nil /\ Nil \notin Buffer
  BY SizeIs DEF Idle
<1>2. r # b
  BY DEF Owned
<1>3. \A c \in Buffer : place2[c] = "busy" <=> c \in Named(q2, Radio) \cup {Idle.buffer, r}
  BY <1>1, <1>2 DEF Owned
<1> QED
  BY <1>1, <1>3 DEF Owned

(* An idle handler has no buffer, nor has one that is no longer followed.  *)
LEMMA IdleIsNotBroken == Idle # Broken /\ Idle.buffer = Nil /\ Broken.buffer = Nil
BY DEF Idle, Broken

(* A message that is handled without a change of an event.                 *)
LEMMA DiscardKeeps ==
  ASSUME Ordered, main = Idle, queue # <<>>, NEW b, NEW type \in Radio,
         Head(queue) = [type |-> type, buffer |-> b], queue' = Tail(queue),
         mem' = Discard(mem, b),
         UNCHANGED <<main, rx, active, asked, left, reports, flagged, mixed, overtaken>>
  PROVE  Ordered'
<1>1. Typed /\ main # Broken /\ mem \in Memory
  BY IdleIsNotBroken DEF Ordered, Typed
<1>2. /\ b \in Buffer /\ b \in Named(queue, Radio)
      /\ queue' \in Seq(Posted) /\ SameNames(queue, queue')
      /\ Distinct(queue, Radio) => /\ Distinct(queue', Radio)
                                   /\ Named(queue', Radio) = Named(queue, Radio) \ {b}
  BY <1>1, Consumed DEF Typed
<1>3. PICK place : InOrder(place)
  BY <1>1 DEF Ordered
<1>4. PICK rank : Placed(mem, place, rank)
  BY <1>3 DEF InOrder
<1> DEFINE place2 == At(place, b, "free")
<1>5. /\ place \in [Buffer -> Place] /\ mem.data \in [Buffer -> Content]
      /\ mem.timers \in SUBSET Timeout
  BY <1>1, <1>4 DEF Placed, Memory
<1>6. Owned(place, mem.data, queue, Idle, rx) /\ place[b] = "busy"
  BY <1>2, <1>3 DEF InOrder, Owned
<1>7. /\ mem' \in Memory /\ mem'.timers = mem.timers
      /\ mem'.data = [mem.data EXCEPT ![b] = Unused]
      /\ Placed(mem', place2, NewRank(rank, b))
  BY <1>1, <1>2, <1>4, <1>6, DiscardIs
<1>8. /\ place2[b] = "free"
      /\ \A c \in Buffer \ {b} : place2[c] = place[c] /\ mem'.data[c] = mem.data[c]
  BY <1>2, <1>5, <1>7 DEF At
<1> HIDE DEF place2
<1>9. \A c \in Buffer : Kept(place, mem.data, place2, mem'.data, c)
  <2>1. "free" \notin EventList /\ "busy" \notin EventList
    BY DEF EventList
  <2> QED
    BY <1>6, <1>8, <2>1 DEF Kept
<1>10. \A c \in Buffer : place2[c] \in EventList => mem'.data[c].type = "event"
  BY <1>6, <1>9 DEF Kept, Owned
<1>11. Owned(place2, mem'.data, queue', Idle, rx)
  <2>1. Distinct(queue', Radio) /\ Named(queue', Radio) = Named(queue, Radio) \ {b}
    BY <1>2, <1>6 DEF Owned
  <2> QED
    BY <1>2, <1>6, <1>8, <1>10, <2>1, OwnedReceived
<1>12. Owned(place2, mem'.data, queue', main', rx')
  BY <1>11
<1>13. ASSUME ~overtaken' PROVE Accounted(place2, mem'.data, mem'.timers, queue', reports')
  <2>1. Accounted(place, mem.data, mem.timers, queue, reports)
    BY <1>3, <1>13 DEF InOrder
  <2>2. Accounted(place2, mem'.data, mem.timers, queue', reports)
    BY <1>1, <1>2, <1>5, <1>9, <2>1, AccountedAlike DEF Typed
  <2> QED
    BY <1>7, <2>2
<1>14. ASSUME ~overtaken', NEW d \in Device \ mixed'
       PROVE  FlaggedFor(place2, mem'.data, main', active', flagged'[d], d)
  <2>1. FlaggedFor(place, mem.data, main, active, flagged[d], d)
    BY <1>3, <1>14 DEF InOrder
  <2>2. KeptOf(d, place, mem.data, place2, mem'.data, b)
    BY <1>6, <1>8, <1>9 DEF KeptOf
  <2>3. /\ PendingOf(place2, mem'.data, d) = PendingOf(place, mem.data, d)
        /\ \A c \in PendingOf(place, mem.data, d) : mem'.data[c] = mem.data[c]
    BY <2>2, PendingOfAlike
  <2>4. FlaggedFor(place2, mem'.data, main, active, flagged[d], d)
    BY <2>1, <2>3, FlaggedAlike
  <2> QED
    BY <2>4
<1>15. InOrder(place2)'
  BY <1>7, <1>12, <1>13, <1>14 DEF InOrder
<1>16. Typed'
  BY <1>1, <1>2, <1>7 DEF Typed
<1> QED
  BY <1>1, <1>15, <1>16 DEF Ordered
----------------------------------------------------------------------------
(* The attempt to defer an event.                                          *)

(* What a device is asked, and whether its event is in the list.           *)
Asks(m, l, place, d, cause) ==
  LET n == Deferred(m, l, d, cause)
      p == PlaceDeferred(m, place, l)
  IN  /\ n \in Memory /\ \E r : Placed(n, p, r)
      /\ Owned(p, n.data, queue, main, rx)
      /\ \A c \in Buffer : p[c] = "busy" <=> place[c] = "busy"
      /\ \A c \in Buffer : place[c] # "free" => n.data[c] = m.data[c]
      /\ \A e \in Device :
           e # d \/ l # "faults" \/ ~CanAsk(m) =>
             /\ PendingOf(p, n.data, e) = PendingOf(place, m.data, e)
             /\ \A b \in PendingOf(place, m.data, e) : n.data[b] = m.data[b]
      /\ l = "faults" /\ CanAsk(m) =>
           \E f \in Buffer : /\ n.data[f].cause = cause
                             /\ PendingOf(p, n.data, d) = PendingOf(place, m.data, d) \cup {f}
                             /\ \A b \in PendingOf(place, m.data, d) : n.data[b] = m.data[b]

(* The attempt to defer an event does what Asks says.                       *)
LEMMA DeferringAsks ==
  ASSUME Typed, NEW place, InOrder(place),
         NEW l \in EventList, NEW d \in Device, NEW cause \in Cause
  PROVE  Asks(mem, l, place, d, cause)
<1> DEFINE n == Deferred(mem, l, d, cause)
           p == PlaceDeferred(mem, place, l)
           f == mem.head.free
<1>1. PICK rank : Placed(mem, place, rank)
  BY DEF InOrder
<1>2. /\ mem \in Memory /\ reports \in Seq(Nat) /\ \A t \in mem.timers : t.event \in DOMAIN reports
  BY DEF Typed
<1>3. /\ n \in Memory /\ \E r : Placed(n, p, r)
      /\ \A c \in Buffer : place[c] # "free" => n.data[c] = mem.data[c]
      /\ CanAsk(mem) => /\ f \in Buffer /\ place[f] = "free"
                        /\ n.data[f] = EventOf(d, cause, NextEvent)
  BY <1>1, <1>2, DeferredIs
<1>4. place \in [Buffer -> Place] /\ Owned(place, mem.data, queue, main, rx)
  BY <1>1 DEF Placed, InOrder
<1>5. p = IF CanAsk(mem) THEN At(place, f, l) ELSE place
  BY DEF PlaceDeferred
<1>6. EventOf(d, cause, NextEvent).type = "event" /\ EventOf(d, cause, NextEvent).id = d
      /\ EventOf(d, cause, NextEvent).cause = cause
  BY DEF EventOf
<1>7. l # "busy" /\ l # "free" /\ "free" \notin EventList /\ "busy" \notin EventList
  BY DEF EventList
<1> HIDE DEF n, p, f
<1>8. CASE ~CanAsk(mem)
  <2>1. p = place
    BY <1>5, <1>8
  <2>2. \A c \in Buffer : Kept(place, mem.data, p, n.data, c)
    BY <1>3, <1>7, <2>1 DEF Kept
  <2>3. Owned(p, n.data, queue, main, rx)
    BY <1>4, <2>1, <2>2 DEF Owned, Kept
  <2>4. \A e \in Device : /\ PendingOf(p, n.data, e) = PendingOf(place, mem.data, e)
                          /\ \A b \in PendingOf(place, mem.data, e) : n.data[b] = mem.data[b]
    <3> TAKE e \in Device
    <3>1. \A c \in Buffer : place[c] = "faults" => n.data[c] = mem.data[c]
      BY <2>1, <2>2 DEF Kept, EventList
    <3> QED
      BY <2>1, <3>1 DEF PendingOf
  <2> QED
    BY <1>3, <1>8, <2>1, <2>3, <2>4 DEF Asks, n, p
<1>9. CASE CanAsk(mem)
  <2>1. /\ f \in Buffer /\ place[f] = "free" /\ p[f] = l
        /\ \A c \in Buffer \ {f} : p[c] = place[c]
    BY <1>3, <1>4, <1>5, <1>9 DEF At
  <2>2. \A c \in Buffer : p[c] = "busy" <=> place[c] = "busy"
    BY <1>7, <2>1
  <2>3. \A c \in Buffer \ {f} : Kept(place, mem.data, p, n.data, c)
    BY <1>3, <1>7, <2>1 DEF Kept
  <2>4. n.data[f].type = "event" /\ n.data[f].id = d /\ n.data[f].cause = cause
    BY <1>3, <1>6, <1>9
  <2>5. Owned(p, n.data, queue, main, rx)
    <3>1. \A c \in Buffer : p[c] \in EventList => n.data[c].type = "event"
      BY <1>4, <2>3, <2>4 DEF Owned, Kept
    <3> QED
      BY <1>4, <2>2, <3>1 DEF Owned
  <2>6. ASSUME NEW e \in Device, e # d \/ l # "faults"
        PROVE  /\ PendingOf(p, n.data, e) = PendingOf(place, mem.data, e)
               /\ \A b \in PendingOf(place, mem.data, e) : n.data[b] = mem.data[b]
    <3>1. KeptOf(e, place, mem.data, p, n.data, f)
      BY <2>1, <2>3, <2>4, <2>6 DEF KeptOf
    <3> QED
      BY <3>1, PendingOfAlike
  <2>7. ASSUME l = "faults"
        PROVE  /\ PendingOf(p, n.data, d) = PendingOf(place, mem.data, d) \cup {f}
               /\ \A b \in PendingOf(place, mem.data, d) : n.data[b] = mem.data[b]
    <3>1. \A c \in Buffer \ {f} : (place[c] = "faults" \/ p[c] = "faults") =>
                                     p[c] = place[c] /\ n.data[c] = mem.data[c]
      BY <2>3 DEF Kept, EventList
    <3>2. \A c \in Buffer \ {f} : c \in PendingOf(p, n.data, d) <=> c \in PendingOf(place, mem.data, d)
      BY <3>1 DEF PendingOf
    <3>3. f \in PendingOf(p, n.data, d) /\ f \notin PendingOf(place, mem.data, d)
      BY <2>1, <2>4, <2>7 DEF PendingOf
    <3>4. PendingOf(p, n.data, d) \subseteq Buffer /\ PendingOf(place, mem.data, d) \subseteq Buffer
      BY DEF PendingOf
    <3>5. PendingOf(p, n.data, d) = PendingOf(place, mem.data, d) \cup {f}
      BY <2>1, <3>2, <3>3, <3>4
    <3>6. \A b \in PendingOf(place, mem.data, d) : b \in Buffer \ {f} /\ place[b] = "faults"
      BY <3>3 DEF PendingOf
    <3> QED
      BY <3>1, <3>5, <3>6
  <2> QED
    BY <1>3, <1>9, <2>1, <2>2, <2>4, <2>5, <2>6, <2>7 DEF Asks, n, p
<1> QED
  BY <1>8, <1>9

(* The event is accounted for, or there is none.                           *)
LEMMA AskedIsAccounted ==
  ASSUME Typed, NEW place, InOrder(place), NEW l \in EventList, NEW d \in Device,
         NEW cause \in Cause, NEW what, NEW codes, Ask(d, what, codes)
  PROVE  LET n == Deferred(mem, l, d, cause)
             p == PlaceDeferred(mem, place, l)
         IN  /\ reports' \in Seq(Nat) /\ \A t \in n.timers : t.event \in DOMAIN reports'
             /\ ~overtaken => Accounted(p, n.data, n.timers, queue, reports')
<1> DEFINE n == Deferred(mem, l, d, cause)
           p == PlaceDeferred(mem, place, l)
           f == mem.head.free
<1>1. PICK rank : Placed(mem, place, rank)
  BY DEF InOrder
<1>2. /\ mem \in Memory /\ reports \in Seq(Nat) /\ \A t \in mem.timers : t.event \in DOMAIN reports
      /\ mem.timers \in SUBSET Timeout /\ queue \in Seq(Posted)
  BY DEF Typed, Memory
<1>3. /\ \A c \in Buffer : place[c] # "free" => n.data[c] = mem.data[c]
      /\ CanAsk(mem) => /\ f \in Buffer /\ place[f] = "free"
                        /\ n.data[f] = EventOf(d, cause, NextEvent)
                        /\ n.timers = mem.timers \cup {TimeoutOf(l, f, NextEvent)}
      /\ ~CanAsk(mem) => n.timers = mem.timers
  BY <1>1, <1>2, DeferredIs
<1>4. place \in [Buffer -> Place]
  BY <1>1 DEF Placed
<1>5. p = IF CanAsk(mem) THEN At(place, f, l) ELSE place
  BY DEF PlaceDeferred
<1>6. EventOf(d, cause, NextEvent).event = NextEvent /\ TimeoutOf(l, f, NextEvent).event = NextEvent
  BY DEF EventOf, TimeoutOf
<1>7. l # "free" /\ "free" \notin EventList
  BY DEF EventList
<1>8. SameNames(queue, queue)
  BY DEF SameNames
<1> HIDE DEF n, p, f
<1>9. CASE ~CanAsk(mem)
  <2>1. p = place /\ n.timers = mem.timers /\ reports' = reports
    BY <1>3, <1>5, <1>9 DEF Ask
  <2>2. \A c \in Buffer : Kept(place, mem.data, p, n.data, c)
    BY <1>3, <1>7, <2>1 DEF Kept
  <2>3. ASSUME ~overtaken PROVE Accounted(p, n.data, mem.timers, queue, reports)
    <3>1. Accounted(place, mem.data, mem.timers, queue, reports)
      BY <2>3 DEF InOrder
    <3> QED
      BY <1>2, <1>8, <2>2, <3>1, AccountedAlike
  <2> QED
    BY <1>2, <2>1, <2>3 DEF n, p
<1>10. CASE CanAsk(mem)
  <2>1. /\ f \in Buffer /\ place[f] = "free" /\ p[f] = l
        /\ \A c \in Buffer \ {f} : p[c] = place[c]
        /\ n.timers = mem.timers \cup {TimeoutOf(l, f, Len(reports) + 1)}
        /\ reports' = Append(reports, 0) /\ n.data[f].event = Len(reports) + 1
    BY <1>3, <1>4, <1>5, <1>6, <1>10 DEF At, Ask, NextEvent
  <2>2. \A c \in Buffer \ {f} : Kept(place, mem.data, p, n.data, c)
    BY <1>3, <1>7, <2>1 DEF Kept
  <2>3. ASSUME ~overtaken PROVE Accounted(p, n.data, n.timers, queue, reports')
    <3>1. Accounted(place, mem.data, mem.timers, queue, reports)
      BY <2>3 DEF InOrder
    <3>2. place[f] \notin EventList
      BY <1>7, <2>1
    <3>3. Accounted(p, n.data, mem.timers \cup {TimeoutOf(l, f, Len(reports) + 1)}, queue,
                    Append(reports, 0))
      BY <1>2, <1>8, <2>1, <2>2, <3>1, <3>2, AccountedOpened
    <3> QED
      BY <2>1, <3>3
  <2>4. /\ Append(reports, 0) \in Seq(Nat)
        /\ DOMAIN Append(reports, 0) = 1 .. (Len(reports) + 1)
        /\ DOMAIN reports = 1 .. Len(reports) /\ Len(reports) \in Nat
    BY <1>2, AppendProperties, LenProperties
  <2>5. \A t \in n.timers : t.event \in DOMAIN reports'
    BY <1>2, <1>6, <2>1, <2>4 DEF NextEvent
  <2> QED
    BY <2>1, <2>3, <2>4, <2>5 DEF n, p
<1> QED
  BY <1>9, <1>10

(* A buffer in use is freed.                                               *)
LEMMA FreedIs ==
  ASSUME NEW m \in Memory, NEW place, NEW b \in Buffer, place[b] = "busy",
         \E r : Placed(m, place, r)
  PROVE  LET n == Discard(m, b)
             p == At(place, b, "free")
         IN  /\ n \in Memory /\ n.timers = m.timers /\ \E r : Placed(n, p, r)
             /\ p[b] = "free" /\ \A c \in Buffer \ {b} : p[c] = place[c]
             /\ \A c \in Buffer : Kept(place, m.data, p, n.data, c)
             /\ \A d : /\ PendingOf(p, n.data, d) = PendingOf(place, m.data, d)
                       /\ \A c \in PendingOf(place, m.data, d) : n.data[c] = m.data[c]
<1> DEFINE n == Discard(m, b)
           p == At(place, b, "free")
<1>1. PICK r : Placed(m, place, r)
  OBVIOUS
<1>2. place \in [Buffer -> Place] /\ m.data \in [Buffer -> Content]
  BY <1>1 DEF Placed, Memory
<1>3. /\ n \in Memory /\ n.timers = m.timers /\ n.data = [m.data EXCEPT ![b] = Unused]
      /\ Placed(n, p, NewRank(r, b))
  BY <1>1, DiscardIs
<1>4. p[b] = "free" /\ \A c \in Buffer \ {b} : p[c] = place[c] /\ n.data[c] = m.data[c]
  BY <1>2, <1>3 DEF At
<1> HIDE DEF n, p
<1>5. \A c \in Buffer : Kept(place, m.data, p, n.data, c)
  <2>1. "free" \notin EventList /\ "busy" \notin EventList
    BY DEF EventList
  <2> QED
    BY <1>4, <2>1 DEF Kept
<1>6. \A d : KeptOf(d, place, m.data, p, n.data, b)
  BY <1>4, <1>5 DEF KeptOf
<1>7. \A d : /\ PendingOf(p, n.data, d) = PendingOf(place, m.data, d)
             /\ \A c \in PendingOf(place, m.data, d) : n.data[c] = m.data[c]
  BY <1>6, PendingOfAlike
<1> QED
  BY <1>3, <1>4, <1>5, <1>7 DEF n, p
----------------------------------------------------------------------------
(* The handlers.                                                           *)

(* A message of the radio is at the front of the queue of an idle handler.  *)
LEMMA ArrivedIs ==
  ASSUME Typed, NEW b, NEW type, Arrived(b, type)
  PROVE  /\ main = Idle /\ main # Broken /\ queue # <<>> /\ queue' = Tail(queue)
         /\ Head(queue) = [type |-> "rx", buffer |-> b] /\ "rx" \in Radio
         /\ b \in Buffer /\ b \in Named(queue, Radio)
         /\ queue' \in Seq(Posted) /\ SameNames(queue, queue')
         /\ Distinct(queue, Radio) => /\ Distinct(queue', Radio)
                                      /\ Named(queue', Radio) = Named(queue, Radio) \ {b}
         /\ mem \in Memory /\ mem.data[b] \in Content /\ mem.data[b].type = type
<1>1. /\ main = Idle /\ queue # <<>> /\ queue' = Tail(queue)
      /\ Head(queue) = [type |-> "rx", buffer |-> b] /\ mem.data[b].type = type
  BY DEF Arrived
<1>2. "rx" \in Radio /\ queue \in Seq(Posted)
  BY DEF Radio, Typed
<1>3. /\ b \in Buffer /\ b \in Named(queue, Radio)
      /\ queue' \in Seq(Posted) /\ SameNames(queue, queue')
      /\ Distinct(queue, Radio) => /\ Distinct(queue', Radio)
                                   /\ Named(queue', Radio) = Named(queue, Radio) \ {b}
  BY <1>1, <1>2, Consumed
<1>4. mem \in Memory /\ mem.data[b] \in Content
  BY <1>3 DEF Typed, Memory
<1> QED
  BY <1>1, <1>2, <1>3, <1>4, IdleIsNotBroken

(* An alarm.                                                               *)
LEMMA AlarmKeeps ==
  ASSUME Ordered, NEW b \in Buffer, AlarmReceived(b)
  PROVE  Ordered'
<1> DEFINE d0 == mem.data[b].id
           n == Deferred(mem, "alarms", d0, "alarm")
<1>1. Typed /\ Arrived(b, "alarm")
  BY DEF Ordered, AlarmReceived
<1>2. /\ main = Idle /\ main # Broken /\ queue # <<>> /\ queue' = Tail(queue)
      /\ Head(queue) = [type |-> "rx", buffer |-> b] /\ "rx" \in Radio
      /\ b \in Named(queue, Radio) /\ queue' \in Seq(Posted) /\ SameNames(queue, queue')
      /\ Distinct(queue, Radio) => /\ Distinct(queue', Radio)
                                   /\ Named(queue', Radio) = Named(queue, Radio) \ {b}
  BY <1>1, ArrivedIs
<1>3. d0 \in Device
  BY <1>1, ArrivedIs, ContentIs
<1>4. UNCHANGED <<main, rx, left, flagged, mixed, overtaken>>
  BY DEF AlarmReceived
<1>5. CASE d0 \notin Temperature
  <2>1. mem' = Discard(mem, b) /\ UNCHANGED <<active, asked, reports>>
    BY <1>5 DEF AlarmReceived
  <2> QED
    BY <1>2, <1>4, <2>1, DiscardKeeps
<1>6. CASE d0 \in Temperature
  <2>1. mem' = Discard(n, b) /\ Ask(d0, "variable", {})
    BY <1>6 DEF AlarmReceived
  <2>2. PICK place : InOrder(place)
    BY <1>2 DEF Ordered
  <2>3. "alarms" \in EventList /\ "alarm" \in Cause
    BY DEF EventList, Cause
  <2> DEFINE p == PlaceDeferred(mem, place, "alarms")
  <2>4. Asks(mem, "alarms", place, d0, "alarm")
    BY <1>1, <1>3, <2>2, <2>3, DeferringAsks
  <2>5. /\ n \in Memory /\ \E r : Placed(n, p, r)
        /\ Owned(p, n.data, queue, main, rx)
        /\ \A e \in Device : /\ PendingOf(p, n.data, e) = PendingOf(place, mem.data, e)
                             /\ \A c \in PendingOf(place, mem.data, e) : n.data[c] = mem.data[c]
    BY <2>4 DEF Asks
  <2>6. /\ reports' \in Seq(Nat) /\ \A t \in n.timers : t.event \in DOMAIN reports'
        /\ ~overtaken => Accounted(p, n.data, n.timers, queue, reports')
    BY <1>1, <1>3, <2>1, <2>2, <2>3, AskedIsAccounted
  <2> HIDE DEF n, p
  <2>7. p[b] = "busy"
    BY <1>2, <2>5 DEF Owned
  <2>8. PICK p2 : p2 = At(p, b, "free")
    OBVIOUS
  <2>9. /\ mem' \in Memory /\ mem'.timers = n.timers /\ \E r : Placed(mem', p2, r)
        /\ p2[b] = "free" /\ \A c \in Buffer \ {b} : p2[c] = p[c]
        /\ \A c \in Buffer : Kept(p, n.data, p2, mem'.data, c)
        /\ \A e : /\ PendingOf(p2, mem'.data, e) = PendingOf(p, n.data, e)
                  /\ \A c \in PendingOf(p, n.data, e) : mem'.data[c] = n.data[c]
    BY <2>1, <2>5, <2>7, <2>8, FreedIs
  <2>10. Owned(p2, mem'.data, queue', main', rx')
    <3>1. Owned(p, n.data, queue, Idle, rx)
      BY <1>2, <2>5
    <3>2. Distinct(queue', Radio) /\ Named(queue', Radio) = Named(queue, Radio) \ {b}
      BY <1>2, <3>1 DEF Owned
    <3>3. \A c \in Buffer : p2[c] \in EventList => mem'.data[c].type = "event"
      BY <2>9, <3>1 DEF Kept, Owned
    <3>4. Owned(p2, mem'.data, queue', Idle, rx)
      BY <1>2, <2>9, <3>1, <3>2, <3>3, OwnedReceived
    <3> QED
      BY <1>2, <1>4, <3>4
  <2>11. ASSUME ~overtaken' PROVE Accounted(p2, mem'.data, mem'.timers, queue', reports')
    <3>1. Accounted(p, n.data, n.timers, queue, reports')
      BY <1>4, <2>6, <2>11
    <3>2. n.timers \in SUBSET Timeout /\ queue \in Seq(Posted)
      BY <1>1, <2>5 DEF Typed, Memory
    <3>3. Accounted(p2, mem'.data, n.timers, queue', reports')
      BY <1>2, <2>9, <3>1, <3>2, AccountedAlike
    <3> QED
      BY <2>9, <3>3
  <2>12. active' = active /\ asked' \subseteq asked \cup {<<d0, "variable">>}
    BY <2>1 DEF Ask
  <2>13. ASSUME ~overtaken', NEW d \in Device \ mixed'
         PROVE  FlaggedFor(p2, mem'.data, main', active', flagged'[d], d)
    <3>1. FlaggedFor(place, mem.data, main, active, flagged[d], d)
      BY <1>4, <2>2, <2>13 DEF InOrder
    <3>2. /\ PendingOf(p2, mem'.data, d) = PendingOf(place, mem.data, d)
          /\ \A c \in PendingOf(place, mem.data, d) : mem'.data[c] = mem.data[c]
      BY <2>5, <2>9
    <3>3. FlaggedFor(p2, mem'.data, main, active, flagged[d], d)
      BY <3>1, <3>2, FlaggedAlike
    <3> QED
      BY <1>4, <2>12, <3>3
  <2>14. InOrder(p2)'
    BY <2>9, <2>10, <2>11, <2>13 DEF InOrder
  <2>15. Typed'
    BY <1>1, <1>2, <1>3, <1>4, <2>6, <2>9, <2>12 DEF Typed
  <2> QED
    BY <1>2, <1>4, <2>14, <2>15 DEF Ordered
<1> QED
  BY <1>5, <1>6

(* The buffer of the thread is freed.                                      *)
LEMMA OwnedDone ==
  ASSUME NEW place, NEW data, NEW q, NEW who, NEW r, Owned(place, data, q, who, r),
         who.buffer \in Buffer, NEW place2, NEW data2, place2[who.buffer] = "free",
         \A c \in Buffer \ {who.buffer} : place2[c] = "busy" <=> place[c] = "busy",
         \A c \in Buffer : place2[c] \in EventList => data2[c].type = "event"
  PROVE  Owned(place2, data2, q, Idle, r)
<1>1. Idle.buffer = Nil /\ Nil \notin Buffer
  BY SizeIs DEF Idle
<1>2. who.buffer # Nil /\ who.buffer # r /\ who.buffer \notin Named(q, Radio)
  BY <1>1 DEF Owned
<1>3. \A c \in Buffer : place2[c] = "busy" <=> c \in Named(q, Radio) \cup {Idle.buffer, r}
  BY <1>1, <1>2 DEF Owned
<1> QED
  BY <1>1, <1>3 DEF Owned

(* What the thread decides about the battery of the device.                *)
Decides(place, data, who, faults, d, place2, data2, faults2) ==
  /\ \A b \in PendingOf(place, data, d) :
       b \in PendingOf(place2, data2, d) /\ data2[b] = data[b]
  /\ \A b \in PendingOf(place2, data2, d) \ PendingOf(place, data, d) :
       who.msg.battery /\ data2[b].cause = "battery"
  /\ who.msg.battery =>
       \/ <<d, "battery">> \in faults2
       \/ \E b \in PendingOf(place2, data2, d) : data2[b].cause = "battery"
  /\ ~who.msg.battery => <<d, "battery">> \notin faults2
  /\ \A x \in Code \ {"battery"} : <<d, x>> \in faults2 <=> <<d, x>> \in faults

(* The flag of the battery settles what the message says of the device.     *)
LEMMA BatterySettled ==
  ASSUME NEW place, NEW data, NEW who, NEW faults, NEW flags, NEW d,
         FlaggedFor(place, data, who, faults, flags, d), Handles(who, d),
         who.msg.battery \in BOOLEAN,
         NEW place2, NEW data2, NEW faults2,
         Decides(place, data, who, faults, d, place2, data2, faults2)
  PROVE  FlaggedFor(place2, data2, Idle, faults2, flags, d)
<1> DEFINE P == PendingOf(place, data, d)
           P2 == PendingOf(place2, data2, d)
           on == "battery" \in flags
<1>1. who.msg.battery <=> on
  BY DEF FlaggedFor
<1>2. /\ \A b \in P : \/ data[b].cause = "battery" /\ "battery" \in flags
                      \/ data[b].cause = "faulty" /\ "faulty" \in flags /\ d \in Detailed
      /\ "faulty" \notin flags => <<d, "default">> \notin faults /\ <<d, "detail">> \notin faults
      /\ d \notin Detailed => <<d, "detail">> \notin faults
  BY DEF FlaggedFor
<1>3. \A b \in P : b \in P2 /\ data2[b] = data[b]
  BY DEF Decides
<1>4. \A b \in P2 \ P : on /\ data2[b].cause = "battery"
  BY <1>1 DEF Decides
<1>5. on => \/ <<d, "battery">> \in faults2
            \/ \E b \in P2 : data2[b].cause = "battery"
  BY <1>1 DEF Decides
<1>6. ~on => <<d, "battery">> \notin faults2
  BY <1>1 DEF Decides
<1>7. /\ <<d, "default">> \in faults2 <=> <<d, "default">> \in faults
      /\ <<d, "detail">> \in faults2 <=> <<d, "detail">> \in faults
  BY DEF Code, Decides
<1>8. ~Handles(Idle, d)
  BY DEF Handles, Idle
<1> HIDE DEF P, P2
<1>9. \A b \in P2 : \/ data2[b].cause = "battery" /\ "battery" \in flags
                    \/ data2[b].cause = "faulty" /\ "faulty" \in flags /\ d \in Detailed
  BY <1>2, <1>3, <1>4
<1>10. /\ "faulty" \notin flags => <<d, "default">> \notin faults2 /\ <<d, "detail">> \notin faults2
       /\ d \notin Detailed => <<d, "detail">> \notin faults2
  BY <1>2, <1>7
<1> QED
  BY <1>5, <1>6, <1>8, <1>9, <1>10 DEF FlaggedFor, P2

(* The flag of the battery in a fault message.                              *)
LEMMA BatteryKeeps ==
  ASSUME Ordered, BatteryFlag
  PROVE  Ordered'
<1> DEFINE b == main.buffer
           d0 == main.msg.id
           n == Deferred(mem, "faults", d0, "battery")
<1>1. Typed /\ b # Nil /\ main' = Idle
  BY DEF Ordered, BatteryFlag
<1>2. /\ main \in [buffer : Buffer, msg : FaultMessage] /\ main # Broken
      /\ b \in Buffer /\ d0 \in Device /\ main.msg.battery \in BOOLEAN
  <2>1. main \in [buffer : Buffer, msg : FaultMessage]
    BY <1>1, IdleIsNotBroken DEF Typed
  <2> QED
    BY <1>1, <2>1, IdleIsNotBroken DEF FaultMessage
<1>3. UNCHANGED <<queue, rx, left, flagged, mixed, overtaken>>
  BY DEF BatteryFlag
<1>4. PICK place : InOrder(place)
  BY <1>2 DEF Ordered
<1>5. /\ Owned(place, mem.data, queue, main, rx) /\ place[b] = "busy"
      /\ \E r : Placed(mem, place, r)
      /\ mem \in Memory /\ queue \in Seq(Posted) /\ mem.timers \in SUBSET Timeout
      /\ SameNames(queue, queue)
  BY <1>1, <1>2, <1>4 DEF InOrder, Owned, Typed, Memory, SameNames
<1>6. \A d : Handles(main, d) <=> d = d0
  BY <1>1 DEF Handles
<1>7. \A d : ~Handles(Idle, d)
  BY DEF Handles, Idle
<1>8. ASSUME NEW p, NEW p2, NEW m \in Memory, \E r : Placed(m, p, r),
             Owned(p, m.data, queue, main, rx), mem' = Discard(m, b), p2 = At(p, b, "free"),
             reports' \in Seq(Nat), \A t \in m.timers : t.event \in DOMAIN reports',
             ~overtaken => Accounted(p, m.data, m.timers, queue, reports'),
             active' \subseteq Device \X Code, asked' \subseteq Device \X {"variable", "detail"},
             ~overtaken => \A d \in Device \ mixed :
                             FlaggedFor(p2, mem'.data, Idle, active', flagged[d], d)
      PROVE  Ordered'
  <2>1. p[b] = "busy"
    BY <1>2, <1>8 DEF Owned
  <2>2. /\ mem' \in Memory /\ mem'.timers = m.timers /\ \E r : Placed(mem', p2, r)
        /\ p2[b] = "free" /\ \A c \in Buffer \ {b} : p2[c] = p[c]
        /\ \A c \in Buffer : Kept(p, m.data, p2, mem'.data, c)
    BY <1>2, <1>8, <2>1, FreedIs
  <2>3. Owned(p2, mem'.data, queue', main', rx')
    <3>1. \A c \in Buffer : p2[c] \in EventList => mem'.data[c].type = "event"
      BY <1>8, <2>2 DEF Kept, Owned
    <3>2. Owned(p2, mem'.data, queue, Idle, rx)
      BY <1>2, <1>8, <2>2, <3>1, OwnedDone
    <3> QED
      BY <1>1, <1>3, <3>2
  <2>4. ASSUME ~overtaken' PROVE Accounted(p2, mem'.data, mem'.timers, queue', reports')
    <3>1. Accounted(p, m.data, m.timers, queue, reports') /\ m.timers \in SUBSET Timeout
      BY <1>3, <1>8, <2>4 DEF Memory
    <3>2. Accounted(p2, mem'.data, m.timers, queue, reports')
      BY <1>5, <2>2, <3>1, AccountedAlike
    <3> QED
      BY <1>3, <2>2, <3>2
  <2>5. InOrder(p2)'
    BY <1>1, <1>3, <1>8, <2>2, <2>3, <2>4 DEF InOrder
  <2>6. Typed'
    BY <1>1, <1>3, <1>8, <2>2 DEF Typed
  <2> QED
    BY <1>1, <2>5, <2>6, IdleIsNotBroken DEF Ordered
<1>9. CASE main.msg.battery /\ d0 \in ReadsVolts
  <2>1. mem' = Discard(n, b) /\ Ask(d0, "variable", {"battery"})
    BY <1>9 DEF BatteryFlag
  <2>2. "faults" \in EventList /\ "battery" \in Cause
    BY DEF EventList, Cause
  <2>3. PICK p : p = PlaceDeferred(mem, place, "faults")
    OBVIOUS
  <2>4. Asks(mem, "faults", place, d0, "battery")
    BY <1>1, <1>2, <1>4, <2>2, DeferringAsks
  <2>5. /\ n \in Memory /\ \E r : Placed(n, p, r)
        /\ Owned(p, n.data, queue, main, rx)
        /\ \A e \in Device :
             e # d0 \/ ~CanAsk(mem) =>
               /\ PendingOf(p, n.data, e) = PendingOf(place, mem.data, e)
               /\ \A c \in PendingOf(place, mem.data, e) : n.data[c] = mem.data[c]
        /\ CanAsk(mem) =>
             \E f \in Buffer : /\ n.data[f].cause = "battery"
                               /\ PendingOf(p, n.data, d0) = PendingOf(place, mem.data, d0) \cup {f}
                               /\ \A c \in PendingOf(place, mem.data, d0) : n.data[c] = mem.data[c]
    BY <2>3, <2>4 DEF Asks
  <2>6. /\ reports' \in Seq(Nat) /\ \A t \in n.timers : t.event \in DOMAIN reports'
        /\ ~overtaken => Accounted(p, n.data, n.timers, queue, reports')
    BY <1>1, <1>2, <1>4, <2>1, <2>2, <2>3, AskedIsAccounted
  <2>7. PICK p2 : p2 = At(p, b, "free")
    OBVIOUS
  <2> HIDE DEF n
  <2>8. p[b] = "busy"
    BY <1>2, <2>5 DEF Owned
  <2>9. \A e : /\ PendingOf(p2, mem'.data, e) = PendingOf(p, n.data, e)
               /\ \A c \in PendingOf(p, n.data, e) : mem'.data[c] = n.data[c]
    BY <1>2, <2>1, <2>5, <2>7, <2>8, FreedIs
  <2>10. /\ active \subseteq active' /\ active' \subseteq active \cup {<<d0, "battery">>}
         /\ ~CanAsk(mem) => <<d0, "battery">> \in active'
         /\ asked' \subseteq asked \cup {<<d0, "variable">>}
    BY <2>1 DEF Ask
  <2>11. active' \subseteq Device \X Code /\ asked' \subseteq Device \X {"variable", "detail"}
    BY <1>1, <1>2, <2>10 DEF Typed, Code
  <2>12. ASSUME ~overtaken, NEW d \in Device \ mixed
         PROVE  FlaggedFor(p2, mem'.data, Idle, active', flagged[d], d)
    <3>1. FlaggedFor(place, mem.data, main, active, flagged[d], d)
      BY <1>4, <2>12 DEF InOrder
    <3>2. CASE d # d0
      <4>1. /\ PendingOf(p2, mem'.data, d) = PendingOf(place, mem.data, d)
            /\ \A c \in PendingOf(place, mem.data, d) : mem'.data[c] = mem.data[c]
        BY <2>5, <2>9, <3>2
      <4>2. \A x \in Code : <<d, x>> \in active' <=> <<d, x>> \in active
        BY <2>10, <3>2
      <4> QED
        BY <1>6, <1>7, <3>1, <3>2, <4>1, <4>2, FlaggedAlike
    <3>3. CASE d = d0
      <4>1. /\ \A c \in PendingOf(place, mem.data, d) :
                 c \in PendingOf(p2, mem'.data, d) /\ mem'.data[c] = mem.data[c]
            /\ \A c \in PendingOf(p2, mem'.data, d) \ PendingOf(place, mem.data, d) :
                 mem'.data[c].cause = "battery"
            /\ \/ <<d, "battery">> \in active'
               \/ \E c \in PendingOf(p2, mem'.data, d) : mem'.data[c].cause = "battery"
        <5>1. CASE CanAsk(mem)
          <6>1. PICK f \in Buffer :
                     /\ n.data[f].cause = "battery"
                     /\ PendingOf(p, n.data, d) = PendingOf(place, mem.data, d) \cup {f}
                     /\ \A c \in PendingOf(place, mem.data, d) : n.data[c] = mem.data[c]
            BY <2>5, <3>3, <5>1
          <6> QED
            BY <2>9, <6>1
        <5>2. CASE ~CanAsk(mem)
          BY <2>5, <2>9, <2>10, <3>3, <5>2
        <5> QED
          BY <5>1, <5>2
      <4>2. Handles(main, d) /\ main.msg.battery
        BY <1>6, <1>9, <3>3
      <4>3. \A x \in Code \ {"battery"} : <<d, x>> \in active' <=> <<d, x>> \in active
        BY <2>10
      <4>4. /\ \A c \in PendingOf(p2, mem'.data, d) \ PendingOf(place, mem.data, d) :
                 main.msg.battery /\ mem'.data[c].cause = "battery"
            /\ main.msg.battery =>
                 \/ <<d, "battery">> \in active'
                 \/ \E c \in PendingOf(p2, mem'.data, d) : mem'.data[c].cause = "battery"
            /\ ~main.msg.battery => <<d, "battery">> \notin active'
        BY <4>1, <4>2
      <4> QED
        <5>1. Decides(place, mem.data, main, active, d, p2, mem'.data, active')
          BY <4>1, <4>3, <4>4 DEF Decides
        <5> QED
          BY <1>2, <3>1, <4>2, <5>1, BatterySettled
    <3> QED
      BY <3>2, <3>3
  <2> HIDE DEF b
  <2> QED
    BY <1>8, <2>1, <2>5, <2>6, <2>7, <2>11, <2>12
<1>10. CASE ~(main.msg.battery /\ d0 \in ReadsVolts)
  <2>1. mem' = Discard(mem, b) /\ Report(d0, "battery", main.msg.battery)
    BY <1>10 DEF BatteryFlag
  <2>2. /\ asked' = asked /\ reports' = reports
        /\ active' = IF main.msg.battery THEN active \cup {<<d0, "battery">>}
                                         ELSE active \ {<<d0, "battery">>}
    BY <2>1 DEF Report
  <2>3. PICK p2 : p2 = At(place, b, "free")
    OBVIOUS
  <2> HIDE DEF b
  <2>4. \A e : /\ PendingOf(p2, mem'.data, e) = PendingOf(place, mem.data, e)
               /\ \A c \in PendingOf(place, mem.data, e) : mem'.data[c] = mem.data[c]
    <3>1. \A e : /\ PendingOf(At(place, b, "free"), Discard(mem, b).data, e)
                       = PendingOf(place, mem.data, e)
                 /\ \A c \in PendingOf(place, mem.data, e) : Discard(mem, b).data[c] = mem.data[c]
      <4>1. mem \in Memory /\ b \in Buffer /\ place[b] = "busy" /\ \E r : Placed(mem, place, r)
        BY <1>2, <1>5
      <4> QED
        BY <4>1, FreedIs
    <3> QED
      BY <2>1, <2>3, <3>1
  <2>5. active' \subseteq Device \X Code /\ asked' \subseteq Device \X {"variable", "detail"}
    BY <1>1, <1>2, <2>2 DEF Typed, Code
  <2>6. ASSUME ~overtaken, NEW d \in Device \ mixed
        PROVE  FlaggedFor(p2, mem'.data, Idle, active', flagged[d], d)
    <3>1. FlaggedFor(place, mem.data, main, active, flagged[d], d)
      BY <1>4, <2>6 DEF InOrder
    <3>2. CASE d # d0
      <4>1. \A x \in Code : <<d, x>> \in active' <=> <<d, x>> \in active
        BY <2>2, <3>2
      <4> QED
        BY <1>6, <1>7, <2>4, <3>1, <3>2, <4>1, FlaggedAlike
    <3>3. CASE d = d0
      <4>1. \A c \in PendingOf(place, mem.data, d) :
              c \in PendingOf(p2, mem'.data, d) /\ mem'.data[c] = mem.data[c]
        BY <2>4
      <4>2. PendingOf(p2, mem'.data, d) \ PendingOf(place, mem.data, d) = {}
        BY <2>4
      <4>3. /\ main.msg.battery => <<d, "battery">> \in active'
            /\ ~main.msg.battery => <<d, "battery">> \notin active'
        BY <2>2, <3>3
      <4>4. \A x \in Code \ {"battery"} : <<d, x>> \in active' <=> <<d, x>> \in active
        BY <2>2
      <4>5. Handles(main, d)
        BY <1>6, <3>3
      <4>6. Decides(place, mem.data, main, active, d, p2, mem'.data, active')
        BY <4>1, <4>2, <4>3, <4>4 DEF Decides
      <4> QED
        BY <1>2, <3>1, <4>5, <4>6, BatterySettled
    <3> QED
      BY <3>2, <3>3
  <2>7. /\ reports' \in Seq(Nat) /\ \A t \in mem.timers : t.event \in DOMAIN reports'
        /\ ~overtaken => Accounted(place, mem.data, mem.timers, queue, reports')
    BY <1>1, <1>4, <2>2 DEF InOrder, Typed
  <2> QED
    BY <1>5, <1>8, <2>1, <2>3, <2>5, <2>6, <2>7
<1> QED
  BY <1>9, <1>10

(* The flags of a fault message.                                           *)
FlagsOf(msg) == {f \in {"faulty", "battery"} : msg[f]}

(* They are among the two that the properties are about.                    *)
LEMMA FlagsAre ==
  ASSUME NEW msg \in FaultMessage
  PROVE  /\ FlagsOf(msg) \in SUBSET {"faulty", "battery"}
         /\ "battery" \in FlagsOf(msg) <=> msg.battery
         /\ "faulty" \in FlagsOf(msg) <=> msg.faulty
<1>1. msg["battery"] = msg.battery /\ msg["faulty"] = msg.faulty
  BY DEF FaultMessage
<1>2. msg["battery"] <=> msg.battery
  BY <1>1
<1>3. msg["faulty"] <=> msg.faulty
  BY <1>1
<1> QED
  BY <1>2, <1>3 DEF FlagsOf

(* A message passes from the queue to the thread.                          *)
LEMMA OwnedTaken ==
  ASSUME NEW place, NEW data, NEW q, NEW r, Owned(place, data, q, Idle, r),
         NEW b \in Buffer, b \in Named(q, Radio),
         NEW q2, Distinct(q2, Radio), Named(q2, Radio) = Named(q, Radio) \ {b},
         NEW who, who.buffer = b
  PROVE  Owned(place, data, q2, who, r)
<1>1. Idle.buffer = Nil /\ Nil \notin Buffer
  BY SizeIs DEF Idle
<1>2. r # b /\ r \notin Named(q, Radio)
  BY DEF Owned
<1>3. \A c \in Buffer : place[c] = "busy" <=> c \in Named(q2, Radio) \cup {who.buffer, r}
  BY <1>1, <1>2 DEF Owned
<1> QED
  BY <1>1, <1>2, <1>3 DEF Owned

(* A fault message about a device with no fault in the list.               *)
LEMMA NewlyFlagged ==
  ASSUME NEW place, NEW data, NEW who, NEW faults, NEW flags, NEW d,
         FlaggedFor(place, data, who, faults, flags, d),
         NEW msg \in FaultMessage, NEW who2, who2.msg = msg, Handles(who2, d),
         NEW place2, NEW data2, NEW faults2,
         \A b \in PendingOf(place2, data2, d) :
           data2[b].cause = "faulty" /\ msg.faulty /\ d \in Detailed,
         ~msg.faulty => <<d, "default">> \notin faults2,
         ~msg.faulty /\ d \in Detailed => <<d, "detail">> \notin faults2,
         <<d, "detail">> \in faults2 => <<d, "detail">> \in faults
  PROVE  FlaggedFor(place2, data2, who2, faults2, FlagsOf(msg), d)
<1> DEFINE flags2 == FlagsOf(msg)
<1>1. /\ "battery" \in flags2 <=> msg.battery
      /\ "faulty" \in flags2 <=> msg.faulty
  BY FlagsAre
<1>2. d \notin Detailed => <<d, "detail">> \notin faults
  BY DEF FlaggedFor
<1> HIDE DEF flags2
<1>3. \A b \in PendingOf(place2, data2, d) :
        data2[b].cause = "faulty" /\ "faulty" \in flags2 /\ d \in Detailed
  BY <1>1
<1>4. "faulty" \notin flags2 => <<d, "default">> \notin faults2 /\ <<d, "detail">> \notin faults2
  BY <1>1, <1>2
<1>5. d \notin Detailed => <<d, "detail">> \notin faults2
  BY <1>2
<1>6. who2.msg.battery <=> "battery" \in flags2
  BY <1>1
<1>7. FlaggedFor(place2, data2, who2, faults2, flags2, d)
  BY <1>3, <1>4, <1>5, <1>6 DEF FlaggedFor
<1> QED
  BY <1>7 DEF flags2

(* A fault message, up to its flag of a fault.                              *)
LEMMA FaultKeeps ==
  ASSUME Ordered, NEW b \in Buffer, FaultReceived(b)
  PROVE  Ordered'
<1> DEFINE msg == mem.data[b]
           d0 == msg.id
           n == Deferred(mem, "faults", d0, "faulty")
<1>1. Typed /\ Arrived(b, "fault")
  BY DEF Ordered, FaultReceived
<1>2. /\ main = Idle /\ main # Broken
      /\ b \in Named(queue, Radio) /\ queue' \in Seq(Posted) /\ SameNames(queue, queue')
      /\ Distinct(queue, Radio) => /\ Distinct(queue', Radio)
                                   /\ Named(queue', Radio) = Named(queue, Radio) \ {b}
  BY <1>1, ArrivedIs
<1>3. msg \in FaultMessage /\ d0 \in Device
  <2>1. msg \in Content /\ msg.type = "fault"
    BY <1>1, ArrivedIs
  <2>2. msg \in FaultMessage
    BY <2>1 DEF Content, Message, FaultMessage
  <2> QED
    BY <2>2 DEF FaultMessage
<1>4. /\ UNCHANGED <<rx, left, overtaken>> /\ main' = [buffer |-> b, msg |-> msg]
      /\ flagged' = [flagged EXCEPT ![d0] = FlagsOf(msg)]
      /\ mixed' = IF Find(mem, "faults", d0) # Nil THEN mixed \cup {d0} ELSE mixed
  BY DEF FaultReceived, FlagsOf
<1>5. PICK place : InOrder(place)
  BY <1>2 DEF Ordered
<1>6. PICK rank : Placed(mem, place, rank)
  BY <1>5 DEF InOrder
<1>7. /\ Owned(place, mem.data, queue, main, rx)
      /\ mem \in Memory /\ queue \in Seq(Posted)
  BY <1>1, <1>5 DEF InOrder, Typed
<1>8. main'.buffer = b /\ main'.msg = msg /\ b # Nil /\ main' # Broken
  BY <1>4, SizeIs, IdleIsNotBroken
<1>9. \A d : (Handles(main', d) <=> d = d0) /\ ~Handles(main, d)
  BY <1>2, <1>8 DEF Handles, Idle
<1>10. d0 \notin mixed' => PendingOf(place, mem.data, d0) = {}
  <2> SUFFICES ASSUME d0 \notin mixed' PROVE PendingOf(place, mem.data, d0) = {}
    OBVIOUS
  <2>1. Find(mem, "faults", d0) = Nil
    BY <1>4
  <2>2. "faults" \in List /\ "faults" \in EventList
    BY DEF List, EventList
  <2>3. \A c \in Buffer : place[c] = "faults" /\ IsEvent(mem, c) => mem.data[c].id # d0
    BY <1>6, <1>7, <2>1, <2>2, FindIs
  <2>4. \A c \in Buffer : place[c] = "faults" => IsEvent(mem, c)
    BY <1>7, <2>2 DEF Owned, IsEvent
  <2> QED
    BY <2>3, <2>4 DEF PendingOf
<1>11. /\ flagged' \in [Device -> SUBSET {"faulty", "battery"}] /\ mixed' \subseteq Device
       /\ flagged'[d0] = FlagsOf(msg)
       /\ \A d \in Device \ {d0} : flagged'[d] = flagged[d]
  BY <1>1, <1>3, <1>4, FlagsAre DEF Typed
<1>12. ASSUME NEW p, mem' \in Memory, \E r : Placed(mem', p, r),
              Owned(p, mem'.data, queue, main, rx),
              reports' \in Seq(Nat), \A t \in mem'.timers : t.event \in DOMAIN reports',
              ~overtaken => Accounted(p, mem'.data, mem'.timers, queue, reports'),
              active' \subseteq Device \X Code, asked' \subseteq Device \X {"variable", "detail"},
              \A e \in Device \ {d0} :
                /\ PendingOf(p, mem'.data, e) = PendingOf(place, mem.data, e)
                /\ \A c \in PendingOf(place, mem.data, e) : mem'.data[c] = mem.data[c],
              \A c \in PendingOf(p, mem'.data, d0) \ PendingOf(place, mem.data, d0) :
                mem'.data[c].cause = "faulty" /\ msg.faulty /\ d0 \in Detailed,
              \A e \in Device \ {d0} : \A x \in Code : <<e, x>> \in active' <=> <<e, x>> \in active,
              ~msg.faulty => <<d0, "default">> \notin active',
              ~msg.faulty /\ d0 \in Detailed => <<d0, "detail">> \notin active',
              <<d0, "detail">> \in active' => <<d0, "detail">> \in active
       PROVE  Ordered'
  <2>1. Owned(p, mem'.data, queue', main', rx')
    <3>1. Owned(p, mem'.data, queue, Idle, rx)
      BY <1>2, <1>12
    <3>2. Distinct(queue', Radio) /\ Named(queue', Radio) = Named(queue, Radio) \ {b}
      BY <1>2, <3>1 DEF Owned
    <3>3. Owned(p, mem'.data, queue', main', rx)
      BY <1>2, <1>8, <3>1, <3>2, OwnedTaken
    <3> QED
      BY <1>4, <3>3
  <2>2. ASSUME ~overtaken' PROVE Accounted(p, mem'.data, mem'.timers, queue', reports')
    <3>1. Accounted(p, mem'.data, mem'.timers, queue, reports')
      BY <1>4, <1>12, <2>2
    <3>2. \A c \in Buffer : Kept(p, mem'.data, p, mem'.data, c)
      BY DEF Kept
    <3>3. mem'.timers \in SUBSET Timeout
      BY <1>12 DEF Memory
    <3> QED
      BY <1>2, <1>7, <3>1, <3>2, <3>3, AccountedAlike
  <2>3. ASSUME ~overtaken', NEW d \in Device \ mixed'
        PROVE  FlaggedFor(p, mem'.data, main', active', flagged'[d], d)
    <3>1. FlaggedFor(place, mem.data, main, active, flagged[d], d)
      BY <1>4, <1>5, <2>3 DEF InOrder
    <3>2. CASE d # d0
      <4>1. FlaggedFor(p, mem'.data, main', active', flagged[d], d)
        BY <1>9, <1>12, <3>1, <3>2, FlaggedAlike
      <4> QED
        BY <1>11, <3>2, <4>1
    <3>3. CASE d = d0
      <4>1. \A c \in PendingOf(p, mem'.data, d) :
              mem'.data[c].cause = "faulty" /\ msg.faulty /\ d \in Detailed
        BY <1>10, <1>12, <2>3, <3>3
      <4>2. Handles(main', d) /\ main'.msg = msg
        BY <1>8, <1>9, <3>3
      <4>3. /\ ~msg.faulty => <<d, "default">> \notin active'
            /\ ~msg.faulty /\ d \in Detailed => <<d, "detail">> \notin active'
            /\ <<d, "detail">> \in active' => <<d, "detail">> \in active
        BY <1>12, <3>3
      <4> HIDE DEF msg
      <4>4. FlaggedFor(p, mem'.data, main', active', FlagsOf(msg), d)
        BY <1>3, <3>1, <4>1, <4>2, <4>3, NewlyFlagged
      <4> QED
        BY <1>11, <3>3, <4>4
    <3> QED
      BY <3>2, <3>3
  <2>4. InOrder(p)'
    BY <1>12, <2>1, <2>2, <2>3 DEF InOrder
  <2>5. Typed'
    BY <1>1, <1>2, <1>3, <1>4, <1>11, <1>12 DEF Typed
  <2> QED
    BY <1>8, <2>4, <2>5 DEF Ordered
<1>13. ASSUME UNCHANGED <<mem, asked, reports>>
       PROVE  /\ mem' \in Memory /\ \E r : Placed(mem', place, r)
              /\ Owned(place, mem'.data, queue, main, rx)
              /\ reports' \in Seq(Nat) /\ \A t \in mem'.timers : t.event \in DOMAIN reports'
              /\ ~overtaken => Accounted(place, mem'.data, mem'.timers, queue, reports')
              /\ asked' \subseteq Device \X {"variable", "detail"}
              /\ \A e \in Device \ {d0} :
                   /\ PendingOf(place, mem'.data, e) = PendingOf(place, mem.data, e)
                   /\ \A c \in PendingOf(place, mem.data, e) : mem'.data[c] = mem.data[c]
              /\ PendingOf(place, mem'.data, d0) = PendingOf(place, mem.data, d0)
  BY <1>1, <1>5, <1>6, <1>7, <1>13 DEF Typed, InOrder
<1>14. CASE d0 \in Detailed /\ msg.faulty
  <2>1. mem' = n /\ Ask(d0, "detail", {"default"})
    BY <1>14 DEF FaultReceived
  <2>2. "faults" \in EventList /\ "faulty" \in Cause
    BY DEF EventList, Cause
  <2>3. PICK p : p = PlaceDeferred(mem, place, "faults")
    OBVIOUS
  <2>4. Asks(mem, "faults", place, d0, "faulty")
    BY <1>1, <1>3, <1>5, <2>2, DeferringAsks
  <2>5. /\ n \in Memory /\ \E r : Placed(n, p, r)
        /\ Owned(p, n.data, queue, main, rx)
        /\ \A e \in Device :
             e # d0 \/ ~CanAsk(mem) =>
               /\ PendingOf(p, n.data, e) = PendingOf(place, mem.data, e)
               /\ \A c \in PendingOf(place, mem.data, e) : n.data[c] = mem.data[c]
        /\ CanAsk(mem) =>
             \E f \in Buffer : /\ n.data[f].cause = "faulty"
                               /\ PendingOf(p, n.data, d0) = PendingOf(place, mem.data, d0) \cup {f}
    BY <2>3, <2>4 DEF Asks
  <2>6. /\ reports' \in Seq(Nat) /\ \A t \in n.timers : t.event \in DOMAIN reports'
        /\ ~overtaken => Accounted(p, n.data, n.timers, queue, reports')
    BY <1>1, <1>3, <1>5, <2>1, <2>2, <2>3, AskedIsAccounted
  <2> HIDE DEF n
  <2>7. /\ active' \subseteq active \cup {<<d0, "default">>} /\ active \subseteq active'
        /\ asked' \subseteq asked \cup {<<d0, "detail">>}
    BY <2>1 DEF Ask
  <2>8. active' \subseteq Device \X Code /\ asked' \subseteq Device \X {"variable", "detail"}
    BY <1>1, <1>3, <2>7 DEF Typed, Code
  <2>9. \A c \in PendingOf(p, n.data, d0) \ PendingOf(place, mem.data, d0) :
          n.data[c].cause = "faulty"
    BY <1>3, <2>5
  <2>10. /\ \A e \in Device \ {d0} : \A x \in Code : <<e, x>> \in active' <=> <<e, x>> \in active
         /\ <<d0, "detail">> \in active' => <<d0, "detail">> \in active
    BY <2>7
  <2> HIDE DEF d0, msg
  <2> QED
    BY <1>12, <1>14, <2>1, <2>5, <2>6, <2>8, <2>9, <2>10
<1>15. CASE d0 \in Detailed /\ ~msg.faulty
  <2>1. active' = active \ ({d0} \X {"default", "detail"}) /\ UNCHANGED <<mem, asked, reports>>
    BY <1>15 DEF FaultReceived
  <2>2. active' \subseteq Device \X Code
    BY <1>1, <2>1 DEF Typed
  <2>3. /\ \A e \in Device \ {d0} : \A x \in Code : <<e, x>> \in active' <=> <<e, x>> \in active
        /\ <<d0, "detail">> \notin active' /\ <<d0, "default">> \notin active'
    BY <2>1
  <2> HIDE DEF d0, msg
  <2> QED
    BY <1>12, <1>13, <2>1, <2>2, <2>3
<1>16. CASE d0 \notin Detailed
  <2>1. Report(d0, "default", msg.faulty) /\ UNCHANGED mem
    BY <1>16 DEF FaultReceived
  <2>2. /\ active' = IF msg.faulty THEN active \cup {<<d0, "default">>}
                                   ELSE active \ {<<d0, "default">>}
        /\ UNCHANGED <<mem, asked, reports>>
    BY <2>1 DEF Report
  <2>3. active' \subseteq Device \X Code
    BY <1>1, <1>3, <2>2 DEF Typed, Code
  <2>4. /\ \A e \in Device \ {d0} : \A x \in Code : <<e, x>> \in active' <=> <<e, x>> \in active
        /\ ~msg.faulty => <<d0, "default">> \notin active'
        /\ <<d0, "detail">> \in active' => <<d0, "detail">> \in active
    BY <2>2
  <2> HIDE DEF d0, msg
  <2> QED
    BY <1>12, <1>13, <1>16, <2>2, <2>3, <2>4
<1> QED
  <2>1. msg.faulty \in BOOLEAN
    BY <1>3 DEF FaultMessage
  <2> QED
    BY <1>14, <1>15, <1>16, <2>1
----------------------------------------------------------------------------
(* Answers and timeouts.                                                   *)

(* The event in buffer e leaves its list.                                  *)
Leaves(m, n, place, p, e) ==
  /\ p[e] = "free" /\ \A c \in Buffer \ {e} : p[c] = place[c]
  /\ \A c \in Buffer \ {e} : Kept(place, m.data, p, n.data, c)
  /\ \A d : /\ PendingOf(p, n.data, d) = PendingOf(place, m.data, d) \ {e}
            /\ \A c \in PendingOf(p, n.data, d) : n.data[c] = m.data[c]

(* Taken out of the list, it leaves the others as they were.                *)
LEMMA LeavingIs ==
  ASSUME NEW m \in Memory, NEW place \in [Buffer -> Place], NEW q, NEW who, NEW r,
         Owned(place, m.data, q, who, r), NEW e \in Buffer, place[e] \in EventList,
         NEW n, TakenOut(m, n, place, e)
  PROVE  LET p == At(place, e, "free")
         IN  Leaves(m, n, place, p, e) /\ Owned(p, n.data, q, who, r)
<1> DEFINE p == At(place, e, "free")
<1>1. p[e] = "free" /\ \A c \in Buffer \ {e} : p[c] = place[c]
  BY DEF At
<1> HIDE DEF p
<1>2. "free" \notin EventList /\ "busy" \notin EventList
  BY DEF EventList
<1>3. \A c \in Buffer \ {e} : n.data[c] = m.data[c]
  BY DEF TakenOut
<1>4. \A c \in Buffer \ {e} : Kept(place, m.data, p, n.data, c)
  BY <1>1, <1>3 DEF Kept
<1>5. \A c \in Buffer : p[c] = "busy" <=> place[c] = "busy"
  BY <1>1, <1>2
<1>6. \A c \in Buffer : p[c] \in EventList => n.data[c].type = "event"
  BY <1>1, <1>2, <1>3 DEF Owned
<1>7. Owned(p, n.data, q, who, r)
  BY <1>5, <1>6 DEF Owned
<1>8. ASSUME NEW d
      PROVE  /\ PendingOf(p, n.data, d) = PendingOf(place, m.data, d) \ {e}
             /\ \A c \in PendingOf(p, n.data, d) : n.data[c] = m.data[c]
  <2>1. \A c \in Buffer \ {e} : c \in PendingOf(p, n.data, d) <=> c \in PendingOf(place, m.data, d)
    BY <1>1, <1>3 DEF PendingOf
  <2>2. e \notin PendingOf(p, n.data, d)
    BY <1>1 DEF PendingOf
  <2>3. PendingOf(p, n.data, d) \subseteq Buffer /\ PendingOf(place, m.data, d) \subseteq Buffer
    BY DEF PendingOf
  <2>4. PendingOf(p, n.data, d) = PendingOf(place, m.data, d) \ {e}
    BY <2>1, <2>2, <2>3
  <2> QED
    BY <1>3, <2>2, <2>3, <2>4
<1> QED
  BY <1>1, <1>4, <1>7, <1>8 DEF p, Leaves

(* One report of an event is added.                                        *)
LEMMA CountedIs ==
  ASSUME reports \in Seq(Nat), NEW e
  PROVE  Counted(e) \in Seq(Nat) /\ DOMAIN Counted(e) = DOMAIN reports
<1>1. DOMAIN reports = 1 .. Len(reports) /\ Len(reports) \in Nat
  BY LenProperties
<1>2. \A i \in 1 .. Len(reports) : reports[i] \in Nat
  BY ElementOfSeq
<1>3. Counted(e) \in [1 .. Len(reports) -> Nat]
  BY <1>1, <1>2 DEF Counted
<1>4. \A s \in [1 .. Len(reports) -> Nat] : s \in Seq(Nat)
  BY <1>1, IsASeq
<1> QED
  BY <1>1, <1>3, <1>4 DEF Counted

(* The fault of a device is reported.                                      *)
LEMMA FaultSettled ==
  ASSUME NEW place, NEW data, NEW who, NEW faults, NEW flags, NEW d,
         FlaggedFor(place, data, who, faults, flags, d), ~Handles(who, d),
         NEW e, e \in PendingOf(place, data, d),
         NEW place2, NEW data2, NEW faults2,
         PendingOf(place2, data2, d) = PendingOf(place, data, d) \ {e},
         \A c \in PendingOf(place2, data2, d) : data2[c] = data[c],
         \/ /\ data[e].cause # "faulty" /\ <<d, "battery">> \in faults2
            /\ \A x \in Code \ {"battery"} : <<d, x>> \in faults2 <=> <<d, x>> \in faults
         \/ /\ data[e].cause # "battery"
            /\ \A x \in Code \ {"detail"} : <<d, x>> \in faults2 <=> <<d, x>> \in faults
  PROVE  FlaggedFor(place2, data2, who, faults2, flags, d)
<1> DEFINE P == PendingOf(place, data, d)
           P2 == PendingOf(place2, data2, d)
<1>1. /\ \A b \in P : \/ data[b].cause = "battery" /\ "battery" \in flags
                      \/ data[b].cause = "faulty" /\ "faulty" \in flags /\ d \in Detailed
      /\ "battery" \in flags => \/ <<d, "battery">> \in faults
                                \/ \E b \in P : data[b].cause = "battery"
      /\ "battery" \notin flags => <<d, "battery">> \notin faults
      /\ "faulty" \notin flags => <<d, "default">> \notin faults /\ <<d, "detail">> \notin faults
      /\ d \notin Detailed => <<d, "detail">> \notin faults
  BY DEF FlaggedFor
<1>2. e \in P /\ P2 = P \ {e} /\ \A c \in P2 : data2[c] = data[c]
  OBVIOUS
<1> HIDE DEF P, P2
<1>3. \A b \in P2 : \/ data2[b].cause = "battery" /\ "battery" \in flags
                    \/ data2[b].cause = "faulty" /\ "faulty" \in flags /\ d \in Detailed
  BY <1>1, <1>2
<1>4. CASE /\ data[e].cause # "faulty" /\ <<d, "battery">> \in faults2
           /\ \A x \in Code \ {"battery"} : <<d, x>> \in faults2 <=> <<d, x>> \in faults
  <2>1. /\ <<d, "default">> \in faults2 <=> <<d, "default">> \in faults
        /\ <<d, "detail">> \in faults2 <=> <<d, "detail">> \in faults
    BY <1>4 DEF Code
  <2>2. "battery" \in flags
    BY <1>1, <1>2, <1>4
  <2>3. /\ "faulty" \notin flags => <<d, "default">> \notin faults2 /\ <<d, "detail">> \notin faults2
        /\ d \notin Detailed => <<d, "detail">> \notin faults2
    BY <1>1, <2>1
  <2> QED
    BY <1>3, <1>4, <2>2, <2>3 DEF FlaggedFor, P2
<1>5. CASE /\ data[e].cause # "battery"
           /\ \A x \in Code \ {"detail"} : <<d, x>> \in faults2 <=> <<d, x>> \in faults
  <2>1. /\ <<d, "default">> \in faults2 <=> <<d, "default">> \in faults
        /\ <<d, "battery">> \in faults2 <=> <<d, "battery">> \in faults
    BY <1>5 DEF Code
  <2>2. "faulty" \in flags /\ d \in Detailed
    BY <1>1, <1>2, <1>5
  <2>3. "battery" \in flags => \/ <<d, "battery">> \in faults2
                               \/ \E b \in P2 : data2[b].cause = "battery"
    BY <1>1, <1>2, <1>5, <2>1
  <2>4. "battery" \notin flags => <<d, "battery">> \notin faults2
    BY <1>1, <2>1
  <2> QED
    BY <1>3, <2>2, <2>3, <2>4 DEF FlaggedFor, P2
<1> QED
  BY <1>4, <1>5


(* An event in buffer e is reported, whatever else the handler does.       *)
Reported(place, p, e) ==
  /\ mem' \in Memory /\ \E r : Placed(mem', p, r)
  /\ Owned(p, mem'.data, queue', main', rx')
  /\ reports' \in Seq(Nat) /\ \A t \in mem'.timers : t.event \in DOMAIN reports'
  /\ ~overtaken' => Accounted(p, mem'.data, mem'.timers, queue', reports')
  /\ \A d : /\ PendingOf(p, mem'.data, d) = PendingOf(place, mem.data, d) \ {e}
            /\ \A c \in PendingOf(p, mem'.data, d) : mem'.data[c] = mem.data[c]

(* The timeouts in the queue, of all events or of one.                     *)
LEMMA NamedWithout ==
  ASSUME NEW q, NEW q2, SameNames(q, q2), NEW e, e \notin Named(q, EventList)
  PROVE  \A types \in {{"faults"}, {"alarms"}, EventList} : Named(q2, types) = Named(q, types) \ {e}
<1>1. /\ Named(q, {"faults"}) \subseteq Named(q, EventList)
      /\ Named(q, {"alarms"}) \subseteq Named(q, EventList)
  BY DEF Named, EventList
<1> QED
  BY <1>1 DEF SameNames

(* An answered event leaves its list and is reported.                       *)
LEMMA AnsweringReports ==
  ASSUME Typed, NEW place, InOrder(place), NEW l \in EventList, NEW e \in Buffer, place[e] = l,
         NEW b, NEW type, Arrived(b, type), Answered(l, e, b), main' = main, rx' = rx
  PROVE  \E p : Reported(place, p, e)
<1> DEFINE n == DeletePending(mem, l, e, TRUE)
           e0 == mem.data[e].event
<1>1. /\ main = Idle /\ b \in Buffer /\ b \in Named(queue, Radio)
      /\ queue' \in Seq(Posted) /\ mem \in Memory
      /\ Distinct(queue, Radio) => /\ Distinct(queue', Radio)
                                   /\ Named(queue', Radio) = Named(queue, Radio) \ {b}
  BY ArrivedIs
<1>2. SameNames(queue, queue')
  BY ArrivedIs
<1>3. /\ mem' = Discard(n, b) /\ reports' = Counted(e0)
      /\ overtaken' = (overtaken \/ Late(e))
  BY DEF Answered
<1>4. PICK rank : Placed(mem, place, rank)
  BY DEF InOrder
<1>5. /\ place \in [Buffer -> Place] /\ place[e] \in EventList
      /\ Owned(place, mem.data, queue, main, rx)
  BY <1>4 DEF Placed, InOrder
<1>6. /\ mem \in Memory /\ reports \in Seq(Nat) /\ queue \in Seq(Posted)
      /\ mem.timers \in SUBSET Timeout
      /\ \A t \in mem.timers : t.event \in DOMAIN reports
  BY DEF Typed, Memory
<1>7. PICK p1 : p1 = At(place, e, "free")
  OBVIOUS
<1>8. PICK p : p = At(p1, b, "free")
  OBVIOUS
<1>9. TakenOut(mem, n, place, e) /\ n.timers = TimersBut(mem.timers, mem.data, e)
  <2>1. mem \in Memory
    BY <1>6
  <2> QED
    BY <1>4, <2>1, DeleteAnsweredIs
<1> HIDE DEF n, e0
<1>10. Leaves(mem, n, place, p1, e) /\ Owned(p1, n.data, queue, main, rx)
  <2>1. mem \in Memory
    BY <1>6
  <2>2. /\ Leaves(mem, n, place, At(place, e, "free"), e)
        /\ Owned(At(place, e, "free"), n.data, queue, main, rx)
    BY <1>5, <1>9, <2>1, LeavingIs
  <2> QED
    BY <1>7, <2>2
<1>11. p1[b] = "busy" /\ n \in Memory /\ \E r : Placed(n, p1, r)
  BY <1>1, <1>7, <1>9, <1>10 DEF Owned, TakenOut
<1>12. /\ mem' \in Memory /\ mem'.timers = n.timers /\ \E r : Placed(mem', p, r)
       /\ p[b] = "free" /\ \A c \in Buffer \ {b} : p[c] = p1[c]
       /\ \A c \in Buffer : Kept(p1, n.data, p, mem'.data, c)
       /\ \A d : /\ PendingOf(p, mem'.data, d) = PendingOf(p1, n.data, d)
                 /\ \A c \in PendingOf(p1, n.data, d) : mem'.data[c] = n.data[c]
  <2>1. b \in Buffer
    BY <1>1
  <2> QED
    BY <1>3, <1>8, <1>11, <2>1, FreedIs
<1>13. Owned(p, mem'.data, queue', main', rx')
  <2>1. Owned(p1, n.data, queue, Idle, rx)
    BY <1>1, <1>10
  <2>2. Distinct(queue', Radio) /\ Named(queue', Radio) = Named(queue, Radio) \ {b}
    BY <1>1, <2>1 DEF Owned
  <2>3. \A c \in Buffer : p[c] \in EventList => mem'.data[c].type = "event"
    BY <1>12, <2>1 DEF Kept, Owned
  <2>4. Owned(p, mem'.data, queue', Idle, rx)
    BY <1>1, <1>12, <2>1, <2>2, <2>3, OwnedReceived
  <2> QED
    BY <1>1, <2>4
<1>14. reports' \in Seq(Nat) /\ \A t \in mem'.timers : t.event \in DOMAIN reports'
  <2>1. reports' \in Seq(Nat) /\ DOMAIN reports' = DOMAIN reports
    BY <1>3, <1>6, CountedIs
  <2> QED
    BY <1>6, <1>9, <1>12, <2>1 DEF TimersBut
<1>15. ASSUME ~overtaken' PROVE Accounted(p, mem'.data, mem'.timers, queue', reports')
  <2>1. ~overtaken /\ TimedOut(e) = {}
    BY <1>3, <1>15 DEF Late
  <2>2. Accounted(place, mem.data, mem.timers, queue, reports)
    BY <2>1 DEF InOrder
  <2>3. e \notin Named(queue, EventList)
    BY <2>1 DEF Named, TimedOut, EventList
  <2>4. \A types \in {{"faults"}, {"alarms"}, EventList} :
          Named(queue', types) = Named(queue, types) \ {e}
    BY <1>2, <2>3, NamedWithout
  <2>5. Distinct(queue', EventList)
    BY <1>2, <2>2 DEF Accounted, SameNames
  <2>6. Closes(place, mem.data, queue, p1, n.data, queue', e)
    <3>1. place[e] \in EventList /\ p1[e] \notin EventList
      BY <1>10 DEF EventList, Leaves
    <3> QED
      BY <1>10, <2>4, <2>5, <3>1 DEF Closes, Leaves
  <2>7. Counted(e0) = CountedIn(reports, mem.data[e].event)
    BY DEF Counted, CountedIn, e0
  <2>8. Accounted(p1, n.data, TimersBut(mem.timers, mem.data, e), queue',
                  CountedIn(reports, mem.data[e].event))
    BY <1>6, <2>2, <2>6, AccountedClosed
  <2>9. SameNames(queue', queue') /\ n.timers \in SUBSET Timeout
    BY <1>11 DEF SameNames, Memory
  <2>10. Accounted(p1, n.data, n.timers, queue', reports')
    BY <1>3, <1>9, <2>7, <2>8
  <2>11. Accounted(p, mem'.data, n.timers, queue', reports')
    BY <1>1, <1>12, <2>9, <2>10, AccountedAlike
  <2> QED
    BY <1>12, <2>11
<1>16. \A d : /\ PendingOf(p, mem'.data, d) = PendingOf(place, mem.data, d) \ {e}
              /\ \A c \in PendingOf(p, mem'.data, d) : mem'.data[c] = mem.data[c]
  BY <1>10, <1>12 DEF Leaves
<1> QED
  BY <1>12, <1>13, <1>14, <1>15, <1>16 DEF Reported

(* A timeout of an event that is in its list.                              *)
LEMMA TimingOutReports ==
  ASSUME Typed, NEW place, InOrder(place), NEW l \in EventList, NEW e \in Buffer, place[e] = l,
         main = Idle, main' = main, rx' = rx, overtaken' = overtaken, queue # <<>>,
         Head(queue) = [type |-> l, buffer |-> e], queue' = Tail(queue),
         mem' = DeletePending(mem, l, e, FALSE), reports' = Counted(mem.data[e].event)
  PROVE  \E p : Reported(place, p, e)
<1> DEFINE n == DeletePending(mem, l, e, FALSE)
<1>1. PICK rank : Placed(mem, place, rank)
  BY DEF InOrder
<1>2. /\ place \in [Buffer -> Place] /\ place[e] \in EventList
      /\ Owned(place, mem.data, queue, main, rx)
  BY <1>1 DEF Placed, InOrder
<1>3. /\ mem \in Memory /\ reports \in Seq(Nat) /\ queue \in Seq(Posted)
      /\ mem.timers \in SUBSET Timeout
      /\ \A t \in mem.timers : t.event \in DOMAIN reports
  BY DEF Typed, Memory
<1>4. PICK p : p = At(place, e, "free")
  OBVIOUS
<1>5. TakenOut(mem, n, place, e) /\ n.timers = mem.timers
  <2>1. mem \in Memory
    BY <1>3
  <2> QED
    BY <1>1, <2>1, DeleteTimedOutIs
<1>6. mem' = n
  OBVIOUS
<1> HIDE DEF n
<1>7. Leaves(mem, n, place, p, e) /\ Owned(p, n.data, queue, main, rx)
  <2>1. mem \in Memory
    BY <1>3
  <2>2. /\ Leaves(mem, n, place, At(place, e, "free"), e)
        /\ Owned(At(place, e, "free"), n.data, queue, main, rx)
    BY <1>2, <1>5, <2>1, LeavingIs
  <2> QED
    BY <1>4, <2>2
<1>8. Head(queue).type = l /\ Head(queue).buffer = e /\ l \notin Radio
  BY DEF EventList, Radio
<1>9. /\ queue' \in Seq(Posted) /\ Named(queue', Radio) = Named(queue, Radio)
      /\ Distinct(queue, Radio) => Distinct(queue', Radio)
  BY <1>3, <1>8, ReceivedIs
<1>10. Owned(p, mem'.data, queue', main', rx')
  BY <1>6, <1>7, <1>9 DEF Owned
<1>11. reports' \in Seq(Nat) /\ \A t \in mem'.timers : t.event \in DOMAIN reports'
  <2>1. reports' \in Seq(Nat) /\ DOMAIN reports' = DOMAIN reports
    BY <1>3, CountedIs
  <2> QED
    BY <1>3, <1>5, <1>6, <2>1
<1>12. ASSUME ~overtaken' PROVE Accounted(p, mem'.data, mem'.timers, queue', reports')
  <2>1. Accounted(place, mem.data, mem.timers, queue, reports)
    BY <1>12 DEF InOrder
  <2>2. Distinct(queue, EventList)
    BY <2>1 DEF Accounted
  <2>3. /\ Distinct(queue', EventList) /\ e \in Named(queue, EventList)
        /\ Named(queue', EventList) = Named(queue, EventList) \ {e}
    BY <1>3, <1>8, <2>2, ReceivedIs
  <2>4. ASSUME NEW k \in EventList
        PROVE  Named(queue', {k}) = Named(queue, {k}) \ {e}
    <3>1. CASE k = l
      <4>1. Distinct(queue, {k})
        BY <2>2 DEF Distinct
      <4> QED
        BY <1>3, <1>8, <3>1, <4>1, ReceivedIs
    <3>2. CASE k # l
      <4>1. Named(queue', {k}) = Named(queue, {k})
        BY <1>3, <1>8, <3>2, ReceivedIs
      <4>2. e \notin Named(queue, {k})
        BY <2>1, <3>2 DEF Accounted
      <4> QED
        BY <4>1, <4>2
    <3> QED
      BY <3>1, <3>2
  <2>5. \A types \in {{"faults"}, {"alarms"}, EventList} :
          Named(queue', types) = Named(queue, types) \ {e}
    BY <2>3, <2>4 DEF EventList
  <2>6. TimersBut(mem.timers, mem.data, e) = mem.timers
    BY <1>3, <2>1, <2>3, TimedOutHasNoTimer
  <2>7. Closes(place, mem.data, queue, p, n.data, queue', e)
    <3>1. place[e] \in EventList /\ p[e] \notin EventList
      BY <1>7 DEF EventList, Leaves
    <3> QED
      BY <1>7, <2>3, <2>5, <3>1 DEF Closes, Leaves
  <2>8. reports' = CountedIn(reports, mem.data[e].event)
    BY DEF Counted, CountedIn
  <2>9. Accounted(p, n.data, TimersBut(mem.timers, mem.data, e), queue',
                  CountedIn(reports, mem.data[e].event))
    BY <1>3, <2>1, <2>7, AccountedClosed
  <2> QED
    BY <1>5, <1>6, <2>6, <2>8, <2>9
<1>13. mem' \in Memory /\ \E r : Placed(mem', p, r)
  BY <1>4, <1>5, <1>6 DEF TakenOut
<1> QED
  BY <1>6, <1>7, <1>10, <1>11, <1>12, <1>13 DEF Reported, Leaves

(* What the report of the event in buffer e, of list l, says of a fault.   *)
Settles(l, e) ==
  LET d == mem.data[e].id
  IN  /\ \A c \in Device : c # d \/ l # "faults" =>
           \A x \in Code : <<c, x>> \in active' <=> <<c, x>> \in active
      /\ l = "faults" /\ d \notin mixed' =>
           \/ /\ mem.data[e].cause # "faulty" /\ <<d, "battery">> \in active'
              /\ \A x \in Code \ {"battery"} : <<d, x>> \in active' <=> <<d, x>> \in active
           \/ /\ mem.data[e].cause # "battery"
              /\ \A x \in Code \ {"detail"} : <<d, x>> \in active' <=> <<d, x>> \in active

(* A report that settles what its event was about keeps the invariant.      *)
LEMMA ReportedKeeps ==
  ASSUME Typed, NEW place, InOrder(place), NEW l \in EventList, NEW e \in Buffer, place[e] = l,
         \E p : Reported(place, p, e), main = Idle, main' = main, queue' \in Seq(Posted),
         UNCHANGED <<rx, asked, left, flagged>>, overtaken' \in BOOLEAN, overtaken => overtaken',
         active' \subseteq Device \X Code, mixed \subseteq mixed', mixed' \subseteq Device,
         Settles(l, e)
  PROVE  Ordered'
<1>1. PICK p : Reported(place, p, e)
  OBVIOUS
<1>2. ASSUME ~overtaken', NEW d \in Device \ mixed'
      PROVE  FlaggedFor(p, mem'.data, main', active', flagged'[d], d)
  <2>1. FlaggedFor(place, mem.data, main, active, flagged[d], d)
    BY <1>2 DEF InOrder
  <2>2. /\ PendingOf(p, mem'.data, d) = PendingOf(place, mem.data, d) \ {e}
        /\ \A c \in PendingOf(p, mem'.data, d) : mem'.data[c] = mem.data[c]
    BY <1>1 DEF Reported
  <2>3. ~Handles(main, d)
    BY DEF Handles, Idle
  <2>4. CASE d # mem.data[e].id \/ l # "faults"
    <3>1. e \notin PendingOf(place, mem.data, d)
      BY <2>4 DEF PendingOf
    <3>2. /\ PendingOf(p, mem'.data, d) = PendingOf(place, mem.data, d)
          /\ \A c \in PendingOf(place, mem.data, d) : mem'.data[c] = mem.data[c]
      BY <2>2, <3>1
    <3>3. \A x \in Code : <<d, x>> \in active' <=> <<d, x>> \in active
      BY <2>4 DEF Settles
    <3>4. FlaggedFor(p, mem'.data, main, active', flagged[d], d)
      BY <2>1, <3>2, <3>3, FlaggedAlike
    <3> QED
      BY <3>4
  <2>5. CASE d = mem.data[e].id /\ l = "faults"
    <3>1. e \in PendingOf(place, mem.data, d)
      BY <2>5 DEF PendingOf
    <3>2. \/ /\ mem.data[e].cause # "faulty" /\ <<d, "battery">> \in active'
             /\ \A x \in Code \ {"battery"} : <<d, x>> \in active' <=> <<d, x>> \in active
          \/ /\ mem.data[e].cause # "battery"
             /\ \A x \in Code \ {"detail"} : <<d, x>> \in active' <=> <<d, x>> \in active
      BY <1>2, <2>5 DEF Settles
    <3>3. FlaggedFor(p, mem'.data, main, active', flagged[d], d)
      BY <2>1, <2>2, <2>3, <3>1, <3>2, FaultSettled
    <3> QED
      BY <3>3
  <2> QED
    BY <2>4, <2>5
<1>3. InOrder(p)'
  BY <1>1, <1>2 DEF Reported, InOrder
<1>4. Typed'
  BY <1>1 DEF Typed, Reported
<1> QED
  BY <1>3, <1>4, IdleIsNotBroken DEF Ordered

(* An event in a list is one of a device.                                  *)
LEMMA ListedIs ==
  ASSUME Typed, NEW place, InOrder(place), NEW e \in Buffer, place[e] \in EventList
  PROVE  IsEvent(mem, e) /\ mem.data[e].id \in Device
<1>1. mem.data[e] \in Content
  BY DEF Typed, Memory
<1>2. mem.data[e].type = "event"
  BY DEF InOrder, Owned
<1> QED
  BY <1>1, <1>2, ContentIs DEF IsEvent

(* So does the report of an event that has been answered.                   *)
LEMMA AnsweredKeeps ==
  ASSUME Ordered, NEW b, NEW type, Arrived(b, type), NEW l \in EventList,
         NEW d, Find(mem, l, d) # Nil, Answered(l, Find(mem, l, d), b),
         UNCHANGED <<main, rx, asked, left, flagged>>,
         active' \subseteq Device \X Code, mixed \subseteq mixed', mixed' \subseteq Device,
         Settles(l, Find(mem, l, d))
  PROVE  Ordered'
<1> DEFINE e == Find(mem, l, d)
<1>1. Typed
  BY DEF Ordered
<1>2. main = Idle /\ main # Broken /\ queue' \in Seq(Posted)
  BY <1>1, ArrivedIs
<1>3. PICK place : InOrder(place)
  BY <1>2 DEF Ordered
<1>4. PICK rank : Placed(mem, place, rank)
  BY <1>3 DEF InOrder
<1>5. e \in Buffer /\ place[e] = l
  BY <1>1, <1>4, FindIs DEF Typed, EventList, List
<1>6. Answered(l, e, b) /\ Settles(l, e)
  OBVIOUS
<1> HIDE DEF e
<1>7. \E p : Reported(place, p, e)
  BY <1>1, <1>3, <1>5, <1>6, AnsweringReports
<1>8. overtaken' \in BOOLEAN /\ (overtaken => overtaken')
  BY <1>1, <1>6 DEF Answered, Typed
<1> QED
  BY <1>1, <1>2, <1>3, <1>5, <1>6, <1>7, <1>8, ReportedKeeps

(* An answer with a voltage.                                               *)
LEMMA VariableKeeps ==
  ASSUME Ordered, NEW b \in Buffer, VariableReceived(b)
  PROVE  Ordered'
<1> DEFINE d == mem.data[b].id
           fault == Find(mem, "faults", d)
           alarm == Find(mem, "alarms", d)
<1>1. /\ Typed /\ Arrived(b, "variable") /\ UNCHANGED <<main, rx, asked, left, flagged>>
  BY DEF Ordered, VariableReceived
<1>2. PICK place : InOrder(place)
  BY <1>1, ArrivedIs DEF Ordered
<1>3. PICK rank : Placed(mem, place, rank)
  BY <1>2 DEF InOrder
<1>4. d \in Device
  BY <1>1, ArrivedIs, ContentIs
<1>5. "faults" \in EventList /\ "alarms" \in EventList
  BY DEF EventList
<1>6. \/ /\ fault # Nil
         /\ Answered("faults", fault, b)
         /\ active' = active \cup {<<d, "battery">>}
         /\ mixed' = IF mem.data[fault].cause = "battery" THEN mixed ELSE mixed \cup {d}
      \/ /\ alarm # Nil
         /\ Answered("alarms", alarm, b)
         /\ UNCHANGED <<active, mixed>>
      \/ Unasked(b)
  BY DEF VariableReceived
<1>7. \A l \in EventList : Find(mem, l, d) # Nil => mem.data[Find(mem, l, d)].id = d
  BY <1>1, <1>3, FindIs DEF Typed, EventList, List
<1>8. active \subseteq Device \X Code /\ mixed \subseteq Device
  BY <1>1 DEF Typed
<1> HIDE DEF d, fault, alarm
<1>9. CASE /\ fault # Nil
           /\ Answered("faults", fault, b)
           /\ active' = active \cup {<<d, "battery">>}
           /\ mixed' = IF mem.data[fault].cause = "battery" THEN mixed ELSE mixed \cup {d}
  <2>1. active' \subseteq Device \X Code /\ mixed \subseteq mixed' /\ mixed' \subseteq Device
    BY <1>4, <1>8, <1>9 DEF Code
  <2>2. mem.data[fault].id = d
    BY <1>5, <1>7, <1>9 DEF fault
  <2>3. Settles("faults", fault)
    BY <1>9, <2>2 DEF Settles
  <2> QED
    BY <1>1, <1>5, <1>9, <2>1, <2>3, AnsweredKeeps DEF fault
<1>10. CASE /\ alarm # Nil
            /\ Answered("alarms", alarm, b)
            /\ UNCHANGED <<active, mixed>>
  <2>1. active' \subseteq Device \X Code /\ mixed \subseteq mixed' /\ mixed' \subseteq Device
    BY <1>8, <1>10
  <2>2. Settles("alarms", alarm)
    BY <1>10 DEF Settles
  <2> QED
    BY <1>1, <1>5, <1>10, <2>1, <2>2, AnsweredKeeps DEF alarm
<1>11. CASE Unasked(b)
  <2>1. /\ main = Idle /\ queue # <<>> /\ "rx" \in Radio
        /\ Head(queue) = [type |-> "rx", buffer |-> b] /\ queue' = Tail(queue)
    BY <1>1, ArrivedIs
  <2>2. mem' = Discard(mem, b) /\ UNCHANGED <<active, reports, mixed, overtaken>>
    BY <1>11 DEF Unasked
  <2> QED
    BY <1>1, <2>1, <2>2, DiscardKeeps
<1> QED
  BY <1>6, <1>9, <1>10, <1>11

(* An answer with the details of a fault.                                  *)
LEMMA DetailKeeps ==
  ASSUME Ordered, NEW b \in Buffer, DetailReceived(b)
  PROVE  Ordered'
<1> DEFINE d == mem.data[b].id
           fault == Find(mem, "faults", d)
<1>1. /\ Typed /\ Arrived(b, "detail") /\ UNCHANGED <<main, rx, asked, left, flagged>>
  BY DEF Ordered, DetailReceived
<1>2. PICK place : InOrder(place)
  BY <1>1, ArrivedIs DEF Ordered
<1>3. PICK rank : Placed(mem, place, rank)
  BY <1>2 DEF InOrder
<1>4. d \in Device
  BY <1>1, ArrivedIs, ContentIs
<1>5. "faults" \in EventList
  BY DEF EventList
<1>6. \/ /\ fault # Nil
         /\ Answered("faults", fault, b)
         /\ active' = IF mem.data[b].set THEN active \cup {<<d, "detail">>}
                                         ELSE active \ {<<d, "detail">>}
         /\ mixed' = IF mem.data[fault].cause = "faulty" THEN mixed ELSE mixed \cup {d}
      \/ Unasked(b)
  BY DEF DetailReceived
<1>7. fault # Nil => mem.data[fault].id = d
  BY <1>1, <1>3, FindIs DEF Typed, List
<1>8. active \subseteq Device \X Code /\ mixed \subseteq Device
  BY <1>1 DEF Typed
<1> HIDE DEF d, fault
<1>9. CASE /\ fault # Nil
           /\ Answered("faults", fault, b)
           /\ active' = IF mem.data[b].set THEN active \cup {<<d, "detail">>}
                                           ELSE active \ {<<d, "detail">>}
           /\ mixed' = IF mem.data[fault].cause = "faulty" THEN mixed ELSE mixed \cup {d}
  <2>1. active' = active \cup {<<d, "detail">>} \/ active' = active \ {<<d, "detail">>}
    BY <1>9
  <2>2. active' \subseteq Device \X Code /\ mixed \subseteq mixed' /\ mixed' \subseteq Device
    BY <1>4, <1>8, <1>9, <2>1 DEF Code
  <2>3. /\ \A c \in Device : c # d => \A x \in Code : <<c, x>> \in active' <=> <<c, x>> \in active
        /\ \A x \in Code \ {"detail"} : <<d, x>> \in active' <=> <<d, x>> \in active
    BY <2>1
  <2>4. d \notin mixed' => mem.data[fault].cause # "battery"
    BY <1>9
  <2>5. Settles("faults", fault)
    BY <1>7, <1>9, <2>3, <2>4 DEF Settles
  <2> QED
    BY <1>1, <1>5, <1>9, <2>2, <2>5, AnsweredKeeps DEF fault
<1>10. CASE Unasked(b)
  <2>1. /\ main = Idle /\ queue # <<>> /\ "rx" \in Radio
        /\ Head(queue) = [type |-> "rx", buffer |-> b] /\ queue' = Tail(queue)
    BY <1>1, ArrivedIs
  <2>2. mem' = Discard(mem, b) /\ UNCHANGED <<active, reports, mixed, overtaken>>
    BY <1>10 DEF Unasked
  <2> QED
    BY <1>1, <2>1, <2>2, DiscardKeeps
<1> QED
  BY <1>6, <1>9, <1>10

(* A timeout.  The event is in its list, unless an answer overtook it.     *)
LEMMA TimeoutKeeps ==
  ASSUME Ordered, NEW l \in EventList, NEW b \in Buffer, EventTimeout(l, b)
  PROVE  Ordered'
<1> DEFINE event == mem.data[b]
<1>1. /\ Typed /\ main = Idle /\ queue # <<>> /\ Head(queue) = [type |-> l, buffer |-> b]
      /\ queue' = Tail(queue) /\ mem' = DeletePending(mem, l, b, FALSE)
      /\ main' = IF b \in Members(mem, l) THEN Idle ELSE Broken
      /\ UNCHANGED <<rx, asked, left, flagged, overtaken>>
  BY DEF Ordered, EventTimeout
<1>2. PICK place : InOrder(place)
  BY <1>1, IdleIsNotBroken DEF Ordered
<1>3. PICK rank : Placed(mem, place, rank)
  BY <1>2 DEF InOrder
<1>4. /\ mem \in Memory /\ event \in Content /\ queue \in Seq(Posted) /\ l \in List
      /\ active \subseteq Device \X Code /\ mixed \subseteq Device /\ reports \in Seq(Nat)
      /\ overtaken \in BOOLEAN /\ \A t \in mem.timers : t.event \in DOMAIN reports
  BY <1>1 DEF Typed, Memory, EventList, List
<1>5. b \in Members(mem, l) <=> place[b] = l
  BY <1>3, <1>4, MembersAre
<1>6. Head(queue).type = l /\ Head(queue).buffer = b
  BY <1>1
<1>7. queue' \in Seq(Posted)
  BY <1>1, <1>4, ReceivedIs
<1>8. /\ IsEvent(mem, b) =>
           /\ reports' = Counted(event.event)
           /\ active' = IF l = "faults" THEN active \cup {<<event.id, "battery">>} ELSE active
           /\ mixed' = IF event.cause = "faulty" THEN mixed \cup {event.id} ELSE mixed
      /\ ~IsEvent(mem, b) =>
           /\ \E d \in Device :
                active' = IF l = "faults" THEN active \cup {<<d, "battery">>} ELSE active
           /\ UNCHANGED <<reports, mixed>>
  BY DEF EventTimeout
<1>9. IsEvent(mem, b) => event.id \in Device
  BY <1>4, ContentIs DEF IsEvent
<1>10. active' \subseteq Device \X Code /\ mixed \subseteq mixed' /\ mixed' \subseteq Device
  <2>1. CASE IsEvent(mem, b)
    BY <1>4, <1>8, <1>9, <2>1 DEF Code
  <2>2. CASE ~IsEvent(mem, b)
    BY <1>4, <1>8, <2>2 DEF Code
  <2> QED
    BY <2>1, <2>2
<1>11. CASE place[b] = l
  <2>1. IsEvent(mem, b)
    BY <1>1, <1>2, <1>11, ListedIs
  <2>2. main' = main
    BY <1>1, <1>5, <1>11
  <2>3. \E p : Reported(place, p, b)
    BY <1>1, <1>2, <1>8, <1>11, <2>1, <2>2, TimingOutReports
  <2>4. Settles(l, b)
    <3>1. /\ active' = IF l = "faults" THEN active \cup {<<event.id, "battery">>} ELSE active
          /\ mixed' = IF event.cause = "faulty" THEN mixed \cup {event.id} ELSE mixed
      BY <1>8, <2>1
    <3> QED
      BY <3>1 DEF Settles
  <2> QED
    BY <1>1, <1>2, <1>4, <1>7, <1>10, <1>11, <2>2, <2>3, <2>4, ReportedKeeps
<1>12. CASE place[b] # l
  <2>1. overtaken
    <3>1. ~overtaken => Accounted(place, mem.data, mem.timers, queue, reports)
      BY <1>2 DEF InOrder
    <3>2. b \in Named(queue, {l})
      BY <1>1, <1>4, <1>6, ReceivedIs
    <3> QED
      BY <1>4, <1>12, <3>1, <3>2 DEF Accounted
  <2>2. main' = Broken
    BY <1>1, <1>5, <1>12
  <2>3. mem' \in Memory /\ mem'.timers = mem.timers
    BY <1>1, <1>3, <1>4, <1>12, DeletedElsewhereIs
  <2>4. reports' \in Seq(Nat) /\ DOMAIN reports' = DOMAIN reports
    BY <1>4, <1>8, CountedIs
  <2>5. Typed'
    BY <1>1, <1>4, <1>7, <1>10, <2>2, <2>3, <2>4 DEF Typed
  <2> QED
    BY <1>1, <2>1, <2>2, <2>5 DEF Ordered
<1> QED
  BY <1>11, <1>12

(* A message that concerns no event.                                       *)
LEMMA OtherKeeps ==
  ASSUME Ordered, NEW b \in Buffer, OtherReceived(b)
  PROVE  Ordered'
<1>1. /\ Typed /\ Arrived(b, "other") /\ mem' = Discard(mem, b)
      /\ UNCHANGED <<main, rx, active, asked, left, reports, flagged, mixed, overtaken>>
  BY DEF Ordered, OtherReceived
<1>2. /\ main = Idle /\ queue # <<>> /\ "rx" \in Radio
      /\ Head(queue) = [type |-> "rx", buffer |-> b] /\ queue' = Tail(queue)
  BY <1>1, ArrivedIs
<1> QED
  BY <1>1, <1>2, DiscardKeeps

(* A command.                                                              *)
LEMMA CommandKeeps ==
  ASSUME Ordered, NEW b \in Buffer, CommandProcessed(b)
  PROVE  Ordered'
<1>1. /\ main = Idle /\ queue # <<>> /\ queue' = Tail(queue) /\ mem' = Discard(mem, b)
      /\ Head(queue) = [type |-> "command", buffer |-> b] /\ "command" \in Radio
      /\ UNCHANGED <<main, rx, active, asked, left, reports, flagged, mixed, overtaken>>
  BY DEF CommandProcessed, Radio
<1> QED
  BY <1>1, DiscardKeeps
----------------------------------------------------------------------------
(* The radio thread, the commands of the platform and the timers.          *)

(* A step that takes or fills a buffer of no event.                        *)
LEMMA RadioKeeps ==
  ASSUME Typed, main # Broken, NEW place, InOrder(place), NEW b \in Buffer,
         NEW place2, place[b] \notin EventList, place2[b] \notin EventList,
         \A c \in Buffer \ {b} : place2[c] = place[c] /\ mem'.data[c] = mem.data[c],
         mem' \in Memory, mem'.timers = mem.timers, \E r : Placed(mem', place2, r),
         queue' \in Seq(Posted), SameNames(queue, queue'),
         Owned(place2, mem'.data, queue', main', rx'), rx' \in Link,
         asked' \subseteq Device \X {"variable", "detail"}, left' \in 0 .. MaxInputs,
         UNCHANGED <<main, active, reports, flagged, mixed, overtaken>>
  PROVE  Ordered'
<1>1. \A c \in Buffer : Kept(place, mem.data, place2, mem'.data, c)
  BY DEF Kept
<1>2. mem.timers \in SUBSET Timeout /\ queue \in Seq(Posted)
  BY DEF Typed, Memory
<1>3. ASSUME ~overtaken' PROVE Accounted(place2, mem'.data, mem'.timers, queue', reports')
  <2>1. Accounted(place, mem.data, mem.timers, queue, reports)
    BY <1>3 DEF InOrder
  <2>2. Accounted(place2, mem'.data, mem.timers, queue', reports)
    BY <1>1, <1>2, <2>1, AccountedAlike
  <2> QED
    BY <2>2
<1>4. ASSUME ~overtaken', NEW d \in Device \ mixed'
      PROVE  FlaggedFor(place2, mem'.data, main', active', flagged'[d], d)
  <2>1. FlaggedFor(place, mem.data, main, active, flagged[d], d)
    BY <1>4 DEF InOrder
  <2>2. KeptOf(d, place, mem.data, place2, mem'.data, b)
    <3>1. place[b] # "faults" /\ place2[b] # "faults"
      BY DEF EventList
    <3> QED
      BY <1>1, <3>1 DEF KeptOf
  <2>3. /\ PendingOf(place2, mem'.data, d) = PendingOf(place, mem.data, d)
        /\ \A c \in PendingOf(place, mem.data, d) : mem'.data[c] = mem.data[c]
    BY <2>2, PendingOfAlike
  <2>4. FlaggedFor(place2, mem'.data, main, active, flagged[d], d)
    BY <2>1, <2>3, FlaggedAlike
  <2> QED
    BY <2>4
<1>5. InOrder(place2)'
  BY <1>3, <1>4 DEF InOrder
<1>6. Typed'
  BY DEF Typed
<1> QED
  BY <1>5, <1>6 DEF Ordered

(* The owner of a buffer that was free.                                    *)
LEMMA OwnedFresh ==
  ASSUME NEW place \in [Buffer -> Place], NEW data, NEW q, NEW who, NEW r,
         Owned(place, data, q, who, r), NEW b \in Buffer, place[b] = "free",
         NEW data2, \A c \in Buffer \ {b} : data2[c] = data[c],
         NEW q2, NEW r2, Distinct(q2, Radio),
         \/ Named(q2, Radio) = Named(q, Radio) \cup {b} /\ r2 = r
         \/ Named(q2, Radio) = Named(q, Radio) /\ r = Nil /\ r2 = b
  PROVE  Owned(At(place, b, "busy"), data2, q2, who, r2)
<1> DEFINE p == At(place, b, "busy")
<1>1. p[b] = "busy" /\ \A c \in Buffer \ {b} : p[c] = place[c]
  BY DEF At
<1>2. "busy" \notin EventList /\ Nil \notin Buffer
  BY SizeIs DEF EventList
<1>3. b \notin Named(q, Radio) \cup {who.buffer, r}
  BY DEF Owned
<1> HIDE DEF p
<1>4. \A c \in Buffer : p[c] = "busy" <=> c \in Named(q2, Radio) \cup {who.buffer, r2}
  BY <1>1, <1>2 DEF Owned
<1>5. \A c \in Buffer : p[c] \in EventList => data2[c].type = "event"
  BY <1>1, <1>2 DEF Owned
<1>6. who.buffer # Nil => who.buffer # r2 /\ who.buffer \notin Named(q2, Radio)
  BY <1>3 DEF Owned
<1>7. r2 \notin Named(q2, Radio)
  BY <1>3 DEF Owned
<1> QED
  BY <1>4, <1>5, <1>6, <1>7 DEF Owned, p

(* The radio thread takes a free buffer.                                   *)
LEMMA RxGetsKeeps ==
  ASSUME Ordered, RxGetsBuffer
  PROVE  Ordered'
<1> DEFINE b == mem.head.free
<1>1. /\ Typed /\ main # Broken /\ rx = Nil /\ b # Nil /\ rx' = b /\ mem' = Get(mem)
      /\ UNCHANGED <<queue, main, active, asked, left, reports, flagged, mixed, overtaken>>
  BY DEF Ordered, RxGetsBuffer
<1>2. PICK place : InOrder(place)
  BY <1>1 DEF Ordered
<1>3. PICK rank : Placed(mem, place, rank)
  BY <1>2 DEF InOrder
<1>4. /\ mem \in Memory /\ queue \in Seq(Posted)
      /\ asked \subseteq Device \X {"variable", "detail"} /\ left \in 0 .. MaxInputs
  BY <1>1 DEF Typed
<1>5. /\ b \in Buffer /\ place[b] = "free"
      /\ Get(mem) \in Memory /\ Get(mem).data = mem.data /\ Get(mem).timers = mem.timers
      /\ Placed(Get(mem), At(place, b, "busy"), rank)
  BY <1>1, <1>3, <1>4, GetIs
<1> HIDE DEF b
<1>6. PICK place2 : place2 = At(place, b, "busy")
  OBVIOUS
<1>7. place \in [Buffer -> Place]
  BY <1>3 DEF Placed
<1>8. place2[b] = "busy" /\ \A c \in Buffer \ {b} : place2[c] = place[c]
  BY <1>5, <1>6, <1>7 DEF At
<1>9. Owned(place, mem.data, queue, main, rx)
  BY <1>2 DEF InOrder
<1>10. Distinct(queue, Radio)
  BY <1>9 DEF Owned
<1>11. Owned(place2, mem.data, queue, main, b)
  BY <1>1, <1>5, <1>6, <1>7, <1>9, <1>10, OwnedFresh
<1>12. SameNames(queue, queue') /\ Owned(place2, mem'.data, queue', main', rx')
  BY <1>1, <1>5, <1>11 DEF SameNames
<1>13. /\ mem' \in Memory /\ mem'.timers = mem.timers /\ mem'.data = mem.data
       /\ Placed(mem', place2, rank)
  BY <1>1, <1>5, <1>6
<1>14. place[b] \notin EventList /\ place2[b] \notin EventList
  BY <1>5, <1>8 DEF EventList
<1>15. rx' \in Link
  BY <1>1, <1>5 DEF Link
<1> QED
  BY <1>1, <1>2, <1>4, <1>5, <1>8, <1>12, <1>13, <1>14, <1>15, RadioKeeps

(* The handler takes one for a command of the platform.                    *)
LEMMA SubmittedKeeps ==
  ASSUME Ordered, CommandSubmitted
  PROVE  Ordered'
<1> DEFINE b == mem.head.free
           c0 == [type |-> "command"]
           p0 == [type |-> "command", buffer |-> b]
<1>1. /\ Typed /\ main = Idle /\ main # Broken /\ queue = <<>> /\ left > 0 /\ b # Nil
      /\ mem' = Rewritten(Get(mem), b, c0) /\ queue' = <<p0>> /\ left' = left - 1
      /\ UNCHANGED <<main, rx, active, asked, reports, flagged, mixed, overtaken>>
  BY IdleIsNotBroken DEF Ordered, CommandSubmitted, Rewritten
<1>2. PICK place : InOrder(place)
  BY <1>1 DEF Ordered
<1>3. PICK rank : Placed(mem, place, rank)
  BY <1>2 DEF InOrder
<1>4. /\ mem \in Memory /\ queue \in Seq(Posted) /\ rx \in Link
      /\ asked \subseteq Device \X {"variable", "detail"} /\ left' \in 0 .. MaxInputs
  BY <1>1, PendingAssumption DEF Typed
<1>5. /\ b \in Buffer /\ place[b] = "free"
      /\ Get(mem) \in Memory /\ Get(mem).data = mem.data /\ Get(mem).timers = mem.timers
      /\ Placed(Get(mem), At(place, b, "busy"), rank)
  BY <1>1, <1>3, <1>4, GetIs
<1> HIDE DEF b
<1>6. PICK place2 : place2 = At(place, b, "busy")
  OBVIOUS
<1>7. place \in [Buffer -> Place] /\ mem.data \in [Buffer -> Content]
  BY <1>3, <1>4 DEF Placed, Memory
<1>8. place2[b] = "busy" /\ \A c \in Buffer \ {b} : place2[c] = place[c]
  BY <1>5, <1>6, <1>7 DEF At
<1>9. c0 \in Content
  BY DEF Content
<1> HIDE DEF c0
<1>10. /\ mem' \in Memory /\ mem'.timers = mem.timers /\ Placed(mem', place2, rank)
       /\ mem'.data = [mem.data EXCEPT ![b] = c0]
  BY <1>1, <1>5, <1>6, <1>9, RewritingKeepsOrder
<1>11. \A c \in Buffer \ {b} : mem'.data[c] = mem.data[c]
  BY <1>5, <1>7, <1>10
<1>12. Owned(place, mem.data, queue, main, rx)
  BY <1>2 DEF InOrder
<1>13. p0 \in Posted /\ p0.type = "command" /\ p0.buffer = b /\ "command" \in Radio
  BY <1>5 DEF Posted, Radio
<1>14. queue' = <<p0>> \o queue
  BY <1>1
<1> HIDE DEF p0
<1>15. Distinct(queue, Radio) /\ b \notin Named(queue, Radio)
  BY <1>5, <1>12 DEF Owned
<1>16. /\ queue' \in Seq(Posted) /\ SameNames(queue, queue')
       /\ Distinct(queue', Radio) /\ Named(queue', Radio) = Named(queue, Radio) \cup {b}
  BY <1>4, <1>13, <1>14, <1>15, PostedIs, RadioMessagesAlike
<1>17. Owned(place2, mem'.data, queue', main, rx)
  BY <1>5, <1>6, <1>7, <1>11, <1>12, <1>16, OwnedFresh
<1>18. Owned(place2, mem'.data, queue', main', rx') /\ rx' \in Link
       /\ asked' \subseteq Device \X {"variable", "detail"}
  BY <1>1, <1>4, <1>17
<1>19. place[b] \notin EventList /\ place2[b] \notin EventList
  BY <1>5, <1>8 DEF EventList
<1> QED
  BY <1>1, <1>2, <1>4, <1>5, <1>8, <1>10, <1>11, <1>16, <1>18, <1>19, RadioKeeps

(* What the radio thread reads has the form of a message.                  *)
LEMMA ReadIs ==
  ASSUME asked \subseteq Device \X {"variable", "detail"}, NEW msg \in Traffic \cup Answer
  PROVE  msg \in Content /\ msg.type # "event"
<1>1. CASE msg \in Traffic
  <2>1. msg \in Message
    BY <1>1, PendingAssumption
  <2> QED
    BY <2>1 DEF Message, Content
<1>2. CASE msg \in Answer
  <2>1. \A q \in asked : q[1] \in Device
    OBVIOUS
  <2> QED
    BY <1>2, <2>1 DEF Answer, Content
<1> QED
  BY <1>1, <1>2

(* The messages in the queue are about buffers of the pool.                 *)
LEMMA NamedIsIn ==
  ASSUME NEW q \in Seq(Posted), NEW types
  PROVE  Named(q, types) \subseteq Buffer
<1>1. \A i \in DOMAIN q : q[i] \in Posted
  OBVIOUS
<1> QED
  BY <1>1 DEF Named, Posted

(* A message in its buffer is at the front of the queue.                   *)
LEMMA OwnedRead ==
  ASSUME NEW place, NEW data, NEW q \in Seq(Posted), NEW who, NEW r \in Buffer,
         Owned(place, data, q, who, r),
         NEW data2, \A c \in Buffer \ {r} : data2[c] = data[c],
         NEW q2, Distinct(q2, Radio), Named(q2, Radio) = Named(q, Radio) \cup {r}
  PROVE  Owned(place, data2, q2, who, Nil)
<1>1. "busy" \notin EventList /\ Nil \notin Buffer /\ place[r] = "busy"
  BY SizeIs DEF EventList, Owned
<1>2. Nil \notin Named(q2, Radio)
  BY <1>1, NamedIsIn
<1>3. \A b \in Buffer : place[b] = "busy" <=> b \in Named(q2, Radio) \cup {who.buffer, Nil}
  BY <1>1 DEF Owned
<1>4. \A b \in Buffer : place[b] \in EventList => data2[b].type = "event"
  BY <1>1 DEF Owned
<1>5. who.buffer # Nil => who.buffer # r /\ who.buffer \notin Named(q2, Radio)
  BY DEF Owned
<1> QED
  BY <1>2, <1>3, <1>4, <1>5 DEF Owned

(* The radio thread has read a message.                                    *)
LEMMA RxReadsKeeps ==
  ASSUME Ordered, NEW msg \in Traffic \cup Answer, RxReads(msg)
  PROVE  Ordered'
<1> DEFINE p0 == [type |-> "rx", buffer |-> rx]
<1>1. /\ Typed /\ main # Broken /\ rx # Nil /\ left > 0 /\ rx' = Nil /\ left' = left - 1
      /\ mem' = Rewritten(mem, rx, msg) /\ queue' = <<p0>> \o queue
      /\ asked' = IF msg \in Answer THEN asked \ {<<msg.id, msg.type>>} ELSE asked
      /\ UNCHANGED <<main, active, reports, flagged, mixed, overtaken>>
  BY DEF Ordered, RxReads, Rewritten
<1>2. PICK place : InOrder(place)
  BY <1>1 DEF Ordered
<1>3. PICK rank : Placed(mem, place, rank)
  BY <1>2 DEF InOrder
<1>4. /\ mem \in Memory /\ queue \in Seq(Posted) /\ rx \in Buffer /\ left' \in 0 .. MaxInputs
      /\ asked \subseteq Device \X {"variable", "detail"}
  BY <1>1, PendingAssumption DEF Typed, Link
<1>5. asked' \subseteq Device \X {"variable", "detail"}
  BY <1>1, <1>4
<1>6. msg \in Content
  BY <1>4, ReadIs
<1>7. mem.data \in [Buffer -> Content]
  BY <1>4 DEF Memory
<1>8. /\ mem' \in Memory /\ mem'.timers = mem.timers /\ Placed(mem', place, rank)
      /\ mem'.data = [mem.data EXCEPT ![rx] = msg]
  BY <1>1, <1>3, <1>4, <1>6, RewritingKeepsOrder
<1>9. \A c \in Buffer \ {rx} : place[c] = place[c] /\ mem'.data[c] = mem.data[c]
  BY <1>4, <1>7, <1>8
<1>10. Owned(place, mem.data, queue, main, rx)
  BY <1>2 DEF InOrder
<1>11. p0 \in Posted /\ p0.type = "rx" /\ p0.buffer = rx /\ "rx" \in Radio
  BY <1>4 DEF Posted, Radio
<1> HIDE DEF p0
<1>12. Distinct(queue, Radio) /\ rx \notin Named(queue, Radio) /\ place[rx] = "busy"
  BY <1>4, <1>10 DEF Owned
<1>13. /\ queue' \in Seq(Posted) /\ SameNames(queue, queue')
       /\ Distinct(queue', Radio) /\ Named(queue', Radio) = Named(queue, Radio) \cup {rx}
  BY <1>1, <1>4, <1>11, <1>12, PostedIs, RadioMessagesAlike
<1>14. Owned(place, mem'.data, queue', main, Nil)
  BY <1>4, <1>9, <1>10, <1>13, OwnedRead
<1>15. Owned(place, mem'.data, queue', main', rx') /\ rx' \in Link
  BY <1>1, <1>14 DEF Link
<1>16. place[rx] \notin EventList
  BY <1>12 DEF EventList
<1> QED
  BY <1>1, <1>2, <1>4, <1>5, <1>8, <1>9, <1>13, <1>15, <1>16, RadioKeeps

(* A timer has run out: its message is at the front of the queue.          *)
LEMMA TimerKeeps ==
  ASSUME Ordered, Called, NEW t \in fired, TimerCallback(t)
  PROVE  Ordered'
<1> DEFINE p0 == [type |-> t.list, buffer |-> t.buffer]
<1>1. /\ Typed /\ main # Broken /\ mem' = [mem EXCEPT !.timers = @ \ {t}]
      /\ queue' = <<p0>> \o queue
      /\ UNCHANGED <<main, rx, active, asked, left, reports, flagged, mixed, overtaken>>
  BY DEF Ordered, TimerCallback
<1>2. PICK place : InOrder(place)
  BY <1>1 DEF Ordered
<1>3. PICK rank : Placed(mem, place, rank)
  BY <1>2 DEF InOrder
<1>4. /\ mem \in Memory /\ queue \in Seq(Posted) /\ mem.timers \in SUBSET Timeout
      /\ \A s \in mem.timers : s.event \in DOMAIN reports
  BY <1>1 DEF Typed, Memory
<1>5. /\ mem' \in Memory /\ mem'.timers = mem.timers \ {t}
      /\ mem'.data = mem.data /\ mem'.next = mem.next /\ mem'.head = mem.head
  BY <1>1, <1>4 DEF Memory
<1>6. Placed(mem', place, rank)
  BY <1>3, <1>5 DEF Placed
<1>7. t \in Timeout /\ (~overtaken => t \in mem.timers)
  BY <1>1 DEF Called
<1>8. /\ p0 \in Posted /\ p0.type = t.list /\ p0.buffer = t.buffer
      /\ p0.type \notin Radio
  BY <1>7 DEF Timeout, Posted, Radio
<1> HIDE DEF p0
<1>9. Owned(place, mem.data, queue, main, rx)
  BY <1>2 DEF InOrder
<1>10. queue' \in Seq(Posted) /\ Named(queue', Radio) = Named(queue, Radio)
       /\ Distinct(queue', Radio)
  <2>1. Distinct(queue, Radio)
    BY <1>9 DEF Owned
  <2> QED
    BY <1>1, <1>4, <1>8, <2>1, PostedIs
<1>11. Owned(place, mem'.data, queue', main', rx')
  <2>1. Owned(place, mem.data, queue', main, rx)
    BY <1>9, <1>10 DEF Owned
  <2> QED
    BY <1>1, <1>5, <2>1
<1>12. ASSUME ~overtaken' PROVE Accounted(place, mem'.data, mem'.timers, queue', reports')
  <2>1. Accounted(place, mem.data, mem.timers, queue, reports)
    BY <1>1, <1>2, <1>12 DEF InOrder
  <2>2. Accounted(place, mem.data, mem.timers \ {t}, queue', reports)
    BY <1>1, <1>4, <1>7, <1>8, <1>12, <2>1, AccountedFired
  <2> QED
    BY <1>1, <1>5, <2>2
<1>13. ASSUME ~overtaken', NEW d \in Device \ mixed'
       PROVE  FlaggedFor(place, mem'.data, main', active', flagged'[d], d)
  <2>1. FlaggedFor(place, mem.data, main, active, flagged[d], d)
    BY <1>1, <1>2, <1>13 DEF InOrder
  <2> QED
    BY <1>1, <1>5, <2>1
<1>14. InOrder(place)'
  BY <1>6, <1>11, <1>12, <1>13 DEF InOrder
<1>15. Typed'
  BY <1>1, <1>4, <1>5, <1>10 DEF Typed
<1> QED
  BY <1>1, <1>14, <1>15 DEF Ordered

(* A timer that runs out or dies touches no buffer.                        *)
LEMMA ClockKeeps ==
  ASSUME Ordered,
         UNCHANGED <<mem, queue, main, rx, active, asked, left, reports, flagged, mixed, overtaken>>
  PROVE  Ordered'
BY DEF Ordered, Typed, InOrder

(* A step that changes nothing.                                            *)
LEMMA StutteringKeeps ==
  ASSUME Ordered, UNCHANGED vars
  PROVE  Ordered'
BY DEF Ordered, Typed, InOrder, vars
----------------------------------------------------------------------------
(* The timers.                                                             *)

(* A callback that waits keeps its timer.                                  *)
LEMMA CalledStays ==
  ASSUME Called, main # Broken, UNCHANGED <<dead, fired>>, overtaken => overtaken',
         ~overtaken' => \A t \in fired : t \in mem.timers => t \in mem'.timers
  PROVE  Called'
BY DEF Called

(* Taking and giving back buffers cancels no timer.                        *)
LEMMA FreeingCancelsNothing ==
  \A m : /\ \A b : Discard(m, b).timers = m.timers
         /\ Get(m).timers = m.timers
BY DEF Discard, Release, Get

(* Nor does deferring an event.                                            *)
LEMMA DeferringCancelsNothing ==
  ASSUME Ordered, main # Broken, NEW l \in EventList, NEW d \in Device, NEW cause \in Cause
  PROVE  mem.timers \subseteq Deferred(mem, l, d, cause).timers
<1>1. PICK place : InOrder(place)
  BY DEF Ordered
<1>2. PICK rank : Placed(mem, place, rank)
  BY <1>1 DEF InOrder
<1>3. mem \in Memory /\ reports \in Seq(Nat) /\ \A t \in mem.timers : t.event \in DOMAIN reports
  BY DEF Ordered, Typed
<1> QED
  BY <1>2, <1>3, DeferredIs

(* An answer cancels the timer of its event, whose callback does not wait: *)
(* the answer would have overtaken it.                                     *)
LEMMA AnsweringCancelsItsOwn ==
  ASSUME Ordered, main # Broken, NEW l \in EventList, NEW d, Find(mem, l, d) # Nil,
         NEW b, Answered(l, Find(mem, l, d), b), ~overtaken',
         NEW t \in fired, t \in mem.timers
  PROVE  t \in mem'.timers
<1> DEFINE e == Find(mem, l, d)
           n == DeletePending(mem, l, e, TRUE)
<1>1. PICK place : InOrder(place)
  BY DEF Ordered
<1>2. PICK rank : Placed(mem, place, rank)
  BY <1>1 DEF InOrder
<1>3. mem \in Memory
  BY DEF Ordered, Typed
<1>4. mem' = Discard(n, b) /\ ~overtaken /\ t.buffer # e
  BY DEF Answered, Late
<1>5. e \in Buffer /\ place[e] = l
  BY <1>2, <1>3, FindIs DEF EventList, List
<1>6. mem'.timers = n.timers
  BY <1>4, FreeingCancelsNothing
<1> HIDE DEF e
<1>7. n.timers = TimersBut(mem.timers, mem.data, e)
  BY <1>2, <1>3, <1>5, DeleteAnsweredIs
<1> HIDE DEF n
<1>8. Accounted(place, mem.data, mem.timers, queue, reports)
  BY <1>1, <1>4 DEF InOrder
<1>9. t.buffer \in Buffer /\ t.list \in EventList
  BY <1>3 DEF Memory, Timeout, EventList
<1>10. t.buffer \in Pending(place) /\ e \in Pending(place) /\ mem.data[t.buffer].event = t.event
  BY <1>5, <1>8, <1>9 DEF Accounted, Pending
<1>11. mem.data[e].event # t.event
  BY <1>4, <1>8, <1>10 DEF Accounted
<1> QED
  BY <1>6, <1>7, <1>11 DEF TimersBut

(* A message of the radio thread that has been handled.                    *)
LEMMA HandlersLeaveCalled ==
  ASSUME Ordered, Called, NEW b \in Buffer,
         \/ FaultReceived(b) \/ AlarmReceived(b) \/ VariableReceived(b) \/ DetailReceived(b)
         \/ OtherReceived(b)
  PROVE  Called'
<1>1. UNCHANGED <<dead, fired>> /\ Typed /\ \E type : Arrived(b, type)
  BY DEF FaultReceived, AlarmReceived, VariableReceived, DetailReceived, OtherReceived, Ordered
<1>2. main # Broken /\ mem.data[b] \in Content
  BY <1>1, ArrivedIs
<1>3. CASE FaultReceived(b)
  <2>1. overtaken' = overtaken /\ Arrived(b, "fault")
    BY <1>3 DEF FaultReceived
  <2>2. mem.data[b].id \in Device
    BY <1>1, <2>1, ArrivedIs, ContentIs
  <2>3. mem' = mem \/ mem' = Deferred(mem, "faults", mem.data[b].id, "faulty")
    BY <1>3 DEF FaultReceived
  <2>4. "faults" \in EventList /\ "faulty" \in Cause
    BY DEF EventList, Cause
  <2>5. mem.timers \subseteq mem'.timers
    BY <1>2, <2>2, <2>3, <2>4, DeferringCancelsNothing
  <2> QED
    BY <1>1, <1>2, <2>1, <2>5, CalledStays
<1>4. CASE AlarmReceived(b)
  <2>1. overtaken' = overtaken /\ Arrived(b, "alarm")
    BY <1>4 DEF AlarmReceived
  <2>2. mem.data[b].id \in Device
    BY <1>1, <2>1, ArrivedIs, ContentIs
  <2>3. \/ mem' = Discard(mem, b)
        \/ mem' = Discard(Deferred(mem, "alarms", mem.data[b].id, "alarm"), b)
    BY <1>4 DEF AlarmReceived
  <2>4. "alarms" \in EventList /\ "alarm" \in Cause
    BY DEF EventList, Cause
  <2>5. mem.timers \subseteq Deferred(mem, "alarms", mem.data[b].id, "alarm").timers
    BY <1>2, <2>2, <2>4, DeferringCancelsNothing
  <2>6. mem.timers \subseteq mem'.timers
    BY <2>3, <2>5, FreeingCancelsNothing
  <2> QED
    BY <1>1, <1>2, <2>1, <2>6, CalledStays
<1>5. ASSUME NEW l \in EventList, NEW d, Find(mem, l, d) # Nil, Answered(l, Find(mem, l, d), b)
      PROVE  Called'
  <2>1. overtaken => overtaken'
    BY <1>5 DEF Answered
  <2>2. ASSUME ~overtaken', NEW t \in fired, t \in mem.timers PROVE t \in mem'.timers
    BY <1>2, <1>5, <2>2, AnsweringCancelsItsOwn
  <2> QED
    BY <1>1, <1>2, <2>1, <2>2, CalledStays
<1>6. CASE mem' = Discard(mem, b) /\ overtaken' = overtaken
  <2>1. mem'.timers = mem.timers
    BY <1>6, FreeingCancelsNothing
  <2> QED
    BY <1>1, <1>2, <1>6, <2>1, CalledStays
<1>7. "faults" \in EventList /\ "alarms" \in EventList
  BY DEF EventList
<1>8. CASE VariableReceived(b)
  <2>1. \/ \E l \in EventList, d \in {mem.data[b].id} :
             Find(mem, l, d) # Nil /\ Answered(l, Find(mem, l, d), b)
        \/ mem' = Discard(mem, b) /\ overtaken' = overtaken
    BY <1>7, <1>8 DEF VariableReceived, Unasked
  <2> QED
    BY <1>5, <1>6, <2>1
<1>9. CASE DetailReceived(b)
  <2>1. \/ \E l \in EventList, d \in {mem.data[b].id} :
             Find(mem, l, d) # Nil /\ Answered(l, Find(mem, l, d), b)
        \/ mem' = Discard(mem, b) /\ overtaken' = overtaken
    BY <1>7, <1>9 DEF DetailReceived, Unasked
  <2> QED
    BY <1>5, <1>6, <2>1
<1>10. CASE OtherReceived(b)
  BY <1>6, <1>10 DEF OtherReceived
<1> QED
  BY <1>3, <1>4, <1>8, <1>9, <1>10

(* The rest of a fault message.                                            *)
LEMMA BatteryLeavesCalled ==
  ASSUME Ordered, Called, BatteryFlag
  PROVE  Called'
<1>1. /\ UNCHANGED <<dead, fired>> /\ overtaken' = overtaken /\ Typed /\ main.buffer # Nil
  BY DEF BatteryFlag, Ordered
<1>2. main # Broken /\ main.msg \in FaultMessage
  BY <1>1, IdleIsNotBroken DEF Typed
<1>3. main.msg.id \in Device /\ "faults" \in EventList /\ "battery" \in Cause
  BY <1>2 DEF FaultMessage, EventList, Cause
<1>4. \/ mem' = Discard(mem, main.buffer)
      \/ mem' = Discard(Deferred(mem, "faults", main.msg.id, "battery"), main.buffer)
  BY DEF BatteryFlag
<1>5. mem.timers \subseteq Deferred(mem, "faults", main.msg.id, "battery").timers
  BY <1>2, <1>3, DeferringCancelsNothing
<1>6. mem.timers \subseteq mem'.timers
  BY <1>4, <1>5, FreeingCancelsNothing
<1> QED
  BY <1>1, <1>2, <1>6, CalledStays

(* A timeout that is handled cancels none.                                 *)
LEMMA TimeoutLeavesCalled ==
  ASSUME Ordered, Called, NEW l \in EventList, NEW b \in Buffer, EventTimeout(l, b)
  PROVE  Called'
<1>1. /\ UNCHANGED <<dead, fired>> /\ overtaken' = overtaken /\ Typed /\ main = Idle
      /\ mem' = DeletePending(mem, l, b, FALSE)
  BY DEF EventTimeout, Ordered
<1>2. main # Broken
  BY <1>1, IdleIsNotBroken
<1>3. PICK place : InOrder(place)
  BY <1>2 DEF Ordered
<1>4. PICK rank : Placed(mem, place, rank)
  BY <1>3 DEF InOrder
<1>5. mem \in Memory
  BY <1>1 DEF Typed
<1>6. mem'.timers = mem.timers
  <2>1. CASE place[b] = l
    BY <1>1, <1>4, <1>5, <2>1, DeleteTimedOutIs
  <2>2. CASE place[b] # l
    BY <1>1, <1>4, <1>5, <2>2, DeletedElsewhereIs
  <2> QED
    BY <2>1, <2>2
<1> QED
  BY <1>1, <1>2, <1>6, CalledStays

(* The commands and the radio thread touch no timer.                       *)
LEMMA OthersLeaveCalled ==
  ASSUME Ordered, Called,
         \/ \E b \in Buffer : CommandProcessed(b)
         \/ CommandSubmitted \/ RxGetsBuffer
         \/ \E msg \in Traffic \cup Answer : RxReads(msg)
  PROVE  Called'
<1>1. UNCHANGED <<dead, fired, overtaken>> /\ main # Broken
  BY IdleIsNotBroken DEF CommandProcessed, CommandSubmitted, RxGetsBuffer, RxReads
<1>2. mem'.timers = mem.timers
  <2>1. mem \in Memory
    BY DEF Ordered, Typed
  <2>2. CASE \E b \in Buffer : CommandProcessed(b)
    BY <2>2, FreeingCancelsNothing DEF CommandProcessed
  <2>3. CASE CommandSubmitted
    BY <2>1, <2>3, FreeingCancelsNothing DEF CommandSubmitted, Get
  <2>4. CASE RxGetsBuffer
    BY <2>4, FreeingCancelsNothing DEF RxGetsBuffer
  <2>5. CASE \E msg \in Traffic \cup Answer : RxReads(msg)
    BY <2>1, <2>5 DEF RxReads, Memory
  <2> QED
    BY <2>2, <2>3, <2>4, <2>5
<1> QED
  BY <1>1, <1>2, CalledStays

(* A callback posts; then none waits.                                      *)
LEMMA PostingLeavesCalled ==
  ASSUME Called, NEW t \in fired, TimerCallback(t)
  PROVE  Called'
BY DEF Called, TimerCallback

(* A timer that has not been cancelled runs out.                           *)
LEMMA FiringLeavesCalled ==
  ASSUME Ordered, Called, NEW t \in mem.timers, TimerFires(t)
  PROVE  Called'
<1>1. t \in Timeout
  BY DEF Ordered, Typed, Memory
<1> QED
  BY <1>1 DEF Called, TimerFires

(* Or it never will, or what its callback was to post is lost.             *)
LEMMA DyingLeavesCalled ==
  ASSUME Ordered, Called, NEW t \in mem.timers \cup fired, TimerDies(t)
  PROVE  Called'
<1>1. t \in Timeout
  BY DEF Ordered, Typed, Memory, Called
<1>2. t.event \in Nat \ {0}
  BY <1>1 DEF Timeout
<1> QED
  BY <1>2 DEF Called, TimerDies
----------------------------------------------------------------------------
(* The pool as it is filled.                                               *)

(* There is an order of the buffers, in which each occurs once.             *)
LEMMA OrderIs ==
  /\ Order \in [1 .. Size -> Buffer]
  /\ \A i, j \in 1 .. Size : Order[i] = Order[j] => i = j
  /\ \A b \in Buffer : \E i \in 1 .. Size : Order[i] = b
<1> DEFINE D == 1 .. Size
<1>1. Size \in Nat /\ IsFiniteSet(Buffer) /\ Cardinality(Buffer) = Size
  BY SizeIs DEF Size
<1>2. ExistsBijection(D, Buffer)
  BY <1>1, FS_CardinalityType
<1>3. PICK f \in Bijection(D, Buffer) : TRUE
  BY <1>2 DEF ExistsBijection
<1>4. f \in [D -> Buffer] /\ \A i, j \in D : f[i] = f[j] => i = j
  BY <1>3, Fun_BijectionProperties
<1>5. \E g \in [D -> Buffer] : \A i, j \in DOMAIN g : g[i] = g[j] => i = j
  <2>1. DOMAIN f = D
    BY <1>4
  <2> QED
    BY <1>4, <2>1
<1>6. Order \in [D -> Buffer] /\ \A i, j \in DOMAIN Order : Order[i] = Order[j] => i = j
  BY <1>5 DEF Order, Size
<1>7. Order \in [D -> Buffer] /\ \A i, j \in D : Order[i] = Order[j] => i = j
  BY <1>6
<1>8. IsFiniteSet(D) /\ Cardinality(D) = Size
  BY <1>1, FS_Interval
<1> HIDE DEF D
<1>9. Order \in Injection(D, Buffer)
  BY <1>7 DEF Injection, IsInjective
<1>10. Order \in Surjection(D, Buffer)
  BY <1>1, <1>8, <1>9, FS_Injection
<1> QED
  BY <1>7, <1>10 DEF Surjection, D

FirstRank == [b \in Buffer |-> CHOOSE n \in DOMAIN Order : Order[n] = b]
AllFree   == [b \in Buffer |-> "free"]

(* Their ranks at first are their places in the order.                      *)
LEMMA FirstRankIs ==
  /\ FirstRank \in [Buffer -> 1 .. Size]
  /\ \A b \in Buffer : Order[FirstRank[b]] = b
  /\ \A i \in 1 .. Size : Order[i] \in Buffer /\ FirstRank[Order[i]] = i
<1>1. /\ DOMAIN Order = 1 .. Size /\ \A i \in 1 .. Size : Order[i] \in Buffer
      /\ \A i, j \in 1 .. Size : Order[i] = Order[j] => i = j
      /\ \A b \in Buffer : \E i \in 1 .. Size : Order[i] = b
  BY OrderIs
<1>2. \A b \in Buffer : FirstRank[b] \in 1 .. Size /\ Order[FirstRank[b]] = b
  BY <1>1 DEF FirstRank
<1>3. FirstRank \in [Buffer -> 1 .. Size]
  BY <1>2 DEF FirstRank
<1> QED
  BY <1>1, <1>2, <1>3

(* The link of a buffer leads to the next one in the order.                *)
LEMMA LinkedIs ==
  /\ Linked \in [Buffer -> Link]
  /\ \A b \in Buffer : Linked[b] = IF FirstRank[b] = Size THEN Nil ELSE Order[FirstRank[b] + 1]
<1>1. \A b \in Buffer : Linked[b] = IF FirstRank[b] = Size THEN Nil ELSE Order[FirstRank[b] + 1]
  BY DEF Linked, FirstRank, Size
<1>2. \A b \in Buffer : Linked[b] \in Link
  <2> TAKE b \in Buffer
  <2>1. FirstRank[b] \in 1 .. Size /\ Size \in Nat
    BY FirstRankIs, SizeIs
  <2>2. FirstRank[b] # Size => Order[FirstRank[b] + 1] \in Buffer
    BY <2>1, FirstRankIs
  <2> QED
    BY <1>1, <2>2 DEF Link
<1> QED
  BY <1>1, <1>2 DEF Linked

(* At first all buffers are free, in that order.                            *)
LEMMA InitPlaced ==
  ASSUME Init
  PROVE  mem \in Memory /\ Placed(mem, AllFree, FirstRank)
<1>0. Size \in Nat \ {0} /\ Nil \notin Buffer
  BY SizeIs
<1>1. /\ mem.next = Linked /\ mem.timers = {}
      /\ mem.head = [free |-> Order[1], faults |-> Nil, alarms |-> Nil]
      /\ mem.data = [b \in Buffer |-> Unused]
      /\ mem = [next |-> mem.next, head |-> mem.head, data |-> mem.data, timers |-> mem.timers]
  BY DEF Init, Unused
<1>2. /\ 1 \in 1 .. Size /\ Order[1] \in Buffer /\ FirstRank[Order[1]] = 1
  BY <1>0, FirstRankIs
<1>3. mem.head.free = Order[1] /\ mem.head.faults = Nil /\ mem.head.alarms = Nil
  BY <1>1
<1>4. mem.head \in [List -> Link]
  <2>1. mem.head = [l \in List |-> mem.head[l]]
    BY <1>1 DEF List
  <2>2. \A l \in List : mem.head[l] \in Link
    BY <1>2, <1>3 DEF List, Link
  <2> QED
    BY <2>1, <2>2
<1>5. mem.data \in [Buffer -> Content]
  BY <1>1, UnusedTyped
<1>6. mem \in Memory
  BY <1>1, <1>4, <1>5, LinkedIs DEF Memory
<1>7. /\ AllFree \in [Buffer -> Place] /\ \A b \in Buffer : AllFree[b] = "free"
      /\ FirstRank \in [Buffer -> Nat] /\ \A b \in Buffer : FirstRank[b] \in 1 .. Size
  BY <1>0, FirstRankIs DEF AllFree, Place, List
<1>8. \A b \in Buffer : mem.next[b] # Nil =>
        mem.next[b] \in Buffer /\ FirstRank[mem.next[b]] = FirstRank[b] + 1
  <2> TAKE b \in Buffer
  <2>1. FirstRank[b] # Size => FirstRank[b] + 1 \in 1 .. Size
    BY <1>0, <1>7
  <2> QED
    BY <1>1, <2>1, FirstRankIs, LinkedIs
<1>9. \A b \in Buffer : FirstRank[b] < Size => mem.next[b] # Nil
  <2> TAKE b \in Buffer
  <2>1. FirstRank[b] < Size => FirstRank[b] # Size /\ FirstRank[b] + 1 \in 1 .. Size
    BY <1>0, <1>7
  <2> QED
    BY <1>0, <1>1, <2>1, FirstRankIs, LinkedIs
<1>10. \A b, c \in Buffer : FirstRank[b] = FirstRank[c] => b = c
  BY FirstRankIs
<1>11. \A l \in List : mem.head[l] # Nil => AllFree[mem.head[l]] = l
  BY <1>2, <1>3, <1>7 DEF List
<1>12. \A b \in Buffer : AllFree[b] \in List =>
         /\ mem.head[AllFree[b]] # Nil /\ FirstRank[mem.head[AllFree[b]]] <= FirstRank[b]
         /\ mem.next[b] # Nil => /\ AllFree[mem.next[b]] = AllFree[b]
                                 /\ FirstRank[b] < FirstRank[mem.next[b]]
  <2> TAKE b \in Buffer
  <2>1. mem.head[AllFree[b]] = Order[1] /\ FirstRank[b] \in 1 .. Size
    BY <1>3, <1>7
  <2>2. mem.next[b] # Nil => mem.next[b] \in Buffer /\ FirstRank[mem.next[b]] = FirstRank[b] + 1
    BY <1>8
  <2> QED
    BY <1>0, <1>2, <1>7, <2>1, <2>2
<1>13. \A b, c \in Buffer : AllFree[b] \in List /\ AllFree[b] = AllFree[c] =>
         /\ FirstRank[b] < FirstRank[c] =>
              mem.next[b] # Nil /\ FirstRank[mem.next[b]] <= FirstRank[c]
         /\ FirstRank[b] = FirstRank[c] => b = c
  <2> TAKE b, c \in Buffer
  <2>1. FirstRank[b] \in 1 .. Size /\ FirstRank[c] \in 1 .. Size
    BY <1>7
  <2>2. FirstRank[b] < FirstRank[c] => FirstRank[b] < Size
    BY <1>0, <2>1
  <2>3. FirstRank[b] < FirstRank[c] =>
          mem.next[b] # Nil /\ FirstRank[mem.next[b]] = FirstRank[b] + 1
    BY <1>8, <1>9, <2>2
  <2> QED
    BY <1>0, <1>10, <2>1, <2>3
<1> QED
  BY <1>6, <1>7, <1>11, <1>12, <1>13 DEF Placed

(* The initial states.                                                      *)
LEMMA InitInv ==
  ASSUME Init
  PROVE  IInv
<1>1. mem \in Memory /\ Placed(mem, AllFree, FirstRank)
  BY InitPlaced
<1>2. /\ mem.timers = {} /\ queue = <<>> /\ main = Idle /\ rx = Nil /\ active = {}
      /\ asked = {} /\ left = MaxInputs /\ reports = <<>>
      /\ flagged = [d \in Device |-> {}] /\ mixed = {} /\ overtaken = FALSE
  BY DEF Init
<1>3. \A b \in Buffer : AllFree[b] = "free"
  BY DEF AllFree
<1>4. \A types : Named(queue, types) = {} /\ Distinct(queue, types)
  BY <1>2 DEF Named, Distinct
<1>5. Typed
  <2>1. queue \in Seq(Posted) /\ reports \in Seq(Nat)
    BY <1>2, EmptySeq
  <2>2. left \in 0 .. MaxInputs
    BY <1>2, PendingAssumption
  <2>3. flagged \in [Device -> SUBSET {"faulty", "battery"}]
    BY <1>2
  <2> QED
    BY <1>1, <1>2, <2>1, <2>2, <2>3 DEF Typed, Link
<1>6. Nil \notin Buffer /\ main.buffer = Nil /\ main # Broken
  BY <1>2, IdleIsNotBroken, SizeIs
<1>7. Owned(AllFree, mem.data, queue, main, rx)
  BY <1>2, <1>3, <1>4, <1>6 DEF Owned, EventList
<1>8. Pending(AllFree) = {} /\ \A data, d : PendingOf(AllFree, data, d) = {}
  BY <1>3 DEF Pending, PendingOf, EventList
<1>9. Accounted(AllFree, mem.data, mem.timers, queue, reports)
  BY <1>2, <1>4, <1>8 DEF Accounted
<1>10. \A d \in Device : FlaggedFor(AllFree, mem.data, main, active, flagged[d], d)
  BY <1>2, <1>6, <1>8 DEF FlaggedFor, Handles
<1>11. InOrder(AllFree)
  BY <1>1, <1>7, <1>9, <1>10 DEF InOrder
<1>12. Called
  BY DEF Called, Init
<1> QED
  BY <1>5, <1>6, <1>11, <1>12 DEF IInv, Ordered
----------------------------------------------------------------------------
(* The invariant holds in every state.                                     *)

(* The steps, each by its lemma.                                            *)
LEMMA NextInv ==
  ASSUME IInv, [Next]_vars
  PROVE  IInv'
<1>0. Ordered /\ Called
  BY DEF IInv
<1>1. CASE Handle
  <2>1. "faults" \in EventList /\ "alarms" \in EventList
    BY DEF EventList
  <2>2. ASSUME NEW b \in Buffer, FaultReceived(b) PROVE IInv'
    BY <1>0, <2>2, FaultKeeps, HandlersLeaveCalled DEF IInv
  <2>3. ASSUME NEW b \in Buffer, AlarmReceived(b) PROVE IInv'
    BY <1>0, <2>3, AlarmKeeps, HandlersLeaveCalled DEF IInv
  <2>4. ASSUME NEW b \in Buffer, VariableReceived(b) PROVE IInv'
    BY <1>0, <2>4, VariableKeeps, HandlersLeaveCalled DEF IInv
  <2>5. ASSUME NEW b \in Buffer, DetailReceived(b) PROVE IInv'
    BY <1>0, <2>5, DetailKeeps, HandlersLeaveCalled DEF IInv
  <2>6. ASSUME NEW b \in Buffer, OtherReceived(b) PROVE IInv'
    BY <1>0, <2>6, OtherKeeps, HandlersLeaveCalled DEF IInv
  <2>7. ASSUME NEW b \in Buffer, CommandProcessed(b) PROVE IInv'
    BY <1>0, <2>7, CommandKeeps, OthersLeaveCalled DEF IInv
  <2>8. ASSUME NEW b \in Buffer, EventTimeout("faults", b) PROVE IInv'
    BY <1>0, <2>1, <2>8, TimeoutKeeps, TimeoutLeavesCalled DEF IInv
  <2>9. ASSUME NEW b \in Buffer, EventTimeout("alarms", b) PROVE IInv'
    BY <1>0, <2>1, <2>9, TimeoutKeeps, TimeoutLeavesCalled DEF IInv
  <2>10. CASE BatteryFlag
    BY <1>0, <2>10, BatteryKeeps, BatteryLeavesCalled DEF IInv
  <2> QED
    BY <1>1, <2>2, <2>3, <2>4, <2>5, <2>6, <2>7, <2>8, <2>9, <2>10 DEF Handle
<1>2. CASE CommandSubmitted
  BY <1>0, <1>2, SubmittedKeeps, OthersLeaveCalled DEF IInv
<1>3. ASSUME NEW t \in fired, TimerCallback(t) PROVE IInv'
  BY <1>0, <1>3, TimerKeeps, PostingLeavesCalled DEF IInv
<1>4. CASE RxGetsBuffer
  BY <1>0, <1>4, RxGetsKeeps, OthersLeaveCalled DEF IInv
<1>5. ASSUME NEW msg \in Traffic \cup Answer, RxReads(msg) PROVE IInv'
  BY <1>0, <1>5, RxReadsKeeps, OthersLeaveCalled DEF IInv
<1>6. CASE UNCHANGED vars
  BY <1>0, <1>6, StutteringKeeps DEF IInv, Called, vars
<1>7. ASSUME NEW t \in mem.timers, TimerFires(t) PROVE IInv'
  BY <1>0, <1>7, ClockKeeps, FiringLeavesCalled DEF IInv, TimerFires
<1>8. ASSUME NEW t \in mem.timers \cup fired, TimerDies(t) PROVE IInv'
  BY <1>0, <1>8, ClockKeeps, DyingLeavesCalled DEF IInv, TimerDies
<1> QED
  BY <1>1, <1>2, <1>3, <1>4, <1>5, <1>6, <1>7, <1>8 DEF Next

(* Until a timeout has been overtaken and its buffer freed twice, every    *)
(* buffer has one place, in which the links, the messages in the queue,    *)
(* the timers and the owners of the buffers agree.                         *)
THEOREM Invariance == Spec => []IInv
<1>1. Init => IInv
  BY InitInv
<1>2. IInv /\ [Next]_vars => IInv'
  BY NextInv
<1> QED
  BY <1>1, <1>2, PTL DEF Spec
----------------------------------------------------------------------------
(* What follows for the properties that the runs check.                    *)

(* The types.                                                               *)
LEMMA TypesFollow ==
  ASSUME IInv
  PROVE  TypeOK
<1>1. Typed
  BY DEF IInv, Ordered
<1>2. /\ mem.next \in [Buffer -> Buffer \cup {Nil}] /\ mem.head \in [List -> Buffer \cup {Nil}]
      /\ mem.data \in [Buffer -> Content] /\ mem.timers \subseteq Timeout
  BY <1>1 DEF Typed, Memory, Link
<1>3. FaultMessage \subseteq Message
  BY DEF FaultMessage, Message
<1>4. main \in [buffer : Buffer, msg : Message] \cup {Idle, Broken}
  BY <1>1, <1>3 DEF Typed
<1> QED
  BY <1>1, <1>2, <1>4 DEF Typed, TypeOK, IInv, Called, Timeout, Posted, Link

(* No buffer has two owners and none is lost: free, one event's, or with   *)
(* the one thread or message that uses it.                                 *)
LEMMA OwnersFollow ==
  ASSUME IInv
  PROVE  PoolIsPartitioned
<1> SUFFICES ASSUME ~overtaken PROVE OwnedOnce
  BY DEF PoolIsPartitioned
<1>1. Typed /\ main # Broken
  BY DEF IInv, Ordered
<1>2. PICK place : InOrder(place)
  BY <1>1 DEF IInv, Ordered
<1>3. PICK rank : Placed(mem, place, rank)
  BY <1>2 DEF InOrder
<1>4. mem \in Memory /\ queue \in Seq(Posted) /\ rx \in Link
  BY <1>1 DEF Typed
<1>5. place \in [Buffer -> Place] /\ Owned(place, mem.data, queue, main, rx)
  BY <1>2, <1>3 DEF Placed, InOrder
<1>6. \A l \in List : ~Endless(mem, l) /\ Members(mem, l) = {b \in Buffer : place[b] = l}
  BY <1>3, <1>4, ListsEnd, MembersAre
<1> DEFINE queued == QueuedIn({"rx", "command"})
           all == UNION {Members(mem, l) : l \in List}
<1>7. queued = Named(queue, Radio) /\ queued \subseteq Buffer
  BY <1>4, NamedIsIn DEF QueuedIn, Named, Radio
<1>8. main.buffer \in Link
  BY <1>1, IdleIsNotBroken DEF Typed, Link
<1>9. Nil \notin Buffer /\ "busy" \notin List
  BY SizeIs DEF List
<1>10. Busy = {b \in Buffer : place[b] = "busy"}
  <2>1. Busy = queued \cup ({main.buffer, rx} \ {Nil})
    BY DEF Busy
  <2> HIDE DEF queued
  <2>2. Busy \subseteq Buffer
    BY <1>4, <1>7, <1>8, <2>1 DEF Link
  <2>3. \A b \in Buffer : b \in Busy <=> place[b] = "busy"
    BY <1>5, <1>7, <1>9, <2>1 DEF Owned
  <2> QED
    BY <2>2, <2>3
<1>11. all = {b \in Buffer : place[b] \in List}
  BY <1>6
<1> HIDE DEF all
<1>12. \A k, l \in List : k # l => Members(mem, k) \cap Members(mem, l) = {}
  BY <1>6
<1>13. Busy \cap all = {} /\ Busy \cup all = Buffer
  BY <1>5, <1>9, <1>10, <1>11 DEF Place
<1>14. main.buffer = Nil \/ (main.buffer # rx /\ main.buffer \notin queued)
  BY <1>5, <1>7 DEF Owned
<1>15. rx \notin queued
  BY <1>5, <1>7 DEF Owned
<1> HIDE DEF queued
<1> QED
  BY <1>6, <1>12, <1>13, <1>14, <1>15 DEF OwnedOnce, all, queued

(* A set with at most one element has none or one.                         *)
LEMMA AtMostOne ==
  ASSUME NEW S, \A x, y \in S : x = y
  PROVE  Cardinality(S) = IF S = {} THEN 0 ELSE 1
<1>1. CASE S = {}
  BY <1>1, FS_EmptySet
<1>2. CASE S # {}
  <2>1. PICK x : x \in S
    BY <1>2
  <2>2. S = {x}
    BY <2>1
  <2> QED
    BY <1>2, <2>2, FS_Singleton
<1> QED
  BY <1>1, <1>2

(* An event in a list has one timeout to come: its timer's, or one that is *)
(* in the queue.                                                           *)
LEMMA OneTimeoutFollows ==
  ASSUME Typed, NEW place, Accounted(place, mem.data, mem.timers, queue, reports), NEW b \in Buffer
  PROVE  Cardinality(Armed(b)) + Cardinality(TimedOut(b)) = IF b \in Pending(place) THEN 1 ELSE 0
<1>1. mem.timers \in SUBSET Timeout /\ queue \in Seq(Posted)
  BY DEF Typed, Memory
<1>2. \A t \in mem.timers : /\ t \in Timeout /\ place[t.buffer] = t.list
                            /\ mem.data[t.buffer].event = t.event
                            /\ t.buffer \notin Named(queue, EventList)
  BY <1>1 DEF Accounted
<1>3. \A t \in Timeout : /\ t = TimeoutOf(t.list, t.buffer, t.event)
                         /\ t.list \in EventList /\ t.buffer \in Buffer
  BY DEF Timeout, TimeoutOf, EventList
<1>4. \A s, t \in Armed(b) : s = t
  <2> TAKE s, t \in Armed(b)
  <2>1. s \in mem.timers /\ t \in mem.timers /\ s.buffer = b /\ t.buffer = b
    BY DEF Armed
  <2>2. s.list = t.list /\ s.event = t.event
    BY <1>2, <2>1
  <2> QED
    BY <1>2, <1>3, <2>1, <2>2
<1>5. Distinct(queue, EventList) /\ Named(queue, EventList) \subseteq Pending(place)
  <2>1. Distinct(queue, EventList)
    BY DEF Accounted
  <2>2. Named(queue, EventList) \subseteq Pending(place)
    BY <1>1, NamedArePending
  <2> QED
    BY <2>1, <2>2
<1>6. \A i, j \in TimedOut(b) : i = j
  BY <1>5 DEF TimedOut, Distinct, EventList
<1>7. TimedOut(b) # {} <=> b \in Named(queue, EventList)
  BY DEF TimedOut, Named, EventList
<1>8. Armed(b) # {} <=> \E t \in mem.timers : t.buffer = b
  BY DEF Armed
<1>9. Armed(b) # {} => b \in Pending(place) /\ TimedOut(b) = {}
  <2> SUFFICES ASSUME NEW t \in mem.timers, t.buffer = b
               PROVE  b \in Pending(place) /\ TimedOut(b) = {}
    BY <1>8
  <2> QED
    BY <1>2, <1>3, <1>7 DEF Pending
<1>10. TimedOut(b) # {} => b \in Pending(place)
  BY <1>5, <1>7
<1>11. b \in Pending(place) => TimedOut(b) # {} \/ Armed(b) # {}
  BY <1>7, <1>8 DEF Accounted
<1>12. Cardinality(Armed(b)) = IF Armed(b) = {} THEN 0 ELSE 1
  BY <1>4, AtMostOne
<1>13. Cardinality(TimedOut(b)) = IF TimedOut(b) = {} THEN 0 ELSE 1
  BY <1>6, AtMostOne
<1> QED
  BY <1>9, <1>10, <1>11, <1>12, <1>13

(* No event is lost, and none is reported twice.                           *)
LEMMA AccountFollows ==
  ASSUME IInv
  PROVE  AccountedFor
<1> DEFINE pending == Members(mem, "faults") \cup Members(mem, "alarms")
           events == {mem.data[b].event : b \in pending}
<1> SUFFICES ASSUME ~overtaken
             PROVE  /\ Cardinality(events) = Cardinality(pending)
                    /\ \A e \in DOMAIN reports : reports[e] = IF e \in events THEN 0 ELSE 1
                    /\ \A b \in Buffer : Cardinality(Armed(b)) + Cardinality(TimedOut(b))
                                           = IF b \in pending THEN 1 ELSE 0
                    /\ \A t \in mem.timers : mem.data[t.buffer].event = t.event
  BY DEF AccountedFor
<1>1. Typed /\ main # Broken
  BY DEF IInv, Ordered
<1>2. PICK place : InOrder(place)
  BY <1>1 DEF IInv, Ordered
<1>3. PICK rank : Placed(mem, place, rank)
  BY <1>2 DEF InOrder
<1>4. Accounted(place, mem.data, mem.timers, queue, reports)
  BY <1>2 DEF InOrder
<1>5. pending = Pending(place)
  <2>1. \A l \in {"faults", "alarms"} : Members(mem, l) = {b \in Buffer : place[b] = l}
    BY <1>1, <1>3, MembersAre DEF Typed, List
  <2> QED
    BY <2>1 DEF Pending, EventList
<1> HIDE DEF pending
<1>6. IsFiniteSet(pending)
  <2>1. pending \subseteq Buffer /\ IsFiniteSet(Buffer)
    BY <1>5, PendingAssumption DEF Pending
  <2> QED
    BY <2>1, FS_Subset
<1>7. \A b, c \in pending : mem.data[b].event = mem.data[c].event => b = c
  BY <1>4, <1>5 DEF Accounted
<1>8. Cardinality(events) = Cardinality(pending)
  <2> DEFINE f == [b \in pending |-> mem.data[b].event]
  <2>1. f \in Injection(pending, events)
    BY <1>7 DEF Injection, IsInjective
  <2>2. f \in Surjection(pending, events)
    BY DEF Surjection
  <2>3. ExistsBijection(pending, events)
    BY <2>1, <2>2 DEF ExistsBijection, Bijection
  <2> HIDE DEF events
  <2> QED
    BY <1>6, <2>3, FS_Bijection
<1>9. \A e : e \in events <=> \E b \in Pending(place) : mem.data[b].event = e
  BY <1>5
<1> HIDE DEF events
<1>10. \A e \in DOMAIN reports : reports[e] = IF e \in events THEN 0 ELSE 1
  BY <1>4, <1>9 DEF Accounted
<1>11. \A b \in Buffer : Cardinality(Armed(b)) + Cardinality(TimedOut(b))
                           = IF b \in pending THEN 1 ELSE 0
  BY <1>1, <1>4, <1>5, OneTimeoutFollows
<1>12. \A t \in mem.timers : mem.data[t.buffer].event = t.event
  BY <1>4 DEF Accounted
<1> QED
  BY <1>8, <1>10, <1>11, <1>12

(* Once all is handled, the faults that are active are those that the last *)
(* message of the device named.                                            *)
LEMMA FlagsFollow ==
  ASSUME IInv
  PROVE  FaultsAsFlagged
<1> SUFFICES ASSUME main = Idle, ~overtaken,
                    NEW d \in Device \ mixed, Find(mem, "faults", d) = Nil
             PROVE  /\ <<d, "battery">> \in active <=> "battery" \in flagged[d]
                    /\ "faulty" \notin flagged[d] => active \cap ({d} \X {"default", "detail"}) = {}
  BY DEF FaultsAsFlagged
<1>1. Typed /\ main # Broken /\ main.buffer = Nil
  BY IdleIsNotBroken DEF IInv, Ordered
<1>2. PICK place : InOrder(place)
  BY <1>1 DEF IInv, Ordered
<1>3. PICK rank : Placed(mem, place, rank)
  BY <1>2 DEF InOrder
<1>4. Owned(place, mem.data, queue, main, rx)
      /\ FlaggedFor(place, mem.data, main, active, flagged[d], d)
  BY <1>2 DEF InOrder
<1>5. \A b \in Buffer : place[b] = "faults" /\ IsEvent(mem, b) => mem.data[b].id # d
  BY <1>1, <1>3, FindIs DEF Typed, List
<1>6. \A b \in Buffer : place[b] = "faults" => IsEvent(mem, b)
  BY <1>4 DEF Owned, EventList, IsEvent
<1>7. PendingOf(place, mem.data, d) = {}
  BY <1>5, <1>6 DEF PendingOf
<1>8. ~Handles(main, d)
  BY <1>1 DEF Handles
<1>9. /\ "battery" \in flagged[d] => <<d, "battery">> \in active
      /\ "battery" \notin flagged[d] => <<d, "battery">> \notin active
      /\ "faulty" \notin flagged[d] => <<d, "default">> \notin active /\ <<d, "detail">> \notin active
  BY <1>4, <1>7, <1>8 DEF FlaggedFor
<1> QED
  BY <1>9

(* Every variable has its type, also once a buffer has been freed twice.   *)
THEOREM TypeCorrectness == Spec => []TypeOK
BY Invariance, TypesFollow, PTL

(* The pool is partitioned, as long as no answer is handled while the      *)
(* timeout of its event is in the queue.                                   *)
THEOREM PoolStaysPartitioned == Spec => []PoolIsPartitioned
BY Invariance, OwnersFollow, PTL

(* Until then every deferred event is in its list with one timeout to      *)
(* come, or has been reported once and left nothing behind.                *)
THEOREM EventsAreAccountedFor == Spec => []AccountedFor
BY Invariance, AccountFollows, PTL

(* And the battery and other faults that are active are those that the     *)
(* device's last fault message named, once everything has been handled.    *)
THEOREM FaultsAreAsFlagged == Spec => []FaultsAsFlagged
BY Invariance, FlagsFollow, PTL
=====
