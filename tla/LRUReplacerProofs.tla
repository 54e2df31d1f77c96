--------------------------- MODULE LRUReplacerProofs ---------------------------
(***************************************************************************)
(* The linked list of the LRU replacer computes the operators of LRUList,  *)
(* for any set of frames: with BufferPoolProofs, which is about those      *)
(* operators, what is proved of the buffer pool holds with the list that   *)
(* the code has.                                                           *)
(***************************************************************************)
EXTENDS LRUReplacer, SequenceTheorems, FiniteSetTheorems, WellFoundedInduction, TLAPS

USE ReplacerAssumption

\* LinkedAs, of any links.
Linked(next, prev, s) ==
  \A i \in 0 .. Len(s) :
    /\ next[NodeAt(s, i)] = NodeAt(s, i + 1)
    /\ prev[NodeAt(s, i + 1)] = NodeAt(s, i)

Links == [Nodes -> Nodes \cup {nullptr}]

\* s is the list: what is between the sentinels, and in the map.
Chain(next, prev, map, s) ==
  /\ s \in Seq(Values)
  /\ NoDuplicates(s)
  /\ Elements(s) = map
  /\ Linked(next, prev, s)

ReplacerInv ==
  /\ ptrNext \in Links /\ ptrPrev \in Links
  /\ \E s \in Seq(Values) : Chain(ptrNext, ptrPrev, mDataMap, s)

-----------------------------------------------------------------------------
(* Lists. *)

\* What is left of a list without its element at k.
LEMMA Shorter ==
  ASSUME NEW s \in Seq(Values), NoDuplicates(s), NEW k \in 1 .. Len(s),
         NEW t \in Seq(Values), Len(t) = Len(s) - 1,
         \A i \in 1 .. Len(t) : t[i] = IF i < k THEN s[i] ELSE s[i + 1]
  PROVE  NoDuplicates(t) /\ Elements(t) = Elements(s) \ {s[k]}
<1>1. Len(s) \in Nat /\ Len(t) \in Nat
  OBVIOUS
<1>2. \A i \in 1 .. Len(t) : \E j \in 1 .. Len(s) :
        t[i] = s[j] /\ j = IF i < k THEN i ELSE i + 1
  BY <1>1
<1>3. NoDuplicates(t)
  BY <1>1, <1>2 DEF NoDuplicates
<1>4. Elements(t) \subseteq Elements(s) \ {s[k]}
  BY <1>1, <1>2 DEF NoDuplicates, Elements
<1>5. ASSUME NEW j \in 1 .. Len(s), j # k
      PROVE  s[j] \in Elements(t)
  <2>1. CASE j < k
    BY <1>1, <2>1 DEF Elements
  <2>2. CASE ~(j < k)
    <3>1. j - 1 \in 1 .. Len(t) /\ t[j - 1] = s[j]
      BY <1>1, <1>5, <2>2
    <3> QED BY <3>1 DEF Elements
  <2> QED BY <2>1, <2>2
<1> QED BY <1>3, <1>4, <1>5 DEF Elements

\* A list with a new element in front.
LEMMA Longer ==
  ASSUME NEW t \in Seq(Values), NoDuplicates(t), NEW v \in Values, v \notin Elements(t),
         NEW u \in Seq(Values), Len(u) = Len(t) + 1, u[1] = v,
         \A i \in 2 .. Len(t) + 1 : u[i] = t[i - 1]
  PROVE  NoDuplicates(u) /\ Elements(u) = Elements(t) \cup {v}
<1>1. Len(t) \in Nat /\ Len(u) \in Nat
  OBVIOUS
<1>2. \A i \in 1 .. Len(u) : i # 1 => i - 1 \in 1 .. Len(t) /\ u[i] = t[i - 1]
  <2>1. ASSUME NEW i \in 1 .. Len(u), i # 1
        PROVE  i \in 2 .. Len(t) + 1 /\ i - 1 \in 1 .. Len(t)
    BY <1>1, <2>1
  <2> QED BY <2>1
<1>3. \A i \in 1 .. Len(t) : i + 1 \in 1 .. Len(u) /\ u[i + 1] = t[i]
  <2>1. ASSUME NEW i \in 1 .. Len(t)
        PROVE  i + 1 \in 2 .. Len(t) + 1 /\ i + 1 - 1 = i
    BY <1>1
  <2> QED BY <1>1, <2>1
<1>4. NoDuplicates(u)
  <2>1. ASSUME NEW i \in 1 .. Len(u), NEW j \in 1 .. Len(u), i # j
        PROVE  u[i] # u[j]
    <3>1. \A k \in 1 .. Len(t) : t[k] # v
      BY DEF Elements
    <3>2. CASE i = 1 \/ j = 1
      BY <1>2, <2>1, <3>1, <3>2
    <3>3. CASE i # 1 /\ j # 1
      <4>1. i - 1 # j - 1
        BY <1>1, <2>1
      <4> QED BY <1>2, <3>3, <4>1 DEF NoDuplicates
    <3> QED BY <3>2, <3>3
  <2> QED BY <2>1 DEF NoDuplicates
<1>5. Elements(u) \subseteq Elements(t) \cup {v}
  <2>1. ASSUME NEW i \in 1 .. Len(u)
        PROVE  u[i] \in Elements(t) \cup {v}
    BY <1>2 DEF Elements
  <2> QED BY <2>1 DEF Elements
<1>6. Elements(t) \cup {v} \subseteq Elements(u)
  <2>1. v \in Elements(u)
    BY <1>1 DEF Elements
  <2>2. \A i \in 1 .. Len(t) : t[i] \in Elements(u)
    BY <1>3, Zenon DEF Elements
  <2> QED BY <2>1, <2>2 DEF Elements
<1> QED BY <1>4, <1>5, <1>6

-----------------------------------------------------------------------------
(* The list is unique. *)

\* No node is at two positions.
LEMMA NodesDiffer ==
  ASSUME NEW s \in Seq(Values), NoDuplicates(s),
         NEW i \in 0 .. Len(s) + 1, NEW j \in 0 .. Len(s) + 1, NodeAt(s, i) = NodeAt(s, j)
  PROVE  i = j
<1>1. Len(s) \in Nat /\ \A k \in 1 .. Len(s) : s[k] \in Values
  OBVIOUS
<1>2. CASE i \in 1 .. Len(s)
  <2>1. NodeAt(s, i) = s[i] /\ s[i] \in Values
    BY <1>1, <1>2 DEF NodeAt
  <2>2. j \in 1 .. Len(s) /\ NodeAt(s, j) = s[j]
    BY <1>1, <2>1 DEF NodeAt
  <2> QED BY <1>2, <2>1, <2>2 DEF NoDuplicates
<1>3. CASE i \notin 1 .. Len(s)
  <2>1. i = 0 \/ i = Len(s) + 1
    BY <1>1, <1>3
  <2>2. NodeAt(s, i) = IF i = 0 THEN mHead ELSE mTail
    BY <1>1, <2>1 DEF NodeAt
  <2>3. j \notin 1 .. Len(s)
    BY <1>1, <2>2 DEF NodeAt
  <2>4. j = 0 \/ j = Len(s) + 1
    BY <1>1, <2>3
  <2> QED BY <1>1, <2>1, <2>2, <2>4 DEF NodeAt
<1> QED BY <1>2, <1>3

\* Every position has a node.
LEMMA NodesAreNodes ==
  ASSUME NEW s \in Seq(Values), NEW i \in 0 .. Len(s) + 1
  PROVE  NodeAt(s, i) \in Nodes
<1>1. Len(s) \in Nat /\ \A k \in 1 .. Len(s) : s[k] \in Values
  OBVIOUS
<1> QED BY <1>1 DEF NodeAt, Nodes

\* A set of positions that is not empty has a first one.
LEMMA FirstPosition ==
  ASSUME NEW T \in SUBSET Nat, NEW k \in T
  PROVE  \E m \in T : \A j \in T : m <= j
<1> DEFINE R == {pair \in Nat \X Nat : pair[1] < pair[2]}
<1>1. \A x, y \in Nat : <<x, y>> \in R <=> x < y
  OBVIOUS
<1>2. IsWellFoundedOn(R, Nat)
  BY NatLessThanWellFounded, Zenon DEF OpToRel
<1> HIDE DEF R
<1>3. PICK m \in T : \A j \in T : ~(<<j, m>> \in R)
  BY <1>2, WFMin
<1>4. \A j \in T : ~(j < m)
  BY <1>1, <1>3
<1> QED BY <1>3, <1>4

\* Two lists with the same forward links agree at every position they share.
LEMMA ListsAgree ==
  ASSUME NEW next, NEW prev, NEW map,
         NEW s \in Seq(Values), Chain(next, prev, map, s),
         NEW r \in Seq(Values), Chain(next, prev, map, r),
         NEW i \in Nat, i <= Len(s), i <= Len(r)
  PROVE  NodeAt(s, i) = NodeAt(r, i)
<1> DEFINE T == {k \in Nat : k <= Len(s) /\ k <= Len(r) /\ NodeAt(s, k) # NodeAt(r, k)}
<1> SUFFICES ASSUME i \in T PROVE FALSE
  OBVIOUS
<1>1. PICK m \in T : \A k \in T : m <= k
  BY FirstPosition
<1>2. m # 0
  BY <1>1 DEF NodeAt
<1>3. Len(s) \in Nat /\ Len(r) \in Nat
  OBVIOUS
<1>4. m - 1 \in Nat /\ m - 1 \in 0 .. Len(s) /\ m - 1 \in 0 .. Len(r) /\ (m - 1) + 1 = m
  BY <1>1, <1>2, <1>3
<1>5. NodeAt(s, m - 1) = NodeAt(r, m - 1)
  BY <1>1, <1>3, <1>4
<1>6. next[NodeAt(s, m - 1)] = NodeAt(s, m) /\ next[NodeAt(r, m - 1)] = NodeAt(r, m)
  BY <1>4 DEF Chain, Linked
<1> QED BY <1>1, <1>5, <1>6

LEMMA NotLonger ==
  ASSUME NEW next, NEW prev, NEW map,
         NEW s \in Seq(Values), Chain(next, prev, map, s),
         NEW r \in Seq(Values), Chain(next, prev, map, r)
  PROVE  ~(Len(s) < Len(r))
<1> SUFFICES ASSUME Len(s) < Len(r) PROVE FALSE
  OBVIOUS
<1>1. Len(s) \in Nat /\ Len(r) \in Nat /\ \A k \in 1 .. Len(r) : r[k] \in Values
  OBVIOUS
<1>2. NodeAt(s, Len(s)) = NodeAt(r, Len(s))
  BY <1>1, ListsAgree
<1>3. next[NodeAt(s, Len(s))] = NodeAt(s, Len(s) + 1)
  BY <1>1 DEF Chain, Linked
<1>4. next[NodeAt(r, Len(s))] = NodeAt(r, Len(s) + 1)
  BY <1>1 DEF Chain, Linked
<1>5. NodeAt(s, Len(s) + 1) = mTail /\ NodeAt(r, Len(s) + 1) \in Values
  BY <1>1 DEF NodeAt
<1> QED BY <1>2, <1>3, <1>4, <1>5

LEMMA ChainUnique ==
  ASSUME NEW next, NEW prev, NEW map,
         NEW s \in Seq(Values), Chain(next, prev, map, s),
         NEW r \in Seq(Values), Chain(next, prev, map, r)
  PROVE  s = r
<1>1. Len(s) \in Nat /\ Len(r) \in Nat
  OBVIOUS
<1>2. Len(s) = Len(r)
  BY <1>1, NotLonger
<1>3. ASSUME NEW i \in 1 .. Len(s) PROVE s[i] = r[i]
  <2>1. NodeAt(s, i) = NodeAt(r, i)
    BY <1>1, <1>2, ListsAgree
  <2> QED BY <1>1, <1>2, <2>1 DEF NodeAt
<1> QED BY <1>2, <1>3

-----------------------------------------------------------------------------
(* What is done to the links is done to the list. *)

\* Unlinking the node at position k.
LEMMA Unlinking ==
  ASSUME NEW next \in Links, NEW prev \in Links, NEW map,
         NEW s \in Seq(Values), Chain(next, prev, map, s), NEW v \in map
  PROVE  LET n == [next EXCEPT ![prev[v]] = next[v]]
             b == [prev EXCEPT ![next[v]] = prev[v]]
         IN  n \in Links /\ b \in Links /\ Chain(n, b, map \ {v}, Erase(s, v))
<1> DEFINE n == [next EXCEPT ![prev[v]] = next[v]]
           b == [prev EXCEPT ![next[v]] = prev[v]]
           k == CHOOSE i \in 1 .. Len(s) : s[i] = v
           t == [i \in 1 .. Len(s) - 1 |-> IF i < k THEN s[i] ELSE s[i + 1]]
<1>1. v \in Elements(s) /\ Len(s) \in Nat /\ NoDuplicates(s)
  BY DEF Chain
<1>2. k \in 1 .. Len(s) /\ s[k] = v
  BY <1>1 DEF Elements
<1>3. Erase(s, v) = t
  BY <1>1 DEF Erase
<1> HIDE DEF k
<1>4. /\ t \in Seq(Values) /\ Len(t) = Len(s) - 1 /\ Len(t) \in Nat
      /\ \A i \in 1 .. Len(t) : t[i] = IF i < k THEN s[i] ELSE s[i + 1]
  <2>1. \A i \in 1 .. Len(s) - 1 : t[i] \in Values
    BY <1>1, <1>2
  <2>2. Len(s) - 1 \in Nat
    BY <1>1, <1>2
  <2> QED BY <2>1, <2>2
<1> HIDE DEF t
<1>5. \A i \in 0 .. Len(t) + 1 : NodeAt(t, i) = IF i < k THEN NodeAt(s, i) ELSE NodeAt(s, i + 1)
  BY <1>1, <1>2, <1>4 DEF NodeAt
<1>6. /\ NodeAt(s, k) = v /\ k - 1 \in 0 .. Len(s) /\ (k - 1) + 1 = k
      /\ prev[v] = NodeAt(s, k - 1) /\ next[v] = NodeAt(s, k + 1)
  <2>1. NodeAt(s, k) = v
    BY <1>1, <1>2 DEF NodeAt
  <2>2. k - 1 \in 0 .. Len(s) /\ (k - 1) + 1 = k /\ k \in 0 .. Len(s)
    BY <1>1, <1>2
  <2> QED BY <2>1, <2>2 DEF Chain, Linked
<1>7. prev[v] \in Nodes /\ next[v] \in Nodes
  BY <1>1, <1>2, <1>6, NodesAreNodes
<1>8. n \in Links /\ b \in Links
  BY <1>7 DEF Links
<1>9. ASSUME NEW i \in 0 .. Len(t)
      PROVE  n[NodeAt(t, i)] = NodeAt(t, i + 1) /\ b[NodeAt(t, i + 1)] = NodeAt(t, i)
  <2>1. i + 1 \in 0 .. Len(t) + 1 /\ i \in 0 .. Len(t) + 1
    BY <1>4
  <2>2. NodeAt(t, i) \in Nodes /\ NodeAt(t, i + 1) \in Nodes
    BY <1>4, <2>1, NodesAreNodes
  <2>3. CASE i = k - 1
    <3>1. NodeAt(t, i) = NodeAt(s, k - 1) /\ NodeAt(t, i + 1) = NodeAt(s, k + 1)
      BY <1>1, <1>2, <1>4, <1>5, <2>1, <2>3
    <3> QED BY <1>6, <1>7, <3>1 DEF Links
  <2>4. CASE i # k - 1
    <3> DEFINE j == IF i < k THEN i ELSE i + 1
    <3>1. /\ j \in 0 .. Len(s) /\ j # k - 1 /\ j + 1 # k + 1 /\ j + 1 \in 0 .. Len(s) + 1
          /\ j \in 0 .. Len(s) + 1 /\ k - 1 \in 0 .. Len(s) + 1 /\ k + 1 \in 0 .. Len(s) + 1
      BY <1>1, <1>2, <1>4, <2>4
    <3>2. NodeAt(t, i) = NodeAt(s, j) /\ NodeAt(t, i + 1) = NodeAt(s, j + 1)
      BY <1>1, <1>2, <1>4, <1>5, <2>1, <2>4
    <3> HIDE DEF j
    <3>3. NodeAt(s, j) # NodeAt(s, k - 1) /\ NodeAt(s, j + 1) # NodeAt(s, k + 1)
      BY <1>1, <3>1, NodesDiffer
    <3>4. next[NodeAt(s, j)] = NodeAt(s, j + 1) /\ prev[NodeAt(s, j + 1)] = NodeAt(s, j)
      BY <3>1 DEF Chain, Linked
    <3> QED BY <1>6, <2>2, <3>2, <3>3, <3>4 DEF Links
  <2> QED BY <2>3, <2>4
<1>10. Linked(n, b, t)
  BY <1>9 DEF Linked
<1>11. NoDuplicates(t) /\ Elements(t) = map \ {v}
  BY <1>1, <1>2, <1>4, Shorter DEF Chain
<1> QED BY <1>3, <1>4, <1>8, <1>10, <1>11 DEF Chain

\* Linking a node that is not in the list behind the first sentinel.
LEMMA Linking ==
  ASSUME NEW next \in Links, NEW prev \in Links, NEW map,
         NEW t \in Seq(Values), Chain(next, prev, map, t), NEW v \in Values, v \notin map
  PROVE  LET fir == next[mHead]
             n == [next EXCEPT ![v] = fir, ![mHead] = v]
             b == [prev EXCEPT ![fir] = v, ![v] = mHead]
         IN  n \in Links /\ b \in Links /\ Chain(n, b, map \cup {v}, <<v>> \o t)
<1> DEFINE fir == next[mHead]
           n == [next EXCEPT ![v] = fir, ![mHead] = v]
           b == [prev EXCEPT ![fir] = v, ![v] = mHead]
           u == <<v>> \o t
<1>1. Len(t) \in Nat /\ NoDuplicates(t) /\ v \notin Elements(t)
  BY DEF Chain
<1>2. /\ u \in Seq(Values) /\ Len(u) = Len(t) + 1 /\ u[1] = v
      /\ \A i \in 2 .. Len(t) + 1 : u[i] = t[i - 1]
  BY <1>1
<1> HIDE DEF u
<1>3. /\ NodeAt(u, 0) = mHead /\ NodeAt(u, 1) = v
      /\ \A i \in 2 .. Len(t) + 2 : NodeAt(u, i) = NodeAt(t, i - 1)
  BY <1>1, <1>2 DEF NodeAt
<1>4. fir = NodeAt(t, 1)
  <2>1. NodeAt(t, 0) = mHead
    BY DEF NodeAt
  <2> QED BY <1>1, <2>1 DEF Chain, Linked
<1>5. \A i \in 1 .. Len(t) + 1 : NodeAt(t, i) \notin {v, mHead}
  BY <1>1 DEF NodeAt, Elements
<1>6. fir \in Nodes /\ v \in Nodes /\ mHead \in Nodes
  BY <1>1, <1>4, NodesAreNodes DEF Nodes
<1>7. fir \notin {v, mHead} /\ v # mHead
  BY <1>1, <1>4, <1>5
<1> HIDE DEF fir
<1>8. n \in Links /\ b \in Links
  BY <1>6 DEF Links
<1>9. /\ n[mHead] = v /\ n[v] = fir /\ b[v] = mHead /\ b[fir] = v
      /\ \A x \in Nodes \ {v, mHead} : n[x] = next[x]
      /\ \A x \in Nodes \ {v, fir} : b[x] = prev[x]
  BY <1>6, <1>7 DEF Links
<1> HIDE DEF n, b
<1>10. ASSUME NEW i \in 0 .. Len(u)
       PROVE  n[NodeAt(u, i)] = NodeAt(u, i + 1) /\ b[NodeAt(u, i + 1)] = NodeAt(u, i)
  <2>1. CASE i = 0
    BY <1>3, <1>9, <2>1
  <2>2. CASE i = 1
    <3>1. NodeAt(u, 2) = fir /\ 1 + 1 = 2
      BY <1>1, <1>3, <1>4
    <3> QED BY <1>3, <1>9, <2>2, <3>1
  <2>3. CASE i # 0 /\ i # 1
    <3>1. /\ NodeAt(u, i) = NodeAt(t, i - 1) /\ NodeAt(u, i + 1) = NodeAt(t, i)
          /\ i - 1 \in 1 .. Len(t) /\ i \in 2 .. Len(t) + 1 /\ (i - 1) + 1 = i
      BY <1>1, <1>2, <1>3, <2>3
    <3>2. next[NodeAt(t, i - 1)] = NodeAt(t, i) /\ prev[NodeAt(t, i)] = NodeAt(t, i - 1)
      <4>1. i - 1 \in 0 .. Len(t)
        BY <1>1, <3>1
      <4> QED BY <3>1, <4>1 DEF Chain, Linked
    <3>3. NodeAt(t, i - 1) \in Nodes \ {v, mHead} /\ NodeAt(t, i) \in Nodes \ {v, mHead}
      BY <1>1, <1>5, <3>1, NodesAreNodes
    <3>4. NodeAt(t, i) # fir
      <4>1. 1 \in 0 .. Len(t) + 1 /\ i \in 0 .. Len(t) + 1 /\ i # 1
        BY <1>1, <3>1
      <4> QED BY <1>1, <1>4, <4>1, NodesDiffer
    <3> QED BY <1>9, <3>1, <3>2, <3>3, <3>4
  <2> QED BY <2>1, <2>2, <2>3
<1>11. Linked(n, b, u)
  BY <1>10 DEF Linked
<1>12. NoDuplicates(u) /\ Elements(u) = map \cup {v}
  BY <1>1, <1>2, Longer DEF Chain
<1> QED BY <1>2, <1>8, <1>11, <1>12 DEF Chain, u, n, b, fir

\* Unlinking the last node.
LEMMA Evicting ==
  ASSUME NEW next \in Links, NEW prev \in Links, NEW map,
         NEW s \in Seq(Values), Chain(next, prev, map, s), map # {}
  PROVE  LET last == prev[mTail]
             b == [prev EXCEPT ![mTail] = prev[last]]
             n == [next EXCEPT ![prev[last]] = mTail]
         IN  /\ last = VictimOf(s) /\ last \in map
             /\ n \in Links /\ b \in Links
             /\ Chain(n, b, map \ {last}, WithoutVictim(s))
<1> DEFINE last == prev[mTail]
           b == [prev EXCEPT ![mTail] = prev[last]]
           n == [next EXCEPT ![prev[last]] = mTail]
           t == WithoutVictim(s)
           m == Len(s)
<1>1. m \in Nat \ {0} /\ s # <<>> /\ NoDuplicates(s)
  BY DEF Chain, Elements
<1>2. t \in Seq(Values) /\ Len(t) = m - 1 /\ \A i \in 1 .. m - 1 : t[i] = s[i]
  <2> DEFINE k == m - 1
  <2>1. k \in Nat /\ \A i \in 1 .. k : s[i] \in Values
    BY <1>1
  <2>2. t = SubSeq(s, 1, k)
    BY DEF WithoutVictim
  <2> HIDE DEF k, t
  <2>3. /\ t \in Seq(Values)
        /\ Len(t) = IF 1 <= k THEN k - 1 + 1 ELSE 0
        /\ \A i \in 1 .. k - 1 + 1 : t[i] = s[1 + i - 1]
    BY <2>1, <2>2, SubSeqProperties
  <2>4. Len(t) = k /\ \A i \in 1 .. k : t[i] = s[i]
    BY <2>1, <2>3
  <2> QED BY <2>3, <2>4 DEF k
<1> HIDE DEF t
<1>3. /\ NoDuplicates(t)
      /\ Elements(t) = map \ {VictimOf(s)} /\ VictimOf(s) \in map
  <2>1. m \in 1 .. Len(s) /\ VictimOf(s) = s[m] /\ s[m] \in map
    BY <1>1 DEF VictimOf, Chain, Elements
  <2>2. \A i \in 1 .. Len(t) : t[i] = IF i < m THEN s[i] ELSE s[i + 1]
    BY <1>1, <1>2
  <2>3. NoDuplicates(t) /\ Elements(t) = Elements(s) \ {s[m]}
    BY <1>1, <1>2, <2>1, <2>2, Shorter
  <2> QED BY <2>1, <2>3 DEF Chain
<1> HIDE DEF m
<1>4. /\ \A i \in 0 .. m - 1 : NodeAt(t, i) = NodeAt(s, i)
      /\ NodeAt(t, m) = mTail /\ NodeAt(s, m + 1) = mTail
  BY <1>1, <1>2 DEF NodeAt, m
<1>5. last = NodeAt(s, m) /\ last = VictimOf(s) /\ prev[last] = NodeAt(s, m - 1)
  <2>1. m \in 0 .. Len(s) /\ m - 1 \in 0 .. Len(s) /\ (m - 1) + 1 = m
    BY <1>1 DEF m
  <2>2. NodeAt(s, m) = s[m]
    BY <1>1 DEF NodeAt, m
  <2> QED BY <1>4, <2>1, <2>2 DEF Chain, Linked, VictimOf, m
<1>6. prev[last] \in Nodes /\ mTail \in Nodes
  <2>1. m - 1 \in 0 .. Len(s) + 1
    BY <1>1 DEF m
  <2> QED BY <1>5, <2>1, NodesAreNodes DEF Nodes
<1> HIDE DEF last
<1>7. n \in Links /\ b \in Links
  BY <1>6 DEF Links
<1>8. ASSUME NEW i \in 0 .. Len(t)
      PROVE  n[NodeAt(t, i)] = NodeAt(t, i + 1) /\ b[NodeAt(t, i + 1)] = NodeAt(t, i)
  <2>1. CASE i = m - 1
    BY <1>1, <1>4, <1>5, <1>6, <2>1 DEF Links
  <2>2. CASE i # m - 1
    <3>1. /\ i \in 0 .. Len(s) /\ i \in 0 .. Len(s) + 1 /\ m - 1 \in 0 .. Len(s) + 1
          /\ i + 1 \in 0 .. Len(s) + 1 /\ m + 1 \in 0 .. Len(s) + 1 /\ i + 1 # m + 1
          /\ i \in 0 .. m - 1 /\ i + 1 \in 0 .. m - 1
      BY <1>1, <1>2, <2>2 DEF m
    <3>2. NodeAt(s, i) # NodeAt(s, m - 1) /\ NodeAt(s, i + 1) # NodeAt(s, m + 1)
      BY <1>1, <2>2, <3>1, NodesDiffer
    <3>3. NodeAt(s, i) \in Nodes /\ NodeAt(s, i + 1) \in Nodes
      BY <3>1, NodesAreNodes
    <3>4. next[NodeAt(s, i)] = NodeAt(s, i + 1) /\ prev[NodeAt(s, i + 1)] = NodeAt(s, i)
      BY <3>1 DEF Chain, Linked
    <3> QED BY <1>4, <1>5, <3>1, <3>2, <3>3, <3>4 DEF Links
  <2> QED BY <2>1, <2>2
<1>9. Linked(n, b, t)
  BY <1>8 DEF Linked
<1> QED BY <1>2, <1>3, <1>5, <1>7, <1>9 DEF Chain, last, t

\* A value that is not in the list can be erased without effect.
LEMMA EraseAbsent ==
  ASSUME NEW s, NEW v, v \notin Elements(s)
  PROVE  Erase(s, v) = s
BY DEF Erase

-----------------------------------------------------------------------------
(* The steps. *)

LEMMA InsertStep ==
  ASSUME ptrNext \in Links, ptrPrev \in Links, NEW s \in Seq(Values),
         Chain(ptrNext, ptrPrev, mDataMap, s), NEW v \in Values, Insert(v)
  PROVE  /\ ptrNext' \in Links /\ ptrPrev' \in Links
         /\ Chain(ptrNext', ptrPrev', mDataMap', InsertFront(s, v))
<1> DEFINE next == IF v \in mDataMap THEN NextUnlinked(v) ELSE ptrNext
           prev == IF v \in mDataMap THEN PrevUnlinked(v) ELSE ptrPrev
           fir == next[mHead]
<1>1. /\ ptrNext' = [next EXCEPT ![v] = fir, ![mHead] = v]
      /\ ptrPrev' = [prev EXCEPT ![fir] = v, ![v] = mHead]
      /\ mDataMap' = mDataMap \cup {v}
  BY DEF Insert
<1>2. next \in Links /\ prev \in Links /\ Chain(next, prev, mDataMap \ {v}, Erase(s, v))
  <2>1. CASE v \in mDataMap
    BY <2>1, Unlinking DEF NextUnlinked, PrevUnlinked
  <2>2. CASE v \notin mDataMap
    <3>1. Erase(s, v) = s /\ mDataMap \ {v} = mDataMap
      BY <2>2, EraseAbsent DEF Chain
    <3> QED BY <2>2, <3>1
  <2> QED BY <2>1, <2>2
<1>3. Erase(s, v) \in Seq(Values)
  BY <1>2 DEF Chain
<1> DEFINE map == mDataMap \ {v}
           t == Erase(s, v)
<1>4. map \cup {v} = mDataMap' /\ v \notin map
  BY <1>1
<1>5. next \in Links /\ prev \in Links /\ Chain(next, prev, map, t) /\ t \in Seq(Values)
  BY <1>2, <1>3
<1> HIDE DEF next, prev, map, t
<1>6. /\ [next EXCEPT ![v] = fir, ![mHead] = v] \in Links
      /\ [prev EXCEPT ![fir] = v, ![v] = mHead] \in Links
      /\ Chain([next EXCEPT ![v] = fir, ![mHead] = v], [prev EXCEPT ![fir] = v, ![v] = mHead],
               map \cup {v}, <<v>> \o t)
  BY <1>4, <1>5, Linking
<1> QED BY <1>1, <1>4, <1>6 DEF InsertFront, t

LEMMA EraseStep ==
  ASSUME ptrNext \in Links, ptrPrev \in Links, NEW s \in Seq(Values),
         Chain(ptrNext, ptrPrev, mDataMap, s), NEW v \in Values, EraseNode(v)
  PROVE  /\ ptrNext' \in Links /\ ptrPrev' \in Links
         /\ Chain(ptrNext', ptrPrev', mDataMap', Erase(s, v))
BY Unlinking DEF EraseNode, NextUnlinked, PrevUnlinked

LEMMA VictimStep ==
  ASSUME ptrNext \in Links, ptrPrev \in Links, NEW s \in Seq(Values),
         Chain(ptrNext, ptrPrev, mDataMap, s), Victim
  PROVE  /\ ptrNext' \in Links /\ ptrPrev' \in Links
         /\ Chain(ptrNext', ptrPrev', mDataMap', WithoutVictim(s))
         /\ VictimOf(s) \notin mDataMap'
BY Evicting DEF Victim, LastNode

LEMMA ReplacerInit == Init => ReplacerInv
<1> SUFFICES ASSUME Init PROVE ReplacerInv
  OBVIOUS
<1>1. ptrNext \in Links /\ ptrPrev \in Links
  BY DEF Init, Links, Nodes
<1>2. Chain(ptrNext, ptrPrev, mDataMap, <<>>)
  <2>1. <<>> \in Seq(Values) /\ Len(<<>>) = 0 /\ NoDuplicates(<<>>) /\ Elements(<<>>) = {}
    BY DEF NoDuplicates, Elements
  <2>2. NodeAt(<<>>, 0) = mHead /\ NodeAt(<<>>, 1) = mTail
    BY <2>1 DEF NodeAt
  <2>3. ptrNext[mHead] = mTail /\ ptrPrev[mTail] = mHead /\ mDataMap = {}
    BY DEF Init, Nodes
  <2>4. Linked(ptrNext, ptrPrev, <<>>)
    BY <2>1, <2>2, <2>3 DEF Linked
  <2> QED BY <2>1, <2>3, <2>4 DEF Chain
<1> QED BY <1>1, <1>2 DEF ReplacerInv, Chain

LEMMA ReplacerStep == ReplacerInv /\ [Next]_vars => ReplacerInv'
<1> SUFFICES ASSUME ReplacerInv, [Next]_vars PROVE ReplacerInv'
  OBVIOUS
<1>1. PICK s \in Seq(Values) : Chain(ptrNext, ptrPrev, mDataMap, s)
  BY DEF ReplacerInv
<1>2. ptrNext \in Links /\ ptrPrev \in Links
  BY DEF ReplacerInv
<1>3. ASSUME NEW v \in Values, Insert(v) PROVE ReplacerInv'
  BY <1>1, <1>2, <1>3, InsertStep DEF ReplacerInv, Chain
<1>4. ASSUME NEW v \in Values, EraseNode(v) PROVE ReplacerInv'
  BY <1>1, <1>2, <1>4, EraseStep DEF ReplacerInv, Chain
<1>5. CASE Victim
  BY <1>1, <1>2, <1>5, VictimStep DEF ReplacerInv, Chain
<1>6. CASE UNCHANGED vars
  BY <1>6 DEF ReplacerInv, vars
<1> QED BY <1>3, <1>4, <1>5, <1>6 DEF Next

-----------------------------------------------------------------------------
(* The theorems. *)

\* The list is among the orders of the map's values.
LEMMA ChainIsOrder ==
  ASSUME NEW next, NEW prev, NEW map, NEW s \in Seq(Values), Chain(next, prev, map, s)
  PROVE  /\ s \in [1 .. Cardinality(map) -> map] /\ NoDuplicates(s) /\ Elements(s) = map
         /\ Linked(next, prev, s)
<1>1. Len(s) \in Nat /\ s \in [1 .. Len(s) -> map]
  BY DEF Chain, Elements
<1>2. s \in Bijection(1 .. Len(s), map)
  BY <1>1 DEF Chain, Elements, NoDuplicates, Bijection, Injection, Surjection, IsInjective
<1>3. Cardinality(map) = Len(s)
  BY <1>1, <1>2, FS_CountingElements DEF ExistsBijection
<1> QED BY <1>1, <1>3 DEF Chain

\* Every order is a list of values.
LEMMA OrderIsChain ==
  ASSUME NEW next, NEW prev, NEW map \in SUBSET Values, NEW t \in Seq(Values),
         Chain(next, prev, map, t),
         NEW s \in [1 .. Cardinality(map) -> map], NoDuplicates(s), Elements(s) = map,
         Linked(next, prev, s)
  PROVE  s = t
<1>1. t \in [1 .. Cardinality(map) -> map] /\ Len(t) \in Nat /\ 1 .. Len(t) = 1 .. Cardinality(map)
  BY ChainIsOrder
<1>2. s \in Seq(Values)
  <2>1. s \in [1 .. Len(t) -> Values]
    BY <1>1
  <2> QED BY <1>1, <2>1
<1>3. Chain(next, prev, map, s)
  BY <1>2 DEF Chain
<1> QED BY <1>2, <1>3, ChainUnique

\* What the model reads off the links is the list, before a step and after it.
LEMMA ListIs ==
  ASSUME NEW s \in Seq(Values), Chain(ptrNext, ptrPrev, mDataMap, s)
  PROVE  List = s
<1>1. mDataMap \in SUBSET Values
  BY DEF Chain, Elements
<1>2. s \in Orders /\ LinkedAs(s)
  BY ChainIsOrder DEF Orders, LinkedAs, Linked
<1>3. ASSUME NEW r \in Orders, LinkedAs(r) PROVE r = s
  BY <1>1, <1>3, OrderIsChain DEF Orders, LinkedAs, Linked
<1> QED BY <1>2, <1>3 DEF List

LEMMA NextListIs ==
  ASSUME NEW s \in Seq(Values), Chain(ptrNext', ptrPrev', mDataMap', s)
  PROVE  List' = s
<1>1. mDataMap' \in SUBSET Values
  BY DEF Chain, Elements
<1>2. s \in Orders' /\ LinkedAs(s)'
  BY ChainIsOrder DEF Orders, LinkedAs, Linked
<1>3. ASSUME NEW r \in Orders', LinkedAs(r)' PROVE r = s
  BY <1>1, <1>3, OrderIsChain DEF Orders, LinkedAs, Linked
<1> QED BY <1>2, <1>3 DEF List

\* Whatever inserts, erases and evictions came before, and whatever pointers the
\* unlinked nodes have kept, the list has the values of the map, once each, in both
\* directions: for any number of frames.
THEOREM ListCorrect == Spec => []ListMatchesMap
<1>1. ReplacerInv => ListMatchesMap
  <2> SUFFICES ASSUME ReplacerInv PROVE ListMatchesMap
    OBVIOUS
  <2>1. PICK s \in Seq(Values) : Chain(ptrNext, ptrPrev, mDataMap, s)
    BY DEF ReplacerInv
  <2>2. s \in Orders /\ LinkedAs(s)
    BY <2>1, ChainIsOrder DEF Orders, LinkedAs, Linked
  <2> QED BY <2>2 DEF ListMatchesMap
<1> QED BY <1>1, ReplacerInit, ReplacerStep, PTL DEF Spec

\* Every operation on the linked list is the operator of LRUList that the buffer pool's
\* model has in its place.
THEOREM ReplacerImplementsList == Spec => ImplementsLRUList
<1> DEFINE Ops ==
      /\ \A v \in Values :
           /\ Insert(v) => List' = InsertFront(List, v)
           /\ EraseNode(v) => List' = Erase(List, v)
      /\ Victim => List' = WithoutVictim(List) /\ VictimOf(List) \notin mDataMap'
<1>1. ReplacerInv => Ops
  <2> SUFFICES ASSUME ReplacerInv PROVE Ops
    OBVIOUS
  <2>1. PICK s \in Seq(Values) : Chain(ptrNext, ptrPrev, mDataMap, s)
    BY DEF ReplacerInv
  <2>2. ptrNext \in Links /\ ptrPrev \in Links
    BY DEF ReplacerInv
  <2>3. List = s
    BY <2>1, ListIs
  <2>4. ASSUME NEW v \in Values, Insert(v) PROVE List' = InsertFront(List, v)
    <3>1. Chain(ptrNext', ptrPrev', mDataMap', InsertFront(s, v))
      BY <2>1, <2>2, <2>4, InsertStep
    <3> QED BY <2>3, <3>1, NextListIs DEF Chain
  <2>5. ASSUME NEW v \in Values, EraseNode(v) PROVE List' = Erase(List, v)
    <3>1. Chain(ptrNext', ptrPrev', mDataMap', Erase(s, v))
      BY <2>1, <2>2, <2>5, EraseStep
    <3> QED BY <2>3, <3>1, NextListIs DEF Chain
  <2>6. ASSUME Victim PROVE List' = WithoutVictim(List) /\ VictimOf(List) \notin mDataMap'
    <3>1. /\ Chain(ptrNext', ptrPrev', mDataMap', WithoutVictim(s))
          /\ VictimOf(s) \notin mDataMap'
      BY <2>1, <2>2, <2>6, VictimStep
    <3> QED BY <2>3, <3>1, NextListIs DEF Chain
  <2> QED BY <2>4, <2>5, <2>6
<1> QED BY <1>1, ReplacerInit, ReplacerStep, PTL DEF Spec, ImplementsLRUList

================================================================================
