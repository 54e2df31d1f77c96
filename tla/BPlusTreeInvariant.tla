------------------------- MODULE BPlusTreeInvariant -------------------------
(***************************************************************************)
(* The inductive invariant of the B+ tree, and that searches, scans and    *)
(* insertions keep it, for any keys and values, any sizes of leaves and    *)
(* internal nodes, any number of pages and of threads.                     *)
(*                                                                         *)
(* It says that there are bounds for the nodes, an interval of keys and a  *)
(* level for each, for which the tree is in order (TreeOK), each thread    *)
(* has what it needs at the point it has reached (ThreadOK), and the       *)
(* latches are those of the threads' page sets (LatchInv).  An action      *)
(* changes pages that its thread has latched and parent pointers of their  *)
(* children, and bounds of pages whose parent it has latched (Frame): so   *)
(* what is known of the other threads stays true, and what is left is to   *)
(* look at the pages it changes (Changes, TreeAfter).                      *)
(***************************************************************************)
EXTENDS BPlusTree, SequenceTheorems, FiniteSetTheorems, WellFoundedInduction, TLAPS

-----------------------------------------------------------------------------
(* Bounds: the interval lo .. hi - 1 of keys that a node is responsible for,  *)
(* the interval's end cap as its parent knows it, which is further on while a *)
(* split is not yet known there, and the level above the leaves.  They are no *)
(* part of the state: some bounds fit every state.                            *)

\* A number above all keys.
Top == CHOOSE n \in Nat : n > 0 /\ \A k \in Keys : k < n

Bounds == [lo : Nat, hi : Nat, cap : Nat, level : Nat]
Ghosts == [PageIds -> Bounds]

\* The pages that are about to be deleted, and the others.
Doomed == UNION {doomed[t] : t \in Threads}
Live == DOMAIN node \ Doomed

\* The smallest size of a node that nobody is busy with, and of one that has a parent.
Low(n) == IF n.leaf THEN IF n.parent = INVALID_PAGE_ID THEN 1 ELSE LeafMax \div 2
          ELSE IF n.parent = INVALID_PAGE_ID \/ InternalMax \div 2 < 2 THEN 2 ELSE InternalMax \div 2
Half(n) == IF n.leaf THEN LeafMax \div 2
           ELSE IF InternalMax \div 2 < 2 THEN 2 ELSE InternalMax \div 2

\* Some thread is at this point with p; p has been split off and has no entry yet.
Busy(p, point) == \E t \in Threads : pc[t] = point /\ at[t] = p
Hangs(p) == \E t \in Threads : pc[t] = "parent" /\ fresh[t] = p

\* The smallest key for child i of p; beyond the last child the end of the interval.
Edge(g, p, i) ==
  IF i = 1 THEN g[p].lo
  ELSE IF i = Size(node[p]) + 1 THEN g[p].hi
  ELSE node[p].array[i].first

IsChild(c, p) == \E i \in 1 .. Size(node[p]) : node[p].array[i].second = c

\* Only while a split is not known to the parent does a node end before the parent thinks.
Placed(g, p) ==
  /\ g[p].lo < g[p].hi /\ g[p].hi <= g[p].cap /\ g[p].cap <= Top
  /\ node[p].leaf <=> g[p].level = 0
  /\ g[p].hi # g[p].cap => Busy(p, "parent")

\* A leaf has keys of its interval, in order.
LeafEntries(g, p) ==
  LET n == node[p] IN
  /\ \A i \in 1 .. Size(n) :
       /\ n.array[i].first \in Keys /\ n.array[i].second \in Values
       /\ g[p].lo <= n.array[i].first /\ n.array[i].first < g[p].hi
  /\ \A i, j \in 1 .. Size(n) : i < j => n.array[i].first < n.array[j].first

\* The next leaf begins where this one ends.
NextLeaf(g, p) ==
  LET q == node[p].next IN
  IF q = INVALID_PAGE_ID THEN g[p].hi = Top
  ELSE q \in Live /\ node[q].leaf /\ g[q].lo = g[p].hi

\* Child i of p fills the interval between two edges, and knows its parent.
ChildOf(g, p, i) ==
  LET c == node[p].array[i].second IN
  /\ c \in Live /\ node[c].parent = p
  /\ g[c].level + 1 = g[p].level
  /\ g[c].lo = Edge(g, p, i)
  /\ g[c].cap = Edge(g, p, i + 1)

\* The edges of an internal node rise; its first key is the start of the interval, unless it
\* is the leftmost of its level.
Inner(g, p) ==
  /\ Size(node[p]) >= 1
  /\ \A i, j \in 1 .. Size(node[p]) + 1 : i < j => Edge(g, p, i) < Edge(g, p, j)
  /\ g[p].lo # 0 => node[p].array[1].first = g[p].lo
  /\ \A i \in 1 .. Size(node[p]) : node[p].array[i].second \in PageIds /\ ChildOf(g, p, i)

\* A node is the root, a child, or about to become a child.
HasParent(p) ==
  LET q == node[p].parent IN
  /\ q = INVALID_PAGE_ID => p = root_page_id \/ Hangs(p)
  /\ q # INVALID_PAGE_ID => q \in Live /\ ~node[q].leaf /\ (IsChild(p, q) \/ Hangs(p))

\* A node is neither too large nor too small, unless a thread is about to see to it.
Sized(p) ==
  /\ Size(node[p]) <= MaxSize(node[p]) \/ Busy(p, "split")
  /\ Low(node[p]) <= Size(node[p]) \/ Busy(p, "underflow")

\* The root has all keys.
Rooted(g) ==
  IF root_page_id = INVALID_PAGE_ID THEN Live = {}
  ELSE /\ root_page_id \in Live /\ node[root_page_id].parent = INVALID_PAGE_ID
       /\ g[root_page_id].lo = 0 /\ g[root_page_id].cap = Top
       /\ \A p \in Live : g[p].level <= g[root_page_id].level

\* The intervals of a level do not overlap.
Disjoint(g) ==
  \A p, q \in Live : p # q /\ g[p].level = g[q].level => g[p].hi <= g[q].lo \/ g[q].hi <= g[p].lo

PageOK(g, p) ==
  /\ Placed(g, p)
  /\ node[p].leaf => LeafEntries(g, p) /\ NextLeaf(g, p)
  /\ ~node[p].leaf => Inner(g, p)
  /\ HasParent(p)
  /\ Sized(p)

TreeOK(g) ==
  /\ \A p \in Live : PageOK(g, p)
  /\ Rooted(g)
  /\ Disjoint(g)

-----------------------------------------------------------------------------
(* The threads. *)

\* t has the root lock; or p's parent, whose place the root lock takes for the root.
HoldsRoot(t) == IF Exclusive(t) THEN rootLock = [entered |-> t, readers |-> {}]
                ELSE t \in rootLock.readers

ParentHeld(t, p) ==
  IF node[p].parent = INVALID_PAGE_ID THEN HoldsRoot(t) ELSE node[p].parent \in pages[t]

\* p is responsible for the key of t.
InRange(g, t, p) == g[p].lo <= call[t].key /\ call[t].key < g[p].hi

\* p is the page that t latches next.
Waits(t, p) ==
  \/ pc[t] = "latch" /\ target[t] = p
  \/ pc[t] = "underflow" /\ node[at[t]].parent # INVALID_PAGE_ID /\ Sibling(at[t]) = p

\* What t is doing at a point, and what it may have latched there.  A reader has one page.
PointOf(t) ==
  /\ pc[t] = "idle" => call[t] = NoCall
  /\ pc[t] # "idle" => call[t] \in Calls \cup ScanCalls /\ call[t].key \in Keys \cup {0}
  /\ pc[t] \in {"check", "split", "parent"} => call[t].op = "Insert"
  /\ pc[t] \in {"empty", "underflow"} => call[t].op = "Remove"
  /\ pc[t] \in {"scan", "walk"} => call[t].op = "Scan"
  /\ pc[t] \in {"idle", "check", "empty", "root", "walk", "crashed"} => pages[t] = {}
  /\ pc[t] \notin {"underflow", "free"} => doomed[t] = {}
  /\ pages[t] \subseteq DOMAIN node
  /\ doomed[t] \subseteq pages[t]
  /\ \A p \in doomed[t] : node[p].array = <<>>
  /\ ~Exclusive(t) => doomed[t] = {} /\ \A p, q \in pages[t] : p = q

\* On its way down t has the parent of the page it latches next, which is the right one.
Descends(g, t) ==
  pc[t] = "latch" =>
    /\ target[t] \in Live /\ InRange(g, t, target[t])
    /\ IF pages[t] = {} THEN target[t] = root_page_id /\ HoldsRoot(t)
       ELSE node[target[t]].parent \in pages[t]
    /\ \A p \in pages[t] : g[target[t]].level < g[p].level

\* It arrives at the leaf for its key.
InLeaf(g, t) ==
  pc[t] \in {"leaf", "scan"} =>
     /\ target[t] \in pages[t] /\ node[target[t]].leaf
     /\ pc[t] = "leaf" => InRange(g, t, target[t])

\* A scan between two leaves has none of them latched; the one it goes to does not go away,
\* since nobody removes.
Walks(t) == pc[t] = "walk" => target[t] \in Live /\ node[target[t]].leaf

\* Nobody removes while a scan is open.
ScansAlone == \A t, u \in Threads : call[t].op = "Scan" => call[u].op # "Remove"

\* On its way up t has the node it splits or merges, and its parent.
Climbs(g, t) ==
  pc[t] \in {"split", "parent", "underflow"} =>
      /\ at[t] \in pages[t] /\ at[t] \notin doomed[t]
      /\ ParentHeld(t, at[t])

\* A node that is split has one entry too many.
Splits(t) == pc[t] = "split" => Size(node[at[t]]) = MaxSize(node[at[t]]) + 1

\* The two halves of a node that has been split, before their parent has an entry for the
\* second.
Links(g, t) ==
  pc[t] = "parent" =>
       LET p == at[t]
           q == fresh[t] IN
       /\ q \in pages[t] /\ p # q
       /\ node[p].parent = node[q].parent /\ g[p].level = g[q].level
       /\ g[p].hi = g[q].lo /\ g[p].cap = g[q].hi /\ g[q].cap = g[q].hi
       /\ node[q].array[1].first = g[q].lo
       /\ Half(node[p]) <= Size(node[p]) /\ Half(node[q]) <= Size(node[q])

\* A node that has lost an entry: a leaf is one short, an internal node at most one below its
\* minimum, and the child that was merged is still latched.
Shrinks(t) ==
  pc[t] = "underflow" =>
       LET n == node[at[t]] IN
       IF n.leaf THEN Size(n) + 1 = MinSize(n)
       ELSE /\ Size(n) <= MinSize(n) /\ Low(n) <= Size(n) + 1
            /\ \E c \in pages[t] : IsChild(c, at[t])

\* A writer has the parents of all pages it has, but for the topmost, which its operation
\* does not go beyond: that is what isSafe is for.
Keeps(g, t) ==
  Exclusive(t) /\ pc[t] \in {"latch", "leaf", "split", "parent", "underflow"} =>
    \A p \in pages[t] \ doomed[t] :
      \/ ParentHeld(t, p)
      \/ IsSafe(node[p], call[t].op) /\ (pc[t] = "underflow" => g[at[t]].level < g[p].level)

\* It has one page of a level, and one more where it merges.
Levels(g, t) ==
  /\ Exclusive(t) /\ pc[t] \in {"latch", "leaf"} =>
        \A p, q \in pages[t] : g[p].level = g[q].level => p = q
  /\ pc[t] = "underflow" =>
        \A p, q \in pages[t] : g[p].level = g[q].level /\ g[at[t]].level <= g[p].level => p = q

ThreadOK(g, t) ==
  /\ PointOf(t)
  /\ Descends(g, t)
  /\ InLeaf(g, t)
  /\ Walks(t)
  /\ Climbs(g, t)
  /\ Splits(t)
  /\ Links(g, t)
  /\ Shrinks(t)
  /\ Keeps(g, t)
  /\ Levels(g, t)

\* t has the latch of p, alone if it writes.
Held(t, p) == IF Exclusive(t) THEN latch[p] = [entered |-> t, readers |-> {}]
              ELSE t \in latch[p].readers

\* The page set is what t has latched; a writer may have entered one more latch.
LatchOK(t, p) ==
  /\ p \in pages[t] => Held(t, p)
  /\ latch[p].entered = t /\ p \notin pages[t] => Exclusive(t) /\ Waits(t, p)
  /\ t \in latch[p].readers => p \in pages[t] /\ ~Exclusive(t)

\* Where t may have entered the root lock, or hold it.
RootLockOK(t) ==
  /\ rootLock.entered = t =>
       /\ Exclusive(t)
       /\ \/ pc[t] \in {"check", "root"}
          \/ /\ rootLock.readers = {}
             /\ pc[t] \in {"latch", "leaf", "split", "parent", "underflow", "free"}
  /\ t \in rootLock.readers => ~Exclusive(t) /\ pc[t] \in {"latch", "leaf", "free"}

LatchInv ==
  /\ \A t \in Threads : \A p \in PageIds : LatchOK(t, p)
  /\ \A t \in Threads : RootLockOK(t)

\* What the property HeaderIsRootOrInvalid says holds during calls too.
HeaderOK ==
    \/ header \in {root_page_id, INVALID_PAGE_ID}
    \/ header = NoRecord /\ root_page_id = INVALID_PAGE_ID

-----------------------------------------------------------------------------
(* Numbers and sequences. *)

\* A set of naturals has a least element.
LEMMA LeastNumber ==
  ASSUME NEW T \in SUBSET Nat, T # {}
  PROVE  \E i \in T : \A j \in T : i <= j
<1> DEFINE R == {ss \in Nat \X Nat : ss[1] < ss[2]}
<1>1. \A x, y \in Nat : <<y, x>> \in R <=> y < x
  OBVIOUS
<1>2. IsWellFoundedOn(R, Nat)
  BY NatLessThanWellFounded, Zenon DEF OpToRel
<1> HIDE DEF R
<1>3. PICK i \in T : \A j \in T : ~(<<j, i>> \in R)
  BY <1>2, WFMin
<1>4. ASSUME NEW j \in T
      PROVE  i <= j
  <2>1. i \in Nat /\ j \in Nat
    BY <1>3
  <2>2. ~(j < i)
    BY <1>1, <1>3, <2>1
  <2> QED BY <2>1, <2>2
<1> QED BY <1>4

\* A finite set of numbers has a bound.
LEMMA FiniteBounded ==
  ASSUME NEW S \in SUBSET Nat, IsFiniteSet(S)
  PROVE  \E n \in Nat : n > 0 /\ \A k \in S : k < n
<1> DEFINE Below(T) == \E n \in Nat : n > 0 /\ \A k \in T : k < n
           Bad == {m \in Nat : \E T \in SUBSET S : Cardinality(T) = m /\ ~Below(T)}
<1>1. ASSUME Bad # {} PROVE FALSE
  <2>1. PICK m \in Bad : \A j \in Bad : m <= j
    BY <1>1, LeastNumber
  <2>2. PICK T \in SUBSET S : Cardinality(T) = m /\ ~Below(T)
    BY <2>1
  <2>3. IsFiniteSet(T)
    BY FS_Subset
  <2>4. Below({})
    OBVIOUS
  <2>5. PICK x \in T : TRUE
    BY <2>2, <2>4
  <2>6. IsFiniteSet(T \ {x}) /\ Cardinality(T \ {x}) = m - 1
    BY <2>2, <2>3, <2>5, FS_RemoveElement
  <2>7. Cardinality(T \ {x}) \in Nat
    BY <2>6, FS_CardinalityType
  <2>8. m \in Nat /\ m - 1 \in Nat /\ ~(m <= m - 1)
    BY <2>1, <2>6, <2>7
  <2>9. Below(T \ {x})
    BY <2>1, <2>6, <2>8
  <2>10. PICK n \in Nat : n > 0 /\ \A k \in T \ {x} : k < n
    BY <2>9
  <2>11. x \in Nat
    BY <2>5
  <2>12. PICK l \in Nat : l >= n /\ l > x
    <3>1. CASE x < n
      BY <3>1, <2>10
    <3>2. CASE ~(x < n)
      <4>1. x + 1 \in Nat /\ x + 1 >= n /\ x + 1 > x
        BY <3>2, <2>10, <2>11
      <4> QED BY <4>1
    <3> QED BY <3>1, <3>2
  <2>13. \A k \in T : k < l
    <3>1. ASSUME NEW k \in T PROVE k < l
      <4>1. k \in Nat
        OBVIOUS
      <4>2. CASE k = x
        BY <4>2, <2>12
      <4>3. CASE k # x
        <5>1. k < n
          BY <4>3, <2>10
        <5> QED BY <4>1, <5>1, <2>10, <2>12
      <4> QED BY <4>2, <4>3
    <3> QED BY <3>1
  <2>14. l > 0
    BY <2>10, <2>12
  <2>15. Below(T)
    BY <2>12, <2>13, <2>14
  <2> QED BY <2>2, <2>15
<1>2. Cardinality(S) \in Nat
  BY FS_CardinalityType
<1>3. Below(S)
  BY <1>1, <1>2
<1> QED BY <1>3

\* Top is above all keys.
LEMMA TopAbove ==
  /\ Top \in Nat /\ Top > 0
  /\ \A k \in Keys : k \in Nat /\ k > 0 /\ k < Top
<1>1. Keys \in SUBSET Nat /\ IsFiniteSet(Keys)
  BY TreeAssumption
<1>2. \E n \in Nat : n > 0 /\ \A k \in Keys : k < n
  BY <1>1, FiniteBounded
<1>3. Top \in Nat /\ Top > 0 /\ \A k \in Keys : k < Top
  BY <1>2 DEF Top
<1> QED BY <1>3, TreeAssumption

\* How many a .. n are in T, if T has with a number the smaller ones.
LEMMA CountDown ==
  ASSUME NEW a \in Nat, NEW n \in Nat, a <= n + 1, NEW T \in SUBSET (a .. n),
         \A i \in T : \A j \in a .. n : j < i => j \in T
  PROVE  /\ Cardinality(T) \in Nat /\ a + Cardinality(T) <= n + 1
         /\ \A i \in a .. n : i \in T <=> i < a + Cardinality(T)
<1> DEFINE U == {i \in a .. n + 1 : i \notin T}
<1>1. n + 1 \in U /\ U \in SUBSET Nat
  OBVIOUS
<1>2. PICK c \in U : \A j \in U : c <= j
  <2> HIDE DEF U
  <2> QED BY <1>1, LeastNumber
<1>3. c \in Nat /\ a <= c /\ c <= n + 1 /\ c \notin T
  BY <1>2
<1>4. \A i \in a .. n : i \in T <=> i < c
  <2>1. ASSUME NEW i \in a .. n, i < c PROVE i \in T
    BY <1>2, <1>3, <2>1
  <2>2. ASSUME NEW i \in a .. n, i \in T PROVE i < c
    <3>1. CASE c = n + 1
      BY <3>1
    <3>2. CASE c # n + 1
      <4>1. c \in a .. n
        BY <3>2, <1>3
      <4> QED BY <4>1, <1>3, <2>2
    <3> QED BY <3>1, <3>2
  <2> QED BY <2>1, <2>2
<1>5. T = a .. (c - 1)
  <2>1. \A i \in T : i \in a .. n /\ i < c
    BY <1>4
  <2>2. \A i \in a .. (c - 1) : i \in a .. n /\ i < c
    BY <1>3
  <2>3. T \subseteq a .. (c - 1)
    BY <1>3, <2>1
  <2>4. a .. (c - 1) \subseteq T
    BY <1>4, <2>2
  <2> QED BY <2>3, <2>4
<1>6. Cardinality(a .. (c - 1)) = IF a > c - 1 THEN 0 ELSE (c - 1) - a + 1
  <2>1. a \in Int /\ c - 1 \in Int
    BY <1>3
  <2> QED BY <2>1, FS_Interval
<1>7. Cardinality(T) = c - a
  BY <1>3, <1>5, <1>6
<1> QED BY <1>3, <1>4, <1>7

\* What InsertAt and RemoveAt do, entry by entry.
\* a is s with e inserted at x, or without the entry at x.
Inserted(a, s, x, e) ==
  /\ Len(a) = Len(s) + 1
  /\ a[x] = e
  /\ \A j \in 1 .. Len(s) + 1 :
       /\ j < x => a[j] = s[j]
       /\ j > x => a[j] = s[j - 1]

Removed(a, s, x) ==
  /\ Len(a) = Len(s) - 1
  /\ \A j \in 1 .. Len(s) - 1 : a[j] = IF j < x THEN s[j] ELSE s[j + 1]

\* What InsertAt of the library does.
LEMMA InsertAtIs ==
  ASSUME NEW S, NEW s \in Seq(S), NEW i \in 1 .. Len(s) + 1, NEW e \in S
  PROVE  InsertAt(s, i, e) \in Seq(S) /\ Inserted(InsertAt(s, i, e), s, i, e)
<1>1. Len(s) \in Nat /\ i \in Nat /\ i >= 1 /\ i <= Len(s) + 1
  BY LenProperties
<1> DEFINE before == SubSeq(s, 1, i - 1)
           after == SubSeq(s, i, Len(s))
<1>2. /\ before \in Seq(S) /\ Len(before) = i - 1
      /\ \A j \in 1 .. i - 1 : before[j] = s[j]
  BY <1>1
<1>3. /\ after \in Seq(S) /\ Len(after) = Len(s) - i + 1
      /\ \A j \in 1 .. Len(s) - i + 1 : after[j] = s[i + j - 1]
  BY <1>1
<1> HIDE DEF before, after
<1> DEFINE middle == before \o <<e>>
<1>4. /\ middle \in Seq(S) /\ Len(middle) = i
      /\ middle[i] = e
      /\ \A j \in 1 .. i - 1 : middle[j] = s[j]
  BY <1>1, <1>2
<1> HIDE DEF middle
<1> DEFINE all == middle \o after
<1>5. all = InsertAt(s, i, e)
  BY DEF InsertAt, before, middle, after
<1>6. all \in Seq(S) /\ Len(all) = Len(s) + 1
  <2>1. all \in Seq(S) /\ Len(all) = Len(middle) + Len(after)
    BY <1>3, <1>4, ConcatProperties, Zenon
  <2> HIDE DEF all
  <2> QED BY <1>1, <1>3, <1>4, <2>1
<1>7. \A j \in 1 .. Len(s) + 1 : all[j] = IF j <= i THEN middle[j] ELSE after[j - i]
  <2>1. \A j \in 1 .. Len(middle) + Len(after) :
           (middle \o after)[j] = IF j <= Len(middle) THEN middle[j] ELSE after[j - Len(middle)]
    BY <1>3, <1>4, ConcatProperties, Zenon
  <2> QED BY <1>1, <1>3, <1>4, <2>1
<1> HIDE DEF all
<1>8. all[i] = e
  BY <1>1, <1>4, <1>7
<1>9. ASSUME NEW j \in 1 .. Len(s) + 1, j < i PROVE all[j] = s[j]
  BY <1>1, <1>4, <1>7, <1>9
<1>10. ASSUME NEW j \in 1 .. Len(s) + 1, j > i PROVE all[j] = s[j - 1]
  <2>1. all[j] = after[j - i]
    BY <1>1, <1>7, <1>10
  <2>2. j - i \in 1 .. Len(s) - i + 1 /\ i + (j - i) - 1 = j - 1
    BY <1>1, <1>10
  <2>3. after[j - i] = s[i + (j - i) - 1]
    BY <1>3, <2>2
  <2> QED BY <2>1, <2>2, <2>3
<1>11. Inserted(all, s, i, e)
  BY <1>6, <1>8, <1>9, <1>10 DEF Inserted
<1> QED BY <1>5, <1>6, <1>11

\* e fits in the sorted entries s at x.
Fits(s, e, x) ==
  /\ e.first \in Nat
  /\ \A i \in 1 .. Len(s) : s[i].first \in Nat /\ s[i].first # e.first
  /\ \A i \in 1 .. Len(s) : s[i].first < e.first <=> i < x
  /\ \A i, j \in 1 .. Len(s) : i < j => s[i].first < s[j].first

\* The entries of a are those of s and e.
OneMore(a, s, e) ==
  /\ \A j \in 1 .. Len(a) : a[j] = e \/ \E i \in 1 .. Len(s) : a[j] = s[i]
  /\ \A i \in 1 .. Len(s) : \E j \in 1 .. Len(a) : a[j] = s[i]

Ordered(a) == \A i, j \in 1 .. Len(a) : i < j => a[i].first < a[j].first

\* An entry that is inserted where its key belongs.
LEMMA SortedInsert ==
  ASSUME NEW s, Len(s) \in Nat, NEW e, NEW x \in 1 .. Len(s) + 1, Fits(s, e, x),
         NEW a, Inserted(a, s, x, e)
  PROVE  OneMore(a, s, e) /\ Ordered(a)
<1>. DEFINE m == Len(s)
<1>1. m \in Nat /\ x \in 1 .. m + 1
  OBVIOUS
<1>2. Len(a) = m + 1 /\ a[x] = e
  BY DEF Inserted
<1>3. \A j \in 1 .. m + 1 :
        /\ j < x => a[j] = s[j]
        /\ j > x => a[j] = s[j - 1]
  BY DEF Inserted
<1>9. /\ e.first \in Nat
      /\ \A i \in 1 .. m : s[i].first \in Nat /\ s[i].first # e.first
      /\ \A i \in 1 .. m : s[i].first < e.first <=> i < x
      /\ \A i, j \in 1 .. m : i < j => s[i].first < s[j].first
  BY DEF Fits
<1> HIDE DEF m
<1>4. ASSUME NEW j \in 1 .. m + 1
      PROVE  \/ j < x /\ j \in 1 .. m /\ a[j] = s[j]
             \/ j = x /\ a[j] = e
             \/ j > x /\ j - 1 \in 1 .. m /\ a[j] = s[j - 1]
  BY <1>1, <1>2, <1>3
<1>5. \A j \in 1 .. m + 1 : a[j] = e \/ \E i \in 1 .. m : a[j] = s[i]
  BY <1>4
<1>6. ASSUME NEW i \in 1 .. m PROVE \E j \in 1 .. m + 1 : a[j] = s[i]
  <2>1. CASE i < x
    <3>1. i \in 1 .. m + 1
      BY <1>1
    <3> QED BY <1>3, <2>1, <3>1
  <2>2. CASE ~(i < x)
    <3>1. i + 1 \in 1 .. m + 1 /\ i + 1 > x /\ i + 1 - 1 = i
      BY <1>1, <2>2
    <3> QED BY <1>3, <3>1
  <2> QED BY <2>1, <2>2
<1>7. ASSUME NEW i \in 1 .. m, ~(i < x) PROVE e.first < s[i].first
  BY <1>7, <1>9
<1>8. ASSUME NEW i \in 1 .. m + 1, NEW j \in 1 .. m + 1, i < j
      PROVE  a[i].first < a[j].first
  <2>1. CASE j < x
    <3>1. i < x /\ i \in 1 .. m /\ j \in 1 .. m
      BY <1>1, <1>8, <2>1
    <3>2. a[i] = s[i] /\ a[j] = s[j]
      BY <1>3, <2>1, <3>1
    <3> QED BY <1>8, <1>9, <3>1, <3>2
  <2>2. CASE j = x
    <3>1. i < x /\ i \in 1 .. m
      BY <1>1, <1>8, <2>2
    <3>2. a[i] = s[i] /\ a[j] = e
      BY <1>2, <1>3, <2>2, <3>1
    <3> QED BY <1>9, <3>1, <3>2
  <2>3. CASE j > x /\ i < x
    <3>1. i < j - 1 \/ i = j - 1
      BY <1>1, <2>3
    <3>2. i \in 1 .. m /\ j - 1 \in 1 .. m
      BY <1>1, <2>3
    <3>3. a[i] = s[i] /\ a[j] = s[j - 1]
      BY <1>3, <2>3
    <3>4. ~(j - 1 < x) /\ i < x
      BY <1>1, <2>3
    <3>5. s[i].first < e.first /\ e.first < s[j - 1].first
      BY <1>7, <1>9, <3>2, <3>4
    <3> QED BY <1>9, <3>2, <3>3, <3>5
  <2>4. CASE j > x /\ i = x
    <3>1. j - 1 \in 1 .. m /\ ~(j - 1 < x)
      BY <1>1, <2>4
    <3>2. a[i] = e /\ a[j] = s[j - 1]
      BY <1>2, <1>3, <2>4
    <3> QED BY <1>7, <3>1, <3>2
  <2>5. CASE j > x /\ i > x
    <3>1. i - 1 \in 1 .. m /\ j - 1 \in 1 .. m /\ i - 1 < j - 1
      BY <1>1, <1>8, <2>5
    <3>2. a[i] = s[i - 1] /\ a[j] = s[j - 1]
      BY <1>3, <2>5
    <3> QED BY <1>9, <3>1, <3>2
  <2> QED BY <1>1, <1>8, <2>1, <2>2, <2>3, <2>4, <2>5
<1> QED BY <1>1, <1>2, <1>5, <1>6, <1>8 DEF m, OneMore, Ordered

\* What RemoveAt of the library does.
LEMMA RemoveAtIs ==
  ASSUME NEW S, NEW s \in Seq(S), NEW i \in 1 .. Len(s)
  PROVE  RemoveAt(s, i) \in Seq(S) /\ Removed(RemoveAt(s, i), s, i)
<1>1. Len(s) \in Nat /\ i \in Nat /\ i >= 1 /\ i <= Len(s)
  BY LenProperties
<1> DEFINE before == SubSeq(s, 1, i - 1)
           after == SubSeq(s, i + 1, Len(s))
<1>2. /\ before \in Seq(S) /\ Len(before) = i - 1
      /\ \A j \in 1 .. i - 1 : before[j] = s[j]
  BY <1>1
<1>3. /\ after \in Seq(S) /\ Len(after) = Len(s) - i
      /\ \A j \in 1 .. Len(s) - i : after[j] = s[i + j]
  BY <1>1
<1> HIDE DEF before, after
<1> DEFINE all == before \o after
<1>4. all = RemoveAt(s, i)
  BY DEF RemoveAt, before, after
<1>5. all \in Seq(S) /\ Len(all) = Len(s) - 1
  <2>1. all \in Seq(S) /\ Len(all) = Len(before) + Len(after)
    BY <1>2, <1>3, ConcatProperties, Zenon
  <2> HIDE DEF all
  <2> QED BY <1>1, <1>2, <1>3, <2>1
<1>6. \A j \in 1 .. Len(s) - 1 : all[j] = IF j < i THEN before[j] ELSE after[j - (i - 1)]
  <2>1. \A j \in 1 .. Len(before) + Len(after) :
           (before \o after)[j] = IF j <= Len(before) THEN before[j] ELSE after[j - Len(before)]
    BY <1>2, <1>3, ConcatProperties, Zenon
  <2> QED BY <1>1, <1>2, <1>3, <2>1
<1> HIDE DEF all
<1>7. ASSUME NEW j \in 1 .. Len(s) - 1
      PROVE  all[j] = IF j < i THEN s[j] ELSE s[j + 1]
  <2>1. CASE j < i
    BY <1>1, <1>2, <1>6, <2>1
  <2>2. CASE ~(j < i)
    <3>1. j - (i - 1) \in 1 .. Len(s) - i /\ i + (j - (i - 1)) = j + 1
      BY <1>1, <2>2
    <3>2. after[j - (i - 1)] = s[i + (j - (i - 1))]
      BY <1>3, <3>1
    <3> QED BY <1>6, <2>2, <3>1, <3>2
  <2> QED BY <2>1, <2>2
<1>8. Removed(all, s, i)
  BY <1>5, <1>7 DEF Removed
<1> QED BY <1>4, <1>5, <1>8

\* The entries of a are those of s but the one at x.
OneLess(a, s, x) ==
  /\ \A j \in 1 .. Len(a) : \E i \in 1 .. Len(s) : i # x /\ a[j] = s[i]
  /\ \A i \in 1 .. Len(s) : i # x => \E j \in 1 .. Len(a) : a[j] = s[i]

\* An entry that is removed.
LEMMA SortedRemove ==
  ASSUME NEW s, Len(s) \in Nat, NEW x \in 1 .. Len(s), Ordered(s), NEW a, Removed(a, s, x)
  PROVE  OneLess(a, s, x) /\ Ordered(a)
<1>. DEFINE m == Len(s)
<1>1. /\ m \in Nat /\ x \in 1 .. m /\ Len(a) = m - 1
      /\ \A j \in 1 .. m - 1 : a[j] = IF j < x THEN s[j] ELSE s[j + 1]
      /\ \A i, j \in 1 .. m : i < j => s[i].first < s[j].first
  BY DEF Removed, Ordered
<1> HIDE DEF m
<1>2. ASSUME NEW j \in 1 .. m - 1 PROVE \E i \in 1 .. m : i # x /\ a[j] = s[i]
  <2>1. CASE j < x
    <3>1. j \in 1 .. m /\ j # x
      BY <1>1, <2>1
    <3> QED BY <1>1, <2>1, <3>1
  <2>2. CASE ~(j < x)
    <3>1. j + 1 \in 1 .. m /\ j + 1 # x
      BY <1>1, <2>2
    <3> QED BY <1>1, <2>2, <3>1
  <2> QED BY <2>1, <2>2
<1>3. ASSUME NEW i \in 1 .. m, i # x PROVE \E j \in 1 .. m - 1 : a[j] = s[i]
  <2>1. CASE i < x
    <3>1. i \in 1 .. m - 1
      BY <1>1, <2>1
    <3> QED BY <1>1, <2>1, <3>1
  <2>2. CASE ~(i < x)
    <3>1. i - 1 \in 1 .. m - 1 /\ ~(i - 1 < x) /\ i - 1 + 1 = i
      BY <1>1, <1>3, <2>2
    <3>2. a[i - 1] = s[i - 1 + 1]
      BY <1>1, <3>1
    <3> QED BY <3>1, <3>2
  <2> QED BY <2>1, <2>2
<1>4. ASSUME NEW i \in 1 .. m - 1, NEW j \in 1 .. m - 1, i < j
      PROVE  a[i].first < a[j].first
  <2>. PICK k, l : k = (IF i < x THEN i ELSE i + 1) /\ l = (IF j < x THEN j ELSE j + 1)
    OBVIOUS
  <2>1. k \in 1 .. m /\ l \in 1 .. m /\ k < l
    BY <1>1, <1>4
  <2>2. a[i] = s[k] /\ a[j] = s[l]
    BY <1>1
  <2> QED BY <1>1, <2>1, <2>2
<1> QED BY <1>1, <1>2, <1>3, <1>4 DEF OneLess, Ordered, m

-----------------------------------------------------------------------------
(* Searches. *)

Sorted(n, from) ==
  /\ \A i \in from .. Size(n) : n.array[i].first \in Nat
  /\ \A i, j \in from .. Size(n) : i < j => n.array[i].first < n.array[j].first

\* KeyIndex divides the smaller keys of a sorted node from the others.
LEMMA KeyIndexIs ==
  ASSUME NEW n, Size(n) \in Nat, Sorted(n, 1), NEW k \in Nat
  PROVE  /\ KeyIndex(n, k) \in 1 .. Size(n) + 1
         /\ \A i \in 1 .. Size(n) : n.array[i].first < k <=> i < KeyIndex(n, k)
<1> DEFINE m == Size(n)
           T == {i \in 1 .. m : n.array[i].first < k}
<1>1. \A i \in T : \A j \in 1 .. m : j < i => j \in T
  BY DEF Sorted
<1>2. m \in Nat /\ T \in SUBSET (1 .. m)
  OBVIOUS
<1>3. KeyIndex(n, k) = Cardinality(T) + 1
  BY DEF KeyIndex
<1>4. \A i \in 1 .. m : i \in T <=> n.array[i].first < k
  OBVIOUS
<1> HIDE DEF T
<1>5. /\ Cardinality(T) \in Nat /\ 1 + Cardinality(T) <= m + 1
      /\ \A i \in 1 .. m : i \in T <=> i < 1 + Cardinality(T)
  <2> HIDE DEF m
  <2> QED BY <1>1, <1>2, CountDown
<1> QED BY <1>2, <1>3, <1>4, <1>5

\* Has finds the key of a sorted node, and KeyIndex is where it is.
LEMMA HasIs ==
  ASSUME NEW n, Size(n) \in Nat, Sorted(n, 1), NEW k \in Nat
  PROVE  /\ Has(n, k) <=> \E i \in 1 .. Size(n) : n.array[i].first = k
         /\ Has(n, k) => KeyIndex(n, k) \in 1 .. Size(n)
<1>1. /\ KeyIndex(n, k) \in 1 .. Size(n) + 1
      /\ \A i \in 1 .. Size(n) : n.array[i].first < k <=> i < KeyIndex(n, k)
  BY KeyIndexIs
<1> DEFINE x == KeyIndex(n, k)
           m == Size(n)
<1>2. Has(n, k) <=> x <= m /\ n.array[x].first = k
  BY DEF Has
<1> HIDE DEF x
<1>3. ASSUME x <= m
      PROVE  x \in 1 .. m
  BY <1>1, <1>3 DEF x
<1>4. ASSUME NEW i \in 1 .. m, n.array[i].first = k
      PROVE  x <= m /\ n.array[x].first = k
  <2>1. ~(i < x)
    BY <1>1, <1>4 DEF x
  <2>2. x <= i /\ x \in 1 .. m
    BY <1>1, <2>1 DEF x
  <2>3. ~(n.array[x].first < k) /\ n.array[x].first \in Nat
    BY <1>1, <2>2 DEF x, Sorted
  <2>4. CASE x = i
    BY <2>4, <2>2, <1>4
  <2>5. CASE x < i
    BY <2>5, <2>2, <2>3, <1>4 DEF Sorted
  <2> QED BY <2>2, <2>4, <2>5
<1> QED BY <1>2, <1>3, <1>4 DEF x

\* Lookup ends at the last entry whose separator is not above the key.
LEMMA ChildForIs ==
  ASSUME NEW n, Size(n) \in Nat, Size(n) >= 1, Sorted(n, 2), NEW k \in Nat
  PROVE  \E j \in 1 .. Size(n) :
           /\ ChildFor(n, k) = n.array[j].second
           /\ j > 1 => n.array[j].first <= k
           /\ j < Size(n) => k < n.array[j + 1].first
<1> DEFINE m == Size(n)
           T == {i \in 2 .. m : n.array[i].first <= k}
<1>1. \A i \in T : \A j \in 2 .. m : j < i => j \in T
  BY DEF Sorted
<1>2. m \in Nat /\ T \in SUBSET (2 .. m) /\ 2 <= m + 1
  OBVIOUS
<1>3. ChildFor(n, k) = n.array[1 + Cardinality(T)].second
  BY DEF ChildFor
<1>4. \A i \in 2 .. m : i \in T <=> n.array[i].first <= k
  OBVIOUS
<1>5. \A i \in 2 .. m : n.array[i].first \in Nat
  BY DEF Sorted
<1> HIDE DEF T, m
<1>6. /\ Cardinality(T) \in Nat /\ 2 + Cardinality(T) <= m + 1
      /\ \A i \in 2 .. m : i \in T <=> i < 2 + Cardinality(T)
  BY <1>1, <1>2, CountDown
<1> DEFINE j == 1 + Cardinality(T)
<1>7. j \in 1 .. m
  BY <1>2, <1>6
<1>8. j > 1 => n.array[j].first <= k
  BY <1>2, <1>4, <1>6, <1>7
<1>9. j < m => k < n.array[j + 1].first
  <2> SUFFICES ASSUME j < m PROVE k < n.array[j + 1].first
    OBVIOUS
  <2>1. j + 1 \in 2 .. m /\ ~(j + 1 < 2 + Cardinality(T))
    BY <1>2, <1>6, <1>7
  <2>2. j + 1 \notin T
    BY <1>6, <2>1
  <2>3. ~(n.array[j + 1].first <= k) /\ n.array[j + 1].first \in Nat
    BY <1>4, <1>5, <2>1, <2>2
  <2> QED BY <2>3
<1> QED BY <1>3, <1>7, <1>8, <1>9 DEF m

Acts(t) == Call(t) \/ CallScan(t) \/ Step(t)

\* A step of t leaves what the other threads remember alone.
Local(t) ==
  \A u \in Threads \ {t} :
    /\ pc'[u] = pc[u] /\ call'[u] = call[u] /\ target'[u] = target[u]
    /\ pages'[u] = pages[u] /\ doomed'[u] = doomed[u]
    /\ at'[u] = at[u] /\ fresh'[u] = fresh[u] /\ answer'[u] = answer[u]

\* A thread's variables are its own: no action writes those of another.
LEMMA StepsLocal ==
  ASSUME TypeOK, NEW t \in Threads, Acts(t)
  PROVE  Local(t)
<1> USE DEF TypeOK, Local, GoTo, Reply
<1>1. CASE Call(t)
  BY <1>1 DEF Call
<1>2. CASE CallScan(t)
  BY <1>2 DEF CallScan
<1>3. CASE CheckEmpty(t) \/ StartNewTree(t) \/ IsEmpty(t)
  BY <1>3 DEF CheckEmpty, StartNewTree, IsEmpty
<1>4. CASE FindRoot(t) \/ LatchPage(t) \/ GetValue(t)
  BY <1>4 DEF FindRoot, LatchPage, GetValue
<1>5. CASE InsertIntoLeaf(t) \/ SplitNode(t)
  BY <1>5 DEF InsertIntoLeaf, SplitNode
<1>6. CASE GrowRoot(t) \/ InsertIntoParent(t)
  BY <1>6 DEF GrowRoot, InsertIntoParent
<1>7. CASE RemoveFromLeaf(t) \/ AdjustRoot(t)
  BY <1>7 DEF RemoveFromLeaf, AdjustRoot, treeVars
<1>8. CASE CoalesceOrRedistribute(t)
  BY <1>8 DEF CoalesceOrRedistribute
<1>9. CASE EnterRootLock(t) \/ EnterPage(t) \/ EnterSibling(t)
  BY <1>9 DEF EnterRootLock, EnterPage, EnterSibling, EnterLatch
<1>10. CASE ScanBegin(t) \/ ScanLeaf(t) \/ ScanNext(t) \/ ScanClose(t)
  <2>1. CASE ScanBegin(t)
    BY <2>1 DEF ScanBegin
  <2>2. CASE ScanLeaf(t)
    BY <2>2 DEF ScanLeaf
  <2>3. CASE ScanNext(t)
    BY <2>3 DEF ScanNext
  <2>4. CASE ScanClose(t)
    BY <2>4 DEF ScanClose
  <2> QED BY <1>10, <2>1, <2>2, <2>3, <2>4
<1>11. CASE FreePages(t)
  BY <1>11 DEF FreePages
<1> QED BY <1>1, <1>2, <1>3, <1>4, <1>5, <1>6, <1>7, <1>8, <1>9, <1>10, <1>11 DEF Acts, Step

-----------------------------------------------------------------------------
(* The root lock. *)

\* What a step of t may do to the root lock.
RootLockStep(t) ==
  \/ rootLock' = rootLock
  \/ rootLock' = Unlocked(rootLock, t)
  \/ rootLock' = Locked(rootLock, t) /\ Granted(rootLock, t)
  \/ rootLock' = Locked(rootLock, t) /\ Exclusive(t) /\ rootLock.entered = Nobody
       /\ rootLock.readers # {}

\* Every action does one of these.
LEMMA StepsRootLock ==
  ASSUME NEW t \in Threads, Acts(t)
  PROVE  RootLockStep(t)
<1> USE DEF RootLockStep, lockVars
<1>1. CASE Call(t) \/ CallScan(t)
  BY <1>1 DEF Call, CallScan
<1>2. CASE CheckEmpty(t) \/ StartNewTree(t) \/ IsEmpty(t)
  BY <1>2 DEF CheckEmpty, StartNewTree, IsEmpty
<1>3. CASE FindRoot(t) \/ GetValue(t)
  BY <1>3 DEF FindRoot, GetValue
<1>4. CASE LatchPage(t)
  BY <1>4 DEF LatchPage
<1>5. CASE InsertIntoLeaf(t) \/ SplitNode(t)
  BY Zenon, <1>5 DEF InsertIntoLeaf, SplitNode
<1>6. CASE GrowRoot(t) \/ InsertIntoParent(t)
  BY <1>6 DEF GrowRoot, InsertIntoParent
<1>7. CASE RemoveFromLeaf(t) \/ AdjustRoot(t)
  BY <1>7 DEF RemoveFromLeaf, AdjustRoot
<1>8. CASE CoalesceOrRedistribute(t)
  BY <1>8 DEF CoalesceOrRedistribute
<1>9. CASE EnterRootLock(t) \/ EnterPage(t) \/ EnterSibling(t)
  BY <1>9 DEF EnterRootLock, EnterPage, EnterSibling, EnterLatch
<1>10. CASE ScanBegin(t) \/ ScanLeaf(t) \/ ScanNext(t) \/ ScanClose(t)
  BY <1>10 DEF ScanBegin, ScanLeaf, ScanNext, ScanClose
<1>11. CASE FreePages(t)
  BY <1>11 DEF FreePages
<1> QED BY <1>1, <1>2, <1>3, <1>4, <1>5, <1>6, <1>7, <1>8, <1>9, <1>10, <1>11 DEF Acts, Step

\* What Locked and Unlocked do to a lock, field by field.
LEMMA LockFields ==
  ASSUME NEW l \in Lock, NEW t \in Threads
  PROVE  /\ Unlocked(l, t) \in Lock /\ Locked(l, t) \in Lock
         /\ Unlocked(l, t).entered = (IF l.entered = t THEN Nobody ELSE l.entered)
         /\ Unlocked(l, t).readers = l.readers \ {t}
         /\ Exclusive(t) => /\ Locked(l, t).entered = t
                            /\ Locked(l, t).readers = l.readers
         /\ ~Exclusive(t) => /\ Locked(l, t).entered = l.entered
                             /\ Locked(l, t).readers = l.readers \cup {t}
BY DEF Lock, Locked, Unlocked

\* The same in one word.
LockMoves(l, t) ==
  /\ Unlocked(l, t) \in Lock /\ Locked(l, t) \in Lock
  /\ Unlocked(l, t).entered = (IF l.entered = t THEN Nobody ELSE l.entered)
  /\ Unlocked(l, t).readers = l.readers \ {t}
  /\ Exclusive(t) => /\ Locked(l, t).entered = t
                     /\ Locked(l, t).readers = l.readers
  /\ ~Exclusive(t) => /\ Locked(l, t).entered = l.entered
                      /\ Locked(l, t).readers = l.readers \cup {t}

\* So a thread moves in and out of any lock.
LEMMA LockMovesIs ==
  ASSUME NEW l \in Lock, NEW t \in Threads
  PROVE  LockMoves(l, t)
BY LockFields DEF LockMoves

\* A lock is what its fields are.
LEMMA LockEqual ==
  ASSUME NEW l \in Lock, NEW e, NEW r
  PROVE  l = [entered |-> e, readers |-> r] <=> l.entered = e /\ l.readers = r
BY DEF Lock

\* A step of t neither adds another thread to the root lock nor takes it out.
LEMMA RootLockOthers ==
  ASSUME rootLock \in Lock, NEW t \in Threads, NEW u \in Threads \ {t}, RootLockStep(t)
  PROVE  /\ rootLock' \in Lock
         /\ rootLock'.entered = u <=> rootLock.entered = u
         /\ u \in rootLock'.readers <=> u \in rootLock.readers
         /\ rootLock.entered = u => rootLock'.readers \subseteq rootLock.readers
<1>1. Nobody # u /\ t # u
  BY TreeAssumption
<1> DEFINE l == rootLock
<1>2. /\ Unlocked(l, t) \in Lock /\ Locked(l, t) \in Lock
      /\ Unlocked(l, t).entered = (IF l.entered = t THEN Nobody ELSE l.entered)
      /\ Unlocked(l, t).readers = l.readers \ {t}
      /\ Exclusive(t) => /\ Locked(l, t).entered = t
                         /\ Locked(l, t).readers = l.readers
      /\ ~Exclusive(t) => /\ Locked(l, t).entered = l.entered
                          /\ Locked(l, t).readers = l.readers \cup {t}
  BY Zenon, LockFields
<1>3. CASE rootLock' = rootLock
  BY <1>3
<1>4. CASE rootLock' = Unlocked(rootLock, t)
  BY <1>1, <1>2, <1>4
<1>5. CASE rootLock' = Locked(rootLock, t) /\ Granted(rootLock, t)
  BY <1>1, <1>2, <1>5 DEF Granted
<1>6. CASE rootLock' = Locked(rootLock, t) /\ Exclusive(t) /\ rootLock.entered = Nobody
             /\ rootLock.readers # {}
  BY <1>1, <1>2, <1>6
<1> QED BY <1>3, <1>4, <1>5, <1>6 DEF RootLockStep

\* A step of t does not take the root lock from another thread.
LEMMA RootHeldKept ==
  ASSUME rootLock \in Lock, NEW t \in Threads, NEW u \in Threads \ {t}, RootLockStep(t),
         call'[u] = call[u], HoldsRoot(u)
  PROVE  HoldsRoot(u)'
<1>1. /\ rootLock' \in Lock
      /\ rootLock'.entered = u <=> rootLock.entered = u
      /\ u \in rootLock'.readers <=> u \in rootLock.readers
      /\ rootLock.entered = u => rootLock'.readers \subseteq rootLock.readers
  BY RootLockOthers
<1>2. Exclusive(u)' <=> Exclusive(u)
  BY DEF Exclusive
<1>3. CASE Exclusive(u)
  <2>1. rootLock.entered = u /\ rootLock.readers = {}
    BY <1>3, LockEqual DEF HoldsRoot
  <2>2. rootLock'.entered = u /\ rootLock'.readers = {}
    BY <1>1, <2>1
  <2>3. rootLock' = [entered |-> u, readers |-> {}]
    BY <1>1, <2>2, LockEqual
  <2> QED BY <1>2, <1>3, <2>3 DEF HoldsRoot
<1>4. CASE ~Exclusive(u)
  BY <1>1, <1>2, <1>4 DEF HoldsRoot
<1> QED BY <1>3, <1>4

\* Two threads hold the root lock only if both are readers.
LEMMA RootHeldApart ==
  ASSUME NEW t \in Threads, NEW u \in Threads \ {t}, Exclusive(t), HoldsRoot(t)
  PROVE  ~HoldsRoot(u)
BY DEF HoldsRoot

\* What is known of the root lock for another thread stays true.
LEMMA RootLockOther ==
  ASSUME rootLock \in Lock, NEW t \in Threads, NEW u \in Threads \ {t}, RootLockStep(t),
         Local(t), RootLockOK(u)
  PROVE  RootLockOK(u)'
<1>1. /\ rootLock' \in Lock
      /\ rootLock'.entered = u <=> rootLock.entered = u
      /\ u \in rootLock'.readers <=> u \in rootLock.readers
      /\ rootLock.entered = u => rootLock'.readers \subseteq rootLock.readers
  BY RootLockOthers
<1>2. (Exclusive(u)' <=> Exclusive(u)) /\ pc'[u] = pc[u]
  BY DEF Local, Exclusive
<1> QED BY <1>1, <1>2 DEF RootLockOK

\* Whoever is at these points has nothing of the root lock, or has it as a reader or as a
\* writer.
LEMMA RootLockOwn ==
  ASSUME TypeOK, NEW t \in Threads, Acts(t), RootLockOK(t), PointOf(t)
  PROVE  RootLockOK(t)'
<1> DEFINE l == rootLock
<1>1. /\ l \in Lock /\ t # Nobody
      /\ Unlocked(l, t).entered = (IF l.entered = t THEN Nobody ELSE l.entered)
      /\ Unlocked(l, t).readers = l.readers \ {t}
      /\ Exclusive(t) => /\ Locked(l, t).entered = t
                         /\ Locked(l, t).readers = l.readers
      /\ ~Exclusive(t) => /\ Locked(l, t).entered = l.entered
                          /\ Locked(l, t).readers = l.readers \cup {t}
  BY LockFields, TreeAssumption DEF TypeOK
<1>2. rootLock' = Unlocked(rootLock, t) => RootLockOK(t)'
  BY <1>1 DEF RootLockOK
<1>3. ASSUME rootLock.entered # t, t \notin rootLock.readers, rootLock' = rootLock
      PROVE  RootLockOK(t)'
  BY <1>3 DEF RootLockOK
<1> DEFINE Writes == {"latch", "leaf", "split", "parent", "underflow", "free"}
           Reads == {"latch", "leaf", "free"}
<1>4. ASSUME rootLock' = rootLock, call' = call, pc[t] \in Writes, pc'[t] \in Writes,
             ~Exclusive(t) => pc'[t] \in Reads
      PROVE  RootLockOK(t)'
  BY <1>4 DEF RootLockOK, Exclusive
<1>5. CASE Call(t) \/ CallScan(t)
  <2>1. rootLock.entered # t /\ t \notin rootLock.readers /\ rootLock' = rootLock
    BY <1>5 DEF Call, CallScan, At, lockVars, RootLockOK, PointOf, NoCall, Exclusive
  <2> QED BY <2>1, <1>3
<1>6. CASE CheckEmpty(t) \/ StartNewTree(t)
  BY <1>6, <1>2 DEF CheckEmpty, StartNewTree
<1>7. CASE IsEmpty(t)
  <2>1. rootLock.entered # t /\ t \notin rootLock.readers /\ rootLock' = rootLock
    BY <1>7 DEF IsEmpty, At, lockVars, RootLockOK
  <2> QED BY <2>1, <1>3
<1>8. CASE FindRoot(t)
  <2>1. CASE root_page_id = INVALID_PAGE_ID
    BY <1>8, <1>2, <2>1 DEF FindRoot
  <2>2. CASE root_page_id # INVALID_PAGE_ID
    <3>1. Granted(l, t) /\ rootLock' = Locked(l, t) /\ pc'[t] = "latch" /\ call' = call
      BY <1>8, <2>2 DEF FindRoot, GoTo, TypeOK
    <3>2. CASE Exclusive(t)
      BY <1>1, <3>1, <3>2 DEF Granted, RootLockOK, Exclusive
    <3>3. CASE ~Exclusive(t)
      BY <1>1, <3>1, <3>3 DEF Granted, RootLockOK, Exclusive
    <3> QED BY <3>2, <3>3
  <2> QED BY <2>1, <2>2
<1>9. CASE LatchPage(t)
  <2>1. pc[t] = "latch" /\ pc'[t] \in {"latch", "leaf"} /\ call' = call
        /\ rootLock' \in {rootLock, Unlocked(rootLock, t)}
    BY <1>9 DEF LatchPage, At, GoTo, TypeOK
  <2> QED BY <2>1, <1>2, <1>4
<1>10. CASE GetValue(t)
  <2>1. pc[t] = "leaf" /\ pc'[t] = "free" /\ call' = call /\ rootLock' = rootLock
    BY <1>10 DEF GetValue, At, GoTo, TypeOK, lockVars
  <2> QED BY <2>1, <1>4
<1>11. CASE InsertIntoLeaf(t) \/ SplitNode(t)
  <2>1. pc[t] \in Writes /\ pc'[t] \in {"free", "split", "parent"} /\ call' = call
        /\ rootLock' = rootLock /\ Exclusive(t)
    BY <1>11 DEF InsertIntoLeaf, SplitNode, At, GoTo, TypeOK, lockVars, Exclusive, PointOf
  <2> QED BY <2>1, <1>4
<1>12. CASE GrowRoot(t) \/ InsertIntoParent(t)
  <2>1. pc[t] \in Writes /\ pc'[t] \in {"free", "split"} /\ call' = call
        /\ rootLock' = rootLock /\ Exclusive(t)
    BY <1>12 DEF GrowRoot, InsertIntoParent, At, GoTo, TypeOK, lockVars, Exclusive, PointOf
  <2> QED BY Zenon, <2>1, <1>4
<1>13. CASE RemoveFromLeaf(t) \/ AdjustRoot(t) \/ CoalesceOrRedistribute(t)
  <2>1. pc[t] \in Writes /\ pc'[t] \in {"free", "underflow"} /\ call' = call
        /\ rootLock' = rootLock /\ Exclusive(t)
    BY <1>13 DEF RemoveFromLeaf, AdjustRoot, CoalesceOrRedistribute, At, GoTo, TypeOK,
                 lockVars, Exclusive, PointOf
  <2> QED BY <2>1, <1>4
<1>14. CASE EnterRootLock(t)
  <2>1. pc[t] \in {"check", "root"} /\ pc' = pc /\ call' = call /\ Exclusive(t)
        /\ rootLock' = Locked(rootLock, t)
    BY <1>14 DEF EnterRootLock, At
  <2> QED BY <1>1, <2>1 DEF RootLockOK, Exclusive
<1>15. CASE EnterPage(t) \/ EnterSibling(t)
  <2>1. pc' = pc /\ call' = call /\ rootLock' = rootLock
    BY <1>15 DEF EnterPage, EnterSibling, EnterLatch
  <2> QED BY <2>1 DEF RootLockOK, Exclusive
<1>16. CASE ScanBegin(t) \/ FreePages(t)
  BY <1>16, <1>2 DEF ScanBegin, FreePages
<1>17. CASE ScanLeaf(t) \/ ScanNext(t) \/ ScanClose(t)
  <2>1. pc[t] \in {"scan", "walk"} /\ rootLock' = rootLock
    BY <1>17 DEF ScanLeaf, ScanNext, ScanClose, At, lockVars
  <2>2. rootLock.entered # t /\ t \notin rootLock.readers
    BY <2>1 DEF RootLockOK
  <2> QED BY <2>1, <2>2, <1>3
<1> QED BY <1>5, <1>6, <1>7, <1>8, <1>9, <1>10, <1>11, <1>12, <1>13, <1>14, <1>15, <1>16,
           <1>17 DEF Acts, Step

\* A scan begins only when nobody removes, and the other way round.
LEMMA ScansStayAlone ==
  ASSUME TypeOK, NEW t \in Threads, Acts(t), ScansAlone
  PROVE  ScansAlone'
<1>1. Local(t)
  BY StepsLocal
<1>2. CASE Call(t)
  <2>1. PICK c \in Calls : call' = [call EXCEPT ![t] = c] /\ (c.op = "Remove" => ~Calling("Scan"))
    BY <1>2 DEF Call
  <2>2. call'[t] = c /\ c.op # "Scan"
    BY <2>1 DEF TypeOK, Calls
  <2> QED BY <1>1, <2>1, <2>2 DEF ScansAlone, Local, Calling
<1>3. CASE CallScan(t)
  <2>1. call'[t].op = "Scan" /\ ~Calling("Remove")
    BY <1>3 DEF CallScan, TypeOK
  <2> QED BY <1>1, <2>1 DEF ScansAlone, Local, Calling
<1>4. CASE FreePages(t)
  <2>1. call'[t] = NoCall
    BY <1>4 DEF FreePages, TypeOK
  <2> QED BY <1>1, <2>1 DEF ScansAlone, Local, NoCall
<1>5. CASE ScanLeaf(t)
  <2>1. call'[t].op = call[t].op
    BY <1>5 DEF ScanLeaf, TypeOK
  <2> QED BY <1>1, <2>1 DEF ScansAlone, Local
<1>6. CASE Step(t) /\ ~FreePages(t) /\ ~ScanLeaf(t)
  <2>1. call' = call
    <3>3. CASE CheckEmpty(t) \/ StartNewTree(t) \/ IsEmpty(t)
      BY <3>3 DEF CheckEmpty, StartNewTree, IsEmpty
    <3>4. CASE FindRoot(t) \/ LatchPage(t) \/ GetValue(t)
      BY <3>4 DEF FindRoot, LatchPage, GetValue
    <3>5. CASE InsertIntoLeaf(t) \/ SplitNode(t)
      BY Zenon, <3>5 DEF InsertIntoLeaf, SplitNode
    <3>6. CASE GrowRoot(t) \/ InsertIntoParent(t)
      BY <3>6 DEF GrowRoot, InsertIntoParent
    <3>7. CASE RemoveFromLeaf(t) \/ AdjustRoot(t)
      BY <3>7 DEF RemoveFromLeaf, AdjustRoot
    <3>8. CASE CoalesceOrRedistribute(t)
      BY <3>8 DEF CoalesceOrRedistribute
    <3>9. CASE EnterRootLock(t) \/ EnterPage(t) \/ EnterSibling(t)
      BY <3>9 DEF EnterRootLock, EnterPage, EnterSibling, EnterLatch
    <3>10. CASE ScanBegin(t) \/ ScanNext(t) \/ ScanClose(t)
      BY <3>10 DEF ScanBegin, ScanNext, ScanClose
    <3> QED BY <1>6, <3>3, <3>4, <3>5, <3>6, <3>7, <3>8, <3>9, <3>10 DEF Step
  <2> QED BY <2>1 DEF ScansAlone
<1> QED BY <1>2, <1>3, <1>4, <1>5, <1>6 DEF Acts

\* The root lock's part of the invariant is inductive.
LEMMA RootLocksKept ==
  ASSUME TypeOK, NEW t \in Threads, Acts(t), \A u \in Threads : RootLockOK(u), PointOf(t)
  PROVE  \A u \in Threads : RootLockOK(u)'
<1>1. RootLockStep(t) /\ Local(t) /\ rootLock \in Lock
  BY StepsRootLock, StepsLocal DEF TypeOK
<1>2. ASSUME NEW u \in Threads \ {t} PROVE RootLockOK(u)'
  BY <1>1, RootLockOther
<1>3. RootLockOK(t)'
  BY RootLockOwn
<1> QED BY <1>2, <1>3

-----------------------------------------------------------------------------
(* What a step of t may change, so that what is known of the other threads     *)
(* stays true: pages it has latched, the parent pointers and the bounds of     *)
(* pages whose parent it has latched.                                         *)

Mine(t) == IF Exclusive(t) THEN pages[t] \cup pages'[t] ELSE {}

Owns(t, p) ==
  /\ Exclusive(t)
  /\ IF node[p].parent = INVALID_PAGE_ID THEN HoldsRoot(t) ELSE node[p].parent \in Mine(t)

SameNode(p) ==
  /\ p \in DOMAIN node'
  /\ node'[p].leaf = node[p].leaf /\ node'[p].array = node[p].array
  /\ node'[p].parent = INVALID_PAGE_ID <=> node[p].parent = INVALID_PAGE_ID

Frame(t, g, h) ==
  /\ \A p \in DOMAIN node \ Mine(t) : SameNode(p) /\ h[p] = g[p]
  /\ \A p \in DOMAIN node : p \in DOMAIN node' => node'[p].parent = node[p].parent \/ Owns(t, p)
  /\ \A p \in Live : \/ p \in Live' /\ h[p].lo = g[p].lo /\ h[p].hi = g[p].hi
                     \/ Owns(t, p)
  /\ \A p \in Live : call[t].op = "Remove" \/ (p \in Live' /\ h[p].lo = g[p].lo)
  /\ \A p \in DOMAIN node : p \in DOMAIN node' => node'[p].leaf = node[p].leaf
  /\ \A p \in DOMAIN node : h[p].level = g[p].level
  /\ root_page_id' = root_page_id \/ (Exclusive(t) /\ HoldsRoot(t)) \/ Live = {}

\* What t holds nobody else does, if t is a writer.
Apart(t) == \A u \in Threads \ {t} : Mine(t) \cap pages[u] = {}

\* The pages whose parent u holds are not t's to move.
LEMMA NotOwned ==
  ASSUME NEW t \in Threads, NEW u \in Threads \ {t}, Apart(t), NEW p, ParentHeld(u, p)
  PROVE  ~Owns(t, p)
<1> SUFFICES ASSUME Owns(t, p) PROVE FALSE
  OBVIOUS
<1>1. CASE node[p].parent = INVALID_PAGE_ID
  BY <1>1, RootHeldApart DEF ParentHeld, Owns
<1>2. CASE node[p].parent # INVALID_PAGE_ID
  BY <1>2 DEF ParentHeld, Owns, Apart
<1> QED BY <1>1, <1>2

\* The parent that u holds is still the parent, and held.
LEMMA ParentKept ==
  ASSUME NEW t \in Threads, NEW u \in Threads \ {t}, Apart(t), Local(t), RootLockStep(t),
         rootLock \in Lock, NEW g, NEW h, Frame(t, g, h),
         NEW p \in DOMAIN node, p \in DOMAIN node', ParentHeld(u, p)
  PROVE  node'[p].parent = node[p].parent /\ ParentHeld(u, p)'
<1>1. ~Owns(t, p)
  BY NotOwned
<1>2. node'[p].parent = node[p].parent
  BY <1>1 DEF Frame
<1>3. pages'[u] = pages[u] /\ call'[u] = call[u]
  BY DEF Local
<1>4. CASE node[p].parent = INVALID_PAGE_ID
  <2>1. HoldsRoot(u)
    BY <1>4 DEF ParentHeld
  <2>2. HoldsRoot(u)'
    BY <1>3, <2>1, RootHeldKept
  <2> QED BY <1>2, <1>4, <2>2 DEF ParentHeld
<1>5. CASE node[p].parent # INVALID_PAGE_ID
  BY <1>2, <1>3, <1>5 DEF ParentHeld
<1> QED BY <1>2, <1>4, <1>5

\* A page that u has latched is not changed by t.
LEMMA HeldKept ==
  ASSUME NEW t \in Threads, NEW u \in Threads \ {t}, Apart(t), NEW g, NEW h, Frame(t, g, h),
         NEW p \in DOMAIN node, p \in pages[u]
  PROVE  SameNode(p) /\ h[p] = g[p]
BY DEF Apart, Frame

\* The parts of what is known of u.
LEMMA PointKept ==
  ASSUME NEW t \in Threads, NEW u \in Threads \ {t}, Apart(t), Local(t),
         NEW g, NEW h, Frame(t, g, h), PointOf(u)
  PROVE  PointOf(u)'
<1>1. /\ pc'[u] = pc[u] /\ call'[u] = call[u] /\ pages'[u] = pages[u] /\ doomed'[u] = doomed[u]
      /\ Exclusive(u)' <=> Exclusive(u)
  BY DEF Local, Exclusive
<1>2. pages[u] \subseteq DOMAIN node /\ doomed[u] \subseteq pages[u]
  BY DEF PointOf
<1>3. \A p \in pages[u] : SameNode(p)
  BY <1>2, HeldKept
<1>4. pages'[u] \subseteq DOMAIN node'
  BY <1>1, <1>3 DEF SameNode
<1>5. \A p \in doomed[u] : node'[p].array = <<>>
  BY <1>2, <1>3 DEF PointOf, SameNode
<1> QED BY <1>1, <1>4, <1>5 DEF PointOf

\* What u knows of the page it is about to latch stays true: t can neither move its
\* bounds nor its parent pointer, since u has the parent.
LEMMA DescendsKept ==
  ASSUME NEW t \in Threads, NEW u \in Threads \ {t}, Apart(t), Local(t), RootLockStep(t),
         rootLock \in Lock, NEW g, NEW h, Frame(t, g, h), PointOf(u), Descends(g, u),
         Rooted(g), DOMAIN node \subseteq PageIds
  PROVE  Descends(h, u)'
<1> SUFFICES ASSUME pc[u] = "latch" PROVE Descends(h, u)'
  BY DEF Descends, Local
<1> DEFINE p == target[u]
<1>1. /\ pc'[u] = pc[u] /\ call'[u] = call[u] /\ pages'[u] = pages[u] /\ target'[u] = p
  BY DEF Local
<1>2. /\ p \in Live /\ InRange(g, u, p)
      /\ pages[u] = {} => p = root_page_id /\ HoldsRoot(u)
      /\ pages[u] # {} => node[p].parent \in pages[u]
      /\ \A q \in pages[u] : g[p].level < g[q].level
  BY DEF Descends
<1>3. p \in DOMAIN node
  BY <1>2 DEF Live
<1>4. pages[u] \subseteq DOMAIN node
  BY DEF PointOf
<1>5. ~Owns(t, p)
  <2>1. CASE pages[u] = {}
    <3>1. node[p].parent = INVALID_PAGE_ID
      BY <1>2, <2>1 DEF Rooted
    <3> QED BY <1>2, <2>1, <3>1, RootHeldApart DEF Owns, ParentHeld
  <2>2. CASE pages[u] # {}
    <3>1. node[p].parent \in pages[u]
      BY <1>2, <2>2
    <3>2. node[p].parent \notin Mine(t)
      BY <3>1 DEF Apart
    <3>3. CASE node[p].parent = INVALID_PAGE_ID
      <4>1. INVALID_PAGE_ID \in PageIds
        BY <1>4, <3>1, <3>3
      <4> QED BY <4>1 DEF INVALID_PAGE_ID, PageIds
    <3> QED BY <3>2, <3>3 DEF Owns, ParentHeld
  <2> QED BY <2>1, <2>2
<1>6. p \in Live' /\ h[p].lo = g[p].lo /\ h[p].hi = g[p].hi
  BY <1>2, <1>5 DEF Frame
<1>7. p \in DOMAIN node' /\ node'[p].parent = node[p].parent
  BY <1>3, <1>5, <1>6 DEF Frame, Live
<1>8. \A q \in pages[u] : h[p].level < h[q].level
  BY <1>2, <1>3, <1>4 DEF Frame
<1>9. ASSUME pages[u] = {} PROVE p = root_page_id' /\ HoldsRoot(u)'
  <2>1. HoldsRoot(u)'
    BY <1>1, <1>2, <1>9, RootHeldKept
  <2>2. ~(Exclusive(t) /\ HoldsRoot(t))
    BY <1>2, <1>9, RootHeldApart
  <2> QED BY <1>2, <1>9, <2>1, <2>2 DEF Frame
<1>10. InRange(h, u, p)'
  BY <1>1, <1>2, <1>6 DEF InRange
<1>11. CASE pages[u] = {}
  BY <1>1, <1>6, <1>9, <1>10, <1>11 DEF Descends
<1>12. CASE pages[u] # {}
  BY <1>1, <1>2, <1>6, <1>7, <1>8, <1>10, <1>12 DEF Descends
<1> QED BY <1>11, <1>12

\* u's leaf stays the one for its key.
LEMMA InLeafKept ==
  ASSUME NEW t \in Threads, NEW u \in Threads \ {t}, Apart(t), Local(t),
         NEW g, NEW h, Frame(t, g, h), PointOf(u), InLeaf(g, u)
  PROVE  InLeaf(h, u)'
<1> SUFFICES ASSUME pc[u] \in {"leaf", "scan"} PROVE InLeaf(h, u)'
  BY DEF InLeaf, Local
<1>1. /\ pc'[u] = pc[u] /\ call'[u] = call[u] /\ pages'[u] = pages[u] /\ target'[u] = target[u]
  BY DEF Local
<1>2. target[u] \in pages[u] /\ target[u] \in DOMAIN node
  BY DEF InLeaf, PointOf
<1>3. SameNode(target[u]) /\ h[target[u]] = g[target[u]]
  BY <1>2, HeldKept
<1> QED BY <1>1, <1>2, <1>3 DEF InLeaf, InRange, SameNode

\* The leaf that a scan goes on to stays there: nobody removes beside a scan.
LEMMA WalksKept ==
  ASSUME NEW t \in Threads, NEW u \in Threads \ {t}, Local(t), ScansAlone,
         NEW g, NEW h, Frame(t, g, h), PointOf(u), Walks(u)
  PROVE  Walks(u)'
<1> SUFFICES ASSUME pc[u] = "walk" PROVE Walks(u)'
  BY DEF Walks, Local
<1>1. target'[u] = target[u] /\ target[u] \in Live /\ node[target[u]].leaf
  BY DEF Walks, Local
<1>2. call[t].op # "Remove"
  BY DEF ScansAlone, PointOf
<1>3. target[u] \in Live'
  BY <1>1, <1>2 DEF Frame
<1>4. node'[target[u]].leaf
  BY <1>1, <1>3 DEF Frame, Live
<1> QED BY <1>1, <1>3, <1>4 DEF Walks

\* The page that u splits or merges stays as it is, with its parent.
LEMMA ClimbsKept ==
  ASSUME NEW t \in Threads, NEW u \in Threads \ {t}, Apart(t), Local(t), RootLockStep(t),
         rootLock \in Lock, NEW g, NEW h, Frame(t, g, h), PointOf(u), Climbs(g, u)
  PROVE  /\ Climbs(h, u)'
         /\ pc[u] \in {"split", "parent", "underflow"} =>
              /\ SameNode(at[u]) /\ h[at[u]] = g[at[u]]
              /\ node'[at[u]].parent = node[at[u]].parent
<1> SUFFICES ASSUME pc[u] \in {"split", "parent", "underflow"}
             PROVE  /\ Climbs(h, u)'
                    /\ SameNode(at[u]) /\ h[at[u]] = g[at[u]]
                    /\ node'[at[u]].parent = node[at[u]].parent
  BY DEF Climbs, Local
<1>1. /\ pc'[u] = pc[u] /\ pages'[u] = pages[u] /\ at'[u] = at[u] /\ doomed'[u] = doomed[u]
  BY DEF Local
<1>. PICK p : p = at[u]
  OBVIOUS
<1>2. p \in pages[u] /\ p \in DOMAIN node /\ p \notin doomed[u] /\ ParentHeld(u, p)
  BY DEF Climbs, PointOf
<1>3. SameNode(p) /\ h[p] = g[p]
  BY <1>2, HeldKept
<1>4. p \in DOMAIN node'
  BY <1>3 DEF SameNode
<1>5. node'[p].parent = node[p].parent /\ ParentHeld(u, p)'
  BY <1>2, <1>4, ParentKept
<1>6. ParentHeld(u, at[u])'
  BY <1>1, <1>5 DEF ParentHeld
<1> QED BY <1>1, <1>2, <1>3, <1>5, <1>6 DEF Climbs

\* It stays too large.
LEMMA SplitsKept ==
  ASSUME NEW t \in Threads, NEW u \in Threads \ {t}, Apart(t), Local(t),
         NEW g, NEW h, Frame(t, g, h), PointOf(u), Climbs(g, u), Splits(u)
  PROVE  Splits(u)'
<1> SUFFICES ASSUME pc[u] = "split" PROVE Splits(u)'
  BY DEF Splits, Local
<1>1. at[u] \in pages[u] /\ at[u] \in DOMAIN node
  BY DEF Climbs, PointOf
<1>2. SameNode(at[u]) /\ at'[u] = at[u]
  BY <1>1, HeldKept DEF Local
<1> QED BY <1>2 DEF Splits, SameNode, Size, MaxSize

\* The two halves that u is about to hang into their parent stay as they are.
LEMMA LinksKept ==
  ASSUME NEW t \in Threads, NEW u \in Threads \ {t}, Apart(t), Local(t), RootLockStep(t),
         rootLock \in Lock, NEW g, NEW h, Frame(t, g, h), PointOf(u), Climbs(g, u), Links(g, u)
  PROVE  Links(h, u)'
<1> SUFFICES ASSUME pc[u] = "parent" PROVE Links(h, u)'
  BY DEF Links, Local
<1>. PICK p, q : p = at[u] /\ q = fresh[u]
  OBVIOUS
<1>1. /\ pages'[u] = pages[u] /\ at'[u] = p /\ fresh'[u] = q
  BY DEF Local
<1>2. /\ p \in pages[u] /\ q \in pages[u] /\ p \in DOMAIN node /\ q \in DOMAIN node
      /\ ParentHeld(u, p) /\ node[p].parent = node[q].parent
  BY DEF Climbs, Links, PointOf
<1>3. ParentHeld(u, q)
  BY <1>2 DEF ParentHeld
<1>4. SameNode(p) /\ h[p] = g[p] /\ SameNode(q) /\ h[q] = g[q]
  BY <1>2, HeldKept
<1>5. p \in DOMAIN node' /\ q \in DOMAIN node'
  BY <1>4 DEF SameNode
<1>6. node'[p].parent = node[p].parent /\ node'[q].parent = node[q].parent
  BY <1>2, <1>3, <1>5, ParentKept
<1>7. /\ p # q
      /\ node[p].parent = node[q].parent /\ g[p].level = g[q].level
      /\ g[p].hi = g[q].lo /\ g[p].cap = g[q].hi /\ g[q].cap = g[q].hi
      /\ node[q].array[1].first = g[q].lo
      /\ Half(node[p]) <= Size(node[p]) /\ Half(node[q]) <= Size(node[q])
  BY DEF Links
<1>8. (Half(node[p]) <= Size(node[p]) /\ Half(node[q]) <= Size(node[q]))'
  BY <1>4, <1>7 DEF Half, Size, SameNode
<1> QED BY <1>1, <1>2, <1>4, <1>6, <1>7, <1>8 DEF Links, SameNode

\* It stays as small as it is.
LEMMA ShrinksKept ==
  ASSUME NEW t \in Threads, NEW u \in Threads \ {t}, Apart(t), Local(t),
         NEW g, NEW h, Frame(t, g, h), PointOf(u), Climbs(g, u), Shrinks(u)
  PROVE  Shrinks(u)'
<1> SUFFICES ASSUME pc[u] = "underflow" PROVE Shrinks(u)'
  BY DEF Shrinks, Local
<1>1. at[u] \in pages[u] /\ at[u] \in DOMAIN node
  BY DEF Climbs, PointOf
<1>2. SameNode(at[u]) /\ at'[u] = at[u] /\ pages'[u] = pages[u]
  BY <1>1, HeldKept DEF Local
<1>3. MinSize(node[at[u]])' = MinSize(node[at[u]]) /\ Low(node[at[u]])' = Low(node[at[u]])
      /\ Size(node[at[u]])' = Size(node[at[u]])
  BY <1>2 DEF MinSize, MaxSize, Low, Size, SameNode
<1>4. \A c : IsChild(c, at[u]) => IsChild(c, at[u])'
  BY <1>2 DEF IsChild, Size, SameNode
<1>5. node'[at'[u]].leaf = node[at[u]].leaf
  BY <1>2 DEF SameNode
<1> QED BY <1>2, <1>3, <1>4, <1>5 DEF Shrinks

\* Why u has not released a page stays true.
LEMMA KeepsKept ==
  ASSUME NEW t \in Threads, NEW u \in Threads \ {t}, Apart(t), Local(t), RootLockStep(t),
         rootLock \in Lock, NEW g, NEW h, Frame(t, g, h), PointOf(u), Climbs(g, u), Keeps(g, u)
  PROVE  Keeps(h, u)'
<1>1. /\ pc'[u] = pc[u] /\ call'[u] = call[u] /\ pages'[u] = pages[u] /\ at'[u] = at[u]
      /\ doomed'[u] = doomed[u] /\ (Exclusive(u)' <=> Exclusive(u))
  BY DEF Local, Exclusive
<1> SUFFICES ASSUME Exclusive(u), pc[u] \in {"latch", "leaf", "split", "parent", "underflow"},
                    NEW p \in pages[u] \ doomed[u]
             PROVE  \/ ParentHeld(u, p)'
                    \/ /\ IsSafe(node[p], call[u].op)'
                       /\ pc[u] = "underflow" => h[at[u]].level < h[p].level
  BY <1>1 DEF Keeps
<1>2. p \in DOMAIN node
  BY DEF PointOf
<1>3. SameNode(p) /\ h[p] = g[p]
  BY <1>2, HeldKept
<1>4. CASE ParentHeld(u, p)
  <2>1. p \in DOMAIN node'
    BY <1>3 DEF SameNode
  <2> QED BY <1>2, <1>4, <2>1, ParentKept
<1>5. CASE /\ IsSafe(node[p], call[u].op)
           /\ pc[u] = "underflow" => g[at[u]].level < g[p].level
  <2>1. IsSafe(node[p], call[u].op)'
    BY <1>1, <1>3, <1>5 DEF IsSafe, SameNode, Size, MinSize, MaxSize
  <2>2. pc[u] = "underflow" => h[at[u]].level < h[p].level
    BY <1>3, <1>5, HeldKept DEF Climbs, PointOf
  <2> QED BY <2>1, <2>2
<1> QED BY <1>4, <1>5 DEF Keeps

\* The levels of u's pages stay apart.
LEMMA LevelsKept ==
  ASSUME NEW t \in Threads, NEW u \in Threads \ {t}, Apart(t), Local(t),
         NEW g, NEW h, Frame(t, g, h), PointOf(u), Climbs(g, u), Levels(g, u)
  PROVE  Levels(h, u)'
<1>1. /\ pc'[u] = pc[u] /\ pages'[u] = pages[u] /\ at'[u] = at[u]
      /\ (Exclusive(u)' <=> Exclusive(u))
  BY DEF Local, Exclusive
<1>2. \A p \in pages[u] : h[p] = g[p]
  BY HeldKept DEF PointOf
<1>3. pc[u] = "underflow" => h[at[u]] = g[at[u]]
  BY <1>2 DEF Climbs
<1> QED BY <1>1, <1>2, <1>3 DEF Levels

\* All that is known of u stays true when t takes a step.
LEMMA ThreadKept ==
  ASSUME NEW t \in Threads, NEW u \in Threads \ {t}, Apart(t), Local(t), RootLockStep(t),
         rootLock \in Lock, NEW g, NEW h, Frame(t, g, h), ThreadOK(g, u),
         Rooted(g), DOMAIN node \subseteq PageIds, ScansAlone
  PROVE  ThreadOK(h, u)'
<1> USE DEF ThreadOK
<1>1. PointOf(u)'
  BY PointKept
<1>2. Descends(h, u)'
  BY DescendsKept
<1>3. InLeaf(h, u)'
  BY InLeafKept
<1>4. Climbs(h, u)'
  BY ClimbsKept
<1>5. Splits(u)'
  BY SplitsKept
<1>6. Links(h, u)'
  BY LinksKept
<1>7. Shrinks(u)'
  BY ShrinksKept
<1>8. Keeps(h, u)'
  BY KeepsKept
<1>9. Levels(h, u)'
  BY LevelsKept
<1>10. Walks(u)'
  BY WalksKept
<1> QED BY <1>1, <1>2, <1>3, <1>4, <1>5, <1>6, <1>7, <1>8, <1>9, <1>10

\* Who waits for a page still waits for it.
LEMMA WaitsKept ==
  ASSUME NEW t \in Threads, NEW u \in Threads \ {t}, Apart(t), Local(t), RootLockStep(t),
         rootLock \in Lock, NEW g, NEW h, Frame(t, g, h), ThreadOK(g, u), NEW p, Waits(u, p)
  PROVE  Waits(u, p)'
<1>1. pc'[u] = pc[u] /\ target'[u] = target[u] /\ at'[u] = at[u]
  BY DEF Local
<1>2. CASE pc[u] = "latch" /\ target[u] = p
  BY <1>1, <1>2 DEF Waits
<1>3. CASE pc[u] = "underflow" /\ node[at[u]].parent # INVALID_PAGE_ID /\ Sibling(at[u]) = p
  <2>1. node'[at[u]].parent = node[at[u]].parent
    BY <1>3, ClimbsKept DEF ThreadOK
  <2> DEFINE q == node[at[u]].parent
  <2>2. q \in pages[u] /\ q \in DOMAIN node
    BY <1>3 DEF ThreadOK, Climbs, ParentHeld, PointOf
  <2>3. node'[q].array = node[q].array
    BY <2>2, HeldKept DEF SameNode
  <2>4. Sibling(at[u])' = Sibling(at[u])
    BY <1>1, <2>1, <2>3 DEF Sibling, ValueIndex, Size
  <2> QED BY <1>1, <1>3, <2>1, <2>4 DEF Waits
<1> QED BY <1>2, <1>3 DEF Waits

-----------------------------------------------------------------------------
(* The latches. *)

\* A step of t unlatches the pages R and latches the pages A.
LatchStep(t, R, A) ==
  /\ R \subseteq pages[t] /\ A \subseteq PageIds /\ R \cap A = {}
  /\ pages'[t] = (pages[t] \ R) \cup A
  /\ \A p \in PageIds :
       latch'[p] = IF p \in A THEN Locked(latch[p], t)
                   ELSE IF p \in R THEN Unlocked(latch[p], t) ELSE latch[p]
  /\ \A p \in A : Granted(latch[p], t)

\* A step of t enters the latch of a page that readers hold.
LatchEntered(t, p) ==
  /\ p \in PageIds /\ Exclusive(t) /\ Waits(t, p) /\ pages'[t] = pages[t]
  /\ latch[p].entered = Nobody /\ latch[p].readers # {}
  /\ \A q \in PageIds : latch'[q] = IF q = p THEN Locked(latch[q], t) ELSE latch[q]

\* What is known of another thread's latches stays true.
LEMMA LatchOther ==
  ASSUME latch \in [PageIds -> Lock], NEW t \in Threads, NEW u \in Threads \ {t}, Local(t),
         NEW p \in PageIds, LatchOK(u, p), LatchOK(t, p), Waits(u, p) => Waits(u, p)',
         \/ \E R, A : LatchStep(t, R, A)
         \/ \E q : LatchEntered(t, q)
  PROVE  LatchOK(u, p)'
<1> DEFINE l == latch[p]
<1>1. /\ l \in Lock /\ t # Nobody /\ u # Nobody /\ t # u
      /\ Unlocked(l, t) \in Lock /\ Locked(l, t) \in Lock
      /\ Unlocked(l, t).entered = (IF l.entered = t THEN Nobody ELSE l.entered)
      /\ Unlocked(l, t).readers = l.readers \ {t}
      /\ Exclusive(t) => /\ Locked(l, t).entered = t
                         /\ Locked(l, t).readers = l.readers
      /\ ~Exclusive(t) => /\ Locked(l, t).entered = l.entered
                          /\ Locked(l, t).readers = l.readers \cup {t}
  <2>. PICK k : k = l
    OBVIOUS
  <2>1. k \in Lock /\ t # Nobody /\ u # Nobody /\ t # u
    BY TreeAssumption
  <2>2. LockMoves(k, t)
    BY Zenon, <2>1, LockMovesIs
  <2> QED BY <2>1, <2>2 DEF LockMoves
<1>2. /\ pages'[u] = pages[u] /\ (Exclusive(u)' <=> Exclusive(u))
  BY DEF Local, Exclusive
<1>3. \/ latch'[p] = l
      \/ latch'[p] = Unlocked(l, t)
      \/ latch'[p] = Locked(l, t) /\ Granted(l, t)
      \/ latch'[p] = Locked(l, t) /\ Exclusive(t) /\ l.entered = Nobody /\ l.readers # {}
  BY DEF LatchStep, LatchEntered
<1> DEFINE m == latch'[p]
<1>4. /\ m \in Lock
      /\ m.entered = u <=> l.entered = u
      /\ u \in m.readers <=> u \in l.readers
      /\ l.entered = u => m.readers \subseteq l.readers
  <2>1. CASE latch'[p] = l
    BY <1>1, <2>1
  <2>2. CASE latch'[p] = Unlocked(l, t)
    BY <1>1, <2>2
  <2>3. CASE latch'[p] = Locked(l, t) /\ Granted(l, t)
    BY <1>1, <2>3 DEF Granted
  <2>4. CASE latch'[p] = Locked(l, t) /\ Exclusive(t) /\ l.entered = Nobody /\ l.readers # {}
    BY <1>1, <2>4
  <2> QED BY <1>3, <2>1, <2>2, <2>3, <2>4
<1>5. ASSUME p \in pages[u] PROVE Held(u, p)'
  <2>1. CASE Exclusive(u)
    <3>1. l.entered = u /\ l.readers = {}
      BY <1>1, <1>5, <2>1, LockEqual DEF LatchOK, Held
    <3>2. m \in Lock /\ m.entered = u /\ m.readers = {}
      BY <1>4, <3>1
    <3>3. m = [entered |-> u, readers |-> {}]
      BY <3>2, LockEqual
    <3> QED BY <1>2, <2>1, <3>3 DEF Held
  <2>2. CASE ~Exclusive(u)
    BY <1>2, <1>4, <1>5, <2>2 DEF LatchOK, Held
  <2> QED BY <2>1, <2>2
<1>6. m.entered = u /\ p \notin pages[u] => Exclusive(u)' /\ Waits(u, p)'
  BY <1>2, <1>4 DEF LatchOK
<1>7. u \in m.readers => p \in pages[u] /\ ~Exclusive(u)'
  BY <1>2, <1>4 DEF LatchOK
<1> QED BY <1>2, <1>5, <1>6, <1>7 DEF LatchOK

\* What is known of t's own latches stays true when it latches and unlatches pages.
LEMMA LatchOwn ==
  ASSUME latch \in [PageIds -> Lock], NEW t \in Threads,
         NEW p \in PageIds, LatchOK(t, p), NEW R, NEW A, LatchStep(t, R, A),
         pages'[t] # {} => (Exclusive(t)' <=> Exclusive(t)),
         Exclusive(t) /\ Waits(t, p) => p \in A \/ (Waits(t, p)' /\ Exclusive(t)')
  PROVE  LatchOK(t, p)'
<1> DEFINE l == latch[p]
           m == latch'[p]
<1>1. /\ l \in Lock /\ t # Nobody
      /\ Unlocked(l, t) \in Lock /\ Locked(l, t) \in Lock
      /\ Unlocked(l, t).entered = (IF l.entered = t THEN Nobody ELSE l.entered)
      /\ Unlocked(l, t).readers = l.readers \ {t}
      /\ Exclusive(t) => /\ Locked(l, t).entered = t
                         /\ Locked(l, t).readers = l.readers
      /\ ~Exclusive(t) => /\ Locked(l, t).entered = l.entered
                          /\ Locked(l, t).readers = l.readers \cup {t}
  BY LockFields, TreeAssumption
<1>2. CASE p \in A
  <2>1. p \in pages'[t] /\ m = Locked(l, t) /\ Granted(l, t) /\ (Exclusive(t)' <=> Exclusive(t))
    BY <1>2 DEF LatchStep
  <2>2. CASE Exclusive(t)
    <3>1. m.entered = t /\ m.readers = {} /\ m \in Lock
      BY <1>1, <2>1, <2>2 DEF Granted
    <3>2. m = [entered |-> t, readers |-> {}]
      <4>. PICK k : k = m
        OBVIOUS
      <4>1. k \in Lock /\ k.entered = t /\ k.readers = {}
        BY <3>1
      <4> QED BY <4>1 DEF Lock
    <3> QED BY <2>1, <2>2, <3>1, <3>2 DEF LatchOK, Held
  <2>3. CASE ~Exclusive(t)
    <3>1. t \in m.readers /\ m.entered = Nobody
      BY <1>1, <2>1, <2>3 DEF Granted
    <3> QED BY <1>1, <2>1, <2>3, <3>1 DEF LatchOK, Held
  <2> QED BY <2>2, <2>3
<1>3. CASE p \in R
  <2>1. p \notin pages'[t] /\ m = Unlocked(l, t)
    BY <1>3 DEF LatchStep
  <2>2. m.entered # t /\ t \notin m.readers
    BY <1>1, <2>1
  <2> QED BY <2>1, <2>2 DEF LatchOK
<1>4. CASE p \notin R /\ p \notin A
  <2>1. m = l /\ (p \in pages'[t] <=> p \in pages[t])
    BY <1>4 DEF LatchStep
  <2>2. CASE p \in pages[t]
    <3>1. Exclusive(t)' <=> Exclusive(t)
      BY <2>1, <2>2
    <3>2. Held(t, p)'
      BY <2>1, <2>2, <3>1 DEF LatchOK, Held
    <3> QED BY <2>1, <2>2, <3>1, <3>2 DEF LatchOK
  <2>3. CASE p \notin pages[t]
    <3>1. t \notin l.readers /\ (l.entered = t => Exclusive(t)' /\ Waits(t, p)')
      BY <1>4, <2>3 DEF LatchOK
    <3> QED BY <2>1, <2>3, <3>1 DEF LatchOK
  <2> QED BY <2>2, <2>3
<1> QED BY <1>2, <1>3, <1>4

\* The same when it enters a latch that readers hold.
LEMMA LatchOwnEntered ==
  ASSUME latch \in [PageIds -> Lock], NEW t \in Threads, Exclusive(t)' <=> Exclusive(t),
         NEW p \in PageIds, LatchOK(t, p), NEW q, LatchEntered(t, q), \A r : Waits(t, r) => Waits(t, r)'
  PROVE  LatchOK(t, p)'
<1> DEFINE l == latch[p]
           m == latch'[p]
<1>1. l \in Lock /\ Exclusive(t) /\ pages'[t] = pages[t] /\ t # Nobody
  BY TreeAssumption DEF LatchEntered
<1>2. CASE p = q
  <2>1. m.entered = t /\ m.readers = l.readers /\ l.entered = Nobody
    BY <1>1, <1>2, LockFields DEF LatchEntered
  <2>2. p \notin pages[t]
    BY <1>1, <2>1 DEF LatchOK, Held
  <2> QED BY <1>1, <1>2, <2>1, <2>2 DEF LatchOK, LatchEntered
<1>3. CASE p # q
  BY <1>1, <1>3 DEF LatchEntered, LatchOK, Held
<1> QED BY <1>2, <1>3

\* No two threads have a page latched, unless both are readers.
LEMMA HeldApart ==
  ASSUME NEW t \in Threads, NEW u \in Threads \ {t}, NEW p \in PageIds,
         LatchOK(t, p), LatchOK(u, p), p \in pages[t], p \in pages[u]
  PROVE  ~Exclusive(t) /\ ~Exclusive(u)
BY DEF LatchOK, Held

\* What holds of every state, for some bounds of the nodes.
Good(g) ==
  /\ TypeOK
  /\ TreeOK(g)
  /\ \A t \in Threads : ThreadOK(g, t)
  /\ LatchInv
  /\ ScansAlone
  /\ HeaderOK

\* What t does to latches, and that it does not leave one it waits for.
LatchesOK(t) ==
  \/ \E R, A :
       /\ LatchStep(t, R, A)
       /\ pages'[t] # {} => (Exclusive(t)' <=> Exclusive(t))
       /\ \A p \in PageIds : Exclusive(t) /\ Waits(t, p) => p \in A
  \/ /\ \E p : LatchEntered(t, p)
     /\ Exclusive(t)'
     /\ \A p : Waits(t, p) => Waits(t, p)'

\* A step of t keeps the invariant if it keeps the tree in order and is within its frame.
LEMMA StepKeeps ==
  ASSUME NEW g, NEW h, Good(g), NEW t \in Threads, Acts(t), Apart(t), Frame(t, g, h),
         TypeOK', TreeOK(h)', ThreadOK(h, t)', LatchesOK(t), HeaderOK'
  PROVE  Good(h)'
<1>1. /\ Local(t) /\ RootLockStep(t) /\ rootLock \in Lock /\ latch \in [PageIds -> Lock]
      /\ DOMAIN node \subseteq PageIds
  BY StepsLocal, StepsRootLock DEF Good, TypeOK
<1>2. Rooted(g) /\ ScansAlone /\ \A u \in Threads : ThreadOK(g, u)
  BY DEF Good, TreeOK
<1>3. ASSUME NEW u \in Threads PROVE ThreadOK(h, u)'
  <2>1. CASE u = t
    BY <2>1
  <2>2. CASE u # t
    BY <1>1, <1>2, <2>2, ThreadKept
  <2> QED BY <2>1, <2>2
<1>4. ASSUME NEW u \in Threads, NEW p \in PageIds PROVE LatchOK(u, p)'
  <2>1. LatchOK(u, p) /\ LatchOK(t, p)
    BY DEF Good, LatchInv
  <2>2. CASE u # t
    <3>1. Waits(u, p) => Waits(u, p)'
      BY <1>1, <1>2, <2>2, WaitsKept
    <3>2. (\E R, A : LatchStep(t, R, A)) \/ (\E q : LatchEntered(t, q))
      BY DEF LatchesOK
    <3> QED BY <1>1, <2>1, <2>2, <3>1, <3>2, LatchOther
  <2>3. CASE u = t
    <3>1. CASE \E R, A :
                 /\ LatchStep(t, R, A)
                 /\ pages'[t] # {} => (Exclusive(t)' <=> Exclusive(t))
                 /\ \A q \in PageIds : Exclusive(t) /\ Waits(t, q) => q \in A
      <4>1. PICK R, A :
                 /\ LatchStep(t, R, A)
                 /\ pages'[t] # {} => (Exclusive(t)' <=> Exclusive(t))
                 /\ \A q \in PageIds : Exclusive(t) /\ Waits(t, q) => q \in A
        BY <3>1
      <4>2. LatchOK(t, p)'
        BY <1>1, <2>1, <4>1, LatchOwn
      <4> QED BY <2>3, <4>2
    <3>2. CASE /\ \E q : LatchEntered(t, q)
               /\ Exclusive(t)'
               /\ \A q : Waits(t, q) => Waits(t, q)'
      <4>1. PICK q : LatchEntered(t, q)
        BY <3>2
      <4>2. Exclusive(t)' <=> Exclusive(t)
        BY <3>2, <4>1 DEF LatchEntered
      <4>3. LatchOK(t, p)'
        BY <1>1, <2>1, <3>2, <4>1, <4>2, LatchOwnEntered
      <4> QED BY <2>3, <4>3
    <3> QED BY <3>1, <3>2 DEF LatchesOK
  <2> QED BY <2>2, <2>3
<1>5. \A u \in Threads : RootLockOK(u)'
  BY RootLocksKept DEF Good, LatchInv, ThreadOK
<1>6. ScansAlone'
  BY <1>2, ScansStayAlone DEF Good
<1> QED BY <1>3, <1>4, <1>5, <1>6 DEF Good, LatchInv

\* Which nodes hang only changes for t.
LEMMA HangsKept ==
  ASSUME NEW t \in Threads, Local(t), NEW p, Hangs(p),
         pc[t] = "parent" => fresh[t] # p
  PROVE  Hangs(p)'
BY DEF Hangs, Local

SameMarks ==
  /\ \A p, point : Busy(p, point) /\ point \in {"split", "parent", "underflow"} => Busy(p, point)'
  /\ \A p : Hangs(p) => Hangs(p)'

\* A step of t that is not about a split or merge leaves all marks.
LEMMA MarksKept ==
  ASSUME NEW t \in Threads, Local(t),
         \/ pc[t] \notin {"split", "parent", "underflow"}
         \/ pc'[t] = pc[t] /\ at'[t] = at[t] /\ fresh'[t] = fresh[t]
  PROVE  SameMarks
BY DEF SameMarks, Busy, Hangs, Local

\* A step that leaves the nodes, the root and the bounds alone leaves the tree in order.
LEMMA TreeSame ==
  ASSUME NEW g, TreeOK(g), root_page_id' = root_page_id, Live' = Live,
         \A p \in Live : node'[p] = node[p], SameMarks
  PROVE  TreeOK(g)'
<1>1. Rooted(g)' /\ Disjoint(g)'
  BY DEF TreeOK, Rooted, Disjoint
<1>2. ASSUME NEW p \in Live PROVE PageOK(g, p)'
  <2>1. PageOK(g, p) /\ node'[p] = node[p]
    BY DEF TreeOK
  <2>2. Placed(g, p)'
    BY <2>1 DEF PageOK, Placed, SameMarks
  <2>3. node[p].leaf => LeafEntries(g, p)' /\ NextLeaf(g, p)'
    BY <2>1 DEF PageOK, LeafEntries, NextLeaf, Size
  <2>4. ASSUME ~node[p].leaf PROVE Inner(g, p)'
    <3>1. Inner(g, p)
      BY <2>1, <2>4 DEF PageOK
    <3>2. \A i : Edge(g, p, i)' = Edge(g, p, i)
      BY Zenon, <2>1 DEF Edge, Size
    <3>3. ASSUME NEW i \in 1 .. Size(node[p]) PROVE ChildOf(g, p, i)'
      BY <2>1, <3>1, <3>2 DEF Inner, ChildOf
    <3>4. Size(node[p])' = Size(node[p])
      BY <2>1 DEF Size
    <3> QED BY <2>1, <3>1, <3>2, <3>3, <3>4 DEF Inner
  <2>5. HasParent(p)'
    <3>1. HasParent(p)
      BY <2>1 DEF PageOK
    <3>2. \A q \in Live : IsChild(p, q) => IsChild(p, q)'
      BY DEF IsChild, Size
    <3> QED BY <2>1, <3>1, <3>2 DEF HasParent, SameMarks
  <2>6. Sized(p)'
    BY <2>1 DEF PageOK, Sized, SameMarks, Size, MaxSize, Low
  <2> QED BY <2>1, <2>2, <2>3, <2>4, <2>5, <2>6 DEF PageOK
<1> QED BY <1>1, <1>2 DEF TreeOK

\* A step that leaves the nodes alone is within its frame.
LEMMA FrameSame ==
  ASSUME NEW t \in Threads, NEW g, UNCHANGED <<root_page_id, node>>, Live' = Live
  PROVE  Frame(t, g, g)
BY DEF Frame, SameNode

-----------------------------------------------------------------------------
(* Steps that leave the tree alone. *)

\* What t latches nobody else has latched.
LEMMA ApartIs ==
  ASSUME NEW g, Good(g), NEW t \in Threads,
         \A p \in pages'[t] \ pages[t] :
           p \in PageIds /\ (Granted(latch[p], t) \/ p \notin DOMAIN node)
  PROVE  Apart(t)
<1> SUFFICES ASSUME Exclusive(t), NEW u \in Threads \ {t}, NEW p \in pages[u],
                    p \in pages[t] \/ p \in pages'[t] \ pages[t]
             PROVE  FALSE
  BY DEF Apart, Mine
<1>1. p \in DOMAIN node /\ p \in PageIds
  BY DEF Good, ThreadOK, PointOf, TypeOK
<1>2. LatchOK(u, p) /\ LatchOK(t, p) /\ Held(u, p)
  BY <1>1 DEF Good, LatchInv, LatchOK
<1>3. CASE p \in pages[t]
  BY <1>1, <1>2, <1>3, HeldApart
<1>4. CASE p \in pages'[t] \ pages[t]
  <2>1. Granted(latch[p], t)
    BY <1>1, <1>4
  <2>2. u # Nobody
    BY TreeAssumption
  <2> QED BY <1>2, <2>1, <2>2 DEF Granted, Held
<1> QED BY <1>3, <1>4

\* A step that touches no latch.
LEMMA LatchesSame ==
  ASSUME NEW t \in Threads, latch' = latch, pages' = pages, \A p : ~Waits(t, p),
         pages[t] # {} => (Exclusive(t)' <=> Exclusive(t))
  PROVE  LatchesOK(t)
<1>1. LatchStep(t, {}, {})
  BY DEF LatchStep
<1> QED BY <1>1 DEF LatchesOK

\* At these points only the page set matters.
LEMMA OwnSimple ==
  ASSUME NEW h, NEW t \in Threads,
         pc'[t] \in {"idle", "check", "empty", "root", "crashed", "free"}, PointOf(t)'
  PROVE  ThreadOK(h, t)'
BY DEF ThreadOK, Descends, InLeaf, Walks, Climbs, Splits, Links, Shrinks, Keeps, Levels

Quietly(t) ==
  \/ Call(t) \/ CallScan(t) \/ CheckEmpty(t) \/ IsEmpty(t) \/ FindRoot(t) \/ LatchPage(t)
  \/ GetValue(t) \/ EnterRootLock(t) \/ EnterPage(t) \/ EnterSibling(t)
  \/ ScanBegin(t) \/ ScanLeaf(t) \/ ScanNext(t) \/ ScanClose(t)

\* The steps that leave the nodes alone.
LEMMA QuietSame ==
  ASSUME NEW t \in Threads, Quietly(t)
  PROVE  /\ UNCHANGED <<root_page_id, header, node, doomed, at, fresh>>
         /\ Live' = Live
         /\ Acts(t)
<1>1. UNCHANGED <<root_page_id, header, node, doomed, at, fresh>>
  <2>1. CASE Call(t) \/ CallScan(t)
    BY <2>1 DEF Call, CallScan, treeVars
  <2>2. CASE CheckEmpty(t) \/ IsEmpty(t)
    BY <2>2 DEF CheckEmpty, IsEmpty, treeVars
  <2>3. CASE FindRoot(t)
    BY <2>3 DEF FindRoot, treeVars
  <2>4. CASE LatchPage(t)
    BY <2>4 DEF LatchPage, treeVars
  <2>5. CASE GetValue(t)
    BY <2>5 DEF GetValue, treeVars
  <2>6. CASE EnterRootLock(t) \/ EnterPage(t) \/ EnterSibling(t)
    BY <2>6 DEF EnterRootLock, EnterPage, EnterSibling, EnterLatch, treeVars
  <2>7. CASE ScanBegin(t) \/ ScanLeaf(t) \/ ScanNext(t) \/ ScanClose(t)
    BY <2>7 DEF ScanBegin, ScanLeaf, ScanNext, ScanClose, treeVars
  <2> QED BY <2>1, <2>2, <2>3, <2>4, <2>5, <2>6, <2>7 DEF Quietly
<1>2. Live' = Live
  BY <1>1 DEF Live, Doomed
<1> QED BY <1>1, <1>2 DEF Quietly, Acts, Step

\* They keep the tree in order.
LEMMA QuietStep ==
  ASSUME NEW g, Good(g), NEW t \in Threads, Quietly(t), TypeOK', ThreadOK(g, t)', LatchesOK(t),
         pc[t] \in {"split", "parent", "underflow"} => pc'[t] = pc[t],
         \A p \in pages'[t] \ pages[t] :
           p \in PageIds /\ (Granted(latch[p], t) \/ p \notin DOMAIN node)
  PROVE  Good(g)'
<1>1. /\ UNCHANGED <<root_page_id, header, node, doomed, at, fresh>>
      /\ Live' = Live
      /\ Acts(t)
  BY QuietSame
<1>2. Local(t) /\ Apart(t)
  BY <1>1, StepsLocal, ApartIs DEF Good
<1>3. SameMarks
  BY <1>1, <1>2, MarksKept
<1>4. TreeOK(g)'
  <2>1. \A p \in Live : node'[p] = node[p]
    BY <1>1
  <2> QED BY <1>1, <1>3, <2>1, TreeSame DEF Good
<1>5. Frame(t, g, g)
  BY <1>1, FrameSame
<1>6. HeaderOK'
  BY <1>1 DEF Good, HeaderOK
<1> QED BY <1>1, <1>2, <1>4, <1>5, <1>6, StepKeeps

\* Only at these points does a thread wait for a page.
LEMMA NoWaits ==
  ASSUME NEW t \in Threads, pc[t] \notin {"latch", "underflow"}
  PROVE  \A p : ~Waits(t, p)
BY DEF Waits

\* The keys that are present are numbers.
LEMMA PresentNat ==
  ASSUME TypeOK
  PROVE  Present \subseteq Nat
<1> SUFFICES ASSUME NEW p \in DOMAIN node, NEW i \in 1 .. Size(node[p])
             PROVE  node[p].array[i].first \in Nat
  BY DEF Present, Contents
<1>1. node[p].array \in Seq(Entry(Values) \cup Entry(PageIds))
  BY DEF TypeOK, Node
<1>2. node[p].array[i] \in Entry(Values) \cup Entry(PageIds)
  BY <1>1 DEF Size
<1> QED BY <1>2 DEF Entry

\* A call begins.
LEMMA CallKeeps ==
  ASSUME NEW g, Good(g), NEW t \in Threads, Call(t) \/ CallScan(t)
  PROVE  Good(g)'
<1>1. /\ pc[t] = "idle" /\ PointOf(t) /\ pages[t] = {} /\ TypeOK
  BY DEF Call, CallScan, At, Good, ThreadOK, PointOf
<1>2. /\ UNCHANGED <<treeVars, lockVars, target, pages, doomed, at, fresh, answer>>
      /\ UNCHANGED <<rootLock, latch>>
  BY DEF Call, CallScan, lockVars
<1>3. \E c \in Calls \cup ScanCalls :
        /\ c.key \in Keys \cup {0} /\ call' = [call EXCEPT ![t] = c]
        /\ \E p \in {"check", "empty", "root"} :
             pc' = [pc EXCEPT ![t] = p] /\ (p = "check" => c.op = "Insert")
               /\ (p = "empty" => c.op = "Remove") /\ (p = "check" \/ p = "empty" \/ c.op \in {"Find", "Scan"})
  <2>1. CASE Call(t)
    <3>1. PICK c \in Calls :
            /\ call' = [call EXCEPT ![t] = c]
            /\ GoTo(t, CASE c.op = "Insert" -> "check"
                         [] c.op = "Remove" -> "empty"
                         [] OTHER -> "root")
      BY <2>1 DEF Call
    <3>2. c.key \in Keys /\ c.op \in {"Insert", "Remove", "Find"}
      BY TreeAssumption DEF Calls
    <3>3. CASE c.op = "Insert"
      BY <3>1, <3>2, <3>3 DEF GoTo
    <3>4. CASE c.op = "Remove"
      BY <3>1, <3>2, <3>4 DEF GoTo
    <3>5. CASE c.op = "Find"
      BY <3>1, <3>2, <3>5 DEF GoTo
    <3> QED BY <3>2, <3>3, <3>4, <3>5
  <2>2. CASE CallScan(t)
    <3>1. PICK low \in {0} \cup (Keys \cap Present) :
            call' = [call EXCEPT ![t] = [op |-> "Scan", key |-> low, seen |-> <<>>,
                                         owed |-> {k \in Present : k >= low}]]
      BY <2>2 DEF CallScan
    <3>2. low \in Nat /\ low \in Keys \cup {0}
      BY TopAbove
    <3> DEFINE c == [op |-> "Scan", key |-> low, seen |-> <<>>,
                     owed |-> {k \in Present : k >= low}]
    <3>3. c \in ScanCalls
      BY <1>1, <3>2, PresentNat DEF ScanCalls
    <3>4. c.key = low /\ c.op = "Scan" /\ call' = [call EXCEPT ![t] = c]
      BY <3>1
    <3>5. pc' = [pc EXCEPT ![t] = "root"]
      BY <2>2 DEF CallScan, GoTo
    <3> HIDE DEF c
    <3> QED BY <3>2, <3>3, <3>4, <3>5
  <2> QED BY <2>1, <2>2
<1>4. PICK c \in Calls \cup ScanCalls, p \in {"check", "empty", "root"} :
        /\ c.key \in Keys \cup {0} /\ call' = [call EXCEPT ![t] = c]
        /\ pc' = [pc EXCEPT ![t] = p] /\ (p = "check" => c.op = "Insert")
        /\ (p = "empty" => c.op = "Remove")
  BY <1>3
<1>5. TypeOK'
  <2>1. call' \in [Threads -> Calls \cup ScanCalls \cup {NoCall}] /\ pc' \in [Threads -> Points]
    BY <1>1, <1>4 DEF TypeOK, Points
  <2> QED BY <1>1, <1>2, <2>1 DEF TypeOK, treeVars
<1>6. pc'[t] = p /\ call'[t] = c
  BY <1>1, <1>4 DEF TypeOK
<1>7. PointOf(t)'
  BY <1>1, <1>2, <1>4, <1>6 DEF PointOf, treeVars
<1>8. ThreadOK(g, t)'
  BY <1>4, <1>6, <1>7, OwnSimple
<1>9. LatchesOK(t)
  BY <1>1, <1>2, NoWaits, LatchesSame
<1> QED BY <1>1, <1>2, <1>5, <1>8, <1>9, QuietStep DEF Quietly

\* Insert looks whether the tree is empty, Remove likewise, and a writer enters the root
\* lock.
LEMMA CheckKeeps ==
  ASSUME NEW g, Good(g), NEW t \in Threads, CheckEmpty(t) \/ IsEmpty(t) \/ EnterRootLock(t)
  PROVE  Good(g)'
<1>1. /\ pc[t] \in {"check", "empty", "root"} /\ PointOf(t) /\ pages[t] = {} /\ TypeOK
  BY DEF CheckEmpty, IsEmpty, EnterRootLock, At, Good, ThreadOK, PointOf
<1>2. /\ UNCHANGED <<treeVars, latch, call, target, pages, doomed, at, fresh>>
  BY DEF CheckEmpty, IsEmpty, EnterRootLock, lockVars
<1>3. \E p \in {"check", "root", "free"} : pc' = [pc EXCEPT ![t] = p] /\ (p = "check" => pc[t] = p)
  BY <1>1 DEF CheckEmpty, IsEmpty, EnterRootLock, GoTo, At, TypeOK
<1>4. PICK p \in {"check", "root", "free"} :
        pc' = [pc EXCEPT ![t] = p] /\ pc'[t] = p /\ (p = "check" => pc[t] = p)
  BY <1>1, <1>3 DEF TypeOK
<1>5. TypeOK'
  <2>1. pc' \in [Threads -> Points]
    BY <1>1, <1>4 DEF TypeOK, Points
  <2>2. rootLock' \in Lock
    BY <1>1, LockFields DEF CheckEmpty, IsEmpty, EnterRootLock, TypeOK, lockVars
  <2>3. answer' \in [Threads -> Values \cup {"inserted", "duplicate", "removed", "end",
                                            NotFound, Pending}]
    BY <1>1 DEF CheckEmpty, IsEmpty, EnterRootLock, TypeOK, Reply
  <2> QED BY <1>1, <1>2, <2>1, <2>2, <2>3 DEF TypeOK, treeVars
<1>6. PointOf(t)'
  BY <1>1, <1>2, <1>4 DEF PointOf, treeVars, Exclusive
<1>7. ThreadOK(g, t)'
  BY <1>4, <1>6, OwnSimple
<1>8. LatchesOK(t)
  BY <1>1, <1>2, NoWaits, LatchesSame
<1> QED BY <1>1, <1>2, <1>5, <1>7, <1>8, QuietStep DEF Quietly

\* A search begins at the root, whose id it locks.
LEMMA FindRootKeeps ==
  ASSUME NEW g, g \in Ghosts, Good(g), NEW t \in Threads, FindRoot(t)
  PROVE  Good(g)'
<1>1. /\ pc[t] = "root" /\ PointOf(t) /\ pages[t] = {} /\ TypeOK /\ Granted(rootLock, t)
      /\ UNCHANGED <<treeVars, latch, call, pages, doomed, at, fresh>>
  BY DEF FindRoot, At, Good, ThreadOK, PointOf
<1>2. LatchesOK(t)
  BY <1>1, NoWaits, LatchesSame DEF Exclusive
<1>3. rootLock' \in Lock
  BY <1>1, LockFields DEF FindRoot, TypeOK
<1>4. CASE root_page_id = INVALID_PAGE_ID
  <2>1. \E p \in {"crashed", "free"} : pc' = [pc EXCEPT ![t] = p]
    BY <1>4 DEF FindRoot, GoTo
  <2>2. PICK p \in {"crashed", "free"} : pc' = [pc EXCEPT ![t] = p]
    BY <2>1
  <2>3. UNCHANGED target /\ (UNCHANGED answer \/ answer' = [answer EXCEPT ![t] = NotFound])
    BY <1>4 DEF FindRoot, Reply
  <2>4. TypeOK'
    BY <1>1, <1>3, <2>2, <2>3 DEF TypeOK, treeVars, Points
  <2>5. pc'[t] = p
    BY <1>1, <2>2 DEF TypeOK
  <2>6. PointOf(t)'
    BY <1>1, <2>5 DEF PointOf, treeVars, Exclusive
  <2>7. ThreadOK(g, t)'
    BY <2>5, <2>6, OwnSimple
  <2> QED BY <1>1, <1>2, <2>4, <2>7, QuietStep DEF Quietly
<1>5. CASE root_page_id # INVALID_PAGE_ID
  <2>1. /\ rootLock' = Locked(rootLock, t) /\ target' = [target EXCEPT ![t] = root_page_id]
        /\ pc' = [pc EXCEPT ![t] = "latch"] /\ UNCHANGED answer
    BY <1>5 DEF FindRoot, GoTo
  <2>2. TypeOK'
    BY <1>1, <1>3, <2>1 DEF TypeOK, treeVars, Points
  <2>3. pc'[t] = "latch" /\ target'[t] = root_page_id /\ call'[t] = call[t]
    BY <1>1, <2>1 DEF TypeOK
  <2>4. PointOf(t)'
    BY <1>1, <2>3 DEF PointOf, treeVars, Exclusive
  <2>. PICK r : r = root_page_id
    OBVIOUS
  <2>5. /\ r \in Live /\ node[r].parent = INVALID_PAGE_ID
        /\ g[r].lo = 0 /\ g[r].cap = Top
    BY <1>5 DEF Good, TreeOK, Rooted
  <2>6. g[r].hi = Top
    <3>1. SUFFICES ASSUME NEW u \in Threads, pc[u] = "parent", at[u] = r PROVE FALSE
      BY <2>5 DEF Good, TreeOK, PageOK, Placed, Busy
    <3>2. u # t /\ HoldsRoot(u) /\ Exclusive(u)
      BY <1>1, <2>5, <3>1 DEF Good, ThreadOK, Climbs, ParentHeld, PointOf, Exclusive
    <3> QED BY <1>1, <3>2, TreeAssumption DEF HoldsRoot, Granted
  <2>7. call[t].key \in Keys \cup {0}
    BY <1>1 DEF PointOf
  <2>8. InRange(g, t, r)'
    BY <2>3, <2>5, <2>6, <2>7, TopAbove DEF InRange
  <2>9. HoldsRoot(t)'
    <3>1. rootLock \in Lock
      BY <1>1 DEF TypeOK
    <3>2. CASE Exclusive(t)
      <4>1. rootLock'.entered = t /\ rootLock'.readers = {}
        BY <1>1, <2>1, <3>1, <3>2, LockFields DEF Granted
      <4>2. rootLock' = [entered |-> t, readers |-> {}]
        BY <1>3, <4>1, LockEqual
      <4> QED BY <1>1, <3>2, <4>2 DEF HoldsRoot, Exclusive
    <3>3. CASE ~Exclusive(t)
      <4>1. t \in rootLock'.readers
        BY <2>1, <3>1, <3>3, LockFields
      <4> QED BY <1>1, <3>3, <4>1 DEF HoldsRoot, Exclusive
    <3> QED BY <3>2, <3>3
  <2>10. Live' = Live
    BY <1>1 DEF Live, Doomed, treeVars
  <2>11. Descends(g, t)'
    BY <1>1, <2>3, <2>5, <2>8, <2>9, <2>10 DEF Descends, treeVars
  <2>12. ThreadOK(g, t)'
    BY <1>1, <2>3, <2>4, <2>11
       DEF ThreadOK, InLeaf, Walks, Climbs, Splits, Links, Shrinks, Keeps, Levels
  <2> QED BY <1>1, <1>2, <2>2, <2>3, <2>12, QuietStep DEF Quietly
<1> QED BY <1>4, <1>5

\* GetValue in its leaf; the beginning and the end of a scan.
LEMMA LeafKeeps ==
  ASSUME NEW g, Good(g), NEW t \in Threads, GetValue(t) \/ ScanBegin(t) \/ ScanClose(t)
  PROVE  Good(g)'
<1>1. /\ pc[t] \in {"leaf", "scan"} /\ PointOf(t) /\ TypeOK /\ InLeaf(g, t)
      /\ UNCHANGED <<treeVars, latch, call, target, pages, doomed, at, fresh>>
  BY DEF GetValue, ScanBegin, ScanClose, At, Good, ThreadOK, lockVars
<1>2. LatchesOK(t)
  BY <1>1, NoWaits, LatchesSame DEF Exclusive
<1>3. rootLock' \in Lock
  BY <1>1, LockFields DEF GetValue, ScanBegin, ScanClose, TypeOK, lockVars
<1>4. \/ pc' = [pc EXCEPT ![t] = "free"]
      \/ pc' = [pc EXCEPT ![t] = "scan"] /\ call[t].op = "Scan" /\ pc[t] = "leaf"
  BY DEF GetValue, ScanBegin, ScanClose, GoTo, At
<1>5. answer' \in [Threads -> Values \cup {"inserted", "duplicate", "removed", "end",
                                            NotFound, Pending}]
  <2>1. CASE GetValue(t)
    <3>. PICK p, n, k : p = target[t] /\ n = node[p] /\ k = call[t].key
      OBVIOUS
    <3>1. answer' = [answer EXCEPT ![t] = IF Has(n, k) THEN n.array[KeyIndex(n, k)].second
                                          ELSE NotFound]
      BY <2>1 DEF GetValue, Reply
    <3>2. p \in Live /\ n.leaf
      <4>1. p \in DOMAIN node
        BY <1>1 DEF InLeaf, PointOf
      <4>2. ASSUME NEW u \in Threads, p \in doomed[u] PROVE FALSE
        <5>1. p \in pages[u] /\ Exclusive(u) /\ p \in PageIds
          BY Zenon, <1>1, <4>1, <4>2 DEF Good, ThreadOK, PointOf, TypeOK
        <5>2. ~Exclusive(t)
          BY <2>1 DEF GetValue, Exclusive
        <5> QED BY <1>1, <5>1, <5>2, HeldApart DEF Good, LatchInv, InLeaf
      <4> QED BY <1>1, <4>1, <4>2 DEF Live, Doomed, InLeaf
    <3>3. LeafEntries(g, p)
      BY <3>2 DEF Good, TreeOK, PageOK
    <3>4. Size(n) \in Nat /\ \A i \in 1 .. Size(n) : n.array[i].first \in Nat
      <4>1. n.array \in Seq(Entry(Values) \cup Entry(PageIds))
        BY <1>1, <3>2 DEF TypeOK, Node, Live
      <4>2. \A i \in 1 .. Size(n) : n.array[i] \in Entry(Values) \cup Entry(PageIds)
        BY <4>1 DEF Size
      <4> QED BY <4>1, <4>2 DEF Size, Entry
    <3>5. Sorted(n, 1) /\ k \in Nat
      BY <1>1, <3>3, <3>4, TopAbove DEF Sorted, LeafEntries, PointOf
    <3>6. Has(n, k) => KeyIndex(n, k) \in 1 .. Size(n)
      BY Zenon, <3>4, <3>5, HasIs
    <3>7. Has(n, k) => n.array[KeyIndex(n, k)].second \in Values
      BY <3>3, <3>6 DEF LeafEntries
    <3> QED BY <1>1, <3>1, <3>7 DEF TypeOK
  <2>2. CASE ScanBegin(t) \/ ScanClose(t)
    BY <1>1, <2>2 DEF ScanBegin, ScanClose, TypeOK
  <2> QED BY Zenon, <2>1, <2>2
<1>6. TypeOK'
  BY <1>1, <1>3, <1>4, <1>5 DEF TypeOK, treeVars, Points
<1>7. CASE pc' = [pc EXCEPT ![t] = "free"]
  <2>1. pc'[t] = "free"
    BY <1>1, <1>7 DEF TypeOK
  <2>2. PointOf(t)'
    BY <1>1, <2>1 DEF PointOf, treeVars, Exclusive
  <2>3. ThreadOK(g, t)'
    BY <2>1, <2>2, OwnSimple
  <2> QED BY <1>1, <1>2, <1>6, <2>3, QuietStep DEF Quietly
<1>8. CASE pc' = [pc EXCEPT ![t] = "scan"] /\ call[t].op = "Scan" /\ pc[t] = "leaf"
  <2>1. pc'[t] = "scan" /\ ~Exclusive(t)
    BY <1>1, <1>8 DEF TypeOK, Exclusive
  <2>2. PointOf(t)'
    BY <1>1, <1>8, <2>1 DEF PointOf, treeVars, Exclusive
  <2>3. InLeaf(g, t)'
    BY <1>1, <2>1 DEF InLeaf, treeVars
  <2>4. ThreadOK(g, t)'
    BY <1>1, <2>1, <2>2, <2>3
       DEF ThreadOK, Descends, Walks, Climbs, Splits, Links, Shrinks, Keeps, Levels, Exclusive
  <2> QED BY <1>1, <1>2, <1>6, <2>4, QuietStep DEF Quietly
<1> QED BY <1>4, <1>7, <1>8

-----------------------------------------------------------------------------
(* What a thread knows of the pages it has latched, or is about to latch. *)

\* No page that t has, or could get, is latched by a writer.
LEMMA Latched ==
  ASSUME NEW g, Good(g), NEW t \in Threads, NEW u \in Threads \ {t}, NEW p,
         p \in pages[t] \/ (p \in PageIds /\ Granted(latch[p], t)), Exclusive(u)
  PROVE  p \notin pages[u]
<1> SUFFICES ASSUME p \in pages[u] PROVE FALSE
  OBVIOUS
<1>1. p \in PageIds
  BY DEF Good, TypeOK, ThreadOK, PointOf
<1>2. LatchOK(t, p) /\ LatchOK(u, p) /\ Held(u, p) /\ u # Nobody
  BY <1>1, TreeAssumption DEF Good, LatchInv, LatchOK
<1>3. CASE p \in pages[t]
  BY <1>1, <1>2, <1>3, HeldApart
<1>4. CASE Granted(latch[p], t)
  BY <1>2, <1>4 DEF Granted, Held
<1> QED BY <1>3, <1>4

\* A page that t has, or could get, is split or merged by nobody but t.
LEMMA BusyMine ==
  ASSUME NEW g, Good(g), NEW t \in Threads, NEW p,
         p \in pages[t] \/ (p \in PageIds /\ Granted(latch[p], t)),
         NEW point \in {"split", "parent", "underflow"}, Busy(p, point)
  PROVE  pc[t] = point /\ at[t] = p
<1>1. PICK u \in Threads : pc[u] = point /\ at[u] = p
  BY DEF Busy
<1>2. p \in pages[u] /\ Exclusive(u)
  BY <1>1 DEF Good, ThreadOK, Climbs, PointOf, Exclusive
<1>3. u = t
  BY <1>2, Latched
<1> QED BY <1>1, <1>3

\* Nor does it hang, unless t has split it off.
LEMMA HangsMine ==
  ASSUME NEW g, Good(g), NEW t \in Threads, NEW p,
         p \in pages[t] \/ (p \in PageIds /\ Granted(latch[p], t)), Hangs(p)
  PROVE  pc[t] = "parent" /\ fresh[t] = p
<1>1. PICK u \in Threads : pc[u] = "parent" /\ fresh[u] = p
  BY DEF Hangs
<1>2. p \in pages[u] /\ Exclusive(u)
  BY <1>1 DEF Good, ThreadOK, Links, PointOf, Exclusive
<1>3. u = t
  BY <1>2, Latched
<1> QED BY <1>1, <1>3

\* A page that t has, or could get, is not about to be deleted, unless by t.
LEMMA LiveMine ==
  ASSUME NEW g, Good(g), NEW t \in Threads, NEW p, p \notin doomed[t],
         p \in pages[t] \/ (p \in DOMAIN node /\ Granted(latch[p], t))
  PROVE  p \in Live
<1>1. p \in DOMAIN node /\ p \in PageIds
  BY DEF Good, TypeOK, ThreadOK, PointOf
<1>2. ASSUME NEW u \in Threads, p \in doomed[u] PROVE FALSE
  <2>1. u # t /\ p \in pages[u] /\ Exclusive(u)
    BY <1>2 DEF Good, ThreadOK, PointOf
  <2> QED BY <1>1, <2>1, Latched
<1> QED BY <1>1, <1>2 DEF Live, Doomed

\* A node's type, spelled out.
LEMMA NodeFacts ==
  ASSUME NEW g, Good(g), NEW p \in DOMAIN node
  PROVE  /\ p \in PageIds /\ node[p] \in Node
         /\ Size(node[p]) \in Nat /\ DOMAIN node[p].array = 1 .. Size(node[p])
         /\ node[p].array \in Seq(Entry(Values) \cup Entry(PageIds))
         /\ \A i \in 1 .. Size(node[p]) :
              /\ node[p].array[i] \in Entry(Values) \cup Entry(PageIds)
              /\ node[p].array[i].first \in Nat
<1>1. p \in PageIds /\ node[p] \in Node
  BY DEF Good, TypeOK
<1>2. node[p].array \in Seq(Entry(Values) \cup Entry(PageIds))
  BY <1>1 DEF Node
<1>3. Size(node[p]) \in Nat /\ DOMAIN node[p].array = 1 .. Size(node[p])
  BY <1>2 DEF Size
<1>4. \A i \in 1 .. Size(node[p]) : node[p].array[i] \in Entry(Values) \cup Entry(PageIds)
  BY <1>2 DEF Size
<1>5. \A i \in 1 .. Size(node[p]) : node[p].array[i].first \in Nat
  BY <1>4 DEF Entry
<1> QED BY <1>1, <1>2, <1>3, <1>4, <1>5

\* The bounds are numbers.
LEMMA GhostFacts ==
  ASSUME NEW g \in Ghosts, NEW p \in PageIds
  PROVE  g[p].lo \in Nat /\ g[p].hi \in Nat /\ g[p].cap \in Nat /\ g[p].level \in Nat
BY DEF Ghosts, Bounds

\* The edges of an internal node are numbers.
LEMMA EdgeNat ==
  ASSUME NEW g \in Ghosts, Good(g), NEW p \in DOMAIN node, NEW i \in 1 .. Size(node[p]) + 1
  PROVE  Edge(g, p, i) \in Nat
BY NodeFacts, GhostFacts DEF Edge

\* The position of a child is the one entry that leads to it.
LEMMA ChildPosition ==
  ASSUME NEW g \in Ghosts, Good(g), NEW q \in Live, ~node[q].leaf, NEW p, IsChild(p, q)
  PROVE  /\ ValueIndex(node[q], p) \in 1 .. Size(node[q])
         /\ node[q].array[ValueIndex(node[q], p)].second = p
         /\ \A i \in 1 .. Size(node[q]) :
              node[q].array[i].second = p => i = ValueIndex(node[q], p)
         /\ ChildOf(g, q, ValueIndex(node[q], p))
<1>1. /\ ValueIndex(node[q], p) \in 1 .. Size(node[q])
      /\ node[q].array[ValueIndex(node[q], p)].second = p
  BY DEF ValueIndex, IsChild
<1>2. Inner(g, q)
  BY DEF Good, TreeOK, PageOK
<1>. PICK j : j = ValueIndex(node[q], p)
  OBVIOUS
<1>3. ASSUME NEW i \in 1 .. Size(node[q]), node[q].array[i].second = p, i # j
      PROVE  FALSE
  <2>1. ChildOf(g, q, i) /\ ChildOf(g, q, j) /\ j \in 1 .. Size(node[q])
    BY <1>1, <1>2 DEF Inner
  <2>2. Edge(g, q, i) = Edge(g, q, j)
    BY <1>1, <1>3, <2>1 DEF ChildOf
  <2>3. q \in DOMAIN node /\ Size(node[q]) \in Nat
    BY NodeFacts DEF Live
  <2>4. i \in 1 .. Size(node[q]) + 1 /\ j \in 1 .. Size(node[q]) + 1
    BY <2>1, <2>3
  <2>5. Edge(g, q, i) \in Nat /\ Edge(g, q, j) \in Nat
    BY <2>3, <2>4, EdgeNat
  <2>6. (i < j => Edge(g, q, i) < Edge(g, q, j)) /\ (j < i => Edge(g, q, j) < Edge(g, q, i))
    BY <1>2, <2>4 DEF Inner
  <2> QED BY <1>3, <2>1, <2>2, <2>3, <2>5, <2>6
<1>4. ChildOf(g, q, ValueIndex(node[q], p))
  BY <1>1, <1>2 DEF Inner
<1> QED BY <1>1, <1>3, <1>4

\* The node that a removal has left too small has a sibling, which is not latched yet.
SiblingAt(q, p) == IF ValueIndex(node[q], p) = 1 THEN 2 ELSE ValueIndex(node[q], p) - 1

\* That sibling and the parent of the two.
LEMMA SiblingFacts ==
  ASSUME NEW g \in Ghosts, Good(g), NEW t \in Threads, pc[t] = "underflow",
         NEW p, p = at[t], NEW q, q = node[p].parent, q # INVALID_PAGE_ID,
         NEW i, i = ValueIndex(node[q], p), NEW j, j = SiblingAt(q, p)
  PROVE  /\ Exclusive(t) /\ call[t].op = "Remove"
         /\ p \in Live /\ q \in Live /\ p \in pages[t] /\ q \in pages[t] /\ p # q
         /\ ~node[q].leaf /\ Size(node[q]) >= 2 /\ Low(node[q]) <= Size(node[q])
         /\ Size(node[q]) <= InternalMax
         /\ i \in 1 .. Size(node[q]) /\ j \in 1 .. Size(node[q]) /\ i # j
         /\ node[q].array[i].second = p /\ node[q].array[j].second = Sibling(p)
         /\ ChildOf(g, q, i) /\ ChildOf(g, q, j) /\ Inner(g, q)
         /\ Sibling(p) \in Live /\ Sibling(p) # p /\ Sibling(p) \notin pages[t]
         /\ node[Sibling(p)].parent = q
         /\ g[Sibling(p)].level = g[p].level /\ (node[Sibling(p)].leaf <=> node[p].leaf)
         /\ g[p].level + 1 = g[q].level
         /\ (IsFirst(p) <=> i = 1)
<1>1. ThreadOK(g, t) /\ call[t].op = "Remove" /\ Exclusive(t)
  BY DEF Good, ThreadOK, PointOf, Exclusive
<1>2. p \in pages[t] /\ p \in Live /\ q \in pages[t]
  <2>1. p \in pages[t] /\ p \notin doomed[t] /\ q \in pages[t]
    BY <1>1 DEF ThreadOK, Climbs, ParentHeld
  <2> QED BY <2>1, LiveMine
<1>3. HasParent(p) /\ Placed(g, p)
  BY <1>2 DEF Good, TreeOK, PageOK
<1>4. ~Hangs(p)
  BY <1>2, HangsMine
<1>5. q \in Live /\ ~node[q].leaf /\ IsChild(p, q)
  BY Zenon, <1>3, <1>4 DEF HasParent
<1>6. /\ i \in 1 .. Size(node[q]) /\ node[q].array[i].second = p /\ ChildOf(g, q, i)
      /\ \A k \in 1 .. Size(node[q]) : node[q].array[k].second = p => k = i
  BY <1>5, ChildPosition
<1>7. p \in PageIds /\ q \in PageIds /\ Size(node[q]) \in Nat
  BY Zenon, <1>2, <1>5, NodeFacts DEF Live
<1>8. g[p].level + 1 = g[q].level /\ g[p].level \in Nat /\ g[q].level \in Nat
  BY <1>6, <1>7, GhostFacts DEF ChildOf
<1>9. p # q
  BY <1>8
<1>10. ~Busy(q, "underflow") /\ ~Busy(q, "split")
  BY <1>2, <1>9, BusyMine
<1>11. Low(node[q]) <= Size(node[q]) /\ Size(node[q]) <= InternalMax
  BY <1>5, <1>10 DEF Good, TreeOK, PageOK, Sized, MaxSize
<1>12. Low(node[q]) >= 2 /\ Low(node[q]) \in Nat
  BY <1>5, TreeAssumption DEF Low
<1>13. Size(node[q]) >= 2
  BY <1>7, <1>11, <1>12
<1>14. j \in 1 .. Size(node[q]) /\ i # j
  <2>. PICK sz : sz = Size(node[q])
    OBVIOUS
  <2>1. j = IF i = 1 THEN 2 ELSE i - 1
    BY Zenon DEF SiblingAt
  <2>2. sz \in Nat /\ sz >= 2 /\ i \in 1 .. sz
    BY Zenon, <1>6, <1>7, <1>13
  <2>3. j \in 1 .. sz /\ i # j
    BY <2>1, <2>2
  <2> QED BY Zenon, <2>3
<1>15. node[q].array[j].second = Sibling(p)
  BY DEF Sibling, SiblingAt
<1>16. Inner(g, q)
  BY Zenon, <1>5 DEF Good, TreeOK, PageOK
<1>17. ChildOf(g, q, j)
  BY <1>14, <1>16 DEF Inner
<1>. PICK s : s = Sibling(p)
  BY Zenon
<1>18. s \in Live /\ node[s].parent = q /\ g[s].level + 1 = g[q].level /\ s # p
  BY <1>6, <1>14, <1>15, <1>17 DEF ChildOf
<1>19. s \in PageIds /\ g[s].level \in Nat
  BY <1>18, NodeFacts, GhostFacts DEF Live
<1>20. g[s].level = g[p].level
  BY <1>8, <1>18, <1>19
<1>21. node[s].leaf <=> node[p].leaf
  BY <1>3, <1>18, <1>20 DEF Good, TreeOK, PageOK, Placed
<1>22. s \notin pages[t]
  BY <1>1, <1>2, <1>8, <1>18, <1>20 DEF ThreadOK, Levels
<1>23. IsFirst(p) <=> i = 1
  BY DEF IsFirst
<1> QED BY Zenon, <1>1, <1>2, <1>5, <1>6, <1>8, <1>9, <1>11, <1>13, <1>14, <1>15, <1>16, <1>17,
           <1>18, <1>20, <1>21, <1>22, <1>23

-----------------------------------------------------------------------------
(* The rest of the steps that leave the tree alone. *)

\* A writer enters the latch of a page that readers hold.
LEMMA EnterKeeps ==
  ASSUME NEW g \in Ghosts, Good(g), NEW t \in Threads, EnterPage(t) \/ EnterSibling(t)
  PROVE  Good(g)'
<1>1. \E p \in PageIds : Waits(t, p) /\ EnterLatch(t, p) /\ Exclusive(t)
  <2>1. CASE EnterPage(t)
    <3>1. target[t] \in PageIds
      BY <2>1, NodeFacts DEF EnterPage, At, Good, ThreadOK, Descends, Live
    <3> QED BY <2>1, <3>1 DEF EnterPage, At, Waits
  <2>2. CASE EnterSibling(t)
    <3>1. Sibling(at[t]) \in Live /\ Exclusive(t)
      BY <2>2, SiblingFacts DEF EnterSibling, At
    <3>2. Sibling(at[t]) \in PageIds
      BY <3>1, NodeFacts DEF Live
    <3> QED BY <2>2, <3>1, <3>2 DEF EnterSibling, At, Waits
  <2> QED BY <2>1, <2>2
<1>2. PICK p \in PageIds : Waits(t, p) /\ EnterLatch(t, p) /\ Exclusive(t)
  BY <1>1
<1>3. /\ UNCHANGED <<treeVars, rootLock, pc, call, target, pages, doomed, at, fresh, answer>>
      /\ latch' = [latch EXCEPT ![p] = Locked(@, t)]
      /\ TypeOK
  BY <1>2 DEF EnterLatch, Good
<1>4. LatchEntered(t, p)
  BY <1>2, <1>3 DEF LatchEntered, EnterLatch, TypeOK
<1>5. \A r : Waits(t, r) => Waits(t, r)'
  BY Zenon, <1>3 DEF Waits, Sibling, ValueIndex, Size, treeVars
<1>6. LatchesOK(t)
  BY <1>2, <1>3, <1>4, <1>5 DEF LatchesOK, Exclusive
<1>7. TypeOK'
  <2>1. Locked(latch[p], t) \in Lock
    BY <1>3, LockFields DEF TypeOK
  <2> QED BY <1>3, <2>1 DEF TypeOK, treeVars
<1>8. ThreadOK(g, t)'
  <2>1. Live' = Live
    BY <1>3 DEF Live, Doomed, treeVars
  <2>2. HoldsRoot(t)' <=> HoldsRoot(t)
    BY <1>3 DEF HoldsRoot, Exclusive
  <2>3. \A r : ParentHeld(t, r)' <=> ParentHeld(t, r)
    BY <1>3, <2>2 DEF ParentHeld, treeVars
  <2>4. ThreadOK(g, t)
    BY DEF Good
  <2>5. PointOf(t)' /\ InLeaf(g, t)' /\ Walks(t)' /\ Splits(t)' /\ Levels(g, t)'
    BY <1>3, <2>1, <2>4 DEF ThreadOK, PointOf, InLeaf, Walks, Splits, Levels, treeVars, Exclusive,
                            InRange, Size, MaxSize
  <2>6. Descends(g, t)' /\ Climbs(g, t)'
    BY Zenon, <1>3, <2>1, <2>2, <2>3, <2>4 DEF ThreadOK, Descends, Climbs, InRange, treeVars
  <2>7. Links(g, t)' /\ Shrinks(t)'
    BY <1>3, <2>4 DEF ThreadOK, Links, Shrinks, Half, Low, MinSize, MaxSize, Size, IsChild,
                      treeVars
  <2>8. Keeps(g, t)'
    BY <1>3, <2>3, <2>4 DEF ThreadOK, Keeps, IsSafe, MinSize, MaxSize, Size, Exclusive, treeVars
  <2> QED BY <2>5, <2>6, <2>7, <2>8 DEF ThreadOK
<1> QED BY <1>3, <1>6, <1>7, <1>8, QuietStep DEF Quietly

\* A scan goes through its leaf and unlatches it.
LEMMA ScanLeafKeeps ==
  ASSUME NEW g \in Ghosts, Good(g), NEW t \in Threads, ScanLeaf(t)
  PROVE  Good(g)'
<1>. PICK p, n : p = target[t] /\ n = node[p]
  OBVIOUS
<1>1. /\ pc[t] = "scan" /\ PointOf(t) /\ TypeOK /\ InLeaf(g, t) /\ call[t].op = "Scan"
      /\ UNCHANGED <<treeVars, rootLock, doomed, at, fresh>>
      /\ call' = [call EXCEPT ![t].seen = @ \o KeysFrom(t, n)]
      /\ latch' = Released(pages[t], t) /\ pages' = [pages EXCEPT ![t] = {}]
  BY DEF ScanLeaf, At, Good, ThreadOK, PointOf
<1>2. p \in Live /\ p \in DOMAIN node /\ n.leaf /\ call[t] \in ScanCalls
  <2>1. p \in pages[t] /\ p \notin doomed[t] /\ n.leaf
    BY <1>1 DEF InLeaf, PointOf
  <2>2. p \in Live
    BY <2>1, LiveMine
  <2>3. call[t] \in ScanCalls
    BY <1>1 DEF PointOf, Calls
  <2> QED BY <2>1, <2>2, <2>3 DEF Live
<1>3. /\ Size(n) \in Nat /\ \A i \in 1 .. Size(n) : n.array[i].first \in Nat
      /\ LeafEntries(g, p) /\ NextLeaf(g, p)
  BY <1>2, NodeFacts DEF Good, TreeOK, PageOK
<1>4. KeysFrom(t, n) \in Seq(Nat)
  <2>1. Sorted(n, 1) /\ call[t].key \in Nat
    BY <1>2, <1>3 DEF Sorted, LeafEntries, ScanCalls
  <2>. PICK f : f = IF call[t].seen = <<>> THEN KeyIndex(n, call[t].key) ELSE 1
    OBVIOUS
  <2>2. f \in 1 .. Size(n) + 1
    <3>1. KeyIndex(n, call[t].key) \in 1 .. Size(n) + 1
      BY <1>3, <2>1, KeyIndexIs
    <3>2. 1 \in 1 .. Size(n) + 1
      BY <1>3
    <3> QED BY <3>1, <3>2
  <2>. PICK m : m = Size(n) - f + 1
    OBVIOUS
  <2>3. KeysFrom(t, n) = [i \in 1 .. m |-> n.array[f + i - 1].first]
    BY DEF KeysFrom
  <2>4. m \in Nat /\ \A i \in 1 .. m : f + i - 1 \in 1 .. Size(n)
    BY <1>3, <2>2
  <2>5. \A i \in 1 .. m : n.array[f + i - 1].first \in Nat
    BY Zenon, <1>3, <2>4
  <2>6. KeysFrom(t, n) \in [1 .. m -> Nat]
    <3>. PICK v : v = [i \in 1 .. m |-> n.array[f + i - 1].first]
      OBVIOUS
    <3>1. v \in [1 .. m -> Nat]
      BY <2>5
    <3> QED BY Zenon, <2>3, <3>1
  <2> QED BY <2>4, <2>6, SeqDef
<1>5. call' = [call EXCEPT ![t] = call'[t]] /\ call'[t] \in ScanCalls
      /\ call'[t].key = call[t].key /\ call'[t].op = "Scan"
  <2>1. call'[t] = [call[t] EXCEPT !.seen = @ \o KeysFrom(t, n)]
    BY <1>1 DEF TypeOK
  <2>2. call[t].seen \o KeysFrom(t, n) \in Seq(Nat)
    BY <1>2, <1>4 DEF ScanCalls
  <2>3. call'[t] \in ScanCalls /\ call'[t].key = call[t].key /\ call'[t].op = "Scan"
    BY <1>2, <2>1, <2>2 DEF ScanCalls
  <2>4. call' = [call EXCEPT ![t] = call'[t]]
    BY <1>1, <2>1 DEF TypeOK
  <2> QED BY <2>3, <2>4
<1>6. LatchesOK(t)
  <2>1. LatchStep(t, pages[t], {})
    BY <1>1 DEF LatchStep, Released, TypeOK
  <2>2. ~Exclusive(t) /\ pages'[t] = {}
    BY <1>1 DEF Exclusive, TypeOK
  <2> QED BY <2>1, <2>2 DEF LatchesOK
<1>7. \A q \in PageIds : latch[q] \in Lock /\ Unlocked(latch[q], t) \in Lock
  BY <1>1, LockFields DEF TypeOK
<1>8. latch' \in [PageIds -> Lock]
  BY <1>1, <1>7 DEF Released
<1>9. call' \in [Threads -> Calls \cup ScanCalls \cup {NoCall}]
  BY <1>1, <1>5 DEF TypeOK
<1>10. pages' \in [Threads -> SUBSET PageIds] /\ pages'[t] = {}
  BY <1>1 DEF TypeOK
<1>11. Exclusive(t)' <=> Exclusive(t)
  BY <1>1, <1>5 DEF Exclusive
<1>12. Live' = Live
  BY <1>1 DEF Live, Doomed, treeVars
<1>13. CASE n.next = INVALID_PAGE_ID
  <2>1. pc' = [pc EXCEPT ![t] = "free"] /\ answer' = [answer EXCEPT ![t] = "end"]
        /\ UNCHANGED target
    BY Zenon, <1>13 DEF ScanLeaf, GoTo, Reply
  <2>2. TypeOK'
    BY <1>1, <1>8, <1>9, <1>10, <2>1 DEF TypeOK, treeVars, Points
  <2>3. pc'[t] = "free"
    BY <1>1, <2>1 DEF TypeOK
  <2>4. PointOf(t)'
    BY <1>1, <1>5, <1>10, <1>11, <2>3 DEF PointOf, treeVars
  <2>5. ThreadOK(g, t)'
    BY <2>3, <2>4, OwnSimple
  <2> QED BY <1>1, <1>6, <1>10, <2>2, <2>5, QuietStep DEF Quietly
<1>14. CASE n.next # INVALID_PAGE_ID
  <2>1. pc' = [pc EXCEPT ![t] = "walk"] /\ target' = [target EXCEPT ![t] = n.next]
        /\ UNCHANGED answer
    BY <1>14 DEF ScanLeaf, GoTo
  <2>2. n.next \in Live /\ node[n.next].leaf /\ n.next \in PageIds
    BY <1>3, <1>14, NodeFacts DEF NextLeaf, Live
  <2>8. target' \in [Threads -> PageIds \cup {INVALID_PAGE_ID}]
    BY Zenon, <1>1, <2>1, <2>2 DEF TypeOK
  <2>3. TypeOK'
    <3>1. pc' \in [Threads -> Points]
      BY Zenon, <1>1, <2>1 DEF TypeOK, Points
    <3>2. UNCHANGED <<root_page_id, header, node, rootLock, doomed, at, fresh, answer>> /\ TypeOK
      BY Zenon, <1>1, <2>1 DEF treeVars
    <3> QED BY <1>8, <1>9, <1>10, <2>8, <3>1, <3>2 DEF TypeOK
  <2>4. pc'[t] = "walk" /\ target'[t] = n.next
    BY <1>1, <2>1 DEF TypeOK
  <2>5. PointOf(t)'
    BY Zenon, <1>1, <1>5, <1>10, <1>11, <2>4 DEF PointOf, treeVars
  <2>6. Walks(t)'
    BY <1>1, <1>12, <2>2, <2>4 DEF Walks, treeVars
  <2>7. ThreadOK(g, t)'
    BY <2>4, <2>5, <2>6
       DEF ThreadOK, Descends, InLeaf, Climbs, Splits, Links, Shrinks, Keeps, Levels
  <2> QED BY <1>1, <1>6, <1>10, <2>3, <2>7, QuietStep DEF Quietly
<1> QED BY <1>13, <1>14

\* A scan latches the next leaf.
LEMMA ScanNextKeeps ==
  ASSUME NEW g \in Ghosts, Good(g), NEW t \in Threads, ScanNext(t)
  PROVE  Good(g)'
<1>. PICK p : p = target[t]
  OBVIOUS
<1>1. /\ pc[t] = "walk" /\ PointOf(t) /\ TypeOK /\ Walks(t) /\ call[t].op = "Scan"
      /\ pages[t] = {}
      /\ UNCHANGED <<treeVars, rootLock, call, target, doomed, at, fresh, answer>>
      /\ Granted(latch[p], t)
      /\ latch' = [latch EXCEPT ![p] = Locked(@, t)] /\ pages' = [pages EXCEPT ![t] = {p}]
      /\ pc' = [pc EXCEPT ![t] = "scan"]
  BY DEF ScanNext, At, Good, ThreadOK, PointOf, GoTo
<1>2. p \in Live /\ p \in DOMAIN node /\ p \in PageIds /\ node[p].leaf
  BY <1>1, NodeFacts DEF Walks, Live
<1>3. pc'[t] = "scan" /\ pages'[t] = {p} /\ ~Exclusive(t) /\ ~Exclusive(t)'
  BY <1>1 DEF TypeOK, Exclusive
<1>4. LatchesOK(t)
  <2>1. LatchStep(t, {}, {p})
    BY <1>1, <1>2, <1>3 DEF LatchStep, TypeOK
  <2> QED BY <1>3, <2>1 DEF LatchesOK
<1>5. TypeOK'
  <2>1. Locked(latch[p], t) \in Lock
    BY <1>1, <1>2, LockFields DEF TypeOK
  <2>2. latch' \in [PageIds -> Lock] /\ pages' \in [Threads -> SUBSET PageIds]
        /\ pc' \in [Threads -> Points]
    BY <1>1, <1>2, <2>1 DEF TypeOK, Points
  <2> QED BY <1>1, <2>2 DEF TypeOK, treeVars
<1>6. PointOf(t)'
  BY <1>1, <1>2, <1>3 DEF PointOf, treeVars
<1>7. InLeaf(g, t)'
  BY <1>1, <1>2, <1>3 DEF InLeaf, treeVars
<1>8. ThreadOK(g, t)'
  BY <1>3, <1>6, <1>7
     DEF ThreadOK, Descends, Walks, Climbs, Splits, Links, Shrinks, Keeps, Levels
<1> QED BY <1>1, <1>2, <1>3, <1>4, <1>5, <1>8, QuietStep DEF Quietly

\* The child that a key leads to, and the edges around it.
LEMMA ChildBetween ==
  ASSUME NEW g \in Ghosts, Good(g), NEW p \in Live, ~node[p].leaf,
         NEW k \in Nat, g[p].lo <= k, k < g[p].hi
  PROVE  \E j \in 1 .. Size(node[p]) :
           /\ ChildFor(node[p], k) = node[p].array[j].second
           /\ ChildOf(g, p, j)
           /\ Edge(g, p, j) <= k /\ k < Edge(g, p, j + 1)
<1>. PICK n, m : n = node[p] /\ m = Size(n)
  OBVIOUS
<1>1. Inner(g, p) /\ p \in DOMAIN node /\ m \in Nat /\ m >= 1
  BY NodeFacts DEF Good, TreeOK, PageOK, Inner, Live
<1>2. \A i \in 2 .. m : n.array[i].first = Edge(g, p, i) /\ n.array[i].first \in Nat
  BY <1>1, NodeFacts DEF Edge
<1>3. Sorted(n, 2)
  <2>1. \A i \in 2 .. m : i \in 1 .. m + 1
    BY <1>1
  <2> QED BY <1>1, <1>2, <2>1 DEF Sorted, Inner
<1>4. PICK j \in 1 .. m :
           /\ ChildFor(n, k) = n.array[j].second
           /\ j > 1 => n.array[j].first <= k
           /\ j < m => k < n.array[j + 1].first
  BY <1>1, <1>3, ChildForIs
<1>5. ChildOf(g, p, j)
  BY <1>1, <1>4 DEF Inner
<1>6. Edge(g, p, j) <= k
  <2>1. CASE j = 1
    BY <2>1 DEF Edge
  <2>2. CASE j # 1
    <3>1. j \in 2 .. m /\ j > 1
      BY <2>2, <1>1
    <3> QED BY <3>1, <1>2, <1>4
  <2> QED BY <2>1, <2>2
<1>7. k < Edge(g, p, j + 1)
  <2>1. CASE j = m
    BY <2>1, <1>1 DEF Edge
  <2>2. CASE j # m
    <3>1. j + 1 \in 2 .. m /\ j < m
      BY <2>2, <1>1
    <3> QED BY <3>1, <1>2, <1>4
  <2> QED BY <2>1, <2>2
<1> QED BY <1>4, <1>5, <1>6, <1>7

\* The child a search goes on to is the one for its key, also when a split of the child is
\* not yet known to its parent: the thread that splits it holds the parent.
LEMMA ChildFound ==
  ASSUME NEW g \in Ghosts, Good(g), NEW t \in Threads, NEW p \in Live, ~node[p].leaf,
         p \in pages[t] \/ Granted(latch[p], t), InRange(g, t, p), pc[t] = "latch",
         NEW c, c = ChildFor(node[p], call[t].key)
  PROVE  /\ c \in Live /\ node[c].parent = p /\ InRange(g, t, c)
         /\ g[c].level + 1 = g[p].level
<1>. PICK k : k = call[t].key
  OBVIOUS
<1>1. p \in DOMAIN node /\ p \in PageIds
  BY NodeFacts DEF Live
<1>2. k \in Nat /\ g[p].lo <= k /\ k < g[p].hi
  BY TopAbove DEF Good, ThreadOK, PointOf, InRange
<1>3. PICK j \in 1 .. Size(node[p]) :
           /\ c = node[p].array[j].second
           /\ ChildOf(g, p, j)
           /\ Edge(g, p, j) <= k /\ k < Edge(g, p, j + 1)
  BY <1>2, ChildBetween
<1>4. c \in Live /\ node[c].parent = p /\ g[c].level + 1 = g[p].level
      /\ g[c].lo = Edge(g, p, j) /\ g[c].cap = Edge(g, p, j + 1)
  BY <1>3 DEF ChildOf
<1>5. g[c].hi = g[c].cap
  <2> SUFFICES ASSUME NEW u \in Threads, pc[u] = "parent", at[u] = c PROVE FALSE
    BY <1>4 DEF Good, TreeOK, PageOK, Placed, Busy
  <2>1. ParentHeld(u, c) /\ Exclusive(u) /\ u # t
    BY DEF Good, ThreadOK, Climbs, PointOf, Exclusive
  <2>2. p \in pages[u]
    BY <1>1, <1>4, <2>1 DEF ParentHeld, PageIds, INVALID_PAGE_ID
  <2> QED BY <1>1, <2>1, <2>2, Latched
<1> QED BY <1>3, <1>4, <1>5 DEF InRange

\* A search latches the next page and releases its ancestors if it can.
LEMMA LatchPageKeeps ==
  ASSUME NEW g \in Ghosts, Good(g), NEW t \in Threads, LatchPage(t)
  PROVE  Good(g)'
<1>. PICK p, n : p = target[t] /\ n = node[p]
  OBVIOUS
<1>. PICK release \in BOOLEAN : release <=> (pages[t] # {} /\ ReleasesAncestors(t, n))
  OBVIOUS
<1>1. /\ pc[t] = "latch" /\ ThreadOK(g, t) /\ TypeOK
      /\ UNCHANGED <<treeVars, call, doomed, at, fresh, answer>>
      /\ Granted(latch[p], t)
      /\ latch' = [(IF release THEN Released(pages[t], t) ELSE latch) EXCEPT
                     ![p] = Locked(@, t)]
      /\ rootLock' = IF release THEN Unlocked(rootLock, t) ELSE rootLock
      /\ pages' = [pages EXCEPT ![t] = IF release THEN {p} ELSE @ \cup {p}]
      /\ IF n.leaf
         THEN pc' = [pc EXCEPT ![t] = "leaf"] /\ UNCHANGED target
         ELSE target' = [target EXCEPT ![t] = ChildFor(n, call[t].key)] /\ UNCHANGED pc
  BY DEF LatchPage, At, Good, GoTo
<1>2. /\ p \in Live /\ p \in DOMAIN node /\ p \in PageIds /\ InRange(g, t, p)
      /\ \A q \in pages[t] : g[p].level < g[q].level
      /\ pages[t] = {} => p = root_page_id /\ HoldsRoot(t)
      /\ pages[t] # {} => n.parent \in pages[t]
  BY <1>1, NodeFacts DEF ThreadOK, Descends, Live
<1>3. /\ pages[t] \subseteq PageIds /\ doomed[t] = {} /\ doomed'[t] = {}
      /\ PointOf(t) /\ (Exclusive(t)' <=> Exclusive(t)) /\ call'[t] = call[t]
  BY <1>1 DEF TypeOK, ThreadOK, PointOf, Exclusive
<1>4. \A q \in pages[t] : g[p].level \in Nat /\ g[q].level \in Nat /\ q # p
  <2>1. \A q \in pages[t] : g[p].level \in Nat /\ g[q].level \in Nat
    BY <1>2, <1>3, GhostFacts
  <2> QED BY <1>2, <2>1
<1>5. pages'[t] = (IF release THEN {p} ELSE pages[t] \cup {p}) /\ p \in pages'[t]
  BY <1>1 DEF TypeOK
<1>. PICK R : R = IF release THEN pages[t] ELSE {}
  OBVIOUS
<1>6. LatchStep(t, R, {p})
  <2>1. R \subseteq pages[t] /\ R \cap {p} = {} /\ pages'[t] = (pages[t] \ R) \cup {p}
    BY <1>4, <1>5
  <2>2. \A q \in PageIds :
          latch'[q] = IF q \in {p} THEN Locked(latch[q], t)
                      ELSE IF q \in R THEN Unlocked(latch[q], t) ELSE latch[q]
    <3>1. CASE release
      BY <1>1, <1>2, <1>4, <3>1 DEF Released, TypeOK
    <3>2. CASE ~release
      BY <1>1, <1>2, <3>2 DEF TypeOK
    <3> QED BY <3>1, <3>2
  <2> QED BY <1>1, <1>2, <2>1, <2>2 DEF LatchStep
<1>7. LatchesOK(t)
  <2>1. \A q \in PageIds : Waits(t, q) => q \in {p}
    BY <1>1 DEF Waits
  <2> QED BY <1>3, <1>6, <2>1 DEF LatchesOK
<1>8. latch' \in [PageIds -> Lock]
  <2>1. \A q \in PageIds : /\ latch[q] \in Lock /\ Unlocked(latch[q], t) \in Lock
                           /\ Locked(latch[q], t) \in Lock
    BY <1>1, LockFields DEF TypeOK
  <2>2. \A q \in PageIds : latch'[q] \in Lock
    BY <1>6, <2>1 DEF LatchStep
  <2>3. DOMAIN latch' = PageIds /\ latch' = [q \in PageIds |-> latch'[q]]
    <3>1. CASE release
      BY <1>1, <3>1 DEF Released
    <3>2. CASE ~release
      BY <1>1, <3>2 DEF TypeOK
    <3> QED BY <3>1, <3>2
  <2> QED BY <2>2, <2>3
<1>9. rootLock' \in Lock
  BY <1>1, LockFields DEF TypeOK
<1>10. pages' \in [Threads -> SUBSET PageIds]
  BY <1>1, <1>2, <1>3 DEF TypeOK
<1>11. PointOf(t)'
  <2>1. pc'[t] \in {"latch", "leaf"}
    BY <1>1 DEF TypeOK
  <2>2. pages'[t] \subseteq DOMAIN node
    BY <1>2, <1>3, <1>5 DEF PointOf
  <2>3. ~Exclusive(t) => \A q, r \in pages'[t] : q = r
    <3> SUFFICES ASSUME ~Exclusive(t) PROVE pages'[t] = {p}
      OBVIOUS
    <3>1. CASE pages[t] = {}
      BY <1>5, <3>1
    <3>2. CASE pages[t] # {}
      <4>1. release
        BY <3>2 DEF ReleasesAncestors
      <4> QED BY <4>1, <1>5
    <3> QED BY <3>1, <3>2
  <2> QED BY <1>1, <1>3, <2>1, <2>2, <2>3 DEF PointOf, treeVars
<1>12. Live' = Live
  BY <1>1 DEF Live, Doomed, treeVars
\* What it keeps: p, and if p is not safe the pages above.
<1>13. ASSUME ~release PROVE \A q : ParentHeld(t, q) => ParentHeld(t, q)'
  <2>1. HoldsRoot(t)' <=> HoldsRoot(t)
    BY <1>1, <1>3, <1>13 DEF HoldsRoot
  <2>2. pages[t] \subseteq pages'[t]
    BY <1>5, <1>13
  <2> QED BY <1>1, <2>1, <2>2 DEF ParentHeld, treeVars
<1>14. ASSUME Exclusive(t), NEW q \in pages'[t]
       PROVE  ParentHeld(t, q)' \/ IsSafe(node[q], call[t].op)'
  <2>1. IsSafe(node[q], call[t].op)' <=> IsSafe(node[q], call[t].op)
    BY <1>1 DEF IsSafe, Size, MaxSize, MinSize, treeVars
  <2>2. CASE release
    <3>1. q = p /\ IsSafe(n, call[t].op)
      BY <1>5, <1>14, <2>2 DEF ReleasesAncestors
    <3> QED BY <2>1, <3>1
  <2>3. CASE ~release /\ q # p
    <3>1. q \in pages[t] \ doomed[t]
      BY <1>3, <1>5, <2>3
    <3>2. ParentHeld(t, q) \/ IsSafe(node[q], call[t].op)
      BY <1>1, <1>14, <3>1 DEF ThreadOK, Keeps
    <3> QED BY <1>13, <2>1, <2>3, <3>2
  <2>4. CASE ~release /\ q = p
    <3>1. CASE pages[t] = {}
      <4>1. n.parent = INVALID_PAGE_ID
        BY <1>2, <3>1 DEF Good, TreeOK, Rooted
      <4>2. ParentHeld(t, p)
        BY <1>2, <3>1, <4>1 DEF ParentHeld
      <4> QED BY <1>13, <2>4, <4>2
    <3>2. CASE pages[t] # {}
      <4>1. n.parent \in pages[t] /\ n.parent \in PageIds
        BY <1>2, <1>3, <3>2
      <4>2. n.parent # INVALID_PAGE_ID
        BY <4>1 DEF PageIds, INVALID_PAGE_ID
      <4>3. ParentHeld(t, p)
        BY <4>1, <4>2 DEF ParentHeld
      <4> QED BY <1>13, <2>4, <4>3
    <3> QED BY <3>1, <3>2
  <2> QED BY <2>2, <2>3, <2>4
<1>15. pc'[t] \in {"latch", "leaf"} => Keeps(g, t)'
  BY <1>3, <1>14 DEF Keeps
<1>16. ASSUME Exclusive(t), NEW q \in pages'[t], NEW r \in pages'[t], g[q].level = g[r].level
       PROVE  q = r
  <2>1. CASE q \in pages[t] /\ r \in pages[t]
    BY <1>1, <1>16, <2>1 DEF ThreadOK, Levels
  <2>2. CASE q = p \/ r = p
    BY <1>2, <1>4, <1>5, <1>16, <2>2
  <2> QED BY <1>5, <2>1, <2>2
<1>17. pc'[t] \in {"latch", "leaf"} => Levels(g, t)'
  BY <1>3, <1>16 DEF Levels
<1>18. \A q \in pages'[t] \ pages[t] : q = p
  BY <1>5
<1>19. CASE n.leaf
  <2>1. pc'[t] = "leaf" /\ target'[t] = p /\ UNCHANGED target
        /\ pc' = [pc EXCEPT ![t] = "leaf"]
    BY <1>1, <1>19 DEF TypeOK
  <2>2. TypeOK'
    BY <1>1, <1>8, <1>9, <1>10, <2>1 DEF TypeOK, treeVars, Points
  <2>3. InLeaf(g, t)'
    BY <1>1, <1>2, <1>3, <1>5, <1>19, <2>1 DEF InLeaf, InRange, treeVars
  <2>4. ThreadOK(g, t)'
    BY <1>11, <1>15, <1>17, <2>1, <2>3
       DEF ThreadOK, Descends, Walks, Climbs, Splits, Links, Shrinks
  <2> QED BY <1>1, <1>2, <1>7, <1>18, <2>2, <2>4, QuietStep DEF Quietly
<1>20. CASE ~n.leaf
  <2>. PICK c : c = ChildFor(n, call[t].key)
    OBVIOUS
  <2>1. /\ c \in Live /\ node[c].parent = p /\ InRange(g, t, c)
        /\ g[c].level + 1 = g[p].level
    BY <1>1, <1>2, <1>20, ChildFound
  <2>2. c \in PageIds /\ g[c].level \in Nat /\ g[p].level \in Nat
    BY <1>2, <2>1, NodeFacts, GhostFacts DEF Live
  <2>3. pc' = pc /\ target' = [target EXCEPT ![t] = c] /\ target'[t] = c /\ pc'[t] = "latch"
    BY <1>1, <1>20 DEF TypeOK
  <2>4. target' \in [Threads -> PageIds \cup {INVALID_PAGE_ID}]
    BY <1>1, <2>2, <2>3 DEF TypeOK
  <2>5. TypeOK'
    BY <1>1, <1>8, <1>9, <1>10, <2>3, <2>4 DEF TypeOK, treeVars, Points
  <2>6. ASSUME NEW q \in pages'[t] PROVE g[c].level < g[q].level
    <3>1. CASE q = p
      BY <2>1, <2>2, <3>1
    <3>2. CASE q # p
      <4>1. q \in pages[t] /\ q \in PageIds
        BY <1>3, <1>5, <3>2
      <4>2. g[q].level \in Nat /\ g[p].level < g[q].level
        BY <1>2, <4>1, GhostFacts
      <4> QED BY <2>1, <2>2, <4>2
    <3> QED BY <3>1, <3>2
  <2>7. InRange(g, t, c)'
    BY Zenon, <1>3, <2>1 DEF InRange
  <2>8. Descends(g, t)'
    BY <1>1, <1>5, <1>12, <2>1, <2>3, <2>6, <2>7 DEF Descends, treeVars
  <2>9. ThreadOK(g, t)'
    BY <1>11, <1>15, <1>17, <2>3, <2>8
       DEF ThreadOK, InLeaf, Walks, Climbs, Splits, Links, Shrinks
  <2> QED BY <1>1, <1>2, <1>7, <1>18, <2>5, <2>9, QuietStep DEF Quietly
<1> QED BY <1>19, <1>20

\* The node q is told in r that p is its parent if it is a child of n, and is as in s
\* otherwise.
AdoptedAt(r, s, n, p, q) ==
  /\ q \in DOMAIN r /\ r[q] \in Node
  /\ r[q].leaf = s[q].leaf /\ r[q].array = s[q].array /\ r[q].next = s[q].next
  /\ q \in Children(n) => r[q].parent = p
  /\ q \notin Children(n) => r[q] = s[q]

\* What Adopt does to a node.
LEMMA AdoptIs ==
  ASSUME NEW s, NEW n, NEW p \in PageIds \cup {INVALID_PAGE_ID}, NEW q \in DOMAIN s, s[q] \in Node
  PROVE  AdoptedAt(Adopt(s, n, p), s, n, p, q)
<1>1. Adopt(s, n, p)[q] = IF q \in Children(n) THEN [s[q] EXCEPT !.parent = p] ELSE s[q]
  BY DEF Adopt
<1>2. q \in DOMAIN Adopt(s, n, p)
  BY DEF Adopt
<1>3. CASE q \in Children(n)
  BY <1>1, <1>2, <1>3 DEF Node, AdoptedAt
<1>4. CASE q \notin Children(n)
  BY <1>1, <1>2, <1>4 DEF AdoptedAt
<1> QED BY <1>3, <1>4

\* Adopt neither adds nor removes a node.
LEMMA AdoptDomain ==
  ASSUME NEW s, NEW n, NEW p
  PROVE  DOMAIN Adopt(s, n, p) = DOMAIN s
BY DEF Adopt

\* A node that hangs, or is split or merged, is the business of the thread that has its
\* parent latched.
LEMMA HangsOwn ==
  ASSUME NEW g, Good(g), NEW t \in Threads, Apart(t), NEW p,
         node[p].parent \in Mine(t) \cap PageIds, Hangs(p)
  PROVE  pc[t] = "parent" /\ fresh[t] = p
<1>1. PICK u \in Threads : pc[u] = "parent" /\ fresh[u] = p
  BY DEF Hangs
<1>2. Links(g, u) /\ Climbs(g, u)
  BY DEF Good, ThreadOK
<1>3. node[p].parent = node[at[u]].parent /\ ParentHeld(u, at[u])
  BY <1>1, <1>2 DEF Links, Climbs
<1>4. node[p].parent \in pages[u]
  BY <1>3 DEF ParentHeld, PageIds, INVALID_PAGE_ID
<1>5. u = t
  BY <1>4 DEF Apart
<1> QED BY <1>1, <1>5

-----------------------------------------------------------------------------
(* Changes to the nodes C, all latched by t. *)

Changes(t, C, g, h) ==
  /\ C \subseteq PageIds /\ C \cap DOMAIN node \subseteq Mine(t)
  /\ Live' \subseteq DOMAIN node \cup C
  /\ \A p \in DOMAIN node \ C :
       /\ p \in DOMAIN node' /\ (p \in Live' <=> p \in Live)
       /\ node'[p].leaf = node[p].leaf /\ node'[p].array = node[p].array
       /\ node'[p].next = node[p].next /\ h[p] = g[p]
       /\ node[p].parent \notin C \cap DOMAIN node => node'[p].parent = node[p].parent
       /\ node[p].parent \in C \cap DOMAIN node => node'[p].parent # INVALID_PAGE_ID
  /\ \A c \in C \cap Live : node[c].parent \in DOMAIN node \ C =>
       /\ c \in Live' /\ node'[c].parent = node[c].parent
       /\ h[c].lo = g[c].lo /\ h[c].cap = g[c].cap
  /\ \A c \in C \cap Live : \A p \in Live \ C :
       node[p].leaf /\ node[c].leaf /\ node[p].next = c =>
         c \in Live' /\ h[c].lo = g[c].lo
  /\ \A c \in C \cap DOMAIN node :
       /\ c \in DOMAIN node' /\ node'[c].leaf = node[c].leaf /\ h[c].level = g[c].level
       /\ node'[c].parent = node[c].parent \/ Owns(t, c)
       /\ c \in Live => Owns(t, c) \/ (c \in Live' /\ h[c].lo = g[c].lo /\ h[c].hi = g[c].hi)
       /\ c \in Live => call[t].op = "Remove" \/ (c \in Live' /\ h[c].lo = g[c].lo)
  /\ \/ root_page_id' = root_page_id
     \/ root_page_id \in C /\ Exclusive(t) /\ HoldsRoot(t)
  /\ pc[t] \in {"split", "parent", "underflow"} => at[t] \in C
  /\ pc[t] = "parent" => fresh[t] \in C

\* Such a change is within the frame of t.
LEMMA ChangesFrame ==
  ASSUME NEW t \in Threads, NEW C, NEW g, NEW h, Changes(t, C, g, h), Exclusive(t)
  PROVE  Frame(t, g, h)
<1>1. ASSUME NEW p \in DOMAIN node \ Mine(t) PROVE SameNode(p) /\ h[p] = g[p]
  <2>1. p \in DOMAIN node \ C /\ INVALID_PAGE_ID \notin C
    BY <1>1 DEF Changes, PageIds, INVALID_PAGE_ID
  <2> QED BY <2>1 DEF Changes, SameNode
<1>2. ASSUME NEW p \in DOMAIN node, p \in DOMAIN node'
      PROVE  node'[p].parent = node[p].parent \/ Owns(t, p)
  <2>1. CASE p \in C
    BY <1>2, <2>1 DEF Changes
  <2>2. CASE p \notin C /\ node[p].parent \in C \cap DOMAIN node
    BY <2>2 DEF Changes, Owns, PageIds, INVALID_PAGE_ID
  <2>3. CASE p \notin C /\ node[p].parent \notin C \cap DOMAIN node
    BY <2>3 DEF Changes
  <2> QED BY <2>1, <2>2, <2>3
<1>3. \A p \in Live : \/ p \in Live' /\ h[p].lo = g[p].lo /\ h[p].hi = g[p].hi
                      \/ Owns(t, p)
  BY DEF Changes, Live
<1>4. \A p \in Live : call[t].op = "Remove" \/ (p \in Live' /\ h[p].lo = g[p].lo)
  BY DEF Changes, Live
<1>5. /\ \A p \in DOMAIN node : p \in DOMAIN node' => node'[p].leaf = node[p].leaf
      /\ \A p \in DOMAIN node : h[p].level = g[p].level
  BY DEF Changes
<1> QED BY <1>1, <1>2, <1>3, <1>4, <1>5 DEF Frame, Changes

\* Outside C the tree stays in order.
LEMMA ChangesKeep ==
  ASSUME NEW g, NEW h, Good(g), NEW t \in Threads, NEW C, Changes(t, C, g, h), Local(t),
         NEW p \in Live \ C, node[p].parent \in C => HasParent(p)'
  PROVE  /\ PageOK(h, p)'
         /\ p \in Live' /\ h[p] = g[p]
<1>1. /\ PageOK(g, p) /\ p \in DOMAIN node \ C /\ p \in Live' /\ p \in DOMAIN node'
      /\ node'[p].leaf = node[p].leaf /\ node'[p].array = node[p].array
      /\ node'[p].next = node[p].next /\ h[p] = g[p]
      /\ node'[p].parent = INVALID_PAGE_ID <=> node[p].parent = INVALID_PAGE_ID
  BY DEF Good, TreeOK, Changes, Live, PageIds, INVALID_PAGE_ID
<1>2. \A point \in {"split", "parent", "underflow"} : Busy(p, point) => Busy(p, point)'
  BY DEF Busy, Local, Changes
<1>3. Hangs(p) => Hangs(p)'
  BY DEF Hangs, Local, Changes
<1>4. Placed(h, p)'
  BY <1>1, <1>2 DEF PageOK, Placed
<1>5. Size(node[p])' = Size(node[p])
  BY <1>1 DEF Size
<1>6. ASSUME node[p].leaf PROVE LeafEntries(h, p)'
  BY <1>1, <1>5, <1>6 DEF PageOK, LeafEntries
<1>7. ASSUME node[p].leaf PROVE NextLeaf(h, p)'
  <2>. PICK q : q = node[p].next
    OBVIOUS
  <2>1. NextLeaf(g, p)
    BY <1>1, <1>7 DEF PageOK
  <2>2. CASE q = INVALID_PAGE_ID
    BY <1>1, <2>1, <2>2 DEF NextLeaf
  <2>3. CASE q # INVALID_PAGE_ID
    <3>1. q \in Live /\ node[q].leaf /\ g[q].lo = g[p].hi
      BY <2>1, <2>3 DEF NextLeaf
    <3>2. q \in Live' /\ node'[q].leaf /\ h[q].lo = g[q].lo
      <4>1. CASE q \in C
        <5>1. q \in Live' /\ h[q].lo = g[q].lo
          BY <1>7, <3>1, <4>1 DEF Changes
        <5>2. node'[q].leaf = node[q].leaf
          BY <3>1, <4>1 DEF Changes, Live
        <5> QED BY <3>1, <5>1, <5>2
      <4>2. CASE q \notin C
        BY <3>1, <4>2 DEF Changes, Live
      <4> QED BY <4>1, <4>2
    <3> QED BY <1>1, <2>3, <3>1, <3>2 DEF NextLeaf
  <2> QED BY <2>2, <2>3
<1>8. ASSUME ~node[p].leaf PROVE Inner(h, p)'
  <2>1. Inner(g, p)
    BY <1>1, <1>8 DEF PageOK
  <2>2. \A i : Edge(h, p, i)' = Edge(g, p, i)
    BY <1>1, <1>5 DEF Edge
  <2>3. ASSUME NEW i \in 1 .. Size(node[p]) PROVE ChildOf(h, p, i)'
    <3>. PICK c : c = node[p].array[i].second
      BY Zenon
    <3>1. /\ c \in Live /\ node[c].parent = p /\ g[c].level + 1 = g[p].level
          /\ g[c].lo = Edge(g, p, i) /\ g[c].cap = Edge(g, p, i + 1)
      BY Zenon, <2>1 DEF Inner, ChildOf
    <3>2. /\ c \in Live' /\ node'[c].parent = p /\ h[c].level = g[c].level
          /\ h[c].lo = g[c].lo /\ h[c].cap = g[c].cap
      <4>1. CASE c \in C
        BY <1>1, <3>1, <4>1 DEF Changes, Live
      <4>2. CASE c \notin C
        BY <1>1, <3>1, <4>2 DEF Changes, Live
      <4> QED BY Zenon, <4>1, <4>2
    <3>3. node'[p].array[i].second = c
      BY <1>1
    <3> QED BY <1>1, <2>2, <3>1, <3>2, <3>3 DEF ChildOf
  <2> QED BY <1>1, <1>5, <2>1, <2>2, <2>3 DEF Inner
<1>9. HasParent(p)'
  <2>. PICK q : q = node[p].parent
    OBVIOUS
  <2>1. CASE q \in C
    BY <2>1
  <2>2. CASE q \notin C
    <3>1. node'[p].parent = q /\ HasParent(p)
      BY <1>1, <2>2 DEF Changes, PageOK
    <3>2. CASE q = INVALID_PAGE_ID
      <4>1. p = root_page_id \/ Hangs(p)
        BY <3>1, <3>2 DEF HasParent
      <4>2. p = root_page_id => p = root_page_id'
        BY DEF Changes
      <4> QED BY <1>3, <3>1, <3>2, <4>1, <4>2 DEF HasParent
    <3>3. CASE q # INVALID_PAGE_ID
      <4>1. q \in Live /\ ~node[q].leaf /\ (IsChild(p, q) \/ Hangs(p))
        BY <3>1, <3>3 DEF HasParent
      <4>2. q \in Live' /\ ~node'[q].leaf /\ node'[q].array = node[q].array
        BY Zenon, <2>2, <4>1 DEF Changes, Live
      <4>3. IsChild(p, q) => IsChild(p, q)'
        BY <4>2 DEF IsChild, Size
      <4> QED BY <1>3, <3>1, <3>3, <4>1, <4>2, <4>3 DEF HasParent
    <3> QED BY <3>2, <3>3
  <2> QED BY <2>1, <2>2
<1>10. Sized(p)'
  <2>1. Sized(p) /\ MaxSize(node[p])' = MaxSize(node[p]) /\ Low(node[p])' = Low(node[p])
    BY <1>1 DEF PageOK, MaxSize, Low
  <2> QED BY <1>2, <1>5, <2>1 DEF Sized
<1> QED BY <1>1, <1>4, <1>6, <1>7, <1>8, <1>9, <1>10 DEF PageOK

\* What is to be shown of a step that changes the nodes C.
TreeAfter(C, h) ==
  /\ \A p \in Live \ C : node[p].parent \in C => HasParent(p)'
  /\ \A p \in C : p \in Live' => PageOK(h, p)'
  /\ Rooted(h)'
  /\ \A p \in C : \A q \in Live' :
       p \in Live' /\ p # q /\ h[p].level = h[q].level => h[p].hi <= h[q].lo \/ h[q].hi <= h[p].lo

\* The tree is in order after the step.
LEMMA ChangesTree ==
  ASSUME NEW g, NEW h, Good(g), NEW t \in Threads, NEW C, Changes(t, C, g, h), Local(t),
         TreeAfter(C, h)
  PROVE  TreeOK(h)'
<1>1. ASSUME NEW p \in Live', p \notin C
      PROVE  p \in Live /\ PageOK(h, p)' /\ h[p] = g[p]
  <2>1. p \in Live
    BY <1>1 DEF Changes
  <2>2. p \in Live \ C /\ (node[p].parent \in C => HasParent(p)')
    BY <1>1, <2>1 DEF TreeAfter
  <2> QED BY <2>1, <2>2, ChangesKeep
<1>2. \A p \in Live' : PageOK(h, p)'
  BY <1>1 DEF TreeAfter
<1>3. Disjoint(h)'
  <2> SUFFICES ASSUME NEW p \in Live', NEW q \in Live', p # q, h[p].level = h[q].level
               PROVE  h[p].hi <= h[q].lo \/ h[q].hi <= h[p].lo
    BY DEF Disjoint
  <2>1. CASE p \in C
    BY <2>1 DEF TreeAfter
  <2>2. CASE q \in C
    BY <2>2 DEF TreeAfter
  <2>3. CASE p \notin C /\ q \notin C
    BY <1>1, <2>3 DEF Good, TreeOK, Disjoint
  <2> QED BY <2>1, <2>2, <2>3
<1> QED BY <1>2, <1>3 DEF TreeOK, TreeAfter

\* The root stays.
LEMMA RootedKept ==
  ASSUME NEW g, NEW h, Good(g), NEW t \in Threads, NEW C, Changes(t, C, g, h),
         root_page_id' = root_page_id, root_page_id # INVALID_PAGE_ID,
         root_page_id \in C =>
           /\ root_page_id \in Live' /\ node'[root_page_id].parent = node[root_page_id].parent
           /\ h[root_page_id].lo = g[root_page_id].lo /\ h[root_page_id].cap = g[root_page_id].cap,
         \A c \in C : c \in Live' => \E q \in Live : h[c].level = g[q].level
  PROVE  Rooted(h)'
<1>. PICK r : r = root_page_id
  OBVIOUS
<1>1. /\ r \in Live /\ node[r].parent = INVALID_PAGE_ID /\ g[r].lo = 0 /\ g[r].cap = Top
      /\ \A p \in Live : g[p].level <= g[r].level
  BY DEF Good, TreeOK, Rooted
<1>2. INVALID_PAGE_ID \notin C
  BY DEF Changes, PageIds, INVALID_PAGE_ID
<1>3. /\ r \in Live' /\ node'[r].parent = INVALID_PAGE_ID /\ h[r].lo = 0 /\ h[r].cap = Top
      /\ h[r].level = g[r].level
  <2>1. CASE r \in C
    BY <1>1, <2>1 DEF Changes, Live
  <2>2. CASE r \notin C
    BY <1>1, <1>2, <2>2 DEF Changes, Live
  <2> QED BY <2>1, <2>2
<1>4. ASSUME NEW p \in Live' PROVE h[p].level <= h[r].level
  <2>1. CASE p \in C
    BY <1>1, <1>3, <2>1
  <2>2. CASE p \notin C
    <3>1. p \in Live /\ h[p] = g[p]
      BY <2>2 DEF Changes
    <3> QED BY <1>1, <1>3, <3>1
  <2> QED BY <2>1, <2>2
<1> QED BY <1>3, <1>4 DEF Rooted

\* Such a step keeps the invariant.
LEMMA ChangesStep ==
  ASSUME NEW g, NEW h, Good(g), NEW t \in Threads, NEW C, Changes(t, C, g, h), Acts(t),
         Exclusive(t), Apart(t), TreeAfter(C, h), TypeOK', ThreadOK(h, t)', LatchesOK(t), HeaderOK'
  PROVE  Good(h)'
<1>1. Local(t)
  BY StepsLocal DEF Good
<1>2. TreeOK(h)'
  BY <1>1, ChangesTree
<1>3. Frame(t, g, h)
  BY ChangesFrame
<1> QED BY <1>2, <1>3, StepKeeps

-----------------------------------------------------------------------------
(* The end of a call. *)

\* FreePagesInTransaction releases the page set and deletes the deleted set.
LEMMA FreePagesKeeps ==
  ASSUME NEW g \in Ghosts, Good(g), NEW t \in Threads, FreePages(t)
  PROVE  Good(g)'
<1>1. /\ pc[t] = "free" /\ PointOf(t) /\ TypeOK /\ Acts(t)
      /\ rootLock' = Unlocked(rootLock, t) /\ latch' = Released(pages[t], t)
      /\ call' = [call EXCEPT ![t] = NoCall] /\ pc' = [pc EXCEPT ![t] = "idle"]
      /\ target' = [target EXCEPT ![t] = INVALID_PAGE_ID]
      /\ at' = [at EXCEPT ![t] = INVALID_PAGE_ID] /\ fresh' = [fresh EXCEPT ![t] = INVALID_PAGE_ID]
      /\ pages' = [pages EXCEPT ![t] = {}] /\ doomed' = [doomed EXCEPT ![t] = {}]
      /\ answer' = [answer EXCEPT ![t] = Pending]
      /\ UNCHANGED <<root_page_id, header>>
  BY DEF FreePages, At, GoTo, Good, ThreadOK, Acts, Step
<1>2. node' = [p \in DOMAIN node \ doomed[t] |-> node[p]]
  <2>1. ASSUME NEW u \in Threads, pc[u] = "latch" PROVE target[u] \notin doomed[t]
    BY <2>1 DEF Good, ThreadOK, Descends, Live, Doomed
  <2>2. doomed[t] \ {target[u] : u \in {v \in Threads \ {t} : pc[v] = "latch"}} = doomed[t]
    BY <2>1
  <2> QED BY <2>2 DEF FreePages
<1>3. pc'[t] = "idle" /\ call'[t] = NoCall /\ pages'[t] = {} /\ doomed'[t] = {}
  BY <1>1 DEF TypeOK
<1>4. Live' = Live
  <2>1. \A p \in Live : p \in Live'
    BY <1>1, <1>2 DEF Live, Doomed, TypeOK
  <2>2. \A p \in Live' : p \in Live
    BY <1>1, <1>2 DEF Live, Doomed, TypeOK
  <2> QED BY <2>1, <2>2
<1>5. Local(t) /\ Apart(t)
  BY <1>1, <1>3, StepsLocal, ApartIs DEF Good
<1>6. SameMarks
  BY <1>1, <1>5, MarksKept
<1>7. \A p \in Live : node'[p] = node[p]
  BY <1>2, <1>4 DEF Live
<1>8. TreeOK(g)'
  BY <1>1, <1>4, <1>6, <1>7, TreeSame DEF Good
<1>9. Frame(t, g, g)
  <2>1. doomed[t] \subseteq Mine(t)
    BY <1>1 DEF PointOf, Mine
  <2>2. \A p \in DOMAIN node \ doomed[t] : p \in DOMAIN node' /\ node'[p] = node[p]
    BY <1>2
  <2>3. \A p \in DOMAIN node' : p \in DOMAIN node /\ node'[p] = node[p]
    BY <1>2
  <2>4. \A p \in DOMAIN node \ Mine(t) : SameNode(p)
    BY <2>1, <2>2 DEF SameNode
  <2> QED BY <1>1, <1>4, <2>3, <2>4 DEF Frame
<1>10. TypeOK'
  <2>1. rootLock' \in Lock
    BY <1>1, LockFields DEF TypeOK
  <2>2. \A p \in PageIds : latch[p] \in Lock /\ Unlocked(latch[p], t) \in Lock
    BY <1>1, LockFields DEF TypeOK
  <2>3. latch' \in [PageIds -> Lock]
    BY <1>1, <2>2 DEF Released
  <2>4. DOMAIN node' \subseteq PageIds /\ \A p \in DOMAIN node' : node'[p] \in Node
    BY <1>1, <1>2 DEF TypeOK
  <2>5. target' \in [Threads -> PageIds \cup {INVALID_PAGE_ID}]
        /\ at' \in [Threads -> PageIds \cup {INVALID_PAGE_ID}]
        /\ fresh' \in [Threads -> PageIds \cup {INVALID_PAGE_ID}]
    BY <1>1 DEF TypeOK
  <2>6. pages' \in [Threads -> SUBSET PageIds] /\ doomed' \in [Threads -> SUBSET PageIds]
        /\ pc' \in [Threads -> Points]
        /\ call' \in [Threads -> Calls \cup ScanCalls \cup {NoCall}]
        /\ answer' \in [Threads -> Values \cup {"inserted", "duplicate", "removed", "end",
                                            NotFound, Pending}]
    BY <1>1 DEF TypeOK, Points
  <2> QED BY <1>1, <2>1, <2>3, <2>4, <2>5, <2>6 DEF TypeOK
<1>11. PointOf(t)'
  BY <1>3 DEF PointOf
<1>12. ThreadOK(g, t)'
  BY <1>3, <1>11, OwnSimple
<1>13. LatchesOK(t)
  <2>1. LatchStep(t, pages[t], {})
    BY <1>1, <1>3 DEF LatchStep, Released
  <2>2. \A p : ~Waits(t, p)
    BY <1>1, NoWaits
  <2> QED BY <1>3, <2>1, <2>2 DEF LatchesOK
<1>14. HeaderOK'
  BY <1>1 DEF Good, HeaderOK
<1> QED BY <1>1, <1>5, <1>8, <1>9, <1>10, <1>12, <1>13, <1>14, StepKeeps

\* A page id that is not in use.
LEMMA NewPageIs ==
  ASSUME DOMAIN node \subseteq PageIds, CanAllocate
  PROVE  NewPageId \in PageIds /\ NewPageId \notin DOMAIN node
<1> DEFINE S == PageIds \ DOMAIN node
<1>1. S # {} /\ S \in SUBSET Nat
  <2>1. PageIds \in SUBSET Nat
    BY TreeAssumption DEF PageIds
  <2> QED BY <2>1 DEF CanAllocate
<1>2. \E p \in S : \A q \in S : p <= q
  <2> HIDE DEF S
  <2> QED BY <1>1, LeastNumber
<1>3. NewPageId = CHOOSE p \in S : \A q \in S : p <= q
  BY DEF NewPageId
<1>4. NewPageId \in S
  <2> HIDE DEF S
  <2> QED BY <1>2, <1>3
<1> QED BY <1>4

\* Insert starts a new tree.
LEMMA StartNewTreeKeeps ==
  ASSUME NEW g \in Ghosts, Good(g), NEW t \in Threads, StartNewTree(t)
  PROVE  \E h \in Ghosts : Good(h)' /\ Frame(t, g, h)
<1>. PICK p, k, v : p = NewPageId /\ k = call[t].key /\ v = call[t].value
  OBVIOUS
<1>. PICK n : n = [leaf |-> TRUE, array |-> <<Pair(k, v)>>,
                   parent |-> INVALID_PAGE_ID, next |-> INVALID_PAGE_ID]
  OBVIOUS
<1>1. /\ pc[t] = "check" /\ PointOf(t) /\ TypeOK /\ Acts(t) /\ CanAllocate
      /\ root_page_id = INVALID_PAGE_ID /\ root_page_id' = p
      /\ header' = RecordInserted(p) /\ node' = Added(node, p, n)
      /\ rootLock' = Unlocked(rootLock, t)
      /\ answer' = [answer EXCEPT ![t] = "inserted"] /\ pc' = [pc EXCEPT ![t] = "free"]
      /\ UNCHANGED <<latch, call, target, pages, doomed, at, fresh>>
  BY DEF StartNewTree, At, GoTo, Reply, Good, ThreadOK, Acts, Step
<1>2. /\ p \in PageIds /\ p \notin DOMAIN node /\ p # INVALID_PAGE_ID
      /\ DOMAIN node' = DOMAIN node \cup {p} /\ node'[p] = n
      /\ \A q \in DOMAIN node : node'[q] = node[q]
  <2>1. p \in PageIds /\ p \notin DOMAIN node
    BY <1>1, NewPageIs DEF TypeOK
  <2>2. /\ DOMAIN node' = DOMAIN node \cup {p} /\ node'[p] = n
        /\ \A q \in DOMAIN node : node'[q] = node[q]
    BY <1>1, <2>1 DEF Added
  <2>3. p # INVALID_PAGE_ID
    BY <2>1 DEF PageIds, INVALID_PAGE_ID
  <2> QED BY <2>1, <2>2, <2>3
<1>3. Live = {}
  BY <1>1 DEF Good, TreeOK, Rooted
<1>4. Doomed' = Doomed /\ p \notin Doomed
  BY <1>1, <1>2 DEF Doomed, Good, ThreadOK, PointOf
<1>5. Live' = {p}
  BY <1>2, <1>3, <1>4 DEF Live
<1>6. k \in Keys /\ v \in Values /\ k \in Nat /\ k < Top /\ pages[t] = {}
  <2>1. call[t] \in Calls
    BY <1>1 DEF PointOf, ScanCalls
  <2> QED BY <1>1, <2>1, TopAbove DEF Calls, PointOf
<1>. PICK e : e = Pair(k, v)
  OBVIOUS
<1>7. n.leaf /\ n.array = <<e>> /\ n.parent = INVALID_PAGE_ID /\ n.next = INVALID_PAGE_ID
      /\ Len(n.array) = 1 /\ n.array[1] = e /\ e.first = k /\ e.second = v
  BY DEF Pair
<1>8. n \in Node
  <2>1. e \in Entry(Values)
    BY <1>6 DEF Pair, Entry
  <2> QED BY <2>1 DEF Node
<1>. PICK b : b = [lo |-> 0, hi |-> Top, cap |-> Top, level |-> 0]
  OBVIOUS
<1>. PICK h : h = [g EXCEPT ![p] = b]
  OBVIOUS
<1>9. h \in Ghosts /\ h[p] = b /\ (\A q \in DOMAIN node : h[q] = g[q])
      /\ b.lo = 0 /\ b.hi = Top /\ b.cap = Top /\ b.level = 0 /\ Top \in Nat /\ Top > 0
  BY <1>2, TopAbove DEF Ghosts, Bounds
<1>10. PageOK(h, p)'
  <2>1. Size(n) = 1
    BY <1>7 DEF Size
  <2>2. Placed(h, p)'
    BY <1>2, <1>7, <1>9 DEF Placed
  <2>3. LeafEntries(h, p)'
    <3>1. \A i \in 1 .. 1 : i = 1
      OBVIOUS
    <3>2. h[p].lo <= k /\ k < h[p].hi
      BY <1>6, <1>9
    <3>3. Size(node[p])' = 1 /\ node'[p].array[1].first = k /\ node'[p].array[1].second = v
      BY <1>2, <1>7, <2>1
    <3> QED BY <1>6, <3>1, <3>2, <3>3 DEF LeafEntries
  <2>4. NextLeaf(h, p)'
    BY Zenon, <1>2, <1>7, <1>9 DEF NextLeaf
  <2>5. HasParent(p)'
    BY <1>1, <1>2, <1>7 DEF HasParent
  <2>6. Sized(p)'
    BY <1>2, <1>7, <2>1, TreeAssumption DEF Sized, MaxSize, Low
  <2> QED BY <1>2, <1>7, <2>2, <2>3, <2>4, <2>5, <2>6 DEF PageOK
<1>11. TreeOK(h)'
  <2>1. Rooted(h)'
    <3>1. h[p].lo = 0 /\ h[p].cap = Top /\ h[p].level <= h[p].level
      BY <1>9
    <3>2. p \in Live' /\ node'[p].parent = INVALID_PAGE_ID /\ \A q \in Live' : q = p
      BY <1>2, <1>5, <1>7
    <3> QED BY <1>1, <1>2, <3>1, <3>2 DEF Rooted
  <2>2. Disjoint(h)'
    BY <1>5 DEF Disjoint
  <2> QED BY <1>5, <1>10, <2>1, <2>2 DEF TreeOK
<1>12. Frame(t, g, h)
  <2>1. \A q \in DOMAIN node : SameNode(q)
    BY <1>2 DEF SameNode
  <2> QED BY <1>2, <1>3, <1>9, <2>1 DEF Frame
<1>13. TypeOK'
  <2>1. rootLock' \in Lock
    BY <1>1, LockFields DEF TypeOK
  <2>2. DOMAIN node' \subseteq PageIds /\ \A q \in DOMAIN node' : node'[q] \in Node
    BY <1>1, <1>2, <1>8 DEF TypeOK
  <2>3. pc' \in [Threads -> Points]
        /\ answer' \in [Threads -> Values \cup {"inserted", "duplicate", "removed", "end",
                                            NotFound, Pending}]
    BY <1>1 DEF TypeOK, Points
  <2>4. header' \in PageIds \cup {INVALID_PAGE_ID, NoRecord}
    BY <1>1, <1>2 DEF TypeOK, RecordInserted
  <2> QED BY <1>1, <1>2, <2>1, <2>2, <2>3, <2>4 DEF TypeOK
<1>14. pc'[t] = "free" /\ pages'[t] = {} /\ doomed'[t] = doomed[t] /\ call'[t] = call[t]
  BY <1>1, <1>6 DEF TypeOK
<1>15. PointOf(t)'
  BY <1>1, <1>14 DEF PointOf, Exclusive
<1>16. ThreadOK(h, t)'
  BY <1>14, <1>15, OwnSimple
<1>17. LatchesOK(t)
  BY <1>1, <1>6, NoWaits, LatchesSame
<1>18. HeaderOK'
  BY <1>1 DEF Good, HeaderOK, RecordInserted
<1>19. Apart(t)
  BY <1>6, <1>14, ApartIs
<1>20. Good(h)'
  BY <1>1, <1>11, <1>12, <1>13, <1>16, <1>17, <1>18, <1>19, StepKeeps
<1> QED BY <1>9, <1>12, <1>20

-----------------------------------------------------------------------------
(* Changes to a leaf. *)

LeafNew(g, p, a) ==
  /\ \A i \in 1 .. Len(a) :
       /\ a[i].first \in Keys /\ a[i].second \in Values
       /\ g[p].lo <= a[i].first /\ a[i].first < g[p].hi
  /\ \A i, j \in 1 .. Len(a) : i < j => a[i].first < a[j].first

NewArray(p, a) ==
  /\ DOMAIN node' = DOMAIN node
  /\ \A q \in DOMAIN node \ {p} : node'[q] = node[q]
  /\ node'[p].leaf = node[p].leaf /\ node'[p].array = a
  /\ node'[p].parent = node[p].parent /\ node'[p].next = node[p].next

\* A leaf whose entries change, within its bounds.
LEMMA LeafChanged ==
  ASSUME NEW g \in Ghosts, Good(g), NEW t \in Threads, pc[t] = "leaf", Exclusive(t),
         NEW p, p = target[t], NEW a, LeafNew(g, p, a), NewArray(p, a),
         UNCHANGED <<root_page_id, doomed>>, Sized(p)', Local(t)
  PROVE  Changes(t, {p}, g, g) /\ TreeAfter({p}, g)
<1>1. p \in pages[t] /\ node[p].leaf /\ p \in Live /\ p \in DOMAIN node /\ p \in PageIds
  <2>1. p \in pages[t] /\ p \notin doomed[t] /\ node[p].leaf
    BY DEF Good, ThreadOK, InLeaf, PointOf
  <2> QED BY <2>1, LiveMine, NodeFacts DEF Live
<1>2. Live' = Live
  BY DEF Live, Doomed, NewArray
<1>3. \A q \in Live : node[q].parent \notin {p}
  <2>1. ASSUME NEW q \in Live, node[q].parent = p PROVE FALSE
    <3>1. p # INVALID_PAGE_ID
      BY <1>1 DEF PageIds, INVALID_PAGE_ID
    <3>2. HasParent(q)
      BY DEF Good, TreeOK, PageOK
    <3> QED BY <1>1, <2>1, <3>1, <3>2 DEF HasParent
  <2> QED BY <2>1
<1>4. Changes(t, {p}, g, g)
  <2>1. {p} \subseteq Mine(t) \cap PageIds
    BY <1>1 DEF Mine
  <2>2. p \notin {INVALID_PAGE_ID}
    BY <1>1 DEF PageIds, INVALID_PAGE_ID
  <2>3. \A q \in DOMAIN node \ {p} : node[q].parent = p => node'[q].parent # INVALID_PAGE_ID
    BY <2>2 DEF NewArray
  <2> QED BY <1>1, <1>2, <2>1, <2>3 DEF Changes, NewArray, Live
<1>5. TreeAfter({p}, g)
  <2>1. PageOK(g, p)
    BY <1>1 DEF Good, TreeOK
  <2>2. \A point \in {"split", "parent", "underflow"} : ~Busy(p, point)
    BY <1>1, BusyMine
  <2>3. ~Hangs(p)
    BY <1>1, HangsMine
  <2>4. Placed(g, p)'
    BY <2>1, <2>2 DEF PageOK, Placed, NewArray
  <2>5. LeafEntries(g, p)'
    BY DEF LeafEntries, NewArray, LeafNew, Size
  <2>6. NextLeaf(g, p)'
    <3>. PICK q : q = node[p].next
      OBVIOUS
    <3>1. node'[p].next = q /\ NextLeaf(g, p)
      BY <1>1, <2>1 DEF NewArray, PageOK
    <3>2. \A r \in Live : node'[r].leaf = node[r].leaf
      BY DEF NewArray, Live
    <3> QED BY <1>2, <3>1, <3>2 DEF NextLeaf
  <2>7. HasParent(p)'
    <3>. PICK q : q = node[p].parent
      OBVIOUS
    <3>1. node'[p].parent = q /\ HasParent(p)
      BY <2>1 DEF NewArray, PageOK
    <3>2. q # INVALID_PAGE_ID => q \in Live /\ ~node[q].leaf /\ IsChild(p, q)
      BY <2>3, <3>1 DEF HasParent
    <3>3. q # INVALID_PAGE_ID => node'[q] = node[q]
      BY Zenon, <1>1, <3>2 DEF NewArray, Live
    <3>4. q # INVALID_PAGE_ID => IsChild(p, q)'
      BY <3>2, <3>3 DEF IsChild, Size
    <3> QED BY <1>2, <2>3, <3>1, <3>2, <3>3, <3>4 DEF HasParent
  <2>8. PageOK(g, p)'
    BY <1>1, <2>4, <2>5, <2>6, <2>7 DEF PageOK, NewArray
  <2>9. Rooted(g)'
    <3>1. node'[root_page_id].parent = node[root_page_id].parent \/ Live = {}
      BY <1>1 DEF Good, TreeOK, Rooted, NewArray, Live
    <3> QED BY <1>1, <1>2, <3>1 DEF Good, TreeOK, Rooted
  <2>10. \A q \in Live : p # q /\ g[p].level = g[q].level => g[p].hi <= g[q].lo \/ g[q].hi <= g[p].lo
    BY Zenon, <1>1 DEF Good, TreeOK, Disjoint
  <2> QED BY <1>2, <1>3, <2>8, <2>9, <2>10 DEF TreeAfter
<1> QED BY <1>4, <1>5

\* A leaf that t has reached, and what is in it.
LEMMA LeafReached ==
  ASSUME NEW g \in Ghosts, Good(g), NEW t \in Threads, pc[t] = "leaf", Exclusive(t),
         NEW p, p = target[t]
  PROVE  /\ p \in pages[t] /\ node[p].leaf /\ p \in Live /\ p \in DOMAIN node /\ p \in PageIds
         /\ InRange(g, t, p) /\ doomed[t] = {} /\ Sorted(node[p], 1)
         /\ LeafNew(g, p, node[p].array) /\ LeafEntries(g, p)
         /\ Size(node[p]) \in Nat /\ Low(node[p]) <= Size(node[p]) /\ Size(node[p]) <= LeafMax
         /\ call[t] \in Calls /\ call[t].key \in Keys /\ call[t].value \in Values
         /\ call[t].key \in Nat
<1>1. p \in pages[t] /\ node[p].leaf /\ InRange(g, t, p) /\ doomed[t] = {}
  BY DEF Good, ThreadOK, InLeaf, PointOf
<1>2. p \in Live
  BY <1>1, LiveMine
<1>3. p \in DOMAIN node /\ p \in PageIds /\ Size(node[p]) \in Nat
      /\ \A i \in 1 .. Size(node[p]) : node[p].array[i].first \in Nat
  BY <1>2, NodeFacts DEF Live
<1>4. LeafEntries(g, p) /\ Sized(p)
  BY <1>1, <1>2 DEF Good, TreeOK, PageOK
<1>5. ~Busy(p, "split") /\ ~Busy(p, "underflow")
  BY <1>1, BusyMine
<1>6. Low(node[p]) <= Size(node[p]) /\ Size(node[p]) <= LeafMax
  BY <1>1, <1>4, <1>5 DEF Sized, MaxSize
<1>7. call[t] \in Calls
  BY DEF Good, ThreadOK, PointOf, Exclusive, ScanCalls
<1>8. call[t].key \in Keys /\ call[t].value \in Values /\ call[t].key \in Nat
  BY <1>7, TopAbove DEF Calls
<1> QED BY <1>1, <1>2, <1>3, <1>4, <1>6, <1>7, <1>8 DEF LeafNew, LeafEntries, Sorted, Size

\* Pages that t keeps when it only changes the entries of p.
LEMMA KeepsNewArray ==
  ASSUME NEW g, NEW t \in Threads, NEW p, NEW a, NewArray(p, a), p \in DOMAIN node,
         pages[t] \subseteq DOMAIN node,
         UNCHANGED <<rootLock, pages, call>>, NEW q \in pages[t]
  PROVE  /\ ParentHeld(t, q)' <=> ParentHeld(t, q)
         /\ q # p => (IsSafe(node[q], call[t].op)' <=> IsSafe(node[q], call[t].op))
<1>1. node'[q].parent = node[q].parent /\ (q # p => node'[q] = node[q])
  BY DEF NewArray
<1>2. HoldsRoot(t)' <=> HoldsRoot(t)
  BY DEF HoldsRoot, Exclusive
<1> QED BY <1>1, <1>2 DEF ParentHeld, IsSafe, Size, MaxSize, MinSize

\* Insertion into a leaf.
LEMMA InsertIntoLeafKeeps ==
  ASSUME NEW g \in Ghosts, Good(g), NEW t \in Threads, InsertIntoLeaf(t)
  PROVE  Good(g)'
<1>. PICK p, n, k, v : p = target[t] /\ n = node[p] /\ k = call[t].key /\ v = call[t].value
  OBVIOUS
<1>1. /\ pc[t] = "leaf" /\ PointOf(t) /\ TypeOK /\ Acts(t) /\ call[t].op = "Insert" /\ Exclusive(t)
      /\ UNCHANGED <<root_page_id, header, rootLock, latch, call, target, pages, doomed, fresh>>
  BY DEF InsertIntoLeaf, At, Good, ThreadOK, Acts, Step, Exclusive, lockVars
<1>2. /\ p \in pages[t] /\ n.leaf /\ p \in Live /\ p \in DOMAIN node /\ p \in PageIds
      /\ InRange(g, t, p) /\ doomed[t] = {} /\ Sorted(n, 1) /\ LeafNew(g, p, n.array)
      /\ Size(n) \in Nat /\ Low(n) <= Size(n) /\ Size(n) <= LeafMax
      /\ k \in Keys /\ v \in Values /\ k \in Nat
  BY <1>1, LeafReached
<1>3. n \in Node /\ n.array \in Seq(Entry(Values) \cup Entry(PageIds))
  BY <1>2, NodeFacts
<1>4. LatchesOK(t)
  BY <1>1, NoWaits, LatchesSame DEF Exclusive
<1>5. Local(t) /\ Apart(t)
  BY <1>1, StepsLocal, ApartIs
<1>6. HeaderOK'
  BY <1>1 DEF Good, HeaderOK
<1>7. CASE Has(n, k)
  <2>1. /\ answer' = [answer EXCEPT ![t] = "duplicate"] /\ pc' = [pc EXCEPT ![t] = "free"]
        /\ UNCHANGED <<node, at>>
    BY <1>7 DEF InsertIntoLeaf, GoTo, Reply
  <2>2. TypeOK'
    <3>1. pc' \in [Threads -> Points]
          /\ answer' \in [Threads -> Values \cup {"inserted", "duplicate", "removed", "end",
                                            NotFound, Pending}]
      BY <1>1, <2>1 DEF TypeOK, Points
    <3> QED BY <1>1, <2>1, <3>1 DEF TypeOK
  <2>3. pc'[t] = "free"
    BY <1>1, <2>1 DEF TypeOK
  <2>4. PointOf(t)'
    BY <1>1, <2>1, <2>3 DEF PointOf, Exclusive
  <2>5. ThreadOK(g, t)'
    BY <2>3, <2>4, OwnSimple
  <2>6. Live' = Live
    BY <1>1, <2>1 DEF Live, Doomed
  <2>7. Frame(t, g, g)
    BY <1>1, <2>1, <2>6, FrameSame
  <2>8. SameMarks
    BY <1>1, <1>5, MarksKept
  <2>9. TreeOK(g)'
    <3>1. \A q \in Live : node'[q] = node[q]
      BY <2>1
    <3> QED BY <1>1, <2>6, <2>8, <3>1, TreeSame DEF Good
  <2> QED BY <1>1, <1>4, <1>5, <1>6, <2>2, <2>5, <2>7, <2>9, StepKeeps
<1>8. CASE ~Has(n, k)
  <2>. PICK e, x : e = Pair(k, v) /\ x = KeyIndex(n, k)
    OBVIOUS
  <2>. PICK a : a = InsertAt(n.array, x, e)
    OBVIOUS
  <2>. PICK point : point = IF Size(n) + 1 > MaxSize(n) THEN "split" ELSE "free"
    OBVIOUS
  <2>1. /\ answer' = [answer EXCEPT ![t] = "inserted"] /\ pc' = [pc EXCEPT ![t] = point]
        /\ node' = [node EXCEPT ![p].array = a] /\ at' = [at EXCEPT ![t] = p]
    BY <1>8 DEF InsertIntoLeaf, GoTo, Reply
  <2>2. e \in Entry(Values) \cup Entry(PageIds) /\ e.first = k /\ e.second = v
    BY <1>2 DEF Pair, Entry
  <2>3. /\ x \in 1 .. Size(n) + 1
        /\ \A i \in 1 .. Size(n) : n.array[i].first < k <=> i < x
    BY <1>2, KeyIndexIs
  <2>4. \A i \in 1 .. Size(n) : n.array[i].first # k
    BY <1>2, <1>8, HasIs
  <2>5. a \in Seq(Entry(Values) \cup Entry(PageIds)) /\ Inserted(a, n.array, x, e)
    BY <1>3, <2>2, <2>3, InsertAtIs DEF Size
  <2>6. Fits(n.array, e, x) /\ x \in 1 .. Len(n.array) + 1 /\ Len(n.array) = Size(n)
    BY <1>2, <2>2, <2>3, <2>4 DEF Fits, Sorted, Size
  <2>17. Len(a) = Size(n) + 1
    BY Zenon, <2>5, <2>6 DEF Inserted
  <2>7. LeafNew(g, p, a)
    <3>1. /\ \A j \in 1 .. Len(a) : a[j] = e \/ \E i \in 1 .. Len(n.array) : a[j] = n.array[i]
          /\ \A i, j \in 1 .. Len(a) : i < j => a[i].first < a[j].first
      <4>1. OneMore(a, n.array, e) /\ Ordered(a)
        BY Zenon, <1>2, <2>5, <2>6, SortedInsert
      <4> QED BY <4>1 DEF OneMore, Ordered
    <3>2. ASSUME NEW j \in 1 .. Len(a)
          PROVE  /\ a[j].first \in Keys /\ a[j].second \in Values
                 /\ g[p].lo <= a[j].first /\ a[j].first < g[p].hi
      <4>1. CASE a[j] = e
        BY Zenon, <1>2, <2>2, <4>1 DEF InRange
      <4>2. CASE \E i \in 1 .. Len(n.array) : a[j] = n.array[i]
        BY <1>2, <4>2 DEF LeafNew
      <4>3. a[j] = e \/ \E i \in 1 .. Len(n.array) : a[j] = n.array[i]
        BY Zenon, <3>1
      <4> QED BY Zenon, <4>1, <4>2, <4>3
    <3> QED BY Zenon, <3>1, <3>2 DEF LeafNew
  <2>8. NewArray(p, a) /\ node'[p] \in Node
    <3>1. node'[p] = [n EXCEPT !.array = a]
      BY <1>2, <2>1
    <3> QED BY <1>2, <1>3, <2>1, <2>5, <3>1 DEF NewArray, Node
  <2>9. TypeOK'
    <3>1. /\ pc' \in [Threads -> Points] /\ at' \in [Threads -> PageIds \cup {INVALID_PAGE_ID}]
          /\ answer' \in [Threads -> Values \cup {"inserted", "duplicate", "removed", "end",
                                            NotFound, Pending}]
      BY <1>1, <1>2, <2>1 DEF TypeOK, Points
    <3>2. DOMAIN node' \subseteq PageIds /\ \A q \in DOMAIN node' : node'[q] \in Node
      BY <1>1, <2>8 DEF TypeOK, NewArray
    <3> QED BY <1>1, <3>1, <3>2 DEF TypeOK
  <2>10. pc'[t] = point /\ at'[t] = p
    BY <1>1, <2>1 DEF TypeOK
  <2>11. Size(node[p])' = Size(n) + 1 /\ MaxSize(node[p])' = LeafMax /\ MaxSize(n) = LeafMax
         /\ Low(node[p])' = Low(n)
    BY <1>2, <2>17, <2>8 DEF NewArray, Size, MaxSize, Low
  <2>12. Low(n) \in Nat
    BY <1>2, TreeAssumption DEF Low
  <2>13. Sized(p)'
    <3>1. Low(node[p])' <= Size(node[p])'
      BY <1>2, <2>11, <2>12
    <3>2. point = "split" => Busy(p, "split")'
      BY <2>10 DEF Busy
    <3>3. point # "split" => Size(node[p])' <= MaxSize(node[p])'
      BY <1>2, <2>11, TreeAssumption
    <3> QED BY <3>1, <3>2, <3>3 DEF Sized
  <2>14. Changes(t, {p}, g, g) /\ TreeAfter({p}, g)
    BY <1>1, <1>5, <2>7, <2>8, <2>13, LeafChanged
  <2>15. PointOf(t)'
    <3>1. pages[t] \subseteq DOMAIN node /\ DOMAIN node' = DOMAIN node
      BY <1>1, <2>8 DEF PointOf, NewArray
    <3> QED BY <1>1, <1>2, <2>10, <3>1 DEF PointOf, Exclusive
  <2>16. ThreadOK(g, t)'
    <3>1. CASE point = "free"
      BY <2>10, <2>15, <3>1, OwnSimple
    <3>2. CASE point = "split"
      <4>1. Size(n) = LeafMax /\ ~IsSafe(n, "Insert")
        BY <1>2, <2>11, <3>2, TreeAssumption DEF IsSafe
      <4>2. Keeps(g, t)
        BY DEF Good, ThreadOK
      <4>3. ParentHeld(t, p)
        BY <1>1, <1>2, <4>1, <4>2 DEF Keeps
      <4>4. ASSUME NEW q \in pages[t] PROVE ParentHeld(t, q)' \/ IsSafe(node[q], call[t].op)'
        <5>1. ParentHeld(t, q) \/ (IsSafe(node[q], call[t].op) /\ q # p)
          BY <1>1, <1>2, <4>2, <4>3 DEF Keeps
        <5>2. /\ ParentHeld(t, q)' <=> ParentHeld(t, q)
              /\ q # p => (IsSafe(node[q], call[t].op)' <=> IsSafe(node[q], call[t].op))
          BY <1>1, <1>2, <2>8, KeepsNewArray DEF PointOf
        <5> QED BY <5>1, <5>2
      <4>5. ParentHeld(t, p)'
        BY <1>1, <1>2, <2>8, <4>3, KeepsNewArray DEF PointOf
      <4>6. Keeps(g, t)'
        BY <1>1, <2>10, <3>2, <4>4 DEF Keeps
      <4>7. Climbs(g, t)'
        BY <1>1, <1>2, <2>10, <4>5 DEF Climbs
      <4>8. Splits(t)'
        BY <2>10, <2>11, <4>1 DEF Splits
      <4> QED BY <2>10, <2>15, <3>2, <4>6, <4>7, <4>8
              DEF ThreadOK, Descends, InLeaf, Walks, Links, Shrinks, Levels
    <3> QED BY <3>1, <3>2
  <2> QED BY <1>1, <1>4, <1>5, <1>6, <2>9, <2>14, <2>16, ChangesStep
<1> QED BY <1>7, <1>8

\* The entries of a leaf with one less.
LEMMA LeafLess ==
  ASSUME NEW g, NEW p, NEW s, NEW x, NEW a, LeafNew(g, p, s), OneLess(a, s, x), Ordered(a)
  PROVE  LeafNew(g, p, a)
<1>1. ASSUME NEW j \in 1 .. Len(a)
      PROVE  /\ a[j].first \in Keys /\ a[j].second \in Values
             /\ g[p].lo <= a[j].first /\ a[j].first < g[p].hi
  <2>1. PICK i \in 1 .. Len(s) : a[j] = s[i]
    BY DEF OneLess
  <2> QED BY <2>1 DEF LeafNew
<1> QED BY <1>1 DEF LeafNew, Ordered

\* Removal from a leaf.
LEMMA RemoveFromLeafKeeps ==
  ASSUME NEW g \in Ghosts, Good(g), NEW t \in Threads, RemoveFromLeaf(t)
  PROVE  Good(g)'
<1>. PICK p, n, k : p = target[t] /\ n = node[p] /\ k = call[t].key
  OBVIOUS
<1>. PICK x, size : x = KeyIndex(n, k) /\ size = Size(n) - (IF Has(n, k) THEN 1 ELSE 0)
  OBVIOUS
<1>. PICK a, point : /\ a = IF Has(n, k) THEN RemoveAt(n.array, x) ELSE n.array
                     /\ point = IF size < MinSize(n) THEN "underflow" ELSE "free"
  OBVIOUS
<1>1. /\ pc[t] = "leaf" /\ PointOf(t) /\ TypeOK /\ Acts(t) /\ call[t].op = "Remove" /\ Exclusive(t)
      /\ UNCHANGED <<root_page_id, header, rootLock, latch, call, target, pages, doomed, fresh>>
      /\ answer' = [answer EXCEPT ![t] = "removed"] /\ at' = [at EXCEPT ![t] = p]
      /\ pc' = [pc EXCEPT ![t] = point]
      /\ node' = [node EXCEPT ![p].array = IF Has(n, k) THEN RemoveAt(@, x) ELSE @]
  BY DEF RemoveFromLeaf, At, Good, ThreadOK, Acts, Step, Exclusive, lockVars, GoTo, Reply,
         LeafTooSmall
<1>2. /\ p \in pages[t] /\ n.leaf /\ p \in Live /\ p \in DOMAIN node /\ p \in PageIds
      /\ InRange(g, t, p) /\ doomed[t] = {} /\ Sorted(n, 1) /\ LeafNew(g, p, n.array)
      /\ Size(n) \in Nat /\ Low(n) <= Size(n) /\ Size(n) <= LeafMax /\ k \in Nat
  BY <1>1, LeafReached
<1>3. n \in Node /\ n.array \in Seq(Entry(Values) \cup Entry(PageIds))
  BY <1>2, NodeFacts
<1>4. LatchesOK(t)
  BY <1>1, NoWaits, LatchesSame DEF Exclusive
<1>5. Local(t) /\ Apart(t)
  BY <1>1, StepsLocal, ApartIs
<1>6. HeaderOK'
  BY <1>1 DEF Good, HeaderOK
<1>7. a \in Seq(Entry(Values) \cup Entry(PageIds)) /\ LeafNew(g, p, a) /\ Len(a) = size
  <2>1. CASE Has(n, k)
    <3>1. x \in 1 .. Size(n)
      BY <1>2, <2>1, HasIs
    <3>2. a \in Seq(Entry(Values) \cup Entry(PageIds)) /\ Removed(a, n.array, x)
      BY <1>3, <2>1, <3>1, RemoveAtIs DEF Size
    <3>3. Len(n.array) \in Nat /\ x \in 1 .. Len(n.array) /\ Ordered(n.array)
      BY <1>2, <3>1 DEF Size, LeafNew, Ordered
    <3>4. OneLess(a, n.array, x) /\ Ordered(a)
      BY <3>2, <3>3, SortedRemove
    <3>5. LeafNew(g, p, a)
      BY <1>2, <3>4, LeafLess
    <3>6. Len(a) = size
      BY <2>1, <3>2 DEF Removed, Size
    <3> QED BY <3>2, <3>5, <3>6
  <2>2. CASE ~Has(n, k)
    BY <1>2, <1>3, <2>2 DEF Size
  <2> QED BY <2>1, <2>2
<1>8. NewArray(p, a) /\ node'[p] \in Node
  <2>1. node'[p] = [n EXCEPT !.array = a]
    BY <1>1, <1>2
  <2>2. DOMAIN node' = DOMAIN node /\ \A q \in DOMAIN node \ {p} : node'[q] = node[q]
    BY <1>1
  <2>3. node'[p] \in Node /\ node'[p].leaf = n.leaf /\ node'[p].array = a
        /\ node'[p].parent = n.parent /\ node'[p].next = n.next
    BY <1>3, <1>7, <2>1 DEF Node
  <2> QED BY <2>2, <2>3 DEF NewArray
<1>9. TypeOK'
  <2>1. /\ pc' \in [Threads -> Points] /\ at' \in [Threads -> PageIds \cup {INVALID_PAGE_ID}]
        /\ answer' \in [Threads -> Values \cup {"inserted", "duplicate", "removed", "end",
                                            NotFound, Pending}]
    BY <1>1, <1>2 DEF TypeOK, Points
  <2>2. DOMAIN node' \subseteq PageIds /\ \A q \in DOMAIN node' : node'[q] \in Node
    BY <1>1, <1>8 DEF TypeOK, NewArray
  <2> QED BY <1>1, <2>1, <2>2 DEF TypeOK
<1>10. pc'[t] = point /\ at'[t] = p
  BY <1>1 DEF TypeOK
<1>11. Size(node[p])' = size /\ MaxSize(node[p])' = LeafMax /\ MinSize(node[p])' = MinSize(n)
       /\ Low(node[p])' = MinSize(n) /\ Low(n) = MinSize(n)
  BY <1>2, <1>7, <1>8 DEF NewArray, Size, MaxSize, MinSize, Low
<1>12. MinSize(n) \in Nat
  BY <1>2, TreeAssumption DEF MinSize, MaxSize
<1>13. Sized(p)'
  <2>1. Size(node[p])' <= MaxSize(node[p])'
    BY <1>2, <1>11, TreeAssumption
  <2>2. point = "underflow" => Busy(p, "underflow")'
    BY <1>10 DEF Busy
  <2>3. size \in Int
    BY <1>2
  <2>4. point # "underflow" => Low(node[p])' <= Size(node[p])'
    BY <1>11, <1>12, <2>3
  <2> QED BY <2>1, <2>2, <2>4 DEF Sized
<1>14. Changes(t, {p}, g, g) /\ TreeAfter({p}, g)
  BY <1>1, <1>5, <1>7, <1>8, <1>13, LeafChanged
<1>15. PointOf(t)'
  <2>1. pages[t] \subseteq DOMAIN node /\ DOMAIN node' = DOMAIN node
    BY <1>1, <1>8 DEF PointOf, NewArray
  <2> QED BY <1>1, <1>2, <1>10, <2>1 DEF PointOf, Exclusive
<1>16. ThreadOK(g, t)'
  <2>1. CASE point = "free"
    BY <1>10, <1>15, <2>1, OwnSimple
  <2>2. CASE point = "underflow"
    <3>1. size < MinSize(n)
      BY <2>2
    <3>2. Has(n, k) /\ size + 1 = Size(n) /\ Size(n) = MinSize(n)
      BY <1>2, <1>11, <1>12, <3>1
    <3>3. ~IsSafe(n, "Remove")
      BY <1>2, <1>12, <3>2 DEF IsSafe
    <3>4. Keeps(g, t) /\ Levels(g, t)
      BY DEF Good, ThreadOK
    <3>5. ParentHeld(t, p)
      BY <1>1, <1>2, <3>3, <3>4 DEF Keeps
    <3>6. ASSUME NEW q \in pages[t], q # p PROVE g[p].level < g[q].level
      <4>1. g[p].level = 0
        BY <1>2 DEF Good, TreeOK, PageOK, Placed
      <4>2. g[q].level # g[p].level
        BY <1>1, <1>2, <3>4, <3>6 DEF Levels
      <4>3. q \in PageIds
        BY <1>1 DEF TypeOK
      <4> QED BY <4>1, <4>2, <4>3, GhostFacts
    <3>7. ASSUME NEW q \in pages[t]
          PROVE  ParentHeld(t, q)' \/ (IsSafe(node[q], call[t].op)' /\ g[p].level < g[q].level)
      <4>1. ParentHeld(t, q) \/ (IsSafe(node[q], call[t].op) /\ q # p)
        BY <1>1, <1>2, <3>4, <3>5 DEF Keeps
      <4>2. /\ ParentHeld(t, q)' <=> ParentHeld(t, q)
            /\ q # p => (IsSafe(node[q], call[t].op)' <=> IsSafe(node[q], call[t].op))
        BY <1>1, <1>2, <1>8, KeepsNewArray DEF PointOf
      <4> QED BY <3>6, <4>1, <4>2
    <3>8. ParentHeld(t, p)'
      BY <1>1, <1>2, <1>8, <3>5, KeepsNewArray DEF PointOf
    <3>9. Keeps(g, t)'
      BY <1>1, <1>10, <2>2, <3>7 DEF Keeps
    <3>10. Climbs(g, t)'
      BY <1>1, <1>2, <1>10, <3>8 DEF Climbs
    <3>11. Shrinks(t)'
      BY <1>2, <1>8, <1>10, <1>11, <3>2 DEF Shrinks, NewArray
    <3>12. Levels(g, t)'
      BY <1>1, <1>10, <2>2, <3>4 DEF Levels
    <3> QED BY <1>10, <1>15, <2>2, <3>9, <3>10, <3>11, <3>12
            DEF ThreadOK, Descends, InLeaf, Walks, Splits, Links
  <2> QED BY <2>1, <2>2
<1> QED BY <1>1, <1>4, <1>5, <1>6, <1>9, <1>14, <1>16, ChangesStep

\* s is cut after m.
Halves(a, b, s, m) ==
  /\ Len(a) = m /\ Len(b) = Len(s) - m
  /\ \A i \in 1 .. m : a[i] = s[i]
  /\ \A i \in 1 .. Len(s) - m : b[i] = s[m + i]

\* The two subsequences that Split makes are halves.
LEMMA HalvesIs ==
  ASSUME NEW S, NEW s \in Seq(S), NEW m \in 1 .. Len(s)
  PROVE  /\ SubSeq(s, 1, m) \in Seq(S) /\ SubSeq(s, m + 1, Len(s)) \in Seq(S)
         /\ Halves(SubSeq(s, 1, m), SubSeq(s, m + 1, Len(s)), s, m)
<1>1. Len(s) \in Nat /\ m \in Nat /\ 1 <= m /\ m <= Len(s)
  BY LenProperties
<1>2. /\ SubSeq(s, 1, m) \in Seq(S) /\ Len(SubSeq(s, 1, m)) = m
      /\ \A i \in 1 .. m : SubSeq(s, 1, m)[i] = s[i]
  BY <1>1
<1>3. /\ SubSeq(s, m + 1, Len(s)) \in Seq(S) /\ Len(SubSeq(s, m + 1, Len(s))) = Len(s) - m
      /\ \A i \in 1 .. Len(s) - m : SubSeq(s, m + 1, Len(s))[i] = s[m + i]
  BY <1>1
<1> QED BY <1>2, <1>3 DEF Halves

\* The sizes of the two halves of a node that is too large.
LEMMA MiddleIs ==
  ASSUME NEW M \in Nat, M >= 2, NEW m, m = (M + 1) \div 2
  PROVE  /\ m \in Nat /\ 1 <= m /\ m <= M /\ M \div 2 \in Nat
         /\ M \div 2 <= m /\ M \div 2 <= M + 1 - m
         /\ M >= 3 => 2 <= m /\ 2 <= M + 1 - m
OBVIOUS

\* Nobody holds or awaits a page that does not exist.
LEMMA FreshLatch ==
  ASSUME NEW g \in Ghosts, Good(g), NEW p \in PageIds, p \notin DOMAIN node
  PROVE  /\ latch[p].entered = Nobody /\ latch[p].readers = {}
         /\ \A t \in Threads : p \notin pages[t]
<1>1. ASSUME NEW u \in Threads PROVE ~Waits(u, p) /\ p \notin pages[u]
  <2>1. ThreadOK(g, u)
    BY DEF Good
  <2>2. pc[u] = "latch" => target[u] \in Live
    BY <2>1 DEF ThreadOK, Descends
  <2>3. pc[u] = "underflow" /\ node[at[u]].parent # INVALID_PAGE_ID => Sibling(at[u]) \in Live
    BY SiblingFacts
  <2>4. p \notin Live /\ p \notin pages[u]
    BY <2>1 DEF Live, ThreadOK, PointOf
  <2> QED BY <2>2, <2>3, <2>4 DEF Waits
<1>2. latch[p].entered \in Threads \cup {Nobody} /\ latch[p].readers \subseteq Threads
  BY DEF Good, TypeOK, Lock
<1>3. \A u \in Threads : LatchOK(u, p)
  BY DEF Good, LatchInv
<1>4. ASSUME NEW u \in Threads PROVE latch[p].entered # u /\ u \notin latch[p].readers
  BY <1>1, <1>3 DEF LatchOK
<1> QED BY <1>1, <1>2, <1>4

-----------------------------------------------------------------------------
(* Splits. *)

SplitInto(p, new, a, b, m) ==
  /\ DOMAIN node' = DOMAIN node \cup {new} /\ new \in PageIds /\ new \notin DOMAIN node
  /\ \A q \in DOMAIN node' : node'[q] \in Node
  /\ Halves(a, b, node[p].array, m)
  /\ node'[p].leaf = node[p].leaf /\ node'[p].array = a /\ node'[p].parent = node[p].parent
  /\ node'[p].next = IF node[p].leaf THEN new ELSE node[p].next
  /\ node'[new].leaf = node[p].leaf /\ node'[new].array = b
  /\ node'[new].parent = node[p].parent /\ node'[new].next = node[p].next
  /\ \A q \in DOMAIN node \ {p} :
       /\ node'[q].leaf = node[q].leaf /\ node'[q].array = node[q].array
       /\ node'[q].next = node[q].next
       /\ node'[q].parent = IF ~node[p].leaf /\ (\E i \in m + 1 .. Size(node[p]) : node[p].array[i].second = q)
                            THEN new ELSE node[q].parent

\* The node that is split, before and after.
LEMMA SplitNodeIs ==
  ASSUME NEW g \in Ghosts, Good(g), NEW t \in Threads, SplitNode(t),
         NEW p, p = at[t], NEW M, M = MaxSize(node[p]), NEW m, m = (M + 1) \div 2
  PROVE  /\ p \in pages[t] /\ p \in Live /\ p \in DOMAIN node /\ p \in PageIds
         /\ ParentHeld(t, p) /\ Size(node[p]) = M + 1 /\ M \in Nat /\ M >= 2
         /\ ~node[p].leaf => M >= 3
         /\ m \in 1 .. M /\ call[t].op = "Insert" /\ Exclusive(t)
         /\ g[p].hi = g[p].cap /\ doomed[t] = {}
         /\ \A point \in {"split", "parent", "underflow"} : point # "split" => ~Busy(p, point)
         /\ ~Hangs(p)
         /\ \E a, b : SplitInto(p, NewPageId, a, b, m)
<1>1. /\ pc[t] = "split" /\ ThreadOK(g, t) /\ CanAllocate
      /\ DOMAIN node \subseteq PageIds
  BY DEF SplitNode, At, Good, TypeOK
<1>2. /\ p \in pages[t] /\ ParentHeld(t, p) /\ Size(node[p]) = M + 1
      /\ call[t].op = "Insert" /\ Exclusive(t) /\ doomed[t] = {}
  BY <1>1 DEF ThreadOK, Climbs, Splits, PointOf, Exclusive
<1>3. p \in Live /\ p \in DOMAIN node /\ p \in PageIds
  BY <1>2, LiveMine, NodeFacts DEF Live
<1>4. M \in Nat /\ M >= 2 /\ (~node[p].leaf => M >= 3)
  BY TreeAssumption DEF MaxSize
<1>5. m \in 1 .. M
  BY <1>4, MiddleIs
<1>6. \A point \in {"split", "parent", "underflow"} : point # "split" => ~Busy(p, point)
  BY <1>1, <1>2, BusyMine
<1>7. ~Hangs(p)
  BY <1>1, <1>2, HangsMine
<1>8. g[p].hi = g[p].cap
  BY <1>3, <1>6 DEF Good, TreeOK, PageOK, Placed
<1>9. \E a, b : SplitInto(p, NewPageId, a, b, m)
  <2>. PICK new, n : new = NewPageId /\ n = node[p]
    OBVIOUS
  <2>16. PICK a, b : a = SubSeq(n.array, 1, m) /\ b = SubSeq(n.array, m + 1, Size(n))
    OBVIOUS
  <2>17. PICK upper, lower : /\ upper = [n EXCEPT !.array = b, !.next = n.next]
                           /\ lower = [n EXCEPT !.array = a, !.next = NextOfLower(n, new)]
    OBVIOUS
  <2>18. PICK s : s = Added([node EXCEPT ![p] = lower], new, upper)
    OBVIOUS
  <2>1. node' = Adopt(s, upper, new)
    BY Zenon, <2>16, <2>17, <2>18 DEF SplitNode, NextOfFresh
  <2>2. new \in PageIds /\ new \notin DOMAIN node
    BY <1>1, NewPageIs
  <2>3. n \in Node /\ n.array \in Seq(Entry(Values) \cup Entry(PageIds))
    BY Zenon, <1>3, NodeFacts
  <2>4. /\ a \in Seq(Entry(Values) \cup Entry(PageIds)) /\ b \in Seq(Entry(Values) \cup Entry(PageIds))
        /\ Halves(a, b, n.array, m)
    <3>1. m \in 1 .. Len(n.array)
      BY <1>2, <1>4, <1>5 DEF Size
    <3> QED BY <2>3, <2>16, <3>1, HalvesIs DEF Size
  <2>5. /\ upper \in Node /\ upper.leaf = n.leaf /\ upper.array = b /\ upper.parent = n.parent
        /\ upper.next = n.next
    BY <2>3, <2>4, <2>17 DEF Node
  <2>6. /\ lower \in Node /\ lower.leaf = n.leaf /\ lower.array = a /\ lower.parent = n.parent
        /\ lower.next = IF n.leaf THEN new ELSE n.next
    BY <2>2, <2>3, <2>4, <2>17 DEF Node, NextOfLower
  <2>7. /\ DOMAIN s = DOMAIN node \cup {new} /\ s[new] = upper /\ s[p] = lower
        /\ \A q \in DOMAIN node \ {p} : s[q] = node[q]
    BY <1>3, <2>2, <2>18 DEF Added
  <2>8. \A q \in DOMAIN s : s[q] \in Node
    <3>1. \A q \in DOMAIN node : node[q] \in Node
      BY NodeFacts
    <3> QED BY <2>5, <2>6, <2>7, <3>1
  <2>9. DOMAIN node' = DOMAIN s
    BY <2>1, AdoptDomain
  <2>10. ASSUME NEW q \in DOMAIN s PROVE AdoptedAt(node', s, upper, new, q)
    <3>1. new \in PageIds \cup {INVALID_PAGE_ID} /\ s[q] \in Node
      BY <2>2, <2>8
    <3>2. AdoptedAt(Adopt(s, upper, new), s, upper, new, q)
      BY <3>1, AdoptIs
    <3> QED BY <2>1, <3>2
  <2>11. ASSUME NEW q
         PROVE  q \in Children(upper) <=>
                  ~n.leaf /\ \E i \in m + 1 .. Size(n) : n.array[i].second = q
    <3>. PICK sz : sz = Size(n)
      BY Zenon
    <3>1. /\ sz \in Nat /\ m \in Nat /\ Len(b) = sz - m /\ m <= sz
          /\ \A i \in 1 .. sz - m : b[i] = n.array[m + i]
      <4>1. sz = Len(n.array) /\ sz \in Nat /\ m \in Nat /\ m <= sz
        BY <1>2, <1>4, <1>5 DEF Size
      <4> QED BY <2>4, <4>1 DEF Halves
    <3>2. ASSUME NEW i \in m + 1 .. sz, n.array[i].second = q
          PROVE  \E j \in 1 .. sz - m : b[j].second = q
      <4>1. i - m \in 1 .. sz - m /\ m + (i - m) = i
        BY <3>1
      <4>2. b[i - m] = n.array[i]
        <5>. PICK j : j = i - m
          OBVIOUS
        <5>1. j \in 1 .. sz - m /\ m + j = i
          BY <4>1
        <5>2. b[j] = n.array[m + j]
          BY Zenon, <3>1, <5>1
        <5> QED BY Zenon, <5>1, <5>2
      <4> QED BY <3>2, <4>1, <4>2
    <3>3. ASSUME NEW j \in 1 .. sz - m, b[j].second = q
          PROVE  \E i \in m + 1 .. sz : n.array[i].second = q
      <4>1. m + j \in m + 1 .. sz
        BY <3>1
      <4> QED BY <3>1, <3>3, <4>1
    <3>4. q \in Children(upper) <=> ~n.leaf /\ \E j \in 1 .. sz - m : b[j].second = q
      <4>1. upper.leaf = n.leaf /\ upper.array = b /\ Size(upper) = sz - m
        BY <2>5, <3>1 DEF Size
      <4> QED BY <4>1 DEF Children
    <3> QED BY <3>2, <3>3, <3>4
  <2>12. ASSUME NEW c, c \in Children(upper) PROVE c # p /\ c # new
    <3>1. PICK i \in m + 1 .. Size(n) : n.array[i].second = c
      BY <2>11, <2>12
    <3>2. ~n.leaf
      BY <2>11, <2>12
    <3>3. i \in 1 .. Size(n)
      BY <1>2, <1>4, <1>5, <3>1
    <3>4. ChildOf(g, p, i)
      BY <1>3, <3>2, <3>3 DEF Good, TreeOK, PageOK, Inner
    <3>5. c \in Live /\ g[c].level + 1 = g[p].level /\ c \in DOMAIN node
      BY <3>1, <3>4 DEF ChildOf, Live
    <3>6. g[p].level \in Nat
      BY <1>3, GhostFacts
    <3> QED BY <2>2, <3>5, <3>6
  <2>13. node'[p] = lower /\ node'[new] = upper
    BY <1>3, <2>7, <2>10, <2>12 DEF AdoptedAt
  <2>14. ASSUME NEW q \in DOMAIN node \ {p}
         PROVE  /\ node'[q].leaf = node[q].leaf /\ node'[q].array = node[q].array
                /\ node'[q].next = node[q].next
                /\ node'[q].parent =
                     IF ~n.leaf /\ (\E i \in m + 1 .. Size(n) : n.array[i].second = q)
                     THEN new ELSE node[q].parent
    <3>1. q \in DOMAIN s /\ s[q] = node[q]
      BY <2>7
    <3>2. AdoptedAt(node', s, upper, new, q)
      BY Zenon, <2>10, <3>1
    <3> QED BY <2>11, <3>1, <3>2 DEF AdoptedAt
  <2>15. SplitInto(p, new, a, b, m)
    <3>1. \A q \in DOMAIN node' : node'[q] \in Node
      BY <2>9, <2>10 DEF AdoptedAt
    <3> QED BY <2>2, <2>4, <2>5, <2>6, <2>7, <2>9, <2>13, <2>14, <3>1 DEF SplitInto
  <2> QED BY <2>15
<1> QED BY <1>2, <1>3, <1>4, <1>5, <1>6, <1>7, <1>8, <1>9

\* The bounds of the two halves.
SplitBounds(h, g, p, new, s) ==
  /\ h \in Ghosts
  /\ \A q \in PageIds \ {p, new} : h[q] = g[q]
  /\ h[p].lo = g[p].lo /\ h[p].hi = s /\ h[p].cap = g[p].cap /\ h[p].level = g[p].level
  /\ h[new].lo = s /\ h[new].hi = g[p].hi /\ h[new].cap = g[p].hi /\ h[new].level = g[p].level

\* The key that divides them is inside the bounds of the node.
LEMMA CutIs ==
  ASSUME NEW g \in Ghosts, Good(g), NEW p \in Live, NEW m \in 1 .. Size(node[p]) - 1,
         NEW s, s = node[p].array[m + 1].first
  PROVE  s \in Nat /\ g[p].lo < s /\ s < g[p].hi
<1>. PICK sz : sz = Size(node[p])
  OBVIOUS
<1>1. /\ sz \in Nat /\ m \in Nat /\ p \in PageIds /\ PageOK(g, p)
      /\ \A i \in 1 .. sz : node[p].array[i].first \in Nat
  BY NodeFacts DEF Live, Good, TreeOK
<1>2. g[p].lo \in Nat /\ g[p].hi \in Nat
  BY <1>1, GhostFacts
<1>3. m + 1 \in 1 .. sz /\ 1 \in 1 .. sz /\ 1 < m + 1 /\ s \in Nat
  BY <1>1
<1>4. CASE node[p].leaf
  <2>1. LeafEntries(g, p)
    BY <1>1, <1>4 DEF PageOK
  <2>2. g[p].lo <= node[p].array[1].first /\ node[p].array[1].first < s /\ s < g[p].hi
    BY <1>3, <2>1 DEF LeafEntries
  <2>3. node[p].array[1].first \in Nat
    BY <1>1, <1>3
  <2> QED BY <1>2, <1>3, <2>2, <2>3
<1>5. CASE ~node[p].leaf
  <2>1. \A i, j \in 1 .. sz + 1 : i < j => Edge(g, p, i) < Edge(g, p, j)
    BY <1>1, <1>5 DEF PageOK, Inner
  <2>2. Edge(g, p, 1) = g[p].lo /\ Edge(g, p, m + 1) = s /\ Edge(g, p, sz + 1) = g[p].hi
    BY <1>1, <1>3 DEF Edge
  <2>3. 1 \in 1 .. sz + 1 /\ m + 1 \in 1 .. sz + 1 /\ sz + 1 \in 1 .. sz + 1
        /\ 1 < m + 1 /\ m + 1 < sz + 1
    BY <1>1, <1>3
  <2>4. g[p].lo < s
    BY <2>1, <2>2, <2>3
  <2>5. s < g[p].hi
    BY <2>1, <2>2, <2>3
  <2> QED BY <1>3, <2>4, <2>5
<1> QED BY <1>4, <1>5

\* What is known of the node that is split, and of the nodes after it.
SplitDone(g, h, t, p, new, a, b, m, s) ==
  /\ SplitNode(t) /\ p = at[t] /\ new = NewPageId /\ m = (MaxSize(node[p]) + 1) \div 2
  /\ SplitInto(p, new, a, b, m) /\ s = node[p].array[m + 1].first
  /\ SplitBounds(h, g, p, new, s)
  /\ pages'[t] = pages[t] \cup {new} /\ pc'[t] = "parent" /\ at'[t] = p /\ fresh'[t] = new

\* The nodes that a split changes are t's.
LEMMA SplitChanges ==
  ASSUME NEW g \in Ghosts, Good(g), NEW t \in Threads, NEW p, NEW new, NEW a, NEW b, NEW m, NEW s,
         NEW h, SplitDone(g, h, t, p, new, a, b, m, s)
  PROVE  /\ Changes(t, {p, new}, g, h)
         /\ Live' = Live \cup {new}
<1>0. /\ SplitNode(t) /\ SplitInto(p, new, a, b, m) /\ SplitBounds(h, g, p, new, s)
      /\ pages'[t] = pages[t] \cup {new} /\ p = at[t]
  BY DEF SplitDone
<1>1. /\ p \in pages[t] /\ p \in Live /\ p \in DOMAIN node /\ p \in PageIds
      /\ ParentHeld(t, p) /\ Exclusive(t) /\ call[t].op = "Insert"
      /\ m \in Nat /\ Size(node[p]) \in Nat
  <2>. PICK M : M = MaxSize(node[p])
    BY Zenon
  <2>1. m = (M + 1) \div 2
    BY DEF SplitDone
  <2> QED BY <1>0, <2>1, SplitNodeIs
<1>2. new \in PageIds /\ new \notin DOMAIN node /\ new # p
  BY <1>0, <1>1 DEF SplitInto
<1>3. UNCHANGED <<root_page_id, doomed>> /\ pc[t] = "split"
  BY <1>0 DEF SplitNode, At
<1>4. Doomed' = Doomed /\ new \notin Doomed
  BY <1>2, <1>3 DEF Doomed, Good, ThreadOK, PointOf
<1>5. Live' = Live \cup {new}
  BY <1>0, <1>2, <1>4 DEF Live, SplitInto
<1>6. {p, new} \subseteq Mine(t) \cap PageIds
  BY <1>0, <1>1, <1>2 DEF Mine
<1>7. ASSUME NEW q \in DOMAIN node \ {p, new}
      PROVE  /\ q \in DOMAIN node' /\ (q \in Live' <=> q \in Live)
             /\ node'[q].leaf = node[q].leaf /\ node'[q].array = node[q].array
             /\ node'[q].next = node[q].next /\ h[q] = g[q]
             /\ node[q].parent \notin {p, new} \cap DOMAIN node => node'[q].parent = node[q].parent
             /\ node[q].parent \in {p, new} \cap DOMAIN node => node'[q].parent # INVALID_PAGE_ID
  <2>1. q \in DOMAIN node \ {p} /\ q \in PageIds
    BY <1>7, NodeFacts
  <2>2. h[q] = g[q] /\ q \in DOMAIN node' /\ (q \in Live' <=> q \in Live)
    BY <1>0, <1>5, <1>7, <2>1 DEF SplitBounds, SplitInto
  <2>3. /\ node'[q].leaf = node[q].leaf /\ node'[q].array = node[q].array
        /\ node'[q].next = node[q].next
        /\ node'[q].parent = new \/ node'[q].parent = node[q].parent
    BY <1>0, <2>1 DEF SplitInto
  <2>4. ASSUME node[q].parent \notin {p, new} \cap DOMAIN node PROVE node'[q].parent = node[q].parent
    <3> SUFFICES ASSUME ~node[p].leaf, NEW i \in m + 1 .. Size(node[p]),
                        node[p].array[i].second = q
                 PROVE  FALSE
      BY <1>0, <2>1 DEF SplitInto
    <3>1. i \in 1 .. Size(node[p])
      BY <1>1
    <3>2. ChildOf(g, p, i)
      BY <1>1, <3>1 DEF Good, TreeOK, PageOK, Inner
    <3> QED BY <1>1, <2>4, <3>2 DEF ChildOf
  <2>5. p # INVALID_PAGE_ID /\ new # INVALID_PAGE_ID
    BY <1>1, <1>2 DEF PageIds, INVALID_PAGE_ID
  <2> QED BY <2>2, <2>3, <2>4, <2>5
<1>8. Owns(t, p)
  <2>1. pages[t] \subseteq Mine(t)
    BY <1>1 DEF Mine
  <2> QED BY <1>1, <2>1 DEF Owns, ParentHeld
<1>9. ASSUME NEW c \in {p, new} \cap DOMAIN node
      PROVE  /\ c = p /\ c \in DOMAIN node' /\ c \in Live' /\ node'[c].leaf = node[c].leaf
             /\ node'[c].parent = node[c].parent
             /\ h[c].level = g[c].level /\ h[c].lo = g[c].lo /\ h[c].cap = g[c].cap
  BY <1>0, <1>1, <1>2, <1>5 DEF SplitInto, SplitBounds
<1>10. Live \subseteq DOMAIN node
  BY DEF Live
<1>11. at[t] \in {p, new}
  BY <1>0
<1> QED BY <1>3, <1>5, <1>6, <1>7, <1>8, <1>9, <1>10, <1>11 DEF Changes


\* Facts of the two halves and of the nodes around them.
LEMMA SplitFacts ==
  ASSUME NEW g \in Ghosts, Good(g), NEW t \in Threads, NEW p, NEW new, NEW a, NEW b, NEW m, NEW s,
         NEW h, SplitDone(g, h, t, p, new, a, b, m, s)
  PROVE  /\ Changes(t, {p, new}, g, h) /\ Live' = Live \cup {new}
         /\ p \in Live /\ p \in DOMAIN node /\ p \in PageIds /\ new \in PageIds /\ new \notin Live /\ new # p
         /\ PageOK(g, p) /\ g[p].hi = g[p].cap /\ ~Hangs(p)
         /\ Size(node[p]) = MaxSize(node[p]) + 1 /\ Size(node[p]) \in Nat
         /\ m \in Nat /\ 1 <= m /\ m < Size(node[p])
         /\ s \in Nat /\ g[p].lo < s /\ s < g[p].hi
         /\ root_page_id' = root_page_id
         /\ \A i \in 1 .. Size(node[p]) : node[p].array[i].first \in Nat
<1>1. SplitInto(p, new, a, b, m) /\ SplitNode(t) /\ p = at[t]
  BY Zenon DEF SplitDone
<1>2. PICK M : M = MaxSize(node[p])
  OBVIOUS
<1>3. m = (M + 1) \div 2
  BY <1>2 DEF SplitDone
<1>4. /\ p \in pages[t] /\ p \in Live /\ p \in DOMAIN node /\ p \in PageIds /\ Size(node[p]) = M + 1
      /\ M \in Nat /\ M >= 2 /\ g[p].hi = g[p].cap /\ ~Hangs(p) /\ m \in 1 .. M
  BY <1>1, <1>2, <1>3, SplitNodeIs
<1>5. Changes(t, {p, new}, g, h) /\ Live' = Live \cup {new}
  BY Zenon, SplitChanges
<1>6. s \in Nat /\ g[p].lo < s /\ s < g[p].hi
  <2>1. m \in 1 .. Size(node[p]) - 1
    BY <1>4
  <2> QED BY <1>4, <2>1, CutIs DEF SplitDone
<1>7. new \in PageIds /\ new \notin DOMAIN node /\ new # p /\ new \notin Live
  BY <1>1, <1>4 DEF SplitInto, Live
<1>9. PageOK(g, p) /\ \A i \in 1 .. Size(node[p]) : node[p].array[i].first \in Nat
  BY <1>4, NodeFacts DEF Good, TreeOK
<1>10. root_page_id' = root_page_id
  BY Zenon, <1>1 DEF SplitNode
<1> QED BY <1>2, <1>4, <1>5, <1>6, <1>7, <1>9, <1>10

\* The children of the node: those up to m stay, the others go to the new node.
LEMMA SplitChildren ==
  ASSUME NEW g \in Ghosts, Good(g), NEW t \in Threads, NEW p, NEW new, NEW a, NEW b, NEW m, NEW s,
         NEW h, SplitDone(g, h, t, p, new, a, b, m, s), ~node[p].leaf,
         NEW i \in 1 .. Size(node[p]), NEW c, c = node[p].array[i].second
  PROVE  /\ c \in Live /\ c \notin {p, new} /\ c \in Live' /\ h[c] = g[c] /\ ChildOf(g, p, i)
         /\ i <= m => node'[c].parent = p
         /\ m < i => node'[c].parent = new
<1>1. /\ p \in Live /\ p \in PageIds /\ new \notin Live /\ PageOK(g, p) /\ Live' = Live \cup {new}
      /\ Size(node[p]) \in Nat /\ m \in Nat
  BY SplitFacts
<1>2. ChildOf(g, p, i)
  BY <1>1 DEF PageOK, Inner
<1>3. c \in Live /\ node[c].parent = p /\ g[c].level + 1 = g[p].level /\ c \in DOMAIN node
  BY Zenon, <1>2 DEF ChildOf, Live
<1>4. c \notin {p, new} /\ c \in PageIds
  <2>1. c \in PageIds
    BY Zenon, <1>3, NodeFacts
  <2> QED BY <1>1, <1>3, <2>1, GhostFacts
<1>5. h[c] = g[c]
  BY <1>4 DEF SplitDone, SplitBounds
<1>6. \A j \in 1 .. Size(node[p]) : node[p].array[j].second = c => j = i
  <2>1. IsChild(c, p)
    BY DEF IsChild
  <2> QED BY <1>1, <2>1, ChildPosition
<1>7. node'[c].parent = IF \E j \in m + 1 .. Size(node[p]) : node[p].array[j].second = c
                        THEN new ELSE node[c].parent
  <2>1. SplitInto(p, new, a, b, m) /\ c \in DOMAIN node \ {p}
    BY <1>3, <1>4 DEF SplitDone
  <2>2. node'[c].parent = IF ~node[p].leaf /\ (\E j \in m + 1 .. Size(node[p]) : node[p].array[j].second = c)
                          THEN new ELSE node[c].parent
    BY <2>1 DEF SplitInto
  <2> QED BY Zenon, <2>2
<1>8. ASSUME i <= m PROVE ~\E j \in m + 1 .. Size(node[p]) : node[p].array[j].second = c
  BY <1>1, <1>6, <1>8
<1>9. ASSUME m < i PROVE \E j \in m + 1 .. Size(node[p]) : node[p].array[j].second = c
  BY <1>1, <1>9
<1> QED BY <1>1, <1>2, <1>3, <1>4, <1>5, <1>7, <1>8, <1>9


\* The lower half is in order.
LEMMA SplitLower ==
  ASSUME NEW g \in Ghosts, Good(g), NEW t \in Threads, NEW p, NEW new, NEW a, NEW b, NEW m, NEW s,
         NEW h, SplitDone(g, h, t, p, new, a, b, m, s)
  PROVE  PageOK(h, p)'
<1>. PICK n, sz : n = node[p] /\ sz = Size(n)
  OBVIOUS
<1>1. /\ Changes(t, {p, new}, g, h) /\ Live' = Live \cup {new}
      /\ p \in Live /\ p \in DOMAIN node /\ p \in PageIds /\ new \in PageIds /\ new \notin Live /\ new # p
      /\ PageOK(g, p) /\ g[p].hi = g[p].cap /\ ~Hangs(p)
      /\ sz = MaxSize(n) + 1 /\ sz \in Nat /\ m \in Nat /\ 1 <= m /\ m < sz
      /\ Size(node[p])' = m
      /\ s \in Nat /\ g[p].lo < s /\ s < g[p].hi /\ root_page_id' = root_page_id
      /\ \A i \in 1 .. sz : n.array[i].first \in Nat
  <2>1. /\ Changes(t, {p, new}, g, h) /\ Live' = Live \cup {new}
        /\ p \in Live /\ p \in DOMAIN node /\ p \in PageIds /\ new \in PageIds /\ new \notin Live /\ new # p
        /\ PageOK(g, p) /\ g[p].hi = g[p].cap /\ ~Hangs(p)
        /\ Size(node[p]) = MaxSize(node[p]) + 1 /\ Size(node[p]) \in Nat
        /\ m \in Nat /\ 1 <= m /\ m < Size(node[p])
        /\ s \in Nat /\ g[p].lo < s /\ s < g[p].hi /\ root_page_id' = root_page_id
    BY Zenon, SplitFacts
  <2>2. \A i \in 1 .. Size(node[p]) : node[p].array[i].first \in Nat
    BY <2>1, NodeFacts
  <2>3. Size(node[p])' = m /\ Size(node[new])' = Size(node[p]) - m
    BY DEF SplitDone, SplitInto, Halves, Size
  <2> QED BY <2>1, <2>2, <2>3
<1>2. /\ Halves(a, b, n.array, m) /\ s = n.array[m + 1].first
      /\ node'[p].leaf = n.leaf /\ node'[p].array = a /\ node'[p].parent = n.parent
      /\ node'[p].next = IF n.leaf THEN new ELSE n.next
      /\ node'[new].leaf = n.leaf
      /\ h[p].lo = g[p].lo /\ h[p].hi = s /\ h[p].cap = g[p].cap /\ h[p].level = g[p].level
      /\ h[new].lo = s
      /\ pc'[t] = "parent" /\ at'[t] = p
  BY Zenon DEF SplitDone, SplitInto, SplitBounds
<1>3. \A i \in 1 .. m : a[i] = n.array[i]
  BY <1>2 DEF Halves
<1>4. g[p].lo \in Nat /\ g[p].hi \in Nat /\ g[p].cap \in Nat
  BY <1>1, GhostFacts
<1>5. Placed(h, p)'
  <2>1. Busy(p, "parent")'
    BY <1>2 DEF Busy
  <2>2. g[p].cap <= Top /\ (n.leaf <=> g[p].level = 0)
    BY <1>1 DEF PageOK, Placed
  <2>3. s <= g[p].cap
    BY <1>1, <1>4
  <2> QED BY <1>1, <1>2, <2>1, <2>2, <2>3 DEF Placed
<1>6. ASSUME n.leaf PROVE LeafEntries(h, p)'
  <2>1. LeafEntries(g, p)
    BY <1>1, <1>6 DEF PageOK
  <2>2. ASSUME NEW i \in 1 .. m
        PROVE  /\ a[i].first \in Keys /\ a[i].second \in Values
               /\ g[p].lo <= a[i].first /\ a[i].first < s
    <3>1. i \in 1 .. sz /\ m + 1 \in 1 .. sz /\ i < m + 1
      BY <1>1
    <3> QED BY <1>2, <1>3, <2>1, <3>1 DEF LeafEntries
  <2>3. ASSUME NEW i \in 1 .. m, NEW j \in 1 .. m, i < j PROVE a[i].first < a[j].first
    <3>1. i \in 1 .. sz /\ j \in 1 .. sz
      BY <1>1
    <3> QED BY <1>3, <2>1, <2>3, <3>1 DEF LeafEntries
  <2> QED BY <1>1, <1>2, <2>2, <2>3 DEF LeafEntries
<1>7. ASSUME n.leaf PROVE NextLeaf(h, p)'
  <2>1. new # INVALID_PAGE_ID
    BY <1>1 DEF PageIds, INVALID_PAGE_ID
  <2> QED BY <1>1, <1>2, <1>7, <2>1 DEF NextLeaf
<1>8. ASSUME ~n.leaf PROVE Inner(h, p)'
  <2>1. Inner(g, p)
    BY <1>1, <1>8 DEF PageOK
  <2>2. ASSUME NEW i \in 1 .. m + 1 PROVE Edge(h, p, i)' = Edge(g, p, i)
    <3>1. CASE i = 1
      BY <1>2, <3>1 DEF Edge
    <3>2. CASE i = m + 1
      BY <1>1, <1>2, <3>2 DEF Edge
    <3>3. CASE i # 1 /\ i # m + 1
      <4>1. i \in 1 .. m /\ i # sz + 1
        BY <1>1, <3>3
      <4> QED BY <1>1, <1>2, <1>3, <3>3, <4>1 DEF Edge
    <3> QED BY <3>1, <3>2, <3>3
  <2>3. ASSUME NEW i \in 1 .. m + 1, NEW j \in 1 .. m + 1, i < j
        PROVE  Edge(h, p, i)' < Edge(h, p, j)'
    <3>1. i \in 1 .. sz + 1 /\ j \in 1 .. sz + 1
      BY <1>1
    <3> QED BY <2>1, <2>2, <2>3, <3>1 DEF Inner
  <2>4. ASSUME NEW i \in 1 .. m
        PROVE  a[i].second \in PageIds /\ ChildOf(h, p, i)'
    <3>. PICK c : c = n.array[i].second
      OBVIOUS
    <3>1. i \in 1 .. sz /\ i \in 1 .. m + 1 /\ i + 1 \in 1 .. m + 1 /\ i <= m
      BY <1>1
    <3>2. c \in Live' /\ h[c] = g[c] /\ ChildOf(g, p, i) /\ node'[c].parent = p
      BY <1>8, <3>1, SplitChildren
    <3>3. Edge(h, p, i)' = Edge(g, p, i) /\ Edge(h, p, i + 1)' = Edge(g, p, i + 1)
      BY <2>2, <3>1
    <3>4. c \in PageIds /\ a[i].second = c
      BY <1>3, <2>1, <3>1 DEF Inner
    <3> QED BY <1>2, <3>2, <3>3, <3>4 DEF ChildOf
  <2>5. g[p].lo # 0 => a[1].first = g[p].lo
    <3>1. 1 \in 1 .. m
      BY <1>1
    <3> QED BY <1>3, <2>1, <3>1 DEF Inner
  <2> QED BY <1>1, <1>2, <2>3, <2>4, <2>5 DEF Inner
<1>9. HasParent(p)'
  <2>. PICK q : q = n.parent
    OBVIOUS
  <2>1. HasParent(p)
    BY <1>1 DEF PageOK
  <2>2. CASE q = INVALID_PAGE_ID
    BY <1>1, <1>2, <2>1, <2>2 DEF HasParent
  <2>3. CASE q # INVALID_PAGE_ID
    <3>1. q \in Live /\ ~node[q].leaf /\ IsChild(p, q)
      BY <1>1, <2>1, <2>3 DEF HasParent
    <3>2. g[p].level + 1 = g[q].level
      <4>1. ChildOf(g, q, ValueIndex(node[q], p)) /\ node[q].array[ValueIndex(node[q], p)].second = p
        BY <3>1, ChildPosition
      <4> QED BY <4>1 DEF ChildOf
    <3>3. q \notin {p, new}
      BY <1>1, <3>1, <3>2, GhostFacts
    <3>4. q \in Live' /\ node'[q].leaf = node[q].leaf /\ node'[q].array = node[q].array
      BY <1>1, <3>1, <3>3 DEF Changes, Live
    <3>5. IsChild(p, q)'
      BY <3>1, <3>4 DEF IsChild, Size
    <3> QED BY <1>2, <2>3, <3>1, <3>4, <3>5 DEF HasParent
  <2> QED BY <2>2, <2>3
<1>10. Sized(p)'
  <2>. PICK M : M = MaxSize(n)
    OBVIOUS
  <2>1. M \in Nat /\ M >= 2 /\ (~n.leaf => M >= 3)
        /\ M = (IF n.leaf THEN LeafMax ELSE InternalMax)
    BY TreeAssumption DEF MaxSize
  <2>2. /\ M \div 2 \in Nat /\ M \div 2 <= m /\ (M >= 3 => 2 <= m)
    <3>1. m = (M + 1) \div 2
      BY Zenon DEF SplitDone
    <3> QED BY <2>1, <3>1, MiddleIs
  <2>3. Low(n) <= m
    BY <1>1, <2>1, <2>2 DEF Low
  <2>4. Low(node[p])' = Low(n) /\ MaxSize(node[p])' = M
    BY <1>2 DEF Low, MaxSize
  <2>5. m <= M
    BY <1>1, <2>1
  <2> QED BY <1>1, <2>3, <2>4, <2>5 DEF Sized
<1> QED BY <1>2, <1>5, <1>6, <1>7, <1>8, <1>9, <1>10 DEF PageOK

\* The upper half is in order; its parent does not know it yet.
LEMMA SplitUpper ==
  ASSUME NEW g \in Ghosts, Good(g), NEW t \in Threads, NEW p, NEW new, NEW a, NEW b, NEW m, NEW s,
         NEW h, SplitDone(g, h, t, p, new, a, b, m, s)
  PROVE  PageOK(h, new)'
<1>. PICK n, sz : n = node[p] /\ sz = Size(n)
  OBVIOUS
<1>. PICK k : k = sz - m
  OBVIOUS
<1>1. /\ Changes(t, {p, new}, g, h) /\ Live' = Live \cup {new}
      /\ p \in Live /\ p \in DOMAIN node /\ p \in PageIds /\ new \in PageIds /\ new \notin Live /\ new # p
      /\ PageOK(g, p) /\ g[p].hi = g[p].cap /\ ~Hangs(p)
      /\ sz = MaxSize(n) + 1 /\ sz \in Nat /\ m \in Nat /\ 1 <= m /\ m < sz
      /\ Size(node[new])' = k
      /\ s \in Nat /\ g[p].lo < s /\ s < g[p].hi /\ root_page_id' = root_page_id
      /\ \A i \in 1 .. sz : n.array[i].first \in Nat
  <2>1. /\ Changes(t, {p, new}, g, h) /\ Live' = Live \cup {new}
        /\ p \in Live /\ p \in DOMAIN node /\ p \in PageIds /\ new \in PageIds /\ new \notin Live /\ new # p
        /\ PageOK(g, p) /\ g[p].hi = g[p].cap /\ ~Hangs(p)
        /\ Size(node[p]) = MaxSize(node[p]) + 1 /\ Size(node[p]) \in Nat
        /\ m \in Nat /\ 1 <= m /\ m < Size(node[p])
        /\ s \in Nat /\ g[p].lo < s /\ s < g[p].hi /\ root_page_id' = root_page_id
    BY Zenon, SplitFacts
  <2>2. \A i \in 1 .. Size(node[p]) : node[p].array[i].first \in Nat
    BY <2>1, NodeFacts
  <2>3. Size(node[p])' = m /\ Size(node[new])' = Size(node[p]) - m
    BY DEF SplitDone, SplitInto, Halves, Size
  <2> QED BY <2>1, <2>2, <2>3
<1>2. /\ Halves(a, b, n.array, m) /\ s = n.array[m + 1].first
      /\ node'[new].leaf = n.leaf /\ node'[new].array = b /\ node'[new].parent = n.parent
      /\ node'[new].next = n.next
      /\ h[new].lo = s /\ h[new].hi = g[p].hi /\ h[new].cap = g[p].hi /\ h[new].level = g[p].level
      /\ pc'[t] = "parent" /\ fresh'[t] = new
  BY Zenon DEF SplitDone, SplitInto, SplitBounds
<1>3. k \in Nat /\ 1 <= k /\ m + k = sz /\ \A i \in 1 .. k : b[i] = n.array[m + i]
  <2>1. Len(n.array) = sz
    BY DEF Size
  <2> QED BY <1>1, <1>2, <2>1 DEF Halves
<1>4. g[p].lo \in Nat /\ g[p].hi \in Nat /\ g[p].cap \in Nat
  BY <1>1, GhostFacts
<1>5. Placed(h, new)'
  <2>1. g[p].cap <= Top /\ (n.leaf <=> g[p].level = 0)
    BY <1>1 DEF PageOK, Placed
  <2> QED BY <1>1, <1>2, <1>4, <2>1 DEF Placed
<1>6. ASSUME n.leaf PROVE LeafEntries(h, new)'
  <2>1. LeafEntries(g, p)
    BY <1>1, <1>6 DEF PageOK
  <2>2. ASSUME NEW i \in 1 .. k
        PROVE  /\ b[i].first \in Keys /\ b[i].second \in Values
               /\ s <= b[i].first /\ b[i].first < g[p].hi
    <3>1. m + i \in 1 .. sz /\ m + 1 \in 1 .. sz
      BY <1>1, <1>3
    <3>2. CASE i = 1
      BY <1>1, <1>2, <1>3, <2>1, <3>1, <3>2 DEF LeafEntries
    <3>3. CASE i # 1
      <4>1. m + 1 < m + i
        BY <1>1, <1>3, <3>3
      <4>2. n.array[m + 1].first < n.array[m + i].first
        BY <2>1, <3>1, <4>1 DEF LeafEntries
      <4>3. n.array[m + i].first \in Nat
        BY <1>1, <3>1
      <4> QED BY <1>1, <1>2, <1>3, <2>1, <3>1, <4>2, <4>3 DEF LeafEntries
    <3> QED BY <3>2, <3>3
  <2>3. ASSUME NEW i \in 1 .. k, NEW j \in 1 .. k, i < j PROVE b[i].first < b[j].first
    <3>1. m + i \in 1 .. sz /\ m + j \in 1 .. sz /\ m + i < m + j
      BY <1>1, <1>3, <2>3
    <3> QED BY <1>3, <2>1, <2>3, <3>1 DEF LeafEntries
  <2> QED BY <1>1, <1>2, <2>2, <2>3 DEF LeafEntries
<1>7. ASSUME n.leaf PROVE NextLeaf(h, new)'
  <2>. PICK q : q = n.next
    OBVIOUS
  <2>1. NextLeaf(g, p)
    BY <1>1, <1>7 DEF PageOK
  <2>2. CASE q = INVALID_PAGE_ID
    BY <1>2, <2>1, <2>2 DEF NextLeaf
  <2>3. CASE q # INVALID_PAGE_ID
    <3>1. q \in Live /\ node[q].leaf /\ g[q].lo = g[p].hi
      BY <2>1, <2>3 DEF NextLeaf
    <3>2. q \notin {p, new}
      BY <1>1, <1>4, <3>1
    <3>3. q \in Live' /\ node'[q].leaf = node[q].leaf /\ h[q] = g[q]
      BY <1>1, <3>1, <3>2 DEF Changes, Live
    <3> QED BY <1>2, <2>3, <3>1, <3>3 DEF NextLeaf
  <2> QED BY <2>2, <2>3
<1>8. ASSUME ~n.leaf PROVE Inner(h, new)'
  <2>1. Inner(g, p)
    BY <1>1, <1>8 DEF PageOK
  <2>2. ASSUME NEW i \in 1 .. k + 1 PROVE Edge(h, new, i)' = Edge(g, p, m + i)
    <3>1. CASE i = 1
      BY <1>1, <1>2, <3>1 DEF Edge
    <3>2. CASE i = k + 1
      <4>1. m + i = sz + 1 /\ i # 1 /\ m + i # 1
        <5>1. k \in Nat /\ m \in Nat /\ 1 <= k /\ 1 <= m /\ m + k = sz
          BY <1>1, <1>3
        <5> QED BY <3>2, <5>1
      <4> QED BY <1>1, <1>2, <3>2, <4>1 DEF Edge
    <3>3. CASE i # 1 /\ i # k + 1
      <4>1. i \in 1 .. k /\ m + i # sz + 1 /\ m + i # 1
        BY <1>1, <1>3, <3>3
      <4> QED BY <1>1, <1>2, <1>3, <3>3, <4>1 DEF Edge
    <3> QED BY <3>1, <3>2, <3>3
  <2>3. ASSUME NEW i \in 1 .. k + 1, NEW j \in 1 .. k + 1, i < j
        PROVE  Edge(h, new, i)' < Edge(h, new, j)'
    <3>1. m + i \in 1 .. sz + 1 /\ m + j \in 1 .. sz + 1 /\ m + i < m + j
      BY <1>1, <1>3, <2>3
    <3> QED BY <2>1, <2>2, <2>3, <3>1 DEF Inner
  <2>4. ASSUME NEW i \in 1 .. k
        PROVE  b[i].second \in PageIds /\ ChildOf(h, new, i)'
    <3>. PICK c, x : x = m + i /\ c = n.array[x].second
      OBVIOUS
    <3>1. x \in 1 .. sz /\ i \in 1 .. k + 1 /\ i + 1 \in 1 .. k + 1 /\ m < x /\ m + (i + 1) = x + 1
      BY <1>1, <1>3
    <3>2. c \in Live' /\ h[c] = g[c] /\ ChildOf(g, p, x) /\ node'[c].parent = new
      BY <1>8, <3>1, SplitChildren
    <3>3. Edge(h, new, i)' = Edge(g, p, x) /\ Edge(h, new, i + 1)' = Edge(g, p, x + 1)
      BY <2>2, <3>1
    <3>4. c \in PageIds /\ b[i].second = c
      BY <1>3, <2>1, <3>1 DEF Inner
    <3> QED BY <1>2, <3>2, <3>3, <3>4 DEF ChildOf
  <2>5. b[1].first = s
    <3>1. 1 \in 1 .. k
      BY <1>3
    <3> QED BY <1>2, <1>3, <3>1
  <2> QED BY <1>1, <1>2, <1>3, <2>3, <2>4, <2>5 DEF Inner
<1>9. HasParent(new)'
  <2>. PICK q : q = n.parent
    OBVIOUS
  <2>1. HasParent(p) /\ Hangs(new)'
    BY <1>1, <1>2 DEF PageOK, Hangs
  <2>2. CASE q = INVALID_PAGE_ID
    BY <1>2, <2>1, <2>2 DEF HasParent
  <2>3. CASE q # INVALID_PAGE_ID
    <3>1. q \in Live /\ ~node[q].leaf
      BY <2>1, <2>3 DEF HasParent
    <3>2. q \in Live' /\ node'[q].leaf = node[q].leaf
      <4>1. CASE q = p
        BY <1>1, <4>1 DEF SplitDone, SplitInto
      <4>2. CASE q # p
        BY <1>1, <3>1, <4>2 DEF Changes, Live
      <4> QED BY Zenon, <4>1, <4>2
    <3> QED BY <1>2, <2>1, <2>3, <3>1, <3>2 DEF HasParent
  <2> QED BY <2>2, <2>3
<1>10. Sized(new)'
  <2>. PICK M : M = MaxSize(n)
    OBVIOUS
  <2>1. M \in Nat /\ M >= 2 /\ (~n.leaf => M >= 3)
        /\ M = (IF n.leaf THEN LeafMax ELSE InternalMax)
    BY TreeAssumption DEF MaxSize
  <2>2. /\ M \div 2 \in Nat /\ M \div 2 <= M + 1 - m /\ (M >= 3 => 2 <= M + 1 - m)
    <3>1. m = (M + 1) \div 2
      BY Zenon DEF SplitDone
    <3> QED BY <2>1, <3>1, MiddleIs
  <2>3. k = M + 1 - m
    <3>1. sz = M + 1 /\ k \in Nat /\ m \in Nat /\ m + k = sz
      BY <1>1, <1>3
    <3> QED BY <2>1, <3>1
  <2>4. Low(n) <= k
    BY <1>1, <1>3, <2>1, <2>2, <2>3 DEF Low
  <2>5. Low(node[new])' = Low(n) /\ MaxSize(node[new])' = M
    BY <1>2 DEF Low, MaxSize
  <2>6. k <= M
    BY <1>1, <2>1, <2>3
  <2> QED BY <1>1, <2>4, <2>5, <2>6 DEF Sized
<1> QED BY <1>2, <1>5, <1>6, <1>7, <1>8, <1>9, <1>10 DEF PageOK


\* The tree is in order after a split.
LEMMA SplitTree ==
  ASSUME NEW g \in Ghosts, Good(g), NEW t \in Threads, Apart(t), NEW p, NEW new, NEW a, NEW b, NEW m, NEW s,
         NEW h, SplitDone(g, h, t, p, new, a, b, m, s)
  PROVE  TreeAfter({p, new}, h)
<1>1. /\ Changes(t, {p, new}, g, h) /\ Live' = Live \cup {new}
      /\ p \in Live /\ p \in DOMAIN node /\ p \in PageIds /\ new \in PageIds /\ new \notin Live /\ new # p
      /\ m \in Nat /\ 1 <= m /\ m < Size(node[p]) /\ Size(node[p]) \in Nat
      /\ s \in Nat /\ g[p].lo < s /\ s < g[p].hi /\ root_page_id' = root_page_id
  BY SplitFacts
<1>2. /\ Halves(a, b, node[p].array, m)
      /\ node'[p].leaf = node[p].leaf /\ node'[p].array = a /\ node'[p].parent = node[p].parent
      /\ node'[new].leaf = node[p].leaf /\ node'[new].array = b
      /\ h[p].lo = g[p].lo /\ h[p].hi = s /\ h[p].cap = g[p].cap /\ h[p].level = g[p].level
      /\ h[new].lo = s /\ h[new].hi = g[p].hi /\ h[new].level = g[p].level
  BY Zenon DEF SplitDone, SplitInto, SplitBounds
<1>3. PageOK(h, p)' /\ PageOK(h, new)'
  BY Zenon, SplitLower, SplitUpper
<1>4. pc[t] = "split"
  BY DEF SplitDone, SplitNode, At
<1>5. ASSUME NEW q \in Live \ {p, new}, node[q].parent \in {p, new}
      PROVE  HasParent(q)'
  <2>1. HasParent(q)
    BY <1>5 DEF Good, TreeOK, PageOK
  <2>2. p # INVALID_PAGE_ID /\ new # INVALID_PAGE_ID
    BY <1>1 DEF PageIds, INVALID_PAGE_ID
  <2>3. node[q].parent = p /\ ~node[p].leaf
    BY <1>1, <1>5, <2>1, <2>2 DEF HasParent
  <2>4. ~Hangs(q)
    <3>1. p \in Mine(t) \cap PageIds
      BY <1>1 DEF Changes
    <3> QED BY <1>4, <2>3, <3>1, HangsOwn
  <2>5. PICK i \in 1 .. Size(node[p]) : node[p].array[i].second = q
    BY <1>1, <2>1, <2>2, <2>3, <2>4 DEF HasParent, IsChild
  <2>6. /\ i <= m => node'[q].parent = p
        /\ m < i => node'[q].parent = new
    BY <2>3, <2>5, SplitChildren
  <2>7. /\ Size(node[p])' = m /\ Size(node[new])' = Size(node[p]) - m
        /\ \A j \in 1 .. m : a[j] = node[p].array[j]
        /\ \A j \in 1 .. Size(node[p]) - m : b[j] = node[p].array[m + j]
    BY <1>2 DEF Halves, Size
  <2>8. CASE i <= m
    <3>1. i \in 1 .. m
      BY <1>1, <2>5, <2>8
    <3>2. node'[p].array[i].second = q
      BY <1>2, <2>5, <2>7, <3>1
    <3>3. IsChild(q, p)'
      BY <2>7, <3>1, <3>2 DEF IsChild
    <3> QED BY <1>1, <1>2, <2>2, <2>3, <2>6, <2>8, <3>3 DEF HasParent
  <2>9. CASE m < i
    <3>. PICK j : j = i - m
      OBVIOUS
    <3>1. j \in 1 .. Size(node[p]) - m /\ m + j = i
      BY <1>1, <2>5, <2>9
    <3>2. node'[new].array[j].second = q
      BY <1>2, <2>5, <2>7, <3>1
    <3>3. IsChild(q, new)'
      BY <2>7, <3>1, <3>2 DEF IsChild
    <3> QED BY <1>1, <1>2, <2>2, <2>3, <2>6, <2>9, <3>3 DEF HasParent
  <2> QED BY <1>1, <2>5, <2>8, <2>9
<1>6. Rooted(h)'
  <2>1. root_page_id # INVALID_PAGE_ID /\ root_page_id \in Live
    BY <1>1 DEF Good, TreeOK, Rooted
  <2>2. root_page_id \in {p, new} => root_page_id = p
    BY <1>1, <2>1
  <2>3. \A c \in {p, new} : c \in Live' => \E q \in Live : h[c].level = g[q].level
    BY <1>1, <1>2
  <2> QED BY <1>1, <1>2, <2>1, <2>2, <2>3, RootedKept
<1>7. ASSUME NEW c \in {p, new}, NEW q \in Live', c # q, h[c].level = h[q].level
      PROVE  h[c].hi <= h[q].lo \/ h[q].hi <= h[c].lo
  <2>1. CASE q \in {p, new}
    BY <1>1, <1>2, <1>7, <2>1
  <2>2. CASE q \notin {p, new}
    <3>1. q \in Live /\ h[q] = g[q] /\ q \in PageIds
      BY <1>1, <2>2, NodeFacts DEF Changes, Live
    <3>2. g[p].level = g[q].level
      BY <1>2, <1>7, <3>1
    <3>3. g[p].hi <= g[q].lo \/ g[q].hi <= g[p].lo
      BY <1>1, <2>2, <3>1, <3>2 DEF Good, TreeOK, Disjoint
    <3>4. g[p].lo \in Nat /\ g[p].hi \in Nat /\ g[q].lo \in Nat /\ g[q].hi \in Nat
      BY <1>1, <3>1, GhostFacts
    <3> QED BY <1>1, <1>2, <3>1, <3>3, <3>4
  <2> QED BY <2>1, <2>2
<1> QED BY <1>3, <1>5, <1>6, <1>7 DEF TreeAfter

\* Split, of a leaf or an internal node.
LEMMA SplitNodeKeeps ==
  ASSUME NEW g \in Ghosts, Good(g), NEW t \in Threads, SplitNode(t)
  PROVE  \E h \in Ghosts : Good(h)' /\ Frame(t, g, h)
<1>. PICK p, new : p = at[t] /\ new = NewPageId
  OBVIOUS
<1>. PICK M, m : M = MaxSize(node[p]) /\ m = (M + 1) \div 2
  OBVIOUS
<1>. PICK s : s = node[p].array[m + 1].first
  OBVIOUS
<1>1. PICK a, b : SplitInto(p, new, a, b, m)
  BY SplitNodeIs
<1>2. /\ p \in pages[t] /\ p \in Live /\ p \in DOMAIN node /\ p \in PageIds
      /\ ParentHeld(t, p) /\ Size(node[p]) = M + 1 /\ M \in Nat /\ M >= 2
      /\ m \in 1 .. M /\ call[t].op = "Insert" /\ Exclusive(t) /\ doomed[t] = {}
  BY SplitNodeIs
<1>3. /\ pc[t] = "split" /\ Acts(t) /\ TypeOK /\ ThreadOK(g, t)
      /\ latch' = [latch EXCEPT ![new] = Locked(@, t)]
      /\ pages' = [pages EXCEPT ![t] = @ \cup {new}]
      /\ fresh' = [fresh EXCEPT ![t] = new] /\ pc' = [pc EXCEPT ![t] = "parent"]
      /\ UNCHANGED <<root_page_id, header, rootLock, call, target, doomed, at, answer>>
  BY DEF SplitNode, At, GoTo, Good, Acts, Step
<1>4. new \in PageIds /\ new \notin DOMAIN node /\ new # p
  BY <1>1, <1>2 DEF SplitInto
<1>5. pc'[t] = "parent" /\ pages'[t] = pages[t] \cup {new} /\ fresh'[t] = new /\ at'[t] = p
      /\ call'[t] = call[t] /\ doomed'[t] = {}
  BY <1>2, <1>3 DEF TypeOK
<1>6. s \in Nat
  <2>1. m \in 1 .. Size(node[p]) - 1
    BY <1>2
  <2> QED BY <1>2, <2>1, CutIs
<1>7. PICK h : SplitBounds(h, g, p, new, s)
  <2>. PICK u, l : /\ l = [lo |-> g[p].lo, hi |-> s, cap |-> g[p].cap, level |-> g[p].level]
                   /\ u = [lo |-> s, hi |-> g[p].hi, cap |-> g[p].hi, level |-> g[p].level]
    OBVIOUS
  <2>. PICK h : h = [q \in PageIds |-> IF q = p THEN l ELSE IF q = new THEN u ELSE g[q]]
    OBVIOUS
  <2>1. g[p].lo \in Nat /\ g[p].hi \in Nat /\ g[p].cap \in Nat /\ g[p].level \in Nat
    BY Zenon, <1>2, GhostFacts
  <2>2. l \in Bounds /\ u \in Bounds
    BY Zenon, <1>6, <2>1 DEF Bounds
  <2>3. h \in Ghosts
    BY Zenon, <2>2 DEF Ghosts
  <2>4. h[p] = l /\ h[new] = u /\ \A q \in PageIds \ {p, new} : h[q] = g[q]
    BY Zenon, <1>2, <1>4
  <2>5. /\ l.lo = g[p].lo /\ l.hi = s /\ l.cap = g[p].cap /\ l.level = g[p].level
        /\ u.lo = s /\ u.hi = g[p].hi /\ u.cap = g[p].hi /\ u.level = g[p].level
    OBVIOUS
  <2>6. SplitBounds(h, g, p, new, s)
    BY Zenon, <2>3, <2>4, <2>5 DEF SplitBounds
  <2> QED BY Zenon, <2>6
<1>8. SplitDone(g, h, t, p, new, a, b, m, s)
  BY Zenon, <1>1, <1>5, <1>7 DEF SplitDone
<1>9. /\ Changes(t, {p, new}, g, h) /\ g[p].hi = g[p].cap
      /\ s \in Nat /\ g[p].lo < s /\ s < g[p].hi
  <2>1. Changes(t, {p, new}, g, h)
    BY <1>8, SplitChanges
  <2>2. g[p].hi = g[p].cap
    BY SplitNodeIs
  <2>3. m \in 1 .. Size(node[p]) - 1
    BY <1>2
  <2> QED BY <1>2, <2>1, <2>2, <2>3, CutIs
<1>10. Apart(t)
  <2>1. \A q \in pages'[t] \ pages[t] : q \in PageIds /\ q \notin DOMAIN node
    BY Zenon, <1>4, <1>5
  <2> QED BY <2>1, ApartIs
<1>11. TreeAfter({p, new}, h)
  BY <1>8, <1>10, SplitTree
<1>12. TypeOK'
  <2>1. /\ DOMAIN node' \subseteq PageIds /\ \A q \in DOMAIN node' : node'[q] \in Node
    BY <1>1, <1>3 DEF SplitInto, TypeOK
  <2>2. latch' \in [PageIds -> Lock]
    <3>1. Locked(latch[new], t) \in Lock
      BY <1>3, <1>4, LockFields DEF TypeOK
    <3> QED BY <1>3, <3>1 DEF TypeOK
  <2>3. /\ pages' \in [Threads -> SUBSET PageIds] /\ pc' \in [Threads -> Points]
        /\ fresh' \in [Threads -> PageIds \cup {INVALID_PAGE_ID}]
    BY <1>3, <1>4 DEF TypeOK, Points
  <2> QED BY <1>3, <2>1, <2>2, <2>3 DEF TypeOK
<1>13. LatchesOK(t)
  <2>1. latch[new].entered = Nobody /\ latch[new].readers = {} /\ new \notin pages[t]
    BY <1>4, FreshLatch
  <2>2. LatchStep(t, {}, {new})
    <3>1. Granted(latch[new], t)
      BY <2>1 DEF Granted
    <3>2. \A q \in PageIds : latch'[q] = IF q \in {new} THEN Locked(latch[q], t) ELSE latch[q]
      BY <1>3 DEF TypeOK
    <3> QED BY <1>4, <1>5, <3>1, <3>2 DEF LatchStep
  <2>3. \A q : ~Waits(t, q)
    BY <1>3, NoWaits
  <2>4. Exclusive(t)' <=> Exclusive(t)
    BY <1>5 DEF Exclusive
  <2> QED BY <2>2, <2>3, <2>4 DEF LatchesOK
<1>14. HeaderOK'
  BY <1>3 DEF Good, HeaderOK
<1>15. ASSUME NEW q \in pages[t]
       PROVE  /\ q \in DOMAIN node' /\ node'[q].leaf = node[q].leaf
              /\ ParentHeld(t, q) => ParentHeld(t, q)'
              /\ q # p => node'[q].array = node[q].array
              /\ node'[q].parent = INVALID_PAGE_ID <=> node[q].parent = INVALID_PAGE_ID
  <2>1. q \in DOMAIN node /\ q # new
    BY <1>3, <1>4, <1>15 DEF ThreadOK, PointOf
  <2>2. HoldsRoot(t)' <=> HoldsRoot(t)
    BY <1>3, <1>5 DEF HoldsRoot, Exclusive
  <2>3. new # INVALID_PAGE_ID /\ p # INVALID_PAGE_ID
    BY <1>2, <1>4 DEF PageIds, INVALID_PAGE_ID
  <2>4. CASE q = p
    BY <1>1, <1>2, <1>5, <2>2, <2>4 DEF SplitInto, ParentHeld
  <2>5. CASE q # p
    <3>1. node'[q].parent = new \/ node'[q].parent = node[q].parent
      BY <1>1, <2>1, <2>5 DEF SplitInto
    <3>2. node[q].parent = p \/ node'[q].parent = node[q].parent
      <4>1. node[q].parent \notin {p, new} => node'[q].parent = node[q].parent
        BY <1>9, <2>1, <2>5 DEF Changes
      <4>2. q \in Live
        BY <1>2, LiveMine
      <4>3. node[q].parent # new
        BY Zenon, <1>4, <2>3, <4>2 DEF Good, TreeOK, PageOK, HasParent, Live
      <4> QED BY Zenon, <4>1, <4>3
    <3>3. q \in DOMAIN node' /\ node'[q].leaf = node[q].leaf /\ node'[q].array = node[q].array
      BY <1>1, <2>1, <2>5 DEF SplitInto
    <3> QED BY Zenon, <1>5, <2>2, <2>3, <3>1, <3>2, <3>3 DEF ParentHeld
  <2> QED BY <2>4, <2>5
<1>16. ThreadOK(h, t)'
  <2>1. PointOf(t)'
    <3>1. pages'[t] \subseteq DOMAIN node'
      BY <1>1, <1>5, <1>15 DEF SplitInto
    <3> QED BY Zenon, <1>3, <1>5, <3>1 DEF PointOf, ThreadOK, Exclusive
  <2>2. ParentHeld(t, p)'
    BY <1>2, <1>15
  <2>3. Climbs(h, t)'
    BY <1>2, <1>5, <2>2 DEF Climbs
  <2>4. Links(h, t)'
    <3>1. /\ node'[p].parent = node'[new].parent /\ node'[p].leaf = node'[new].leaf
          /\ h[p].level = h[new].level /\ h[p].hi = h[new].lo
          /\ h[p].cap = h[new].hi /\ h[new].cap = h[new].hi
      BY <1>1, <1>7, <1>9 DEF SplitInto, SplitBounds
    <3>2. Size(node[p])' = m /\ Size(node[new])' = M + 1 - m
      BY <1>1, <1>2 DEF SplitInto, Halves, Size
    <3>3. node'[new].array[1].first = h[new].lo
      <4>1. 1 \in 1 .. Len(node[p].array) - m
        BY <1>2 DEF Size
      <4> QED BY <1>1, <1>7, <4>1 DEF SplitInto, SplitBounds, Halves
    <3>4. /\ M = (IF node[p].leaf THEN LeafMax ELSE InternalMax)
          /\ ~node[p].leaf => M >= 3
      BY Zenon, TreeAssumption DEF MaxSize
    <3>5. Half(node[p])' <= m /\ Half(node[new])' <= M + 1 - m
      <4>1. M \div 2 \in Nat /\ M \div 2 <= m /\ M \div 2 <= M + 1 - m
            /\ (M >= 3 => 2 <= m /\ 2 <= M + 1 - m)
        BY <1>2, MiddleIs
      <4>2. node'[p].leaf = node[p].leaf /\ node'[new].leaf = node[p].leaf
        BY <1>1 DEF SplitInto
      <4> QED BY <3>4, <4>1, <4>2 DEF Half
    <3> QED BY Zenon, <1>4, <1>5, <3>1, <3>2, <3>3, <3>5 DEF Links
  <2>5. Keeps(h, t)'
    <3>1. ParentHeld(t, new)'
      BY <1>1, <2>2, <1>5 DEF ParentHeld, SplitInto
    <3>2. ASSUME NEW q \in pages[t] PROVE ParentHeld(t, q)' \/ IsSafe(node[q], call[t].op)'
      <4>1. CASE q = p
        BY <2>2, <4>1
      <4>2. CASE q # p
        <5>1. ParentHeld(t, q) \/ IsSafe(node[q], call[t].op)
          BY Zenon, <1>2, <1>3 DEF ThreadOK, Keeps
        <5>2. IsSafe(node[q], call[t].op) => IsSafe(node[q], call[t].op)'
          BY <1>2, <1>5, <1>15, <4>2 DEF IsSafe, Size, MaxSize
        <5> QED BY <1>15, <5>1, <5>2
      <4> QED BY <4>1, <4>2
    <3> QED BY Zenon, <1>5, <3>1, <3>2 DEF Keeps
  <2> QED BY <1>5, <2>1, <2>3, <2>4, <2>5
          DEF ThreadOK, Descends, InLeaf, Walks, Splits, Shrinks, Levels
<1>17. Good(h)'
  BY Zenon, <1>2, <1>3, <1>9, <1>10, <1>11, <1>12, <1>13, <1>14, <1>16, ChangesStep
<1>18. Frame(t, g, h)
  BY Zenon, <1>2, <1>3, <1>9, ChangesFrame
<1> QED BY <1>7, <1>17, <1>18 DEF SplitBounds

\* A node whose entries stay as they are, when its parent gets to know its bounds.
LEMMA PageStays ==
  ASSUME NEW g \in Ghosts, NEW h, Good(g), NEW c \in Live,
         node'[c].leaf = node[c].leaf, node'[c].array = node[c].array, node'[c].next = node[c].next,
         h[c].lo = g[c].lo, h[c].hi = g[c].hi, h[c].level = g[c].level, h[c].cap = g[c].hi,
         node[c].leaf /\ node[c].next \in Live =>
           LET q == node[c].next IN q \in Live' /\ node'[q].leaf = node[q].leaf /\ h[q].lo = g[q].lo,
         \A q \in Live : node[q].parent = c =>
           /\ q \in Live' /\ node'[q].parent = c
           /\ h[q].level = g[q].level /\ h[q].lo = g[q].lo /\ h[q].cap = g[q].cap,
         HasParent(c)', Sized(c)'
  PROVE  PageOK(h, c)'
<1>1. PageOK(g, c) /\ c \in PageIds
  BY NodeFacts DEF Good, TreeOK, Live
<1>2. Size(node[c])' = Size(node[c])
  BY DEF Size
<1>3. Placed(h, c)'
  <2>1. g[c].lo < g[c].hi /\ g[c].hi <= g[c].cap /\ g[c].cap <= Top /\ (node[c].leaf <=> g[c].level = 0)
    BY <1>1 DEF PageOK, Placed
  <2>2. g[c].hi \in Nat /\ g[c].cap \in Nat /\ Top \in Nat
    BY <1>1, GhostFacts, TopAbove
  <2> QED BY <2>1, <2>2 DEF Placed
<1>4. ASSUME node[c].leaf PROVE LeafEntries(h, c)'
  BY <1>1, <1>2, <1>4 DEF PageOK, LeafEntries
<1>5. ASSUME node[c].leaf PROVE NextLeaf(h, c)'
  <2>1. NextLeaf(g, c)
    BY <1>1, <1>5 DEF PageOK
  <2> QED BY <1>5, <2>1 DEF NextLeaf
<1>6. ASSUME ~node[c].leaf PROVE Inner(h, c)'
  <2>1. Inner(g, c)
    BY <1>1, <1>6 DEF PageOK
  <2>2. \A i : Edge(h, c, i)' = Edge(g, c, i)
    BY Zenon, <1>2 DEF Edge
  <2>3. ASSUME NEW i \in 1 .. Size(node[c]) PROVE ChildOf(h, c, i)'
    <3>. PICK q : q = node[c].array[i].second
      BY Zenon
    <3>1. /\ q \in Live /\ node[q].parent = c /\ g[q].level + 1 = g[c].level
          /\ g[q].lo = Edge(g, c, i) /\ g[q].cap = Edge(g, c, i + 1)
      BY <2>1 DEF Inner, ChildOf
    <3>2. node'[c].array[i].second = q
      OBVIOUS
    <3> QED BY <2>2, <3>1, <3>2 DEF ChildOf
  <2> QED BY <1>2, <2>1, <2>2, <2>3 DEF Inner
<1> QED BY <1>3, <1>4, <1>5, <1>6 DEF PageOK

\* What is known of the two halves of a split node.
LinksPlace(g, t, old, new) ==
  /\ old \in pages[t] /\ new \in pages[t] /\ old # new
  /\ old \in Live /\ new \in Live /\ old \in DOMAIN node /\ new \in DOMAIN node
  /\ old \in PageIds /\ new \in PageIds
  /\ ParentHeld(t, old) /\ Exclusive(t) /\ call[t].op = "Insert" /\ doomed[t] = {}
  /\ node[old].parent = node[new].parent /\ g[old].level = g[new].level
  /\ g[old].hi = g[new].lo /\ g[old].cap = g[new].hi /\ g[new].cap = g[new].hi
  /\ node[new].array[1].first = g[new].lo /\ g[new].lo \in Nat
  /\ Half(node[old]) <= Size(node[old]) /\ Half(node[new]) <= Size(node[new])
  /\ Size(node[old]) <= MaxSize(node[old]) /\ Size(node[new]) <= MaxSize(node[new])
  /\ PageOK(g, old) /\ PageOK(g, new)
  /\ ~Hangs(old)

\* The two halves of a node that has been split.
LEMMA LinksFacts ==
  ASSUME NEW g \in Ghosts, Good(g), NEW t \in Threads, pc[t] = "parent",
         NEW old, old = at[t], NEW new, new = fresh[t]
  PROVE  LinksPlace(g, t, old, new)
<1>1. Climbs(g, t) /\ Links(g, t) /\ PointOf(t)
  BY DEF Good, ThreadOK
<1>2. /\ old \in pages[t] /\ new \in pages[t] /\ old # new
      /\ ParentHeld(t, old) /\ Exclusive(t) /\ call[t].op = "Insert" /\ doomed[t] = {}
  BY <1>1 DEF Climbs, Links, PointOf, Exclusive
<1>3. /\ node[old].parent = node[new].parent /\ g[old].level = g[new].level
      /\ g[old].hi = g[new].lo /\ g[old].cap = g[new].hi /\ g[new].cap = g[new].hi
      /\ node[new].array[1].first = g[new].lo
      /\ Half(node[old]) <= Size(node[old]) /\ Half(node[new]) <= Size(node[new])
  BY <1>1 DEF Links
<1>4. old \in Live /\ new \in Live
  BY <1>2, LiveMine
<1>5. old \in DOMAIN node /\ new \in DOMAIN node /\ old \in PageIds /\ new \in PageIds
  BY <1>4, NodeFacts DEF Live
<1>6. PageOK(g, old) /\ PageOK(g, new)
  BY <1>4 DEF Good, TreeOK
<1>7. ~Busy(old, "split") /\ ~Busy(new, "split")
  BY <1>2, BusyMine
<1>8. Size(node[old]) <= MaxSize(node[old]) /\ Size(node[new]) <= MaxSize(node[new])
  BY <1>6, <1>7 DEF PageOK, Sized
<1>9. ~Hangs(old)
  BY <1>2, HangsMine
<1>10. g[new].lo \in Nat
  BY <1>5, GhostFacts
<1> QED BY <1>2, <1>3, <1>4, <1>5, <1>6, <1>8, <1>9, <1>10 DEF LinksPlace

\* What GrowRoot does to the nodes.
Grown(r, old, new, k) ==
  /\ r \in PageIds /\ r \notin DOMAIN node
  /\ DOMAIN node' = DOMAIN node \cup {r} /\ \A q \in DOMAIN node' : node'[q] \in Node
  /\ ~node'[r].leaf /\ Size(node[r])' = 2 /\ node'[r].parent = INVALID_PAGE_ID
  /\ node'[r].array[1].second = old
  /\ node'[r].array[2].first = k /\ node'[r].array[2].second = new
  /\ \A c \in {old, new} :
       /\ node'[c].leaf = node[c].leaf /\ node'[c].array = node[c].array
       /\ node'[c].next = node[c].next /\ node'[c].parent = r
  /\ \A q \in DOMAIN node \ {old, new} : node'[q] = node[q]

\* What InsertIntoParent does to the nodes when it makes a new root.
LEMMA GrownIs ==
  ASSUME NEW g \in Ghosts, Good(g), NEW t \in Threads, GrowRoot(t),
         NEW old, old = at[t], NEW new, new = fresh[t], NEW r, r = NewPageId
  PROVE  Grown(r, old, new, g[new].lo)
<1>. PICK k : k = g[new].lo
  OBVIOUS
<1>1. pc[t] = "parent" /\ CanAllocate /\ TypeOK
  BY DEF GrowRoot, At, Good
<1>2. /\ old # new /\ old \in DOMAIN node /\ new \in DOMAIN node /\ old \in PageIds /\ new \in PageIds
      /\ node[new].array[1].first = k /\ k \in Nat
  <2>1. LinksPlace(g, t, old, new)
    BY Zenon, <1>1, LinksFacts
  <2> QED BY <2>1 DEF LinksPlace
<1>3. r \in PageIds /\ r \notin DOMAIN node
  BY <1>1, NewPageIs DEF TypeOK
<1>4. PICK e1, e2 : e1 = Pair(0, old) /\ e2 = Pair(k, new)
  OBVIOUS
<1>5. PICK n : n = [leaf |-> FALSE, array |-> <<e1, e2>>,
                    parent |-> INVALID_PAGE_ID, next |-> INVALID_PAGE_ID]
  OBVIOUS
<1>6. PICK s : s = Added(node, r, n)
  OBVIOUS
<1>7. node' = Adopt(s, n, r)
  BY <1>2, <1>4, <1>5, <1>6 DEF GrowRoot
<1>8. /\ e1 \in Entry(PageIds) /\ e2 \in Entry(PageIds)
      /\ e1.second = old /\ e2.first = k /\ e2.second = new
  BY <1>2, <1>4 DEF Entry, Pair
<1>9. /\ n \in Node /\ ~n.leaf /\ n.parent = INVALID_PAGE_ID
      /\ Len(n.array) = 2 /\ n.array[1] = e1 /\ n.array[2] = e2
  <2>1. <<e1, e2>> \in Seq(Entry(Values) \cup Entry(PageIds))
    BY <1>8
  <2> QED BY <1>5, <2>1 DEF Node
<1>10. Children(n) = {old, new}
  <2>1. Size(n) = 2
    BY <1>9 DEF Size
  <2>2. \A i \in 1 .. 2 : i = 1 \/ i = 2
    OBVIOUS
  <2>3. \A q \in Children(n) : q \in {old, new}
    BY <1>8, <1>9, <2>1, <2>2 DEF Children
  <2>4. 1 \in 1 .. 2 /\ 2 \in 1 .. 2
    OBVIOUS
  <2>5. old \in Children(n) /\ new \in Children(n)
    BY <1>8, <1>9, <2>1, <2>4 DEF Children
  <2> QED BY <2>3, <2>5
<1>11. /\ DOMAIN s = DOMAIN node \cup {r} /\ s[r] = n
       /\ \A q \in DOMAIN node : s[q] = node[q]
  BY <1>3, <1>6 DEF Added
<1>12. \A q \in DOMAIN s : s[q] \in Node
  BY <1>1, <1>9, <1>11 DEF TypeOK
<1>13. DOMAIN node' = DOMAIN s
  BY <1>7, AdoptDomain
<1>14. ASSUME NEW q \in DOMAIN s PROVE AdoptedAt(node', s, n, r, q)
  <2>1. r \in PageIds \cup {INVALID_PAGE_ID} /\ s[q] \in Node
    BY <1>3, <1>12
  <2>2. AdoptedAt(Adopt(s, n, r), s, n, r, q)
    BY <2>1, AdoptIs
  <2> QED BY <1>7, <2>2
<1>15. node'[r] = n
  BY <1>2, <1>3, <1>10, <1>11, <1>14 DEF AdoptedAt
<1>16. ASSUME NEW c \in {old, new}
       PROVE  /\ node'[c].leaf = node[c].leaf /\ node'[c].array = node[c].array
              /\ node'[c].next = node[c].next /\ node'[c].parent = r
  <2>1. c \in DOMAIN s /\ s[c] = node[c]
    BY <1>2, <1>11
  <2> QED BY <1>10, <1>14, <2>1 DEF AdoptedAt
<1>17. ASSUME NEW q \in DOMAIN node \ {old, new} PROVE node'[q] = node[q]
  <2>1. q \in DOMAIN s /\ s[q] = node[q]
    BY <1>11
  <2> QED BY <1>10, <1>14, <2>1 DEF AdoptedAt
<1>18. Size(node[r])' = 2 /\ node'[r].array[1] = e1 /\ node'[r].array[2] = e2
  BY <1>9, <1>15 DEF Size
<1>19. \A q \in DOMAIN node' : node'[q] \in Node
  BY <1>13, <1>14 DEF AdoptedAt
<1> QED BY <1>3, <1>8, <1>9, <1>11, <1>13, <1>15, <1>16, <1>17, <1>18, <1>19 DEF Grown


GrownBounds(h, g, r, old) ==
  /\ h \in Ghosts
  /\ \A q \in PageIds \ {r, old} : h[q] = g[q]
  /\ h[r].lo = 0 /\ h[r].hi = Top /\ h[r].cap = Top /\ h[r].level = g[old].level + 1
  /\ h[old].lo = g[old].lo /\ h[old].hi = g[old].hi /\ h[old].cap = g[old].hi
  /\ h[old].level = g[old].level

GrownDone(g, h, t, r, old, new, k) ==
  /\ pc[t] = "parent" /\ old = at[t] /\ new = fresh[t] /\ k = g[new].lo
  /\ node[old].parent = INVALID_PAGE_ID
  /\ Grown(r, old, new, k) /\ GrownBounds(h, g, r, old)
  /\ root_page_id' = r /\ doomed' = doomed /\ pages' = pages

\* What is known of the old root and the node split off from it.
LEMMA GrownFacts ==
  ASSUME NEW g \in Ghosts, Good(g), NEW t \in Threads, NEW r, NEW old, NEW new, NEW k, NEW h,
         GrownDone(g, h, t, r, old, new, k)
  PROVE  /\ root_page_id = old /\ HoldsRoot(t) /\ g[old].lo = 0 /\ g[old].cap = Top /\ g[new].hi = Top
         /\ \A q \in Live : g[q].level <= g[old].level
         /\ r \notin Live /\ Live' = Live \cup {r}
         /\ Changes(t, {old, new, r}, g, h)
<1>1. /\ pc[t] = "parent" /\ old = at[t] /\ new = fresh[t] /\ node[old].parent = INVALID_PAGE_ID
      /\ Grown(r, old, new, k) /\ GrownBounds(h, g, r, old)
      /\ root_page_id' = r /\ doomed' = doomed /\ pages' = pages
  BY DEF GrownDone
<1>2. /\ old \in pages[t] /\ new \in pages[t] /\ old # new
      /\ old \in Live /\ new \in Live /\ old \in DOMAIN node /\ new \in DOMAIN node
      /\ old \in PageIds /\ new \in PageIds
      /\ ParentHeld(t, old) /\ Exclusive(t) /\ ~Hangs(old)
      /\ node[old].parent = node[new].parent /\ g[old].cap = g[new].hi
      /\ PageOK(g, old)
  <2>1. LinksPlace(g, t, old, new)
    BY Zenon, <1>1, LinksFacts
  <2> QED BY <2>1 DEF LinksPlace
<1>3. root_page_id = old /\ HoldsRoot(t)
  BY <1>1, <1>2 DEF PageOK, HasParent, ParentHeld
<1>4. g[old].lo = 0 /\ g[old].cap = Top /\ \A q \in Live : g[q].level <= g[old].level
  BY <1>2, <1>3 DEF Good, TreeOK, Rooted, PageIds, INVALID_PAGE_ID
<1>5. r \in PageIds /\ r \notin DOMAIN node /\ DOMAIN node' = DOMAIN node \cup {r}
  BY <1>1 DEF Grown
<1>6. Doomed' = Doomed /\ r \notin Doomed
  BY <1>1, <1>5 DEF Doomed, Good, ThreadOK, PointOf
<1>7. Live' = Live \cup {r} /\ r \notin Live
  BY <1>5, <1>6 DEF Live
<1>8. {old, new, r} \subseteq PageIds /\ {old, new, r} \cap DOMAIN node \subseteq Mine(t)
  BY <1>2, <1>5 DEF Mine
<1>9. ASSUME NEW q \in DOMAIN node \ {old, new, r}
      PROVE  /\ q \in DOMAIN node' /\ (q \in Live' <=> q \in Live)
             /\ node'[q].leaf = node[q].leaf /\ node'[q].array = node[q].array
             /\ node'[q].next = node[q].next /\ h[q] = g[q]
             /\ node'[q].parent = node[q].parent
  <2>1. q \in PageIds \ {r, old} /\ q # r /\ q \in DOMAIN node \ {old, new}
    BY <1>9, NodeFacts
  <2> QED BY <1>1, <1>5, <1>7, <2>1 DEF Grown, GrownBounds
<1>10. ASSUME NEW c \in {old, new}
       PROVE  /\ c \in DOMAIN node' /\ c \in Live' /\ node'[c].leaf = node[c].leaf
              /\ h[c].level = g[c].level /\ h[c].lo = g[c].lo
              /\ node[c].parent = INVALID_PAGE_ID /\ Owns(t, c)
  <2>1. node[c].parent = INVALID_PAGE_ID /\ Owns(t, c)
    BY <1>1, <1>2, <1>3 DEF Owns
  <2>2. h[c].level = g[c].level /\ h[c].lo = g[c].lo
    BY <1>1, <1>2, <1>5 DEF GrownBounds
  <2> QED BY <1>1, <1>2, <1>5, <1>7, <2>1, <2>2 DEF Grown
<1>11. INVALID_PAGE_ID \notin {old, new, r} /\ INVALID_PAGE_ID \notin DOMAIN node
  <2>1. DOMAIN node \subseteq PageIds
    BY Zenon DEF Good, TypeOK
  <2> QED BY <1>8, <2>1 DEF PageIds, INVALID_PAGE_ID
<1>12. Changes(t, {old, new, r}, g, h)
  <2>1. Live' \subseteq DOMAIN node \cup {old, new, r}
    BY <1>7 DEF Live
  <2>2. \A c \in {old, new, r} \cap DOMAIN node : c \in {old, new}
    BY <1>5
  <2>3. \A c \in {old, new, r} \cap Live : c \in {old, new}
    BY <1>7
  <2>4. \A q \in DOMAIN node : node[q].parent \in {old, new, r} => node[q].parent # INVALID_PAGE_ID
    BY <1>11
  <2> QED BY <1>1, <1>2, <1>3, <1>8, <1>9, <1>10, <1>11, <2>1, <2>2, <2>3, <2>4 DEF Changes
<1> QED BY <1>2, <1>3, <1>4, <1>7, <1>12

\* The tree is in order under its new root.
LEMMA GrownTree ==
  ASSUME NEW g \in Ghosts, Good(g), NEW t \in Threads, Apart(t), NEW r, NEW old, NEW new, NEW k, NEW h,
         GrownDone(g, h, t, r, old, new, k)
  PROVE  TreeAfter({old, new, r}, h)
<1>1. /\ pc[t] = "parent" /\ old = at[t] /\ new = fresh[t] /\ k = g[new].lo
      /\ node[old].parent = INVALID_PAGE_ID
      /\ Grown(r, old, new, k) /\ GrownBounds(h, g, r, old)
      /\ root_page_id' = r
  BY DEF GrownDone
<1>2. /\ old \in pages[t] /\ new \in pages[t] /\ old # new
      /\ old \in Live /\ new \in Live /\ old \in DOMAIN node /\ new \in DOMAIN node
      /\ old \in PageIds /\ new \in PageIds /\ Exclusive(t)
      /\ node[new].parent = INVALID_PAGE_ID /\ g[old].level = g[new].level
      /\ g[old].hi = g[new].lo /\ g[new].cap = g[new].hi /\ k \in Nat
      /\ Half(node[old]) <= Size(node[old]) /\ Half(node[new]) <= Size(node[new])
      /\ Size(node[old]) <= MaxSize(node[old]) /\ Size(node[new]) <= MaxSize(node[new])
      /\ PageOK(g, old) /\ PageOK(g, new)
  <2>1. LinksPlace(g, t, old, new)
    BY Zenon, <1>1, LinksFacts
  <2> QED BY <1>1, <2>1 DEF LinksPlace
<1>3. /\ root_page_id = old /\ g[old].lo = 0 /\ g[old].cap = Top /\ g[new].hi = Top
      /\ \A q \in Live : g[q].level <= g[old].level
      /\ r \notin Live /\ Live' = Live \cup {r}
      /\ Changes(t, {old, new, r}, g, h)
  <2>1. /\ root_page_id = old /\ g[old].lo = 0 /\ g[old].cap = Top /\ g[new].hi = Top
        /\ r \notin Live
    BY GrownFacts
  <2>4. \A q \in Live : g[q].level <= g[old].level
    BY <1>2, <2>1 DEF Good, TreeOK, Rooted, PageIds, INVALID_PAGE_ID
  <2>2. Live' = Live \cup {r}
    BY GrownFacts
  <2>3. Changes(t, {old, new, r}, g, h)
    BY GrownFacts
  <2> QED BY <2>1, <2>2, <2>3, <2>4
<1>4. r \in PageIds /\ ~node'[r].leaf /\ Size(node[r])' = 2 /\ node'[r].parent = INVALID_PAGE_ID
      /\ node'[r].array[1].second = old
      /\ node'[r].array[2].first = k /\ node'[r].array[2].second = new
  BY <1>1 DEF Grown
<1>5. \A q \in Live : g[q].lo \in Nat /\ g[q].hi \in Nat /\ g[q].level \in Nat
  BY NodeFacts, GhostFacts DEF Live
<1>6. ASSUME NEW q \in Live
      PROVE  /\ q \in Live' /\ q # r /\ node'[q].leaf = node[q].leaf /\ node'[q].array = node[q].array
             /\ node'[q].next = node[q].next
             /\ h[q].lo = g[q].lo /\ h[q].hi = g[q].hi /\ h[q].level = g[q].level
             /\ q \notin {old, new} => node'[q].parent = node[q].parent /\ h[q] = g[q]
  <2>1. q \in DOMAIN node /\ q \in PageIds /\ q \in Live' /\ q # r
    BY <1>3, NodeFacts DEF Live
  <2>2. h[q].lo = g[q].lo /\ h[q].hi = g[q].hi /\ h[q].level = g[q].level /\ (q # old => h[q] = g[q])
    BY <1>1, <2>1 DEF GrownBounds
  <2>3. CASE q \in {old, new}
    BY <1>1, <2>1, <2>2, <2>3 DEF Grown
  <2>4. CASE q \notin {old, new}
    BY <1>1, <2>1, <2>2, <2>4 DEF Grown
  <2> QED BY <2>3, <2>4
<1>7. ASSUME NEW q \in Live, node[q].parent \in {old, new}
      PROVE  /\ HasParent(q)' /\ q \notin {old, new}
             /\ node'[q].parent = node[q].parent
  <2>. PICK o : o = node[q].parent
    OBVIOUS
  <2>1. o # INVALID_PAGE_ID /\ o \in Live /\ o \in PageIds /\ o \in Mine(t)
    BY <1>2, <1>7 DEF PageIds, INVALID_PAGE_ID, Mine
  <2>2. q \notin {old, new}
    BY <1>1, <1>2, <2>1
  <2>3. ~Hangs(q)
    BY <1>1, <2>1, <2>2, HangsOwn
  <2>4. ~node[o].leaf /\ IsChild(q, o)
    BY <2>1, <2>3 DEF Good, TreeOK, PageOK, HasParent
  <2>5. o \in Live' /\ ~node'[o].leaf /\ node'[o].array = node[o].array /\ node'[q].parent = o
    BY <1>6, <2>1, <2>2, <2>4
  <2>6. IsChild(q, o)'
    BY Zenon, <2>4, <2>5 DEF IsChild, Size
  <2> QED BY <2>1, <2>2, <2>5, <2>6 DEF HasParent
<1>8. ASSUME NEW c \in {old, new} PROVE PageOK(h, c)'
  <2>1. c \in Live /\ h[c].cap = g[c].hi
    <3>1. h[new].cap = g[new].cap
      BY <1>1, <1>2, <1>3 DEF GrownBounds
    <3>2. h[old].cap = g[old].hi
      BY <1>1 DEF GrownBounds
    <3> QED BY <1>2, <3>1, <3>2
  <2>2. node'[c].parent = r
    BY <1>1 DEF Grown
  <2>3. HasParent(c)'
    <3>1. 1 \in 1 .. 2 /\ 2 \in 1 .. 2
      OBVIOUS
    <3>2. IsChild(c, r)'
      BY <1>4, <3>1 DEF IsChild
    <3>3. r \in Live'
      BY <1>3
    <3>4. r # INVALID_PAGE_ID
      BY <1>4 DEF PageIds, INVALID_PAGE_ID
    <3> QED BY <1>4, <2>2, <3>2, <3>3, <3>4 DEF HasParent
  <2>4. Sized(c)'
    <3>1. Half(node[c]) <= Size(node[c]) /\ Size(node[c]) <= MaxSize(node[c])
      BY <1>2
    <3>2. r # INVALID_PAGE_ID
      BY <1>4 DEF PageIds, INVALID_PAGE_ID
    <3>3. node'[c].leaf = node[c].leaf /\ node'[c].array = node[c].array
      BY <1>6, <2>1
    <3>4. Low(node[c])' = Half(node[c])
      BY <2>2, <3>2, <3>3 DEF Low, Half
    <3>5. Size(node[c])' = Size(node[c]) /\ MaxSize(node[c])' = MaxSize(node[c])
      BY <3>3 DEF Size, MaxSize
    <3> QED BY <3>1, <3>4, <3>5 DEF Sized
  <2>5. \A q \in Live : node[q].parent = c =>
          /\ q \in Live' /\ node'[q].parent = c
          /\ h[q].level = g[q].level /\ h[q].lo = g[q].lo /\ h[q].cap = g[q].cap
    BY <1>6, <1>7
  <2>6. node[c].leaf /\ node[c].next \in Live =>
          LET q == node[c].next IN q \in Live' /\ node'[q].leaf = node[q].leaf /\ h[q].lo = g[q].lo
    BY <1>6
  <2>7. /\ node'[c].leaf = node[c].leaf /\ node'[c].array = node[c].array /\ node'[c].next = node[c].next
        /\ h[c].lo = g[c].lo /\ h[c].hi = g[c].hi /\ h[c].level = g[c].level
    BY <1>6, <2>1
  <2> QED BY <2>1, <2>3, <2>4, <2>5, <2>6, <2>7, PageStays
<1>9. PageOK(h, r)'
  <2>1. h[r].lo = 0 /\ h[r].hi = Top /\ h[r].cap = Top /\ h[r].level = g[old].level + 1
    BY <1>1 DEF GrownBounds
  <2>2. g[old].level \in Nat /\ Top \in Nat /\ 0 < Top
    BY <1>2, <1>5, TopAbove
  <2>3. Placed(h, r)'
    BY <1>4, <2>1, <2>2 DEF Placed
  <2>4. 0 < k /\ k < Top
    <3>1. g[old].lo < g[old].hi /\ g[new].lo < g[new].hi
      BY <1>2 DEF PageOK, Placed
    <3> QED BY <1>1, <1>2, <1>3, <3>1
  <2>5. Edge(h, r, 1)' = 0 /\ Edge(h, r, 2)' = k /\ Edge(h, r, 3)' = Top
    BY <1>4, <2>1 DEF Edge
  <2>6. Inner(h, r)'
    <3>1. \A i \in 1 .. 3 : i = 1 \/ i = 2 \/ i = 3
      OBVIOUS
    <3>2. \A i, j \in 1 .. 3 : i < j => Edge(h, r, i)' < Edge(h, r, j)'
      BY <1>2, <2>2, <2>4, <2>5, <3>1
    <3>3. h[old].cap = k /\ h[old].lo = 0 /\ h[new].lo = k /\ h[new].cap = Top
      <4>1. h[new] = g[new]
        BY Zenon, <1>1, <1>2, <1>3 DEF GrownBounds
      <4> QED BY <1>1, <1>2, <1>3, <4>1 DEF GrownBounds
    <3>4. old \in Live' /\ new \in Live' /\ node'[old].parent = r /\ node'[new].parent = r
          /\ h[old].level + 1 = h[r].level /\ h[new].level + 1 = h[r].level
      <4>1. h[old].level = g[old].level /\ h[new].level = g[new].level /\ old \in Live' /\ new \in Live'
        BY <1>2, <1>6
      <4> QED BY <1>1, <1>2, <2>1, <4>1 DEF Grown
    <3>5. ChildOf(h, r, 1)' /\ ChildOf(h, r, 2)'
      BY <1>4, <2>5, <3>3, <3>4 DEF ChildOf
    <3>6. \A i \in 1 .. 2 : i = 1 \/ i = 2
      OBVIOUS
    <3>7. \A i \in 1 .. 2 : node'[r].array[i].second \in PageIds /\ ChildOf(h, r, i)'
      BY <1>2, <1>4, <3>5, <3>6
    <3>8. Size(node[r])' + 1 = 3
      BY <1>4
    <3> QED BY <1>4, <2>1, <3>2, <3>7, <3>8 DEF Inner
  <2>7. HasParent(r)'
    BY <1>1, <1>4 DEF HasParent
  <2>8. Sized(r)'
    BY <1>4, TreeAssumption DEF Sized, MaxSize, Low
  <2> QED BY <1>4, <2>3, <2>6, <2>7, <2>8 DEF PageOK
<1>10. Rooted(h)'
  <2>1. h[r].lo = 0 /\ h[r].cap = Top /\ h[r].level = g[old].level + 1
    BY <1>1 DEF GrownBounds
  <2>2. ASSUME NEW q \in Live' PROVE h[q].level <= h[r].level
    <3>1. CASE q = r
      BY <1>2, <1>5, <2>1, <3>1
    <3>2. CASE q # r
      <4>1. q \in Live
        BY <1>3, <3>2
      <4>2. h[q].level = g[q].level /\ g[q].level <= g[old].level
        BY <1>3, <1>6, <4>1
      <4> QED BY <1>2, <1>5, <2>1, <4>1, <4>2
    <3> QED BY <3>1, <3>2
  <2>3. r # INVALID_PAGE_ID
    BY <1>4 DEF PageIds, INVALID_PAGE_ID
  <2> QED BY <1>1, <1>3, <1>4, <2>1, <2>2, <2>3 DEF Rooted
<1>11. ASSUME NEW c \in {old, new, r}, NEW q \in Live', c # q, h[c].level = h[q].level
       PROVE  h[c].hi <= h[q].lo \/ h[q].hi <= h[c].lo
  <2>1. \A x \in Live : h[x].level = g[x].level /\ h[x].level # h[r].level
    <3>1. h[r].level = g[old].level + 1
      BY <1>1 DEF GrownBounds
    <3> QED BY <1>2, <1>3, <1>5, <1>6, <3>1
  <2>2. c \in Live /\ q \in Live
    BY <1>2, <1>3, <1>11, <2>1
  <2>3. g[c].hi <= g[q].lo \/ g[q].hi <= g[c].lo
    BY <1>11, <2>1, <2>2 DEF Good, TreeOK, Disjoint
  <2> QED BY <1>6, <2>2, <2>3
<1>12. ASSUME NEW q \in Live \ {old, new, r}, node[q].parent \in {old, new, r} PROVE HasParent(q)'
  <2>1. node[q].parent # r
    <3>1. r # INVALID_PAGE_ID
      BY <1>4 DEF PageIds, INVALID_PAGE_ID
    <3> QED BY <1>3, <3>1 DEF Good, TreeOK, PageOK, HasParent
  <2> QED BY <1>7, <1>12, <2>1
<1> QED BY <1>8, <1>9, <1>10, <1>11, <1>12 DEF TreeAfter

\* InsertIntoParent of the root.
LEMMA GrowRootKeeps ==
  ASSUME NEW g \in Ghosts, Good(g), NEW t \in Threads, GrowRoot(t)
  PROVE  \E h \in Ghosts : Good(h)' /\ Frame(t, g, h)
<1>. PICK old, new, r : old = at[t] /\ new = fresh[t] /\ r = NewPageId
  OBVIOUS
<1>. PICK k : k = g[new].lo
  OBVIOUS
<1>1. /\ pc[t] = "parent" /\ Acts(t) /\ TypeOK /\ PointOf(t)
      /\ node[old].parent = INVALID_PAGE_ID
      /\ root_page_id' = r /\ header' = RecordUpdated(r) /\ pc' = [pc EXCEPT ![t] = "free"]
      /\ UNCHANGED <<rootLock, latch, call, target, pages, doomed, at, fresh, answer>>
  BY DEF GrowRoot, At, GoTo, Good, Acts, Step, ThreadOK, lockVars
<1>2. Grown(r, old, new, k)
  BY GrownIs
<1>3. old \in PageIds /\ new \in PageIds /\ old # new /\ Exclusive(t) /\ call[t].op = "Insert" /\ doomed[t] = {}
  <2>1. LinksPlace(g, t, old, new)
    BY Zenon, <1>1, LinksFacts
  <2> QED BY <2>1 DEF LinksPlace
<1>4. r \in PageIds /\ r \notin DOMAIN node /\ DOMAIN node' = DOMAIN node \cup {r}
      /\ \A q \in DOMAIN node' : node'[q] \in Node
  BY <1>2 DEF Grown
<1>5. PICK h : GrownBounds(h, g, r, old)
  <2>. PICK u, l : /\ l = [lo |-> g[old].lo, hi |-> g[old].hi, cap |-> g[old].hi, level |-> g[old].level]
                   /\ u = [lo |-> 0, hi |-> Top, cap |-> Top, level |-> g[old].level + 1]
    OBVIOUS
  <2>. PICK h : h = [q \in PageIds |-> IF q = old THEN l ELSE IF q = r THEN u ELSE g[q]]
    OBVIOUS
  <2>1. g[old].lo \in Nat /\ g[old].hi \in Nat /\ g[old].level \in Nat /\ Top \in Nat
    BY <1>3, GhostFacts, TopAbove
  <2>2. l \in Bounds /\ u \in Bounds
    BY <2>1 DEF Bounds
  <2>3. h \in Ghosts
    BY <2>2 DEF Ghosts
  <2>4. old # r
    <3>1. old \in DOMAIN node
      <4>1. LinksPlace(g, t, old, new)
        BY Zenon, <1>1, LinksFacts
      <4> QED BY <4>1 DEF LinksPlace
    <3> QED BY <1>4, <3>1
  <2>5. h[old] = l /\ h[r] = u /\ \A q \in PageIds \ {r, old} : h[q] = g[q]
    BY <1>3, <1>4, <2>4
  <2>6. /\ l.lo = g[old].lo /\ l.hi = g[old].hi /\ l.cap = g[old].hi /\ l.level = g[old].level
        /\ u.lo = 0 /\ u.hi = Top /\ u.cap = Top /\ u.level = g[old].level + 1
    OBVIOUS
  <2>7. GrownBounds(h, g, r, old)
    BY Zenon, <2>3, <2>5, <2>6 DEF GrownBounds
  <2> QED BY <2>7
<1>6. GrownDone(g, h, t, r, old, new, k)
  BY <1>1, <1>2, <1>5 DEF GrownDone
<1>7. Apart(t)
  BY <1>1, ApartIs
<1>8. Changes(t, {old, new, r}, g, h) /\ TreeAfter({old, new, r}, h) /\ root_page_id = old
  BY <1>6, <1>7, GrownFacts, GrownTree
<1>9. TypeOK'
  <2>1. header' \in PageIds \cup {INVALID_PAGE_ID, NoRecord}
    BY <1>1, <1>4 DEF RecordUpdated, TypeOK
  <2>2. pc' \in [Threads -> Points]
    BY <1>1 DEF TypeOK, Points
  <2>3. DOMAIN node' \subseteq PageIds
    BY <1>1, <1>4 DEF TypeOK
  <2> QED BY <1>1, <1>4, <2>1, <2>2, <2>3 DEF TypeOK
<1>10. pc'[t] = "free"
  BY <1>1 DEF TypeOK
<1>11. PointOf(t)'
  BY <1>1, <1>3, <1>4, <1>10 DEF PointOf, Exclusive
<1>12. ThreadOK(h, t)'
  BY <1>10, <1>11, OwnSimple
<1>13. LatchesOK(t)
  BY <1>1, NoWaits, LatchesSame DEF Exclusive
<1>14. HeaderOK'
  <2>1. header # NoRecord
    BY <1>3, <1>8 DEF Good, HeaderOK, PageIds, INVALID_PAGE_ID, NoRecord
  <2> QED BY <1>1, <2>1 DEF RecordUpdated, HeaderOK
<1>15. Good(h)'
  BY Zenon, <1>1, <1>3, <1>7, <1>8, <1>9, <1>12, <1>13, <1>14, ChangesStep
<1>16. Frame(t, g, h)
  BY Zenon, <1>3, <1>8, ChangesFrame
<1> QED BY <1>5, <1>15, <1>16 DEF GrownBounds

\* What InsertIntoParent does when there is a parent: it gets an entry for the new node
\* behind the one of the old node, whose end cap it knows from now on.
Hooked(g, h, t, old, new, par, x, a) ==
  /\ pc[t] = "parent" /\ old = at[t] /\ new = fresh[t]
  /\ par = node[old].parent /\ par # INVALID_PAGE_ID /\ x = ValueIndex(node[par], old)
  /\ NewArray(par, a) /\ Inserted(a, node[par].array, x + 1, Pair(g[new].lo, new))
  /\ h \in Ghosts /\ \A q \in PageIds \ {old} : h[q] = g[q]
  /\ h[old].lo = g[old].lo /\ h[old].hi = g[old].hi /\ h[old].cap = g[old].hi
  /\ h[old].level = g[old].level
  /\ UNCHANGED <<root_page_id, doomed, pages>>

\* The parent of the two halves of a split node, where the left one is at x.
HookPlace(g, t, old, new, par, x) ==
  /\ par \in pages[t] /\ par \in Live /\ par \in DOMAIN node /\ par \in PageIds
  /\ ~node[par].leaf /\ par # old /\ par # new /\ node[new].parent = par
  /\ g[par].level = g[old].level + 1 /\ g[par].hi = g[par].cap
  /\ Size(node[par]) \in Nat /\ x \in 1 .. Size(node[par])
  /\ node[par].array[x].second = old /\ ChildOf(g, par, x)
  /\ \A i \in 1 .. Size(node[par]) : node[par].array[i].second = old => i = x
  /\ Inner(g, par) /\ PageOK(g, par) /\ ~Hangs(par)
  /\ Size(node[par]) <= InternalMax /\ Low(node[par]) <= Size(node[par])

\* What is known of the two halves and their parent.
LEMMA HookedFacts ==
  ASSUME NEW g \in Ghosts, Good(g), NEW t \in Threads, pc[t] = "parent",
         NEW old, old = at[t], NEW new, new = fresh[t],
         NEW par, par = node[old].parent, par # INVALID_PAGE_ID,
         NEW x, x = ValueIndex(node[par], old)
  PROVE  HookPlace(g, t, old, new, par, x)
<1>1. /\ old \in pages[t] /\ new \in pages[t] /\ old # new
      /\ old \in Live /\ new \in Live /\ old \in DOMAIN node /\ new \in DOMAIN node
      /\ old \in PageIds /\ new \in PageIds
      /\ ParentHeld(t, old) /\ doomed[t] = {} /\ ~Hangs(old) /\ PageOK(g, old)
      /\ node[old].parent = node[new].parent /\ g[old].level = g[new].level
  <2>1. LinksPlace(g, t, old, new)
    BY Zenon, LinksFacts
  <2> QED BY <2>1 DEF LinksPlace
<1>2. par \in pages[t] /\ par \in Live /\ ~node[par].leaf /\ IsChild(old, par)
  BY <1>1 DEF ParentHeld, PageOK, HasParent
<1>3. par \in DOMAIN node /\ par \in PageIds /\ Size(node[par]) \in Nat
  BY Zenon, <1>2, NodeFacts DEF Live
<1>4. /\ x \in 1 .. Size(node[par]) /\ node[par].array[x].second = old /\ ChildOf(g, par, x)
      /\ \A i \in 1 .. Size(node[par]) : node[par].array[i].second = old => i = x
  BY <1>2, ChildPosition
<1>5. g[par].level = g[old].level + 1 /\ par # old /\ par # new
  <2>1. g[old].level + 1 = g[par].level /\ g[old].level \in Nat
    BY Zenon, <1>1, <1>4, GhostFacts DEF ChildOf
  <2> QED BY <1>1, <2>1
<1>6. PageOK(g, par) /\ Inner(g, par)
  BY <1>2 DEF Good, TreeOK, PageOK
<1>7. ~Busy(par, "parent") /\ ~Busy(par, "split") /\ ~Busy(par, "underflow")
  BY Zenon, <1>2, <1>5, BusyMine
<1>8. g[par].hi = g[par].cap /\ Size(node[par]) <= InternalMax /\ Low(node[par]) <= Size(node[par])
  BY <1>2, <1>6, <1>7 DEF PageOK, Placed, Sized, MaxSize
<1>9. ~Hangs(par)
  BY <1>2, <1>5, HangsMine
<1> QED BY <1>1, <1>2, <1>3, <1>4, <1>5, <1>6, <1>8, <1>9 DEF HookPlace

\* What stays as it is.
LEMMA HookedSame ==
  ASSUME NEW g \in Ghosts, Good(g), NEW t \in Threads, NEW old, NEW new, NEW par, NEW x, NEW a, NEW h,
         Hooked(g, h, t, old, new, par, x, a)
  PROVE  /\ Changes(t, {old, new, par}, g, h)
         /\ Live' = Live
<1>1. /\ pc[t] = "parent" /\ old = at[t] /\ new = fresh[t]
      /\ par = node[old].parent /\ par # INVALID_PAGE_ID /\ x = ValueIndex(node[par], old)
      /\ NewArray(par, a) /\ \A q \in PageIds \ {old} : h[q] = g[q]
      /\ h[old].lo = g[old].lo /\ h[old].hi = g[old].hi /\ h[old].level = g[old].level
      /\ UNCHANGED <<root_page_id, doomed, pages>>
  BY Zenon DEF Hooked
<1>2. /\ old \in pages[t] /\ new \in pages[t] /\ old # new
      /\ old \in Live /\ new \in Live /\ old \in PageIds /\ new \in PageIds /\ Exclusive(t)
  <2>1. LinksPlace(g, t, old, new)
    BY Zenon, <1>1, LinksFacts
  <2> QED BY <2>1 DEF LinksPlace
<1>3. /\ par \in pages[t] /\ par \in Live /\ par \in PageIds
      /\ par # old /\ par # new /\ node[new].parent = par
  <2>1. HookPlace(g, t, old, new, par, x)
    BY Zenon, <1>1, HookedFacts
  <2> QED BY <2>1 DEF HookPlace
<1>4. Live' = Live
  BY <1>1 DEF Live, Doomed, NewArray
<1>5. {old, new, par} \subseteq PageIds /\ {old, new, par} \subseteq Mine(t)
  BY Zenon, <1>2, <1>3 DEF Mine
<1>6. ASSUME NEW q \in DOMAIN node
      PROVE  /\ q \in DOMAIN node' /\ node'[q].leaf = node[q].leaf
             /\ node'[q].parent = node[q].parent /\ node'[q].next = node[q].next
             /\ q # par => node'[q].array = node[q].array
             /\ q # old => h[q] = g[q]
             /\ h[q].lo = g[q].lo /\ h[q].hi = g[q].hi /\ h[q].level = g[q].level
  <2>1. q \in PageIds
    BY NodeFacts
  <2> QED BY <1>1, <2>1 DEF NewArray
<1>7. INVALID_PAGE_ID \notin {old, new, par}
  BY <1>5 DEF PageIds, INVALID_PAGE_ID
<1>8. Changes(t, {old, new, par}, g, h)
  <2>1. Live \subseteq DOMAIN node
    BY DEF Live
  <2>2. \A c \in {old, new, par} : node[c].parent \in DOMAIN node \ {old, new, par} => c = par
    BY <1>1, <1>3
  <2>. PICK C : C = {old, new, par}
    OBVIOUS
  <2>3. /\ C \subseteq PageIds /\ C \subseteq Mine(t) /\ Live' \subseteq DOMAIN node /\ Live \subseteq DOMAIN node
        /\ at[t] \in C /\ fresh[t] \in C
    BY Zenon, <1>1, <1>4, <1>5, <2>1
  <2>4. \A q \in DOMAIN node \ C :
          /\ q \in DOMAIN node' /\ node'[q].leaf = node[q].leaf /\ node'[q].array = node[q].array
          /\ node'[q].next = node[q].next /\ h[q] = g[q] /\ node'[q].parent = node[q].parent
    BY Zenon, <1>6
  <2>5. INVALID_PAGE_ID \notin C
    BY Zenon, <1>7
  <2>6. \A c \in C \cap DOMAIN node :
          /\ c \in DOMAIN node' /\ node'[c].leaf = node[c].leaf /\ h[c].level = g[c].level
          /\ node'[c].parent = node[c].parent /\ h[c].lo = g[c].lo /\ h[c].hi = g[c].hi
          /\ c # old => h[c] = g[c]
    BY Zenon, <1>6
  <2>7. \A c \in C : node[c].parent \in DOMAIN node \ C => c # old
    BY Zenon, <1>3, <2>2
  <2>8. \A q \in DOMAIN node \ C :
          /\ q \in DOMAIN node' /\ (q \in Live' <=> q \in Live)
          /\ node'[q].leaf = node[q].leaf /\ node'[q].array = node[q].array
          /\ node'[q].next = node[q].next /\ h[q] = g[q]
          /\ node[q].parent \notin C \cap DOMAIN node => node'[q].parent = node[q].parent
          /\ node[q].parent \in C \cap DOMAIN node => node'[q].parent # INVALID_PAGE_ID
    BY Zenon, <1>4, <2>4, <2>5
  <2>9. \A c \in C \cap Live : node[c].parent \in DOMAIN node \ C =>
          /\ c \in Live' /\ node'[c].parent = node[c].parent
          /\ h[c].lo = g[c].lo /\ h[c].cap = g[c].cap
    BY Zenon, <1>4, <2>3, <2>6, <2>7
  <2>10. \A c \in C \cap Live : \A q \in Live \ C :
           node[q].leaf /\ node[c].leaf /\ node[q].next = c => c \in Live' /\ h[c].lo = g[c].lo
    BY Zenon, <1>4, <2>3, <2>6
  <2>11. \A c \in C \cap DOMAIN node :
           /\ c \in DOMAIN node' /\ node'[c].leaf = node[c].leaf /\ h[c].level = g[c].level
           /\ node'[c].parent = node[c].parent \/ Owns(t, c)
           /\ c \in Live => Owns(t, c) \/ (c \in Live' /\ h[c].lo = g[c].lo /\ h[c].hi = g[c].hi)
           /\ c \in Live => call[t].op = "Remove" \/ (c \in Live' /\ h[c].lo = g[c].lo)
    BY Zenon, <1>4, <2>6
  <2>12. /\ C \subseteq PageIds /\ C \cap DOMAIN node \subseteq Mine(t)
         /\ Live' \subseteq DOMAIN node \cup C /\ root_page_id' = root_page_id
    BY Zenon, <1>1, <2>3
  <2>13. Changes(t, C, g, h)
    BY Zenon, <2>3, <2>8, <2>9, <2>10, <2>11, <2>12 DEF Changes
  <2> QED BY Zenon, <2>13
<1> QED BY Zenon, <1>4, <1>8

\* The parent with its new entry.
LEMMA HookedParent ==
  ASSUME NEW g \in Ghosts, Good(g), NEW t \in Threads, NEW old, NEW new, NEW par, NEW x, NEW a, NEW h,
         Hooked(g, h, t, old, new, par, x, a), Sized(par)'
  PROVE  PageOK(h, par)'
<1>. PICK n, sz, k : n = node[par] /\ sz = Size(n) /\ k = g[new].lo
  BY Zenon
<1>1. /\ pc[t] = "parent" /\ old = at[t] /\ new = fresh[t]
      /\ par = node[old].parent /\ par # INVALID_PAGE_ID /\ x = ValueIndex(node[par], old)
      /\ NewArray(par, a) /\ Inserted(a, n.array, x + 1, Pair(k, new))
      /\ \A q \in PageIds \ {old} : h[q] = g[q]
      /\ h[old].lo = g[old].lo /\ h[old].hi = g[old].hi /\ h[old].cap = g[old].hi
      /\ h[old].level = g[old].level
      /\ UNCHANGED <<root_page_id, doomed, pages>>
  BY Zenon DEF Hooked
<1>2. /\ old # new /\ old \in Live /\ new \in Live /\ old \in PageIds /\ new \in PageIds
      /\ g[old].level = g[new].level /\ g[old].hi = k /\ k \in Nat
      /\ g[old].cap = g[new].hi /\ g[new].cap = g[new].hi
      /\ PageOK(g, old) /\ PageOK(g, new)
  <2>1. LinksPlace(g, t, old, new)
    BY Zenon, <1>1, LinksFacts
  <2> QED BY <2>1 DEF LinksPlace
<1>3. /\ par \in Live /\ par \in DOMAIN node /\ par \in PageIds
      /\ ~n.leaf /\ par # old /\ par # new /\ node[new].parent = par
      /\ g[par].level = g[old].level + 1 /\ g[par].hi = g[par].cap
      /\ sz \in Nat /\ x \in 1 .. sz
      /\ n.array[x].second = old /\ ChildOf(g, par, x)
      /\ Inner(g, par) /\ PageOK(g, par) /\ ~Hangs(par)
  <2>1. HookPlace(g, t, old, new, par, x)
    BY Zenon, <1>1, HookedFacts
  <2> QED BY <2>1 DEF HookPlace
<1>4. \A i \in 1 .. sz : n.array[i].second = old => i = x
  <2>1. HookPlace(g, t, old, new, par, x)
    BY Zenon, <1>1, HookedFacts
  <2> QED BY Zenon, <2>1 DEF HookPlace
<1>5. Live' = Live /\ Changes(t, {old, new, par}, g, h)
  BY HookedSame
<1>6. /\ node'[par].leaf = n.leaf /\ node'[par].array = a /\ node'[par].parent = n.parent
      /\ DOMAIN node' = DOMAIN node
      /\ \A q \in DOMAIN node \ {par} : node'[q] = node[q]
  BY Zenon, <1>1 DEF NewArray
<1>7. h[par] = g[par] /\ h[new] = g[new]
  BY Zenon, <1>1, <1>2, <1>3
<1>8. /\ Len(a) = sz + 1 /\ a[x + 1].first = k /\ a[x + 1].second = new
      /\ \A j \in 1 .. sz + 1 : /\ j < x + 1 => a[j] = n.array[j]
                                /\ j > x + 1 => a[j] = n.array[j - 1]
  <2>. PICK e : e = Pair(k, new)
    BY Zenon
  <2>1. Inserted(a, n.array, x + 1, e)
    BY Zenon, <1>1
  <2>2. e.first = k /\ e.second = new
    BY DEF Pair
  <2>3. sz = Len(n.array)
    BY Zenon DEF Size
  <2> QED BY Zenon, <2>1, <2>2, <2>3 DEF Inserted
<1>9. x \in Nat /\ 1 <= x /\ x <= sz
  BY <1>3
<1>10. Size(node[par])' = sz + 1
  BY <1>6, <1>8 DEF Size
<1>11. ASSUME NEW i \in 1 .. sz + 2
       PROVE  /\ i <= x => Edge(h, par, i)' = Edge(g, par, i)
              /\ i = x + 1 => Edge(h, par, i)' = k
              /\ i > x + 1 => Edge(h, par, i)' = Edge(g, par, i - 1)
  <2>1. CASE i = 1
    BY <1>7, <1>9, <2>1 DEF Edge
  <2>2. CASE i = sz + 2
    <3>1. i # 1 /\ i > x + 1 /\ i - 1 = sz + 1 /\ i - 1 # 1 /\ i = sz + 1 + 1
      BY <1>3, <1>9, <2>2
    <3>2. Edge(h, par, i)' = h[par].hi
      BY <1>10, <3>1 DEF Edge
    <3>3. Edge(g, par, i - 1) = g[par].hi
      BY <3>1 DEF Edge
    <3> QED BY <1>7, <1>9, <3>1, <3>2, <3>3
  <2>3. CASE i # 1 /\ i # sz + 2
    <3>1. i \in 1 .. sz + 1 /\ i # sz + 1 + 1
      BY <1>3, <2>3
    <3>2. Edge(h, par, i)' = a[i].first
      BY <1>6, <1>10, <2>3, <3>1 DEF Edge
    <3>3. CASE i <= x
      <4>1. i # sz + 1 /\ i < x + 1
        BY <1>3, <1>9, <3>1, <3>3
      <4> QED BY <1>8, <1>9, <2>3, <3>1, <3>2, <3>3, <4>1 DEF Edge
    <3>4. CASE i = x + 1
      BY <1>8, <1>9, <3>2, <3>4
    <3>5. CASE i > x + 1
      <4>1. i - 1 # 1 /\ i - 1 # sz + 1
        BY <1>3, <1>9, <2>3, <3>1, <3>5
      <4>2. a[i] = n.array[i - 1]
        BY <1>8, <3>1, <3>5
      <4>3. Edge(g, par, i - 1) = n.array[i - 1].first
        BY <4>1 DEF Edge
      <4> QED BY <1>9, <3>1, <3>2, <3>5, <4>2, <4>3
    <3> QED BY <1>9, <3>1, <3>3, <3>4, <3>5
  <2> QED BY <2>1, <2>2, <2>3
<1>12. /\ Edge(g, par, x) < k /\ k < Edge(g, par, x + 1)
       /\ g[old].lo = Edge(g, par, x) /\ g[old].cap = Edge(g, par, x + 1)
  <2>1. g[old].lo = Edge(g, par, x) /\ g[old].cap = Edge(g, par, x + 1)
    BY <1>3 DEF ChildOf
  <2>2. g[old].lo < g[old].hi /\ g[new].lo < g[new].hi
    BY <1>2 DEF PageOK, Placed
  <2> QED BY <1>2, <2>1, <2>2
<1>13. /\ \A i, j \in 1 .. sz + 1 : i < j => Edge(g, par, i) < Edge(g, par, j)
       /\ \A i \in 1 .. sz + 1 : Edge(g, par, i) \in Nat
  <2>1. \A i \in 1 .. sz + 1 : Edge(g, par, i) \in Nat
    BY <1>3, EdgeNat
  <2> QED BY <1>3, <2>1 DEF Inner
<1>14. ASSUME NEW i \in 1 .. sz + 2, NEW j \in 1 .. sz + 2, i < j
       PROVE  Edge(h, par, i)' < Edge(h, par, j)'
  <2>0. x \in 1 .. sz + 1 /\ x + 1 \in 1 .. sz + 1
    BY <1>3, <1>9
  <2>1. CASE j <= x
    <3>1. i <= x /\ i \in 1 .. sz + 1 /\ j \in 1 .. sz + 1
      BY <1>3, <1>9, <1>14, <2>1
    <3> QED BY <1>11, <1>13, <1>14, <2>1, <3>1
  <2>2. CASE j = x + 1
    <3>1. i <= x /\ i \in 1 .. sz + 1
      BY <1>3, <1>9, <1>14, <2>2
    <3>2. Edge(h, par, i)' = Edge(g, par, i) /\ Edge(h, par, j)' = k
      BY <1>11, <2>2, <3>1
    <3>3. i = x \/ Edge(g, par, i) < Edge(g, par, x)
      BY <1>9, <1>13, <2>0, <3>1
    <3>4. Edge(g, par, i) \in Nat /\ Edge(g, par, x) \in Nat
      BY <1>13, <2>0, <3>1
    <3> QED BY <1>2, <1>12, <3>2, <3>3, <3>4
  <2>3. CASE j > x + 1
    <3>. PICK l : l = j - 1
      OBVIOUS
    <3>1. l \in 1 .. sz + 1 /\ l >= x + 1
      BY <1>3, <1>9, <2>3
    <3>2. Edge(h, par, j)' = Edge(g, par, l)
      BY <1>11, <2>3
    <3>3. CASE i <= x
      <4>1. i \in 1 .. sz + 1 /\ i < l
        BY <1>3, <1>9, <3>1, <3>3
      <4> QED BY <1>11, <1>13, <3>1, <3>2, <3>3, <4>1
    <3>4. CASE i = x + 1
      <4>1. l = x + 1 \/ Edge(g, par, x + 1) < Edge(g, par, l)
        BY <1>9, <1>13, <2>0, <3>1
      <4>2. Edge(g, par, l) \in Nat /\ Edge(g, par, x + 1) \in Nat
        BY <1>13, <2>0, <3>1
      <4>3. Edge(h, par, i)' = k
        BY <1>11, <3>4
      <4> QED BY <1>2, <1>12, <3>2, <4>1, <4>2, <4>3
    <3>5. CASE i > x + 1
      <4>1. i - 1 \in 1 .. sz + 1 /\ i - 1 < l
        BY <1>3, <1>9, <1>14, <3>5
      <4>2. Edge(h, par, i)' = Edge(g, par, i - 1)
        BY Zenon, <1>11, <3>5
      <4> QED BY <1>13, <3>1, <3>2, <4>1, <4>2
    <3> QED BY <1>9, <3>3, <3>4, <3>5
  <2> QED BY <1>9, <2>1, <2>2, <2>3
<1>15. ASSUME NEW i \in 1 .. sz, i # x
       PROVE  LET c == n.array[i].second IN
              /\ c \in PageIds /\ c \in Live' /\ node'[c].parent = par /\ h[c].level + 1 = h[par].level
              /\ h[c].lo = Edge(g, par, i) /\ h[c].cap = Edge(g, par, i + 1)
  <2>. PICK c : c = n.array[i].second
    BY Zenon
  <2>1. /\ c \in PageIds /\ c \in Live /\ node[c].parent = par /\ g[c].level + 1 = g[par].level
        /\ g[c].lo = Edge(g, par, i) /\ g[c].cap = Edge(g, par, i + 1)
    BY <1>3 DEF Inner, ChildOf
  <2>2. c # old /\ c # par
    BY <1>3, <1>4, <1>15, <2>1, GhostFacts
  <2>3. h[c] = g[c] /\ node'[c] = node[c]
    BY Zenon, <1>1, <1>6, <2>1, <2>2 DEF Live
  <2> QED BY <1>5, <1>7, <2>1, <2>3
<1>16. ASSUME NEW i \in 1 .. sz + 1
       PROVE  a[i].second \in PageIds /\ ChildOf(h, par, i)'
  <2>0. i \in 1 .. sz + 2 /\ i + 1 \in 1 .. sz + 2 /\ node'[par].array[i] = a[i]
    BY <1>3, <1>6
  <2>1. CASE i < x
    <3>1. i \in 1 .. sz /\ i # x /\ i < x + 1 /\ i <= x /\ i + 1 <= x
      BY <1>3, <1>9, <2>1
    <3>2. a[i] = n.array[i]
      BY <1>8, <3>1
    <3>3. Edge(h, par, i)' = Edge(g, par, i) /\ Edge(h, par, i + 1)' = Edge(g, par, i + 1)
      BY <1>11, <2>0, <3>1
    <3> QED BY <1>15, <2>0, <3>1, <3>2, <3>3 DEF ChildOf
  <2>2. CASE i = x
    <3>1. a[i] = n.array[i]
      BY <1>8, <1>9, <2>2
    <3>2. Edge(h, par, i)' = Edge(g, par, x) /\ Edge(h, par, i + 1)' = k
      BY <1>9, <1>11, <2>0, <2>2
    <3>3. old \in Live' /\ node'[old].parent = par
      BY <1>1, <1>2, <1>3, <1>5, <1>6 DEF Live
    <3>4. h[old].level + 1 = h[par].level
      BY Zenon, <1>1, <1>3, <1>7
    <3>5. h[old].lo = Edge(g, par, x) /\ h[old].cap = k
      BY <1>1, <1>2, <1>12
    <3>6. node'[par].array[i].second = old /\ a[i].second \in PageIds
      BY <1>2, <1>3, <2>0, <2>2, <3>1
    <3> QED BY <3>2, <3>3, <3>4, <3>5, <3>6 DEF ChildOf
  <2>3. CASE i = x + 1
    <3>1. Edge(h, par, i)' = k /\ Edge(h, par, i + 1)' = Edge(g, par, x + 1)
      <4>1. i + 1 > x + 1 /\ (i + 1) - 1 = x + 1
        BY <1>9, <2>3
      <4> QED BY <1>11, <2>0, <2>3, <4>1
    <3>2. new \in Live' /\ node'[new].parent = par
      BY Zenon, <1>2, <1>3, <1>5, <1>6 DEF Live
    <3> QED BY <1>2, <1>3, <1>7, <1>8, <1>12, <2>0, <2>3, <3>1, <3>2 DEF ChildOf
  <2>4. CASE i > x + 1
    <3>. PICK l : l = i - 1
      OBVIOUS
    <3>1. l \in 1 .. sz /\ l # x /\ i > x + 1 /\ i + 1 > x + 1 /\ (i + 1) - 1 = l + 1
      BY <1>3, <1>9, <2>4
    <3>2. a[i] = n.array[l]
      BY <1>8, <2>4
    <3>3. Edge(h, par, i)' = Edge(g, par, l) /\ Edge(h, par, i + 1)' = Edge(g, par, l + 1)
      BY <1>11, <2>0, <3>1
    <3> QED BY <1>15, <2>0, <3>1, <3>2, <3>3 DEF ChildOf
  <2> QED BY <1>9, <2>1, <2>2, <2>3, <2>4
<1>17. Inner(h, par)'
  <2>1. g[par].lo # 0 => a[1].first = g[par].lo
    <3>1. 1 \in 1 .. sz + 1 /\ 1 < x + 1
      BY <1>3, <1>9
    <3>2. a[1] = n.array[1]
      BY <1>8, <3>1
    <3> QED BY <1>3, <3>2 DEF Inner
  <2>2. sz + 1 >= 1 /\ (sz + 1) + 1 = sz + 2
    BY <1>3
  <2> QED BY <1>6, <1>7, <1>10, <1>14, <1>16, <2>1, <2>2 DEF Inner
<1>18. Placed(h, par)'
  <2>1. Placed(g, par)
    BY <1>3 DEF PageOK
  <2> QED BY <1>3, <1>6, <1>7, <2>1 DEF Placed
<1>19. HasParent(par)'
  <2>. PICK q : q = n.parent
    OBVIOUS
  <2>1. HasParent(par) /\ node'[par].parent = q
    BY Zenon, <1>3, <1>6 DEF PageOK
  <2>2. CASE q = INVALID_PAGE_ID
    BY <1>1, <1>3, <2>1, <2>2 DEF HasParent
  <2>3. CASE q # INVALID_PAGE_ID
    <3>1. q \in Live /\ ~node[q].leaf /\ IsChild(par, q)
      BY <1>3, <2>1, <2>3 DEF HasParent
    <3>2. q # par
      <4>1. ChildOf(g, q, ValueIndex(node[q], par)) /\ node[q].array[ValueIndex(node[q], par)].second = par
        BY <3>1, ChildPosition
      <4>2. g[par].level + 1 = g[q].level
        BY <4>1 DEF ChildOf
      <4> QED BY <1>3, <4>2, GhostFacts
    <3>3. q \in Live' /\ node'[q] = node[q]
      BY <1>5, <1>6, <3>1, <3>2 DEF Live
    <3>4. IsChild(par, q)'
      BY <3>1, <3>3 DEF IsChild, Size
    <3> QED BY <2>1, <2>3, <3>1, <3>3, <3>4 DEF HasParent
  <2> QED BY <2>2, <2>3
<1> QED BY <1>3, <1>6, <1>17, <1>18, <1>19 DEF PageOK


\* The tree is in order once the parent has the new entry.
LEMMA HookedTree ==
  ASSUME NEW g \in Ghosts, Good(g), NEW t \in Threads, Apart(t), NEW old, NEW new, NEW par, NEW x, NEW a, NEW h,
         Hooked(g, h, t, old, new, par, x, a), Sized(par)'
  PROVE  TreeAfter({old, new, par}, h)
<1>1. /\ pc[t] = "parent" /\ old = at[t] /\ new = fresh[t]
      /\ par = node[old].parent /\ par # INVALID_PAGE_ID /\ x = ValueIndex(node[par], old)
      /\ NewArray(par, a) /\ Inserted(a, node[par].array, x + 1, Pair(g[new].lo, new))
      /\ \A q \in PageIds \ {old} : h[q] = g[q]
      /\ h[old].lo = g[old].lo /\ h[old].hi = g[old].hi /\ h[old].cap = g[old].hi
      /\ h[old].level = g[old].level
      /\ UNCHANGED <<root_page_id, doomed, pages>>
  BY Zenon DEF Hooked
<1>2. /\ old \in pages[t] /\ new \in pages[t] /\ old # new
      /\ old \in Live /\ new \in Live /\ old \in PageIds /\ new \in PageIds /\ Exclusive(t)
      /\ g[new].cap = g[new].hi
      /\ Half(node[old]) <= Size(node[old]) /\ Half(node[new]) <= Size(node[new])
      /\ Size(node[old]) <= MaxSize(node[old]) /\ Size(node[new]) <= MaxSize(node[new])
  <2>1. LinksPlace(g, t, old, new)
    BY Zenon, <1>1, LinksFacts
  <2> QED BY <2>1 DEF LinksPlace
<1>3. /\ par \in pages[t] /\ par \in Live /\ par \in PageIds
      /\ ~node[par].leaf /\ par # old /\ par # new /\ node[new].parent = par
      /\ x \in 1 .. Size(node[par]) /\ node[par].array[x].second = old
      /\ Size(node[par]) \in Nat
  <2>1. HookPlace(g, t, old, new, par, x)
    BY Zenon, <1>1, HookedFacts
  <2> QED BY <2>1 DEF HookPlace
<1>4. Live' = Live /\ Changes(t, {old, new, par}, g, h)
  BY HookedSame
<1>5. ASSUME NEW q \in Live
      PROVE  /\ q \in Live' /\ node'[q].leaf = node[q].leaf
             /\ node'[q].parent = node[q].parent /\ node'[q].next = node[q].next
             /\ q # par => node'[q].array = node[q].array
             /\ q # old => h[q] = g[q]
             /\ h[q].lo = g[q].lo /\ h[q].hi = g[q].hi /\ h[q].level = g[q].level
             /\ q \in PageIds
  <2>1. q \in DOMAIN node /\ q \in PageIds
    BY NodeFacts DEF Live
  <2> QED BY <1>1, <1>4, <2>1 DEF NewArray
<1>6. /\ node'[par].array = a /\ Size(node[par])' = Size(node[par]) + 1
      /\ a[x + 1].second = new
      /\ \A j \in 1 .. Size(node[par]) + 1 :
           /\ j < x + 1 => a[j] = node[par].array[j]
           /\ j > x + 1 => a[j] = node[par].array[j - 1]
  <2>1. node'[par].array = a
    BY Zenon, <1>1 DEF NewArray
  <2>2. /\ Len(a) = Size(node[par]) + 1 /\ a[x + 1] = Pair(g[new].lo, new)
        /\ \A j \in 1 .. Size(node[par]) + 1 :
             /\ j < x + 1 => a[j] = node[par].array[j]
             /\ j > x + 1 => a[j] = node[par].array[j - 1]
    BY <1>1 DEF Inserted, Size
  <2>3. a[x + 1].second = new
    BY <2>2 DEF Pair
  <2>4. Size(node[par])' = Len(a)
    BY <2>1 DEF Size
  <2> QED BY Zenon, <2>1, <2>2, <2>3, <2>4
<1>7. ASSUME NEW i \in 1 .. Size(node[par])
      PROVE  \E j \in 1 .. Size(node[par]) + 1 : a[j].second = node[par].array[i].second
  <2>1. CASE i <= x
    <3>1. i \in 1 .. Size(node[par]) + 1 /\ i < x + 1
      BY <1>3, <2>1
    <3>2. a[i] = node[par].array[i]
      BY <1>6, <3>1
    <3> QED BY <3>1, <3>2
  <2>2. CASE i > x
    <3>. PICK j : j = i + 1
      OBVIOUS
    <3>1. j \in 1 .. Size(node[par]) + 1 /\ j > x + 1 /\ j - 1 = i
      BY <1>3, <2>2
    <3>2. a[j] = node[par].array[i]
      BY <1>6, <3>1
    <3> QED BY <3>1, <3>2
  <2> QED BY <1>3, <2>1, <2>2
<1>8. IsChild(old, par)' /\ IsChild(new, par)'
  <2>1. \E j \in 1 .. Size(node[par]) + 1 : a[j].second = old
    BY <1>3, <1>7
  <2>2. x + 1 \in 1 .. Size(node[par]) + 1
    BY <1>3
  <2> QED BY <1>6, <2>1, <2>2 DEF IsChild
<1>9. ASSUME NEW q \in Live, q # new, NEW c \in {old, new, par}, node[q].parent = c
      PROVE  HasParent(q)'
  <2>1. c # INVALID_PAGE_ID /\ c \in Live /\ c \in PageIds /\ c \in Mine(t)
    BY <1>2, <1>3, <1>9 DEF PageIds, INVALID_PAGE_ID, Mine
  <2>2. ~Hangs(q)
    BY <1>1, <1>9, <2>1, HangsOwn
  <2>3. ~node[c].leaf /\ IsChild(q, c)
    BY <1>9, <2>1, <2>2 DEF Good, TreeOK, PageOK, HasParent
  <2>4. c \in Live' /\ ~node'[c].leaf /\ node'[q].parent = c
    BY <1>5, <1>9, <2>1, <2>3
  <2>5. IsChild(q, c)'
    <3>1. CASE c = par
      <4>1. PICK i \in 1 .. Size(node[par]) : node[par].array[i].second = q
        BY <2>3, <3>1 DEF IsChild
      <4>2. \E j \in 1 .. Size(node[par]) + 1 : a[j].second = q
        BY <1>7, <4>1
      <4> QED BY <1>6, <3>1, <4>2 DEF IsChild
    <3>2. CASE c # par
      <4>1. node'[c].array = node[c].array
        BY <1>5, <2>1, <3>2
      <4> QED BY <2>3, <4>1 DEF IsChild, Size
    <3> QED BY <3>1, <3>2
  <2> QED BY <2>1, <2>4, <2>5 DEF HasParent
<1>10. ASSUME NEW c \in {old, new} PROVE PageOK(h, c)'
  <2>1. c \in Live /\ c # par /\ h[c].cap = g[c].hi /\ node[c].parent = par
    <3>1. h[new] = g[new]
      BY Zenon, <1>2, <1>5
    <3> QED BY <1>1, <1>2, <1>3, <3>1
  <2>2. HasParent(c)'
    <3>1. node'[c].parent = par /\ par \in Live' /\ ~node'[par].leaf
      BY <1>3, <1>5, <2>1
    <3> QED BY <1>1, <1>8, <3>1 DEF HasParent
  <2>3. Sized(c)'
    <3>1. Half(node[c]) <= Size(node[c]) /\ Size(node[c]) <= MaxSize(node[c])
      BY <1>2
    <3>2. node'[c].leaf = node[c].leaf /\ node'[c].array = node[c].array /\ node'[c].parent = par
      BY Zenon, <1>5, <2>1
    <3>3. Low(node[c])' = Half(node[c])
      BY <1>1, <3>2 DEF Low, Half
    <3>4. Size(node[c])' = Size(node[c]) /\ MaxSize(node[c])' = MaxSize(node[c])
      BY <3>2 DEF Size, MaxSize
    <3> QED BY <3>1, <3>3, <3>4 DEF Sized
  <2>4. \A q \in Live : node[q].parent = c =>
          /\ q \in Live' /\ node'[q].parent = c
          /\ h[q].level = g[q].level /\ h[q].lo = g[q].lo /\ h[q].cap = g[q].cap
    <3>1. \A q \in Live : node[q].parent = c => q # old
      BY <1>1, <2>1
    <3> QED BY Zenon, <1>5, <3>1
  <2>5. node[c].leaf /\ node[c].next \in Live =>
          LET q == node[c].next IN q \in Live' /\ node'[q].leaf = node[q].leaf /\ h[q].lo = g[q].lo
    BY <1>5
  <2>6. /\ node'[c].leaf = node[c].leaf /\ node'[c].array = node[c].array /\ node'[c].next = node[c].next
        /\ h[c].lo = g[c].lo /\ h[c].hi = g[c].hi /\ h[c].level = g[c].level
    BY <1>5, <2>1
  <2> QED BY Zenon, <2>1, <2>2, <2>3, <2>4, <2>5, <2>6, PageStays
<1>11. PageOK(h, par)'
  BY Zenon, HookedParent
<1>12. Rooted(h)'
  <2>1. root_page_id # INVALID_PAGE_ID /\ root_page_id \in Live
        /\ node[root_page_id].parent = INVALID_PAGE_ID
    BY Zenon, <1>2 DEF Good, TreeOK, Rooted
  <2>2. root_page_id # old
    BY <1>1, <2>1
  <2>3. /\ root_page_id \in Live' /\ node'[root_page_id].parent = node[root_page_id].parent
        /\ h[root_page_id] = g[root_page_id]
    BY <1>5, <2>1, <2>2
  <2>4. \A c \in {old, new, par} : c \in Live' => \E q \in Live : h[c].level = g[q].level
    BY <1>2, <1>3, <1>5
  <2> QED BY <1>1, <1>4, <2>1, <2>3, <2>4, RootedKept
<1>13. ASSUME NEW c \in {old, new, par}, NEW q \in Live', c # q, h[c].level = h[q].level
       PROVE  h[c].hi <= h[q].lo \/ h[q].hi <= h[c].lo
  <2>1. c \in Live /\ q \in Live
    BY <1>2, <1>3, <1>4
  <2>2. g[c].hi <= g[q].lo \/ g[q].hi <= g[c].lo
    BY <1>5, <1>13, <2>1 DEF Good, TreeOK, Disjoint
  <2> QED BY <1>5, <2>1, <2>2
<1> QED BY Zenon, <1>9, <1>10, <1>11, <1>12, <1>13 DEF TreeAfter

\* InsertIntoParent of another node.
LEMMA InsertIntoParentKeeps ==
  ASSUME NEW g \in Ghosts, Good(g), NEW t \in Threads, InsertIntoParent(t)
  PROVE  \E h \in Ghosts : Good(h)' /\ Frame(t, g, h)
<1>. PICK old, new : old = at[t] /\ new = fresh[t]
  OBVIOUS
<1>. PICK par : par = node[old].parent
  OBVIOUS
<1>. PICK n : n = node[par]
  OBVIOUS
<1>. PICK x, point : x = ValueIndex(n, old) /\ point = IF Size(n) + 1 > MaxSize(n) THEN "split" ELSE "free"
  OBVIOUS
<1>. PICK k, e : k = g[new].lo /\ e = Pair(k, new)
  OBVIOUS
<1>. PICK a : a = InsertAt(n.array, x + 1, e)
  BY Zenon
<1>1. /\ pc[t] = "parent" /\ Acts(t) /\ TypeOK /\ PointOf(t) /\ ThreadOK(g, t)
      /\ par # INVALID_PAGE_ID
      /\ at' = [at EXCEPT ![t] = par] /\ pc' = [pc EXCEPT ![t] = point]
      /\ UNCHANGED <<root_page_id, header, rootLock, latch, call, target, pages, doomed, fresh, answer>>
      /\ node' = [node EXCEPT ![new].parent = par,
                              ![par].array = InsertAt(@, x + 1, Pair(node[new].array[1].first, new))]
  BY Zenon DEF InsertIntoParent, At, GoTo, Good, Acts, Step, ThreadOK, lockVars, AfterOld
<1>2. /\ old \in PageIds /\ new \in PageIds /\ old # new /\ Exclusive(t) /\ call[t].op = "Insert"
      /\ old \in pages[t] /\ new \in pages[t]
      /\ new \in DOMAIN node /\ doomed[t] = {} /\ node[new].array[1].first = k /\ k \in Nat
  <2>1. LinksPlace(g, t, old, new)
    BY Zenon, <1>1, LinksFacts
  <2> QED BY <2>1 DEF LinksPlace
<1>3. /\ par \in pages[t] /\ par \in Live /\ par \in DOMAIN node /\ par \in PageIds
      /\ ~n.leaf /\ par # old /\ par # new /\ node[new].parent = par
      /\ Size(n) \in Nat /\ x \in 1 .. Size(n)
      /\ Size(n) <= InternalMax /\ Low(n) <= Size(n)
  <2>1. HookPlace(g, t, old, new, par, x)
    BY Zenon, <1>1, HookedFacts
  <2> QED BY <2>1 DEF HookPlace
<1>4. e \in Entry(PageIds)
  BY <1>2 DEF Entry, Pair
<1>5. n \in Node /\ n.array \in Seq(Entry(Values) \cup Entry(PageIds))
  BY Zenon, <1>3, NodeFacts
<1>6. a \in Seq(Entry(Values) \cup Entry(PageIds)) /\ Inserted(a, n.array, x + 1, e)
  <2>1. x + 1 \in 1 .. Len(n.array) + 1
    BY <1>3 DEF Size
  <2> QED BY <1>4, <1>5, <2>1, InsertAtIs
<1>7. NewArray(par, a) /\ node'[par] \in Node
  <2>1. node[new] \in Node
    BY <1>2, NodeFacts
  <2>2. [node[new] EXCEPT !.parent = par] = node[new]
    BY Zenon, <1>3, <2>1 DEF Node
  <2>3. node'[new] = node[new] /\ node'[par] = [n EXCEPT !.array = a]
        /\ DOMAIN node' = DOMAIN node /\ \A q \in DOMAIN node \ {par, new} : node'[q] = node[q]
    BY <1>1, <1>2, <1>3, <2>2
  <2>4. /\ node'[par] \in Node /\ node'[par].leaf = n.leaf /\ node'[par].array = a
        /\ node'[par].parent = n.parent /\ node'[par].next = n.next
    BY Zenon, <1>5, <1>6, <2>3 DEF Node
  <2> QED BY Zenon, <1>2, <2>3, <2>4 DEF NewArray
<1>8. PICK h \in Ghosts : /\ \A q \in PageIds \ {old} : h[q] = g[q]
                          /\ h[old].lo = g[old].lo /\ h[old].hi = g[old].hi /\ h[old].cap = g[old].hi
                          /\ h[old].level = g[old].level
  <2>. PICK l : l = [lo |-> g[old].lo, hi |-> g[old].hi, cap |-> g[old].hi, level |-> g[old].level]
    OBVIOUS
  <2>. PICK h : h = [g EXCEPT ![old] = l]
    OBVIOUS
  <2>1. g[old].lo \in Nat /\ g[old].hi \in Nat /\ g[old].level \in Nat
    BY Zenon, <1>2, GhostFacts
  <2>2. l \in Bounds
    BY Zenon, <2>1 DEF Bounds
  <2>3. h \in Ghosts /\ h[old] = l /\ \A q \in PageIds \ {old} : h[q] = g[q]
    BY Zenon, <1>2, <2>2 DEF Ghosts
  <2>4. /\ l.lo = g[old].lo /\ l.hi = g[old].hi /\ l.cap = g[old].hi /\ l.level = g[old].level
    OBVIOUS
  <2> QED BY Zenon, <2>3, <2>4
<1>9. Hooked(g, h, t, old, new, par, x, a)
  BY Zenon, <1>1, <1>6, <1>7, <1>8 DEF Hooked
<1>10. pc'[t] = point /\ at'[t] = par
  BY Zenon, <1>1 DEF TypeOK
<1>11. Size(node[par])' = Size(n) + 1 /\ MaxSize(node[par])' = InternalMax /\ MaxSize(n) = InternalMax
       /\ Low(node[par])' = Low(n) /\ Low(n) \in Nat
  <2>1. Len(a) = Size(n) + 1
    BY Zenon, <1>6 DEF Inserted, Size
  <2> QED BY <1>3, <1>7, <2>1, TreeAssumption DEF NewArray, Size, MaxSize, Low
<1>12. Sized(par)'
  <2>1. Low(node[par])' <= Size(node[par])'
    BY <1>3, <1>11
  <2>2. point = "split" => Busy(par, "split")'
    BY Zenon, <1>10 DEF Busy
  <2>3. point # "split" => Size(node[par])' <= MaxSize(node[par])'
    BY <1>3, <1>11, TreeAssumption
  <2> QED BY Zenon, <2>1, <2>2, <2>3 DEF Sized
<1>13. Apart(t)
  BY Zenon, <1>1, ApartIs
<1>14. Changes(t, {old, new, par}, g, h)
  BY Zenon, <1>9, HookedSame
<1>15. TreeAfter({old, new, par}, h)
  BY Zenon, <1>9, <1>12, <1>13, HookedTree
<1>16. TypeOK'
  <2>1. /\ pc' \in [Threads -> Points] /\ at' \in [Threads -> PageIds \cup {INVALID_PAGE_ID}]
    BY Zenon, <1>1, <1>3 DEF TypeOK, Points
  <2>2. DOMAIN node' \subseteq PageIds /\ \A q \in DOMAIN node' : node'[q] \in Node
    BY Zenon, <1>1, <1>7 DEF TypeOK, NewArray
  <2>3. /\ UNCHANGED <<root_page_id, header, rootLock, latch, call, target, pages, doomed, fresh, answer>>
        /\ TypeOK
    BY Zenon, <1>1
  <2> QED BY <2>1, <2>2, <2>3 DEF TypeOK
<1>17. PointOf(t)'
  <2>1. pages[t] \subseteq DOMAIN node /\ DOMAIN node' = DOMAIN node
    BY Zenon, <1>1, <1>7 DEF PointOf, NewArray
  <2>2. /\ pages' = pages /\ doomed' = doomed /\ call' = call /\ pc[t] = "parent" /\ PointOf(t)
        /\ pc'[t] \in {"split", "free"}
    BY Zenon, <1>1, <1>10
  <2>3. \A q \in doomed[t] : FALSE
    BY Zenon, <1>2
  <2> QED BY <1>2, <2>1, <2>2, <2>3 DEF PointOf, Exclusive
<1>18. ThreadOK(h, t)'
  <2>1. CASE point = "free"
    BY Zenon, <1>10, <1>17, <2>1, OwnSimple
  <2>2. CASE point = "split"
    <3>1. Size(n) = InternalMax /\ ~IsSafe(n, "Insert")
      BY <1>3, <1>11, <2>2, TreeAssumption DEF IsSafe
    <3>2. Keeps(g, t)
      BY Zenon, <1>1 DEF ThreadOK
    <3>3. ParentHeld(t, par)
      BY <1>1, <1>2, <1>3, <3>1, <3>2 DEF Keeps
    <3>4. ASSUME NEW q \in pages[t] PROVE ParentHeld(t, q)' \/ IsSafe(node[q], call[t].op)'
      <4>1. ParentHeld(t, q) \/ (IsSafe(node[q], call[t].op) /\ q # par)
        BY Zenon, <1>1, <1>2, <3>2, <3>3 DEF Keeps
      <4>2. /\ ParentHeld(t, q)' <=> ParentHeld(t, q)
            /\ q # par => (IsSafe(node[q], call[t].op)' <=> IsSafe(node[q], call[t].op))
        BY Zenon, <1>1, <1>3, <1>7, KeepsNewArray DEF PointOf
      <4> QED BY Zenon, <4>1, <4>2
    <3>5. ParentHeld(t, par)'
      BY <1>1, <1>3, <1>7, <3>3, KeepsNewArray DEF PointOf
    <3>6. Keeps(h, t)'
      BY Zenon, <1>1, <1>10, <2>2, <3>4 DEF Keeps
    <3>7. Climbs(h, t)'
      BY Zenon, <1>1, <1>2, <1>3, <1>10, <3>5 DEF Climbs
    <3>8. Splits(t)'
      BY Zenon, <1>10, <1>11, <3>1 DEF Splits
    <3> QED BY Zenon, <1>10, <1>17, <2>2, <3>6, <3>7, <3>8
            DEF ThreadOK, Descends, InLeaf, Walks, Links, Shrinks, Levels
  <2> QED BY Zenon, <2>1, <2>2
<1>19. LatchesOK(t)
  BY Zenon, <1>1, NoWaits, LatchesSame DEF Exclusive
<1>20. HeaderOK'
  BY Zenon, <1>1 DEF Good, HeaderOK
<1>21. Good(h)'
  BY <1>1, <1>2, <1>13, <1>14, <1>15, <1>16, <1>18, <1>19, <1>20, ChangesStep
<1>22. Frame(t, g, h)
  BY Zenon, <1>2, <1>14, ChangesFrame
<1> QED BY <1>21, <1>22

=============================================================================
