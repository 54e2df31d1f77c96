--------------------------- MODULE BPlusTreeProofs ---------------------------
(***************************************************************************)
(* The B+ tree keeps its shape, its latches and its header record: that    *)
(* removals keep the invariant of BPlusTreeInvariant too, and what follows *)
(* from it.  Between calls the pages form a balanced search tree; its      *)
(* calls act on a map, each at one instant (IndexMap); its scans are in    *)
(* order.                                                                  *)
(***************************************************************************)
EXTENDS BPlusTreeInvariant

-----------------------------------------------------------------------------
(* The root. *)

\* A root that a removal has left too small.
LEMMA SmallRoot ==
  ASSUME NEW g \in Ghosts, Good(g), NEW t \in Threads, pc[t] = "underflow",
         NEW p, p = at[t], node[p].parent = INVALID_PAGE_ID
  PROVE  /\ p \in pages[t] /\ p \notin doomed[t] /\ p \in Live /\ p \in DOMAIN node /\ p \in PageIds
         /\ p = root_page_id /\ HoldsRoot(t) /\ Exclusive(t) /\ call[t].op = "Remove"
         /\ g[p].lo = 0 /\ g[p].hi = Top /\ g[p].cap = Top
         /\ \A q \in Live : q = p \/ g[q].level < g[p].level
         /\ node[p].leaf => Size(node[p]) = 0
         /\ ~node[p].leaf =>
              /\ Size(node[p]) \in {1, 2}
              /\ \E c \in pages[t] : IsChild(c, p)
<1>1. ThreadOK(g, t)
  BY DEF Good
<1>2. /\ p \in pages[t] /\ p \notin doomed[t] /\ HoldsRoot(t)
      /\ call[t].op = "Remove" /\ Exclusive(t)
  BY <1>1 DEF ThreadOK, Climbs, ParentHeld, PointOf, Exclusive
<1>3. p \in Live
  BY <1>2, LiveMine
<1>4. p \in DOMAIN node /\ p \in PageIds /\ Size(node[p]) \in Nat
  BY <1>3, NodeFacts DEF Live
<1>5. ~Hangs(p) /\ ~Busy(p, "parent")
  BY <1>2, BusyMine, HangsMine
<1>6. PageOK(g, p)
  BY <1>3 DEF Good, TreeOK
<1>7. p = root_page_id
  BY <1>5, <1>6 DEF PageOK, HasParent
<1>8. g[p].lo = 0 /\ g[p].cap = Top /\ \A q \in Live : g[q].level <= g[p].level
  BY <1>3, <1>4, <1>7 DEF Good, TreeOK, Rooted, PageIds, INVALID_PAGE_ID
<1>9. g[p].hi = Top
  BY <1>5, <1>6, <1>8 DEF PageOK, Placed
<1>10. ASSUME NEW q \in Live, q # p PROVE g[q].level < g[p].level
  <2>1. q \in PageIds
    BY NodeFacts DEF Live
  <2>2. g[q].lo \in Nat /\ g[q].hi \in Nat /\ g[q].level \in Nat /\ g[p].level \in Nat /\ g[q].cap \in Nat
    BY <1>4, <2>1, GhostFacts
  <2>3. g[q].lo < g[q].hi /\ g[q].hi <= g[q].cap /\ g[q].cap <= Top
    BY DEF Good, TreeOK, PageOK, Placed
  <2>4. ASSUME g[q].level = g[p].level PROVE FALSE
    <3>1. g[q].hi <= g[p].lo \/ g[p].hi <= g[q].lo
      BY <1>3, <1>10, <2>4 DEF Good, TreeOK, Disjoint
    <3> QED BY <1>8, <1>9, <2>2, <2>3, <3>1, TopAbove
  <2> QED BY <1>8, <2>2, <2>4
<1>11. node[p].leaf => Size(node[p]) = 0
  <2>1. node[p].leaf => Size(node[p]) + 1 = 1
    BY <1>1 DEF ThreadOK, Shrinks, MinSize
  <2> QED BY <1>4, <2>1
<1>12. ASSUME ~node[p].leaf
       PROVE  Size(node[p]) \in {1, 2} /\ \E c \in pages[t] : IsChild(c, p)
  <2>1. Size(node[p]) <= 2 /\ 2 <= Size(node[p]) + 1 /\ \E c \in pages[t] : IsChild(c, p)
    BY <1>1, <1>12 DEF ThreadOK, Shrinks, MinSize, Low
  <2> QED BY <1>4, <2>1
<1> QED BY <1>2, <1>3, <1>4, <1>7, <1>8, <1>9, <1>10, <1>11, <1>12

\* The thread and the locks after AdjustRoot.
LEMMA AdjustRootOwn ==
  ASSUME NEW g \in Ghosts, Good(g), NEW t \in Threads, AdjustRoot(t),
         NEW p, p = at[t], NEW C, p \in C, DOMAIN node' = DOMAIN node,
         \A q \in DOMAIN node' : node'[q] \in Node,
         root_page_id' \in PageIds \cup {INVALID_PAGE_ID},
         \/ UNCHANGED <<root_page_id, header>>
         \/ header' = RecordUpdated(root_page_id'),
         \/ doomed' = doomed
         \/ doomed' = [doomed EXCEPT ![t] = @ \cup {p}] /\ node'[p].array = <<>>,
         \A q \in doomed[t] : node'[q].array = node[q].array,
         Changes(t, C, g, g), TreeAfter(C, g)
  PROVE  Good(g)'
<1>1. /\ pc[t] = "underflow" /\ node[p].parent = INVALID_PAGE_ID /\ Acts(t) /\ TypeOK /\ PointOf(t)
      /\ pc' = [pc EXCEPT ![t] = "free"]
      /\ UNCHANGED <<rootLock, latch, call, target, pages, at, fresh, answer>>
  BY DEF AdjustRoot, At, GoTo, Good, Acts, Step, ThreadOK, lockVars
<1>2. p \in pages[t] /\ p \in PageIds /\ p = root_page_id /\ Exclusive(t) /\ call[t].op = "Remove"
  BY <1>1, SmallRoot
<1>3. pc'[t] = "free"
  BY <1>1 DEF TypeOK
<1>4. TypeOK'
  <2>1. header' \in PageIds \cup {INVALID_PAGE_ID, NoRecord}
    BY <1>1 DEF RecordUpdated, TypeOK
  <2>2. pc' \in [Threads -> Points] /\ doomed' \in [Threads -> SUBSET PageIds]
    BY <1>1, <1>2 DEF TypeOK, Points
  <2>3. DOMAIN node' \subseteq PageIds
    BY <1>1 DEF TypeOK
  <2> QED BY <1>1, <2>1, <2>2, <2>3 DEF TypeOK
<1>5. PointOf(t)'
  <2>1. /\ pages'[t] = pages[t] /\ call'[t] = call[t] /\ pages'[t] \subseteq DOMAIN node'
        /\ doomed'[t] \subseteq doomed[t] \cup {p}
        /\ p \in doomed'[t] \ doomed[t] => node'[p].array = <<>>
    BY <1>1 DEF PointOf, TypeOK
  <2>2. doomed'[t] \subseteq pages'[t] /\ \A q \in doomed'[t] : node'[q].array = <<>>
    BY <1>1, <1>2, <2>1 DEF PointOf
  <2> QED BY <1>1, <1>2, <1>3, <2>1, <2>2 DEF PointOf, Exclusive
<1>6. ThreadOK(g, t)'
  BY <1>3, <1>5, OwnSimple
<1>7. LatchesOK(t)
  <2>1. \A q : ~Waits(t, q)
    BY <1>1 DEF Waits
  <2> QED BY <1>1, <2>1, LatchesSame DEF Exclusive
<1>8. HeaderOK'
  <2>1. header # NoRecord
    BY <1>2 DEF Good, HeaderOK, PageIds, INVALID_PAGE_ID, NoRecord
  <2> QED BY <2>1 DEF Good, RecordUpdated, HeaderOK
<1>9. Apart(t)
  BY <1>1, ApartIs
<1> QED BY <1>1, <1>2, <1>4, <1>6, <1>7, <1>8, <1>9, ChangesStep

\* AdjustRoot.
LEMMA AdjustRootKeeps ==
  ASSUME NEW g \in Ghosts, Good(g), NEW t \in Threads, AdjustRoot(t)
  PROVE  Good(g)'
<1>. PICK p, n : p = at[t] /\ n = node[p]
  OBVIOUS
<1>1. /\ pc[t] = "underflow" /\ n.parent = INVALID_PAGE_ID /\ TypeOK /\ PointOf(t)
      /\ pc' = [pc EXCEPT ![t] = "free"]
      /\ UNCHANGED <<rootLock, latch, call, target, pages, at, fresh, answer>>
  BY DEF AdjustRoot, At, GoTo, Good, ThreadOK, lockVars
<1>2. /\ p \in pages[t] /\ p \notin doomed[t] /\ p \in Live /\ p \in DOMAIN node /\ p \in PageIds
      /\ p = root_page_id /\ HoldsRoot(t) /\ Exclusive(t) /\ call[t].op = "Remove"
      /\ g[p].lo = 0 /\ g[p].hi = Top /\ g[p].cap = Top
      /\ n.leaf => Size(n) = 0
      /\ ~n.leaf => Size(n) \in {1, 2} /\ \E c \in pages[t] : IsChild(c, p)
  BY <1>1, SmallRoot
<1>3. \A q \in Live : q = p \/ g[q].level < g[p].level
  BY <1>1, SmallRoot
<1>4. n \in Node /\ p \in Mine(t) /\ Owns(t, p) /\ p # INVALID_PAGE_ID /\ pc'[t] = "free"
  <2>1. n \in Node
    BY <1>2, NodeFacts
  <2>2. p # INVALID_PAGE_ID
    BY <1>2 DEF PageIds, INVALID_PAGE_ID
  <2> QED BY <1>1, <1>2, <2>1, <2>2 DEF Mine, Owns, TypeOK
<1>5. Local(t) /\ Apart(t)
  BY <1>1, ApartIs, StepsLocal DEF Acts, Step
<1>6. Live \subseteq DOMAIN node /\ \A q \in Live : g[q].level \in Nat /\ q \in PageIds
  BY NodeFacts, GhostFacts DEF Live
<1>7. INVALID_PAGE_ID \notin DOMAIN node /\ \A q \in DOMAIN node : node[q] \in Node
  <2>1. DOMAIN node \subseteq PageIds
    BY Zenon, <1>1 DEF TypeOK
  <2> QED BY <1>1, <2>1 DEF TypeOK, PageIds, INVALID_PAGE_ID
<1>8. CASE n.leaf
  <2>1. /\ root_page_id' = INVALID_PAGE_ID /\ header' = RecordUpdated(INVALID_PAGE_ID)
        /\ node' = Adopt([node EXCEPT ![p].array = <<>>], n, INVALID_PAGE_ID)
        /\ doomed' = [doomed EXCEPT ![t] = @ \cup {p}]
    BY <1>8 DEF AdjustRoot
  <2>2. Children(n) = {}
    BY <1>8 DEF Children
  <2>13. PICK s : s = [node EXCEPT ![p].array = <<>>]
    OBVIOUS
  <2>3. /\ DOMAIN node' = DOMAIN node /\ \A q \in DOMAIN node \ {p} : node'[q] = node[q]
        /\ node'[p] = [n EXCEPT !.array = <<>>]
    <3>1. DOMAIN s = DOMAIN node /\ s[p] = [n EXCEPT !.array = <<>>]
          /\ \A q \in DOMAIN node \ {p} : s[q] = node[q]
      BY <1>2, <2>13
    <3>2. DOMAIN node' = DOMAIN s /\ \A q \in DOMAIN s : node'[q] = s[q]
      BY <2>1, <2>2, <2>13 DEF Adopt
    <3> QED BY <1>2, <3>1, <3>2
  <2>4. /\ node'[p] \in Node /\ node'[p].leaf = n.leaf /\ node'[p].array = <<>>
        /\ node'[p].parent = n.parent /\ node'[p].next = n.next
    <3>1. <<>> \in Seq(Entry(Values) \cup Entry(PageIds))
      OBVIOUS
    <3> QED BY <1>4, <2>3, <3>1 DEF Node
  <2>5. \A q \in Live : q = p
    <3>1. g[p].level = 0
      BY <1>2, <1>8 DEF Good, TreeOK, PageOK, Placed
    <3> QED BY <1>3, <1>6, <3>1
  <2>6. Live' = {}
    <3>1. Doomed' = Doomed \cup {p}
      BY <1>1, <2>1 DEF Doomed, TypeOK
    <3>2. \A q \in DOMAIN node' : q \in Doomed'
      BY <2>3, <2>5, <3>1 DEF Live
    <3> QED BY <3>2 DEF Live
  <2>7. Changes(t, {p}, g, g)
    <3>1. \A q \in DOMAIN node \ {p} : q \notin Live /\ q \notin Live'
      BY <2>5, <2>6
    <3>2. \A q \in DOMAIN node \ {p} : node[q].parent = p => node'[q].parent # INVALID_PAGE_ID
      BY <1>4, <2>3
    <3>3. Live \ {p} = {}
      BY <2>5
    <3> QED BY <1>1, <1>2, <1>4, <1>7, <2>3, <2>4, <2>6, <3>1, <3>2, <3>3 DEF Changes
  <2>8. TreeAfter({p}, g)
    BY <2>1, <2>5, <2>6 DEF TreeAfter, Rooted
  <2>9. \A q \in DOMAIN node' : node'[q] \in Node
    BY <1>7, <2>3, <2>4
  <2>10. \A q \in doomed[t] : node'[q].array = node[q].array
    BY <1>1, <1>2, <2>3 DEF PointOf
  <2>11. root_page_id' \in PageIds \cup {INVALID_PAGE_ID} /\ header' = RecordUpdated(root_page_id')
    BY <2>1 DEF RecordUpdated
  <2> QED BY <2>1, <2>3, <2>4, <2>7, <2>8, <2>9, <2>10, <2>11, AdjustRootOwn
<1>9. CASE ~n.leaf /\ Size(n) = 1
  <2>. PICK c : c = n.array[1].second
    BY Zenon
  <2>1. /\ root_page_id' = c /\ header' = RecordUpdated(c)
        /\ node' = Adopt([node EXCEPT ![p].array = <<>>], n, INVALID_PAGE_ID)
        /\ doomed' = [doomed EXCEPT ![t] = @ \cup {p}]
    BY <1>9 DEF AdjustRoot
  <2>2. Children(n) = {c} /\ \A q : IsChild(q, p) => q = c
    <3>1. \A i \in 1 .. 1 : i = 1
      OBVIOUS
    <3>2. 1 \in 1 .. 1
      OBVIOUS
    <3> QED BY <1>9, <3>1, <3>2 DEF Children, IsChild
  <2>3. c \in pages[t]
    BY <1>2, <1>9, <2>2
  <2>4. /\ c \in Live /\ c \in DOMAIN node /\ c \in PageIds /\ node[c].parent = p
        /\ g[c].level + 1 = g[p].level /\ g[c].lo = 0 /\ g[c].cap = Top /\ c # p /\ PageOK(g, c)
    <3>1. ChildOf(g, p, 1)
      BY <1>2, <1>9 DEF Good, TreeOK, PageOK, Inner
    <3>2. Edge(g, p, 1) = g[p].lo /\ Edge(g, p, 2) = g[p].hi
      BY <1>9 DEF Edge
    <3>3. c \in Live /\ node[c].parent = p /\ g[c].level + 1 = g[p].level
          /\ g[c].lo = Edge(g, p, 1) /\ g[c].cap = Edge(g, p, 1 + 1)
      BY Zenon, <3>1 DEF ChildOf
    <3>4. c \in PageIds /\ c \in DOMAIN node /\ g[c].level \in Nat
      BY Zenon, <1>6, <3>3
    <3>5. PageOK(g, c)
      BY Zenon, <3>3 DEF Good, TreeOK
    <3> QED BY <1>2, <3>2, <3>3, <3>4, <3>5
  <2>5. ~Busy(c, "parent") /\ ~Busy(c, "underflow") /\ ~Busy(c, "split")
    BY Zenon, <1>1, <2>3, <2>4, BusyMine
  <2>6. g[c].hi = g[c].cap
    BY <2>4, <2>5 DEF PageOK, Placed
  <2>20. PICK s : s = [node EXCEPT ![p].array = <<>>]
    BY Zenon
  <2>7. /\ DOMAIN node' = DOMAIN node /\ \A q \in DOMAIN node \ {p, c} : node'[q] = node[q]
        /\ node'[p] \in Node /\ node'[p].leaf = n.leaf /\ node'[p].array = <<>>
        /\ node'[p].parent = INVALID_PAGE_ID /\ node'[p].next = n.next
        /\ node'[c] \in Node /\ node'[c].leaf = node[c].leaf /\ node'[c].array = node[c].array
        /\ node'[c].parent = INVALID_PAGE_ID /\ node'[c].next = node[c].next
    <3>1. DOMAIN s = DOMAIN node /\ s[p] = [n EXCEPT !.array = <<>>]
          /\ \A q \in DOMAIN node \ {p} : s[q] = node[q]
      BY <1>2, <2>20
    <3>2. s[p] \in Node /\ s[p].leaf = n.leaf /\ s[p].array = <<>>
          /\ s[p].parent = n.parent /\ s[p].next = n.next
      <4>1. <<>> \in Seq(Entry(Values) \cup Entry(PageIds))
        OBVIOUS
      <4> QED BY <1>4, <3>1, <4>1 DEF Node
    <3>3. node' = Adopt(s, n, INVALID_PAGE_ID)
      BY <2>1, <2>20
    <3>4. DOMAIN node' = DOMAIN s
      BY <3>3, AdoptDomain
    <3>5. ASSUME NEW q \in DOMAIN s PROVE AdoptedAt(node', s, n, INVALID_PAGE_ID, q)
      <4>1. s[q] \in Node
        BY <1>7, <3>1, <3>2
      <4>2. INVALID_PAGE_ID \in PageIds \cup {INVALID_PAGE_ID}
        OBVIOUS
      <4>3. AdoptedAt(Adopt(s, n, INVALID_PAGE_ID), s, n, INVALID_PAGE_ID, q)
        BY Zenon, <4>1, <4>2, AdoptIs
      <4> QED BY <3>3, <4>3
    <3>6. node'[p] = s[p]
      BY Zenon, <1>2, <2>2, <2>4, <3>1, <3>5 DEF AdoptedAt
    <3>7. AdoptedAt(node', s, n, INVALID_PAGE_ID, c) /\ s[c] = node[c] /\ c \in Children(n)
      BY <2>2, <2>4, <3>1, <3>5
    <3>8. \A q \in DOMAIN node \ {p, c} : node'[q] = node[q]
      BY <2>2, <3>1, <3>5 DEF AdoptedAt
    <3> QED BY Zenon, <1>1, <3>1, <3>2, <3>4, <3>6, <3>7, <3>8 DEF AdoptedAt
  <2>8. Live' = Live \ {p}
    <3>1. Doomed' = Doomed \cup {p}
      BY <1>1, <2>1 DEF Doomed, TypeOK
    <3> QED BY <2>7, <3>1 DEF Live
  <2>9. Owns(t, c)
    BY Zenon, <1>2, <1>4, <2>4 DEF Owns
  <2>10. Changes(t, {p, c}, g, g)
    <3>1. {p, c} \subseteq PageIds /\ {p, c} \subseteq Mine(t)
      BY <1>2, <2>3, <2>4 DEF Mine
    <3>2. INVALID_PAGE_ID \notin {p, c}
      BY <3>1 DEF PageIds, INVALID_PAGE_ID
    <3>3. ASSUME NEW q \in DOMAIN node \ {p, c}
          PROVE  /\ q \in DOMAIN node' /\ (q \in Live' <=> q \in Live) /\ node'[q] = node[q]
                 /\ node[q].parent \in {p, c} => node'[q].parent # INVALID_PAGE_ID
      BY <2>7, <2>8, <3>2
    <3>4. \A x \in {p, c} : node[x].parent \notin DOMAIN node \ {p, c}
      BY Zenon, <1>1, <1>7, <2>4
    <3>5. ASSUME NEW x \in {p, c}
          PROVE  /\ x \in DOMAIN node' /\ node'[x].leaf = node[x].leaf /\ Owns(t, x)
      BY <1>2, <1>4, <2>4, <2>7, <2>9
    <3>6. \A x \in {p, c} : node[x].leaf => x = c
      BY Zenon, <1>9
    <3>7. c \in Live'
      BY <2>4, <2>8
    <3>8. root_page_id \in {p, c} /\ Live' \subseteq DOMAIN node \cup {p, c} /\ at[t] \in {p, c}
      BY Zenon, <1>2, <1>6, <2>8
    <3>9. /\ pc[t] = "underflow" /\ call[t].op = "Remove" /\ Exclusive(t) /\ HoldsRoot(t)
          /\ \A x \in {p, c} : x \in Live /\ x \in DOMAIN node
      BY Zenon, <1>1, <1>2, <2>4
    <3>. PICK C : C = {p, c}
      OBVIOUS
    <3>10. /\ C \subseteq PageIds /\ C \subseteq Mine(t) /\ C \subseteq DOMAIN node
           /\ \A x \in C : node[x].parent \notin DOMAIN node \ C
      BY Zenon, <3>1, <3>4, <3>9
    <3>11. /\ \A q \in DOMAIN node \ C :
                /\ q \in DOMAIN node' /\ (q \in Live' <=> q \in Live) /\ node'[q] = node[q]
                /\ node[q].parent \in C => node'[q].parent # INVALID_PAGE_ID
           /\ \A x \in C : x \in DOMAIN node' /\ node'[x].leaf = node[x].leaf /\ Owns(t, x)
           /\ \A x \in C : node[x].leaf => x = c
      BY Zenon, <3>3, <3>5, <3>6
    <3>12. root_page_id \in C /\ Live' \subseteq DOMAIN node \cup C /\ at[t] \in C
      BY Zenon, <3>8
    <3>13. \A q \in DOMAIN node \ C :
             /\ q \in DOMAIN node' /\ (q \in Live' <=> q \in Live)
             /\ node'[q].leaf = node[q].leaf /\ node'[q].array = node[q].array
             /\ node'[q].next = node[q].next /\ g[q] = g[q]
             /\ node[q].parent \notin C \cap DOMAIN node => node'[q].parent = node[q].parent
             /\ node[q].parent \in C \cap DOMAIN node => node'[q].parent # INVALID_PAGE_ID
      BY Zenon, <3>11
    <3>14. \A x \in C \cap Live : \A q \in Live \ C :
             node[q].leaf /\ node[x].leaf /\ node[q].next = x => x \in Live' /\ g[x].lo = g[x].lo
      BY Zenon, <3>7, <3>11
    <3>15. \A x \in C \cap DOMAIN node :
             /\ x \in DOMAIN node' /\ node'[x].leaf = node[x].leaf /\ g[x].level = g[x].level
             /\ node'[x].parent = node[x].parent \/ Owns(t, x)
             /\ x \in Live => Owns(t, x) \/ (x \in Live' /\ g[x].lo = g[x].lo /\ g[x].hi = g[x].hi)
             /\ x \in Live => call[t].op = "Remove" \/ (x \in Live' /\ g[x].lo = g[x].lo)
      BY Zenon, <3>9, <3>11
    <3>16. /\ C \subseteq PageIds /\ C \cap DOMAIN node \subseteq Mine(t)
           /\ Live' \subseteq DOMAIN node \cup C
           /\ \A x \in C \cap Live : node[x].parent \in DOMAIN node \ C =>
                /\ x \in Live' /\ node'[x].parent = node[x].parent
                /\ g[x].lo = g[x].lo /\ g[x].cap = g[x].cap
      BY Zenon, <3>10, <3>12
    <3>17. /\ root_page_id \in C /\ Exclusive(t) /\ HoldsRoot(t)
           /\ at[t] \in C /\ pc[t] # "parent"
      BY <3>9, <3>12
    <3>18. Changes(t, C, g, g)
      BY Zenon, <3>13, <3>14, <3>15, <3>16, <3>17 DEF Changes
    <3> QED BY Zenon, <3>18
  <2>11. ASSUME NEW q \in Live \ {p, c}, node[q].parent \in {p, c} PROVE HasParent(q)' /\ node[q].parent = c
    <3>1. node[q].parent # INVALID_PAGE_ID /\ HasParent(q) /\ node[q].parent \in Mine(t) \cap PageIds
      BY <1>2, <1>4, <2>3, <2>4, <2>7, <2>11 DEF Good, TreeOK, PageOK, PageIds, INVALID_PAGE_ID, Mine
    <3>2. ~Hangs(q)
      BY <1>1, <1>5, <3>1, HangsOwn
    <3>3. ~node[node[q].parent].leaf /\ IsChild(q, node[q].parent)
      BY <3>1, <3>2 DEF HasParent
    <3>4. node[q].parent = c
      BY <2>2, <2>11, <3>3
    <3>5. c \in Live' /\ ~node'[c].leaf /\ node'[q].parent = c
      BY Zenon, <2>4, <2>7, <2>8, <2>11, <3>3, <3>4, <1>6
    <3>6. IsChild(q, c)'
      BY Zenon, <2>7, <3>3, <3>4 DEF IsChild, Size
    <3> QED BY Zenon, <3>1, <3>4, <3>5, <3>6 DEF HasParent
  <2>12. PageOK(g, c)'
    <3>1. HasParent(c)'
      BY Zenon, <2>1, <2>7 DEF HasParent
    <3>2. Sized(c)'
      <4>1. Size(node[c]) <= MaxSize(node[c]) /\ Low(node[c]) <= Size(node[c]) /\ Size(node[c]) \in Nat
        BY Zenon, <2>4, <2>5, NodeFacts DEF PageOK, Sized
      <4>2. Size(node[c])' = Size(node[c]) /\ MaxSize(node[c])' = MaxSize(node[c])
        BY Zenon, <2>7 DEF Size, MaxSize
      <4>3. Low(node[c])' = (IF node[c].leaf THEN 1 ELSE 2)
        BY Zenon, <2>7 DEF Low
      <4>4. Low(node[c]) = Half(node[c])
        BY Zenon, <1>4, <2>4 DEF Low, Half
      <4>5. Low(node[c])' <= Low(node[c]) /\ Low(node[c])' \in Nat /\ Low(node[c]) \in Nat
        BY <4>3, <4>4, TreeAssumption DEF Half
      <4> QED BY <4>1, <4>2, <4>5 DEF Sized
    <3>3. \A q \in Live : node[q].parent = c =>
            /\ q \in Live' /\ node'[q].parent = c
            /\ g[q].level = g[q].level /\ g[q].lo = g[q].lo /\ g[q].cap = g[q].cap
      <4>1. \A q \in Live : node[q].parent = c => q # p /\ q # c
        <5>1. c # INVALID_PAGE_ID
          BY Zenon, <1>7, <2>4
        <5>2. node[p].parent # c /\ node[c].parent # c
          BY Zenon, <1>1, <2>4, <5>1
        <5> QED BY Zenon, <5>2
      <4> QED BY Zenon, <1>6, <2>7, <2>8, <4>1
    <3>4. node[c].leaf /\ node[c].next \in Live =>
            LET q == node[c].next IN q \in Live' /\ node'[q].leaf = node[q].leaf /\ g[q].lo = g[q].lo
      <4>1. ASSUME node[c].leaf, node[c].next \in Live PROVE node[c].next # p
        <5>1. PICK q : q = node[c].next
          BY Zenon
        <5>2. NextLeaf(g, c)
          BY Zenon, <2>4, <4>1 DEF PageOK
        <5>3. q # INVALID_PAGE_ID
          BY <1>6, <1>7, <4>1, <5>1
        <5>4. node[q].leaf
          BY Zenon, <5>1, <5>2, <5>3 DEF NextLeaf
        <5> QED BY Zenon, <1>9, <5>1, <5>4
      <4> QED BY Zenon, <1>6, <2>7, <2>8, <4>1
    <3> QED BY Zenon, <2>4, <2>6, <2>7, <3>1, <3>2, <3>3, <3>4, PageStays
  <2>13. Rooted(g)'
    <3>1. \A q \in Live' : g[q].level <= g[c].level
      BY <1>3, <1>6, <2>4, <2>8
    <3>2. c \in Live' /\ c # INVALID_PAGE_ID
      BY <2>4, <2>8 DEF PageIds, INVALID_PAGE_ID
    <3> QED BY Zenon, <2>1, <2>4, <2>7, <3>1, <3>2 DEF Rooted
  <2>14. TreeAfter({p, c}, g)
    <3>1. ASSUME NEW x \in {p, c}, NEW q \in Live', x \in Live', x # q, g[x].level = g[q].level
          PROVE  g[x].hi <= g[q].lo \/ g[q].hi <= g[x].lo
      BY <2>8, <3>1 DEF Good, TreeOK, Disjoint
    <3>2. p \notin Live'
      BY Zenon, <2>8
    <3> QED BY <2>11, <2>12, <2>13, <3>1, <3>2 DEF TreeAfter
  <2>15. \A q \in DOMAIN node' : node'[q] \in Node
    BY Zenon, <1>7, <2>7
  <2>16. \A q \in doomed[t] : node'[q].array = node[q].array
    <3>1. \A q \in doomed[t] : q \in DOMAIN node /\ q # p
      BY <1>1, <1>2 DEF PointOf
    <3> QED BY Zenon, <2>7, <3>1
  <2>17. root_page_id' \in PageIds \cup {INVALID_PAGE_ID} /\ header' = RecordUpdated(root_page_id')
    BY <2>1, <2>4 DEF RecordUpdated
  <2> QED BY Zenon, <2>1, <2>7, <2>10, <2>14, <2>15, <2>16, <2>17, AdjustRootOwn
<1>10. CASE ~n.leaf /\ Size(n) = 2
  <2>1. UNCHANGED <<root_page_id, header, node, doomed>>
    BY <1>10 DEF AdjustRoot, treeVars
  <2>2. Live' = Live
    BY <2>1 DEF Live, Doomed
  <2>3. Changes(t, {p}, g, g)
    <3>1. {p} \subseteq PageIds /\ {p} \subseteq Mine(t)
      BY <1>2, <1>4
    <3> QED BY <1>1, <1>2, <1>4, <1>6, <2>1, <2>2, <3>1 DEF Changes
  <2>4. \A q \in Live : HasParent(q)'
    <3>1. ASSUME NEW q, Hangs(q) PROVE Hangs(q)'
      BY <1>1, <1>5, <3>1, HangsKept
    <3>2. \A q \in Live : HasParent(q)
      BY DEF Good, TreeOK, PageOK
    <3> QED BY <2>1, <2>2, <3>1, <3>2 DEF HasParent, IsChild
  <2>5. PageOK(g, p)'
    <3>1. Sized(p)'
      <4>1. Size(node[p])' = 2
        BY <1>10, <2>1 DEF Size
      <4>2. Low(node[p])' = 2 /\ MaxSize(node[p])' = InternalMax
        BY <1>1, <1>10, <2>1 DEF Low, MaxSize
      <4> QED BY <4>1, <4>2, TreeAssumption DEF Sized
    <3> QED BY <1>2, <2>1, <2>2, <2>4, <3>1, PageStays
  <2>6. TreeAfter({p}, g)
    <3>1. Rooted(g)'
      BY <2>1, <2>2 DEF Good, TreeOK, Rooted
    <3>2. Disjoint(g)
      BY DEF Good, TreeOK
    <3> QED BY <1>2, <2>2, <2>4, <2>5, <3>1, <3>2 DEF TreeAfter, Disjoint
  <2>7. \A q \in DOMAIN node' : node'[q] \in Node
    BY <1>7, <2>1
  <2>8. root_page_id' \in PageIds \cup {INVALID_PAGE_ID}
    BY <1>1, <2>1 DEF TypeOK
  <2> QED BY <2>1, <2>3, <2>6, <2>7, <2>8, AdjustRootOwn
<1> QED BY <1>2, <1>8, <1>9, <1>10

-----------------------------------------------------------------------------
(* Merges and redistribution: a node and its sibling. *)

\* The node p that t has left too small, its parent and its sibling, from left to right.
Pairing(t, p, par, sib, left, right, x) ==
  /\ pc[t] = "underflow" /\ p = at[t]
  /\ par = node[p].parent /\ par # INVALID_PAGE_ID
  /\ sib = Sibling(p) /\ Granted(latch[sib], t)
  /\ IF IsFirst(p) THEN left = p /\ right = sib ELSE left = sib /\ right = p
  /\ x = ValueIndex(node[par], left)
  /\ pages'[t] = pages[t] \cup {sib}
  /\ root_page_id' = root_page_id

\* Where the two are.
LEMMA PairPlaces ==
  ASSUME NEW g \in Ghosts, Good(g), NEW t \in Threads, NEW p, NEW par, NEW sib,
         NEW left, NEW right, NEW x, Pairing(t, p, par, sib, left, right, x)
  PROVE  /\ Exclusive(t) /\ call[t].op = "Remove"
         /\ p \in Live /\ par \in Live /\ sib \in Live /\ p \in pages[t] /\ par \in pages[t]
         /\ sib \notin pages[t] /\ ~node[par].leaf /\ Inner(g, par)
         /\ Low(node[par]) <= Size(node[par]) /\ Size(node[par]) <= InternalMax
         /\ Size(node[par]) \in Nat
         /\ {left, right} = {p, sib} /\ left # right
         /\ node[left].parent = par /\ node[right].parent = par
         /\ g[left].level = g[right].level /\ (node[left].leaf <=> node[right].leaf)
         /\ g[left].level + 1 = g[par].level
         /\ x \in 1 .. Size(node[par]) /\ x + 1 \in 1 .. Size(node[par])
         /\ node[par].array[x].second = left /\ node[par].array[x + 1].second = right
         /\ ValueIndex(node[par], right) = x + 1
         /\ \A i \in 1 .. Size(node[par]) :
              /\ node[par].array[i].second = left => i = x
              /\ node[par].array[i].second = right => i = x + 1
         /\ ChildOf(g, par, x) /\ ChildOf(g, par, x + 1)
<1>. PICK i, j : i = ValueIndex(node[par], p) /\ j = SiblingAt(par, p)
  OBVIOUS
<1>1. /\ pc[t] = "underflow" /\ p = at[t] /\ par = node[p].parent /\ par # INVALID_PAGE_ID
      /\ sib = Sibling(p)
  BY Zenon DEF Pairing
<1>2. /\ Exclusive(t) /\ call[t].op = "Remove"
      /\ p \in Live /\ par \in Live /\ p \in pages[t] /\ par \in pages[t]
      /\ ~node[par].leaf /\ Low(node[par]) <= Size(node[par]) /\ Size(node[par]) <= InternalMax
      /\ i \in 1 .. Size(node[par]) /\ j \in 1 .. Size(node[par]) /\ i # j
      /\ node[par].array[i].second = p /\ node[par].array[j].second = sib
      /\ ChildOf(g, par, i) /\ ChildOf(g, par, j) /\ Inner(g, par)
      /\ sib \in Live /\ sib # p /\ sib \notin pages[t]
      /\ node[sib].parent = par
      /\ g[sib].level = g[p].level /\ (node[sib].leaf <=> node[p].leaf)
      /\ g[p].level + 1 = g[par].level
      /\ (IsFirst(p) <=> i = 1)
  BY <1>1, SiblingFacts
<1>3. Size(node[par]) \in Nat
  BY <1>2, NodeFacts DEF Live
<1>4. IsChild(p, par) /\ IsChild(sib, par)
  BY <1>2 DEF IsChild
<1>5. \A k \in 1 .. Size(node[par]) : node[par].array[k].second = p => k = i
  BY <1>2, <1>4, ChildPosition
<1>6. \A k \in 1 .. Size(node[par]) : node[par].array[k].second = sib => k = ValueIndex(node[par], sib)
  BY <1>2, <1>4, ChildPosition
<1>7. ValueIndex(node[par], sib) = j
  BY <1>2, <1>6
<1>8. j = IF i = 1 THEN 2 ELSE i - 1
  BY DEF SiblingAt
<1>9. CASE i = 1
  <2>1. left = p /\ right = sib /\ x = i /\ x + 1 = j /\ ValueIndex(node[par], right) = x + 1
    <3>1. left = p /\ right = sib /\ x = ValueIndex(node[par], left)
      BY <1>2, <1>9 DEF Pairing
    <3>2. x = i
      BY <3>1
    <3>3. x + 1 = j
      BY <1>8, <1>9, <3>2
    <3> QED BY Zenon, <1>7, <3>1, <3>2, <3>3
  <2> QED BY Zenon, <1>1, <1>2, <1>3, <1>5, <1>6, <1>7, <2>1
<1>10. CASE i # 1
  <2>1. left = sib /\ right = p /\ x = j /\ x + 1 = i /\ ValueIndex(node[par], right) = x + 1
    <3>1. left = sib /\ right = p /\ x = ValueIndex(node[par], left)
      BY <1>2, <1>10 DEF Pairing
    <3>2. x = j
      BY Zenon, <1>7, <3>1
    <3>3. i \in Nat /\ j = i - 1
      BY <1>2, <1>3, <1>8, <1>10
    <3>4. x + 1 = i
      BY <3>2, <3>3
    <3>5. ValueIndex(node[par], p) = i
      BY Zenon
    <3> QED BY Zenon, <3>1, <3>2, <3>4, <3>5
  <2> QED BY Zenon, <1>1, <1>2, <1>3, <1>5, <1>6, <1>7, <2>1
<1> QED BY <1>9, <1>10

\* What is known of them: nobody else is about to change them, they are side by side, and
\* one is too small.
LEMMA PairFacts ==
  ASSUME NEW g \in Ghosts, Good(g), NEW t \in Threads, NEW p, NEW par, NEW sib,
         NEW left, NEW right, NEW x, Pairing(t, p, par, sib, left, right, x)
  PROVE  /\ \A c \in {left, right, par} :
              /\ c \in Live /\ c \in DOMAIN node /\ c \in PageIds /\ c \in pages'[t] /\ c \in Mine(t)
              /\ c \notin doomed[t] /\ ~Hangs(c) /\ PageOK(g, c) /\ g[c].hi = g[c].cap
              /\ node[c] \in Node /\ Size(node[c]) \in Nat /\ ~Busy(c, "split")
              /\ Size(node[c]) <= MaxSize(node[c])
         /\ left # par /\ right # par
         /\ g[left].lo = Edge(g, par, x) /\ g[left].hi = node[par].array[x + 1].first
         /\ g[right].lo = g[left].hi /\ g[left].hi = Edge(g, par, x + 1)
         /\ g[right].hi = Edge(g, par, x + 2)
         /\ Half(node[sib]) <= Size(node[sib])
         /\ IF node[p].leaf THEN Size(node[p]) + 1 = LeafMax \div 2
            ELSE /\ Size(node[p]) <= InternalMax \div 2 /\ 1 <= Size(node[p])
                 /\ Half(node[p]) <= Size(node[p]) + 1
<1>1. /\ Exclusive(t) /\ call[t].op = "Remove"
      /\ p \in Live /\ par \in Live /\ sib \in Live /\ p \in pages[t] /\ par \in pages[t]
      /\ sib \notin pages[t] /\ Size(node[par]) \in Nat
      /\ {left, right} = {p, sib} /\ left # right
      /\ node[left].parent = par /\ node[right].parent = par
      /\ g[left].level = g[right].level /\ (node[left].leaf <=> node[right].leaf)
      /\ g[left].level + 1 = g[par].level
      /\ x \in 1 .. Size(node[par]) /\ x + 1 \in 1 .. Size(node[par])
      /\ node[par].array[x].second = left /\ node[par].array[x + 1].second = right
      /\ ChildOf(g, par, x) /\ ChildOf(g, par, x + 1)
  BY PairPlaces
<1>2. /\ pc[t] = "underflow" /\ p = at[t] /\ par # INVALID_PAGE_ID /\ Granted(latch[sib], t)
      /\ pages'[t] = pages[t] \cup {sib}
  BY DEF Pairing
<1>3. \A c \in Live : c \in DOMAIN node /\ c \in PageIds /\ node[c] \in Node /\ Size(node[c]) \in Nat
  BY NodeFacts DEF Live
<1>4. left # par /\ right # par
  BY <1>1, <1>3, GhostFacts
<1>5. ASSUME NEW c \in {left, right, par}
      PROVE  /\ c \in Live /\ c \in pages'[t] /\ c \in Mine(t)
             /\ c \in pages[t] \/ (c \in PageIds /\ Granted(latch[c], t))
  BY <1>1, <1>2, <1>3 DEF Mine
<1>6. ASSUME NEW c \in {left, right, par}
      PROVE  ~Hangs(c) /\ ~Busy(c, "split") /\ ~Busy(c, "parent") /\ (c # p => ~Busy(c, "underflow"))
  <2>1. ~Hangs(c)
    BY <1>2, <1>5, HangsMine
  <2>2. \A point \in {"split", "parent", "underflow"} : Busy(c, point) => pc[t] = point /\ at[t] = c
    BY <1>5, BusyMine
  <2> QED BY <1>2, <2>1, <2>2
<1>7. \A c \in Live : PageOK(g, c) /\ c \notin doomed[t]
  BY DEF Good, TreeOK, Live, Doomed
<1>8. \A c \in {left, right, par} : g[c].hi = g[c].cap /\ Size(node[c]) <= MaxSize(node[c])
  BY <1>5, <1>6, <1>7 DEF PageOK, Placed, Sized
<1>9. /\ g[left].lo = Edge(g, par, x) /\ g[left].cap = Edge(g, par, x + 1)
      /\ g[right].lo = Edge(g, par, x + 1) /\ g[right].cap = Edge(g, par, x + 2)
      /\ Edge(g, par, x + 1) = node[par].array[x + 1].first
  <2>1. x + 1 + 1 = x + 2 /\ x + 1 # 1 /\ x + 1 # Size(node[par]) + 1
    BY <1>1
  <2> QED BY <1>1, <2>1 DEF ChildOf, Edge
<1>10. Half(node[sib]) <= Size(node[sib])
  <2>1. sib \in {left, right, par} /\ sib # p
    BY <1>1
  <2>2. Low(node[sib]) <= Size(node[sib]) /\ node[sib].parent # INVALID_PAGE_ID
    BY <1>1, <1>2, <1>6, <1>7, <2>1 DEF PageOK, Sized
  <2> QED BY <2>2 DEF Low, Half
<1>11. IF node[p].leaf THEN Size(node[p]) + 1 = LeafMax \div 2
       ELSE /\ Size(node[p]) <= InternalMax \div 2 /\ 1 <= Size(node[p])
            /\ Half(node[p]) <= Size(node[p]) + 1
  <2>1. Shrinks(t) /\ node[p].parent # INVALID_PAGE_ID
    BY <1>1, <1>2 DEF Good, ThreadOK
  <2>2. Size(node[p]) \in Nat
    BY <1>1, <1>3
  <2>3. CASE node[p].leaf
    BY <1>2, <2>1, <2>3 DEF Shrinks, MinSize, MaxSize
  <2>4. CASE ~node[p].leaf
    <3>1. Size(node[p]) <= InternalMax \div 2 /\ Low(node[p]) <= Size(node[p]) + 1
      BY <1>2, <2>1, <2>4 DEF Shrinks, MinSize, MaxSize
    <3>2. Half(node[p]) = Low(node[p])
      BY <2>1 DEF Half, Low
    <3>3. Inner(g, p)
      BY <1>1, <1>7, <2>4 DEF PageOK
    <3> QED BY <2>2, <2>4, <3>1, <3>2, <3>3 DEF Inner
  <2> QED BY <2>3, <2>4
<1>12. ASSUME NEW c \in {left, right, par}
       PROVE  /\ c \in Live /\ c \in DOMAIN node /\ c \in PageIds /\ c \in pages'[t] /\ c \in Mine(t)
              /\ c \notin doomed[t] /\ ~Hangs(c) /\ PageOK(g, c) /\ g[c].hi = g[c].cap
              /\ node[c] \in Node /\ Size(node[c]) \in Nat /\ ~Busy(c, "split")
              /\ Size(node[c]) <= MaxSize(node[c])
  BY <1>3, <1>5, <1>6, <1>7, <1>8
<1>13. g[left].hi = g[left].cap /\ g[right].hi = g[right].cap
  BY <1>8
<1> QED BY <1>4, <1>9, <1>10, <1>11, <1>12, <1>13

-----------------------------------------------------------------------------
(* The entries of the two in a row, of which each gets a piece. *)

Joined(z, l, r) ==
  /\ Len(z) = Len(l) + Len(r)
  /\ \A i \in 1 .. Len(l) : z[i] = l[i]
  /\ \A i \in 1 .. Len(r) : z[Len(l) + i] = r[i]

\* Concatenation joins.
LEMMA JoinedIs ==
  ASSUME NEW S, NEW l \in Seq(S), NEW r \in Seq(S)
  PROVE  l \o r \in Seq(S) /\ Joined(l \o r, l, r)
<1>1. l \o r \in Seq(S) /\ Len(l \o r) = Len(l) + Len(r)
  BY ConcatProperties, Zenon
<1>2. \A i \in 1 .. Len(l) + Len(r) : (l \o r)[i] = IF i <= Len(l) THEN l[i] ELSE r[i - Len(l)]
  BY ConcatProperties, Zenon
<1>3. PICK k, m : k = Len(l) /\ m = Len(r)
  OBVIOUS
<1>4. k \in Nat /\ m \in Nat
  BY <1>3
<1>5. ASSUME NEW i \in 1 .. k PROVE (l \o r)[i] = l[i]
  <2>1. i \in 1 .. k + m /\ i <= k
    BY <1>4
  <2> QED BY <1>2, <1>3, <2>1
<1>6. ASSUME NEW i \in 1 .. m PROVE (l \o r)[k + i] = r[i]
  <2>1. k + i \in 1 .. k + m /\ ~(k + i <= k) /\ (k + i) - k = i
    BY <1>4
  <2> QED BY <1>2, <1>3, <2>1
<1> QED BY <1>1, <1>3, <1>5, <1>6 DEF Joined

RowEdge(g, left, right, i) ==
  IF i <= Size(node[left]) + 1 THEN Edge(g, left, i) ELSE Edge(g, right, i - Size(node[left]))

InnerRow(g, left, right, z, E, N) ==
  /\ N \in Nat
  /\ \A i \in 1 .. N + 1 : E[i] \in Nat
  /\ \A i, j \in 1 .. N + 1 : i < j => E[i] < E[j]
  /\ \A i \in 1 .. N :
       /\ i > 1 => z[i].first = E[i]
       /\ z[i].second \in PageIds /\ z[i].second \in Live
       /\ g[z[i].second].level + 1 = g[left].level
       /\ g[z[i].second].lo = E[i] /\ g[z[i].second].cap = E[i + 1]
       /\ node[z[i].second].parent = IF i <= Size(node[left]) THEN left ELSE right
  /\ E[1] # 0 => z[1].first = E[1]
  /\ E[1] = g[left].lo /\ E[N + 1] = g[right].hi

\* The entries of two internal siblings, with the edges between them.
LEMMA InnerRowIs ==
  ASSUME NEW g \in Ghosts, Good(g), NEW t \in Threads, NEW p, NEW par, NEW sib,
         NEW left, NEW right, NEW x, Pairing(t, p, par, sib, left, right, x), ~node[left].leaf,
         NEW z, Joined(z, node[left].array, node[right].array), NEW N, N = Len(z),
         NEW E, E = [i \in 1 .. N + 1 |-> RowEdge(g, left, right, i)]
  PROVE  InnerRow(g, left, right, z, E, N)
<1>. PICK l, r, m, n : l = node[left].array /\ r = node[right].array /\ m = Size(node[left]) /\ n = Size(node[right])
  OBVIOUS
<1>1. /\ left \in Live /\ right \in Live /\ left \in DOMAIN node /\ right \in DOMAIN node
      /\ PageOK(g, left) /\ PageOK(g, right) /\ m \in Nat /\ n \in Nat
      /\ left \in PageIds /\ right \in PageIds
      /\ g[right].lo = g[left].hi
  BY PairFacts
<1>2. g[left].level = g[right].level /\ ~node[right].leaf
  BY PairPlaces
<1>3. Inner(g, left) /\ Inner(g, right)
  BY <1>1, <1>2 DEF PageOK
<1>4. m >= 1 /\ n >= 1 /\ N = m + n /\ N \in Nat
      /\ (\A i \in 1 .. m : z[i] = l[i]) /\ (\A i \in 1 .. n : z[m + i] = r[i])
  <2>1. m = Len(l) /\ n = Len(r)
    BY DEF Size
  <2>2. /\ Len(z) = m + n /\ (\A i \in 1 .. m : z[i] = l[i]) /\ (\A i \in 1 .. n : z[m + i] = r[i])
    BY <2>1 DEF Joined
  <2>3. m >= 1 /\ n >= 1
    BY <1>3 DEF Inner
  <2> QED BY <1>1, <2>2, <2>3
<1>5. /\ \A i \in 1 .. m + 1 : Edge(g, left, i) \in Nat
      /\ \A i \in 1 .. n + 1 : Edge(g, right, i) \in Nat
  BY <1>1, EdgeNat
<1>6. /\ \A i, j \in 1 .. m + 1 : i < j => Edge(g, left, i) < Edge(g, left, j)
      /\ \A i, j \in 1 .. n + 1 : i < j => Edge(g, right, i) < Edge(g, right, j)
  BY <1>3 DEF Inner
<1>7. Edge(g, left, 1) = g[left].lo /\ Edge(g, left, m + 1) = g[left].hi
      /\ Edge(g, right, 1) = g[right].lo /\ Edge(g, right, n + 1) = g[right].hi
  BY <1>4, <1>1 DEF Edge
<1>8. /\ \A i \in 1 .. m + 1 : E[i] = Edge(g, left, i)
      /\ \A i \in 1 .. n + 1 : E[m + i] = Edge(g, right, i)
  <2>1. ASSUME NEW i \in 1 .. m + 1 PROVE E[i] = Edge(g, left, i)
    <3>1. i \in 1 .. N + 1 /\ i <= m + 1
      BY <1>1, <1>4
    <3> QED BY <3>1 DEF RowEdge
  <2>2. ASSUME NEW i \in 1 .. n + 1 PROVE E[m + i] = Edge(g, right, i)
    <3>1. m + i \in 1 .. N + 1 /\ (m + i) - m = i
      BY <1>1, <1>4
    <3>2. CASE i = 1
      <4>1. m + 1 \in 1 .. m + 1
        BY <1>1
      <4>2. E[m + 1] = Edge(g, left, m + 1)
        BY <2>1, <4>1
      <4> QED BY <1>1, <1>7, <3>2, <4>2
    <3>3. CASE i # 1
      <4>1. ~(m + i <= m + 1)
        BY <1>1, <3>3
      <4>2. E[m + i] = Edge(g, right, (m + i) - m)
        BY <3>1, <4>1 DEF RowEdge
      <4> QED BY <3>1, <4>2
    <3> QED BY <3>2, <3>3
  <2> QED BY <2>1, <2>2
<1>9. \A i \in 1 .. N + 1 : i \in 1 .. m + 1 \/ \E k \in 1 .. n + 1 : k > 1 /\ i = m + k
  <2>1. ASSUME NEW i \in 1 .. N + 1, i \notin 1 .. m + 1
        PROVE  \E k \in 1 .. n + 1 : k > 1 /\ i = m + k
    <3>1. i - m \in 1 .. n + 1 /\ i - m > 1 /\ i = m + (i - m)
      BY <1>1, <1>4, <2>1
    <3> QED BY <3>1
  <2> QED BY <2>1
<1>10. \A i \in 1 .. N + 1 : E[i] \in Nat
  <2>1. ASSUME NEW i \in 1 .. N + 1 PROVE E[i] \in Nat
    <3>1. CASE i \in 1 .. m + 1
      BY Zenon, <1>5, <1>8, <3>1
    <3>2. CASE \E k \in 1 .. n + 1 : k > 1 /\ i = m + k
      BY Zenon, <1>5, <1>8, <3>2
    <3> QED BY Zenon, <1>9, <3>1, <3>2
  <2> QED BY Zenon, <2>1
<1>11. ASSUME NEW i \in 1 .. N + 1, NEW j \in 1 .. N + 1, i < j PROVE E[i] < E[j]
  <2>1. CASE j \in 1 .. m + 1
    <3>1. i \in 1 .. m + 1
      BY <1>1, <1>11, <2>1
    <3> QED BY <1>6, <1>8, <1>11, <2>1, <3>1
  <2>2. CASE j \notin 1 .. m + 1
    <3>1. PICK k \in 1 .. n + 1 : k > 1 /\ j = m + k
      BY <1>9, <2>2
    <3>2. E[j] = Edge(g, right, k) /\ Edge(g, right, 1) < Edge(g, right, k)
      <4>1. 1 \in 1 .. n + 1
        BY <1>1
      <4> QED BY <1>6, <1>8, <3>1, <4>1
    <3>3. CASE i \in 1 .. m + 1
      <4>1. i = m + 1 \/ i < m + 1
        BY <1>1, <3>3
      <4>2. m + 1 \in 1 .. m + 1
        BY <1>1
      <4>3. E[i] = g[left].hi \/ E[i] < g[left].hi
        BY <1>6, <1>7, <1>8, <3>3, <4>1, <4>2
      <4>4. Edge(g, right, 1) = g[left].hi
        BY <1>1, <1>7
      <4>5. E[i] \in Nat /\ E[j] \in Nat /\ g[left].hi \in Nat
        BY <1>10, <1>1, GhostFacts
      <4> QED BY <3>2, <4>3, <4>4, <4>5
    <3>4. CASE i \notin 1 .. m + 1
      <4>1. PICK q \in 1 .. n + 1 : i = m + q
        BY <1>9, <3>4
      <4>2. q < k
        BY <1>1, <1>11, <3>1, <4>1
      <4> QED BY <1>6, <1>8, <3>1, <4>1, <4>2
    <3> QED BY <3>3, <3>4
  <2> QED BY <2>1, <2>2
<1>12. ASSUME NEW i \in 1 .. N
       PROVE  /\ i > 1 => z[i].first = E[i]
              /\ z[i].second \in PageIds /\ z[i].second \in Live
              /\ g[z[i].second].level + 1 = g[left].level
              /\ g[z[i].second].lo = E[i] /\ g[z[i].second].cap = E[i + 1]
              /\ node[z[i].second].parent = IF i <= Size(node[left]) THEN left ELSE right
  <2>1. CASE i <= m
    <3>1. i \in 1 .. m /\ i \in 1 .. m + 1 /\ i + 1 \in 1 .. m + 1
      BY <1>1, <2>1
    <3>2. z[i] = l[i] /\ E[i] = Edge(g, left, i) /\ E[i + 1] = Edge(g, left, i + 1)
      BY <1>4, <1>8, <3>1
    <3>3. l[i].second \in PageIds /\ ChildOf(g, left, i)
      BY <1>3, <3>1 DEF Inner
    <3>4. i > 1 => Edge(g, left, i) = l[i].first
      BY <1>1, <3>1 DEF Edge
    <3> QED BY <2>1, <3>2, <3>3, <3>4 DEF ChildOf
  <2>2. CASE ~(i <= m)
    <3>. PICK k : k = i - m
      OBVIOUS
    <3>1. k \in 1 .. n /\ k \in 1 .. n + 1 /\ k + 1 \in 1 .. n + 1 /\ i = m + k /\ i + 1 = m + (k + 1)
      BY <1>1, <1>4, <2>2
    <3>2. z[i] = r[k] /\ E[i] = Edge(g, right, k) /\ E[i + 1] = Edge(g, right, k + 1)
      BY <1>4, <1>8, <3>1
    <3>3. r[k].second \in PageIds /\ ChildOf(g, right, k)
      BY <1>3, <3>1 DEF Inner
    <3>4. Edge(g, right, k) = r[k].first
      <4>1. CASE k = 1
        <5>1. g[left].lo < g[left].hi /\ g[left].lo \in Nat /\ g[left].hi \in Nat
          BY <1>1, GhostFacts DEF PageOK, Placed
        <5>2. g[right].lo # 0
          BY <1>1, <5>1
        <5> QED BY <1>3, <1>7, <4>1, <5>2 DEF Inner
      <4>2. CASE k # 1
        BY <1>1, <3>1, <4>2 DEF Edge
      <4> QED BY <4>1, <4>2
    <3> QED BY <1>2, <2>2, <3>2, <3>3, <3>4 DEF ChildOf
  <2> QED BY Zenon, <2>1, <2>2
<1>13. E[1] = g[left].lo /\ E[N + 1] = g[right].hi /\ (E[1] # 0 => z[1].first = E[1])
  <2>1. 1 \in 1 .. m /\ 1 \in 1 .. m + 1 /\ n + 1 \in 1 .. n + 1 /\ N + 1 = m + (n + 1)
    BY <1>1, <1>4
  <2> QED BY <1>3, <1>4, <1>7, <1>8, <2>1 DEF Inner
<1> QED BY <1>4, <1>10, <1>11, <1>12, <1>13 DEF InnerRow

\* The node c has the w entries of z behind the first u.
Piece(z, c, u, w) ==
  Len(node'[c].array) = w /\ \A i \in 1 .. w : node'[c].array[i] = z[u + i]

\* The children among them are told so, and keep their bounds.
Told(h, g, z, u, w, c) ==
  \A i \in 1 .. w :
    LET q == z[u + i].second IN
    /\ q \in Live' /\ node'[q].parent = c
    /\ h[q].level = g[q].level /\ h[q].lo = g[q].lo /\ h[q].cap = g[q].cap

\* A piece of such a row makes an internal node.
LEMMA InnerPiece ==
  ASSUME NEW g, NEW left, NEW right, NEW z, NEW E, NEW N, InnerRow(g, left, right, z, E, N),
         NEW u \in Nat, NEW w \in Nat, w >= 1, u + w <= N, NEW c, Piece(z, c, u, w),
         NEW h, h[c].lo = E[u + 1], h[c].hi = E[u + w + 1], h[c].level = g[left].level,
         Told(h, g, z, u, w, c)
  PROVE  Inner(h, c)'
<1>1. /\ N \in Nat
      /\ \A i, j \in 1 .. N + 1 : i < j => E[i] < E[j]
      /\ E[1] # 0 => z[1].first = E[1]
  BY DEF InnerRow
<1>2. Size(node[c])' = w /\ \A i \in 1 .. w : node'[c].array[i] = z[u + i]
  BY DEF Piece, Size
<1>3. ASSUME NEW i \in 1 .. w
      PROVE  /\ u + i \in 1 .. N /\ u + i \in 1 .. N + 1 /\ u + (i + 1) = u + i + 1
             /\ u + i > 1 => z[u + i].first = E[u + i]
             /\ z[u + i].second \in PageIds
             /\ g[z[u + i].second].level + 1 = g[left].level
             /\ g[z[u + i].second].lo = E[u + i] /\ g[z[u + i].second].cap = E[u + i + 1]
  <2>1. u + i \in 1 .. N /\ u + i \in 1 .. N + 1 /\ u + (i + 1) = u + i + 1
    BY <1>1
  <2> QED BY <2>1 DEF InnerRow
<1>4. ASSUME NEW i \in 1 .. w + 1 PROVE Edge(h, c, i)' = E[u + i]
  <2>1. CASE i = 1
    BY <2>1 DEF Edge
  <2>2. CASE i = w + 1
    <3>1. i # 1 /\ u + i = u + w + 1
      BY <2>2
    <3> QED BY <1>2, <2>2, <3>1 DEF Edge
  <2>3. CASE i # 1 /\ i # w + 1
    <3>1. i \in 1 .. w /\ u + i > 1
      BY <2>3
    <3>2. Edge(h, c, i)' = node'[c].array[i].first
      BY <1>2, <2>3 DEF Edge
    <3> QED BY <1>2, <1>3, <3>1, <3>2
  <2> QED BY <2>1, <2>2, <2>3
<1>5. ASSUME NEW i \in 1 .. w + 1, NEW j \in 1 .. w + 1, i < j
      PROVE  Edge(h, c, i)' < Edge(h, c, j)'
  <2>1. u + i \in 1 .. N + 1 /\ u + j \in 1 .. N + 1 /\ u + i < u + j
    BY <1>1, <1>5
  <2> QED BY <1>1, <1>4, <2>1
<1>6. h[c].lo # 0 => node'[c].array[1].first = h[c].lo
  <2>1. 1 \in 1 .. w
    OBVIOUS
  <2>2. u = 0 \/ u + 1 > 1
    OBVIOUS
  <2> QED BY <1>1, <1>2, <1>3, <2>1, <2>2
<1>7. ASSUME NEW i \in 1 .. w
      PROVE  node'[c].array[i].second \in PageIds /\ ChildOf(h, c, i)'
  <2>1. i \in 1 .. w + 1 /\ i + 1 \in 1 .. w + 1
    OBVIOUS
  <2>2. Edge(h, c, i)' = E[u + i] /\ Edge(h, c, i + 1)' = E[u + i + 1]
    BY <1>3, <1>4, <2>1
  <2>3. node'[c].array[i] = z[u + i]
    BY <1>2
  <2> QED BY <1>3, <2>2, <2>3 DEF ChildOf, Told
<1> QED BY <1>2, <1>5, <1>6, <1>7 DEF Inner

\* The same for leaves.
LeafRow(g, left, right, z, N) ==
  /\ N \in Nat
  /\ \A i \in 1 .. N :
       /\ z[i].first \in Keys /\ z[i].second \in Values
       /\ g[left].lo <= z[i].first /\ z[i].first < g[right].hi
  /\ \A i, j \in 1 .. N : i < j => z[i].first < z[j].first

\* The entries of two leaves that are siblings.
LEMMA LeafRowIs ==
  ASSUME NEW g \in Ghosts, Good(g), NEW t \in Threads, NEW p, NEW par, NEW sib,
         NEW left, NEW right, NEW x, Pairing(t, p, par, sib, left, right, x), node[left].leaf,
         NEW z, Joined(z, node[left].array, node[right].array), NEW N, N = Len(z)
  PROVE  LeafRow(g, left, right, z, N)
<1>. PICK l, r, m, n : l = node[left].array /\ r = node[right].array /\ m = Size(node[left]) /\ n = Size(node[right])
  OBVIOUS
<1>1. /\ PageOK(g, left) /\ PageOK(g, right) /\ m \in Nat /\ n \in Nat
      /\ left \in PageIds /\ right \in PageIds
      /\ g[right].lo = g[left].hi
  BY PairFacts
<1>2. node[right].leaf
  BY PairPlaces
<1>3. LeafEntries(g, left) /\ LeafEntries(g, right)
  BY <1>1, <1>2 DEF PageOK
<1>4. N = m + n /\ N \in Nat
      /\ (\A i \in 1 .. m : z[i] = l[i]) /\ (\A i \in 1 .. n : z[m + i] = r[i])
  <2>1. m = Len(l) /\ n = Len(r)
    BY DEF Size
  <2>2. /\ Len(z) = m + n /\ (\A i \in 1 .. m : z[i] = l[i]) /\ (\A i \in 1 .. n : z[m + i] = r[i])
    BY <2>1 DEF Joined
  <2> QED BY <1>1, <2>2
<1>5. /\ g[left].lo \in Nat /\ g[left].hi \in Nat /\ g[right].hi \in Nat
      /\ g[left].lo < g[left].hi /\ g[right].lo < g[right].hi
  BY Zenon, <1>1, GhostFacts DEF PageOK, Placed
<1>6. \A k \in Keys : k \in Nat
  BY TreeAssumption
<1>7. \A i \in 1 .. N : i \in 1 .. m \/ \E k \in 1 .. n : i = m + k
  <2>1. ASSUME NEW i \in 1 .. N, i \notin 1 .. m PROVE \E k \in 1 .. n : i = m + k
    <3>1. i - m \in 1 .. n /\ i = m + (i - m)
      BY <1>1, <1>4, <2>1
    <3> QED BY <3>1
  <2> QED BY <2>1
<1>8. ASSUME NEW i \in 1 .. m
      PROVE  /\ z[i].first \in Keys /\ z[i].second \in Values
             /\ g[left].lo <= z[i].first /\ z[i].first < g[left].hi
  BY <1>3, <1>4 DEF LeafEntries
<1>9. ASSUME NEW i \in 1 .. n
      PROVE  /\ z[m + i].first \in Keys /\ z[m + i].second \in Values
             /\ g[left].hi <= z[m + i].first /\ z[m + i].first < g[right].hi
  BY <1>1, <1>3, <1>4 DEF LeafEntries
<1>10. ASSUME NEW i \in 1 .. N
       PROVE  /\ z[i].first \in Keys /\ z[i].second \in Values
              /\ g[left].lo <= z[i].first /\ z[i].first < g[right].hi
  <2>1. CASE i \in 1 .. m
    BY <1>1, <1>5, <1>6, <1>8, <2>1
  <2>2. CASE i \notin 1 .. m
    <3>1. PICK k \in 1 .. n : i = m + k
      BY <1>7, <2>2
    <3> QED BY <1>5, <1>6, <1>9, <3>1
  <2> QED BY <2>1, <2>2
<1>11. ASSUME NEW i \in 1 .. N, NEW j \in 1 .. N, i < j PROVE z[i].first < z[j].first
  <2>1. CASE j \in 1 .. m
    <3>1. i \in 1 .. m
      BY <1>1, <1>11, <2>1
    <3> QED BY <1>3, <1>4, <1>11, <2>1, <3>1 DEF LeafEntries
  <2>2. CASE j \notin 1 .. m
    <3>1. PICK k \in 1 .. n : j = m + k
      BY <1>7, <2>2
    <3>2. CASE i \in 1 .. m
      BY <1>5, <1>6, <1>8, <1>9, <3>1, <3>2
    <3>3. CASE i \notin 1 .. m
      <4>1. PICK q \in 1 .. n : i = m + q
        BY <1>7, <3>3
      <4>2. q < k
        BY <1>1, <1>11, <3>1, <4>1
      <4> QED BY <1>3, <1>4, <3>1, <4>1, <4>2 DEF LeafEntries
    <3> QED BY <3>2, <3>3
  <2> QED BY <2>1, <2>2
<1> QED BY <1>4, <1>10, <1>11 DEF LeafRow

\* A piece of such a row makes a leaf.
LEMMA LeafPiece ==
  ASSUME NEW g, NEW left, NEW right, NEW z, NEW N, LeafRow(g, left, right, z, N),
         NEW u \in Nat, NEW w \in Nat, u + w <= N, NEW c, Piece(z, c, u, w), NEW h,
         \A i \in 1 .. w : h[c].lo <= z[u + i].first /\ z[u + i].first < h[c].hi
  PROVE  LeafEntries(h, c)'
<1>1. Size(node[c])' = w /\ \A i \in 1 .. w : node'[c].array[i] = z[u + i]
  BY DEF Piece, Size
<1>2. \A i \in 1 .. w : u + i \in 1 .. N
  BY DEF LeafRow
<1>3. \A i, j \in 1 .. w : i < j => z[u + i].first < z[u + j].first
  <2>1. ASSUME NEW i \in 1 .. w, NEW j \in 1 .. w, i < j PROVE z[u + i].first < z[u + j].first
    <3>1. u + i < u + j
      BY <2>1
    <3> QED BY <1>2, <3>1 DEF LeafRow
  <2> QED BY <2>1
<1>4. \A i \in 1 .. w : z[u + i].first \in Keys /\ z[u + i].second \in Values
  BY <1>2 DEF LeafRow
<1> QED BY <1>1, <1>3, <1>4 DEF LeafEntries

-----------------------------------------------------------------------------
(* Merges. *)

\* What Merge does to the nodes.
Merged(left, right, par, x, z, b) ==
  /\ DOMAIN node' = DOMAIN node /\ \A q \in DOMAIN node' : node'[q] \in Node
  /\ Joined(z, node[left].array, node[right].array)
  /\ Removed(b, node[par].array, x + 1)
  /\ node'[left].leaf = node[left].leaf /\ node'[left].array = z
  /\ node'[left].parent = node[left].parent
  /\ node'[left].next = IF node[left].leaf THEN node[right].next ELSE node[left].next
  /\ node'[right].leaf = node[right].leaf /\ node'[right].array = <<>>
  /\ node'[right].parent = node[right].parent
  /\ node'[par].leaf = node[par].leaf /\ node'[par].array = b
  /\ node'[par].parent = node[par].parent /\ node'[par].next = node[par].next
  /\ \A q \in DOMAIN node \ {left, right, par} :
       /\ node'[q].leaf = node[q].leaf /\ node'[q].array = node[q].array
       /\ node'[q].next = node[q].next
       /\ node'[q].parent = IF q \in Children(node[right]) THEN left ELSE node[q].parent

\* The children of the two are none of the three.
LEMMA PairChildren ==
  ASSUME NEW g \in Ghosts, Good(g), NEW t \in Threads, NEW p, NEW par, NEW sib,
         NEW left, NEW right, NEW x, Pairing(t, p, par, sib, left, right, x),
         NEW c \in {left, right}, NEW q \in Children(node[c])
  PROVE  /\ q \in Live /\ q \notin {left, right, par} /\ node[q].parent = c
         /\ ~node[c].leaf
<1>1. ~node[c].leaf /\ \E i \in 1 .. Size(node[c]) : node[c].array[i].second = q
  BY DEF Children
<1>2. PageOK(g, c) /\ c \in PageIds
  BY PairFacts
<1>3. PICK i \in 1 .. Size(node[c]) : node[c].array[i].second = q
  BY <1>1
<1>4. ChildOf(g, c, i)
  BY <1>1, <1>2 DEF PageOK, Inner
<1>5. q \in Live /\ node[q].parent = c /\ g[q].level + 1 = g[c].level
  BY <1>3, <1>4 DEF ChildOf
<1>6. g[left].level = g[right].level /\ g[left].level + 1 = g[par].level
  BY PairPlaces
<1>7. q \in PageIds
  BY <1>5, NodeFacts DEF Live
<1> QED BY <1>1, <1>2, <1>5, <1>6, <1>7, GhostFacts

\* The first key of an internal node that has a left sibling is its separator already.
LEMMA MergedArrayIs ==
  ASSUME NEW g \in Ghosts, Good(g), NEW t \in Threads, NEW p, NEW par, NEW sib,
         NEW left, NEW right, NEW x, Pairing(t, p, par, sib, left, right, x)
  PROVE  MergedArray(par, right) = node[right].array
<1>. PICK n, r : n = node[right] /\ r = n.array
  OBVIOUS
<1>1. /\ right \in DOMAIN node /\ right \in PageIds /\ left \in PageIds
      /\ n \in Node /\ PageOK(g, right) /\ PageOK(g, left)
      /\ g[left].hi = node[par].array[x + 1].first /\ g[right].lo = g[left].hi
  BY PairFacts
<1>2. ValueIndex(node[par], right) = x + 1
  BY PairPlaces
<1>3. CASE n.leaf
  BY <1>3 DEF MergedArray
<1>4. CASE ~n.leaf
  <2>1. Inner(g, right)
    BY <1>1, <1>4 DEF PageOK
  <2>2. g[right].lo # 0
    BY <1>1, GhostFacts DEF PageOK, Placed
  <2>3. r[1].first = node[par].array[x + 1].first
    BY <1>1, <2>1, <2>2 DEF Inner
  <2>4. MergedArray(par, right) = [r EXCEPT ![1].first = r[1].first]
    BY <1>2, <1>4, <2>3 DEF MergedArray
  <2>5. [r EXCEPT ![1].first = r[1].first] = r
    <3>1. r \in Seq(Entry(Values) \cup Entry(PageIds)) /\ Size(n) \in Nat /\ Size(n) >= 1
      BY <1>1, <2>1, NodeFacts DEF Inner
    <3>2. r \in [1 .. Len(r) -> Entry(Values) \cup Entry(PageIds)] /\ 1 \in 1 .. Len(r)
      BY <3>1 DEF Size
    <3>3. r[1] \in Entry(Values) \cup Entry(PageIds)
      BY <3>2
    <3>4. [r[1] EXCEPT !.first = r[1].first] = r[1]
      BY <3>3 DEF Entry
    <3> QED BY <3>2, <3>4
  <2> QED BY <2>4, <2>5
<1> QED BY <1>3, <1>4

\* Coalesce does this.
LEMMA MergedIs ==
  ASSUME NEW g \in Ghosts, Good(g), NEW t \in Threads, NEW p, NEW par, NEW sib,
         NEW left, NEW right, NEW x, Pairing(t, p, par, sib, left, right, x),
         node' = Merge(left, right, par)
  PROVE  \E z, b : Merged(left, right, par, x, z, b)
<1>. PICK l, r, n : l = node[left].array /\ r = node[right].array /\ n = node[right]
  OBVIOUS
<1>9. PICK z, b : z = l \o r /\ b = RemoveAt(node[par].array, x + 1)
  OBVIOUS
<1>1. /\ left \in DOMAIN node /\ right \in DOMAIN node /\ par \in DOMAIN node
      /\ left \in PageIds /\ right \in PageIds
      /\ node[left] \in Node /\ n \in Node /\ node[par] \in Node
      /\ left # par /\ right # par
  BY PairFacts
<1>2. left # right /\ x + 1 \in 1 .. Size(node[par]) /\ ValueIndex(node[par], right) = x + 1
  BY PairPlaces
<1>3. MergedArray(par, right) = r
  BY MergedArrayIs
<1>4. /\ l \in Seq(Entry(Values) \cup Entry(PageIds)) /\ r \in Seq(Entry(Values) \cup Entry(PageIds))
      /\ node[par].array \in Seq(Entry(Values) \cup Entry(PageIds))
  BY <1>1 DEF Node
<1>5. z \in Seq(Entry(Values) \cup Entry(PageIds)) /\ Joined(z, l, r)
  BY <1>4, <1>9, JoinedIs
<1>6. b \in Seq(Entry(Values) \cup Entry(PageIds)) /\ Removed(b, node[par].array, x + 1)
  BY <1>2, <1>4, <1>9, RemoveAtIs DEF Size
<1>7. PICK s : /\ node' = Adopt(s, n, left)
               /\ DOMAIN s = DOMAIN node
               /\ s[left] = [node[left] EXCEPT !.array = z,
                                               !.next = IF node[left].leaf THEN n.next ELSE node[left].next]
               /\ s[right] = [n EXCEPT !.array = <<>>]
               /\ s[par] = [node[par] EXCEPT !.array = b]
               /\ \A q \in DOMAIN node \ {left, right, par} : s[q] = node[q]
  <2>1. PICK s : s = [node EXCEPT
             ![left].array = @ \o MergedArray(par, right),
             ![left].next = IF node[left].leaf THEN node[right].next ELSE @,
             ![right].array = <<>>,
             ![par].array = RemoveAt(@, ValueIndex(node[par], right))]
    OBVIOUS
  <2>2. node' = Adopt(s, n, left)
    BY Zenon, <2>1 DEF Merge, Adopted
  <2>3. DOMAIN s = DOMAIN node /\ \A q \in DOMAIN node \ {left, right, par} : s[q] = node[q]
    BY Zenon, <2>1
  <2>4. s[right] = [n EXCEPT !.array = <<>>] /\ s[par] = [node[par] EXCEPT !.array = b]
    BY Zenon, <1>1, <1>2, <1>9, <2>1
  <2>5. s[left] = [node[left] EXCEPT !.array = z,
                                     !.next = IF node[left].leaf THEN n.next ELSE node[left].next]
    BY <1>1, <1>2, <1>3, <1>9, <2>1 DEF Node
  <2> QED BY Zenon, <2>2, <2>3, <2>4, <2>5
<1>8. /\ s[left] \in Node /\ s[left].leaf = node[left].leaf /\ s[left].array = z
      /\ s[left].parent = node[left].parent
      /\ s[left].next = IF node[left].leaf THEN n.next ELSE node[left].next
      /\ s[right] \in Node /\ s[right].leaf = n.leaf /\ s[right].array = <<>> /\ s[right].parent = n.parent
      /\ s[par] \in Node /\ s[par].leaf = node[par].leaf /\ s[par].array = b
      /\ s[par].parent = node[par].parent /\ s[par].next = node[par].next
  <2>1. <<>> \in Seq(Entry(Values) \cup Entry(PageIds))
    OBVIOUS
  <2>2. /\ s[right] \in Node /\ s[right].leaf = n.leaf /\ s[right].array = <<>> /\ s[right].parent = n.parent
    BY <1>1, <1>7, <2>1 DEF Node
  <2>3. /\ s[par] \in Node /\ s[par].leaf = node[par].leaf /\ s[par].array = b
        /\ s[par].parent = node[par].parent /\ s[par].next = node[par].next
    BY <1>1, <1>6, <1>7 DEF Node
  <2>4. /\ s[left] \in Node /\ s[left].leaf = node[left].leaf /\ s[left].array = z
        /\ s[left].parent = node[left].parent
        /\ s[left].next = IF node[left].leaf THEN n.next ELSE node[left].next
    BY <1>1, <1>5, <1>7 DEF Node
  <2> QED BY <2>2, <2>3, <2>4
<1>10. \A q \in DOMAIN node : node[q] \in Node
  BY NodeFacts
<1>11. \A q \in Children(n) : q \notin {left, right, par}
  BY PairChildren
<1>12. DOMAIN node' = DOMAIN s
  BY <1>7, AdoptDomain
<1>13. ASSUME NEW q \in DOMAIN s PROVE AdoptedAt(node', s, n, left, q)
  <2>1. s[q] \in Node
    BY <1>7, <1>8, <1>10, <1>13
  <2>2. left \in PageIds \cup {INVALID_PAGE_ID}
    BY <1>1
  <2>3. AdoptedAt(Adopt(s, n, left), s, n, left, q)
    BY <2>1, <2>2, AdoptIs
  <2> QED BY <1>7, <2>3
<1>14. \A c \in {left, right, par} : node'[c] = s[c]
  BY <1>1, <1>7, <1>11, <1>13 DEF AdoptedAt
<1>15. \A q \in DOMAIN node' : node'[q] \in Node
  BY <1>12, <1>13 DEF AdoptedAt
<1>16. ASSUME NEW q \in DOMAIN node \ {left, right, par}
       PROVE  /\ node'[q].leaf = node[q].leaf /\ node'[q].array = node[q].array
              /\ node'[q].next = node[q].next
              /\ node'[q].parent = IF q \in Children(n) THEN left ELSE node[q].parent
  <2>1. AdoptedAt(node', s, n, left, q) /\ s[q] = node[q]
    BY <1>7, <1>13
  <2> QED BY <2>1 DEF AdoptedAt
<1>17. Merged(left, right, par, x, z, b)
  BY <1>5, <1>6, <1>7, <1>8, <1>12, <1>14, <1>15, <1>16 DEF Merged
<1> QED BY <1>17

MergedBounds(h, g, left, right) ==
  /\ h \in Ghosts
  /\ \A q \in PageIds \ {left} : h[q] = g[q]
  /\ h[left].lo = g[left].lo /\ h[left].hi = g[right].hi /\ h[left].cap = g[right].hi
  /\ h[left].level = g[left].level

MergeDone(g, h, t, p, par, sib, left, right, x, z, b) ==
  /\ Pairing(t, p, par, sib, left, right, x)
  /\ Merged(left, right, par, x, z, b)
  /\ MergedBounds(h, g, left, right)
  /\ doomed' = [doomed EXCEPT ![t] = @ \cup {right}]
  /\ MergedFit(p, sib)

\* What a merge leaves of the nodes and their bounds.
LEMMA MergeRest ==
  ASSUME NEW g \in Ghosts, Good(g), NEW t \in Threads, NEW h, NEW p, NEW par, NEW sib,
         NEW left, NEW right, NEW x, NEW z, NEW b,
         MergeDone(g, h, t, p, par, sib, left, right, x, z, b)
  PROVE  /\ Live' = Live \ {right}
         /\ \A q \in DOMAIN node :
              /\ q \in DOMAIN node' /\ q \in PageIds /\ node'[q].leaf = node[q].leaf
              /\ h[q].level = g[q].level /\ h[q].lo = g[q].lo
              /\ q # left => h[q] = g[q]
              /\ q \notin {left, right, par} =>
                   node'[q].array = node[q].array /\ node'[q].next = node[q].next
              /\ node'[q].parent = IF q \in Children(node[right]) THEN left ELSE node[q].parent
         /\ left # INVALID_PAGE_ID /\ right # INVALID_PAGE_ID /\ par # INVALID_PAGE_ID
<1>1. /\ Pairing(t, p, par, sib, left, right, x)
      /\ Merged(left, right, par, x, z, b)
      /\ MergedBounds(h, g, left, right)
      /\ doomed' = [doomed EXCEPT ![t] = @ \cup {right}]
  BY DEF MergeDone
<1>2. \A c \in {left, right, par} : c \in PageIds
  BY <1>1, PairFacts
<1>3. Live' = Live \ {right}
  <2>1. Doomed' = Doomed \cup {right}
    BY <1>1 DEF Doomed, Good, TypeOK
  <2> QED BY <1>1, <2>1 DEF Live, Merged
<1>4. \A q \in Children(node[right]) : q \notin {left, right, par}
  BY <1>1, PairChildren
<1>5. ASSUME NEW q \in DOMAIN node
      PROVE  /\ q \in DOMAIN node' /\ q \in PageIds /\ node'[q].leaf = node[q].leaf
             /\ h[q].level = g[q].level /\ h[q].lo = g[q].lo
             /\ q # left => h[q] = g[q]
             /\ q \notin {left, right, par} =>
                   node'[q].array = node[q].array /\ node'[q].next = node[q].next
             /\ node'[q].parent = IF q \in Children(node[right]) THEN left ELSE node[q].parent
  <2>1. q \in PageIds
    BY NodeFacts
  <2>2. /\ h[q].level = g[q].level /\ h[q].lo = g[q].lo /\ (q # left => h[q] = g[q])
    BY <1>1, <2>1 DEF MergedBounds
  <2>3. q \in DOMAIN node' /\ node'[q].leaf = node[q].leaf
    BY <1>1 DEF Merged
  <2>4. node'[q].parent = IF q \in Children(node[right]) THEN left ELSE node[q].parent
    BY <1>1, <1>4 DEF Merged
  <2>5. q \notin {left, right, par} => node'[q].array = node[q].array /\ node'[q].next = node[q].next
    BY <1>1 DEF Merged
  <2> QED BY <2>1, <2>2, <2>3, <2>4, <2>5
<1>6. left # INVALID_PAGE_ID /\ right # INVALID_PAGE_ID /\ par # INVALID_PAGE_ID
  BY <1>2 DEF PageIds, INVALID_PAGE_ID
<1> QED BY <1>3, <1>5, <1>6

\* The nodes that a merge changes are t's.
LEMMA MergeChanges ==
  ASSUME NEW g \in Ghosts, Good(g), NEW t \in Threads, NEW h, NEW p, NEW par, NEW sib,
         NEW left, NEW right, NEW x, NEW z, NEW b,
         MergeDone(g, h, t, p, par, sib, left, right, x, z, b)
  PROVE  Changes(t, {left, right, par}, g, h)
<1>1. Pairing(t, p, par, sib, left, right, x)
  BY DEF MergeDone
<1>2. \A c \in {left, right, par} :
        /\ c \in Live /\ c \in DOMAIN node /\ c \in PageIds /\ c \in Mine(t) /\ PageOK(g, c)
  BY <1>1, PairFacts
<1>3. /\ left # par /\ right # par /\ left # right /\ Exclusive(t) /\ call[t].op = "Remove"
      /\ node[left].parent = par /\ node[right].parent = par
      /\ {left, right} = {p, sib} /\ g[left].level = g[right].level
      /\ (node[left].leaf <=> node[right].leaf) /\ ~node[par].leaf
  <2>1. /\ left # right /\ Exclusive(t) /\ call[t].op = "Remove"
        /\ node[left].parent = par /\ node[right].parent = par
        /\ {left, right} = {p, sib} /\ g[left].level = g[right].level
        /\ (node[left].leaf <=> node[right].leaf) /\ ~node[par].leaf
    BY <1>1, PairPlaces
  <2>2. left # par /\ right # par
    BY <1>1, PairFacts
  <2> QED BY Zenon, <2>1, <2>2
<1>4. g[right].lo = g[left].hi
  BY <1>1, PairFacts
<1>5. pc[t] = "underflow" /\ p = at[t] /\ par # INVALID_PAGE_ID /\ root_page_id' = root_page_id
  BY <1>1 DEF Pairing
<1>6. Live' = Live \ {right} /\ left # INVALID_PAGE_ID
  BY MergeRest
<1>7. ASSUME NEW q \in DOMAIN node
      PROVE  /\ q \in DOMAIN node' /\ q \in PageIds /\ node'[q].leaf = node[q].leaf
             /\ h[q].level = g[q].level /\ h[q].lo = g[q].lo
             /\ q # left => h[q] = g[q]
             /\ q \notin {left, right, par} =>
                   node'[q].array = node[q].array /\ node'[q].next = node[q].next
             /\ node'[q].parent = IF q \in Children(node[right]) THEN left ELSE node[q].parent
  BY MergeRest
<1>8. ASSUME NEW q \in Children(node[right]) PROVE q \notin {left, right, par} /\ node[q].parent = right
  BY <1>1, <1>8, PairChildren
<1>9. \A c \in {left, right, par} : node'[c].parent = node[c].parent
  BY <1>2, <1>7, <1>8
<1>10. {left, right, par} \subseteq PageIds /\ {left, right, par} \cap DOMAIN node \subseteq Mine(t)
       /\ Live \subseteq DOMAIN node
  BY <1>2 DEF Live
<1>11. ASSUME NEW q \in DOMAIN node \ {left, right, par}
       PROVE  /\ node[q].parent \notin {left, right, par} \cap DOMAIN node => node'[q].parent = node[q].parent
              /\ node[q].parent \in {left, right, par} \cap DOMAIN node => node'[q].parent # INVALID_PAGE_ID
  <2>1. INVALID_PAGE_ID \notin {left, right, par}
    BY <1>2 DEF PageIds, INVALID_PAGE_ID
  <2> QED BY <1>2, <1>7, <1>8, <2>1
<1>12. ASSUME NEW q \in Live \ {left, right, par}, node[q].leaf, node[right].leaf, node[q].next = right
       PROVE  FALSE
  <2>1. PageOK(g, q) /\ q \in PageIds /\ right # INVALID_PAGE_ID
    BY <1>10, <1>2, <1>7 DEF Good, TreeOK, PageIds, INVALID_PAGE_ID
  <2>2. g[right].lo = g[q].hi /\ g[q].level = 0 /\ g[left].level = 0
    BY <1>2, <1>3, <1>12, <2>1 DEF PageOK, NextLeaf, Placed
  <2>3. g[q].hi <= g[left].lo \/ g[left].hi <= g[q].lo
    BY <1>2, <2>2 DEF Good, TreeOK, Disjoint
  <2>4. g[q].lo < g[q].hi /\ g[left].lo < g[left].hi
    BY <1>2, <2>1 DEF PageOK, Placed
  <2>5. g[q].lo \in Nat /\ g[q].hi \in Nat /\ g[left].lo \in Nat /\ g[left].hi \in Nat
    BY <1>2, <2>1, GhostFacts
  <2> QED BY <1>4, <2>2, <2>3, <2>4, <2>5
<1>13. Owns(t, left) /\ Owns(t, right)
  BY <1>2, <1>3, <1>5 DEF Owns
<1>14. at[t] \in {left, right, par}
  BY <1>3, <1>5
<1>15. h[par].lo = g[par].lo /\ h[par].hi = g[par].hi /\ h[par].cap = g[par].cap /\ par \in Live' /\ left \in Live'
  BY <1>2, <1>3, <1>6, <1>7
<1> QED BY <1>2, <1>3, <1>5, <1>6, <1>7, <1>9, <1>10, <1>11, <1>12, <1>13, <1>14, <1>15 DEF Changes

\* The parent, less an entry.
LEMMA MergeParent ==
  ASSUME NEW g \in Ghosts, Good(g), NEW t \in Threads, NEW h, NEW p, NEW par, NEW sib,
         NEW left, NEW right, NEW x, NEW z, NEW b,
         MergeDone(g, h, t, p, par, sib, left, right, x, z, b), Sized(par)', HasParent(par)'
  PROVE  PageOK(h, par)'
<1>. PICK n, sz : n = node[par] /\ sz = Size(n)
  OBVIOUS
<1>1. Pairing(t, p, par, sib, left, right, x) /\ Merged(left, right, par, x, z, b)
      /\ MergedBounds(h, g, left, right)
  BY DEF MergeDone
<1>2. /\ par \in Live /\ par \in DOMAIN node /\ par \in PageIds /\ PageOK(g, par)
      /\ g[par].hi = g[par].cap /\ sz \in Nat /\ left # par /\ right # par /\ left \in Live
      /\ left \in DOMAIN node /\ left \in PageIds
  BY <1>1, PairFacts
<1>3. /\ g[left].lo = Edge(g, par, x) /\ g[right].hi = Edge(g, par, x + 2)
      /\ g[left].level + 1 = g[par].level /\ left # right /\ ~n.leaf /\ Inner(g, par)
      /\ x \in 1 .. sz /\ x + 1 \in 1 .. sz
      /\ n.array[x].second = left /\ n.array[x + 1].second = right /\ node[left].parent = par
  BY <1>1, PairFacts, PairPlaces
<1>4. \A i \in 1 .. sz : (n.array[i].second = left => i = x) /\ (n.array[i].second = right => i = x + 1)
  BY <1>1, PairPlaces
<1>5. Live' = Live \ {right}
  BY MergeRest
<1>6. ASSUME NEW q \in DOMAIN node
      PROVE  /\ q \in PageIds /\ h[q].level = g[q].level /\ h[q].lo = g[q].lo
             /\ q # left => h[q] = g[q]
             /\ node'[q].parent = IF q \in Children(node[right]) THEN left ELSE node[q].parent
  BY MergeRest
<1>7. node'[par].leaf = n.leaf /\ node'[par].array = b /\ h[par] = g[par] /\ h[left].cap = g[right].hi
  BY <1>1, <1>2, <1>6 DEF Merged, MergedBounds
<1>8. /\ Len(b) = sz - 1
      /\ \A j \in 1 .. sz - 1 : b[j] = IF j < x + 1 THEN n.array[j] ELSE n.array[j + 1]
  BY <1>1 DEF Merged, Removed, Size
<1>9. Size(node[par])' = sz - 1 /\ x \in Nat /\ 1 <= x /\ x + 1 <= sz
  BY <1>3, <1>7, <1>8 DEF Size
<1>10. ASSUME NEW i \in 1 .. sz
       PROVE  Edge(h, par, i)' = IF i <= x THEN Edge(g, par, i) ELSE Edge(g, par, i + 1)
  <2>1. CASE i = 1
    BY <1>7, <1>9, <2>1 DEF Edge
  <2>2. CASE i = sz
    <3>1. i # 1 /\ ~(i <= x) /\ i = (sz - 1) + 1 /\ i + 1 # 1
      BY <1>2, <1>9, <2>2
    <3>2. Edge(h, par, i)' = h[par].hi
      BY <1>9, <3>1 DEF Edge
    <3>3. Edge(g, par, i + 1) = g[par].hi
      BY <2>2, <3>1 DEF Edge
    <3> QED BY <1>7, <3>1, <3>2, <3>3
  <2>3. CASE i # 1 /\ i # sz
    <3>1. i \in 1 .. sz - 1 /\ i # (sz - 1) + 1
      BY <1>2, <2>3
    <3>2. Edge(h, par, i)' = b[i].first
      BY <1>7, <1>9, <2>3, <3>1 DEF Edge
    <3>3. CASE i <= x
      <4>1. i < x + 1 /\ i # sz + 1
        BY <1>2, <1>9, <3>3
      <4> QED BY <1>8, <2>3, <3>1, <3>2, <3>3, <4>1 DEF Edge
    <3>4. CASE ~(i <= x)
      <4>1. ~(i < x + 1) /\ i + 1 # 1 /\ i + 1 # sz + 1
        BY <1>2, <1>9, <2>3, <3>1, <3>4
      <4>2. b[i] = n.array[i + 1]
        BY <1>8, <3>1, <4>1
      <4>3. Edge(g, par, i + 1) = n.array[i + 1].first
        BY <4>1 DEF Edge
      <4> QED BY <3>2, <3>4, <4>2, <4>3
    <3> QED BY <3>3, <3>4
  <2> QED BY <2>1, <2>2, <2>3
<1>11. \A i, j \in 1 .. sz + 1 : i < j => Edge(g, par, i) < Edge(g, par, j)
  BY <1>3 DEF Inner
<1>12. ASSUME NEW i \in 1 .. sz, NEW j \in 1 .. sz, i < j
       PROVE  Edge(h, par, i)' < Edge(h, par, j)'
  <2>0. i \in 1 .. sz + 1 /\ j \in 1 .. sz + 1 /\ i + 1 \in 1 .. sz + 1 /\ j + 1 \in 1 .. sz + 1
    BY <1>2
  <2>1. CASE j <= x
    <3>1. i <= x
      BY <1>9, <1>12, <2>1
    <3> QED BY <1>10, <1>11, <1>12, <2>0, <2>1, <3>1
  <2>2. CASE ~(j <= x) /\ i <= x
    <3>1. i < j + 1
      BY <1>12
    <3> QED BY <1>10, <1>11, <2>0, <2>2, <3>1
  <2>3. CASE ~(j <= x) /\ ~(i <= x)
    <3>1. i + 1 < j + 1
      BY <1>12
    <3> QED BY <1>10, <1>11, <2>0, <2>3, <3>1
  <2> QED BY <2>1, <2>2, <2>3
<1>13. ASSUME NEW i \in 1 .. sz, i # x, i # x + 1
       PROVE  LET c == n.array[i].second IN
              /\ c \in PageIds /\ c \in Live' /\ node'[c].parent = par /\ h[c].level + 1 = h[par].level
              /\ h[c].lo = Edge(g, par, i) /\ h[c].cap = Edge(g, par, i + 1)
  <2>. PICK c : c = n.array[i].second
    BY Zenon
  <2>1. /\ c \in PageIds /\ c \in Live /\ node[c].parent = par /\ g[c].level + 1 = g[par].level
        /\ g[c].lo = Edge(g, par, i) /\ g[c].cap = Edge(g, par, i + 1)
    BY <1>3 DEF Inner, ChildOf
  <2>2. c # left /\ c # right
    BY <1>4, <1>13
  <2>3. c \in DOMAIN node /\ c \notin Children(node[right])
    <3>1. c \in Children(node[right]) => node[c].parent = right
      BY <1>1, PairChildren
    <3> QED BY <1>2, <2>1, <3>1 DEF Live
  <2>4. h[c] = g[c] /\ node'[c].parent = par
    BY <1>6, <2>1, <2>2, <2>3
  <2> QED BY <1>5, <1>7, <2>1, <2>2, <2>4
<1>14. ASSUME NEW i \in 1 .. sz - 1
       PROVE  b[i].second \in PageIds /\ ChildOf(h, par, i)'
  <2>0. i \in 1 .. sz /\ i + 1 \in 1 .. sz /\ node'[par].array[i] = b[i]
    BY <1>2, <1>7
  <2>1. CASE i < x
    <3>1. i # x /\ i # x + 1 /\ i < x + 1 /\ i <= x /\ i + 1 <= x
      BY <1>9, <2>1
    <3>2. b[i] = n.array[i]
      BY <1>8, <3>1
    <3>3. Edge(h, par, i)' = Edge(g, par, i) /\ Edge(h, par, i + 1)' = Edge(g, par, i + 1)
      BY <1>10, <2>0, <3>1
    <3> QED BY <1>13, <2>0, <3>1, <3>2, <3>3 DEF ChildOf
  <2>2. CASE i = x
    <3>1. b[i] = n.array[i]
      BY <1>8, <1>9, <2>2
    <3>2. Edge(h, par, i)' = Edge(g, par, x) /\ Edge(h, par, i + 1)' = Edge(g, par, x + 2)
      <4>1. ~(i + 1 <= x) /\ (i + 1) + 1 = x + 2 /\ i <= x
        BY <1>9, <2>2
      <4> QED BY <1>10, <2>0, <2>2, <4>1
    <3>3. left \in Live' /\ node'[left].parent = par
      <4>1. left \notin Children(node[right])
        BY <1>1, PairChildren
      <4> QED BY <1>2, <1>3, <1>5, <1>6, <4>1
    <3>4. h[left].level + 1 = h[par].level /\ h[left].lo = Edge(g, par, x) /\ h[left].cap = Edge(g, par, x + 2)
      BY <1>2, <1>3, <1>6, <1>7
    <3>5. node'[par].array[i].second = left /\ b[i].second \in PageIds
      BY Zenon, <1>2, <1>3, <2>0, <2>2, <3>1
    <3> QED BY <3>2, <3>3, <3>4, <3>5 DEF ChildOf
  <2>3. CASE i > x
    <3>. PICK l : l = i + 1
      OBVIOUS
    <3>1. l \in 1 .. sz /\ l # x /\ l # x + 1 /\ ~(i < x + 1) /\ ~(i <= x) /\ ~(i + 1 <= x)
          /\ (i + 1) + 1 = l + 1
      BY <1>9, <2>0, <2>3
    <3>2. b[i] = n.array[l]
      BY <1>8, <3>1
    <3>3. Edge(h, par, i)' = Edge(g, par, l) /\ Edge(h, par, i + 1)' = Edge(g, par, l + 1)
      BY <1>10, <2>0, <3>1
    <3> QED BY <1>13, <2>0, <3>1, <3>2, <3>3 DEF ChildOf
  <2> QED BY <1>9, <2>1, <2>2, <2>3
<1>15. Inner(h, par)'
  <2>1. g[par].lo # 0 => b[1].first = g[par].lo
    <3>1. 1 \in 1 .. sz - 1 /\ 1 < x + 1
      BY <1>2, <1>9
    <3>2. b[1] = n.array[1]
      BY <1>8, <3>1
    <3> QED BY <1>3, <3>2 DEF Inner
  <2>2. sz - 1 >= 1 /\ (sz - 1) + 1 = sz
    BY <1>2, <1>9
  <2> QED BY <1>7, <1>9, <1>12, <1>14, <2>1, <2>2 DEF Inner
<1>16. Placed(h, par)'
  <2>1. Placed(g, par)
    BY <1>2 DEF PageOK
  <2> QED BY <1>2, <1>7, <2>1 DEF Placed
<1> QED BY <1>3, <1>7, <1>15, <1>16 DEF PageOK

\* The node that has got the entries of both.
LEMMA MergeLeft ==
  ASSUME NEW g \in Ghosts, Good(g), NEW t \in Threads, NEW h, NEW p, NEW par, NEW sib,
         NEW left, NEW right, NEW x, NEW z, NEW b,
         MergeDone(g, h, t, p, par, sib, left, right, x, z, b), HasParent(left)'
  PROVE  PageOK(h, left)'
<1>. PICK m, n, N : m = Size(node[left]) /\ n = Size(node[right]) /\ N = Len(z)
  OBVIOUS
<1>1. Pairing(t, p, par, sib, left, right, x) /\ Merged(left, right, par, x, z, b)
      /\ MergedBounds(h, g, left, right) /\ MergedFit(p, sib)
  BY DEF MergeDone
<1>2. /\ left \in Live /\ left \in DOMAIN node /\ left \in PageIds /\ PageOK(g, left)
      /\ right \in Live /\ right \in DOMAIN node /\ right \in PageIds /\ PageOK(g, right)
      /\ m \in Nat /\ n \in Nat /\ g[right].lo = g[left].hi /\ g[right].hi = g[right].cap
      /\ left # par /\ right # par /\ Half(node[sib]) <= Size(node[sib])
  BY <1>1, PairFacts
<1>3. /\ left # right /\ (node[left].leaf <=> node[right].leaf)
      /\ g[left].level = g[right].level /\ node[left].parent = par
      /\ (p = left /\ sib = right) \/ (p = right /\ sib = left)
  <2>1. {left, right} = {p, sib}
    BY <1>1 DEF Pairing
  <2>2. /\ left # right /\ (node[left].leaf <=> node[right].leaf)
        /\ g[left].level = g[right].level /\ node[left].parent = par
    BY <1>1, PairPlaces
  <2> QED BY <2>1, <2>2
<1>4. Live' = Live \ {right}
  BY MergeRest
<1>5. ASSUME NEW q \in DOMAIN node
      PROVE  /\ node'[q].leaf = node[q].leaf /\ h[q].level = g[q].level /\ h[q].lo = g[q].lo
             /\ q # left => h[q] = g[q]
             /\ node'[q].parent = IF q \in Children(node[right]) THEN left ELSE node[q].parent
  BY MergeRest
<1>6. /\ node'[left].leaf = node[left].leaf /\ node'[left].array = z /\ node'[left].parent = par
      /\ node'[left].next = (IF node[left].leaf THEN node[right].next ELSE node[left].next)
      /\ Joined(z, node[left].array, node[right].array)
      /\ h[left].lo = g[left].lo /\ h[left].hi = g[right].hi /\ h[left].cap = g[right].hi
      /\ h[left].level = g[left].level
  BY Zenon, <1>1, <1>3 DEF Merged, MergedBounds
<1>7. N = m + n /\ N \in Nat /\ Size(node[left])' = N
  <2>1. Len(z) = Len(node[left].array) + Len(node[right].array)
    BY <1>6 DEF Joined
  <2>2. Len(z) = m + n /\ Size(node[left])' = Len(z)
    BY <1>6, <2>1 DEF Size
  <2> QED BY <1>2, <2>2
<1>8. Piece(z, left, 0, N)
  BY <1>6 DEF Piece
<1>9. /\ g[left].lo \in Nat /\ g[left].hi \in Nat /\ g[right].hi \in Nat
      /\ g[left].lo < g[left].hi /\ g[right].lo < g[right].hi /\ g[right].cap <= Top
      /\ (node[left].leaf <=> g[left].level = 0)
  BY <1>2, GhostFacts DEF PageOK, Placed
<1>10. Placed(h, left)'
  BY <1>2, <1>6, <1>9 DEF Placed
<1>11. Sized(left)'
  <2>1. N <= MaxSize(node[left]) /\ Half(node[left]) <= N /\ node[left].parent # INVALID_PAGE_ID
    <3>1. MaxSize(node[p]) = MaxSize(node[left]) /\ Half(node[sib]) = Half(node[left])
      BY <1>3 DEF MaxSize, Half
    <3>2. Size(node[p]) + Size(node[sib]) = N /\ Size(node[sib]) <= N
      <4>1. CASE p = left /\ sib = right
        BY <1>2, <1>7, <4>1
      <4>2. CASE p = right /\ sib = left
        BY <1>2, <1>7, <4>2
      <4> QED BY <1>3, <4>1, <4>2
    <3>3. N <= MaxSize(node[p])
      BY <1>1, <3>2 DEF MergedFit
    <3>4. Half(node[left]) \in Nat /\ Size(node[sib]) \in Nat
      <4>1. Half(node[left]) \in Nat
        BY TreeAssumption DEF Half
      <4> QED BY <1>2, <1>3, <4>1
    <3>5. node[left].parent # INVALID_PAGE_ID
      BY Zenon, <1>1, <1>3 DEF Pairing
    <3> QED BY <1>2, <1>7, <3>1, <3>2, <3>3, <3>4, <3>5
  <2>2. MaxSize(node[left])' = MaxSize(node[left]) /\ Low(node[left])' = Half(node[left])
    BY <1>3, <1>6, <2>1 DEF MaxSize, Low, Half
  <2> QED BY <1>7, <2>1, <2>2 DEF Sized
<1>12. CASE node[left].leaf
  <2>1. LeafRow(g, left, right, z, N)
    BY <1>1, <1>6, <1>12, LeafRowIs
  <2>2. LeafEntries(h, left)'
    <3>1. \A i \in 1 .. N : h[left].lo <= z[0 + i].first /\ z[0 + i].first < h[left].hi
      BY <1>6, <2>1 DEF LeafRow
    <3>2. 0 \in Nat /\ 0 + N <= N
      BY <1>7
    <3> QED BY <1>7, <1>8, <2>1, <3>1, <3>2, LeafPiece
  <2>3. NextLeaf(h, left)'
    <3>. PICK q : q = node[right].next
      OBVIOUS
    <3>1. node'[left].next = q /\ NextLeaf(g, right)
      BY <1>2, <1>3, <1>6, <1>12 DEF PageOK
    <3>2. CASE q = INVALID_PAGE_ID
      BY Zenon, <1>6, <3>1, <3>2 DEF NextLeaf
    <3>3. CASE q # INVALID_PAGE_ID
      <4>1. q \in Live /\ node[q].leaf /\ g[q].lo = g[right].hi
        BY <3>1, <3>3 DEF NextLeaf
      <4>2. q # right
        BY <1>2, <1>9, <4>1
      <4>3. q \in Live' /\ node'[q].leaf /\ h[q].lo = g[q].lo
        BY <1>4, <1>5, <4>1, <4>2 DEF Live
      <4> QED BY <1>6, <3>1, <3>3, <4>1, <4>3 DEF NextLeaf
    <3> QED BY <3>2, <3>3
  <2> QED BY <1>6, <1>10, <1>11, <1>12, <2>2, <2>3 DEF PageOK
<1>13. CASE ~node[left].leaf
  <2>1. PICK E : E = [i \in 1 .. N + 1 |-> RowEdge(g, left, right, i)]
    OBVIOUS
  <2>2. InnerRow(g, left, right, z, E, N)
    BY <1>1, <1>6, <1>13, <2>1, InnerRowIs
  <2>0. ASSUME NEW d \in {left, right}, NEW r \in Children(node[d])
        PROVE  r \notin {left, right, par}
    BY <1>1, <2>0, PairChildren
  <2>3. ASSUME NEW i \in 1 .. N
        PROVE  LET q == z[0 + i].second IN
               /\ q \in Live' /\ node'[q].parent = left
               /\ h[q].level = g[q].level /\ h[q].lo = g[q].lo /\ h[q].cap = g[q].cap
    <3>. PICK q, c : q = z[i].second /\ c = IF i <= m THEN left ELSE right
      OBVIOUS
    <3>1. q \in Live /\ node[q].parent = c
      BY <2>2 DEF InnerRow
    <3>2. q \in Children(node[c])
      <4>1. CASE i <= m
        <5>1. i \in 1 .. m /\ c = left
          BY <1>2, <4>1
        <5>2. z[i] = node[left].array[i]
          BY <1>6, <5>1 DEF Joined, Size
        <5> QED BY <1>13, <5>1, <5>2 DEF Children
      <4>2. CASE ~(i <= m)
        <5>. PICK k : k = i - m
          OBVIOUS
        <5>1. k \in 1 .. n /\ i = m + k /\ c = right
          BY <1>2, <1>7, <4>2
        <5>2. z[i] = node[right].array[k]
          BY <1>6, <5>1 DEF Joined, Size
        <5> QED BY <1>3, <1>13, <5>1, <5>2 DEF Children
      <4> QED BY <4>1, <4>2
    <3>3. q \notin {left, right, par}
      <4>1. c \in {left, right}
        OBVIOUS
      <4> QED BY <2>0, <3>2, <4>1
    <3>4. q \in DOMAIN node /\ q \in Live'
      BY <1>4, <3>1, <3>3 DEF Live
    <3>5. node'[q].parent = left
      BY <1>5, <3>1, <3>2, <3>4
    <3>6. h[q] = g[q] /\ 0 + i = i
      BY <1>5, <3>3, <3>4
    <3> QED BY <3>4, <3>5, <3>6
  <2>4. Inner(g, left)
    BY <1>2, <1>13 DEF PageOK
  <2>5. m >= 1 /\ 0 \in Nat /\ N >= 1 /\ 0 + N <= N /\ 0 + 1 = 1 /\ 0 + N + 1 = N + 1
    BY <1>2, <1>7, <2>4 DEF Inner
  <2>6. h[left].lo = E[0 + 1] /\ h[left].hi = E[0 + N + 1]
    BY <1>6, <2>2, <2>5 DEF InnerRow
  <2>7. Inner(h, left)'
    <3>1. Told(h, g, z, 0, N, left)
      BY <2>3 DEF Told
    <3> QED BY <1>6, <1>7, <1>8, <2>2, <2>5, <2>6, <3>1, InnerPiece
  <2> QED BY <1>6, <1>10, <1>11, <1>13, <2>7 DEF PageOK
<1> QED BY <1>12, <1>13

\* The tree is in order after a merge.
LEMMA MergeTree ==
  ASSUME NEW g \in Ghosts, Good(g), NEW t \in Threads, Apart(t), NEW h, NEW p, NEW par, NEW sib,
         NEW left, NEW right, NEW x, NEW z, NEW b,
         MergeDone(g, h, t, p, par, sib, left, right, x, z, b), Sized(par)'
  PROVE  TreeAfter({left, right, par}, h) /\ IsChild(left, par)'
<1>. PICK n, sz : n = node[par] /\ sz = Size(n)
  OBVIOUS
<1>1. Pairing(t, p, par, sib, left, right, x) /\ Merged(left, right, par, x, z, b)
      /\ MergedBounds(h, g, left, right)
  BY DEF MergeDone
<1>2. \A c \in {left, right, par} :
        /\ c \in Live /\ c \in DOMAIN node /\ c \in PageIds /\ c \in Mine(t) /\ PageOK(g, c) /\ ~Hangs(c)
        /\ Size(node[c]) \in Nat
  BY <1>1, PairFacts
<1>3. /\ left # par /\ right # par /\ left # right
      /\ node[left].parent = par /\ node[right].parent = par
      /\ g[left].level = g[right].level /\ ~n.leaf
      /\ x \in 1 .. sz /\ x + 1 \in 1 .. sz
      /\ n.array[x].second = left
      /\ g[left].level + 1 = g[par].level
  BY <1>1, PairFacts, PairPlaces
<1>4. g[right].lo = g[left].hi
  BY <1>1, PairFacts
<1>5. \A i \in 1 .. sz : n.array[i].second = right => i = x + 1
  BY <1>1, PairPlaces
<1>6. pc[t] = "underflow" /\ par # INVALID_PAGE_ID /\ root_page_id' = root_page_id
  BY Zenon, <1>1 DEF Pairing
<1>7. Live' = Live \ {right} /\ left # INVALID_PAGE_ID /\ right # INVALID_PAGE_ID
  BY MergeRest
<1>8. ASSUME NEW q \in DOMAIN node
      PROVE  /\ q \in DOMAIN node' /\ q \in PageIds /\ node'[q].leaf = node[q].leaf
             /\ h[q].level = g[q].level /\ h[q].lo = g[q].lo
             /\ q # left => h[q] = g[q]
             /\ q \notin {left, right, par} => node'[q].array = node[q].array
             /\ node'[q].parent = IF q \in Children(node[right]) THEN left ELSE node[q].parent
  BY MergeRest
<1>9. ASSUME NEW q \in Children(node[right]) PROVE q \notin {left, right, par} /\ node[q].parent = right
  BY <1>1, <1>9, PairChildren
<1>10. Live \subseteq DOMAIN node
  BY DEF Live
<1>11. /\ node'[left].array = z /\ node'[par].array = b /\ Joined(z, node[left].array, node[right].array)
       /\ h[left].lo = g[left].lo /\ h[left].hi = g[right].hi
  BY <1>1 DEF Merged, MergedBounds
<1>12. /\ Len(b) = sz - 1
       /\ \A j \in 1 .. sz - 1 : b[j] = IF j < x + 1 THEN n.array[j] ELSE n.array[j + 1]
  BY <1>1 DEF Merged, Removed, Size
<1>13. ASSUME NEW i \in 1 .. sz, i # x + 1
       PROVE  \E j \in 1 .. sz - 1 : b[j].second = n.array[i].second
  <2>1. CASE i < x + 1
    <3>1. i \in 1 .. sz - 1
      BY <1>2, <1>3, <2>1
    <3> QED BY <1>12, <2>1, <3>1
  <2>2. CASE i > x + 1
    <3>. PICK j : j = i - 1
      OBVIOUS
    <3>1. j \in 1 .. sz - 1 /\ ~(j < x + 1) /\ j + 1 = i
      BY <1>2, <1>3, <2>2
    <3>2. b[j] = n.array[i]
      BY <1>12, <3>1
    <3> QED BY <3>1, <3>2
  <2> QED BY <1>3, <1>13, <2>1, <2>2
<1>14. Size(node[par])' = sz - 1
  BY <1>11, <1>12 DEF Size
<1>15. IsChild(left, par)'
  <2>1. x # x + 1
    BY <1>3
  <2>2. \E j \in 1 .. sz - 1 : b[j].second = left
    BY <1>3, <1>13, <2>1
  <2> QED BY <1>11, <1>14, <2>2 DEF IsChild
<1>16. ASSUME NEW i \in 1 .. Size(node[left]) PROVE \E j \in 1 .. Len(z) : z[j] = node[left].array[i]
  <2>4. PICK m, r : m = Len(node[left].array) /\ r = Len(node[right].array)
    OBVIOUS
  <2>1. m \in Nat /\ r \in Nat /\ i \in 1 .. m
    BY <1>2, <2>4 DEF Size
  <2>2. Len(z) = m + r /\ z[i] = node[left].array[i]
    BY <1>11, <2>1, <2>4 DEF Joined
  <2>3. i \in 1 .. m + r
    BY <2>1
  <2> QED BY <2>2, <2>3
<1>17. ASSUME NEW i \in 1 .. Size(node[right]) PROVE \E j \in 1 .. Len(z) : z[j] = node[right].array[i]
  <2>4. PICK m, r : m = Len(node[left].array) /\ r = Len(node[right].array)
    OBVIOUS
  <2>1. m \in Nat /\ r \in Nat /\ i \in 1 .. r
    BY <1>2, <2>4 DEF Size
  <2>2. Len(z) = m + r /\ z[m + i] = node[right].array[i]
    BY <1>11, <2>1, <2>4 DEF Joined
  <2>3. m + i \in 1 .. m + r
    BY <2>1
  <2> QED BY <2>2, <2>3
<1>18. ASSUME NEW q \in Live \ {left, right, par}, node[q].parent \in {left, right, par}
       PROVE  HasParent(q)'
  <2>. PICK c : c = node[q].parent
    OBVIOUS
  <2>1. q \in DOMAIN node /\ HasParent(q) /\ c # INVALID_PAGE_ID /\ c \in Mine(t) \cap PageIds /\ c \in Live
    BY <1>2, <1>6, <1>7, <1>10, <1>18 DEF Good, TreeOK, PageOK
  <2>2. ~Hangs(q)
    BY <1>6, <2>1, HangsOwn
  <2>3. ~node[c].leaf /\ IsChild(q, c)
    BY <2>1, <2>2 DEF HasParent
  <2>4. PICK i \in 1 .. Size(node[c]) : node[c].array[i].second = q
    BY <2>3 DEF IsChild
  <2>5. CASE c = par
    <3>1. q \notin Children(node[right])
      BY <1>3, <1>9, <2>5
    <3>2. node'[q].parent = par /\ par \in Live' /\ ~node'[par].leaf
      BY <1>2, <1>3, <1>7, <1>8, <2>1, <2>5, <3>1
    <3>3. i # x + 1
      <4>1. n.array[x + 1].second = right
        BY <1>1, PairPlaces
      <4> QED BY <1>18, <2>4, <2>5, <4>1
    <3>4. \E j \in 1 .. sz - 1 : b[j].second = q
      BY <1>13, <2>4, <2>5, <3>3
    <3>5. IsChild(q, par)'
      BY <1>11, <1>14, <3>4 DEF IsChild
    <3> QED BY <1>6, <3>2, <3>5 DEF HasParent
  <2>6. CASE c \in {left, right}
    <3>1. node'[q].parent = left
      <4>1. CASE c = left
        BY <1>3, <1>8, <1>9, <2>1, <4>1
      <4>2. CASE c = right
        <5>1. q \in Children(node[right])
          BY <2>3, <2>4, <4>2 DEF Children
        <5> QED BY <1>8, <2>1, <5>1
      <4> QED BY <2>6, <4>1, <4>2
    <3>2. ~node'[left].leaf /\ left \in Live'
      <4>1. ~node[left].leaf
        <5>1. node[left].leaf <=> node[right].leaf
          BY <1>1, PairPlaces
        <5> QED BY <2>3, <2>6, <5>1
      <4> QED BY <1>2, <1>3, <1>7, <1>8, <4>1
    <3>3. \E j \in 1 .. Len(z) : z[j].second = q
      <4>1. CASE c = left
        <5>1. \E j \in 1 .. Len(z) : z[j] = node[left].array[i]
          BY <1>16, <2>4, <4>1
        <5> QED BY <2>4, <4>1, <5>1
      <4>2. CASE c = right
        <5>1. \E j \in 1 .. Len(z) : z[j] = node[right].array[i]
          BY <1>17, <2>4, <4>2
        <5> QED BY <2>4, <4>2, <5>1
      <4> QED BY <2>6, <4>1, <4>2
    <3>4. IsChild(q, left)'
      BY <1>11, <3>3 DEF IsChild, Size
    <3> QED BY <1>7, <3>1, <3>2, <3>4 DEF HasParent
  <2> QED BY <1>18, <2>5, <2>6
<1>19. PageOK(h, left)'
  <2>1. left \notin Children(node[right])
    BY <1>9
  <2>2. node'[left].parent = par /\ par \in Live' /\ ~node'[par].leaf
    BY <1>2, <1>3, <1>7, <1>8, <2>1
  <2>3. HasParent(left)'
    BY <1>6, <1>15, <2>2 DEF HasParent
  <2> QED BY <2>3, MergeLeft
<1>20. HasParent(par)'
  <2>. PICK q : q = n.parent
    OBVIOUS
  <2>1. HasParent(par) /\ node'[par].parent = q
    BY <1>1, <1>2 DEF PageOK, Merged
  <2>2. CASE q = INVALID_PAGE_ID
    BY <1>2, <1>6, <2>1, <2>2 DEF HasParent
  <2>3. CASE q # INVALID_PAGE_ID
    <3>1. q \in Live /\ ~node[q].leaf /\ IsChild(par, q)
      BY <1>2, <2>1, <2>3 DEF HasParent
    <3>2. q \notin {left, right, par}
      <4>1. ChildOf(g, q, ValueIndex(node[q], par)) /\ node[q].array[ValueIndex(node[q], par)].second = par
        BY <3>1, ChildPosition
      <4>2. g[par].level + 1 = g[q].level
        BY <4>1 DEF ChildOf
      <4> QED BY <1>2, <1>3, <4>2, GhostFacts
    <3>3. q \in Live' /\ node'[q].leaf = node[q].leaf /\ node'[q].array = node[q].array
      BY Zenon, <1>7, <1>8, <1>10, <3>1, <3>2
    <3>4. IsChild(par, q)'
      BY <3>1, <3>3 DEF IsChild, Size
    <3> QED BY <2>1, <2>3, <3>1, <3>3, <3>4 DEF HasParent
  <2> QED BY <2>2, <2>3
<1>21. PageOK(h, par)'
  BY <1>20, MergeParent
<1>22. Changes(t, {left, right, par}, g, h)
  BY MergeChanges
<1>23. Rooted(h)'
  <2>1. root_page_id # INVALID_PAGE_ID /\ root_page_id \in Live
        /\ node[root_page_id].parent = INVALID_PAGE_ID
    BY <1>2 DEF Good, TreeOK, Rooted
  <2>2. root_page_id # left /\ root_page_id # right
    BY <1>3, <1>6, <2>1
  <2>3. /\ root_page_id \in Live' /\ h[root_page_id] = g[root_page_id]
    BY <1>7, <1>8, <1>10, <2>1, <2>2
  <2>4. root_page_id = par => node'[root_page_id].parent = node[root_page_id].parent
    BY <1>1 DEF Merged
  <2>5. \A c \in {left, right, par} : c \in Live' => \E q \in Live : h[c].level = g[q].level
    BY <1>2, <1>8
  <2> QED BY <1>6, <1>22, <2>1, <2>2, <2>3, <2>4, <2>5, RootedKept
<1>24. ASSUME NEW c \in {left, right, par}, NEW q \in Live', c \in Live', c # q, h[c].level = h[q].level
       PROVE  h[c].hi <= h[q].lo \/ h[q].hi <= h[c].lo
  <2>1. c \in Live /\ q \in Live /\ c # right /\ q # right
    BY <1>7, <1>24
  <2>2. \A r, s \in Live : r # s /\ g[r].level = g[s].level => g[r].hi <= g[s].lo \/ g[s].hi <= g[r].lo
    BY DEF Good, TreeOK, Disjoint
  <2>3. \A r \in Live : /\ g[r].lo \in Nat /\ g[r].hi \in Nat /\ g[r].lo < g[r].hi
                        /\ h[r].level = g[r].level /\ h[r].lo = g[r].lo /\ (r # left => h[r].hi = g[r].hi)
    <3>1. ASSUME NEW r \in Live
          PROVE  /\ g[r].lo \in Nat /\ g[r].hi \in Nat /\ g[r].lo < g[r].hi
                 /\ h[r].level = g[r].level /\ h[r].lo = g[r].lo /\ (r # left => h[r].hi = g[r].hi)
      <4>1. r \in DOMAIN node /\ r \in PageIds /\ PageOK(g, r)
        BY <1>8, <1>10 DEF Good, TreeOK
      <4> QED BY <1>8, <4>1, GhostFacts DEF PageOK, Placed
    <3> QED BY <3>1
  <2>4. ASSUME NEW r \in Live, r # left, r # right, g[r].level = g[left].level
        PROVE  h[left].hi <= h[r].lo \/ h[r].hi <= h[left].lo
    <3>1. g[r].hi <= g[left].lo \/ g[left].hi <= g[r].lo
      BY <1>2, <2>2, <2>4
    <3>2. g[r].hi <= g[right].lo \/ g[right].hi <= g[r].lo
      BY <1>2, <1>3, <2>2, <2>4
    <3>3. /\ g[r].lo \in Nat /\ g[r].hi \in Nat /\ g[r].lo < g[r].hi
          /\ g[left].lo \in Nat /\ g[left].hi \in Nat /\ g[right].hi \in Nat
          /\ h[r].lo = g[r].lo /\ h[r].hi = g[r].hi
      BY <1>2, <2>3, <2>4
    <3> QED BY <1>4, <1>11, <3>1, <3>2, <3>3
  <2>5. CASE c = left
    BY <1>24, <2>1, <2>3, <2>4, <2>5
  <2>6. CASE q = left
    BY <1>24, <2>1, <2>3, <2>4, <2>6
  <2>7. CASE c # left /\ q # left
    BY <1>24, <2>1, <2>2, <2>3, <2>7
  <2> QED BY <2>5, <2>6, <2>7
<1> QED
  <2>1. \A c \in {left, right, par} : c \in Live' => PageOK(h, c)'
    BY <1>7, <1>19, <1>21
  <2> QED BY <1>15, <1>18, <1>23, <1>24, <2>1 DEF TreeAfter

-----------------------------------------------------------------------------
(* The thread that merges or redistributes. *)

\* The step has its two nodes.
LEMMA PairingIs ==
  ASSUME NEW g \in Ghosts, Good(g), NEW t \in Threads, CoalesceOrRedistribute(t),
         NEW p, p = at[t], NEW par, par = node[p].parent, NEW sib, sib = Sibling(p),
         NEW left, left = IF IsFirst(p) THEN p ELSE sib,
         NEW right, right = IF IsFirst(p) THEN sib ELSE p,
         NEW x, x = ValueIndex(node[par], left)
  PROVE  Pairing(t, p, par, sib, left, right, x)
<1>1. /\ pc[t] = "underflow" /\ par # INVALID_PAGE_ID /\ Granted(latch[sib], t)
      /\ pages' = [pages EXCEPT ![t] = @ \cup {sib}] /\ root_page_id' = root_page_id
  BY DEF CoalesceOrRedistribute, At
<1>2. pages'[t] = pages[t] \cup {sib}
  BY <1>1 DEF Good, TypeOK
<1>3. CASE IsFirst(p)
  BY <1>1, <1>2, <1>3 DEF Pairing
<1>4. CASE ~IsFirst(p)
  BY <1>1, <1>2, <1>4 DEF Pairing
<1> QED BY <1>3, <1>4

\* What it does to the latches.
LEMMA PairLatches ==
  ASSUME NEW g \in Ghosts, Good(g), NEW t \in Threads, CoalesceOrRedistribute(t),
         NEW p, NEW par, NEW sib, NEW left, NEW right, NEW x,
         Pairing(t, p, par, sib, left, right, x)
  PROVE  /\ Acts(t) /\ Apart(t) /\ LatchesOK(t) /\ HeaderOK'
         /\ pc[t] = "underflow" /\ p = at[t]
         /\ UNCHANGED <<root_page_id, header, rootLock, call, target, fresh, answer>>
         /\ latch' \in [PageIds -> Lock] /\ pages' \in [Threads -> SUBSET PageIds]
         /\ pages'[t] = pages[t] \cup {sib}
<1>1. /\ pc[t] = "underflow" /\ p = at[t] /\ par = node[p].parent /\ par # INVALID_PAGE_ID
      /\ sib = Sibling(p) /\ Granted(latch[sib], t) /\ pages'[t] = pages[t] \cup {sib}
  BY Zenon DEF Pairing
<1>2. /\ latch' = [latch EXCEPT ![sib] = Locked(@, t)]
      /\ pages' = [pages EXCEPT ![t] = @ \cup {sib}]
      /\ UNCHANGED <<root_page_id, header, rootLock, call, target, fresh, answer>>
      /\ Acts(t) /\ TypeOK
  BY <1>1 DEF CoalesceOrRedistribute, Good, Acts, Step
<1>3. /\ Exclusive(t) /\ sib \in PageIds /\ sib \notin pages[t]
  <2>1. Exclusive(t) /\ sib \in Live /\ sib \notin pages[t]
    BY PairPlaces
  <2> QED BY <2>1, NodeFacts DEF Live
<1>4. Apart(t)
  BY <1>1, <1>3, ApartIs
<1>5. LatchStep(t, {}, {sib})
  BY <1>1, <1>2, <1>3 DEF LatchStep, TypeOK
<1>6. LatchesOK(t)
  <2>1. Exclusive(t)' <=> Exclusive(t)
    BY <1>2 DEF Exclusive
  <2>2. \A q \in PageIds : Waits(t, q) => q \in {sib}
    BY <1>1 DEF Waits
  <2> QED BY <1>5, <2>1, <2>2 DEF LatchesOK
<1>7. HeaderOK'
  BY <1>2 DEF Good, HeaderOK
<1>8. latch' \in [PageIds -> Lock] /\ pages' \in [Threads -> SUBSET PageIds]
  BY <1>2, <1>3, LockFields DEF TypeOK
<1> QED BY <1>1, <1>2, <1>4, <1>6, <1>7, <1>8

\* A merge keeps the tree good.
LEMMA MergeKeeps ==
  ASSUME NEW g \in Ghosts, Good(g), NEW t \in Threads, CoalesceOrRedistribute(t),
         NEW p, NEW par, NEW sib, NEW left, NEW right, NEW x,
         Pairing(t, p, par, sib, left, right, x),
         left = (IF IsFirst(p) THEN p ELSE sib), right = (IF IsFirst(p) THEN sib ELSE p),
         MergedFit(p, sib)
  PROVE  \E h \in Ghosts : Good(h)'
<1>. PICK n, point : n = node[par] /\ point = IF ParentTooSmall(par) THEN "underflow" ELSE "free"
  OBVIOUS
<1>1. /\ Acts(t) /\ Apart(t) /\ LatchesOK(t) /\ HeaderOK'
      /\ pc[t] = "underflow" /\ p = at[t]
      /\ UNCHANGED <<root_page_id, header, rootLock, call, target, fresh, answer>>
      /\ latch' \in [PageIds -> Lock] /\ pages' \in [Threads -> SUBSET PageIds]
      /\ pages'[t] = pages[t] \cup {sib}
      /\ TypeOK /\ ThreadOK(g, t) /\ PointOf(t)
  BY PairLatches DEF Good, ThreadOK
<1>2. par = node[p].parent /\ par # INVALID_PAGE_ID /\ sib = Sibling(p)
  BY Zenon DEF Pairing
<1>3. /\ node' = Merge(left, right, par) /\ doomed' = [doomed EXCEPT ![t] = @ \cup {right}]
      /\ at' = [at EXCEPT ![t] = par]
      /\ IF ParentTooSmall(par) THEN pc' = pc ELSE pc' = [pc EXCEPT ![t] = "free"]
  BY <1>1, <1>2 DEF CoalesceOrRedistribute, GoTo
<1>4. \A c \in {left, right, par} :
        /\ c \in Live /\ c \in DOMAIN node /\ c \in PageIds /\ c \in pages'[t] /\ c \notin doomed[t]
        /\ Size(node[c]) \in Nat
  BY PairFacts
<1>5. /\ Exclusive(t) /\ call[t].op = "Remove" /\ par \in pages[t] /\ p \in pages[t]
      /\ left # right /\ left \in {p, sib} /\ right \in {p, sib}
      /\ g[left].level = g[right].level /\ g[left].level + 1 = g[par].level
      /\ ~n.leaf /\ Low(n) <= Size(n) /\ Size(n) <= InternalMax
      /\ node[left].parent = par /\ node[right].parent = par
  <2>1. {left, right} = {p, sib}
    BY PairPlaces
  <2> QED BY <2>1, PairPlaces
<1>6. left # par /\ right # par
  BY PairFacts
<1>7. PICK z, b : Merged(left, right, par, x, z, b)
  BY <1>3, MergedIs
<1>8. PICK h \in Ghosts : MergedBounds(h, g, left, right)
  <2>. PICK l : l = [lo |-> g[left].lo, hi |-> g[right].hi, cap |-> g[right].hi, level |-> g[left].level]
    OBVIOUS
  <2>. PICK h : h = [g EXCEPT ![left] = l]
    OBVIOUS
  <2>1. g[left].lo \in Nat /\ g[right].hi \in Nat /\ g[left].level \in Nat
    BY <1>4, GhostFacts
  <2>2. l \in Bounds
    BY <2>1 DEF Bounds
  <2>3. h \in Ghosts /\ h[left] = l /\ \A q \in PageIds \ {left} : h[q] = g[q]
    BY <1>4, <2>2 DEF Ghosts
  <2>4. /\ l.lo = g[left].lo /\ l.hi = g[right].hi /\ l.cap = g[right].hi /\ l.level = g[left].level
    OBVIOUS
  <2>5. /\ h[left].lo = g[left].lo /\ h[left].hi = g[right].hi /\ h[left].cap = g[right].hi
        /\ h[left].level = g[left].level
    BY Zenon, <2>3, <2>4
  <2>6. MergedBounds(h, g, left, right)
    BY Zenon, <2>3, <2>5 DEF MergedBounds
  <2> QED BY Zenon, <2>3, <2>6
<1>9. MergeDone(g, h, t, p, par, sib, left, right, x, z, b)
  BY <1>3, <1>7, <1>8 DEF MergeDone
<1>10. pc'[t] = point /\ at'[t] = par /\ doomed'[t] = doomed[t] \cup {right}
  BY <1>1, <1>3 DEF TypeOK
<1>11. /\ Size(node[par])' = Size(n) - 1 /\ MaxSize(node[par])' = InternalMax /\ Low(node[par])' = Low(n)
       /\ MinSize(node[par])' = MinSize(n) /\ ~node'[par].leaf
  <2>1. Len(b) = Size(n) - 1
    BY <1>7 DEF Merged, Removed, Size
  <2> QED BY <1>5, <1>7, <2>1 DEF Merged, Size, MaxSize, Low, MinSize
<1>12. /\ MinSize(n) = (IF n.parent = INVALID_PAGE_ID THEN 2 ELSE InternalMax \div 2)
       /\ Low(n) = (IF n.parent = INVALID_PAGE_ID \/ InternalMax \div 2 < 2 THEN 2 ELSE InternalMax \div 2)
       /\ InternalMax \div 2 \in Nat /\ InternalMax \div 2 >= 1
  BY <1>5, TreeAssumption DEF MinSize, MaxSize, Low
<1>13. Sized(par)'
  <2>1. Size(node[par])' <= MaxSize(node[par])'
    BY <1>4, <1>5, <1>11, TreeAssumption
  <2>2. point = "underflow" => Busy(par, "underflow")'
    BY <1>10 DEF Busy
  <2>3. point # "underflow" => Low(node[par])' <= Size(node[par])'
    BY <1>4, <1>11, <1>12 DEF ParentTooSmall
  <2> QED BY <2>1, <2>2, <2>3 DEF Sized
<1>14. Changes(t, {left, right, par}, g, h)
  BY <1>9, MergeChanges
<1>15. TreeAfter({left, right, par}, h) /\ IsChild(left, par)'
  BY <1>1, <1>9, <1>13, MergeTree
<1>16. TypeOK'
  <2>1. pc' \in [Threads -> Points]
    BY <1>1, <1>3 DEF TypeOK, Points
  <2>2. at' \in [Threads -> PageIds \cup {INVALID_PAGE_ID}] /\ doomed' \in [Threads -> SUBSET PageIds]
    BY <1>1, <1>3, <1>4 DEF TypeOK
  <2>3. DOMAIN node' \subseteq PageIds /\ \A q \in DOMAIN node' : node'[q] \in Node
    BY <1>1, <1>7 DEF TypeOK, Merged
  <2> QED BY <1>1, <2>1, <2>2, <2>3 DEF TypeOK
<1>17. ASSUME NEW q \in DOMAIN node
       PROVE  /\ q \in DOMAIN node' /\ node'[q].leaf = node[q].leaf /\ h[q].level = g[q].level
              /\ q \notin {left, right, par} => node'[q].array = node[q].array
              /\ node'[q].parent = IF q \in Children(node[right]) THEN left ELSE node[q].parent
  BY <1>9, MergeRest
<1>18. pages[t] \subseteq DOMAIN node /\ doomed[t] \subseteq pages[t]
  BY <1>1 DEF PointOf
<1>19. PointOf(t)'
  <2>1. pages'[t] \subseteq DOMAIN node'
    <3>1. sib \in DOMAIN node
      BY <1>4, <1>5, PairPlaces DEF Live
    <3> QED BY <1>1, <1>17, <1>18, <3>1
  <2>2. doomed'[t] \subseteq pages'[t]
    BY <1>1, <1>4, <1>10, <1>18
  <2>3. \A q \in doomed'[t] : node'[q].array = <<>>
    <3>1. ASSUME NEW q \in doomed[t] PROVE node'[q].array = <<>>
      BY <1>1, <1>4, <1>17, <1>18, <3>1 DEF PointOf
    <3> QED BY <1>7, <1>10, <3>1 DEF Merged
  <2> QED BY <1>1, <1>5, <1>10, <2>1, <2>2, <2>3 DEF PointOf, Exclusive
<1>20. ThreadOK(h, t)'
  <2>1. CASE point = "free"
    BY <1>10, <1>19, <2>1, OwnSimple
  <2>2. CASE point = "underflow"
    <3>1. Size(n) - 1 <= MinSize(n)
      BY <2>2 DEF ParentTooSmall
    <3>2. Keeps(g, t) /\ Levels(g, t)
      BY <1>1 DEF ThreadOK
    <3>3. ~IsSafe(n, "Remove")
      BY <1>4, <1>5, <1>12, <3>1 DEF IsSafe
    <3>4. ParentHeld(t, par)
      BY <1>1, <1>4, <1>5, <3>2, <3>3 DEF Keeps
    <3>5. \A q \in Children(node[right]) : q \notin {left, right, par}
      BY PairChildren
    <3>6. \A c \in {left, right, par} : node'[c].parent = node[c].parent
      BY <1>4, <1>17, <3>5
    <3>7. HoldsRoot(t) => HoldsRoot(t)'
      BY <1>1 DEF HoldsRoot, Exclusive
    <3>8. ParentHeld(t, par)'
      BY <1>1, <3>4, <3>6, <3>7 DEF ParentHeld
    <3>9. left # INVALID_PAGE_ID
      BY <1>9, MergeRest
    <3>10. ASSUME NEW q \in pages[t], q \notin doomed[t], q \notin {left, right, par}
           PROVE  \/ ParentHeld(t, q)'
                  \/ IsSafe(node[q], call[t].op)' /\ h[par].level < h[q].level
      <4>1. q \in DOMAIN node /\ q \in PageIds
        BY <1>18, NodeFacts
      <4>2. CASE q \in Children(node[right])
        <5>1. node'[q].parent = left
          BY <1>17, <4>1, <4>2
        <5> QED BY <1>4, <3>9, <5>1 DEF ParentHeld
      <4>3. CASE q \notin Children(node[right]) /\ ParentHeld(t, q)
        <5>1. node'[q].parent = node[q].parent
          BY <1>17, <4>1, <4>3
        <5> QED BY <1>1, <3>7, <4>3, <5>1 DEF ParentHeld
      <4>4. CASE q \notin Children(node[right]) /\ ~ParentHeld(t, q)
        <5>1. IsSafe(node[q], call[t].op) /\ g[p].level < g[q].level
          BY <1>1, <1>5, <3>2, <3>10, <4>4 DEF Keeps
        <5>2. node'[q].parent = node[q].parent /\ node'[q].array = node[q].array /\ node'[q].leaf = node[q].leaf
          BY <1>17, <3>10, <4>1, <4>4
        <5>3. IsSafe(node[q], call[t].op)'
          BY <1>1, <5>1, <5>2 DEF IsSafe, Size, MinSize, MaxSize
        <5>4. g[p].level = g[left].level
          BY <1>5
        <5>5. g[p].level \in Nat /\ g[q].level \in Nat /\ g[par].level \in Nat /\ g[p].level + 1 = g[par].level
          BY <1>4, <1>5, <4>1, <5>4, GhostFacts
        <5>6. g[q].level # g[par].level
          <6>1. ASSUME g[q].level = g[par].level PROVE q = par
            <7>1. g[p].level <= g[q].level
              BY <5>1, <5>5
            <7> QED BY <1>1, <1>5, <3>2, <6>1, <7>1 DEF Levels
          <6> QED BY <3>10, <6>1
        <5>7. g[par].level < g[q].level
          BY <5>1, <5>5, <5>6
        <5> QED BY <1>4, <1>17, <4>1, <5>3, <5>7
      <4> QED BY <4>2, <4>3, <4>4
    <3>11. Keeps(h, t)'
      <4>1. ASSUME NEW q \in pages'[t] \ doomed'[t]
            PROVE  \/ ParentHeld(t, q)'
                   \/ IsSafe(node[q], call[t].op)' /\ h[par].level < h[q].level
        <5>1. CASE q \in {left, right}
          BY <1>2, <1>4, <1>5, <3>6, <5>1 DEF ParentHeld
        <5>2. CASE q = par
          BY <3>8, <5>2
        <5>3. CASE q \notin {left, right, par}
          <6>1. q \in pages[t] /\ q \notin doomed[t]
            <7>1. {left, right} = {p, sib}
              BY PairPlaces
            <7> QED BY <1>1, <1>10, <4>1, <5>3, <7>1
          <6> QED BY <3>10, <5>3, <6>1
        <5> QED BY <5>1, <5>2, <5>3
      <4> QED BY <1>10, <2>2, <4>1 DEF Keeps
    <3>12. Climbs(h, t)'
      BY <1>4, <1>6, <1>10, <3>8 DEF Climbs
    <3>13. Shrinks(t)'
      <4>1. Size(node[par])' <= MinSize(node[par])' /\ Low(node[par])' <= Size(node[par])' + 1
        BY <1>4, <1>5, <1>11, <1>12, <3>1
      <4> QED BY <1>4, <1>10, <1>11, <1>15, <4>1 DEF Shrinks
    <3>14. Levels(h, t)'
      <4>1. ASSUME NEW q \in pages'[t], NEW r \in pages'[t], h[q].level = h[r].level, h[par].level <= h[q].level
            PROVE  q = r
        <5>1. sib \in DOMAIN node /\ pages'[t] \subseteq DOMAIN node
          BY <1>1, <1>4, <1>18, PairPlaces DEF Live
        <5>2. h[q].level = g[q].level /\ h[r].level = g[r].level /\ h[par].level = g[par].level
          BY <1>4, <1>17, <5>1
        <5>3. g[sib].level = g[p].level /\ g[p].level + 1 = g[par].level
          <6>1. {left, right} = {p, sib} /\ g[left].level = g[right].level /\ g[left].level + 1 = g[par].level
            BY PairPlaces
          <6> QED BY <6>1
        <5>4. /\ g[sib].level \in Nat /\ g[par].level \in Nat /\ g[q].level \in Nat /\ g[p].level \in Nat
          BY <1>4, <1>18, <1>5, <5>1, GhostFacts, NodeFacts
        <5>5. q # sib /\ r # sib /\ g[p].level <= g[q].level
          <6>1. g[par].level <= g[q].level /\ g[q].level = g[r].level
            BY <4>1, <5>2
          <6>2. g[q].level # g[sib].level /\ g[p].level <= g[q].level
            BY <5>3, <5>4, <6>1
          <6> QED BY <6>1, <6>2
        <5>6. q \in pages[t] /\ r \in pages[t]
          BY <1>1, <5>5
        <5> QED BY <1>1, <3>2, <4>1, <5>2, <5>5, <5>6 DEF Levels
      <4> QED BY <1>10, <2>2, <4>1 DEF Levels
    <3> QED BY <1>10, <1>19, <2>2, <3>11, <3>12, <3>13, <3>14
            DEF ThreadOK, Descends, InLeaf, Walks, Splits, Links
  <2> QED BY <2>1, <2>2
<1>21. Good(h)'
  BY <1>1, <1>5, <1>14, <1>15, <1>16, <1>20, ChangesStep
<1> QED BY <1>21

-----------------------------------------------------------------------------
(* Redistribution. *)

\* The entries a are those of b, but for the key of the one at x.
Keyed(a, b, x, key) ==
  /\ Len(a) = Len(b) /\ a[x].first = key /\ a[x].second = b[x].second
  /\ \A j \in 1 .. Len(b) : j # x => a[j] = b[j]

\* The nodes s before the child that moves is told.
ShiftBase(s, left, right, par, x, A, B, key) ==
  /\ DOMAIN s = DOMAIN node
  /\ s[left] = [node[left] EXCEPT !.array = A]
  /\ s[right] = [node[right] EXCEPT !.array = B]
  /\ s[par] = [node[par] EXCEPT !.array[x + 1].first = key]
  /\ \A q \in DOMAIN node \ {left, right, par} : s[q] = node[q]

ShiftedNodes(left, right, par, x, A, B, key, n, c) ==
  /\ DOMAIN node' = DOMAIN node /\ \A q \in DOMAIN node' : node'[q] \in Node
  /\ node'[left].leaf = node[left].leaf /\ node'[left].array = A
  /\ node'[left].parent = node[left].parent /\ node'[left].next = node[left].next
  /\ node'[right].leaf = node[right].leaf /\ node'[right].array = B
  /\ node'[right].parent = node[right].parent /\ node'[right].next = node[right].next
  /\ node'[par].leaf = node[par].leaf /\ Keyed(node'[par].array, node[par].array, x + 1, key)
  /\ node'[par].parent = node[par].parent /\ node'[par].next = node[par].next
  /\ \A q \in DOMAIN node \ {left, right, par} :
       /\ node'[q].leaf = node[q].leaf /\ node'[q].array = node[q].array
       /\ node'[q].next = node[q].next
       /\ node'[q].parent = IF q \in Children(n) THEN c ELSE node[q].parent

\* From that, what a redistribution does to the nodes.
LEMMA ShiftNodes ==
  ASSUME NEW g \in Ghosts, Good(g), NEW t \in Threads, NEW p, NEW par, NEW sib,
         NEW left, NEW right, NEW x, Pairing(t, p, par, sib, left, right, x),
         NEW A \in Seq(Entry(Values) \cup Entry(PageIds)),
         NEW B \in Seq(Entry(Values) \cup Entry(PageIds)), NEW key \in Nat,
         NEW s, ShiftBase(s, left, right, par, x, A, B, key),
         NEW c \in {left, right}, NEW n, Children(n) \subseteq Children(node[left]) \cup Children(node[right]),
         node' = Adopt(s, n, c)
  PROVE  ShiftedNodes(left, right, par, x, A, B, key, n, c)
<1>. PICK a : a = [node[par].array EXCEPT ![x + 1].first = key]
  OBVIOUS
<1>1. /\ left \in DOMAIN node /\ right \in DOMAIN node /\ par \in DOMAIN node
      /\ left \in PageIds /\ right \in PageIds
      /\ node[left] \in Node /\ node[right] \in Node /\ node[par] \in Node
      /\ left # par /\ right # par /\ Size(node[par]) \in Nat
  BY PairFacts
<1>2. left # right /\ x + 1 \in 1 .. Size(node[par])
  BY PairPlaces
<1>3. a \in Seq(Entry(Values) \cup Entry(PageIds)) /\ Keyed(a, node[par].array, x + 1, key)
  <2>. PICK b, k, E : b = node[par].array /\ k = x + 1 /\ E = Entry(Values) \cup Entry(PageIds)
    OBVIOUS
  <2>1. b \in [1 .. Len(b) -> E] /\ Len(b) \in Nat /\ k \in 1 .. Len(b)
    BY <1>1, <1>2 DEF Node, Size
  <2>2. b[k] \in E
    BY <2>1
  <2>. PICK e : e = [b[k] EXCEPT !.first = key]
    OBVIOUS
  <2>3. e \in E /\ e.first = key /\ e.second = b[k].second
    BY <2>2 DEF Entry
  <2>4. a = [b EXCEPT ![k] = e]
    OBVIOUS
  <2>5. b \in Seq(E)
    BY <1>1 DEF Node
  <2>6. /\ a \in Seq(E) /\ Len(a) = Len(b)
        /\ \A j \in 1 .. Len(b) : a[j] = IF j = k THEN e ELSE b[j]
    BY <2>1, <2>3, <2>4, <2>5, ExceptSeq
  <2> QED BY <2>1, <2>3, <2>6 DEF Keyed
<1>4. /\ s[left] \in Node /\ s[left].leaf = node[left].leaf /\ s[left].array = A
      /\ s[left].parent = node[left].parent /\ s[left].next = node[left].next
  BY <1>1 DEF Node, ShiftBase
<1>5. /\ s[right] \in Node /\ s[right].leaf = node[right].leaf /\ s[right].array = B
      /\ s[right].parent = node[right].parent /\ s[right].next = node[right].next
  BY <1>1 DEF Node, ShiftBase
<1>6. /\ s[par] \in Node /\ s[par].leaf = node[par].leaf /\ s[par].array = a
      /\ s[par].parent = node[par].parent /\ s[par].next = node[par].next
  <2>1. s[par] = [node[par] EXCEPT !.array = a]
    BY <1>1 DEF Node, ShiftBase
  <2> QED BY <1>1, <1>3, <2>1 DEF Node
<1>7. \A q \in DOMAIN node : node[q] \in Node
  BY NodeFacts
<1>8. ASSUME NEW q \in Children(n) PROVE q \notin {left, right, par}
  <2>1. PICK d \in {left, right} : q \in Children(node[d])
    OBVIOUS
  <2> QED BY <2>1, PairChildren
<1>9. DOMAIN node' = DOMAIN s /\ DOMAIN s = DOMAIN node
  BY AdoptDomain DEF ShiftBase
<1>10. ASSUME NEW q \in DOMAIN s PROVE AdoptedAt(node', s, n, c, q)
  <2>1. s[q] \in Node
    BY <1>4, <1>5, <1>6, <1>7, <1>9 DEF ShiftBase
  <2>2. c \in PageIds \cup {INVALID_PAGE_ID}
    BY <1>1
  <2>3. AdoptedAt(Adopt(s, n, c), s, n, c, q)
    BY <2>1, <2>2, AdoptIs
  <2> QED BY <2>3
<1>11. \A d \in {left, right, par} : node'[d] = s[d]
  BY <1>1, <1>8, <1>9, <1>10 DEF AdoptedAt
<1>12. \A q \in DOMAIN node' : node'[q] \in Node
  BY <1>9, <1>10 DEF AdoptedAt
<1>13. ASSUME NEW q \in DOMAIN node \ {left, right, par}
       PROVE  /\ node'[q].leaf = node[q].leaf /\ node'[q].array = node[q].array
              /\ node'[q].next = node[q].next
              /\ node'[q].parent = IF q \in Children(n) THEN c ELSE node[q].parent
  <2>1. AdoptedAt(node', s, n, c, q) /\ s[q] = node[q]
    BY <1>9, <1>10 DEF ShiftBase
  <2> QED BY <2>1 DEF AdoptedAt
<1> QED BY <1>3, <1>4, <1>5, <1>6, <1>9, <1>11, <1>12, <1>13 DEF ShiftedNodes

\* How many entries the two have before and after.
LEMMA ShiftSizes ==
  ASSUME NEW g \in Ghosts, Good(g), NEW t \in Threads, NEW p, NEW par, NEW sib,
         NEW left, NEW right, NEW x, Pairing(t, p, par, sib, left, right, x), ~MergedFit(p, sib)
  PROVE  /\ Half(node[p]) <= Size(node[p]) + 1 /\ Size(node[p]) + 1 <= MaxSize(node[p])
         /\ Half(node[sib]) <= Size(node[sib]) - 1 /\ Size(node[sib]) <= MaxSize(node[sib])
         /\ Half(node[p]) \in Nat /\ Half(node[p]) >= 1 /\ Half(node[sib]) = Half(node[p])
         /\ MaxSize(node[sib]) = MaxSize(node[p])
         /\ Size(node[p]) \in Nat /\ Size(node[sib]) \in Nat
<1>1. {left, right} = {p, sib} /\ (node[left].leaf <=> node[right].leaf)
  BY PairPlaces
<1>2. p \in {left, right} /\ sib \in {left, right} /\ (node[p].leaf <=> node[sib].leaf)
  BY <1>1
<1>3. /\ Half(node[sib]) <= Size(node[sib])
      /\ IF node[p].leaf THEN Size(node[p]) + 1 = LeafMax \div 2
         ELSE /\ Size(node[p]) <= InternalMax \div 2 /\ 1 <= Size(node[p])
              /\ Half(node[p]) <= Size(node[p]) + 1
  BY PairFacts
<1>4. Size(node[p]) \in Nat /\ Size(node[sib]) \in Nat /\ Size(node[sib]) <= MaxSize(node[sib])
  BY <1>2, PairFacts
<1>5. ~(Size(node[p]) + Size(node[sib]) <= MaxSize(node[p]))
  BY DEF MergedFit
<1>6. MaxSize(node[sib]) = MaxSize(node[p]) /\ Half(node[sib]) = Half(node[p])
  BY <1>2 DEF MaxSize, Half
<1>7. CASE node[p].leaf
  <2>1. Half(node[p]) = LeafMax \div 2 /\ MaxSize(node[p]) = LeafMax
    BY <1>7 DEF Half, MaxSize
  <2> QED BY <1>3, <1>4, <1>5, <1>6, <1>7, <2>1, TreeAssumption
<1>8. CASE ~node[p].leaf
  <2>1. Half(node[p]) = (IF InternalMax \div 2 < 2 THEN 2 ELSE InternalMax \div 2) /\ MaxSize(node[p]) = InternalMax
    BY <1>8 DEF Half, MaxSize
  <2> QED BY <1>3, <1>4, <1>5, <1>6, <1>8, <2>1, TreeAssumption
<1> QED BY <1>7, <1>8

\* The two nodes have the entries in a row, of which the first m are the left one's.
Shifted(left, right, par, x, z, m, s, k, c) ==
  /\ DOMAIN node' = DOMAIN node /\ \A q \in DOMAIN node' : node'[q] \in Node
  /\ Joined(z, node[left].array, node[right].array)
  /\ m \in Nat /\ s = z[m + 1].first
  /\ \/ c = left /\ k = m /\ m = Size(node[left]) + 1
     \/ c = right /\ k = m + 1 /\ k = Size(node[left])
  /\ Piece(z, left, 0, m) /\ Piece(z, right, m, Len(z) - m)
  /\ \A d \in {left, right, par} : /\ node'[d].leaf = node[d].leaf
                                   /\ node'[d].parent = node[d].parent /\ node'[d].next = node[d].next
  /\ Keyed(node'[par].array, node[par].array, x + 1, s)
  /\ \A q \in DOMAIN node \ {left, right, par} :
       /\ node'[q].leaf = node[q].leaf /\ node'[q].array = node[q].array
       /\ node'[q].next = node[q].next
       /\ node'[q].parent = IF ~node[left].leaf /\ q = z[k].second THEN c ELSE node[q].parent

\* The only child of a node that has the entry e.
LEMMA OnlyChild ==
  ASSUME NEW m \in Node, NEW e, NEW n, n = [m EXCEPT !.array = <<e>>]
  PROVE  Children(n) = IF m.leaf THEN {} ELSE {e.second}
<1>1. n.leaf = m.leaf /\ n.array = <<e>>
  BY DEF Node
<1>2. Len(n.array) = 1 /\ n.array[1] = e
  BY <1>1
<1>3. CASE m.leaf
  BY <1>1, <1>3 DEF Children
<1>4. CASE ~m.leaf
  <2>1. Children(n) = {n.array[i].second : i \in 1 .. Size(n)}
    BY <1>1, <1>4 DEF Children
  <2>2. Size(n) = 1 /\ n.array[1].second = e.second
    BY <1>2 DEF Size
  <2>3. \A i \in 1 .. Size(n) : i = 1
    BY <2>2
  <2> QED BY <1>4, <2>1, <2>2, <2>3
<1> QED BY <1>3, <1>4

\* The right node's first entry moves to the end of the left one.
LEMMA BorrowFirstIs ==
  ASSUME NEW g \in Ghosts, Good(g), NEW t \in Threads, NEW p, NEW par, NEW sib,
         NEW left, NEW right, NEW x, Pairing(t, p, par, sib, left, right, x),
         left = p, right = sib, ~MergedFit(p, sib), node' = BorrowFirst(p, sib, par)
  PROVE  \E z, m, s, k : Shifted(left, right, par, x, z, m, s, k, p)
<1>. PICK l, r, E : l = node[left].array /\ r = node[right].array /\ E = Entry(Values) \cup Entry(PageIds)
  OBVIOUS
<1>1. PICK e : e = Head(r)
  OBVIOUS
<1>2. PICK A, B, z : A = Append(l, e) /\ B = Tail(r) /\ z = l \o r
  OBVIOUS
<1>3. PICK n : n = [node[left] EXCEPT !.array = <<e>>]
  OBVIOUS
<1>4. /\ left \in DOMAIN node /\ right \in DOMAIN node /\ par \in DOMAIN node
      /\ left \in PageIds /\ right \in PageIds
      /\ node[left] \in Node /\ node[right] \in Node /\ node[par] \in Node
      /\ left # par /\ right # par
  BY PairFacts
<1>5. left # right /\ x + 1 \in 1 .. Size(node[par]) /\ ValueIndex(node[par], right) = x + 1
      /\ (node[left].leaf <=> node[right].leaf)
  BY PairPlaces
<1>6. l \in Seq(E) /\ r \in Seq(E)
  BY <1>4 DEF Node
<1>7. Len(r) \in Nat /\ Len(r) >= 2 /\ Len(l) \in Nat
  <2>1. Half(node[sib]) <= Size(node[sib]) - 1 /\ Half(node[p]) >= 1 /\ Half(node[sib]) = Half(node[p])
        /\ Half(node[p]) \in Nat /\ Size(node[p]) \in Nat /\ Size(node[sib]) \in Nat
    BY ShiftSizes
  <2>2. Size(node[p]) = Len(l) /\ Size(node[sib]) = Len(r)
    BY DEF Size
  <2> QED BY <2>1, <2>2
<1>8. e = r[1] /\ e \in E /\ r[2] \in E
  BY <1>1, <1>6, <1>7
<1>9. A \in Seq(E) /\ Len(A) = Len(l) + 1 /\ A[Len(l) + 1] = e /\ \A i \in 1 .. Len(l) : A[i] = l[i]
  BY <1>2, <1>6, <1>8
<1>10. B \in Seq(E) /\ Len(B) = Len(r) - 1 /\ \A i \in 1 .. Len(B) : B[i] = r[i + 1]
  BY <1>2, <1>6, <1>7
<1>11. Joined(z, l, r)
  BY <1>2, <1>6, JoinedIs
<1>12. PICK m, s : m = Len(l) + 1 /\ s = r[2].first
  OBVIOUS
<1>13. m \in Nat /\ s \in Nat
  BY <1>7, <1>8, <1>12 DEF Entry
<1>14. z[m] = e /\ z[m + 1].first = s
  <2>1. 1 \in 1 .. Len(r) /\ 2 \in 1 .. Len(r)
    BY <1>7
  <2>2. z[Len(l) + 1] = r[1] /\ z[Len(l) + 2] = r[2]
    BY <1>11, <2>1 DEF Joined
  <2>3. m + 1 = Len(l) + 2
    BY <1>7, <1>12
  <2> QED BY <1>8, <1>12, <2>2, <2>3
<1>15. Children(n) = IF node[left].leaf THEN {} ELSE {e.second}
  BY <1>3, <1>4, OnlyChild
<1>16. Children(n) \subseteq Children(node[left]) \cup Children(node[right])
  <2>1. CASE node[left].leaf
    BY <1>15, <2>1
  <2>2. CASE ~node[left].leaf
    <3>1. 1 \in 1 .. Size(node[right]) /\ node[right].array[1].second = e.second
      BY <1>7, <1>8 DEF Size
    <3>2. e.second \in Children(node[right])
      BY <1>5, <2>2, <3>1 DEF Children
    <3> QED BY <1>15, <2>2, <3>2
  <2> QED BY <2>1, <2>2
<1>17. PICK q : /\ node' = Adopt(q, n, left)
                /\ ShiftBase(q, left, right, par, x, A, B, s)
  <2>1. PICK q : q = [node EXCEPT
             ![left].array = Append(@, Head(node[right].array)),
             ![right].array = Tail(@),
             ![par].array[ValueIndex(node[par], right)].first = NewFirstKey(right)]
    OBVIOUS
  <2>2. node' = Adopt(q, n, left)
    <3>1. e = Head(node[sib].array) /\ n = [node[p] EXCEPT !.array = <<e>>]
      BY <1>1, <1>3
    <3>2. q = [node EXCEPT
             ![p].array = Append(@, Head(node[sib].array)),
             ![sib].array = Tail(@),
             ![par].array[ValueIndex(node[par], sib)].first = NewFirstKey(sib)]
      BY <2>1
    <3>3. node' = Adopt([node EXCEPT
             ![p].array = Append(@, Head(node[sib].array)),
             ![sib].array = Tail(@),
             ![par].array[ValueIndex(node[par], sib)].first = NewFirstKey(sib)],
             [node[p] EXCEPT !.array = <<Head(node[sib].array)>>], p)
      BY Zenon DEF BorrowFirst, Adopted
    <3> QED BY <3>1, <3>2, <3>3, Zenon
  <2>3. DOMAIN q = DOMAIN node /\ \A d \in DOMAIN node \ {left, right, par} : q[d] = node[d]
    BY Zenon, <2>1
  <2>4. q[right] = [node[right] EXCEPT !.array = B] /\ q[left] = [node[left] EXCEPT !.array = A]
    BY <1>1, <1>2, <1>4, <1>5, <2>1
  <2>5. q[par] = [node[par] EXCEPT !.array[x + 1].first = s]
    BY <1>4, <1>5, <1>12, <2>1 DEF NewFirstKey
  <2> QED BY Zenon, <2>2, <2>3, <2>4, <2>5 DEF ShiftBase
<1>18. ShiftedNodes(left, right, par, x, A, B, s, n, left)
  BY <1>9, <1>10, <1>13, <1>16, <1>17, ShiftNodes
<1>19. Piece(z, left, 0, m)
  <2>1. node'[left].array = A /\ Len(A) = m
    BY <1>9, <1>12, <1>18 DEF ShiftedNodes
  <2>2. ASSUME NEW i \in 1 .. m PROVE A[i] = z[0 + i]
    <3>1. CASE i = m
      BY <1>9, <1>12, <1>14, <3>1, <1>13
    <3>2. CASE i # m
      <4>1. i \in 1 .. Len(l) /\ 0 + i = i
        BY <1>7, <1>12, <3>2
      <4> QED BY <1>9, <1>11, <4>1 DEF Joined
    <3> QED BY <3>1, <3>2
  <2> QED BY <2>1, <2>2 DEF Piece
<1>20. Piece(z, right, m, Len(z) - m)
  <2>1. node'[right].array = B /\ Len(B) = Len(r) - 1
    BY <1>10, <1>18 DEF ShiftedNodes
  <2>2. Len(z) = Len(l) + Len(r)
    BY <1>11 DEF Joined
  <2>3. Len(z) - m = Len(B)
    BY <1>7, <1>12, <2>1, <2>2
  <2>4. ASSUME NEW i \in 1 .. Len(B) PROVE B[i] = z[m + i]
    <3>1. i + 1 \in 1 .. Len(r) /\ m + i = Len(l) + (i + 1)
      <4>1. PICK u, v, w : u = Len(l) /\ v = Len(r) /\ w = Len(B)
        OBVIOUS
      <4>2. u \in Nat /\ v \in Nat /\ w = v - 1 /\ i \in 1 .. w /\ m = u + 1
        BY <1>7, <1>12, <2>1, <4>1
      <4>3. i + 1 \in 1 .. v /\ m + i = u + (i + 1)
        BY <4>2
      <4> QED BY <4>1, <4>3
    <3>2. z[Len(l) + (i + 1)] = r[i + 1]
      BY <1>11, <3>1 DEF Joined
    <3> QED BY <1>10, <3>1, <3>2
  <2> QED BY <2>1, <2>3, <2>4 DEF Piece
<1>21. Shifted(left, right, par, x, z, m, s, m, left)
  <2>1. DOMAIN node' = DOMAIN node /\ (\A d \in DOMAIN node' : node'[d] \in Node)
        /\ Keyed(node'[par].array, node[par].array, x + 1, s)
    BY <1>18 DEF ShiftedNodes
  <2>2. \A d \in {left, right, par} : /\ node'[d].leaf = node[d].leaf
                                      /\ node'[d].parent = node[d].parent /\ node'[d].next = node[d].next
    BY <1>18 DEF ShiftedNodes
  <2>3. ASSUME NEW d \in DOMAIN node \ {left, right, par}
        PROVE  /\ node'[d].leaf = node[d].leaf /\ node'[d].array = node[d].array
               /\ node'[d].next = node[d].next
               /\ node'[d].parent = IF ~node[left].leaf /\ d = z[m].second THEN left ELSE node[d].parent
    <3>1. /\ node'[d].leaf = node[d].leaf /\ node'[d].array = node[d].array
          /\ node'[d].next = node[d].next
          /\ node'[d].parent = IF d \in Children(n) THEN left ELSE node[d].parent
      BY <1>18 DEF ShiftedNodes
    <3>2. d \in Children(n) <=> ~node[left].leaf /\ d = z[m].second
      BY <1>14, <1>15
    <3> QED BY <3>1, <3>2
  <2>4. m = Size(node[left]) + 1
    BY <1>12 DEF Size
  <2> QED BY <1>11, <1>13, <1>14, <1>19, <1>20, <2>1, <2>2, <2>3, <2>4 DEF Shifted
<1> QED BY <1>21

\* The left node's last entry moves to the front of the right one.
LEMMA BorrowLastIs ==
  ASSUME NEW g \in Ghosts, Good(g), NEW t \in Threads, NEW p, NEW par, NEW sib,
         NEW left, NEW right, NEW x, Pairing(t, p, par, sib, left, right, x),
         left = sib, right = p, ~MergedFit(p, sib), node' = BorrowLast(p, sib, par)
  PROVE  \E z, m, s, k : Shifted(left, right, par, x, z, m, s, k, p)
<1>. PICK l, r, E : l = node[left].array /\ r = node[right].array /\ E = Entry(Values) \cup Entry(PageIds)
  OBVIOUS
<1>1. PICK e : e = Last(l)
  OBVIOUS
<1>2. PICK A, B, z : A = Front(l) /\ B = <<e>> \o r /\ z = l \o r
  OBVIOUS
<1>3. PICK n : n = [node[right] EXCEPT !.array = <<e>>]
  OBVIOUS
<1>4. /\ left \in DOMAIN node /\ right \in DOMAIN node /\ par \in DOMAIN node
      /\ left \in PageIds /\ right \in PageIds
      /\ node[left] \in Node /\ node[right] \in Node /\ node[par] \in Node
      /\ left # par /\ right # par
  BY PairFacts
<1>5. left # right /\ x + 1 \in 1 .. Size(node[par]) /\ ValueIndex(node[par], right) = x + 1
      /\ (node[left].leaf <=> node[right].leaf)
  BY PairPlaces
<1>6. l \in Seq(E) /\ r \in Seq(E)
  BY <1>4 DEF Node
<1>7. Len(l) \in Nat /\ Len(l) >= 2 /\ Len(r) \in Nat
  <2>1. Half(node[sib]) <= Size(node[sib]) - 1 /\ Half(node[p]) >= 1 /\ Half(node[sib]) = Half(node[p])
        /\ Half(node[p]) \in Nat /\ Size(node[p]) \in Nat /\ Size(node[sib]) \in Nat
    BY ShiftSizes
  <2>2. Size(node[p]) = Len(r) /\ Size(node[sib]) = Len(l)
    BY DEF Size
  <2> QED BY <2>1, <2>2
<1>8. e = l[Len(l)] /\ e \in E
  BY <1>1, <1>6, <1>7 DEF Last
<1>9. A \in Seq(E) /\ Len(A) = Len(l) - 1 /\ \A i \in 1 .. Len(A) : A[i] = l[i]
  <2>1. A = SubSeq(l, 1, Len(l) - 1)
    BY <1>2 DEF Front
  <2> QED BY <1>6, <1>7, <2>1
<1>10. B \in Seq(E) /\ Len(B) = Len(r) + 1 /\ B[1] = e /\ \A i \in 1 .. Len(r) : B[i + 1] = r[i]
  <2>1. <<e>> \in Seq(E) /\ Len(<<e>>) = 1 /\ <<e>>[1] = e
    BY <1>8
  <2>2. B \in Seq(E) /\ Joined(B, <<e>>, r)
    BY <1>2, <1>6, <2>1, JoinedIs
  <2>3. Len(B) = 1 + Len(r) /\ B[1] = e /\ \A i \in 1 .. Len(r) : B[1 + i] = r[i]
    BY <2>1, <2>2 DEF Joined
  <2> QED BY <1>7, <2>2, <2>3
<1>11. Joined(z, l, r)
  BY <1>2, <1>6, JoinedIs
<1>12. PICK m, s : m = Len(l) - 1 /\ s = e.first
  OBVIOUS
<1>13. m \in Nat /\ s \in Nat /\ m + 1 = Len(l)
  BY <1>7, <1>8, <1>12 DEF Entry
<1>14. z[m + 1] = e
  <2>1. Len(l) \in 1 .. Len(l)
    BY <1>7
  <2>2. z[Len(l)] = l[Len(l)]
    BY <1>11, <2>1 DEF Joined
  <2> QED BY <1>8, <1>13, <2>2
<1>15. Children(n) = IF node[right].leaf THEN {} ELSE {e.second}
  BY <1>3, <1>4, OnlyChild
<1>16. Children(n) \subseteq Children(node[left]) \cup Children(node[right])
  <2>1. CASE node[right].leaf
    BY <1>15, <2>1
  <2>2. CASE ~node[right].leaf
    <3>1. Len(l) \in 1 .. Size(node[left]) /\ node[left].array[Len(l)].second = e.second
      BY <1>7, <1>8 DEF Size
    <3>2. e.second \in Children(node[left])
      BY <1>5, <2>2, <3>1 DEF Children
    <3> QED BY <1>15, <2>2, <3>2
  <2> QED BY <2>1, <2>2
<1>17. PICK q : /\ node' = Adopt(q, n, right)
                /\ ShiftBase(q, left, right, par, x, A, B, s)
  <2>1. PICK q : q = [node EXCEPT
             ![right].array = <<Last(node[left].array)>> \o @,
             ![left].array = Front(@),
             ![par].array[ValueIndex(node[par], right)].first = Last(node[left].array).first]
    OBVIOUS
  <2>2. node' = Adopt(q, n, right)
    <3>1. e = Last(node[sib].array) /\ n = [node[p] EXCEPT !.array = <<e>>]
      BY <1>1, <1>3
    <3>2. q = [node EXCEPT
             ![p].array = <<Last(node[sib].array)>> \o @,
             ![sib].array = Front(@),
             ![par].array[ValueIndex(node[par], p)].first = Last(node[sib].array).first]
      BY Zenon, <2>1
    <3>3. node' = Adopt([node EXCEPT
             ![p].array = <<Last(node[sib].array)>> \o @,
             ![sib].array = Front(@),
             ![par].array[ValueIndex(node[par], p)].first = Last(node[sib].array).first],
             [node[p] EXCEPT !.array = <<Last(node[sib].array)>>], p)
      BY Zenon DEF BorrowLast, Adopted
    <3> QED BY <3>1, <3>2, <3>3, Zenon
  <2>3. DOMAIN q = DOMAIN node /\ \A d \in DOMAIN node \ {left, right, par} : q[d] = node[d]
    BY Zenon, <2>1
  <2>4. q[right] = [node[right] EXCEPT !.array = B] /\ q[left] = [node[left] EXCEPT !.array = A]
    BY <1>1, <1>2, <1>4, <1>5, <2>1
  <2>5. q[par] = [node[par] EXCEPT !.array[x + 1].first = s]
    BY <1>1, <1>4, <1>5, <1>12, <2>1
  <2> QED BY Zenon, <2>2, <2>3, <2>4, <2>5 DEF ShiftBase
<1>18. ShiftedNodes(left, right, par, x, A, B, s, n, right)
  BY <1>9, <1>10, <1>13, <1>16, <1>17, ShiftNodes
<1>19. Piece(z, left, 0, m)
  <2>1. node'[left].array = A /\ Len(A) = m
    BY <1>9, <1>12, <1>18 DEF ShiftedNodes
  <2>2. ASSUME NEW i \in 1 .. m PROVE A[i] = z[0 + i]
    <3>1. i \in 1 .. Len(A) /\ i \in 1 .. Len(l) /\ 0 + i = i
      <4>1. PICK u, v : u = Len(l) /\ v = Len(A)
        OBVIOUS
      <4>2. u \in Nat /\ v = u - 1 /\ m = u - 1 /\ i \in 1 .. m
        BY <1>7, <1>9, <1>12, <4>1
      <4>3. i \in 1 .. v /\ i \in 1 .. u /\ 0 + i = i
        BY <4>2
      <4> QED BY <4>1, <4>3
    <3> QED BY <1>9, <1>11, <3>1 DEF Joined
  <2> QED BY <2>1, <2>2 DEF Piece
<1>20. Piece(z, right, m, Len(z) - m)
  <2>1. node'[right].array = B /\ Len(B) = Len(r) + 1
    BY <1>10, <1>18 DEF ShiftedNodes
  <2>2. Len(z) = Len(l) + Len(r)
    BY <1>11 DEF Joined
  <2>3. Len(z) - m = Len(B)
    <3>1. PICK u, v : u = Len(l) /\ v = Len(r)
      OBVIOUS
    <3>2. u \in Nat /\ v \in Nat /\ m = u - 1
      BY <1>7, <1>12, <3>1
    <3>3. (u + v) - m = v + 1
      BY <3>2
    <3> QED BY <2>1, <2>2, <3>1, <3>3
  <2>4. ASSUME NEW i \in 1 .. Len(B) PROVE B[i] = z[m + i]
    <3>1. CASE i = 1
      BY <1>10, <1>14, <3>1
    <3>2. CASE i # 1
      <4>. PICK j : j = i - 1
        OBVIOUS
      <4>1. j \in 1 .. Len(r) /\ i = j + 1 /\ m + i = Len(l) + j
        <5>1. PICK u, v, w : u = Len(l) /\ v = Len(r) /\ w = Len(B)
          OBVIOUS
        <5>2. u \in Nat /\ v \in Nat /\ w = v + 1 /\ i \in 1 .. w /\ m = u - 1
          BY <1>7, <1>12, <2>1, <5>1
        <5>3. j \in 1 .. v /\ i = j + 1 /\ m + i = u + j
          BY <3>2, <5>2
        <5> QED BY <5>1, <5>3
      <4>2. z[Len(l) + j] = r[j]
        BY <1>11, <4>1 DEF Joined
      <4> QED BY <1>10, <4>1, <4>2
    <3> QED BY <3>1, <3>2
  <2> QED BY <2>1, <2>3, <2>4 DEF Piece
<1>21. Shifted(left, right, par, x, z, m, s, m + 1, right)
  <2>1. DOMAIN node' = DOMAIN node /\ (\A d \in DOMAIN node' : node'[d] \in Node)
        /\ Keyed(node'[par].array, node[par].array, x + 1, s)
    BY <1>18 DEF ShiftedNodes
  <2>2. \A d \in {left, right, par} : /\ node'[d].leaf = node[d].leaf
                                      /\ node'[d].parent = node[d].parent /\ node'[d].next = node[d].next
    BY <1>18 DEF ShiftedNodes
  <2>3. ASSUME NEW d \in DOMAIN node \ {left, right, par}
        PROVE  /\ node'[d].leaf = node[d].leaf /\ node'[d].array = node[d].array
               /\ node'[d].next = node[d].next
               /\ node'[d].parent = IF ~node[left].leaf /\ d = z[m + 1].second THEN right ELSE node[d].parent
    <3>1. /\ node'[d].leaf = node[d].leaf /\ node'[d].array = node[d].array
          /\ node'[d].next = node[d].next
          /\ node'[d].parent = IF d \in Children(n) THEN right ELSE node[d].parent
      BY <1>18 DEF ShiftedNodes
    <3>2. d \in Children(n) <=> ~node[left].leaf /\ d = z[m + 1].second
      BY <1>5, <1>14, <1>15
    <3> QED BY <3>1, <3>2
  <2>4. m + 1 = Size(node[left]) /\ s = z[m + 1].first
    BY <1>12, <1>13, <1>14 DEF Size
  <2> QED BY <1>11, <1>13, <1>14, <1>19, <1>20, <2>1, <2>2, <2>3, <2>4 DEF Shifted
<1> QED BY <1>21

ShiftBounds(h, g, left, right, s) ==
  /\ h \in Ghosts
  /\ \A q \in PageIds \ {left, right} : h[q] = g[q]
  /\ h[left].lo = g[left].lo /\ h[left].hi = s /\ h[left].cap = s /\ h[left].level = g[left].level
  /\ h[right].lo = s /\ h[right].hi = g[right].hi /\ h[right].cap = g[right].cap
  /\ h[right].level = g[right].level

ShiftDone(g, h, t, p, par, sib, left, right, x, z, m, s, k) ==
  /\ Pairing(t, p, par, sib, left, right, x)
  /\ Shifted(left, right, par, x, z, m, s, k, p)
  /\ ShiftBounds(h, g, left, right, s)
  /\ UNCHANGED doomed
  /\ ~MergedFit(p, sib)

\* How many entries the two have, and that the new separator is between their bounds.
LEMMA ShiftCounts ==
  ASSUME NEW g \in Ghosts, Good(g), NEW t \in Threads, NEW p, NEW par, NEW sib,
         NEW left, NEW right, NEW x, NEW z, NEW m, NEW s, NEW k, NEW N, N = Len(z),
         Pairing(t, p, par, sib, left, right, x), Shifted(left, right, par, x, z, m, s, k, p),
         ~MergedFit(p, sib)
  PROVE  /\ N \in Nat /\ m \in Nat /\ m >= 1 /\ m + 1 <= N /\ k \in 1 .. N
         /\ N = Size(node[left]) + Size(node[right])
         /\ Half(node[left]) <= m /\ m <= MaxSize(node[left])
         /\ Half(node[left]) <= N - m /\ N - m <= MaxSize(node[left])
         /\ \/ p = left /\ k = m /\ m = Size(node[left]) + 1
            \/ p = right /\ k = m + 1 /\ k = Size(node[left])
<1>1. /\ Half(node[p]) <= Size(node[p]) + 1 /\ Size(node[p]) + 1 <= MaxSize(node[p])
      /\ Half(node[sib]) <= Size(node[sib]) - 1 /\ Size(node[sib]) <= MaxSize(node[sib])
      /\ Half(node[p]) \in Nat /\ Half(node[p]) >= 1 /\ Half(node[sib]) = Half(node[p])
      /\ MaxSize(node[sib]) = MaxSize(node[p])
      /\ Size(node[p]) \in Nat /\ Size(node[sib]) \in Nat
  BY ShiftSizes
<1>2. left # right
  BY PairPlaces
<1>3. {left, right} = {p, sib}
  BY PairPlaces
<1>4. /\ Joined(z, node[left].array, node[right].array) /\ m \in Nat
      /\ \/ p = left /\ k = m /\ m = Size(node[left]) + 1
         \/ p = right /\ k = m + 1 /\ k = Size(node[left])
  BY DEF Shifted
<1>5. N = Size(node[left]) + Size(node[right])
  BY <1>4 DEF Joined, Size
<1>6. MaxSize(node[left]) \in Int
  BY TreeAssumption DEF MaxSize
<1>7. CASE p = left
  <2>1. sib = right /\ k = m /\ m = Size(node[left]) + 1
    BY <1>2, <1>3, <1>4, <1>7
  <2>. PICK u, v, w, y : u = Size(node[left]) /\ v = Size(node[right]) /\ w = Half(node[left]) /\ y = MaxSize(node[left])
    OBVIOUS
  <2>2. /\ w <= u + 1 /\ u + 1 <= y /\ w <= v - 1 /\ v <= y /\ w \in Nat /\ w >= 1 /\ u \in Nat /\ v \in Nat
        /\ y \in Int /\ N = u + v /\ m = u + 1 /\ k = m
    BY <1>1, <1>5, <1>6, <1>7, <2>1
  <2>3. /\ N \in Nat /\ m \in Nat /\ m >= 1 /\ m + 1 <= N /\ k \in 1 .. N
        /\ w <= m /\ m <= y /\ w <= N - m /\ N - m <= y
    BY <2>2
  <2> QED BY <1>4, <1>5, <2>3
<1>8. CASE p = right
  <2>1. sib = left /\ k = m + 1 /\ k = Size(node[left])
    BY <1>2, <1>3, <1>4, <1>8
  <2>. PICK u, v, w, y : u = Size(node[left]) /\ v = Size(node[right]) /\ w = Half(node[left]) /\ y = MaxSize(node[left])
    OBVIOUS
  <2>2. /\ w <= v + 1 /\ v + 1 <= y /\ w <= u - 1 /\ u <= y /\ w \in Nat /\ w >= 1 /\ u \in Nat /\ v \in Nat
        /\ y \in Int /\ N = u + v /\ u = m + 1 /\ k = m + 1 /\ m \in Nat
    BY <1>1, <1>4, <1>5, <1>6, <1>8, <2>1
  <2>3. /\ N \in Nat /\ m \in Nat /\ m >= 1 /\ m + 1 <= N /\ k \in 1 .. N
        /\ w <= m /\ m <= y /\ w <= N - m /\ N - m <= y
    BY <2>2
  <2> QED BY <1>4, <1>5, <2>3
<1> QED BY <1>4, <1>7, <1>8

\* The new separator lies between the bounds of the two.
LEMMA ShiftSeparator ==
  ASSUME NEW g \in Ghosts, Good(g), NEW t \in Threads, NEW p, NEW par, NEW sib,
         NEW left, NEW right, NEW x, NEW z, NEW m, NEW s, NEW k,
         Pairing(t, p, par, sib, left, right, x), Shifted(left, right, par, x, z, m, s, k, p),
         ~MergedFit(p, sib)
  PROVE  /\ s \in Nat /\ g[left].lo < s /\ s < g[right].hi
         /\ ~node[left].leaf => s = RowEdge(g, left, right, m + 1)
<1>. PICK N : N = Len(z)
  OBVIOUS
<1>1. N \in Nat /\ m \in Nat /\ m >= 1 /\ m + 1 <= N
  BY ShiftCounts
<1>2. Joined(z, node[left].array, node[right].array) /\ s = z[m + 1].first
  BY DEF Shifted
<1>3. \A c \in {left, right} : c \in PageIds
  BY PairFacts
<1>4. g[left].lo \in Nat /\ g[right].hi \in Nat
  BY <1>3, GhostFacts
<1>5. m \in 1 .. N /\ m + 1 \in 1 .. N /\ m < m + 1
  BY <1>1
<1>6. CASE node[left].leaf
  <2>1. LeafRow(g, left, right, z, N)
    BY <1>2, <1>6, LeafRowIs
  <2>2. z[m].first \in Keys /\ z[m + 1].first \in Keys /\ g[left].lo <= z[m].first
        /\ z[m + 1].first < g[right].hi /\ z[m].first < z[m + 1].first
    BY <1>5, <2>1 DEF LeafRow
  <2>3. z[m].first \in Nat /\ z[m + 1].first \in Nat
    BY <2>2, TreeAssumption
  <2> QED BY <1>2, <1>4, <1>6, <2>2, <2>3
<1>7. CASE ~node[left].leaf
  <2>. PICK E : E = [i \in 1 .. N + 1 |-> RowEdge(g, left, right, i)]
    OBVIOUS
  <2>1. InnerRow(g, left, right, z, E, N)
    BY <1>2, <1>7, InnerRowIs
  <2>2. 1 \in 1 .. N + 1 /\ m + 1 \in 1 .. N + 1 /\ N + 1 \in 1 .. N + 1 /\ 1 < m + 1 /\ m + 1 < N + 1
    BY <1>1
  <2>3. E[m + 1] \in Nat /\ E[1] < E[m + 1] /\ E[m + 1] < E[N + 1]
    BY <2>1, <2>2 DEF InnerRow
  <2>4. E[1] = g[left].lo /\ E[N + 1] = g[right].hi /\ z[m + 1].first = E[m + 1]
    BY <1>5, <2>1, <2>2 DEF InnerRow
  <2>5. E[m + 1] = RowEdge(g, left, right, m + 1)
    BY <2>2
  <2> QED BY <1>2, <2>3, <2>4, <2>5
<1> QED BY <1>6, <1>7

\* What a redistribution leaves of the nodes and their bounds.
LEMMA ShiftRest ==
  ASSUME NEW g \in Ghosts, Good(g), NEW t \in Threads, NEW h, NEW p, NEW par, NEW sib,
         NEW left, NEW right, NEW x, NEW z, NEW m, NEW s, NEW k,
         ShiftDone(g, h, t, p, par, sib, left, right, x, z, m, s, k)
  PROVE  /\ Live' = Live
         /\ \A q \in DOMAIN node :
              /\ q \in DOMAIN node' /\ q \in PageIds /\ node'[q].leaf = node[q].leaf
              /\ h[q].level = g[q].level
              /\ q \notin {left, right} => h[q] = g[q]
              /\ node'[q].next = node[q].next
              /\ q \notin {left, right, par} => node'[q].array = node[q].array
              /\ node'[q].parent = IF ~node[left].leaf /\ q = z[k].second THEN p ELSE node[q].parent
         /\ ~node[left].leaf => z[k].second \notin {left, right, par} /\ node[z[k].second].parent \in {left, right}
         /\ left # INVALID_PAGE_ID /\ right # INVALID_PAGE_ID /\ par # INVALID_PAGE_ID
<1>1. /\ Pairing(t, p, par, sib, left, right, x)
      /\ Shifted(left, right, par, x, z, m, s, k, p)
      /\ ShiftBounds(h, g, left, right, s)
      /\ UNCHANGED doomed /\ ~MergedFit(p, sib)
  BY DEF ShiftDone
<1>2. \A c \in {left, right, par} : c \in PageIds
  BY <1>1, PairFacts
<1>3. Live' = Live
  BY <1>1 DEF Live, Doomed, Shifted
<1>4. ~node[left].leaf => z[k].second \notin {left, right, par} /\ node[z[k].second].parent \in {left, right}
  <2>. PICK N : N = Len(z)
    OBVIOUS
  <2>. PICK E : E = [i \in 1 .. N + 1 |-> RowEdge(g, left, right, i)]
    OBVIOUS
  <2>1. k \in 1 .. N
    BY <1>1, ShiftCounts
  <2>2. Joined(z, node[left].array, node[right].array)
    BY <1>1 DEF Shifted
  <2>3. g[left].level = g[right].level /\ g[left].level + 1 = g[par].level
    BY <1>1, PairPlaces
  <2>4. ASSUME ~node[left].leaf
        PROVE  z[k].second \notin {left, right, par} /\ node[z[k].second].parent \in {left, right}
    <3>1. InnerRow(g, left, right, z, E, N)
      BY <1>1, <2>2, <2>4, InnerRowIs
    <3>2. /\ z[k].second \in PageIds /\ g[z[k].second].level + 1 = g[left].level
          /\ node[z[k].second].parent = IF k <= Size(node[left]) THEN left ELSE right
      BY <2>1, <3>1 DEF InnerRow
    <3>3. g[z[k].second].level \in Nat /\ g[left].level \in Nat
      BY <1>2, <3>2, GhostFacts
    <3>4. \A c \in {left, right, par} : g[z[k].second].level # g[c].level
      <4>. PICK a, b : a = g[left].level /\ b = g[z[k].second].level
        OBVIOUS
      <4>1. g[right].level = a /\ g[par].level = a + 1 /\ b + 1 = a /\ a \in Nat /\ b \in Nat
        BY <2>3, <3>2, <3>3
      <4>2. b # a /\ b # a + 1
        BY <4>1
      <4> QED BY Zenon, <4>1, <4>2
    <3>5. z[k].second \notin {left, right, par}
      BY <3>4
    <3> QED BY <3>2, <3>5
  <2> QED BY <2>4
<1>5. ASSUME NEW q \in DOMAIN node
      PROVE  /\ q \in DOMAIN node' /\ q \in PageIds /\ node'[q].leaf = node[q].leaf
             /\ h[q].level = g[q].level
             /\ q \notin {left, right} => h[q] = g[q]
             /\ node'[q].next = node[q].next
             /\ q \notin {left, right, par} => node'[q].array = node[q].array
             /\ node'[q].parent = IF ~node[left].leaf /\ q = z[k].second THEN p ELSE node[q].parent
  <2>1. q \in PageIds
    BY NodeFacts
  <2>2. h[q].level = g[q].level /\ (q \notin {left, right} => h[q] = g[q])
    BY <1>1, <2>1 DEF ShiftBounds
  <2>3. q \in DOMAIN node' /\ node'[q].leaf = node[q].leaf /\ node'[q].next = node[q].next
    BY <1>1 DEF Shifted
  <2>4. node'[q].parent = IF ~node[left].leaf /\ q = z[k].second THEN p ELSE node[q].parent
    BY <1>1, <1>4 DEF Shifted
  <2>5. q \notin {left, right, par} => node'[q].array = node[q].array
    BY <1>1 DEF Shifted
  <2> QED BY <2>1, <2>2, <2>3, <2>4, <2>5
<1>6. left # INVALID_PAGE_ID /\ right # INVALID_PAGE_ID /\ par # INVALID_PAGE_ID
  BY <1>2 DEF PageIds, INVALID_PAGE_ID
<1> QED BY <1>3, <1>4, <1>5, <1>6

\* The children of the two.
LEMMA ShiftParents ==
  ASSUME NEW g \in Ghosts, Good(g), NEW t \in Threads, NEW h, NEW p, NEW par, NEW sib,
         NEW left, NEW right, NEW x, NEW z, NEW m, NEW s, NEW k,
         ShiftDone(g, h, t, p, par, sib, left, right, x, z, m, s, k), ~node[left].leaf,
         NEW N, N = Len(z), NEW E, InnerRow(g, left, right, z, E, N), NEW i \in 1 .. N
  PROVE  node'[z[i].second].parent = IF i <= m THEN left ELSE right
<1>1. Pairing(t, p, par, sib, left, right, x) /\ Shifted(left, right, par, x, z, m, s, k, p)
      /\ ~MergedFit(p, sib)
  BY DEF ShiftDone
<1>2. /\ N \in Nat /\ m \in Nat /\ k \in 1 .. N /\ Size(node[left]) \in Nat
      /\ \/ p = left /\ k = m /\ m = Size(node[left]) + 1
         \/ p = right /\ k = m + 1 /\ k = Size(node[left])
  <2>1. N \in Nat /\ m \in Nat /\ k \in 1 .. N
    BY <1>1, ShiftCounts
  <2>2. \/ p = left /\ k = m /\ m = Size(node[left]) + 1
        \/ p = right /\ k = m + 1 /\ k = Size(node[left])
    BY <1>1 DEF Shifted
  <2>3. Size(node[left]) \in Nat
    BY <1>1, PairFacts
  <2> QED BY <2>1, <2>2, <2>3
<1>3. z[i].second \in DOMAIN node /\ node[z[i].second].parent = IF i <= Size(node[left]) THEN left ELSE right
  BY DEF InnerRow, Live
<1>4. node'[z[i].second].parent = IF z[i].second = z[k].second THEN p ELSE node[z[i].second].parent
  BY <1>3, ShiftRest
<1>5. left # right
  BY <1>1, PairPlaces
<1>6. CASE i = k
  BY <1>2, <1>4, <1>6
<1>7. CASE i # k
  <2>1. i \in 1 .. N + 1 /\ k \in 1 .. N + 1
    BY <1>2
  <2>2. E[i] # E[k]
    <3>1. i < k \/ k < i
      BY <1>2, <1>7
    <3>2. E[i] \in Nat /\ E[k] \in Nat /\ (i < k => E[i] < E[k]) /\ (k < i => E[k] < E[i])
      BY <2>1 DEF InnerRow
    <3> QED BY <3>1, <3>2
  <2>3. z[i].second # z[k].second
    BY <1>2, <2>2 DEF InnerRow
  <2>4. i <= m <=> i <= Size(node[left])
    <3>. PICK u : u = Size(node[left])
      OBVIOUS
    <3>1. CASE k = m /\ m = u + 1
      <4>1. u \in Nat
        BY <1>2
      <4> QED BY <1>2, <1>7, <3>1, <4>1
    <3>2. CASE k = m + 1 /\ k = u
      BY <1>2, <1>7, <3>2
    <3> QED BY <1>2, <3>1, <3>2
  <2> QED BY <1>3, <1>4, <2>3, <2>4
<1> QED BY <1>6, <1>7

\* The nodes that a redistribution changes are t's.
LEMMA ShiftChanges ==
  ASSUME NEW g \in Ghosts, Good(g), NEW t \in Threads, NEW h, NEW p, NEW par, NEW sib,
         NEW left, NEW right, NEW x, NEW z, NEW m, NEW s, NEW k,
         ShiftDone(g, h, t, p, par, sib, left, right, x, z, m, s, k)
  PROVE  Changes(t, {left, right, par}, g, h)
<1>1. Pairing(t, p, par, sib, left, right, x) /\ ShiftBounds(h, g, left, right, s)
  BY Zenon DEF ShiftDone
<1>2. \A c \in {left, right, par} :
        /\ c \in Live /\ c \in DOMAIN node /\ c \in PageIds /\ c \in Mine(t) /\ PageOK(g, c)
  BY <1>1, PairFacts
<1>3. /\ left # par /\ right # par /\ left # right /\ Exclusive(t) /\ call[t].op = "Remove"
      /\ node[left].parent = par /\ node[right].parent = par
      /\ g[left].level = g[right].level
      /\ (node[left].leaf <=> node[right].leaf) /\ ~node[par].leaf
  BY <1>1, PairFacts, PairPlaces
<1>4. g[right].lo = g[left].hi
  BY <1>1, PairFacts
<1>5. pc[t] = "underflow" /\ p = at[t] /\ par # INVALID_PAGE_ID /\ root_page_id' = root_page_id
  BY <1>1 DEF Pairing
<1>6. /\ Live' = Live /\ left # INVALID_PAGE_ID /\ right # INVALID_PAGE_ID
      /\ (~node[left].leaf => z[k].second \notin {left, right, par} /\ node[z[k].second].parent \in {left, right})
  BY ShiftRest
<1>7. ASSUME NEW q \in DOMAIN node
      PROVE  /\ q \in DOMAIN node' /\ q \in PageIds /\ node'[q].leaf = node[q].leaf
             /\ h[q].level = g[q].level
             /\ q \notin {left, right} => h[q] = g[q]
             /\ node'[q].next = node[q].next
             /\ q \notin {left, right, par} => node'[q].array = node[q].array
             /\ node'[q].parent = IF ~node[left].leaf /\ q = z[k].second THEN p ELSE node[q].parent
  BY ShiftRest
<1>8. p \in {left, right}
  <2>1. {left, right} = {p, sib}
    BY <1>1, PairPlaces
  <2> QED BY <2>1
<1>9. \A c \in {left, right, par} : node'[c].parent = node[c].parent
  BY <1>2, <1>6, <1>7
<1>10. {left, right, par} \subseteq PageIds /\ {left, right, par} \cap DOMAIN node \subseteq Mine(t)
       /\ Live \subseteq DOMAIN node
  BY <1>2 DEF Live
<1>11. ASSUME NEW q \in DOMAIN node \ {left, right, par}
       PROVE  /\ node[q].parent \notin {left, right, par} \cap DOMAIN node => node'[q].parent = node[q].parent
              /\ node[q].parent \in {left, right, par} \cap DOMAIN node => node'[q].parent # INVALID_PAGE_ID
  <2>1. INVALID_PAGE_ID \notin {left, right, par}
    BY <1>5, <1>6
  <2>2. CASE ~node[left].leaf /\ q = z[k].second
    BY <1>2, <1>6, <1>7, <1>8, <2>1, <2>2
  <2>3. CASE ~(~node[left].leaf /\ q = z[k].second)
    <3>1. node'[q].parent = node[q].parent
      BY <1>7, <2>3
    <3> QED BY <2>1, <3>1
  <2> QED BY <2>2, <2>3
<1>12. ASSUME NEW q \in Live \ {left, right, par}, node[q].leaf, node[right].leaf, node[q].next = right
       PROVE  FALSE
  <2>1. PageOK(g, q) /\ q \in PageIds
    BY <1>10, <1>2, <1>7 DEF Good, TreeOK
  <2>2. g[right].lo = g[q].hi /\ g[q].level = 0 /\ g[left].level = 0
    BY <1>2, <1>3, <1>6, <1>12, <2>1 DEF PageOK, NextLeaf, Placed
  <2>3. g[q].hi <= g[left].lo \/ g[left].hi <= g[q].lo
    BY <1>2, <2>2 DEF Good, TreeOK, Disjoint
  <2>4. g[q].lo < g[q].hi /\ g[left].lo < g[left].hi
    BY <1>2, <2>1 DEF PageOK, Placed
  <2>5. g[q].lo \in Nat /\ g[q].hi \in Nat /\ g[left].lo \in Nat /\ g[left].hi \in Nat
    BY <1>2, <2>1, GhostFacts
  <2> QED BY <1>4, <2>2, <2>3, <2>4, <2>5
<1>13. Owns(t, left) /\ Owns(t, right)
  BY <1>2, <1>3, <1>5 DEF Owns
<1>14. at[t] \in {left, right, par}
  BY <1>5, <1>8
<1>15. h[par].lo = g[par].lo /\ h[par].hi = g[par].hi /\ h[par].cap = g[par].cap /\ par \in Live' /\ left \in Live'
       /\ h[left].lo = g[left].lo /\ right \in Live'
  BY <1>1, <1>2, <1>3, <1>6, <1>7 DEF ShiftBounds
<1> QED BY <1>2, <1>3, <1>5, <1>6, <1>7, <1>9, <1>10, <1>11, <1>12, <1>13, <1>14, <1>15 DEF Changes

\* The parent, in which one separator changes.
LEMMA ShiftParent ==
  ASSUME NEW g \in Ghosts, Good(g), NEW t \in Threads, NEW h, NEW p, NEW par, NEW sib,
         NEW left, NEW right, NEW x, NEW z, NEW m, NEW s, NEW k,
         ShiftDone(g, h, t, p, par, sib, left, right, x, z, m, s, k), HasParent(par)'
  PROVE  PageOK(h, par)'
<1>. PICK n, sz : n = node[par] /\ sz = Size(n)
  OBVIOUS
<1>1. Pairing(t, p, par, sib, left, right, x) /\ Shifted(left, right, par, x, z, m, s, k, p)
      /\ ShiftBounds(h, g, left, right, s) /\ ~MergedFit(p, sib)
  BY DEF ShiftDone
<1>2. /\ par \in Live /\ par \in DOMAIN node /\ par \in PageIds /\ PageOK(g, par)
      /\ g[par].hi = g[par].cap /\ sz \in Nat /\ left # par /\ right # par
      /\ left \in Live /\ left \in DOMAIN node /\ left \in PageIds
      /\ right \in Live /\ right \in DOMAIN node /\ right \in PageIds
      /\ Size(n) <= MaxSize(n)
  BY <1>1, PairFacts
<1>3. /\ g[left].lo = Edge(g, par, x) /\ g[right].hi = Edge(g, par, x + 2)
      /\ g[right].cap = g[right].hi
  BY <1>1, PairFacts
<1>4. /\ g[left].level + 1 = g[par].level /\ g[right].level = g[left].level /\ left # right /\ ~n.leaf /\ Inner(g, par)
      /\ x \in 1 .. sz /\ x + 1 \in 1 .. sz
      /\ n.array[x].second = left /\ n.array[x + 1].second = right
      /\ node[left].parent = par /\ node[right].parent = par
      /\ Low(n) <= Size(n)
  BY <1>1, PairPlaces
<1>5. \A i \in 1 .. sz : (n.array[i].second = left => i = x) /\ (n.array[i].second = right => i = x + 1)
  BY <1>1, PairPlaces
<1>6. /\ Live' = Live
      /\ (~node[left].leaf => z[k].second \notin {left, right, par} /\ node[z[k].second].parent \in {left, right})
  BY ShiftRest
<1>7. ASSUME NEW q \in DOMAIN node
      PROVE  /\ h[q].level = g[q].level
             /\ q \notin {left, right} => h[q] = g[q]
             /\ node'[q].parent = IF ~node[left].leaf /\ q = z[k].second THEN p ELSE node[q].parent
  BY ShiftRest
<1>8. node'[par].leaf = n.leaf /\ node'[par].parent = n.parent /\ Keyed(node'[par].array, n.array, x + 1, s)
  BY <1>1 DEF Shifted
<1>9. h[par] = g[par] /\ h[left].lo = g[left].lo /\ h[left].cap = s /\ h[right].lo = s /\ h[right].cap = g[right].hi
  BY <1>1, <1>2, <1>3, <1>7 DEF ShiftBounds
<1>10. Size(node[par])' = sz /\ x \in Nat /\ 1 <= x /\ x + 1 <= sz
  BY <1>4, <1>8 DEF Keyed, Size
<1>11. ASSUME NEW i \in 1 .. sz
       PROVE  /\ node'[par].array[i].second = n.array[i].second
              /\ node'[par].array[i].first = IF i = x + 1 THEN s ELSE n.array[i].first
  BY <1>8 DEF Keyed, Size
<1>12. ASSUME NEW i \in 1 .. sz + 1
       PROVE  Edge(h, par, i)' = IF i = x + 1 THEN s ELSE Edge(g, par, i)
  <2>1. CASE i = 1
    <3>1. i # x + 1
      BY <1>10, <2>1
    <3> QED BY <1>9, <2>1, <3>1 DEF Edge
  <2>2. CASE i = sz + 1
    <3>1. i # x + 1 /\ i # 1
      BY <1>2, <1>10, <2>2
    <3> QED BY <1>9, <1>10, <2>2, <3>1 DEF Edge
  <2>3. CASE i # 1 /\ i # sz + 1
    <3>1. i \in 1 .. sz
      BY <1>2, <2>3
    <3> QED BY <1>10, <1>11, <2>3, <3>1 DEF Edge
  <2> QED BY <2>1, <2>2, <2>3
<1>13. /\ s \in Nat /\ g[left].lo < s /\ s < g[right].hi
  BY <1>1, ShiftSeparator
<1>14. \A i, j \in 1 .. sz + 1 : i < j => Edge(g, par, i) < Edge(g, par, j)
  BY <1>4 DEF Inner
<1>15. \A i \in 1 .. sz + 1 : Edge(g, par, i) \in Nat
  BY <1>2, EdgeNat
<1>16. ASSUME NEW i \in 1 .. sz + 1, NEW j \in 1 .. sz + 1, i < j
       PROVE  Edge(h, par, i)' < Edge(h, par, j)'
  <2>0. x \in 1 .. sz + 1 /\ x + 2 \in 1 .. sz + 1
    BY <1>2, <1>10
  <2>1. CASE i # x + 1 /\ j # x + 1
    BY <1>12, <1>14, <1>16, <2>1
  <2>2. CASE i = x + 1
    <3>1. j # x + 1 /\ (j = x + 2 \/ x + 2 < j)
      BY <1>10, <1>16, <2>2
    <3>2. Edge(g, par, x + 2) \in Nat /\ Edge(g, par, j) \in Nat
      BY <1>15, <2>0
    <3>3. Edge(g, par, x + 2) <= Edge(g, par, j)
      BY <1>14, <2>0, <3>1, <3>2
    <3>4. s < Edge(g, par, j)
      BY <1>3, <1>13, <3>2, <3>3
    <3> QED BY <1>12, <2>2, <3>1, <3>4
  <2>3. CASE j = x + 1
    <3>1. i # x + 1 /\ (i = x \/ i < x)
      BY <1>10, <1>16, <2>3
    <3>2. Edge(g, par, x) \in Nat /\ Edge(g, par, i) \in Nat
      BY <1>15, <2>0
    <3>3. Edge(g, par, i) <= Edge(g, par, x)
      BY <1>14, <2>0, <3>1, <3>2
    <3>4. Edge(g, par, i) < s
      BY <1>3, <1>13, <3>2, <3>3
    <3> QED BY <1>12, <2>3, <3>1, <3>4
  <2> QED BY <2>1, <2>2, <2>3
<1>17. ASSUME NEW i \in 1 .. sz
       PROVE  node'[par].array[i].second \in PageIds /\ ChildOf(h, par, i)'
  <2>. PICK c : c = n.array[i].second
    BY Zenon
  <2>1. /\ c \in PageIds /\ c \in Live /\ node[c].parent = par /\ g[c].level + 1 = g[par].level
        /\ g[c].lo = Edge(g, par, i) /\ g[c].cap = Edge(g, par, i + 1)
    BY Zenon, <1>4 DEF Inner, ChildOf
  <2>2. c \in DOMAIN node /\ node'[par].array[i].second = c
    BY <1>11, <2>1 DEF Live
  <2>3. node'[c].parent = par
    BY <1>2, <1>6, <1>7, <2>1, <2>2
  <2>4. h[c].level + 1 = h[par].level
    BY <1>2, <1>7, <2>1, <2>2
  <2>5. i \in 1 .. sz + 1 /\ i + 1 \in 1 .. sz + 1
    BY <1>2
  <2>6. /\ Edge(h, par, i)' = IF i = x + 1 THEN s ELSE Edge(g, par, i)
        /\ Edge(h, par, i + 1)' = IF i + 1 = x + 1 THEN s ELSE Edge(g, par, i + 1)
    BY <1>12, <2>5
  <2>7. i + 1 = x + 1 <=> i = x
    BY <1>10
  <2>8. h[c].lo = Edge(h, par, i)' /\ h[c].cap = Edge(h, par, i + 1)'
    <3>1. CASE c = left
      <4>1. i = x /\ i # x + 1
        <5>1. i = x
          BY <1>5, <3>1
        <5> QED BY <1>10, <5>1
      <4> QED BY <1>9, <2>1, <2>6, <2>7, <3>1, <4>1
    <3>2. CASE c = right
      <4>1. i = x + 1 /\ i # x /\ i + 1 = x + 2
        <5>1. i = x + 1
          BY <1>5, <3>2
        <5> QED BY <1>10, <5>1
      <4> QED BY <1>3, <1>9, <2>1, <2>6, <2>7, <3>2, <4>1
    <3>3. CASE c \notin {left, right}
      <4>1. i # x /\ i # x + 1
        BY <1>4, <3>3
      <4> QED BY <1>7, <2>1, <2>2, <2>6, <2>7, <3>3, <4>1
    <3> QED BY <3>1, <3>2, <3>3
  <2> QED BY <1>6, <2>1, <2>2, <2>3, <2>4, <2>8 DEF ChildOf
<1>18. Inner(h, par)'
  <2>1. h[par].lo # 0 => node'[par].array[1].first = h[par].lo
    <3>1. 1 \in 1 .. sz /\ 1 # x + 1
      BY <1>2, <1>10
    <3> QED BY <1>4, <1>9, <1>11, <3>1 DEF Inner
  <2>2. sz >= 1
    BY <1>2, <1>10
  <2> QED BY <1>10, <1>16, <1>17, <2>1, <2>2 DEF Inner
<1>19. Placed(h, par)'
  <2>1. Placed(g, par)
    BY <1>2 DEF PageOK
  <2> QED BY <1>2, <1>8, <1>9, <2>1 DEF Placed
<1>20. Sized(par)'
  <2>1. MaxSize(node[par])' = MaxSize(n) /\ Low(node[par])' = Low(n)
    BY <1>8 DEF MaxSize, Low
  <2> QED BY <1>2, <1>4, <1>10, <2>1 DEF Sized
<1> QED BY <1>4, <1>8, <1>18, <1>19, <1>20 DEF PageOK

\* The two nodes, each with its part of the entries.
LEMMA ShiftPiece ==
  ASSUME NEW g \in Ghosts, Good(g), NEW t \in Threads, NEW h, NEW p, NEW par, NEW sib,
         NEW left, NEW right, NEW x, NEW z, NEW m, NEW s, NEW k,
         ShiftDone(g, h, t, p, par, sib, left, right, x, z, m, s, k),
         NEW c, NEW u, NEW w, (c = left /\ u = 0 /\ w = m) \/ (c = right /\ u = m /\ w = Len(z) - m)
  PROVE  /\ node[c].leaf => LeafEntries(h, c)'
         /\ ~node[c].leaf => Inner(h, c)'
         /\ Sized(c)' /\ Placed(h, c)'
<1>. PICK N : N = Len(z)
  OBVIOUS
<1>1. Pairing(t, p, par, sib, left, right, x) /\ Shifted(left, right, par, x, z, m, s, k, p)
      /\ ShiftBounds(h, g, left, right, s) /\ ~MergedFit(p, sib)
  BY DEF ShiftDone
<1>2. \A d \in {left, right} :
        /\ d \in Live /\ d \in DOMAIN node /\ d \in PageIds /\ PageOK(g, d) /\ g[d].hi = g[d].cap
  BY <1>1, PairFacts
<1>3. /\ left # right /\ (node[left].leaf <=> node[right].leaf)
      /\ g[left].level = g[right].level
      /\ node[left].parent = par /\ node[right].parent = par
  BY <1>1, PairPlaces
<1>4. par # INVALID_PAGE_ID
  BY <1>1 DEF Pairing
<1>5. /\ N \in Nat /\ m \in Nat /\ m >= 1 /\ m + 1 <= N
      /\ Half(node[left]) <= m /\ m <= MaxSize(node[left])
      /\ Half(node[left]) <= N - m /\ N - m <= MaxSize(node[left])
  BY <1>1, ShiftCounts
<1>6. /\ s \in Nat /\ g[left].lo < s /\ s < g[right].hi
      /\ ~node[left].leaf => s = RowEdge(g, left, right, m + 1)
  BY <1>1, ShiftSeparator
<1>7. c \in {left, right} /\ Piece(z, c, u, w) /\ (node[c].leaf <=> node[left].leaf)
  BY <1>1, <1>3 DEF Shifted
<1>8. /\ u \in Nat /\ w \in Nat /\ w >= 1 /\ u + w <= N
      /\ Half(node[left]) <= w /\ w <= MaxSize(node[left])
  <2>1. CASE c = left /\ u = 0 /\ w = m
    BY <1>5, <2>1
  <2>2. CASE c = right /\ u = m /\ w = Len(z) - m
    <3>1. w = N - m
      BY <2>2
    <3>2. w \in Nat /\ w >= 1 /\ u + w <= N
      BY <1>5, <2>2, <3>1
    <3> QED BY <1>5, <2>2, <3>1, <3>2
  <2> QED BY <2>1, <2>2
<1>9. Live' = Live
  BY ShiftRest
<1>10. ASSUME NEW q \in DOMAIN node
       PROVE  /\ node'[q].leaf = node[q].leaf /\ h[q].level = g[q].level
              /\ q \notin {left, right} => h[q] = g[q]
              /\ node'[q].next = node[q].next
              /\ node'[q].parent = IF ~node[left].leaf /\ q = z[k].second THEN p ELSE node[q].parent
  BY ShiftRest
<1>11. ~node[left].leaf => z[k].second \notin {left, right, par}
  BY ShiftRest
<1>12. node'[c].parent = par /\ (node'[c].leaf <=> node[c].leaf) /\ h[c].level = g[left].level
  BY <1>2, <1>3, <1>7, <1>10, <1>11
<1>13. Size(node[c])' = w
  BY <1>7 DEF Piece, Size
<1>14. Sized(c)'
  <2>1. MaxSize(node[c])' = MaxSize(node[left]) /\ Low(node[c])' = Half(node[left])
    BY <1>4, <1>7, <1>12 DEF MaxSize, Low, Half
  <2> QED BY <1>8, <1>13, <2>1 DEF Sized
<1>16. Placed(h, c)'
  <2>1. Placed(g, left) /\ Placed(g, right)
    BY <1>2 DEF PageOK
  <2>2. /\ h[left].lo = g[left].lo /\ h[left].hi = s /\ h[left].cap = s
        /\ h[right].lo = s /\ h[right].hi = g[right].hi /\ h[right].cap = g[right].cap
    BY <1>1 DEF ShiftBounds
  <2>3. g[left].lo \in Nat /\ g[right].hi \in Nat /\ Top \in Nat /\ g[right].hi = g[right].cap
    BY <1>2, GhostFacts, TopAbove
  <2>4. h[c].lo < h[c].hi /\ h[c].hi = h[c].cap /\ h[c].cap <= Top
    <3>1. g[right].hi <= Top
      BY <2>1, <2>3 DEF Placed
    <3>2. CASE c = left
      BY <1>6, <2>2, <2>3, <3>1, <3>2
    <3>3. CASE c = right
      BY <1>6, <2>2, <2>3, <3>1, <3>3
    <3> QED BY <1>7, <3>2, <3>3
  <2>5. h[c].hi \in Nat
    BY <1>6, <1>7, <2>2, <2>3
  <2>6. node'[c].leaf <=> h[c].level = 0
    BY <1>7, <1>12, <2>1 DEF Placed
  <2>7. h[c].hi <= h[c].cap
    BY <2>4, <2>5
  <2> QED BY <2>4, <2>6, <2>7 DEF Placed
<1>17. CASE node[left].leaf
  <2>1. LeafRow(g, left, right, z, N)
    BY <1>1, <1>17, LeafRowIs DEF Shifted
  <2>2. s = z[m + 1].first
    BY <1>1 DEF Shifted
  <2>3. ASSUME NEW i \in 1 .. w
        PROVE  h[c].lo <= z[u + i].first /\ z[u + i].first < h[c].hi
    <3>1. u + i \in 1 .. N /\ m + 1 \in 1 .. N
      BY <1>5, <1>8
    <3>2. /\ z[u + i].first \in Nat /\ g[left].lo <= z[u + i].first /\ z[u + i].first < g[right].hi
      <4>1. z[u + i].first \in Keys /\ g[left].lo <= z[u + i].first /\ z[u + i].first < g[right].hi
        BY <2>1, <3>1 DEF LeafRow
      <4> QED BY <4>1, TreeAssumption
    <3>3. /\ u + i < m + 1 => z[u + i].first < s
          /\ m + 1 < u + i => s < z[u + i].first
      BY <2>1, <2>2, <3>1 DEF LeafRow
    <3>4. CASE c = left /\ u = 0 /\ w = m
      <4>1. u + i < m + 1 /\ h[c].lo = g[left].lo /\ h[c].hi = s
        BY <1>1, <1>5, <3>4 DEF ShiftBounds
      <4> QED BY <3>2, <3>3, <4>1
    <3>5. CASE c = right /\ u = m /\ w = Len(z) - m
      <4>1. (m + 1 < u + i \/ u + i = m + 1) /\ h[c].lo = s /\ h[c].hi = g[right].hi
        BY <1>1, <1>5, <3>5 DEF ShiftBounds
      <4>2. s <= z[u + i].first
        BY <1>6, <2>2, <3>2, <3>3, <4>1
      <4> QED BY <3>2, <4>1, <4>2
    <3> QED BY <3>4, <3>5
  <2>4. LeafEntries(h, c)'
    BY <1>7, <1>8, <2>1, <2>3, LeafPiece
  <2> QED BY <1>7, <1>14, <1>16, <1>17, <2>4
<1>18. CASE ~node[left].leaf
  <2>. PICK E : E = [i \in 1 .. N + 1 |-> RowEdge(g, left, right, i)]
    OBVIOUS
  <2>1. InnerRow(g, left, right, z, E, N)
    BY <1>1, <1>18, InnerRowIs DEF Shifted
  <2>2. E[m + 1] = s /\ E[1] = g[left].lo /\ E[N + 1] = g[right].hi
    <3>1. m + 1 \in 1 .. N + 1
      BY <1>5
    <3> QED BY <1>6, <1>18, <2>1, <3>1 DEF InnerRow
  <2>3. h[c].lo = E[u + 1] /\ h[c].hi = E[u + w + 1]
    <3>1. CASE c = left /\ u = 0 /\ w = m
      <4>1. u + 1 = 1 /\ u + w + 1 = m + 1
        BY <1>5, <3>1
      <4> QED BY <1>1, <2>2, <3>1, <4>1 DEF ShiftBounds
    <3>2. CASE c = right /\ u = m /\ w = Len(z) - m
      <4>1. u + 1 = m + 1 /\ u + w + 1 = N + 1
        BY <1>5, <3>2
      <4> QED BY <1>1, <2>2, <3>2, <4>1 DEF ShiftBounds
    <3> QED BY <3>1, <3>2
  <2>4. ASSUME NEW i \in 1 .. w
        PROVE  LET q == z[u + i].second IN
               /\ q \in Live' /\ node'[q].parent = c
               /\ h[q].level = g[q].level /\ h[q].lo = g[q].lo /\ h[q].cap = g[q].cap
    <3>. PICK j : j = u + i
      OBVIOUS
    <3>. PICK q : q = z[j].second
      OBVIOUS
    <3>1. j \in 1 .. N
      BY <1>5, <1>8
    <3>2. q \in Live /\ q \in PageIds /\ g[q].level + 1 = g[left].level
      BY <2>1, <3>1 DEF InnerRow
    <3>3. node'[q].parent = IF j <= m THEN left ELSE right
      BY <1>18, <2>1, <3>1, ShiftParents
    <3>4. node'[q].parent = c
      <4>1. CASE c = left /\ u = 0 /\ w = m
        <5>1. j <= m
          BY <1>5, <4>1
        <5> QED BY <3>3, <4>1, <5>1
      <4>2. CASE c = right /\ u = m /\ w = Len(z) - m
        <5>1. ~(j <= m)
          BY <1>5, <4>2
        <5> QED BY <3>3, <4>2, <5>1
      <4> QED BY <4>1, <4>2
    <3>5. q # left /\ q # right /\ q \in DOMAIN node
      <4>1. g[q].level \in Nat /\ g[left].level \in Nat
        BY <1>2, <3>2, GhostFacts
      <4>2. g[q].level # g[left].level
        BY <3>2, <4>1
      <4> QED BY <1>3, <3>2, <4>2 DEF Live
    <3>6. h[q] = g[q]
      BY <1>10, <3>5
    <3> QED BY <1>9, <3>2, <3>4, <3>6
  <2>5. h[c].level = g[left].level
    BY <1>12
  <2>6. Inner(h, c)'
    <3>1. /\ u \in Nat /\ w \in Nat /\ w >= 1 /\ u + w <= N /\ Piece(z, c, u, w)
          /\ h[c].lo = E[u + 1] /\ h[c].hi = E[u + w + 1] /\ h[c].level = g[left].level
      BY <1>7, <1>8, <2>3, <2>5
    <3>2. Told(h, g, z, u, w, c)
      BY Zenon, <2>4 DEF Told
    <3> QED BY <2>1, <3>1, <3>2, InnerPiece
  <2> QED BY <1>7, <1>14, <1>16, <1>18, <2>6
<1> QED BY <1>17, <1>18

\* The leaves stay chained.
LEMMA ShiftNext ==
  ASSUME NEW g \in Ghosts, Good(g), NEW t \in Threads, NEW h, NEW p, NEW par, NEW sib,
         NEW left, NEW right, NEW x, NEW z, NEW m, NEW s, NEW k,
         ShiftDone(g, h, t, p, par, sib, left, right, x, z, m, s, k), node[left].leaf
  PROVE  NextLeaf(h, left)' /\ NextLeaf(h, right)'
<1>1. Pairing(t, p, par, sib, left, right, x) /\ ShiftBounds(h, g, left, right, s)
  BY DEF ShiftDone
<1>2. \A d \in {left, right} :
        /\ d \in Live /\ d \in DOMAIN node /\ d \in PageIds /\ PageOK(g, d) /\ g[d].hi = g[d].cap
  BY <1>1, PairFacts
<1>3. /\ left # right /\ node[right].leaf
  BY <1>1, PairPlaces
<1>4. g[right].lo = g[left].hi
  BY <1>1, PairFacts
<1>5. Live' = Live
  BY ShiftRest
<1>6. \A q \in DOMAIN node : /\ node'[q].leaf = node[q].leaf /\ node'[q].next = node[q].next
                             /\ q \notin {left, right} => h[q] = g[q]
  BY ShiftRest
<1>7. left # INVALID_PAGE_ID /\ right # INVALID_PAGE_ID
  BY ShiftRest
<1>8. /\ h[left].hi = s /\ h[right].lo = s /\ h[right].hi = g[right].hi
  BY <1>1 DEF ShiftBounds
<1>9. NextLeaf(g, left) /\ NextLeaf(g, right) /\ Placed(g, left) /\ Placed(g, right)
  BY <1>2, <1>3 DEF PageOK
<1>10. /\ g[left].lo \in Nat /\ g[left].hi \in Nat /\ g[right].lo \in Nat /\ g[right].hi \in Nat /\ Top \in Nat
       /\ g[left].lo < g[left].hi /\ g[right].lo < g[right].hi /\ g[right].hi <= Top
  <2>1. Top \in Nat
    BY TopAbove
  <2>2. /\ g[left].lo \in Nat /\ g[left].hi \in Nat /\ g[right].lo \in Nat /\ g[right].hi \in Nat
    BY <1>2, GhostFacts
  <2>3. g[right].cap = g[right].hi
    BY <1>2
  <2>4. g[left].lo < g[left].hi /\ g[right].lo < g[right].hi /\ g[right].cap <= Top
    BY <1>9 DEF Placed
  <2> QED BY <2>1, <2>2, <2>3, <2>4
<1>11. node[left].next = right
  <2>. PICK q : q = node[left].next
    OBVIOUS
  <2>1. q # INVALID_PAGE_ID
    <3>1. ~(g[left].hi = Top)
      BY <1>4, <1>10
    <3> QED BY <1>9, <3>1 DEF NextLeaf
  <2>2. q \in Live /\ node[q].leaf /\ g[q].lo = g[left].hi
    BY <1>9, <2>1 DEF NextLeaf
  <2>3. PageOK(g, q) /\ q \in PageIds
    BY <2>2, NodeFacts DEF Good, TreeOK, Live
  <2>4. g[q].level = 0 /\ g[right].level = 0 /\ g[q].lo < g[q].hi
    BY <1>3, <1>9, <2>2, <2>3 DEF PageOK, Placed
  <2>5. q # right => g[q].hi <= g[right].lo \/ g[right].hi <= g[q].lo
    BY <1>2, <2>2, <2>4 DEF Good, TreeOK, Disjoint
  <2>6. g[q].lo \in Nat /\ g[q].hi \in Nat
    BY <2>3, GhostFacts
  <2> QED BY <1>4, <1>10, <2>2, <2>4, <2>5, <2>6
<1>12. NextLeaf(h, left)'
  BY <1>2, <1>3, <1>5, <1>6, <1>7, <1>8, <1>11 DEF NextLeaf
<1>13. NextLeaf(h, right)'
  <2>. PICK q : q = node[right].next
    OBVIOUS
  <2>1. node'[right].next = q
    BY <1>2, <1>6
  <2>2. CASE q = INVALID_PAGE_ID
    BY <1>8, <1>9, <2>1, <2>2 DEF NextLeaf
  <2>3. CASE q # INVALID_PAGE_ID
    <3>1. q \in Live /\ node[q].leaf /\ g[q].lo = g[right].hi
      BY <1>9, <2>3 DEF NextLeaf
    <3>2. q # left /\ q # right
      BY <1>4, <1>10, <3>1
    <3>3. q \in Live' /\ node'[q].leaf /\ h[q].lo = g[q].lo
      BY <1>5, <1>6, <3>1, <3>2 DEF Live
    <3> QED BY <1>8, <2>1, <2>3, <3>1, <3>3 DEF NextLeaf
  <2> QED BY <2>2, <2>3
<1> QED BY <1>12, <1>13

\* The tree is in order after a redistribution.
LEMMA ShiftTree ==
  ASSUME NEW g \in Ghosts, Good(g), NEW t \in Threads, Apart(t), NEW h, NEW p, NEW par, NEW sib,
         NEW left, NEW right, NEW x, NEW z, NEW m, NEW s, NEW k,
         ShiftDone(g, h, t, p, par, sib, left, right, x, z, m, s, k)
  PROVE  TreeAfter({left, right, par}, h)
<1>. PICK n, sz, N : n = node[par] /\ sz = Size(n) /\ N = Len(z)
  OBVIOUS
<1>1. Pairing(t, p, par, sib, left, right, x) /\ Shifted(left, right, par, x, z, m, s, k, p)
      /\ ShiftBounds(h, g, left, right, s) /\ ~MergedFit(p, sib)
  BY DEF ShiftDone
<1>2. \A c \in {left, right, par} :
        /\ c \in Live /\ c \in DOMAIN node /\ c \in PageIds /\ c \in Mine(t) /\ PageOK(g, c) /\ ~Hangs(c)
        /\ Size(node[c]) \in Nat
  BY <1>1, PairFacts
<1>3. /\ left # par /\ right # par /\ left # right
      /\ node[left].parent = par /\ node[right].parent = par
      /\ (node[left].leaf <=> node[right].leaf)
      /\ g[left].level = g[right].level /\ ~n.leaf
      /\ x \in 1 .. sz /\ x + 1 \in 1 .. sz
      /\ n.array[x].second = left /\ n.array[x + 1].second = right
      /\ g[left].level + 1 = g[par].level
  BY <1>1, PairFacts, PairPlaces
<1>4. g[right].lo = g[left].hi
  BY <1>1, PairFacts
<1>6. pc[t] = "underflow" /\ par # INVALID_PAGE_ID /\ root_page_id' = root_page_id
  BY <1>1 DEF Pairing
<1>7. /\ Live' = Live /\ left # INVALID_PAGE_ID /\ right # INVALID_PAGE_ID
      /\ (~node[left].leaf => z[k].second \notin {left, right, par} /\ node[z[k].second].parent \in {left, right})
  BY ShiftRest
<1>8. ASSUME NEW q \in DOMAIN node
      PROVE  /\ q \in DOMAIN node' /\ q \in PageIds /\ node'[q].leaf = node[q].leaf
             /\ h[q].level = g[q].level
             /\ q \notin {left, right} => h[q] = g[q]
             /\ q \notin {left, right, par} => node'[q].array = node[q].array
             /\ node'[q].parent = IF ~node[left].leaf /\ q = z[k].second THEN p ELSE node[q].parent
  BY ShiftRest
<1>9. \A c \in {left, right, par} : node'[c].parent = node[c].parent
  BY <1>2, <1>7, <1>8
<1>10. Live \subseteq DOMAIN node
  BY DEF Live
<1>11. /\ N \in Nat /\ m \in Nat /\ m >= 1 /\ m + 1 <= N
       /\ s \in Nat /\ g[left].lo < s /\ s < g[right].hi
  BY <1>1, ShiftCounts, ShiftSeparator
<1>12. /\ Piece(z, left, 0, m) /\ Piece(z, right, m, N - m)
       /\ Joined(z, node[left].array, node[right].array)
       /\ Keyed(node'[par].array, n.array, x + 1, s)
  BY Zenon, <1>1 DEF Shifted
<1>13. ASSUME NEW i \in 1 .. sz
       PROVE  Size(node[par])' = sz /\ node'[par].array[i].second = n.array[i].second
  BY <1>12 DEF Keyed, Size
<1>14. ASSUME NEW i \in 1 .. N, NEW c, c = IF i <= m THEN left ELSE right, NEW q, q = z[i].second
       PROVE  IsChild(q, c)'
  <2>1. CASE i <= m
    <3>1. i \in 1 .. m /\ 0 + i = i
      BY <1>11, <2>1
    <3>2. Size(node[left])' = m /\ node'[left].array[i] = z[i]
      BY <1>12, <3>1 DEF Piece, Size
    <3> QED BY <1>14, <2>1, <3>1, <3>2 DEF IsChild
  <2>2. CASE ~(i <= m)
    <3>. PICK j : j = i - m
      OBVIOUS
    <3>1. j \in 1 .. N - m /\ m + j = i
      BY <1>11, <2>2
    <3>2. Size(node[right])' = N - m /\ node'[right].array[j] = z[i]
      BY <1>12, <3>1 DEF Piece, Size
    <3> QED BY <1>14, <2>2, <3>1, <3>2 DEF IsChild
  <2> QED BY <2>1, <2>2
<1>18. ASSUME NEW q \in Live \ {left, right, par}, node[q].parent \in {left, right, par}
       PROVE  HasParent(q)'
  <2>. PICK c : c = node[q].parent
    OBVIOUS
  <2>1. q \in DOMAIN node /\ HasParent(q) /\ c # INVALID_PAGE_ID /\ c \in Mine(t) \cap PageIds /\ c \in Live
    BY <1>2, <1>6, <1>7, <1>10, <1>18 DEF Good, TreeOK, PageOK
  <2>2. ~Hangs(q)
    BY <1>6, <2>1, HangsOwn
  <2>3. ~node[c].leaf /\ IsChild(q, c)
    BY <2>1, <2>2 DEF HasParent
  <2>4. PICK i \in 1 .. Size(node[c]) : node[c].array[i].second = q
    BY <2>3 DEF IsChild
  <2>5. CASE c = par
    <3>1. ~(~node[left].leaf /\ q = z[k].second)
      BY <1>3, <1>7, <2>5
    <3>2. node'[q].parent = par /\ par \in Live' /\ ~node'[par].leaf
      BY <1>2, <1>3, <1>7, <1>8, <2>1, <2>5, <3>1
    <3>3. IsChild(q, par)'
      BY <1>13, <2>4, <2>5 DEF IsChild
    <3> QED BY <1>6, <3>2, <3>3 DEF HasParent
  <2>6. CASE c \in {left, right}
    <3>1. ~node[left].leaf
      BY <1>3, <2>3, <2>6
    <3>2. PICK j \in 1 .. N : z[j].second = q
      <4>9. PICK u, r : u = Len(node[left].array) /\ r = Len(node[right].array)
        OBVIOUS
      <4>1. u \in Nat /\ r \in Nat /\ N = u + r
        BY <1>2, <1>12, <4>9 DEF Size, Joined
      <4>2. CASE c = left
        <5>1. i \in 1 .. u
          BY <2>4, <4>2, <4>9 DEF Size
        <5>2. i \in 1 .. u + r
          BY <4>1, <5>1
        <5>3. z[i] = node[left].array[i]
          BY <1>12, <4>9, <5>1 DEF Joined
        <5> QED BY <2>4, <4>1, <4>2, <5>2, <5>3
      <4>3. CASE c = right
        <5>1. i \in 1 .. r
          BY <2>4, <4>3, <4>9 DEF Size
        <5>2. u + i \in 1 .. u + r
          BY <4>1, <5>1
        <5>3. z[u + i] = node[right].array[i]
          BY <1>12, <4>9, <5>1 DEF Joined
        <5> QED BY <2>4, <4>1, <4>3, <5>2, <5>3
      <4> QED BY <2>6, <4>2, <4>3
    <3>. PICK d : d = IF j <= m THEN left ELSE right
      OBVIOUS
    <3>3. node'[q].parent = d
      <4>. PICK E : E = [l \in 1 .. N + 1 |-> RowEdge(g, left, right, l)]
        OBVIOUS
      <4>1. InnerRow(g, left, right, z, E, N)
        BY <1>1, <1>12, <3>1, InnerRowIs
      <4> QED BY <3>1, <3>2, <4>1, ShiftParents
    <3>4. IsChild(q, d)'
      BY <1>14, <3>2
    <3>5. d \in Live' /\ ~node'[d].leaf /\ d # INVALID_PAGE_ID
      BY <1>2, <1>3, <1>7, <1>8, <3>1
    <3> QED BY <3>3, <3>4, <3>5 DEF HasParent
  <2> QED BY <1>18, <2>5, <2>6
<1>19. ASSUME NEW c \in {left, right} PROVE PageOK(h, c)'
  <2>1. \E i \in 1 .. sz : n.array[i].second = c
    BY <1>3
  <2>2. IsChild(c, par)'
    BY <1>13, <2>1 DEF IsChild
  <2>3. HasParent(c)'
    BY <1>2, <1>3, <1>6, <1>7, <1>8, <1>9, <2>2 DEF HasParent
  <2>7. PICK u, w : (c = left /\ u = 0 /\ w = m) \/ (c = right /\ u = m /\ w = Len(z) - m)
    <3>1. CASE c = left
      <4>. PICK a, b : a = 0 /\ b = m
        OBVIOUS
      <4>1. (c = left /\ a = 0 /\ b = m) \/ (c = right /\ a = m /\ b = Len(z) - m)
        BY <3>1
      <4> QED BY <4>1
    <3>2. CASE c = right
      BY <3>2
    <3> QED BY <3>1, <3>2
  <2>4. /\ node[c].leaf => LeafEntries(h, c)'
        /\ ~node[c].leaf => Inner(h, c)'
        /\ Sized(c)' /\ Placed(h, c)'
    BY <2>7, ShiftPiece
  <2>5. node[c].leaf => NextLeaf(h, c)'
    <3>1. node[left].leaf => NextLeaf(h, left)' /\ NextLeaf(h, right)'
      BY ShiftNext
    <3>2. CASE c = left
      BY <3>1, <3>2
    <3>3. CASE c = right
      BY <1>3, <3>1, <3>3
    <3> QED BY <3>2, <3>3
  <2>6. node'[c].leaf = node[c].leaf
    BY <1>2, <1>8
  <2> QED BY <2>3, <2>4, <2>5, <2>6 DEF PageOK
<1>20. HasParent(par)'
  <2>. PICK q : q = n.parent
    OBVIOUS
  <2>1. HasParent(par) /\ node'[par].parent = q
    BY <1>2, <1>9 DEF PageOK
  <2>2. CASE q = INVALID_PAGE_ID
    BY <1>2, <1>6, <2>1, <2>2 DEF HasParent
  <2>3. CASE q # INVALID_PAGE_ID
    <3>1. q \in Live /\ ~node[q].leaf /\ IsChild(par, q)
      BY <1>2, <2>1, <2>3 DEF HasParent
    <3>2. q \notin {left, right, par}
      <4>1. ChildOf(g, q, ValueIndex(node[q], par)) /\ node[q].array[ValueIndex(node[q], par)].second = par
        BY <3>1, ChildPosition
      <4>2. g[par].level + 1 = g[q].level
        BY <4>1 DEF ChildOf
      <4>3. g[left].level + 1 = g[par].level /\ g[right].level = g[left].level
        BY <1>3
      <4>4. g[par].level \in Nat /\ g[left].level \in Nat
        BY <1>2, GhostFacts
      <4>5. g[q].level # g[par].level /\ g[q].level # g[left].level /\ g[q].level # g[right].level
        BY <4>2, <4>3, <4>4
      <4> QED BY <4>5
    <3>3. q \in Live' /\ node'[q].leaf = node[q].leaf /\ node'[q].array = node[q].array
      BY Zenon, <1>7, <1>8, <1>10, <3>1, <3>2
    <3>4. IsChild(par, q)'
      BY <3>1, <3>3 DEF IsChild, Size
    <3> QED BY <2>1, <2>3, <3>1, <3>3, <3>4 DEF HasParent
  <2> QED BY <2>2, <2>3
<1>21. PageOK(h, par)'
  BY <1>20, ShiftParent
<1>22. Changes(t, {left, right, par}, g, h)
  BY ShiftChanges
<1>23. Rooted(h)'
  <2>1. root_page_id # INVALID_PAGE_ID /\ root_page_id \notin {left, right}
    <3>1. Rooted(g)
      BY DEF Good, TreeOK
    <3>2. par \in Live
      BY <1>2
    <3> QED BY <1>3, <1>6, <3>1, <3>2 DEF Rooted
  <2>2. root_page_id \in {left, right, par} =>
           /\ root_page_id \in Live' /\ node'[root_page_id].parent = node[root_page_id].parent
           /\ h[root_page_id].lo = g[root_page_id].lo /\ h[root_page_id].cap = g[root_page_id].cap
    BY <1>2, <1>3, <1>7, <1>8, <1>9, <2>1
  <2>3. \A c \in {left, right, par} : c \in Live' => \E q \in Live : h[c].level = g[q].level
    BY <1>2, <1>8
  <2> QED BY <1>6, <1>22, <2>1, <2>2, <2>3, RootedKept
<1>24. ASSUME NEW c \in {left, right, par}, NEW q \in Live', c \in Live', c # q, h[c].level = h[q].level
       PROVE  h[c].hi <= h[q].lo \/ h[q].hi <= h[c].lo
  <2>1. c \in Live /\ q \in Live
    BY <1>7, <1>24
  <2>2. \A r, v \in Live : r # v /\ g[r].level = g[v].level => g[r].hi <= g[v].lo \/ g[v].hi <= g[r].lo
    BY DEF Good, TreeOK, Disjoint
  <2>3. ASSUME NEW r \in Live
        PROVE  /\ g[r].lo \in Nat /\ g[r].hi \in Nat /\ g[r].lo < g[r].hi
               /\ h[r].level = g[r].level
               /\ r \notin {left, right} => h[r].lo = g[r].lo /\ h[r].hi = g[r].hi
    <3>1. r \in DOMAIN node /\ r \in PageIds /\ PageOK(g, r)
      BY <1>8, <1>10 DEF Good, TreeOK
    <3> QED BY <1>8, <3>1, GhostFacts DEF PageOK, Placed
  <2>4. /\ h[left].lo = g[left].lo /\ h[left].hi = s /\ h[right].lo = s /\ h[right].hi = g[right].hi
        /\ h[left].level = g[left].level /\ h[right].level = g[right].level
    BY <1>1 DEF ShiftBounds
  <2>5. ASSUME NEW r \in Live, r # left, r # right, g[r].level = g[left].level
        PROVE  /\ h[left].hi <= h[r].lo \/ h[r].hi <= h[left].lo
               /\ h[right].hi <= h[r].lo \/ h[r].hi <= h[right].lo
    <3>1. g[r].hi <= g[left].lo \/ g[left].hi <= g[r].lo
      BY <1>2, <2>2, <2>5
    <3>2. g[r].hi <= g[right].lo \/ g[right].hi <= g[r].lo
      BY <1>2, <1>3, <2>2, <2>5
    <3>3. /\ g[r].lo \in Nat /\ g[r].hi \in Nat /\ g[r].lo < g[r].hi
          /\ h[r].lo = g[r].lo /\ h[r].hi = g[r].hi
      BY <2>3, <2>5
    <3>4. g[left].lo \in Nat /\ g[left].hi \in Nat /\ g[right].hi \in Nat
      BY <1>2, <2>3
    <3> QED BY <1>4, <1>11, <2>4, <3>1, <3>2, <3>3, <3>4
  <2>6. h[left].hi = h[right].lo /\ s <= s
    BY <1>11, <2>4
  <2>7. g[c].level = g[q].level
    BY <1>24, <2>1, <2>3
  <2>8. CASE c \in {left, right} /\ q \in {left, right}
    BY <1>24, <2>4, <2>6, <2>8
  <2>9. CASE c \in {left, right} /\ q \notin {left, right}
    <3>1. g[q].level = g[left].level
      BY <1>3, <2>7, <2>9
    <3> QED BY <2>1, <2>5, <2>9, <3>1
  <2>10. CASE c \notin {left, right} /\ q \in {left, right}
    <3>1. g[c].level = g[left].level
      BY <1>3, <2>7, <2>10
    <3> QED BY <2>1, <2>5, <2>10, <3>1
  <2>11. CASE c \notin {left, right} /\ q \notin {left, right}
    BY <1>24, <2>1, <2>2, <2>3, <2>7, <2>11
  <2> QED BY <2>8, <2>9, <2>10, <2>11
<1> QED
  <2>1. \A c \in {left, right, par} : c \in Live' => PageOK(h, c)'
    BY <1>19, <1>21
  <2>2. \A q \in Live \ {left, right, par} : node[q].parent \in {left, right, par} => HasParent(q)'
    BY <1>18
  <2> QED BY <1>23, <1>24, <2>1, <2>2 DEF TreeAfter

-----------------------------------------------------------------------------
(* Redistributions and merges keep the tree good. *)

\* A redistribution keeps the tree good.
LEMMA ShiftKeeps ==
  ASSUME NEW g \in Ghosts, Good(g), NEW t \in Threads, CoalesceOrRedistribute(t),
         NEW p, NEW par, NEW sib, NEW left, NEW right, NEW x,
         Pairing(t, p, par, sib, left, right, x),
         left = (IF IsFirst(p) THEN p ELSE sib), right = (IF IsFirst(p) THEN sib ELSE p),
         ~MergedFit(p, sib)
  PROVE  \E h \in Ghosts : Good(h)'
<1>1. /\ Acts(t) /\ Apart(t) /\ LatchesOK(t) /\ HeaderOK'
      /\ pc[t] = "underflow" /\ p = at[t]
      /\ UNCHANGED <<root_page_id, header, rootLock, call, target, fresh, answer>>
      /\ latch' \in [PageIds -> Lock] /\ pages' \in [Threads -> SUBSET PageIds]
      /\ pages'[t] = pages[t] \cup {sib}
      /\ TypeOK /\ ThreadOK(g, t) /\ PointOf(t)
  BY PairLatches DEF Good, ThreadOK
<1>2. par = node[p].parent /\ par # INVALID_PAGE_ID /\ sib = Sibling(p)
  BY DEF Pairing
<1>3. /\ node' = (IF IsFirst(p) THEN BorrowFirst(p, sib, par) ELSE BorrowLast(p, sib, par))
      /\ pc' = [pc EXCEPT ![t] = "free"]
      /\ doomed' = doomed /\ at' = at
  BY <1>1, <1>2 DEF CoalesceOrRedistribute, GoTo
<1>4. \A c \in {left, right, par} :
        /\ c \in Live /\ c \in DOMAIN node /\ c \in PageIds /\ c \in pages'[t] /\ c \notin doomed[t]
        /\ Size(node[c]) \in Nat
  BY PairFacts
<1>5. Exclusive(t) /\ call[t].op = "Remove" /\ sib \in Live /\ left # right
  BY PairPlaces
<1>6. \E z, m, s, k : Shifted(left, right, par, x, z, m, s, k, p)
  <2>1. CASE IsFirst(p)
    BY <1>3, <2>1, BorrowFirstIs
  <2>2. CASE ~IsFirst(p)
    BY <1>3, <2>2, BorrowLastIs
  <2> QED BY <2>1, <2>2
<1>7. PICK z, m, s, k : Shifted(left, right, par, x, z, m, s, k, p)
  BY Zenon, <1>6
<1>8. PICK h \in Ghosts : ShiftBounds(h, g, left, right, s)
  <2>. PICK l : l = [lo |-> g[left].lo, hi |-> s, cap |-> s, level |-> g[left].level]
    OBVIOUS
  <2>. PICK r : r = [lo |-> s, hi |-> g[right].hi, cap |-> g[right].cap, level |-> g[right].level]
    OBVIOUS
  <2>. PICK h : h = [g EXCEPT ![left] = l, ![right] = r]
    OBVIOUS
  <2>1. /\ g[left].lo \in Nat /\ g[right].hi \in Nat /\ g[right].cap \in Nat
        /\ g[left].level \in Nat /\ g[right].level \in Nat
    BY <1>4, GhostFacts
  <2>2. s \in Nat
    BY <1>7, ShiftSeparator
  <2>3. l \in Bounds /\ r \in Bounds
    BY Zenon, <2>1, <2>2 DEF Bounds
  <2>4. h \in Ghosts /\ h[left] = l /\ h[right] = r /\ \A q \in PageIds \ {left, right} : h[q] = g[q]
    BY <1>4, <1>5, <2>3 DEF Ghosts
  <2>5. /\ l.lo = g[left].lo /\ l.hi = s /\ l.cap = s /\ l.level = g[left].level
        /\ r.lo = s /\ r.hi = g[right].hi /\ r.cap = g[right].cap /\ r.level = g[right].level
    BY Zenon
  <2>6. ShiftBounds(h, g, left, right, s)
    BY <2>4, <2>5 DEF ShiftBounds
  <2> QED BY <2>4, <2>6
<1>9. ShiftDone(g, h, t, p, par, sib, left, right, x, z, m, s, k)
  BY <1>3, <1>7, <1>8 DEF ShiftDone
<1>10. pc'[t] = "free" /\ doomed'[t] = doomed[t]
  BY <1>1, <1>3 DEF TypeOK
<1>11. Changes(t, {left, right, par}, g, h)
  BY <1>9, ShiftChanges
<1>12. TreeAfter({left, right, par}, h)
  BY <1>1, <1>9, ShiftTree
<1>13. TypeOK'
  <2>1. pc' \in [Threads -> Points]
    BY <1>1, <1>3 DEF TypeOK, Points
  <2>2. at' \in [Threads -> PageIds \cup {INVALID_PAGE_ID}] /\ doomed' \in [Threads -> SUBSET PageIds]
    BY Zenon, <1>1, <1>3 DEF TypeOK
  <2>3. DOMAIN node' \subseteq PageIds /\ \A q \in DOMAIN node' : node'[q] \in Node
    BY <1>1, <1>7 DEF TypeOK, Shifted
  <2> QED BY <1>1, <2>1, <2>2, <2>3 DEF TypeOK
<1>14. pages[t] \subseteq DOMAIN node /\ doomed[t] \subseteq pages[t]
  BY <1>1 DEF PointOf
<1>15. DOMAIN node' = DOMAIN node
  BY <1>7 DEF Shifted
<1>16. PointOf(t)'
  <2>1. pages'[t] \subseteq DOMAIN node'
    BY <1>1, <1>5, <1>14, <1>15 DEF Live
  <2>2. doomed'[t] \subseteq pages'[t]
    BY <1>1, <1>10, <1>14
  <2>3. ASSUME NEW q \in doomed[t] PROVE node'[q].array = <<>>
    <3>1. q \in DOMAIN node /\ q \notin {left, right, par} /\ node[q].array = <<>>
      BY <1>1, <1>4, <1>14 DEF PointOf
    <3>2. node'[q].array = node[q].array
      BY <1>7, <3>1 DEF Shifted
    <3> QED BY <3>1, <3>2
  <2> QED BY <1>1, <1>5, <1>10, <2>1, <2>2, <2>3 DEF PointOf, Exclusive
<1>17. ThreadOK(h, t)'
  BY <1>10, <1>16, OwnSimple
<1>18. Good(h)'
  BY <1>1, <1>5, <1>11, <1>12, <1>13, <1>17, ChangesStep
<1> QED BY <1>18

\* CoalesceOrRedistribute does one or the other.
LEMMA CoalesceKeeps ==
  ASSUME NEW g \in Ghosts, Good(g), NEW t \in Threads, CoalesceOrRedistribute(t)
  PROVE  \E h \in Ghosts : Good(h)'
<1>1. PICK p : p = at[t]
  OBVIOUS
<1>2. PICK par, sib : par = node[p].parent /\ sib = Sibling(p)
  OBVIOUS
<1>3. PICK left, right : left = (IF IsFirst(p) THEN p ELSE sib) /\ right = (IF IsFirst(p) THEN sib ELSE p)
  OBVIOUS
<1>4. PICK x : x = ValueIndex(node[par], left)
  OBVIOUS
<1>5. Pairing(t, p, par, sib, left, right, x)
  BY <1>1, <1>2, <1>3, <1>4, PairingIs
<1>6. CASE MergedFit(p, sib)
  BY <1>3, <1>5, <1>6, MergeKeeps
<1>7. CASE ~MergedFit(p, sib)
  BY <1>3, <1>5, <1>7, ShiftKeeps
<1> QED BY <1>6, <1>7

\* The inductive invariant.
GoodTree == \E g \in Ghosts : Good(g)

\* An empty tree is good.
LEMMA InitGood ==
  ASSUME Init
  PROVE  GoodTree
<1>1. PICK g : g = [p \in PageIds |-> [lo |-> 0, hi |-> 0, cap |-> 0, level |-> 0]]
  OBVIOUS
<1>2. g \in Ghosts
  BY <1>1 DEF Ghosts, Bounds
<1>3. DOMAIN node = {} /\ Live = {}
  BY DEF Init, EmptyTree, Live
<1>4. TypeOK
  <2>1. /\ root_page_id \in PageIds \cup {INVALID_PAGE_ID}
        /\ header \in PageIds \cup {INVALID_PAGE_ID, NoRecord}
        /\ DOMAIN node \subseteq PageIds /\ \A p \in DOMAIN node : node[p] \in Node
    BY <1>3 DEF Init, EmptyTree
  <2>2. rootLock \in Lock /\ latch \in [PageIds -> Lock]
    BY DEF Init, NoCalls, FreeLock, Lock
  <2>3. pc \in [Threads -> Points] /\ call \in [Threads -> Calls \cup ScanCalls \cup {NoCall}]
    BY DEF Init, NoCalls, Points
  <2>4. \A local \in {target, at, fresh} : local \in [Threads -> PageIds \cup {INVALID_PAGE_ID}]
    BY DEF Init, NoCalls
  <2>5. /\ pages \in [Threads -> SUBSET PageIds] /\ doomed \in [Threads -> SUBSET PageIds]
        /\ answer \in [Threads -> Values \cup {"inserted", "duplicate", "removed", "end", NotFound, Pending}]
    BY DEF Init, NoCalls
  <2> QED BY <2>1, <2>2, <2>3, <2>4, <2>5 DEF TypeOK
<1>5. TreeOK(g)
  BY <1>3 DEF TreeOK, Rooted, Disjoint, Init, EmptyTree
<1>6. ASSUME NEW t \in Threads
      PROVE  ThreadOK(g, t) /\ RootLockOK(t) /\ \A p \in PageIds : LatchOK(t, p)
  <2>1. /\ pc[t] = "idle" /\ call[t] = NoCall /\ pages[t] = {} /\ doomed[t] = {}
    BY DEF Init, NoCalls
  <2>2. PointOf(t)
    BY <2>1 DEF PointOf
  <2>3. ThreadOK(g, t)
    BY <2>1, <2>2 DEF ThreadOK, Descends, InLeaf, Walks, Climbs, Splits, Links, Shrinks, Keeps, Levels
  <2>4. t # Nobody
    BY TreeAssumption
  <2>5. RootLockOK(t)
    BY <2>4 DEF Init, NoCalls, FreeLock, RootLockOK
  <2>6. \A p \in PageIds : LatchOK(t, p)
    BY <2>1, <2>4 DEF Init, NoCalls, FreeLock, LatchOK
  <2> QED BY <2>3, <2>5, <2>6
<1>7. ScansAlone
  BY DEF ScansAlone, Init, NoCalls, NoCall
<1>8. HeaderOK
  BY DEF HeaderOK, Init, EmptyTree
<1> QED BY <1>2, <1>4, <1>5, <1>6, <1>7, <1>8 DEF GoodTree, Good, LatchInv

\* A step that changes nothing keeps the tree good.
LEMMA StutterGood ==
  ASSUME NEW g, Good(g), UNCHANGED vars
  PROVE  Good(g)'
<1>1. /\ root_page_id' = root_page_id /\ header' = header /\ node' = node
      /\ rootLock' = rootLock /\ latch' = latch /\ pc' = pc /\ call' = call /\ target' = target
      /\ pages' = pages /\ doomed' = doomed /\ at' = at /\ fresh' = fresh /\ answer' = answer
  BY DEF vars, treeVars, lockVars
<1>2. TypeOK'
  BY Zenon, <1>1 DEF Good, TypeOK
<1>3. TreeOK(g)'
  BY <1>1 DEF Good, TreeOK, PageOK, Placed, LeafEntries, NextLeaf, Inner, ChildOf, Edge, HasParent,
              Sized, Rooted, Disjoint, Live, Doomed, Busy, Hangs, IsChild, Size, MaxSize, Low
<1>4. \A t \in Threads : ThreadOK(g, t)'
  BY <1>1 DEF Good, ThreadOK, PointOf, Descends, InLeaf, Walks, Climbs, Splits, Links, Shrinks, Keeps, Levels,
              InRange, HoldsRoot, Exclusive, Live, Doomed, ParentHeld, IsChild, Size, MaxSize, MinSize, Low, Half, IsSafe
<1>5. LatchInv' /\ ScansAlone' /\ HeaderOK'
  <2>1. \A p : Sibling(p)' = Sibling(p)
    BY <1>1 DEF Sibling, ValueIndex, Size
  <2>2. \A t, p : Waits(t, p)' <=> Waits(t, p)
    BY <1>1, <2>1 DEF Waits
  <2>3. ASSUME NEW t \in Threads PROVE RootLockOK(t)' /\ \A p \in PageIds : LatchOK(t, p)'
    <3>1. RootLockOK(t)'
      BY <1>1 DEF Good, LatchInv, RootLockOK, Exclusive
    <3>2. ASSUME NEW p \in PageIds PROVE LatchOK(t, p)'
      <4>1. LatchOK(t, p)
        BY DEF Good, LatchInv
      <4> QED BY <1>1, <2>2, <4>1 DEF LatchOK, Held, Exclusive
    <3> QED BY <3>1, <3>2
  <2>4. ScansAlone' /\ HeaderOK'
    BY <1>1 DEF Good, ScansAlone, HeaderOK
  <2> QED BY <2>3, <2>4 DEF LatchInv
<1> QED BY <1>2, <1>3, <1>4, <1>5 DEF Good

\* So does every action.
LEMMA NextGood ==
  GoodTree /\ [Next]_vars => GoodTree'
<1>. SUFFICES ASSUME NEW g \in Ghosts, Good(g), [Next]_vars
              PROVE  \E h \in Ghosts : Good(h)'
  BY DEF GoodTree
<1>1. CASE UNCHANGED vars
  BY <1>1, StutterGood
<1>2. ASSUME NEW t \in Threads, Call(t) \/ CallScan(t) \/ Step(t)
      PROVE  \E h \in Ghosts : Good(h)'
  <2>1. CASE Call(t) \/ CallScan(t)
    BY <2>1, CallKeeps
  <2>2. CASE CheckEmpty(t) \/ IsEmpty(t) \/ EnterRootLock(t)
    BY <2>2, CheckKeeps
  <2>3. CASE StartNewTree(t)
    BY <2>3, StartNewTreeKeeps
  <2>4. CASE FindRoot(t)
    BY <2>4, FindRootKeeps
  <2>5. CASE LatchPage(t)
    BY <2>5, LatchPageKeeps
  <2>6. CASE GetValue(t) \/ ScanBegin(t) \/ ScanClose(t)
    BY <2>6, LeafKeeps
  <2>7. CASE InsertIntoLeaf(t)
    BY <2>7, InsertIntoLeafKeeps
  <2>8. CASE SplitNode(t)
    BY <2>8, SplitNodeKeeps
  <2>9. CASE GrowRoot(t)
    BY <2>9, GrowRootKeeps
  <2>10. CASE InsertIntoParent(t)
    BY <2>10, InsertIntoParentKeeps
  <2>11. CASE RemoveFromLeaf(t)
    BY <2>11, RemoveFromLeafKeeps
  <2>12. CASE AdjustRoot(t)
    BY <2>12, AdjustRootKeeps
  <2>13. CASE CoalesceOrRedistribute(t)
    BY <2>13, CoalesceKeeps
  <2>14. CASE EnterPage(t) \/ EnterSibling(t)
    BY <2>14, EnterKeeps
  <2>15. CASE ScanLeaf(t)
    BY <2>15, ScanLeafKeeps
  <2>16. CASE ScanNext(t)
    BY <2>16, ScanNextKeeps
  <2>17. CASE FreePages(t)
    BY <2>17, FreePagesKeeps
  <2> QED BY <1>2, <2>1, <2>2, <2>3, <2>4, <2>5, <2>6, <2>7, <2>8, <2>9, <2>10, <2>11, <2>12,
             <2>13, <2>14, <2>15, <2>16, <2>17 DEF Step
<1> QED BY <1>1, <1>2 DEF Next

\* The tree is good in every state.
THEOREM TreeGood == Spec => []GoodTree
<1>1. Init => GoodTree
  BY InitGood
<1>2. GoodTree /\ [Next]_vars => GoodTree'
  BY NextGood
<1> QED BY <1>1, <1>2, PTL DEF Spec

\* Every variable of the tree has its type, for all keys, sizes and threads.
THEOREM TreeTypeOK == Spec => []TypeOK
<1>1. GoodTree => TypeOK
  BY DEF GoodTree, Good
<1> QED BY <1>1, TreeGood, PTL

\* Between calls the header page never leads to a page that is not the root
\* (UpdateRootPageId).
THEOREM HeaderKept == Spec => []HeaderIsRootOrInvalid
<1>1. GoodTree => HeaderIsRootOrInvalid
  BY DEF GoodTree, Good, HeaderOK, HeaderIsRootOrInvalid
<1> QED BY <1>1, TreeGood, PTL

\* In a good tree the assertions hold.
LEMMA AssertionsFollow ==
  ASSUME NEW g \in Ghosts, Good(g)
  PROVE  AssertionsHold
<1>. SUFFICES ASSUME NEW t \in Threads
               PROVE  /\ doomed[t] \subseteq pages[t]
                      /\ pc[t] = "latch" /\ pages[t] # {} => target[t] \in DOMAIN node
                      /\ pc[t] = "split" => Size(node[at[t]]) = MaxSize(node[at[t]]) + 1
                      /\ pc[t] = "underflow" /\ node[at[t]].parent # INVALID_PAGE_ID
                           => Size(node[node[at[t]].parent]) > 1
                      /\ \A p \in pages[t] : pc[t] = "latch" /\ ~node[p].leaf => Size(node[p]) > 1
  BY DEF AssertionsHold
<1>2. PointOf(t) /\ Descends(g, t) /\ Splits(t)
  BY DEF Good, ThreadOK
<1>3. doomed[t] \subseteq pages[t] /\ pages[t] \subseteq DOMAIN node
      /\ (pc[t] = "latch" => doomed[t] = {})
  BY <1>2 DEF PointOf
<1>4. pc[t] = "latch" => target[t] \in DOMAIN node
  BY <1>2 DEF Descends, Live
<1>5. ASSUME pc[t] = "underflow", node[at[t]].parent # INVALID_PAGE_ID
      PROVE  Size(node[node[at[t]].parent]) > 1
  <2>. PICK p, q, i, j : p = at[t] /\ q = node[p].parent /\ i = ValueIndex(node[q], p) /\ j = SiblingAt(q, p)
    OBVIOUS
  <2>1. Size(node[q]) >= 2 /\ q \in Live
    BY <1>5, SiblingFacts
  <2>2. Size(node[q]) \in Nat
    BY <2>1, NodeFacts DEF Live
  <2> QED BY <2>1, <2>2
<1>6. ASSUME NEW p \in pages[t], pc[t] = "latch", ~node[p].leaf
      PROVE  Size(node[p]) > 1
  <2>1. p \in Live /\ p \in DOMAIN node
    BY <1>3, <1>6, LiveMine
  <2>2. ~Busy(p, "underflow")
    BY <1>6, BusyMine
  <2>3. Low(node[p]) <= Size(node[p]) /\ Size(node[p]) \in Nat
    BY <2>1, <2>2, NodeFacts DEF Good, TreeOK, PageOK, Sized
  <2>4. Low(node[p]) \in Nat /\ Low(node[p]) >= 2
    BY <1>6, TreeAssumption DEF Low
  <2> QED BY <2>3, <2>4
<1> QED BY <1>2, <1>3, <1>4, <1>5, <1>6 DEF Splits

\* The assertions of the code hold where it evaluates them, whatever other threads do.
THEOREM TreeAssertionsHold == Spec => []AssertionsHold
<1>1. GoodTree => AssertionsHold
  BY AssertionsFollow DEF GoodTree
<1> QED BY <1>1, TreeGood, PTL

-----------------------------------------------------------------------------
(* Deadlock. *)

\* The thread is about to latch a page.
Wanting(t) == pc[t] \in {"latch", "walk", "underflow"}

Wanted(t) == IF pc[t] = "underflow" THEN Sibling(at[t]) ELSE target[t]

\* Every call under way waits for a lock.
AllBlocked == \A t \in Threads : pc[t] # "idle" => Blocked(t)

\* What the page is that a blocked thread wants, and why it does not get it.
LEMMA WantedFacts ==
  ASSUME NEW g \in Ghosts, Good(g), NEW t \in Threads, Wanting(t), Blocked(t)
  PROVE  /\ Wanted(t) \in Live /\ Wanted(t) \in PageIds /\ g[Wanted(t)].level \in Nat
         /\ ~Granted(latch[Wanted(t)], t)
<1>1. ThreadOK(g, t)
  BY DEF Good
<1>2. Wanted(t) \in Live /\ ~Granted(latch[Wanted(t)], t)
  <2>1. CASE pc[t] = "latch"
    BY <1>1, <2>1 DEF ThreadOK, Descends, Wanted, Blocked
  <2>2. CASE pc[t] = "walk"
    BY <1>1, <2>2 DEF ThreadOK, Walks, Wanted, Blocked
  <2>3. CASE pc[t] = "underflow"
    <3>1. node[at[t]].parent # INVALID_PAGE_ID
          /\ (Sibling(at[t]) \in pages[t] \/ ~Granted(latch[Sibling(at[t])], t))
      BY <2>3 DEF Blocked
    <3>2. Sibling(at[t]) \in Live /\ Sibling(at[t]) \notin pages[t]
      BY <2>3, <3>1, SiblingFacts
    <3> QED BY <2>3, <3>1, <3>2 DEF Wanted
  <2> QED BY <2>1, <2>2, <2>3 DEF Wanting
<1>3. Wanted(t) \in PageIds
  BY <1>2, NodeFacts DEF Live
<1> QED BY <1>2, <1>3, GhostFacts

\* A thread that has pages latched and waits, waits for a lower one, or is a removal that
\* goes up again.
LEMMA HolderWants ==
  ASSUME NEW g \in Ghosts, Good(g), NEW t \in Threads, AllBlocked, NEW p \in pages[t]
  PROVE  /\ Wanting(t) /\ Blocked(t)
         /\ \/ pc[t] = "latch" /\ g[Wanted(t)].level < g[p].level
            \/ pc[t] = "underflow" /\ Exclusive(t) /\ g[Wanted(t)].level = g[at[t]].level
<1>1. ThreadOK(g, t) /\ PointOf(t)
  BY DEF Good, ThreadOK
<1>2. pc[t] \notin {"idle", "check", "root", "walk"}
  BY <1>1 DEF PointOf
<1>3. Blocked(t)
  BY <1>2 DEF AllBlocked
<1>4. pc[t] \in {"latch", "underflow"}
  BY <1>2, <1>3 DEF Blocked
<1>5. CASE pc[t] = "latch"
  BY <1>1, <1>3, <1>5 DEF ThreadOK, Descends, Wanting, Wanted
<1>6. CASE pc[t] = "underflow"
  <2>1. node[at[t]].parent # INVALID_PAGE_ID
    BY <1>3, <1>6 DEF Blocked
  <2>2. Exclusive(t) /\ g[Sibling(at[t])].level = g[at[t]].level
    BY <1>6, <2>1, SiblingFacts
  <2> QED BY <1>3, <1>6, <2>2 DEF Wanting, Wanted
<1> QED BY <1>4, <1>5, <1>6

\* Nobody reads the lowest page that is wanted.
LEMMA LowestUnread ==
  ASSUME NEW g \in Ghosts, Good(g), AllBlocked, NEW p \in PageIds,
         \A u \in Threads : Wanting(u) => g[p].level <= g[Wanted(u)].level
  PROVE  latch[p].readers = {}
<1>1. SUFFICES ASSUME NEW u, u \in latch[p].readers PROVE FALSE
  OBVIOUS
<1>2. latch[p] \in Lock
  BY DEF Good, TypeOK
<1>3. u \in Threads
  BY <1>1, <1>2 DEF Lock
<1>4. p \in pages[u] /\ ~Exclusive(u)
  BY <1>1, <1>3 DEF Good, LatchInv, LatchOK
<1>5. Wanting(u) /\ Blocked(u) /\ g[Wanted(u)].level < g[p].level
  BY <1>3, <1>4, HolderWants
<1>6. g[Wanted(u)].level \in Nat /\ g[p].level \in Nat
  BY <1>3, <1>5, WantedFacts, GhostFacts
<1>7. g[p].level <= g[Wanted(u)].level
  BY <1>3, <1>5
<1> QED BY <1>5, <1>6, <1>7

\* A blocked thread that holds the parent of a page keeps others from waiting for it.
LEMMA ParentAlone ==
  ASSUME NEW g \in Ghosts, Good(g), NEW t \in Threads, Wanting(t), Blocked(t),
         NEW u \in Threads \ {t}, pc[u] = "underflow", Exclusive(u)
  PROVE  ~ParentHeld(u, Wanted(t))
<1>. PICK p, q : p = Wanted(t) /\ q = node[p].parent
  OBVIOUS
<1>1. ThreadOK(g, t) /\ p \in Live /\ p \in PageIds /\ PointOf(u) /\ PointOf(t)
  BY WantedFacts DEF Good, ThreadOK
<1>2. SUFFICES ASSUME ParentHeld(u, p) PROVE FALSE
  OBVIOUS
<1>3. /\ \A r \in pages[t] : r \in PageIds
      /\ \A r \in pages[u] : r \in PageIds
  BY DEF Good, TypeOK
<1>4. ASSUME q \in pages[t] PROVE FALSE
  <2>1. q # INVALID_PAGE_ID /\ q \in PageIds
    BY <1>3, <1>4 DEF PageIds, INVALID_PAGE_ID
  <2>2. q \in pages[u]
    BY <1>2, <2>1 DEF ParentHeld
  <2>3. LatchOK(t, q) /\ LatchOK(u, q)
    BY <2>1 DEF Good, LatchInv
  <2> QED BY <1>4, <2>1, <2>2, <2>3, HeldApart
<1>5. CASE pc[t] = "latch"
  <2>1. /\ p = target[t]
        /\ IF pages[t] = {} THEN p = root_page_id /\ HoldsRoot(t) ELSE q \in pages[t]
    BY <1>1, <1>5 DEF ThreadOK, Descends, Wanted
  <2>2. CASE pages[t] = {}
    <3>1. q = INVALID_PAGE_ID
      BY <1>1, <2>1, <2>2 DEF Good, TreeOK, Rooted
    <3>2. HoldsRoot(u)
      BY <1>2, <3>1 DEF ParentHeld
    <3>3. ~HoldsRoot(t)
      BY <3>2, RootHeldApart
    <3> QED BY <2>1, <2>2, <3>3
  <2>3. CASE pages[t] # {}
    BY <1>4, <2>1, <2>3
  <2> QED BY <2>2, <2>3
<1>6. CASE pc[t] = "walk"
  BY <1>1, <1>6 DEF PointOf, Good, ScansAlone
<1>7. CASE pc[t] = "underflow"
  <2>1. node[at[t]].parent # INVALID_PAGE_ID /\ p = Sibling(at[t])
    BY <1>7 DEF Blocked, Wanted
  <2>2. q \in pages[t]
    BY <1>7, <2>1, SiblingFacts
  <2> QED BY <1>4, <2>2
<1> QED BY <1>5, <1>6, <1>7 DEF Wanting

\* The lowest page that is wanted is not held, and so its latch is granted.
LEMMA NobodyWants ==
  ASSUME NEW g \in Ghosts, Good(g), AllBlocked
  PROVE  \A t \in Threads : ~Wanting(t)
<1>1. SUFFICES ASSUME \E t \in Threads : Wanting(t) PROVE FALSE
  OBVIOUS
<1>2. ASSUME NEW t \in Threads, Wanting(t) PROVE Blocked(t)
  BY <1>2 DEF AllBlocked, Wanting
<1>3. PICK t \in Threads : /\ Wanting(t)
                           /\ \A u \in Threads : Wanting(u) => g[Wanted(t)].level <= g[Wanted(u)].level
  <2>. PICK T : T = {n \in Nat : \E u \in Threads : Wanting(u) /\ g[Wanted(u)].level = n}
    OBVIOUS
  <2>1. \A u \in Threads : Wanting(u) => g[Wanted(u)].level \in T
    BY <1>2, WantedFacts
  <2>2. T \in SUBSET Nat /\ T # {}
    BY <1>1, <2>1
  <2>3. PICK n \in T : \A k \in T : n <= k
    BY <2>2, LeastNumber
  <2>4. PICK t \in Threads : Wanting(t) /\ g[Wanted(t)].level = n
    OBVIOUS
  <2> QED BY <2>1, <2>3, <2>4
<1>. PICK p : p = Wanted(t)
  OBVIOUS
<1>4. p \in Live /\ p \in PageIds /\ g[p].level \in Nat /\ ~Granted(latch[p], t) /\ Blocked(t)
  BY <1>2, <1>3, WantedFacts
<1>5. latch[p].readers = {}
  BY <1>3, <1>4, LowestUnread
<1>6. latch[p] \in Lock
  BY <1>4 DEF Good, TypeOK
<1>7. PICK u \in Threads \ {t} : latch[p].entered = u
  <2>1. latch[p].entered # Nobody /\ (Exclusive(t) => latch[p].entered # t)
    BY <1>4, <1>5 DEF Granted
  <2>2. latch[p].entered = t => Exclusive(t)
    <3>1. LatchOK(t, p)
      BY <1>4 DEF Good, LatchInv
    <3> QED BY <1>5, <3>1 DEF LatchOK, Held
  <2>3. latch[p].entered \in Threads
    BY <1>6, <2>1 DEF Lock
  <2> QED BY <2>1, <2>2, <2>3
<1>8. LatchOK(u, p)
  BY <1>4 DEF Good, LatchInv
<1>9. CASE p \in pages[u]
  <2>1. Exclusive(u)
    BY <1>5, <1>8, <1>9 DEF LatchOK, Held
  <2>2. /\ Wanting(u) /\ Blocked(u)
        /\ \/ pc[u] = "latch" /\ g[Wanted(u)].level < g[p].level
           \/ pc[u] = "underflow" /\ Exclusive(u) /\ g[Wanted(u)].level = g[at[u]].level
    BY <1>9, HolderWants
  <2>3. g[p].level <= g[Wanted(u)].level /\ g[Wanted(u)].level \in Nat
    BY <1>3, <2>2, WantedFacts
  <2>4. pc[u] = "underflow" /\ g[Wanted(u)].level = g[at[u]].level
    BY <1>4, <2>2, <2>3
  <2>5. p \notin doomed[u]
    BY <1>4 DEF Live, Doomed
  <2>6. ParentHeld(u, p) \/ g[at[u]].level < g[p].level
    BY <1>9, <2>1, <2>4, <2>5 DEF Good, ThreadOK, Keeps
  <2>7. ~ParentHeld(u, p)
    BY <1>3, <1>4, <2>1, <2>4, ParentAlone
  <2> QED BY <1>4, <2>3, <2>4, <2>6, <2>7
<1>10. CASE p \notin pages[u]
  <2>1. Exclusive(u) /\ Waits(u, p)
    BY <1>7, <1>8, <1>10 DEF LatchOK
  <2>2. Wanting(u) /\ Wanted(u) = p
    BY <2>1 DEF Waits, Wanting, Wanted
  <2>3. ~Granted(latch[p], u)
    BY <1>2, <2>2, WantedFacts
  <2> QED BY <1>5, <1>7, <2>1, <2>3 DEF Granted
<1> QED BY <1>9, <1>10

\* Nor does a thread that waits for the root lock wait in vain.
LEMMA NobodyWaits ==
  ASSUME NEW g \in Ghosts, Good(g), AllBlocked
  PROVE  \A t \in Threads : pc[t] = "idle"
<1>1. \A t \in Threads : pc[t] # "idle" => pc[t] \in {"check", "root"} /\ ~Granted(rootLock, t)
  BY NobodyWants DEF AllBlocked, Blocked, Wanting
<1>2. SUFFICES ASSUME NEW t \in Threads, pc[t] # "idle" PROVE FALSE
  OBVIOUS
<1>3. rootLock \in Lock /\ \A u \in Threads : RootLockOK(u)
  BY DEF Good, TypeOK, LatchInv
<1>4. rootLock.readers = {}
  <2>1. ASSUME NEW u \in rootLock.readers PROVE FALSE
    <3>1. u \in Threads
      BY <1>3 DEF Lock
    <3>2. pc[u] \in {"latch", "leaf", "free"}
      BY <1>3, <2>1, <3>1 DEF RootLockOK
    <3> QED BY <1>1, <3>1, <3>2
  <2> QED BY <2>1
<1>5. ASSUME NEW u \in Threads, pc[u] # "idle" PROVE rootLock.entered # Nobody /\ rootLock.entered # u
  <2>1. ~Granted(rootLock, u)
    BY <1>1, <1>5
  <2>2. rootLock.entered = u => Exclusive(u)
    BY <1>3 DEF RootLockOK
  <2>3. u # Nobody
    BY TreeAssumption
  <2> QED BY <1>4, <2>1, <2>2, <2>3 DEF Granted
<1>6. PICK u \in Threads : rootLock.entered = u
  BY <1>2, <1>3, <1>5 DEF Lock
<1>7. pc[u] # "idle"
  BY <1>3, <1>6 DEF RootLockOK
<1> QED BY <1>5, <1>6, <1>7

\* Crabbing does not deadlock: if calls are under way, one of them can go on.
THEOREM TreeNoDeadlock == Spec => []NoDeadlock
<1>1. ASSUME NEW g \in Ghosts, Good(g) PROVE NoDeadlock
  <2>1. CASE AllBlocked
    BY <1>1, <2>1, NobodyWaits DEF NoDeadlock
  <2>2. CASE ~AllBlocked
    BY <2>2 DEF NoDeadlock, AllBlocked
  <2> QED BY <2>1, <2>2
<1>2. GoodTree => NoDeadlock
  BY <1>1 DEF GoodTree
<1> QED BY <1>2, TreeGood, PTL

-----------------------------------------------------------------------------
(* Between calls. *)

\* What the functions of the properties are equal to.
DepthIs(d) ==
  d = [p \in DOMAIN node |-> IF node[p].leaf THEN 0 ELSE 1 + d[node[p].array[1].second]]

KeysAre(s) ==
  s = [p \in DOMAIN node |->
         IF node[p].leaf THEN {node[p].array[i].first : i \in 1 .. Size(node[p])}
         ELSE UNION {s[c] : c \in Children(node[p])}]

\* If there is such a function Depth is one.
LEMMA DepthChosen ==
  ASSUME NEW d, DepthIs(d)
  PROVE  DepthIs(Depth)
<1>1. Depth = CHOOSE x : DepthIs(x)
  BY DEF Depth, DepthIs
<1> QED BY <1>1

\* If there is such a function KeysBelow is one.
LEMMA KeysChosen ==
  ASSUME NEW s, KeysAre(s)
  PROVE  KeysAre(KeysBelow)
<1>1. KeysBelow = CHOOSE x : KeysAre(x)
  BY DEF KeysBelow, KeysAre
<1> QED BY <1>1


\* Between calls nothing is half done.
LEMMA QuietFacts ==
  ASSUME NEW g \in Ghosts, Good(g), Quiet
  PROVE  /\ Live = DOMAIN node
         /\ \A p : ~Hangs(p) /\ ~Busy(p, "split") /\ ~Busy(p, "parent") /\ ~Busy(p, "underflow")
<1>1. \A t \in Threads : pc[t] = "idle" /\ doomed[t] = {}
  BY DEF Quiet, Good, ThreadOK, PointOf
<1>2. Doomed = {}
  BY <1>1 DEF Doomed
<1> QED BY <1>1, <1>2 DEF Live, Hangs, Busy

\* What is known of a page then.
LEMMA QuietPage ==
  ASSUME NEW g \in Ghosts, Good(g), Quiet, NEW p \in DOMAIN node
  PROVE  /\ PageOK(g, p) /\ p \in Live /\ p \in PageIds
         /\ g[p].lo \in Nat /\ g[p].hi \in Nat /\ g[p].level \in Nat
         /\ g[p].lo < g[p].hi /\ g[p].hi = g[p].cap /\ g[p].hi <= Top
         /\ (node[p].leaf <=> g[p].level = 0)
         /\ Size(node[p]) \in Nat /\ Low(node[p]) <= Size(node[p]) /\ Size(node[p]) <= MaxSize(node[p])
<1>1. p \in Live /\ PageOK(g, p) /\ p \in PageIds /\ Size(node[p]) \in Nat
  BY QuietFacts, NodeFacts DEF Good, TreeOK
<1>2. Placed(g, p) /\ Sized(p)
  BY <1>1 DEF PageOK
<1>3. ~Busy(p, "split") /\ ~Busy(p, "parent") /\ ~Busy(p, "underflow")
  BY QuietFacts
<1>4. g[p].lo \in Nat /\ g[p].hi \in Nat /\ g[p].level \in Nat
  BY <1>1, GhostFacts
<1>5. g[p].lo < g[p].hi /\ g[p].hi = g[p].cap /\ g[p].hi <= Top /\ (node[p].leaf <=> g[p].level = 0)
  BY <1>2, <1>3 DEF Placed
<1>6. Low(node[p]) <= Size(node[p]) /\ Size(node[p]) <= MaxSize(node[p])
  BY <1>2, <1>3 DEF Sized
<1> QED BY <1>1, <1>4, <1>5, <1>6

\* A leaf, which has entries then.
LEMMA QuietLeaf ==
  ASSUME NEW g \in Ghosts, Good(g), Quiet, NEW p \in DOMAIN node, node[p].leaf
  PROVE  /\ LeafEntries(g, p) /\ NextLeaf(g, p) /\ Size(node[p]) >= 1
         /\ node[p].array[1].first \in Nat /\ Last(node[p].array).first \in Nat
         /\ node[p].array[1].first <= Last(node[p].array).first
         /\ g[p].lo <= node[p].array[1].first /\ Last(node[p].array).first < g[p].hi
<1>1. LeafEntries(g, p) /\ NextLeaf(g, p)
  BY QuietPage DEF PageOK
<1>2. Size(node[p]) \in Nat /\ Size(node[p]) >= 1
  <2>1. Low(node[p]) \in Nat /\ Low(node[p]) >= 1
    BY TreeAssumption DEF Low
  <2> QED BY <2>1, QuietPage
<1>. PICK m : m = Size(node[p])
  OBVIOUS
<1>3. Last(node[p].array) = node[p].array[m]
  BY DEF Last, Size
<1>4. 1 \in 1 .. m /\ m \in 1 .. m /\ m \in Nat
  BY <1>2
<1>5. /\ node[p].array[1].first \in Nat /\ node[p].array[m].first \in Nat
      /\ g[p].lo <= node[p].array[1].first /\ node[p].array[m].first < g[p].hi
  BY <1>1, <1>4, TreeAssumption DEF LeafEntries
<1>6. node[p].array[1].first <= node[p].array[m].first
  <2>1. CASE m = 1
    BY <1>5, <2>1
  <2>2. CASE m > 1
    BY <1>1, <1>4, <1>5, <2>2 DEF LeafEntries
  <2> QED BY <1>4, <2>1, <2>2
<1> QED BY <1>1, <1>2, <1>3, <1>5, <1>6

\* The leaves with larger keys are those further to the right.
LEMMA LaterLeaves ==
  ASSUME NEW g \in Ghosts, Good(g), Quiet, NEW p \in DOMAIN node, node[p].leaf,
         NEW q \in DOMAIN node, node[q].leaf
  PROVE  /\ Last(node[p].array).first < node[q].array[1].first <=> g[p].hi <= g[q].lo
         /\ p # q /\ g[p].lo < g[q].hi => node[p].array[1].first <= node[q].array[1].first
<1>1. /\ node[p].array[1].first \in Nat /\ Last(node[p].array).first \in Nat
      /\ node[p].array[1].first <= Last(node[p].array).first
      /\ g[p].lo <= node[p].array[1].first /\ Last(node[p].array).first < g[p].hi
      /\ g[p].lo \in Nat /\ g[p].hi \in Nat
  BY QuietLeaf, QuietPage
<1>2. /\ node[q].array[1].first \in Nat /\ Last(node[q].array).first \in Nat
      /\ node[q].array[1].first <= Last(node[q].array).first
      /\ g[q].lo <= node[q].array[1].first /\ Last(node[q].array).first < g[q].hi
      /\ g[q].lo \in Nat /\ g[q].hi \in Nat
  BY QuietLeaf, QuietPage
<1>3. p # q => g[p].hi <= g[q].lo \/ g[q].hi <= g[p].lo
  BY QuietPage DEF Good, TreeOK, Disjoint
<1>. PICK a, b, u, v, c, d, x, y : /\ a = g[p].lo /\ b = g[p].hi /\ u = node[p].array[1].first
                                   /\ v = Last(node[p].array).first
                                   /\ c = g[q].lo /\ d = g[q].hi /\ x = node[q].array[1].first
                                   /\ y = Last(node[q].array).first
  OBVIOUS
<1>4. /\ a \in Nat /\ b \in Nat /\ c \in Nat /\ d \in Nat /\ u \in Nat /\ v \in Nat /\ x \in Nat /\ y \in Nat
      /\ a <= u /\ u <= v /\ v < b /\ c <= x /\ x <= y /\ y < d
      /\ (p # q => b <= c \/ d <= a) /\ (p = q => u = x /\ a = c)
  BY <1>1, <1>2, <1>3
<1>5. (v < x <=> b <= c) /\ (p # q /\ a < d => u <= x)
  BY <1>4
<1> QED BY <1>5

\* In a good tree without calls the links agree.
LEMMA LinksFollow ==
  ASSUME NEW g \in Ghosts, Good(g)
  PROVE  LinksMatch
<1>. SUFFICES ASSUME Quiet PROVE LinksMatch
  BY DEF LinksMatch
<1>1. IF root_page_id = INVALID_PAGE_ID THEN DOMAIN node = {}
      ELSE root_page_id \in DOMAIN node /\ node[root_page_id].parent = INVALID_PAGE_ID
  BY QuietFacts DEF Good, TreeOK, Rooted
<1>2. ASSUME NEW p \in DOMAIN node, NEW c \in Children(node[p])
      PROVE  c \in DOMAIN node /\ node[c].parent = p
  <2>1. PICK i \in 1 .. Size(node[p]) : node[p].array[i].second = c /\ ~node[p].leaf
    BY <1>2 DEF Children
  <2>2. ChildOf(g, p, i)
    BY <1>2, <2>1, QuietPage DEF PageOK, Inner
  <2> QED BY <2>1, <2>2, QuietFacts DEF ChildOf
<1>3. ASSUME NEW p \in DOMAIN node, p # root_page_id
      PROVE  node[p].parent \in DOMAIN node /\ p \in Children(node[node[p].parent])
  <2>1. HasParent(p) /\ ~Hangs(p)
    BY <1>3, QuietPage, QuietFacts DEF PageOK
  <2>2. node[p].parent \in Live /\ ~node[node[p].parent].leaf /\ IsChild(p, node[p].parent)
    BY <1>3, <2>1 DEF HasParent
  <2> QED BY <2>2, QuietFacts DEF IsChild, Children
<1>4. ASSUME NEW p \in DOMAIN node, node[p].leaf,
             NEW later, later = {q \in DOMAIN node : node[q].leaf
                                   /\ Last(node[p].array).first < node[q].array[1].first}
      PROVE  IF later = {} THEN node[p].next = INVALID_PAGE_ID
             ELSE node[p].next \in later
                  /\ \A q \in later : node[node[p].next].array[1].first <= node[q].array[1].first
  <2>1. \A q \in DOMAIN node : q \in later <=> node[q].leaf /\ g[p].hi <= g[q].lo
    BY <1>4, LaterLeaves
  <2>2. NextLeaf(g, p) /\ g[p].hi \in Nat /\ g[p].lo \in Nat /\ g[p].lo < g[p].hi
    BY <1>4, QuietLeaf, QuietPage
  <2>. PICK n : n = node[p].next
    OBVIOUS
  <2>3. n # INVALID_PAGE_ID => n \in DOMAIN node /\ node[n].leaf /\ g[n].lo = g[p].hi /\ n \in later
    BY <2>1, <2>2, QuietFacts DEF NextLeaf
  <2>4. ASSUME NEW r \in later PROVE n # INVALID_PAGE_ID
    <3>1. r \in DOMAIN node /\ g[p].hi <= g[r].lo
      BY <1>4, <2>1
    <3>2. g[r].lo \in Nat /\ g[r].hi \in Nat /\ g[r].lo < g[r].hi /\ g[r].hi <= Top
      BY <3>1, QuietPage
    <3> QED BY <2>2, <3>1, <3>2, TopAbove DEF NextLeaf
  <2>5. ASSUME NEW r \in later PROVE node[n].array[1].first <= node[r].array[1].first
    <3>1. r \in DOMAIN node /\ node[r].leaf /\ g[p].hi <= g[r].lo
      BY <1>4, <2>1
    <3>2. n \in DOMAIN node /\ node[n].leaf /\ g[n].lo = g[p].hi
      BY <2>3, <2>4
    <3>3. g[r].lo \in Nat /\ g[r].hi \in Nat /\ g[r].lo < g[r].hi
      BY <3>1, QuietPage
    <3>4. g[n].lo < g[r].hi
      BY <2>2, <3>1, <3>2, <3>3
    <3>5. node[n].array[1].first \in Nat
      BY <3>2, QuietLeaf
    <3> QED BY <3>1, <3>2, <3>4, <3>5, LaterLeaves
  <2> QED BY <2>3, <2>4, <2>5
<1> QED BY <1>1, <1>2, <1>3, <1>4 DEF LinksMatch


\* Between calls parent pointers are inverse to the entries, no page is leaked, and the
\* leaves are chained in the order of their keys.
THEOREM TreeLinksMatch == Spec => []LinksMatch
<1>1. GoodTree => LinksMatch
  BY LinksFollow DEF GoodTree
<1> QED BY <1>1, TreeGood, PTL

-----------------------------------------------------------------------------
(* Depths. *)

\* The children of an internal node are a level below it, and share out its interval.
LEMMA QuietChild ==
  ASSUME NEW g \in Ghosts, Good(g), Quiet, NEW p \in DOMAIN node, ~node[p].leaf,
         NEW i \in 1 .. Size(node[p]), NEW c, c = node[p].array[i].second
  PROVE  /\ c \in DOMAIN node /\ c \in Children(node[p])
         /\ g[c].level + 1 = g[p].level
         /\ g[c].lo = Edge(g, p, i) /\ g[c].hi = Edge(g, p, i + 1)
<1>1. ChildOf(g, p, i)
  BY QuietPage DEF PageOK, Inner
<1>2. c \in DOMAIN node
  BY <1>1, QuietFacts DEF ChildOf
<1>3. g[c].hi = g[c].cap
  BY <1>2, QuietPage
<1> QED BY <1>1, <1>2, <1>3 DEF ChildOf, Children

\* A child is one of the entries.
LEMMA ChildAt ==
  ASSUME NEW p \in DOMAIN node, NEW c \in Children(node[p])
  PROVE  ~node[p].leaf /\ \E i \in 1 .. Size(node[p]) : c = node[p].array[i].second
BY DEF Children

\* The levels are such a function.
LEMMA LevelsAreDepths ==
  ASSUME NEW g \in Ghosts, Good(g), Quiet
  PROVE  DepthIs([p \in DOMAIN node |-> g[p].level])
<1>. DEFINE d == [p \in DOMAIN node |-> g[p].level]
<1>1. ASSUME NEW p \in DOMAIN node
      PROVE  g[p].level = IF node[p].leaf THEN 0 ELSE 1 + d[node[p].array[1].second]
  <2>1. CASE node[p].leaf
    BY <1>1, <2>1, QuietPage
  <2>2. CASE ~node[p].leaf
    <3>1. 1 \in 1 .. Size(node[p])
      BY <1>1, <2>2, QuietPage DEF PageOK, Inner
    <3>. PICK c : c = node[p].array[1].second
      OBVIOUS
    <3>2. c \in DOMAIN node /\ g[c].level + 1 = g[p].level
      BY <1>1, <2>2, <3>1, QuietChild
    <3>3. d[c] = g[c].level /\ g[c].level \in Nat
      BY <3>2, QuietPage
    <3> QED BY <2>2, <3>2, <3>3
  <2> QED BY <2>1, <2>2
<1> QED BY <1>1 DEF DepthIs

\* A function of this kind is the level.
LEMMA DepthsAreLevels ==
  ASSUME NEW g \in Ghosts, Good(g), Quiet, NEW d, DepthIs(d), NEW p \in DOMAIN node
  PROVE  d[p] = g[p].level
<1>. DEFINE Bad(n) == \E q \in DOMAIN node : g[q].level = n /\ d[q] # n
<1>. DEFINE T == {n \in Nat : Bad(n)}
<1>1. ASSUME T # {} PROVE FALSE
  <2>1. T \in SUBSET Nat
    OBVIOUS
  <2>2. PICK n \in T : \A m \in T : n <= m
    <3>. HIDE DEF T
    <3> QED BY <1>1, <2>1, LeastNumber
  <2>3. PICK q \in DOMAIN node : g[q].level = n /\ d[q] # n
    BY Zenon, <2>2
  <2>4. d[q] = IF node[q].leaf THEN 0 ELSE 1 + d[node[q].array[1].second]
    BY <2>3 DEF DepthIs
  <2>5. CASE node[q].leaf
    BY <2>3, <2>4, <2>5, QuietPage
  <2>6. CASE ~node[q].leaf
    <3>1. 1 \in 1 .. Size(node[q])
      BY <2>3, <2>6, QuietPage DEF PageOK, Inner
    <3>. PICK c : c = node[q].array[1].second
      OBVIOUS
    <3>2. c \in DOMAIN node /\ g[c].level + 1 = g[q].level
      BY <2>3, <2>6, <3>1, QuietChild
    <3>. PICK m : m = g[c].level
      BY Zenon
    <3>3. m \in Nat /\ n \in Nat /\ m + 1 = n
      BY <2>3, <3>2, QuietPage
    <3>4. d[c] = m
      BY <2>2, <3>2, <3>3
    <3> QED BY <2>3, <2>4, <2>6, <3>3, <3>4
  <2> QED BY <2>5, <2>6
<1>2. g[p].level \in Nat
  BY QuietPage
<1> QED BY <1>1, <1>2

\* A good tree without calls is balanced.
LEMMA BalanceFollows ==
  ASSUME NEW g \in Ghosts, Good(g)
  PROVE  Balanced
<1>. SUFFICES ASSUME Quiet, NEW p \in DOMAIN node
              PROVE  /\ MinSize(node[p]) <= Size(node[p]) /\ Size(node[p]) <= MaxSize(node[p])
                     /\ ~node[p].leaf => Size(node[p]) >= 2
                     /\ \A c, d \in Children(node[p]) : Depth[c] = Depth[d]
  BY DEF Balanced
<1>1. /\ Size(node[p]) \in Nat /\ Low(node[p]) <= Size(node[p]) /\ Size(node[p]) <= MaxSize(node[p])
  BY QuietPage
<1>. PICK m, k : m = LeafMax \div 2 /\ k = InternalMax \div 2
  OBVIOUS
<1>2. m \in Nat /\ k \in Nat
  BY TreeAssumption
<1>3. MinSize(node[p]) <= Low(node[p]) /\ MinSize(node[p]) \in Nat /\ Low(node[p]) \in Nat
      /\ (~node[p].leaf => Low(node[p]) >= 2)
  BY <1>2 DEF Low, MinSize, MaxSize
<1>4. MinSize(node[p]) <= Size(node[p]) /\ (~node[p].leaf => Size(node[p]) >= 2)
  BY <1>1, <1>3
<1>5. DepthIs(Depth)
  BY LevelsAreDepths, DepthChosen
<1>6. ASSUME NEW c \in Children(node[p]), NEW d \in Children(node[p])
      PROVE  Depth[c] = Depth[d]
  <2>1. PICK i \in 1 .. Size(node[p]) : c = node[p].array[i].second /\ ~node[p].leaf
    BY ChildAt
  <2>2. PICK j \in 1 .. Size(node[p]) : d = node[p].array[j].second
    BY ChildAt
  <2>3. c \in DOMAIN node /\ g[c].level + 1 = g[p].level
    BY <2>1, QuietChild
  <2>4. d \in DOMAIN node /\ g[d].level + 1 = g[p].level
    BY <2>1, <2>2, QuietChild
  <2>5. g[c].level \in Nat /\ g[d].level \in Nat
    BY <2>3, <2>4, QuietPage
  <2>6. Depth[c] = g[c].level
    BY <1>5, <2>3, DepthsAreLevels
  <2>7. Depth[d] = g[d].level
    BY <1>5, <2>4, DepthsAreLevels
  <2> QED BY <2>3, <2>4, <2>5, <2>6, <2>7
<1> QED BY <1>1, <1>4, <1>6

\* Between calls all leaves have one depth and every node has between MinSize and MaxSize
\* entries.
THEOREM TreeBalanced == Spec => []Balanced
<1>1. GoodTree => Balanced
  BY BalanceFollows DEF GoodTree
<1> QED BY <1>1, TreeGood, PTL


-----------------------------------------------------------------------------
(* Searches. *)

\* The edges of an internal node rise from the start to the end of its interval.
LEMMA EdgesWithin ==
  ASSUME NEW g \in Ghosts, Good(g), Quiet, NEW p \in DOMAIN node, ~node[p].leaf,
         NEW i \in 1 .. Size(node[p])
  PROVE  /\ Edge(g, p, i) \in Nat /\ Edge(g, p, i + 1) \in Nat
         /\ g[p].lo <= Edge(g, p, i) /\ Edge(g, p, i + 1) <= g[p].hi
<1>. PICK m : m = Size(node[p])
  OBVIOUS
<1>1. Inner(g, p) /\ m \in Nat /\ m >= 1 /\ g[p].lo \in Nat /\ g[p].hi \in Nat
  BY QuietPage DEF PageOK, Inner
<1>2. i \in 1 .. m + 1 /\ i + 1 \in 1 .. m + 1 /\ 1 \in 1 .. m + 1 /\ m + 1 \in 1 .. m + 1
  BY <1>1
<1>3. Edge(g, p, i) \in Nat /\ Edge(g, p, i + 1) \in Nat
  BY <1>2, EdgeNat
<1>4. Edge(g, p, 1) = g[p].lo /\ Edge(g, p, m + 1) = g[p].hi
  BY <1>1 DEF Edge
<1>5. g[p].lo <= Edge(g, p, i)
  <2>1. CASE i = 1
    BY <1>1, <1>4, <2>1
  <2>2. CASE 1 < i
    <3>1. Edge(g, p, 1) < Edge(g, p, i)
      BY <1>1, <1>2, <2>2 DEF Inner
    <3> QED BY <1>1, <1>3, <1>4, <3>1
  <2> QED BY <1>2, <2>1, <2>2
<1>6. Edge(g, p, i + 1) <= g[p].hi
  <2>1. CASE i = m
    BY <1>1, <1>4, <2>1
  <2>2. CASE i + 1 < m + 1
    <3>1. Edge(g, p, i + 1) < Edge(g, p, m + 1)
      BY <1>1, <1>2, <2>2 DEF Inner
    <3> QED BY <1>1, <1>3, <1>4, <3>1
  <2> QED BY <1>1, <1>2, <2>1, <2>2
<1> QED BY <1>3, <1>5, <1>6

\* Key k is in a leaf.
InLeaves(k) == \E q \in DOMAIN node : node[q].leaf /\ \E i \in 1 .. Size(node[q]) : node[q].array[i].first = k

Within(g, p, k) == g[p].lo <= k /\ k < g[p].hi

\* The keys in the leaves that lie in the interval of a leaf are its own.
LEMMA OwnKeys ==
  ASSUME NEW g \in Ghosts, Good(g), Quiet, NEW p \in DOMAIN node, node[p].leaf, NEW k
  PROVE  k \in Keys /\ Within(g, p, k) /\ InLeaves(k) <=> \E i \in 1 .. Size(node[p]) : node[p].array[i].first = k
<1>1. ASSUME NEW q \in DOMAIN node, node[q].leaf, NEW i \in 1 .. Size(node[q]), node[q].array[i].first = k
      PROVE  k \in Keys /\ k \in Nat /\ g[q].lo <= k /\ k < g[q].hi
  BY <1>1, QuietLeaf, TopAbove DEF LeafEntries
<1>2. ASSUME Within(g, p, k), InLeaves(k)
      PROVE  \E i \in 1 .. Size(node[p]) : node[p].array[i].first = k
  <2>1. PICK q \in DOMAIN node : node[q].leaf /\ \E i \in 1 .. Size(node[q]) : node[q].array[i].first = k
    BY <1>2 DEF InLeaves
  <2>2. k \in Nat /\ g[q].lo <= k /\ k < g[q].hi /\ g[p].lo <= k /\ k < g[p].hi
    BY <1>1, <1>2, <2>1 DEF Within
  <2>3. p # q => g[p].hi <= g[q].lo \/ g[q].hi <= g[p].lo
    BY <2>1, QuietPage DEF Good, TreeOK, Disjoint
  <2>4. g[q].lo \in Nat /\ g[q].hi \in Nat /\ g[p].lo \in Nat /\ g[p].hi \in Nat
    BY <2>1, QuietPage
  <2>5. p = q
    BY <2>2, <2>3, <2>4
  <2> QED BY <2>1, <2>5
<1>3. ASSUME NEW i \in 1 .. Size(node[p]), node[p].array[i].first = k
      PROVE  k \in Keys /\ Within(g, p, k) /\ InLeaves(k)
  BY <1>1, <1>3 DEF Within, InLeaves
<1> QED BY <1>2, <1>3

\* Below a page are the keys of the leaves that lie in its interval.
LEMMA KeysAreWithin ==
  ASSUME NEW g \in Ghosts, Good(g), Quiet
  PROVE  KeysAre([p \in DOMAIN node |-> {k \in Keys : Within(g, p, k) /\ InLeaves(k)}])
<1>. DEFINE s == [p \in DOMAIN node |-> {k \in Keys : Within(g, p, k) /\ InLeaves(k)}]
<1>1. ASSUME NEW p \in DOMAIN node, node[p].leaf
      PROVE  s[p] = {node[p].array[i].first : i \in 1 .. Size(node[p])}
  <2>1. ASSUME NEW k PROVE k \in s[p] <=> \E i \in 1 .. Size(node[p]) : node[p].array[i].first = k
    BY <1>1, OwnKeys
  <2> QED BY <2>1
<1>2. ASSUME NEW p \in DOMAIN node, ~node[p].leaf
      PROVE  s[p] = UNION {s[c] : c \in Children(node[p])}
  <2>1. ASSUME NEW k \in s[p] PROVE \E c \in Children(node[p]) : k \in s[c]
    <3>1. k \in Keys /\ k \in Nat /\ g[p].lo <= k /\ k < g[p].hi /\ InLeaves(k) /\ p \in Live
      BY <1>2, <2>1, TopAbove, QuietFacts DEF Within
    <3>2. PICK j \in 1 .. Size(node[p]) : Edge(g, p, j) <= k /\ k < Edge(g, p, j + 1)
      BY <1>2, <3>1, ChildBetween
    <3>. PICK c : c = node[p].array[j].second
      OBVIOUS
    <3>3. /\ c \in DOMAIN node /\ c \in Children(node[p])
          /\ g[c].lo = Edge(g, p, j) /\ g[c].hi = Edge(g, p, j + 1)
      BY <1>2, QuietChild
    <3>4. k \in s[c]
      BY <3>1, <3>2, <3>3 DEF Within
    <3> QED BY <3>3, <3>4
  <2>2. ASSUME NEW c \in Children(node[p]), NEW k \in s[c] PROVE k \in s[p]
    <3>1. PICK i \in 1 .. Size(node[p]) : c = node[p].array[i].second
      BY <1>2, ChildAt
    <3>2. c \in DOMAIN node /\ g[c].lo = Edge(g, p, i) /\ g[c].hi = Edge(g, p, i + 1)
      BY <1>2, <3>1, QuietChild
    <3>3. k \in Keys /\ k \in Nat /\ g[c].lo <= k /\ k < g[c].hi /\ InLeaves(k)
      BY <2>2, <3>2, TopAbove DEF Within
    <3>4. /\ Edge(g, p, i) \in Nat /\ Edge(g, p, i + 1) \in Nat
          /\ g[p].lo <= Edge(g, p, i) /\ Edge(g, p, i + 1) <= g[p].hi
      BY <1>2, EdgesWithin
    <3>5. g[p].lo \in Nat /\ g[p].hi \in Nat
      BY <1>2, QuietPage
    <3>6. g[p].lo <= k /\ k < g[p].hi
      BY <3>2, <3>3, <3>4, <3>5
    <3> QED BY <1>2, <3>3, <3>6 DEF Within
  <2> QED BY <2>1, <2>2
<1> QED BY <1>1, <1>2 DEF KeysAre

\* A function of this kind has nothing outside the interval.
LEMMA KeysWithin ==
  ASSUME NEW g \in Ghosts, Good(g), Quiet, NEW s, KeysAre(s), NEW p \in DOMAIN node, NEW k \in s[p]
  PROVE  k \in Nat /\ Within(g, p, k)
<1>. DEFINE Bad(n) == \E q \in DOMAIN node : g[q].level = n /\ \E e \in s[q] : ~(e \in Nat /\ Within(g, q, e))
<1>. DEFINE T == {n \in Nat : Bad(n)}
<1>1. ASSUME T # {} PROVE FALSE
  <2>1. T \in SUBSET Nat
    OBVIOUS
  <2>2. PICK n \in T : \A m \in T : n <= m
    <3>. HIDE DEF T
    <3> QED BY <1>1, <2>1, LeastNumber
  <2>. PICK q \in DOMAIN node : g[q].level = n /\ \E e \in s[q] : ~(e \in Nat /\ Within(g, q, e))
    BY <2>2
  <2>3. PICK e \in s[q] : g[q].level = n /\ ~(e \in Nat /\ Within(g, q, e))
    OBVIOUS
  <2>4. s[q] = IF node[q].leaf THEN {node[q].array[i].first : i \in 1 .. Size(node[q])}
               ELSE UNION {s[c] : c \in Children(node[q])}
    BY <2>3 DEF KeysAre
  <2>5. CASE node[q].leaf
    <3>1. PICK i \in 1 .. Size(node[q]) : e = node[q].array[i].first
      BY <2>3, <2>4, <2>5
    <3>2. e \in Keys /\ Within(g, q, e)
      BY <2>3, <2>5, <3>1, QuietLeaf DEF LeafEntries, Within
    <3> QED BY <2>3, <3>2, TopAbove
  <2>6. CASE ~node[q].leaf
    <3>1. PICK c \in Children(node[q]) : e \in s[c]
      BY <2>3, <2>4, <2>6
    <3>2. PICK i \in 1 .. Size(node[q]) : c = node[q].array[i].second
      BY <2>3, <3>1, ChildAt
    <3>3. c \in DOMAIN node /\ g[c].lo = Edge(g, q, i) /\ g[c].hi = Edge(g, q, i + 1)
          /\ g[c].level + 1 = g[q].level
      BY <2>3, <2>6, <3>2, QuietChild
    <3>. PICK m : m = g[c].level
      OBVIOUS
    <3>4. m \in Nat /\ n \in Nat /\ m + 1 = n
      BY <2>3, <3>3, QuietPage
    <3>5. e \in Nat /\ Within(g, c, e)
      BY <2>2, <3>1, <3>3, <3>4
    <3>6. /\ Edge(g, q, i) \in Nat /\ Edge(g, q, i + 1) \in Nat
          /\ g[q].lo <= Edge(g, q, i) /\ Edge(g, q, i + 1) <= g[q].hi
      BY <2>3, <2>6, <3>2, EdgesWithin
    <3>7. g[q].lo \in Nat /\ g[q].hi \in Nat
      BY <2>3, QuietPage
    <3>8. g[q].lo <= e /\ e < g[q].hi
      <4>1. Edge(g, q, i) <= e /\ e < Edge(g, q, i + 1) /\ e \in Nat
        BY <3>3, <3>5 DEF Within
      <4> QED BY <3>6, <3>7, <4>1
    <3> QED BY <2>3, <3>5, <3>8 DEF Within
  <2> QED BY <2>5, <2>6
<1>2. g[p].level \in Nat
  BY Zenon, QuietPage
<1> QED BY <1>1, <1>2


\* A separator divides the keys to its left from those to its right.
LEMMA SeparatorDivides ==
  ASSUME NEW g \in Ghosts, Good(g), Quiet, NEW p \in DOMAIN node, ~node[p].leaf,
         NEW i \in 2 .. Size(node[p]),
         NEW sep, sep = node[p].array[i].first, NEW left, left = node[p].array[i - 1].second,
         NEW right, right = node[p].array[i].second
  PROVE  /\ \A k \in KeysBelow[left] : k < sep
         /\ \A k \in KeysBelow[right] : sep <= k
         /\ ~node[right].leaf => node[right].array[1].first = sep
<1>1. Size(node[p]) \in Nat /\ i \in 1 .. Size(node[p]) /\ i - 1 \in 1 .. Size(node[p]) /\ (i - 1) + 1 = i
  BY QuietPage
<1>2. sep = Edge(g, p, i)
  BY <1>1 DEF Edge
<1>3. left \in DOMAIN node /\ g[left].hi = Edge(g, p, (i - 1) + 1)
  BY <1>1, QuietChild
<1>4. right \in DOMAIN node /\ g[right].lo = Edge(g, p, i)
  BY <1>1, QuietChild
<1>5. KeysAre(KeysBelow)
  BY KeysAreWithin, KeysChosen
<1>6. \A k \in KeysBelow[left] : k < sep
  BY <1>1, <1>2, <1>3, <1>5, KeysWithin DEF Within
<1>7. \A k \in KeysBelow[right] : sep <= k
  BY <1>2, <1>4, <1>5, KeysWithin DEF Within
<1>8. ~node[right].leaf => node[right].array[1].first = sep
  <2>1. g[left].lo \in Nat /\ g[left].lo < g[left].hi /\ g[left].hi \in Nat
    BY <1>3, QuietPage
  <2>2. g[right].lo = g[left].hi
    BY Zenon, <1>1, <1>3, <1>4
  <2>3. g[right].lo # 0
    BY <2>1, <2>2
  <2> QED BY <1>2, <1>4, <2>3, QuietPage DEF PageOK, Inner
<1> QED BY <1>6, <1>7, <1>8

\* A good tree without calls is a search tree.
LEMMA SearchFollows ==
  ASSUME NEW g \in Ghosts, Good(g)
  PROVE  SearchTree
<1>1. ASSUME Quiet, NEW p \in DOMAIN node, node[p].leaf
      PROVE  Strictly(node[p], 1)
  BY <1>1, QuietLeaf DEF LeafEntries, Strictly
<1>2. ASSUME Quiet, NEW p \in DOMAIN node, ~node[p].leaf
      PROVE  Strictly(node[p], 2)
  <2>. PICK m : m = Size(node[p])
    OBVIOUS
  <2>1. Inner(g, p) /\ m \in Nat
    BY <1>2, QuietPage DEF PageOK
  <2>2. ASSUME NEW i \in 2 .. m, NEW j \in 2 .. m, i < j
        PROVE  node[p].array[i].first < node[p].array[j].first
    <3>1. i \in 1 .. m + 1 /\ j \in 1 .. m + 1 /\ i # 1 /\ j # 1 /\ i # m + 1 /\ j # m + 1
      BY <2>1
    <3>2. Edge(g, p, i) < Edge(g, p, j)
      BY Zenon, <2>1, <2>2, <3>1 DEF Inner
    <3> QED BY <3>1, <3>2 DEF Edge
  <2> QED BY <2>2 DEF Strictly
<1>3. ASSUME Quiet, NEW p \in DOMAIN node, ~node[p].leaf, NEW i \in 2 .. Size(node[p])
      PROVE  LET sep == node[p].array[i].first
                 left == node[p].array[i - 1].second
                 right == node[p].array[i].second
             IN  /\ \A k \in KeysBelow[left] : k < sep
                 /\ \A k \in KeysBelow[right] : sep <= k
                 /\ ~node[right].leaf => node[right].array[1].first = sep
  <2>1. \A k \in KeysBelow[node[p].array[i - 1].second] : k < node[p].array[i].first
    BY <1>3, SeparatorDivides
  <2>2. \A k \in KeysBelow[node[p].array[i].second] : node[p].array[i].first <= k
    BY <1>3, SeparatorDivides
  <2>3. ~node[node[p].array[i].second].leaf
          => node[node[p].array[i].second].array[1].first = node[p].array[i].first
    BY <1>3, SeparatorDivides
  <2> QED BY <2>1, <2>2, <2>3
<1> QED BY <1>1, <1>2, <1>3 DEF SearchTree

\* Between calls every separator divides the keys to its left from those to its right.
THEOREM TreeSearchable == Spec => []SearchTree
<1>1. GoodTree => SearchTree
  BY SearchFollows DEF GoodTree
<1> QED BY <1>1, TreeGood, PTL

-----------------------------------------------------------------------------
(* The tree as a map. *)

\* Some leaf has an entry with key k and value v.
Maps(k, v) ==
  \E p \in DOMAIN node :
    node[p].leaf /\ \E i \in 1 .. Size(node[p]) : node[p].array[i].first = k /\ node[p].array[i].second = v

\* Contents is the function that the entries of the leaves make up.
MapOK ==
  /\ Contents = [k \in DOMAIN Contents |-> Contents[k]]
  /\ \A k : k \in DOMAIN Contents <=> \E v : Maps(k, v)
  /\ \A k, v : Maps(k, v) => Contents[k] = v

\* A page with entries is not about to be deleted.
LEMMA FilledLive ==
  ASSUME NEW g \in Ghosts, Good(g), NEW p \in DOMAIN node, NEW i \in 1 .. Size(node[p])
  PROVE  p \in Live
<1>1. \A t \in Threads : p \notin doomed[t]
  BY DEF Good, ThreadOK, PointOf, Size
<1> QED BY <1>1 DEF Live, Doomed

\* The leaf that is responsible for a key has all entries for it.
LEMMA KeyInLeaf ==
  ASSUME NEW g \in Ghosts, Good(g), NEW p \in Live, node[p].leaf,
         NEW q \in DOMAIN node, node[q].leaf, NEW i \in 1 .. Size(node[q]),
         g[p].lo <= node[q].array[i].first, node[q].array[i].first < g[p].hi
  PROVE  p = q
<1>1. q \in Live /\ p \in DOMAIN node
  BY FilledLive DEF Live
<1>2. PageOK(g, p) /\ PageOK(g, q)
  BY <1>1 DEF Good, TreeOK
<1>. PICK k : k = node[q].array[i].first
  OBVIOUS
<1>3. k \in Nat /\ g[q].lo <= k /\ k < g[q].hi
  BY <1>2, TopAbove DEF PageOK, LeafEntries
<1>4. g[p].level = g[q].level
  BY <1>2 DEF PageOK, Placed
<1>5. p # q => g[p].hi <= g[q].lo \/ g[q].hi <= g[p].lo
  BY <1>1, <1>4 DEF Good, TreeOK, Disjoint
<1>6. /\ g[p].lo \in Nat /\ g[p].hi \in Nat /\ g[q].lo \in Nat /\ g[q].hi \in Nat
  BY <1>1, NodeFacts, GhostFacts
<1>7. g[p].lo <= k /\ k < g[p].hi
  OBVIOUS
<1> QED BY <1>3, <1>5, <1>6, <1>7

\* No key has two values.
LEMMA OneValue ==
  ASSUME NEW g \in Ghosts, Good(g), NEW k, NEW v, NEW w, Maps(k, v), Maps(k, w)
  PROVE  v = w /\ k \in Keys /\ v \in Values
<1>1. PICK p \in DOMAIN node : node[p].leaf /\ \E i \in 1 .. Size(node[p]) :
                                 node[p].array[i].first = k /\ node[p].array[i].second = v
  BY DEF Maps
<1>2. PICK i \in 1 .. Size(node[p]) : node[p].array[i].first = k /\ node[p].array[i].second = v
  BY <1>1
<1>3. PICK q \in DOMAIN node : node[q].leaf /\ \E j \in 1 .. Size(node[q]) :
                                 node[q].array[j].first = k /\ node[q].array[j].second = w
  BY DEF Maps
<1>4. PICK j \in 1 .. Size(node[q]) : node[q].array[j].first = k /\ node[q].array[j].second = w
  BY <1>3
<1>5. p \in Live
  BY <1>2, FilledLive
<1>6. LeafEntries(g, p)
  BY <1>1, <1>5 DEF Good, TreeOK, PageOK
<1>7. k \in Keys /\ v \in Values /\ g[p].lo <= k /\ k < g[p].hi
  BY <1>2, <1>6 DEF LeafEntries
<1>8. p = q
  BY <1>1, <1>3, <1>4, <1>5, <1>7, KeyInLeaf
<1>9. Size(node[p]) \in Nat /\ k \in Nat
  BY <1>7, NodeFacts, TopAbove
<1>10. ~(i < j) /\ ~(j < i)
  BY <1>2, <1>4, <1>6, <1>8, <1>9 DEF LeafEntries
<1>11. i = j
  BY <1>8, <1>9, <1>10
<1> QED BY <1>2, <1>4, <1>7, <1>8, <1>11

\* So the contents are what the entries say.
LEMMA ContentsAre ==
  ASSUME NEW g \in Ghosts, Good(g)
  PROVE  MapOK
<1>. DEFINE entries == UNION {{node[p].array[i] : i \in 1 .. Size(node[p])} : p \in {q \in DOMAIN node : node[q].leaf}}
<1>1. Contents = [k \in {e.first : e \in entries} |-> (CHOOSE e \in entries : e.first = k).second]
  BY DEF Contents
<1>2. ASSUME NEW e \in entries PROVE Maps(e.first, e.second)
  BY DEF Maps
<1>3. ASSUME NEW k, NEW v, Maps(k, v) PROVE \E e \in entries : e.first = k /\ e.second = v
  BY <1>3 DEF Maps
<1>. HIDE DEF entries
<1>4. ASSUME NEW k PROVE k \in DOMAIN Contents <=> \E v : Maps(k, v)
  <2>1. k \in DOMAIN Contents <=> \E e \in entries : e.first = k
    BY <1>1
  <2> QED BY <1>2, <1>3, <2>1
<1>5. ASSUME NEW k, NEW v, Maps(k, v) PROVE Contents[k] = v
  <2>1. PICK e \in entries : e.first = k /\ e.second = v
    BY <1>3, <1>5
  <2>2. PICK d : d = CHOOSE x \in entries : x.first = k
    OBVIOUS
  <2>3. d \in entries /\ d.first = k
    BY <2>1, <2>2
  <2>4. Contents[k] = d.second
    BY <1>1, <2>1, <2>2
  <2>5. Maps(k, d.second)
    BY <1>2, <2>3
  <2> QED BY <1>5, <2>4, <2>5, OneValue
<1>6. Contents = [k \in DOMAIN Contents |-> Contents[k]]
  BY <1>1
<1> QED BY <1>4, <1>5, <1>6 DEF MapOK


\* Contents before and after a step: one key more, one key less, or the same.
Gains(x, y) ==
  /\ x \notin DOMAIN Contents
  /\ Contents' = [j \in DOMAIN Contents \cup {x} |-> IF j = x THEN y ELSE Contents[j]]
Loses(x) == Contents' = [j \in DOMAIN Contents \ {x} |-> Contents[j]]

\* It depends on the entries.
LEMMA MapSame ==
  ASSUME MapOK, MapOK', \A k, v : Maps(k, v)' <=> Maps(k, v)
  PROVE  Contents' = Contents
<1>1. \A k : k \in DOMAIN Contents' <=> k \in DOMAIN Contents
  BY DEF MapOK
<1>2. \A k \in DOMAIN Contents : Contents'[k] = Contents[k]
  BY DEF MapOK
<1> QED BY <1>1, <1>2 DEF MapOK

\* The map gains a pair with a new key.
LEMMA MapGains ==
  ASSUME MapOK, MapOK', NEW x, NEW y, \A v : ~Maps(x, v),
         \A k, v : Maps(k, v)' <=> Maps(k, v) \/ (k = x /\ v = y)
  PROVE  Gains(x, y)
<1>1. x \notin DOMAIN Contents
  BY DEF MapOK
<1>2. \A k : k \in DOMAIN Contents' <=> k \in DOMAIN Contents \cup {x}
  BY DEF MapOK
<1>3. \A k \in DOMAIN Contents : Contents'[k] = Contents[k]
  BY DEF MapOK
<1>4. Contents'[x] = y
  BY DEF MapOK
<1> QED BY <1>1, <1>2, <1>3, <1>4 DEF MapOK, Gains

\* The map loses a key.
LEMMA MapLoses ==
  ASSUME MapOK, MapOK', NEW x,
         \A k, v : Maps(k, v)' <=> Maps(k, v) /\ k # x
  PROVE  Loses(x)
<1>1. \A k : k \in DOMAIN Contents' <=> k \in DOMAIN Contents \ {x}
  BY DEF MapOK
<1>2. \A k \in DOMAIN Contents \ {x} : Contents'[k] = Contents[k]
  BY DEF MapOK
<1> QED BY <1>1, <1>2 DEF MapOK, Loses

\* The entries of leaf p, of the leaves among the pages C, and of the other leaves.
EntryOf(p, k, v) ==
  node[p].leaf /\ \E i \in 1 .. Size(node[p]) : node[p].array[i].first = k /\ node[p].array[i].second = v
Inside(C, k, v) == \E p \in DOMAIN node : p \in C /\ EntryOf(p, k, v)
Outside(C, k, v) == \E p \in DOMAIN node : p \notin C /\ EntryOf(p, k, v)

\* A pair is in the pages C or in the others.
LEMMA MapsSplit ==
  \A C, k, v : Maps(k, v) <=> Inside(C, k, v) \/ Outside(C, k, v)
BY Zenon DEF Maps, Inside, Outside, EntryOf

\* A step changes no leaf but those among the pages C.
OnlyLeaves(C) ==
  /\ \A p \in DOMAIN node : p \notin C =>
       p \in DOMAIN node' /\ node'[p].leaf = node[p].leaf /\ node'[p].array = node[p].array
  /\ DOMAIN node' \subseteq DOMAIN node \cup C

\* Where only the leaves C change, the others have the pairs they had.
LEMMA OutsideSame ==
  ASSUME NEW C, OnlyLeaves(C)
  PROVE  \A k, v : Outside(C, k, v)' <=> Outside(C, k, v)
BY DEF OnlyLeaves, Outside, EntryOf, Size

\* So the map after such a step is what C then has and what the others had.
LEMMA MapsAfter ==
  ASSUME NEW C, OnlyLeaves(C)
  PROVE  \A k, v : Maps(k, v)' <=> Inside(C, k, v)' \/ Outside(C, k, v)
<1>1. \A k, v : Maps(k, v)' <=> Inside(C, k, v)' \/ Outside(C, k, v)'
  BY Zenon DEF Maps, Inside, Outside, EntryOf
<1> QED BY <1>1, OutsideSame

\* Steps that move the entries of some leaves among them.
LEMMA MapsMoved ==
  ASSUME MapOK, MapOK', NEW C, OnlyLeaves(C), \A k, v : Inside(C, k, v)' <=> Inside(C, k, v)
  PROVE  Contents' = Contents
<1>1. \A k, v : Maps(k, v)' <=> Maps(k, v)
  BY MapsAfter, MapsSplit
<1> QED BY <1>1, MapSame


-----------------------------------------------------------------------------
(* What the steps do to the map. *)

\* While there is no root there are no entries.
LEMMA EmptyMap ==
  ASSUME NEW g \in Ghosts, Good(g), root_page_id = INVALID_PAGE_ID
  PROVE  \A k, v : ~Maps(k, v)
<1>1. Live = {}
  BY DEF Good, TreeOK, Rooted
<1> QED BY <1>1, FilledLive DEF Maps

\* A new tree has the entry that is inserted.
LEMMA StartEffect ==
  ASSUME NEW g \in Ghosts, Good(g), NEW t \in Threads, StartNewTree(t), MapOK, MapOK',
         NEW k, k = call[t].key, NEW v, v = call[t].value
  PROVE  Gains(k, v)
<1>. PICK p : p = NewPageId
  OBVIOUS
<1>. PICK n : n = [leaf |-> TRUE, array |-> <<Pair(k, v)>>,
                   parent |-> INVALID_PAGE_ID, next |-> INVALID_PAGE_ID]
  OBVIOUS
<1>1. /\ root_page_id = INVALID_PAGE_ID /\ CanAllocate /\ node' = Added(node, p, n) /\ TypeOK
  BY DEF StartNewTree, Good
<1>2. p \notin DOMAIN node
  BY <1>1, NewPageIs DEF TypeOK
<1>3. DOMAIN node' = DOMAIN node \cup {p} /\ node'[p] = n /\ \A q \in DOMAIN node : node'[q] = node[q]
  BY <1>1, <1>2 DEF Added
<1>4. OnlyLeaves({p})
  BY <1>2, <1>3 DEF OnlyLeaves
<1>5. n.leaf /\ Len(n.array) = 1 /\ n.array[1].first = k /\ n.array[1].second = v
  BY DEF Pair
<1>6. \A j, w : Inside({p}, j, w)' <=> j = k /\ w = v
  BY <1>3, <1>5 DEF Inside, EntryOf, Size
<1>7. \A j, w : ~Maps(j, w)
  BY <1>1, EmptyMap
<1>8. \A j, w : Maps(j, w)' <=> Maps(j, w) \/ (j = k /\ w = v)
  BY <1>4, <1>6, <1>7, MapsAfter, MapsSplit
<1> QED BY <1>7, <1>8, MapGains

\* The leaf for the key of a call.
LEMMA OwnLeaf ==
  ASSUME NEW g \in Ghosts, Good(g), NEW t \in Threads, pc[t] = "leaf", call[t].op # "Scan",
         NEW p, p = target[t], NEW k, k = call[t].key
  PROVE  /\ p \in Live /\ p \in DOMAIN node /\ node[p].leaf /\ k \in Keys /\ k \in Nat
         /\ Sorted(node[p], 1) /\ LeafEntries(g, p) /\ Size(node[p]) \in Nat
         /\ node[p].array \in Seq(Entry(Values) \cup Entry(PageIds))
         /\ call[t] \in Calls
         /\ \A v : Maps(k, v) <=> EntryOf(p, k, v)
         /\ \A v : ~Outside({p}, k, v)
<1>1. PointOf(t) /\ InLeaf(g, t)
  BY DEF Good, ThreadOK
<1>2. call[t] \in Calls /\ k \in Keys /\ k \in Nat
  BY <1>1, TopAbove DEF PointOf, ScanCalls, Calls
<1>3. p \in pages[t] /\ node[p].leaf /\ p \notin doomed[t] /\ InRange(g, t, p)
  BY <1>1 DEF InLeaf, PointOf
<1>4. p \in Live /\ p \in DOMAIN node
  BY <1>3, LiveMine DEF Live
<1>5. LeafEntries(g, p) /\ Size(node[p]) \in Nat
      /\ node[p].array \in Seq(Entry(Values) \cup Entry(PageIds))
  BY <1>3, <1>4, NodeFacts DEF Good, TreeOK, PageOK
<1>6. Sorted(node[p], 1)
  BY <1>5, TopAbove DEF LeafEntries, Sorted
<1>7. \A v : ~Outside({p}, k, v)
  BY <1>3, <1>4, KeyInLeaf DEF Outside, EntryOf, InRange
<1>8. \A v : Maps(k, v) <=> EntryOf(p, k, v)
  <2>1. \A v : Inside({p}, k, v) <=> EntryOf(p, k, v)
    BY <1>4 DEF Inside
  <2> QED BY <1>7, <2>1, MapsSplit
<1> QED BY <1>2, <1>3, <1>4, <1>5, <1>6, <1>7, <1>8

\* A key is in the map if its leaf has it.
LEMMA FoundInLeaf ==
  ASSUME NEW g \in Ghosts, Good(g), NEW t \in Threads, pc[t] = "leaf", call[t].op # "Scan", MapOK,
         NEW p, p = target[t], NEW k, k = call[t].key
  PROVE  /\ Has(node[p], k) <=> k \in DOMAIN Contents
         /\ Has(node[p], k) => /\ Contents[k] = node[p].array[KeyIndex(node[p], k)].second
                               /\ Contents[k] \in Values
<1>1. /\ node[p].leaf /\ k \in Keys /\ k \in Nat /\ Sorted(node[p], 1) /\ Size(node[p]) \in Nat
      /\ \A v : Maps(k, v) <=> EntryOf(p, k, v)
      /\ LeafEntries(g, p)
  BY OwnLeaf
<1>2. /\ Has(node[p], k) <=> \E i \in 1 .. Size(node[p]) : node[p].array[i].first = k
      /\ Has(node[p], k) => KeyIndex(node[p], k) \in 1 .. Size(node[p])
  BY <1>1, HasIs
<1>3. k \in DOMAIN Contents <=> \E v : EntryOf(p, k, v)
  BY <1>1 DEF MapOK
<1>4. (\E v : EntryOf(p, k, v)) <=> \E i \in 1 .. Size(node[p]) : node[p].array[i].first = k
  BY <1>1 DEF EntryOf
<1>5. ASSUME Has(node[p], k)
      PROVE  /\ Contents[k] = node[p].array[KeyIndex(node[p], k)].second
             /\ Contents[k] \in Values
  <2>. PICK x : x = KeyIndex(node[p], k)
    OBVIOUS
  <2>1. x \in 1 .. Size(node[p]) /\ node[p].array[x].first = k
    BY <1>2, <1>5 DEF Has
  <2>2. EntryOf(p, k, node[p].array[x].second)
    BY <1>1, <2>1 DEF EntryOf
  <2>3. Contents[k] = node[p].array[x].second
    BY <1>1, <2>2 DEF MapOK
  <2>4. node[p].array[x].second \in Values
    BY <1>1, <2>1 DEF LeafEntries
  <2> QED BY <2>3, <2>4
<1> QED BY <1>2, <1>3, <1>4, <1>5


\* A node gets other entries.
LEMMA NewArrayIs ==
  ASSUME NEW g, Good(g), NEW p, p \in DOMAIN node, NEW a, node' = [node EXCEPT ![p].array = a]
  PROVE  NewArray(p, a)
<1>1. node[p] \in Node
  BY NodeFacts
<1>2. node'[p] = [node[p] EXCEPT !.array = a]
  OBVIOUS
<1>3. node'[p].leaf = node[p].leaf /\ node'[p].array = a
      /\ node'[p].parent = node[p].parent /\ node'[p].next = node[p].next
  BY <1>1, <1>2 DEF Node
<1>4. DOMAIN node' = DOMAIN node /\ \A q \in DOMAIN node \ {p} : node'[q] = node[q]
  OBVIOUS
<1> QED BY <1>3, <1>4 DEF NewArray

\* Entry k, v is among those of a sequence.
Lists(a, k, v) == \E i \in 1 .. Len(a) : a[i].first = k /\ a[i].second = v

\* The entries of one leaf are replaced by those of a.
LEMMA InsideNew ==
  ASSUME NEW p, p \in DOMAIN node, node[p].leaf, NEW a, NewArray(p, a)
  PROVE  /\ OnlyLeaves({p})
         /\ \A k, v : Inside({p}, k, v) <=> Lists(node[p].array, k, v)
         /\ \A k, v : Inside({p}, k, v)' <=> Lists(a, k, v)
<1>1. OnlyLeaves({p})
  BY DEF NewArray, OnlyLeaves
<1>2. \A k, v : Inside({p}, k, v) <=> Lists(node[p].array, k, v)
  BY DEF Inside, EntryOf, Size, Lists
<1>3. p \in DOMAIN node' /\ node'[p].leaf /\ node'[p].array = a
  BY DEF NewArray
<1>4. \A k, v : Inside({p}, k, v)' <=> Lists(a, k, v)
  BY <1>3 DEF Inside, EntryOf, Size, Lists
<1> QED BY <1>1, <1>2, <1>4

\* Nothing else has the entries that such a step changes.
LEMMA LeafGains ==
  ASSUME MapOK, MapOK', NEW p, p \in DOMAIN node, node[p].leaf, NEW a, NewArray(p, a),
         NEW x, NEW y, \A v : ~Maps(x, v),
         \A k, v : Lists(a, k, v) <=> Lists(node[p].array, k, v) \/ (k = x /\ v = y)
  PROVE  Gains(x, y)
<1>1. \A k, v : Maps(k, v)' <=> Maps(k, v) \/ (k = x /\ v = y)
  BY InsideNew, MapsAfter, MapsSplit
<1> QED BY <1>1, MapGains

\* A leaf that loses a key takes it out of the map.
LEMMA LeafLoses ==
  ASSUME MapOK, MapOK', NEW p, p \in DOMAIN node, node[p].leaf, NEW a, NewArray(p, a),
         NEW x, \A v : ~Outside({p}, x, v),
         \A k, v : Lists(a, k, v) <=> Lists(node[p].array, k, v) /\ k # x
  PROVE  Loses(x)
<1>1. ASSUME NEW k, NEW v PROVE Maps(k, v)' <=> Maps(k, v) /\ k # x
  <2>1. /\ Maps(k, v)' <=> Inside({p}, k, v)' \/ Outside({p}, k, v)
        /\ Maps(k, v) <=> Inside({p}, k, v) \/ Outside({p}, k, v)
        /\ Inside({p}, k, v)' <=> Inside({p}, k, v) /\ k # x
    BY InsideNew, MapsAfter, MapsSplit
  <2>2. Outside({p}, k, v) => k # x
    OBVIOUS
  <2> QED BY <2>1, <2>2
<1> QED BY <1>1, MapLoses

\* An insertion of a key that the leaf does not have.
LEMMA InsertEffect ==
  ASSUME NEW g \in Ghosts, Good(g), NEW t \in Threads, InsertIntoLeaf(t), MapOK, MapOK',
         NEW p, p = target[t], NEW k, k = call[t].key, NEW v, v = call[t].value, ~Has(node[p], k)
  PROVE  Gains(k, v)
<1>. PICK n, e, x : n = node[p] /\ e = Pair(k, v) /\ x = KeyIndex(n, k)
  OBVIOUS
<1>. PICK a : a = InsertAt(n.array, x, e)
  OBVIOUS
<1>1. /\ pc[t] = "leaf" /\ call[t].op = "Insert" /\ node' = [node EXCEPT ![p].array = a]
  BY DEF InsertIntoLeaf, At
<1>2. /\ p \in DOMAIN node /\ n.leaf /\ k \in Nat
      /\ Sorted(n, 1) /\ Size(n) \in Nat /\ n.array \in Seq(Entry(Values) \cup Entry(PageIds))
      /\ call[t] \in Calls /\ \A w : Maps(k, w) <=> EntryOf(p, k, w)
  BY <1>1, OwnLeaf
<1>3. e \in Entry(Values) \cup Entry(PageIds) /\ e.first = k /\ e.second = v
  BY <1>2 DEF Pair, Entry, Calls
<1>4. /\ x \in 1 .. Size(n) + 1
      /\ \A i \in 1 .. Size(n) : n.array[i].first < k <=> i < x
  BY <1>2, KeyIndexIs
<1>5. \A i \in 1 .. Size(n) : n.array[i].first # k
  BY <1>2, HasIs
<1>6. Inserted(a, n.array, x, e)
  BY <1>2, <1>3, <1>4, InsertAtIs DEF Size
<1>7. Fits(n.array, e, x) /\ x \in 1 .. Len(n.array) + 1 /\ Len(n.array) = Size(n)
  BY <1>2, <1>3, <1>4, <1>5 DEF Fits, Sorted, Size
<1>8. OneMore(a, n.array, e)
  BY Zenon, <1>2, <1>6, <1>7, SortedInsert
<1>9. \E j \in 1 .. Len(a) : a[j] = e
  BY <1>2, <1>6, <1>7 DEF Inserted
<1>10. NewArray(p, a)
  BY <1>1, <1>2, NewArrayIs
<1>11. \A j, w : Lists(a, j, w) <=> Lists(n.array, j, w) \/ (j = k /\ w = v)
  <2>1. ASSUME NEW j, NEW w, Lists(a, j, w) PROVE Lists(n.array, j, w) \/ (j = k /\ w = v)
    BY <1>3, <1>8, <2>1 DEF OneMore, Lists
  <2>2. ASSUME NEW j, NEW w, Lists(n.array, j, w) PROVE Lists(a, j, w)
    <3>1. PICK i \in 1 .. Len(n.array) : n.array[i].first = j /\ n.array[i].second = w
      BY <2>2 DEF Lists
    <3> QED BY <1>8, <3>1 DEF OneMore, Lists
  <2>3. Lists(a, k, v)
    BY <1>3, <1>9 DEF Lists
  <2> QED BY <2>1, <2>2, <2>3
<1>12. \A w : ~Maps(k, w)
  BY <1>2, <1>5 DEF EntryOf
<1> QED BY <1>2, <1>10, <1>11, <1>12, LeafGains

\* A removal.
LEMMA RemoveEffect ==
  ASSUME NEW g \in Ghosts, Good(g), NEW t \in Threads, RemoveFromLeaf(t), MapOK, MapOK',
         NEW k, k = call[t].key
  PROVE  Loses(k)
<1>. PICK p, n, x : p = target[t] /\ n = node[p] /\ x = KeyIndex(n, k)
  OBVIOUS
<1>. PICK a : a = IF Has(n, k) THEN RemoveAt(n.array, x) ELSE n.array
  OBVIOUS
<1>1. /\ pc[t] = "leaf" /\ call[t].op = "Remove" /\ node' = [node EXCEPT ![p].array = a]
  BY DEF RemoveFromLeaf, At
<1>2. /\ p \in DOMAIN node /\ n.leaf /\ k \in Nat
      /\ Sorted(n, 1) /\ Size(n) \in Nat /\ n.array \in Seq(Entry(Values) \cup Entry(PageIds))
      /\ \A w : ~Outside({p}, k, w)
  BY <1>1, OwnLeaf
<1>3. NewArray(p, a)
  BY <1>1, <1>2, NewArrayIs
<1>4. /\ Has(n, k) <=> \E i \in 1 .. Size(n) : n.array[i].first = k
      /\ Has(n, k) => x \in 1 .. Size(n)
  BY <1>2, HasIs
<1>5. \A j, w : Lists(a, j, w) <=> Lists(n.array, j, w) /\ j # k
  <2>1. CASE Has(n, k)
    <3>1. x \in 1 .. Len(n.array) /\ n.array[x].first = k /\ Len(n.array) = Size(n)
      BY <1>4, <2>1 DEF Has, Size
    <3>2. Removed(a, n.array, x)
      BY <1>2, <2>1, <3>1, RemoveAtIs
    <3>3. OneLess(a, n.array, x)
      BY <1>2, <3>1, <3>2, SortedRemove DEF Ordered, Sorted, Size
    <3>4. ASSUME NEW i \in 1 .. Len(n.array), i # x PROVE n.array[i].first # k
      <4>1. i < x \/ x < i
        BY <1>2, <3>1, <3>4
      <4> QED BY <1>2, <3>1, <4>1 DEF Sorted
    <3>5. ASSUME NEW j, NEW w, Lists(a, j, w) PROVE Lists(n.array, j, w) /\ j # k
      <4>1. PICK m \in 1 .. Len(a) : a[m].first = j /\ a[m].second = w
        BY <3>5 DEF Lists
      <4>2. PICK i \in 1 .. Len(n.array) : i # x /\ a[m] = n.array[i]
        BY <3>3 DEF OneLess
      <4> QED BY <3>4, <4>1, <4>2 DEF Lists
    <3>6. ASSUME NEW j, NEW w, Lists(n.array, j, w), j # k PROVE Lists(a, j, w)
      <4>1. PICK i \in 1 .. Len(n.array) : n.array[i].first = j /\ n.array[i].second = w
        BY <3>6 DEF Lists
      <4>2. PICK m \in 1 .. Len(a) : a[m] = n.array[i]
        <5>1. i # x
          BY Zenon, <3>1, <3>6, <4>1
        <5> QED BY <3>3, <4>1, <5>1 DEF OneLess
      <4> QED BY <4>1, <4>2 DEF Lists
    <3> QED BY <3>5, <3>6
  <2>2. CASE ~Has(n, k)
    <3>1. a = n.array /\ \A i \in 1 .. Len(n.array) : n.array[i].first # k
      BY <1>4, <2>2 DEF Size
    <3> QED BY <3>1 DEF Lists
  <2> QED BY <2>1, <2>2
<1> QED BY <1>2, <1>3, <1>5, LeafLoses


\* The entries of a sequence that is cut in two, and of two that are joined.
LEMMA HalvesList ==
  ASSUME NEW s, Len(s) \in Nat, NEW m \in 0 .. Len(s), NEW a, NEW b, Halves(a, b, s, m), NEW k, NEW v
  PROVE  Lists(s, k, v) <=> Lists(a, k, v) \/ Lists(b, k, v)
<1>1. ASSUME Lists(s, k, v) PROVE Lists(a, k, v) \/ Lists(b, k, v)
  <2>1. PICK i \in 1 .. Len(s) : s[i].first = k /\ s[i].second = v
    BY <1>1 DEF Lists
  <2>2. CASE i <= m
    <3>1. i \in 1 .. Len(a) /\ a[i] = s[i]
      BY <2>2 DEF Halves
    <3> QED BY <2>1, <3>1 DEF Lists
  <2>3. CASE m < i
    <3>. PICK j : j = i - m
      OBVIOUS
    <3>1. j \in 1 .. Len(s) - m /\ m + j = i /\ Len(b) = Len(s) - m
      BY <2>3 DEF Halves
    <3>2. b[j] = s[i]
      BY <3>1 DEF Halves
    <3> QED BY <2>1, <3>1, <3>2 DEF Lists
  <2> QED BY <2>2, <2>3
<1>2. ASSUME Lists(a, k, v) PROVE Lists(s, k, v)
  <2>1. PICK i \in 1 .. Len(a) : a[i].first = k /\ a[i].second = v
    BY <1>2 DEF Lists
  <2>2. i \in 1 .. Len(s) /\ a[i] = s[i]
    BY <2>1 DEF Halves
  <2> QED BY <2>1, <2>2 DEF Lists
<1>3. ASSUME Lists(b, k, v) PROVE Lists(s, k, v)
  <2>1. PICK i \in 1 .. Len(b) : b[i].first = k /\ b[i].second = v
    BY <1>3 DEF Lists
  <2>2. m + i \in 1 .. Len(s) /\ b[i] = s[m + i]
    BY <2>1 DEF Halves
  <2> QED BY <2>1, <2>2 DEF Lists
<1> QED BY <1>1, <1>2, <1>3

\* A list that is joined has the pairs of both parts.
LEMMA JoinedList ==
  ASSUME NEW z, NEW l, NEW r, Len(l) \in Nat, Len(r) \in Nat, Joined(z, l, r), NEW k, NEW v
  PROVE  Lists(z, k, v) <=> Lists(l, k, v) \/ Lists(r, k, v)
<1>1. Len(z) \in Nat /\ Len(l) \in 0 .. Len(z) /\ Halves(l, r, z, Len(l))
  BY DEF Joined, Halves
<1> QED BY <1>1, HalvesList

\* A split deals out the entries of a leaf to two.
LEMMA SplitEffect ==
  ASSUME NEW g \in Ghosts, Good(g), NEW t \in Threads, SplitNode(t), MapOK, MapOK'
  PROVE  Contents' = Contents
<1>. PICK p, new : p = at[t] /\ new = NewPageId
  OBVIOUS
<1>. PICK M, m : M = MaxSize(node[p]) /\ m = (M + 1) \div 2
  OBVIOUS
<1>1. PICK a, b : SplitInto(p, new, a, b, m)
  BY SplitNodeIs
<1>2. p \in DOMAIN node /\ Size(node[p]) = M + 1 /\ M \in Nat /\ m \in 1 .. M
  BY SplitNodeIs
<1>3. OnlyLeaves({p, new})
  BY <1>1 DEF SplitInto, OnlyLeaves
<1>4. /\ DOMAIN node' = DOMAIN node \cup {new} /\ new \notin DOMAIN node
      /\ node'[p].leaf = node[p].leaf /\ node'[p].array = a
      /\ node'[new].leaf = node[p].leaf /\ node'[new].array = b
  BY <1>1 DEF SplitInto
<1>5. \A k, v : Lists(node[p].array, k, v) <=> Lists(a, k, v) \/ Lists(b, k, v)
  <2>1. Len(node[p].array) \in Nat /\ m \in 0 .. Len(node[p].array) /\ Halves(a, b, node[p].array, m)
    BY <1>1, <1>2 DEF SplitInto, Size
  <2> QED BY <2>1, HalvesList
<1>6. \A k, v : Inside({p, new}, k, v) <=> node[p].leaf /\ Lists(node[p].array, k, v)
  BY <1>2, <1>4 DEF Inside, EntryOf, Lists, Size
<1>7. \A k, v : Inside({p, new}, k, v)' <=> node[p].leaf /\ (Lists(a, k, v) \/ Lists(b, k, v))
  BY <1>2, <1>4 DEF Inside, EntryOf, Lists, Size
<1> QED BY <1>3, <1>5, <1>6, <1>7, MapsMoved

\* Internal pages have no entries of the map.
LEMMA GrowEffect ==
  ASSUME NEW g \in Ghosts, Good(g), NEW t \in Threads, GrowRoot(t), MapOK, MapOK'
  PROVE  Contents' = Contents
<1>. PICK old, new, r : old = at[t] /\ new = fresh[t] /\ r = NewPageId
  OBVIOUS
<1>. PICK k : k = g[new].lo
  OBVIOUS
<1>1. Grown(r, old, new, k)
  BY GrownIs
<1>2. OnlyLeaves({r})
  BY <1>1 DEF Grown, OnlyLeaves
<1>3. r \notin DOMAIN node /\ r \in DOMAIN node' /\ ~node'[r].leaf
  BY <1>1 DEF Grown
<1>4. \A j, v : ~Inside({r}, j, v) /\ ~Inside({r}, j, v)'
  BY <1>3 DEF Inside, EntryOf
<1> QED BY <1>2, <1>4, MapsMoved

\* The entry that the parent of a split node gets is none of the map's (InsertIntoParent).
LEMMA HookEffect ==
  ASSUME NEW g \in Ghosts, Good(g), NEW t \in Threads, InsertIntoParent(t), MapOK, MapOK'
  PROVE  Contents' = Contents
<1>. PICK old, new : old = at[t] /\ new = fresh[t]
  OBVIOUS
<1>. PICK par, x : par = node[old].parent /\ x = ValueIndex(node[par], old)
  OBVIOUS
<1>. PICK a : a = InsertAt(node[par].array, AfterOld(node[par], old), Pair(node[new].array[1].first, new))
  OBVIOUS
<1>1. /\ pc[t] = "parent" /\ par # INVALID_PAGE_ID
      /\ node' = [node EXCEPT ![new].parent = par,
                              ![par].array = InsertAt(@, AfterOld(node[par], old),
                                                Pair(node[new].array[1].first, new))]
  BY DEF InsertIntoParent, At
<1>2. par \in DOMAIN node /\ ~node[par].leaf /\ par # old /\ par # new
  <2>1. HookPlace(g, t, old, new, par, x)
    BY Zenon, <1>1, HookedFacts
  <2> QED BY <2>1 DEF HookPlace
<1>3. new \in DOMAIN node
  <2>1. LinksPlace(g, t, old, new)
    BY Zenon, <1>1, LinksFacts
  <2> QED BY <2>1 DEF LinksPlace
<1>4. node[par] \in Node /\ node[new] \in Node
  BY <1>2, <1>3, NodeFacts
<1>5. /\ DOMAIN node' = DOMAIN node
      /\ node'[par] = [node[par] EXCEPT !.array = a]
      /\ node'[new] = [node[new] EXCEPT !.parent = par]
      /\ \A q \in DOMAIN node \ {par, new} : node'[q] = node[q]
  BY <1>1, <1>2, <1>3
<1>6. node'[new].leaf = node[new].leaf /\ node'[new].array = node[new].array /\ ~node'[par].leaf
  BY <1>2, <1>4, <1>5 DEF Node
<1>7. OnlyLeaves({par})
  BY <1>5, <1>6 DEF OnlyLeaves
<1>8. \A j, v : ~Inside({par}, j, v) /\ ~Inside({par}, j, v)'
  BY <1>2, <1>5, <1>6 DEF Inside, EntryOf
<1> QED BY <1>7, <1>8, MapsMoved


\* The root that goes has no entries.
LEMMA AdjustEffect ==
  ASSUME NEW g \in Ghosts, Good(g), NEW t \in Threads, AdjustRoot(t), MapOK, MapOK'
  PROVE  Contents' = Contents
<1>. PICK p : p = at[t]
  OBVIOUS
<1>1. pc[t] = "underflow" /\ node[p].parent = INVALID_PAGE_ID
  BY DEF AdjustRoot, At
<1>2. p \in DOMAIN node /\ (node[p].leaf => Size(node[p]) = 0)
  BY <1>1, SmallRoot
<1>3. CASE node[p].leaf \/ Size(node[p]) = 1
  <2>. PICK s : s = [node EXCEPT ![p].array = <<>>]
    OBVIOUS
  <2>1. node' = Adopt(s, node[p], INVALID_PAGE_ID)
    BY <1>3 DEF AdjustRoot
  <2>2. \A q \in DOMAIN node : node[q] \in Node
    BY NodeFacts
  <2>3. DOMAIN s = DOMAIN node /\ \A q \in DOMAIN node \ {p} : s[q] = node[q]
    OBVIOUS
  <2>4. s[p] = [node[p] EXCEPT !.array = <<>>]
    BY <1>2
  <2>5. s[p] \in Node /\ s[p].leaf = node[p].leaf /\ s[p].array = <<>>
    <3>1. <<>> \in Seq(Entry(Values) \cup Entry(PageIds))
      OBVIOUS
    <3> QED BY <1>2, <2>2, <2>4, <3>1 DEF Node
  <2>6. DOMAIN node' = DOMAIN node
    <3>1. DOMAIN Adopt(s, node[p], INVALID_PAGE_ID) = DOMAIN s
      BY DEF Adopt
    <3> QED BY <2>1, <2>3, <3>1
  <2>7. ASSUME NEW q \in DOMAIN node PROVE node'[q].leaf = s[q].leaf /\ node'[q].array = s[q].array
    <3>1. q \in DOMAIN s /\ s[q] \in Node
      BY <2>2, <2>3, <2>5
    <3>2. AdoptedAt(node', s, node[p], INVALID_PAGE_ID, q)
      BY <2>1, <3>1, AdoptIs
    <3> QED BY <3>2 DEF AdoptedAt
  <2>8. OnlyLeaves({p})
    BY <2>3, <2>6, <2>7 DEF OnlyLeaves
  <2>9. \A k, v : ~Inside({p}, k, v)
    BY <1>2 DEF Inside, EntryOf
  <2>10. \A k, v : ~Inside({p}, k, v)'
    <3>1. Len(node'[p].array) = 0
      BY <1>2, <2>5, <2>7
    <3> QED BY <3>1 DEF Inside, EntryOf, Size
  <2> QED BY <2>8, <2>9, <2>10, MapsMoved
<1>4. CASE ~(node[p].leaf \/ Size(node[p]) = 1)
  <2>1. node' = node
    BY <1>4 DEF AdjustRoot, treeVars
  <2> QED BY <2>1 DEF Contents, Size
<1> QED BY <1>3, <1>4

\* The entries of two siblings, and what they are dealt out to.
LEMMA PairInside ==
  ASSUME NEW left, NEW right, NEW par, left \in DOMAIN node, right \in DOMAIN node, par \in DOMAIN node,
         ~node[par].leaf, node[left].leaf <=> node[right].leaf,
         DOMAIN node' = DOMAIN node,
         \A c \in {left, right, par} : node'[c].leaf = node[c].leaf
  PROVE  /\ \A k, v : Inside({left, right, par}, k, v) <=>
              node[left].leaf /\ (Lists(node[left].array, k, v) \/ Lists(node[right].array, k, v))
         /\ \A k, v : Inside({left, right, par}, k, v)' <=>
              node[left].leaf /\ (Lists(node'[left].array, k, v) \/ Lists(node'[right].array, k, v))
<1>1. \A k, v : Inside({left, right, par}, k, v) <=>
              node[left].leaf /\ (Lists(node[left].array, k, v) \/ Lists(node[right].array, k, v))
  BY DEF Inside, EntryOf, Lists, Size
<1>2. \A k, v : Inside({left, right, par}, k, v)' <=>
              node[left].leaf /\ (Lists(node'[left].array, k, v) \/ Lists(node'[right].array, k, v))
  BY DEF Inside, EntryOf, Lists, Size
<1> QED BY <1>1, <1>2

\* A merge moves pairs from one node to its sibling.
LEMMA MergeEffect ==
  ASSUME NEW g \in Ghosts, Good(g), NEW t \in Threads, MapOK, MapOK',
         NEW p, NEW par, NEW sib, NEW left, NEW right, NEW x, NEW z, NEW b,
         Pairing(t, p, par, sib, left, right, x), Merged(left, right, par, x, z, b)
  PROVE  Contents' = Contents
<1>1. /\ left \in DOMAIN node /\ right \in DOMAIN node /\ par \in DOMAIN node /\ ~node[par].leaf
      /\ (node[left].leaf <=> node[right].leaf)
      /\ Len(node[left].array) \in Nat /\ Len(node[right].array) \in Nat
  BY PairFacts, PairPlaces DEF Size
<1>2. /\ DOMAIN node' = DOMAIN node /\ \A c \in {left, right, par} : node'[c].leaf = node[c].leaf
      /\ node'[left].array = z /\ node'[right].array = <<>>
      /\ Joined(z, node[left].array, node[right].array)
  BY DEF Merged
<1>3. OnlyLeaves({left, right, par})
  BY DEF Merged, OnlyLeaves
<1>4. \A k, v : Lists(z, k, v) <=> Lists(node[left].array, k, v) \/ Lists(node[right].array, k, v)
  BY <1>1, <1>2, JoinedList
<1>5. \A k, v : ~Lists(node'[right].array, k, v)
  BY <1>2 DEF Lists
<1>6. \A k, v : Inside({left, right, par}, k, v)' <=> Inside({left, right, par}, k, v)
  BY <1>1, <1>2, <1>4, <1>5, PairInside
<1> QED BY <1>3, <1>6, MapsMoved

\* So does a redistribution.
LEMMA ShiftEffect ==
  ASSUME NEW g \in Ghosts, Good(g), NEW t \in Threads, MapOK, MapOK',
         NEW p, NEW par, NEW sib, NEW left, NEW right, NEW x, NEW z, NEW m, NEW s, NEW k,
         Pairing(t, p, par, sib, left, right, x), Shifted(left, right, par, x, z, m, s, k, p),
         ~MergedFit(p, sib)
  PROVE  Contents' = Contents
<1>1. /\ left \in DOMAIN node /\ right \in DOMAIN node /\ par \in DOMAIN node /\ ~node[par].leaf
      /\ (node[left].leaf <=> node[right].leaf)
      /\ Len(node[left].array) \in Nat /\ Len(node[right].array) \in Nat
  BY PairFacts, PairPlaces DEF Size
<1>2. /\ DOMAIN node' = DOMAIN node /\ \A c \in {left, right, par} : node'[c].leaf = node[c].leaf
      /\ Joined(z, node[left].array, node[right].array)
      /\ Piece(z, left, 0, m) /\ Piece(z, right, m, Len(z) - m)
  BY DEF Shifted
<1>3. OnlyLeaves({left, right, par})
  BY DEF Shifted, OnlyLeaves
<1>4. Len(z) \in Nat /\ m \in 0 .. Len(z)
  <2>. PICK N : N = Len(z)
    OBVIOUS
  <2>1. N \in Nat /\ m \in Nat /\ m + 1 <= N
    BY ShiftCounts
  <2> QED BY <2>1
<1>5. Halves(node'[left].array, node'[right].array, z, m)
  BY <1>2, <1>4 DEF Piece, Halves
<1>6. \A j, v : Lists(z, j, v) <=> Lists(node[left].array, j, v) \/ Lists(node[right].array, j, v)
  BY <1>1, <1>2, JoinedList
<1>7. \A j, v : Lists(z, j, v) <=> Lists(node'[left].array, j, v) \/ Lists(node'[right].array, j, v)
  BY <1>4, <1>5, HalvesList
<1>8. \A j, v : Inside({left, right, par}, j, v)' <=> Inside({left, right, par}, j, v)
  BY <1>1, <1>2, <1>6, <1>7, PairInside
<1> QED BY <1>3, <1>8, MapsMoved

\* CoalesceOrRedistribute leaves the map as it is.
LEMMA CoalesceEffect ==
  ASSUME NEW g \in Ghosts, Good(g), NEW t \in Threads, CoalesceOrRedistribute(t), MapOK, MapOK'
  PROVE  Contents' = Contents
<1>1. PICK p : p = at[t]
  OBVIOUS
<1>2. PICK par, sib : par = node[p].parent /\ sib = Sibling(p)
  OBVIOUS
<1>3. PICK left, right : left = (IF IsFirst(p) THEN p ELSE sib) /\ right = (IF IsFirst(p) THEN sib ELSE p)
  OBVIOUS
<1>4. PICK x : x = ValueIndex(node[par], left)
  OBVIOUS
<1>5. Pairing(t, p, par, sib, left, right, x)
  BY <1>1, <1>2, <1>3, <1>4, PairingIs
<1>6. CASE MergedFit(p, sib)
  <2>1. node' = Merge(left, right, par)
    BY <1>1, <1>2, <1>3, <1>6 DEF CoalesceOrRedistribute
  <2>2. PICK z, b : Merged(left, right, par, x, z, b)
    BY <1>5, <2>1, MergedIs
  <2> QED BY <1>5, <2>2, MergeEffect
<1>7. CASE ~MergedFit(p, sib)
  <2>1. node' = (IF IsFirst(p) THEN BorrowFirst(p, sib, par) ELSE BorrowLast(p, sib, par))
    BY <1>1, <1>2, <1>3, <1>7 DEF CoalesceOrRedistribute
  <2>2. \E z, m, s, k : Shifted(left, right, par, x, z, m, s, k, p)
    <3>1. CASE IsFirst(p)
      BY <1>3, <1>5, <1>7, <2>1, <3>1, BorrowFirstIs
    <3>2. CASE ~IsFirst(p)
      BY <1>3, <1>5, <1>7, <2>1, <3>2, BorrowLastIs
    <3> QED BY <3>1, <3>2
  <2> QED BY <1>5, <1>7, <2>2, ShiftEffect
<1> QED BY <1>6, <1>7

\* The pages that are deleted have no entries.
LEMMA FreeEffect ==
  ASSUME NEW g \in Ghosts, Good(g), NEW t \in Threads, FreePages(t), MapOK, MapOK'
  PROVE  Contents' = Contents
<1>. PICK C : C = doomed[t]
  OBVIOUS
<1>1. node' = [p \in DOMAIN node \ (doomed[t] \ {target[u] : u \in {v \in Threads \ {t} : pc[v] = "latch"}})
                 |-> node[p]]
  BY DEF FreePages
<1>2. \A p \in C : node[p].array = <<>>
  BY DEF Good, ThreadOK, PointOf
<1>3. OnlyLeaves(C)
  BY <1>1 DEF OnlyLeaves
<1>4. \A k, v : ~Inside(C, k, v)
  BY <1>2 DEF Inside, EntryOf, Size
<1>5. \A k, v : ~Inside(C, k, v)'
  BY <1>1, <1>2 DEF Inside, EntryOf, Size
<1> QED BY <1>3, <1>4, <1>5, MapsMoved


-----------------------------------------------------------------------------
(* The calls and their answers. *)

\* A call has an answer once it has acted, and a call that is over has one.
Answered(t) ==
  /\ pc[t] \in {"idle", "check", "empty", "root", "latch", "leaf", "scan", "walk", "crashed"} =>
       answer[t] = Pending
  /\ pc[t] \in {"split", "parent", "underflow"} => answer[t] # Pending
  /\ pc[t] = "free" /\ call[t].op # "Scan" => answer[t] # Pending

\* A step of t changes what is known of t alone.
LEMMA AnsweredOthers ==
  ASSUME NEW t \in Threads, Local(t), NEW u \in Threads \ {t}, Answered(u)
  PROVE  Answered(u)'
BY DEF Local, Answered

\* A call has an answer from the step on that acts on the map.
LEMMA AnsweredOwn ==
  ASSUME NEW g \in Ghosts, Good(g), NEW t \in Threads, Acts(t), Answered(t)
  PROVE  Answered(t)'
<1>1. pc = [u \in Threads |-> pc[u]] /\ answer = [u \in Threads |-> answer[u]]
      /\ call = [u \in Threads |-> call[u]]
  BY DEF Good, TypeOK
<1>2. /\ PointOf(t) /\ pc[t] \in Points
      /\ \A a \in {"inserted", "duplicate", "removed", "end", NotFound} : a # Pending
      /\ \A v \in Values : v # Pending
  BY AnswerAssumption, TreeAssumption DEF Good, ThreadOK, TypeOK
<1>3. CASE Call(t) \/ CallScan(t)
  <2>1. pc[t] = "idle" /\ pc'[t] \in {"check", "empty", "root"} /\ answer' = answer
    BY <1>1, <1>3 DEF Call, CallScan, At, GoTo
  <2> QED BY <2>1 DEF Answered
<1>4. CASE CheckEmpty(t) \/ EnterRootLock(t) \/ EnterPage(t) \/ EnterSibling(t) \/ LatchPage(t)
           \/ ScanBegin(t) \/ ScanNext(t)
  <2>1. /\ answer' = answer
        /\ \/ pc'[t] = pc[t] /\ call' = call
           \/ /\ pc[t] \in {"check", "latch", "leaf", "walk"}
              /\ pc'[t] \in {"root", "latch", "leaf", "scan"}
    BY <1>1, <1>4 DEF CheckEmpty, EnterRootLock, EnterPage, EnterSibling, EnterLatch, LatchPage,
                      ScanBegin, ScanNext, At, GoTo
  <2> QED BY <2>1 DEF Answered
<1>5. CASE StartNewTree(t) \/ IsEmpty(t) \/ FindRoot(t)
  <2>1. /\ pc[t] \in {"check", "empty", "root"}
        /\ \/ answer'[t] = answer[t] /\ pc'[t] \in {"root", "latch", "crashed"}
           \/ answer'[t] \in {"inserted", "removed", NotFound} /\ pc'[t] = "free"
    BY <1>1, <1>5 DEF StartNewTree, IsEmpty, FindRoot, At, GoTo, Reply
  <2> QED BY <1>2, <2>1 DEF Answered
<1>6. CASE GetValue(t)
  <2>. PICK p, k : p = target[t] /\ k = call[t].key
    OBVIOUS
  <2>1. /\ pc[t] = "leaf" /\ call[t].op = "Find" /\ pc'[t] = "free"
        /\ answer'[t] = IF Has(node[p], k) THEN node[p].array[KeyIndex(node[p], k)].second ELSE NotFound
    BY <1>1, <1>6 DEF GetValue, At, GoTo, Reply
  <2>2. Has(node[p], k) => node[p].array[KeyIndex(node[p], k)].second \in Values
    <3>1. MapOK
      BY ContentsAre
    <3> QED BY <2>1, <3>1, FoundInLeaf
  <2>3. answer'[t] # Pending
    BY <1>2, <2>1, <2>2
  <2> QED BY <2>1, <2>3 DEF Answered
<1>7. CASE InsertIntoLeaf(t) \/ RemoveFromLeaf(t)
  <2>1. /\ answer'[t] \in {"inserted", "duplicate", "removed"}
        /\ pc'[t] \in {"free", "split", "underflow"}
    BY <1>1, <1>7 DEF InsertIntoLeaf, RemoveFromLeaf, At, GoTo, Reply
  <2> QED BY <1>2, <2>1 DEF Answered
<1>8. CASE SplitNode(t) \/ GrowRoot(t) \/ InsertIntoParent(t) \/ AdjustRoot(t) \/ CoalesceOrRedistribute(t)
  <2>1. /\ answer' = answer /\ pc[t] \in {"split", "parent", "underflow"}
        /\ pc'[t] \in {"split", "parent", "underflow", "free"}
    BY <1>1, <1>8 DEF SplitNode, GrowRoot, InsertIntoParent, AdjustRoot, CoalesceOrRedistribute, At, GoTo
  <2> QED BY <2>1 DEF Answered
<1>9. CASE ScanLeaf(t) \/ ScanClose(t)
  <2>1. /\ pc[t] = "scan" /\ pc'[t] \in {"free", "walk"}
        /\ pc'[t] = "walk" => answer' = answer
    BY <1>1, <1>9 DEF ScanLeaf, ScanClose, At, GoTo
  <2>2. call[t].op = "Scan" /\ call[t] \in ScanCalls
    BY <1>2, <2>1 DEF PointOf, Calls
  <2>3. call'[t].op = "Scan"
    BY <1>1, <1>9, <2>2 DEF ScanLeaf, ScanClose, ScanCalls
  <2> QED BY <2>1, <2>3 DEF Answered
<1>10. CASE FreePages(t)
  <2>1. pc'[t] = "idle" /\ answer'[t] = Pending
    BY <1>1, <1>10 DEF FreePages, GoTo
  <2> QED BY <2>1 DEF Answered
<1> QED BY <1>3, <1>4, <1>5, <1>6, <1>7, <1>8, <1>9, <1>10 DEF Acts, Step


-----------------------------------------------------------------------------
(* The calls that an index sees. *)

IndexCall == [t \in Threads |-> IF call[t].op = "Scan" THEN NoCall ELSE call[t]]
IndexAnswer == [t \in Threads |-> IF call[t].op = "Scan" THEN Pending ELSE answer[t]]

\* A step that leaves map, calls and answers alone as far as the index sees them.
Unseen == Contents' = Contents /\ IndexCall' = IndexCall /\ IndexAnswer' = IndexAnswer
AsIndex == Index!Next \/ Unseen

\* A step that is unseen is a stutter of the index.
LEMMA IndexStep ==
  ASSUME AsIndex
  PROVE  [Index!Next]_(Index!vars)
BY DEF AsIndex, Unseen, Index!vars, IndexCall, IndexAnswer

\* The calls stay, and t gets an answer.
Answers(t, a) == call' = call /\ answer' = [answer EXCEPT ![t] = a]

\* What the index sees of an answer.
LEMMA IndexAnswers ==
  ASSUME TypeOK, NEW t \in Threads, NEW a, Answers(t, a)
  PROVE  /\ IndexCall' = IndexCall
         /\ call[t].op = "Scan" => IndexAnswer' = IndexAnswer
         /\ call[t].op # "Scan" => /\ IndexAnswer' = [IndexAnswer EXCEPT ![t] = a]
                                   /\ IndexAnswer[t] = answer[t] /\ IndexCall[t] = call[t]
BY DEF TypeOK, Answers, IndexCall, IndexAnswer

\* A step that leaves calls and answers alone is not seen.
LEMMA IndexSame ==
  ASSUME UNCHANGED <<call, answer>>
  PROVE  IndexCall' = IndexCall /\ IndexAnswer' = IndexAnswer
BY DEF IndexCall, IndexAnswer

\* A call that acts, as the index sees it.
LEMMA ActsIndex ==
  ASSUME TypeOK, NEW t \in Threads, NEW a, Answers(t, a), answer[t] = Pending, call[t].op # "Scan"
  PROVE  Index!Act(t, call[t].op, a)
<1>1. /\ IndexCall' = IndexCall /\ IndexAnswer' = [IndexAnswer EXCEPT ![t] = a]
      /\ IndexAnswer[t] = Pending /\ IndexCall[t] = call[t]
  BY IndexAnswers
<1> QED BY <1>1 DEF Index!Act, IndexCall, IndexAnswer

\* Insert acts on the map where it puts the pair into a leaf or finds the key there.
LEMMA InsertIsOne ==
  ASSUME TypeOK, NEW t \in Threads, NEW a, Answers(t, a), answer[t] = Pending, call[t].op = "Insert",
         \/ a = "inserted" /\ Gains(call[t].key, call[t].value)
         \/ a = "duplicate" /\ call[t].key \in DOMAIN Contents /\ Contents' = Contents
  PROVE  AsIndex
<1>1. Index!Act(t, "Insert", a)
  BY ActsIndex
<1>2. IndexCall[t] = call[t]
  BY IndexAnswers
<1>3. Index!Insert(t, call[t].key)
  BY <1>1, <1>2 DEF Index!Insert, Gains, IndexCall
<1> QED BY <1>2, <1>3 DEF AsIndex, Index!Next, IndexCall

\* GetValue acts on the map where it looks into the leaf.
LEMMA FindIsOne ==
  ASSUME TypeOK, NEW t \in Threads, NEW a, Answers(t, a), answer[t] = Pending, call[t].op = "Find",
         a = (IF call[t].key \in DOMAIN Contents THEN Contents[call[t].key] ELSE NotFound),
         Contents' = Contents
  PROVE  AsIndex
<1>1. Index!Act(t, "Find", a)
  BY ActsIndex
<1>2. IndexCall[t] = call[t]
  BY IndexAnswers
<1>3. Index!Find(t, call[t].key)
  BY <1>1 DEF Index!Find, Index!Act
<1> QED BY <1>2, <1>3 DEF AsIndex, Index!Next, IndexCall

\* Remove acts on the map where it takes the entry out of the leaf.
LEMMA RemoveIsOne ==
  ASSUME TypeOK, NEW t \in Threads, NEW a, Answers(t, a), answer[t] = Pending, call[t].op = "Remove",
         a = "removed", Loses(call[t].key)
  PROVE  AsIndex
<1>1. Index!Act(t, "Remove", a)
  BY ActsIndex
<1>2. IndexCall[t] = call[t]
  BY IndexAnswers
<1>3. Index!Remove(t, call[t].key)
  BY <1>1 DEF Index!Remove, Loses
<1> QED BY <1>2, <1>3 DEF AsIndex, Index!Next, IndexCall


\* Steps that the index does not see, because nothing it knows of changes ...
LEMMA UnseenStep ==
  ASSUME UNCHANGED <<call, answer>>, Contents' = Contents
  PROVE  AsIndex
BY IndexSame DEF AsIndex, Unseen

\* ... or because they are steps of a scan.
LEMMA ScanUnseen ==
  ASSUME TypeOK, TypeOK', NEW t \in Threads, Local(t), Contents' = Contents,
         call[t].op = "Scan" \/ (call[t] = NoCall /\ answer[t] = Pending),
         call'[t].op = "Scan" \/ (call'[t] = NoCall /\ answer'[t] = Pending)
  PROVE  AsIndex
<1>1. IndexCall' = IndexCall
  BY DEF IndexCall, Local, NoCall
<1>2. IndexAnswer' = IndexAnswer
  BY DEF IndexAnswer, Local
<1> QED BY <1>1, <1>2 DEF AsIndex, Unseen

\* A call begins.
LEMMA CallIsOne ==
  ASSUME NEW g \in Ghosts, Good(g), NEW t \in Threads, Call(t), Contents' = Contents
  PROVE  AsIndex
<1>1. /\ pc[t] = "idle" /\ answer' = answer /\ PointOf(t) /\ TypeOK
  BY DEF Call, At, Good, ThreadOK
<1>2. PICK c \in Calls : call' = [call EXCEPT ![t] = c]
  BY DEF Call
<1>3. call[t] = NoCall /\ NoCall.op # "Scan" /\ c.op # "Scan"
  BY <1>1 DEF PointOf, NoCall, Calls
<1>4. IndexCall[t] = NoCall /\ IndexCall' = [IndexCall EXCEPT ![t] = c]
  BY <1>1, <1>2, <1>3 DEF IndexCall, TypeOK
<1>5. IndexAnswer' = IndexAnswer
  BY <1>1, <1>2, <1>3 DEF IndexAnswer, TypeOK
<1>6. Index!Invoke(t, c)
  BY <1>4, <1>5 DEF Index!Invoke, IndexCall, IndexAnswer
<1> QED BY <1>6 DEF AsIndex, Index!Next

\* A call that has its answer returns.
LEMMA ReturnIsOne ==
  ASSUME NEW g \in Ghosts, Good(g), NEW t \in Threads, FreePages(t), Answered(t), Contents' = Contents,
         call[t].op # "Scan"
  PROVE  AsIndex
<1>1. /\ pc[t] = "free" /\ PointOf(t) /\ TypeOK
      /\ call' = [call EXCEPT ![t] = NoCall] /\ answer' = [answer EXCEPT ![t] = Pending]
  BY DEF FreePages, At, Good, ThreadOK
<1>2. answer[t] # Pending /\ call[t] \in Calls
  BY <1>1 DEF Answered, PointOf, ScanCalls
<1>3. call[t] # NoCall /\ NoCall.op # "Scan"
  BY <1>2, TreeAssumption DEF NoCall, Calls
<1>4. IndexCall[t] = call[t] /\ IndexCall' = [IndexCall EXCEPT ![t] = NoCall]
  BY <1>1, <1>3 DEF IndexCall, TypeOK
<1>5. IndexAnswer[t] = answer[t] /\ IndexAnswer' = [IndexAnswer EXCEPT ![t] = Pending]
  BY <1>1, <1>3 DEF IndexAnswer, TypeOK
<1>6. Index!Return(t)
  BY <1>2, <1>3, <1>4, <1>5 DEF Index!Return, IndexCall, IndexAnswer
<1> QED BY <1>6 DEF AsIndex, Index!Next

\* Each step of a call is one step of the index, or none.
LEMMA StepIsOne ==
  ASSUME NEW g \in Ghosts, Good(g), NEW t \in Threads, Acts(t), Answered(t), MapOK, MapOK', TypeOK'
  PROVE  AsIndex
<1>. PICK k, v : k = call[t].key /\ v = call[t].value
  OBVIOUS
<1>1. TypeOK /\ PointOf(t) /\ Local(t)
  BY StepsLocal DEF Good, ThreadOK
<1>2. ASSUME Quietly(t) PROVE Contents' = Contents
  <2>1. node' = node
    BY <1>2, QuietSame
  <2> QED BY <2>1 DEF Contents, Size
<1>3. CASE Call(t)
  BY <1>2, <1>3, CallIsOne DEF Quietly
<1>4. CASE CallScan(t)
  <2>1. pc[t] = "idle" /\ call'[t].op = "Scan"
    BY <1>1, <1>4 DEF CallScan, At, TypeOK
  <2>2. call[t] = NoCall /\ answer[t] = Pending
    BY <1>1, <2>1 DEF PointOf, Answered
  <2>3. Contents' = Contents
    BY <1>2, <1>4 DEF Quietly
  <2> QED BY <1>1, <2>1, <2>2, <2>3, ScanUnseen
<1>5. CASE CheckEmpty(t) \/ EnterRootLock(t) \/ EnterPage(t) \/ EnterSibling(t) \/ LatchPage(t)
           \/ ScanBegin(t) \/ ScanNext(t) \/ ScanClose(t)
  <2>1. UNCHANGED <<call, answer>>
    BY <1>5 DEF CheckEmpty, EnterRootLock, EnterPage, EnterSibling, EnterLatch, LatchPage,
                ScanBegin, ScanNext, ScanClose
  <2>2. Contents' = Contents
    BY <1>2, <1>5 DEF Quietly
  <2> QED BY <2>1, <2>2, UnseenStep
<1>6. CASE StartNewTree(t)
  <2>1. /\ pc[t] = "check" /\ Answers(t, "inserted")
    BY <1>6 DEF StartNewTree, At, Reply, Answers
  <2>2. call[t].op = "Insert" /\ answer[t] = Pending
    BY <1>1, <2>1 DEF PointOf, Answered
  <2>3. Gains(k, v)
    BY <1>6, StartEffect
  <2> QED BY <1>1, <2>1, <2>2, <2>3, InsertIsOne
<1>7. CASE IsEmpty(t)
  <2>1. pc[t] = "empty" /\ call' = call
    BY <1>7 DEF IsEmpty, At
  <2>2. Contents' = Contents
    BY <1>2, <1>7 DEF Quietly
  <2>3. CASE root_page_id = INVALID_PAGE_ID
    <3>1. Answers(t, "removed")
      BY <1>7, <2>1, <2>3 DEF IsEmpty, Reply, Answers
    <3>2. call[t].op = "Remove" /\ answer[t] = Pending
      BY <1>1, <2>1 DEF PointOf, Answered
    <3>3. DOMAIN Contents = {}
      BY <2>3, EmptyMap DEF MapOK
    <3>4. DOMAIN Contents \ {k} = DOMAIN Contents /\ Contents = [j \in DOMAIN Contents |-> Contents[j]]
      BY <3>3 DEF MapOK
    <3>5. Loses(k)
      BY <2>2, <3>4 DEF Loses
    <3> QED BY <1>1, <3>1, <3>2, <3>5, RemoveIsOne
  <2>4. CASE root_page_id # INVALID_PAGE_ID
    <3>1. answer' = answer
      BY <1>7, <2>4 DEF IsEmpty
    <3> QED BY <2>1, <2>2, <3>1, UnseenStep
  <2> QED BY <2>3, <2>4
<1>8. CASE FindRoot(t)
  <2>1. pc[t] = "root" /\ call' = call
    BY <1>8 DEF FindRoot, At
  <2>2. Contents' = Contents
    BY <1>2, <1>8 DEF Quietly
  <2>3. CASE root_page_id = INVALID_PAGE_ID /\ ~Exclusive(t)
    <3>1. Answers(t, NotFound)
      BY <1>8, <2>1, <2>3 DEF FindRoot, Reply, Answers
    <3>2. answer[t] = Pending /\ (call[t].op = "Find" \/ call[t].op = "Scan")
      BY <1>1, <2>1, <2>3, TreeAssumption DEF PointOf, Answered, Calls, ScanCalls, Exclusive
    <3>3. CASE call[t].op = "Find"
      <4>1. k \notin DOMAIN Contents
        BY <2>3, EmptyMap DEF MapOK
      <4> QED BY <1>1, <2>2, <3>1, <3>2, <3>3, <4>1, FindIsOne
    <3>4. CASE call[t].op = "Scan"
      <4>1. IndexCall' = IndexCall /\ IndexAnswer' = IndexAnswer
        BY <1>1, <3>1, <3>4, IndexAnswers
      <4> QED BY <2>2, <4>1 DEF AsIndex, Unseen
    <3> QED BY <3>2, <3>3, <3>4
  <2>4. CASE ~(root_page_id = INVALID_PAGE_ID /\ ~Exclusive(t))
    <3>1. answer' = answer
      BY <1>8, <2>4 DEF FindRoot
    <3> QED BY <2>1, <2>2, <3>1, UnseenStep
  <2> QED BY <2>3, <2>4
<1>9. CASE GetValue(t)
  <2>. PICK p : p = target[t]
    OBVIOUS
  <2>. PICK a : a = IF Has(node[p], k) THEN node[p].array[KeyIndex(node[p], k)].second ELSE NotFound
    OBVIOUS
  <2>1. pc[t] = "leaf" /\ call[t].op = "Find" /\ Answers(t, a)
    BY <1>9 DEF GetValue, At, Reply, Answers
  <2>2. Contents' = Contents
    BY <1>2, <1>9 DEF Quietly
  <2>3. answer[t] = Pending
    BY <2>1 DEF Answered
  <2>4. a = IF k \in DOMAIN Contents THEN Contents[k] ELSE NotFound
    BY <2>1, FoundInLeaf
  <2> QED BY <1>1, <2>1, <2>2, <2>3, <2>4, FindIsOne
<1>10. CASE InsertIntoLeaf(t)
  <2>. PICK p : p = target[t]
    OBVIOUS
  <2>1. pc[t] = "leaf" /\ call[t].op = "Insert" /\ call' = call
    BY <1>10 DEF InsertIntoLeaf, At
  <2>2. answer[t] = Pending
    BY <2>1 DEF Answered
  <2>3. CASE Has(node[p], k)
    <3>1. Answers(t, "duplicate") /\ node' = node
      BY <1>10, <2>1, <2>3 DEF InsertIntoLeaf, Reply, Answers
    <3>2. k \in DOMAIN Contents
      BY <2>1, <2>3, FoundInLeaf
    <3>3. Contents' = Contents
      BY <3>1 DEF Contents, Size
    <3> QED BY <1>1, <2>1, <2>2, <3>1, <3>2, <3>3, InsertIsOne
  <2>4. CASE ~Has(node[p], k)
    <3>1. Answers(t, "inserted")
      BY <1>10, <2>1, <2>4 DEF InsertIntoLeaf, Reply, Answers
    <3>2. Gains(k, v)
      BY <1>10, <2>4, InsertEffect
    <3> QED BY <1>1, <2>1, <2>2, <3>1, <3>2, InsertIsOne
  <2> QED BY <2>3, <2>4
<1>11. CASE RemoveFromLeaf(t)
  <2>1. pc[t] = "leaf" /\ call[t].op = "Remove" /\ Answers(t, "removed")
    BY <1>11 DEF RemoveFromLeaf, At, Reply, Answers
  <2>2. answer[t] = Pending
    BY <2>1 DEF Answered
  <2>3. Loses(k)
    BY <1>11, RemoveEffect
  <2> QED BY <1>1, <2>1, <2>2, <2>3, RemoveIsOne
<1>12. CASE SplitNode(t) \/ GrowRoot(t) \/ InsertIntoParent(t) \/ AdjustRoot(t) \/ CoalesceOrRedistribute(t)
  <2>1. UNCHANGED <<call, answer>>
    BY <1>12 DEF SplitNode, GrowRoot, InsertIntoParent, AdjustRoot, CoalesceOrRedistribute
  <2>2. Contents' = Contents
    BY <1>12, SplitEffect, GrowEffect, HookEffect, AdjustEffect, CoalesceEffect
  <2> QED BY <2>1, <2>2, UnseenStep
<1>13. CASE ScanLeaf(t)
  <2>1. pc[t] = "scan"
    BY <1>13 DEF ScanLeaf, At
  <2>2. call[t].op = "Scan" /\ call[t] \in ScanCalls
    BY <1>1, <2>1 DEF PointOf, Calls
  <2>3. call'[t].op = "Scan"
    BY <1>1, <1>13, <2>2 DEF ScanLeaf, ScanCalls, TypeOK
  <2>4. Contents' = Contents
    BY <1>2, <1>13 DEF Quietly
  <2> QED BY <1>1, <2>2, <2>3, <2>4, ScanUnseen
<1>14. CASE FreePages(t)
  <2>1. Contents' = Contents
    BY <1>14, FreeEffect
  <2>2. CASE call[t].op = "Scan"
    <3>1. call'[t] = NoCall /\ answer'[t] = Pending
      BY <1>1, <1>14 DEF FreePages, TypeOK
    <3> QED BY <1>1, <2>1, <2>2, <3>1, ScanUnseen
  <2>3. CASE call[t].op # "Scan"
    BY <1>14, <2>1, <2>3, ReturnIsOne
  <2> QED BY <2>2, <2>3
<1> QED BY <1>3, <1>4, <1>5, <1>6, <1>7, <1>8, <1>9, <1>10, <1>11, <1>12, <1>13, <1>14 DEF Acts, Step

-----------------------------------------------------------------------------
(* The tree implements the index. *)

AllAnswered == \A t \in Threads : Answered(t)

\* A good tree is a map: no key is in two leaves, or twice in one.
LEMMA MapAlways ==
  GoodTree => MapOK
BY ContentsAre DEF GoodTree

\* A good tree has its types.
LEMMA TypeAlways ==
  GoodTree => TypeOK
BY DEF GoodTree, Good

\* At first no call is being made, and the index is empty.
LEMMA InitAnswered ==
  ASSUME Init
  PROVE  AllAnswered /\ Index!Init
<1>1. AllAnswered
  BY DEF Init, NoCalls, AllAnswered, Answered
<1>2. Contents = [k \in {} |-> NotFound]
  BY DEF Init, EmptyTree, Contents
<1>3. call = [t \in Threads |-> NoCall] /\ answer = [t \in Threads |-> Pending] /\ NoCall.op # "Scan"
  BY DEF Init, NoCalls, NoCall
<1>4. Index!Init
  BY <1>2, <1>3 DEF Index!Init
<1> QED BY <1>1, <1>4

\* Every step is one of the index, or none.
LEMMA NextIsIndex ==
  GoodTree /\ GoodTree' /\ MapOK' /\ TypeOK' /\ AllAnswered /\ [Next]_vars
    => AllAnswered' /\ [Index!Next]_(Index!vars)
<1>. SUFFICES ASSUME GoodTree, MapOK', TypeOK', AllAnswered, [Next]_vars
              PROVE  AllAnswered' /\ [Index!Next]_(Index!vars)
  OBVIOUS
<1>1. PICK g \in Ghosts : Good(g)
  BY DEF GoodTree
<1>2. CASE UNCHANGED vars
  <2>1. UNCHANGED <<node, pc, call, answer>>
    BY <1>2 DEF vars, treeVars
  <2>2. AllAnswered'
    BY <2>1 DEF AllAnswered, Answered
  <2>3. Contents' = Contents
    BY <2>1 DEF Contents, Size
  <2>4. AsIndex
    BY <2>1, <2>3, UnseenStep
  <2> QED BY <2>2, <2>4, IndexStep
<1>3. CASE Next
  <2>1. PICK t \in Threads : Acts(t)
    BY <1>3 DEF Next, Acts
  <2>2. Local(t) /\ Answered(t) /\ MapOK
    BY <1>1, <2>1, StepsLocal, ContentsAre DEF Good, AllAnswered
  <2>3. AllAnswered'
    BY <1>1, <2>1, <2>2, AnsweredOwn, AnsweredOthers DEF AllAnswered
  <2>4. AsIndex
    BY <1>1, <2>1, <2>2, StepIsOne
  <2> QED BY <2>3, <2>4, IndexStep
<1> QED BY <1>2, <1>3

\* Every call on the tree acts at one instant, on the map that its leaves make up, through
\* any splits, merges and redistributions of other threads.
THEOREM TreeImplementsMap == Spec => ImplementsIndexMap
<1>1. Init => AllAnswered /\ Index!Init
  BY InitAnswered
<1>2. Spec => [](GoodTree /\ MapOK /\ TypeOK)
  BY TreeGood, MapAlways, TypeAlways, PTL
<1>3. AllAnswered /\ (GoodTree /\ MapOK /\ TypeOK) /\ (GoodTree /\ MapOK /\ TypeOK)' /\ [Next]_vars
        => AllAnswered' /\ [Index!Next]_(Index!vars)
  BY NextIsIndex
<1> QED BY <1>1, <1>2, <1>3, PTL DEF Spec, ImplementsIndexMap, Index!Spec


\* So they do from any good tree on, however it came about, in which no call is half done.
THEOREM TreeActsAsMap == GoodTree /\ AllAnswered /\ [][Next]_vars => ActsAsIndexMap
<1>1. GoodTree /\ [Next]_vars => GoodTree'
  BY NextGood
<1>2. GoodTree /\ AllAnswered /\ [Next]_vars /\ GoodTree' /\ MapOK' /\ TypeOK'
        => AllAnswered' /\ [Index!Next]_(Index!vars)
  BY NextIsIndex
<1> QED BY <1>1, <1>2, MapAlways, TypeAlways, PTL DEF ActsAsIndexMap

-----------------------------------------------------------------------------
(* Scans. *)

Increasing(s) == \A i, j \in 1 .. Len(s) : i < j => s[i] < s[j]
Among(s, k) == \E i \in 1 .. Len(s) : s[i] = k

\* The scan c has gone through all that it owes below b, and through nothing else.
Caught(c, b) ==
  /\ c.key < b
  /\ \A k : Among(c.seen, k) => k < b
  /\ \A k \in c.owed : k < b => Among(c.seen, k)

\* What a scan has gone through: keys that are there, in order, up to the start of its leaf,
\* or nothing in the leaf that has its low key.
ScanOK(g, t) ==
  call[t].op = "Scan" =>
    /\ Increasing(call[t].seen)
    /\ \A k : Among(call[t].seen, k) => k \in Present
    /\ \A k \in call[t].owed : k \in Present /\ call[t].key <= k
    /\ pc[t] \in {"root", "latch", "leaf"} => call[t].seen = <<>>
    /\ pc[t] = "scan" => \/ call[t].seen = <<>> /\ InRange(g, t, target[t])
                         \/ Caught(call[t], g[target[t]].lo)
    /\ pc[t] = "walk" => Caught(call[t], g[target[t]].lo)
    /\ pc[t] = "free" /\ answer[t] # Pending => \A k \in call[t].owed : Among(call[t].seen, k)

\* The keys of the index are numbers below Top.
LEMMA PresentKeys ==
  ASSUME NEW g \in Ghosts, Good(g), MapOK, NEW k \in Present
  PROVE  k \in Keys /\ k \in Nat /\ k < Top
<1>1. PICK v : Maps(k, v)
  BY DEF MapOK, Present
<1>2. k \in Keys
  BY <1>1, OneValue
<1> QED BY <1>2, TopAbove

\* A key of the index is in the leaf whose interval it is in.
LEMMA PresentInLeaf ==
  ASSUME NEW g \in Ghosts, Good(g), MapOK, NEW k \in Present,
         NEW p \in Live, node[p].leaf, g[p].lo <= k, k < g[p].hi
  PROVE  \E i \in 1 .. Size(node[p]) : node[p].array[i].first = k
<1>1. PICK v : Maps(k, v)
  BY DEF MapOK, Present
<1>2. PICK q \in DOMAIN node : node[q].leaf /\ \E i \in 1 .. Size(node[q]) : node[q].array[i].first = k
  BY <1>1 DEF Maps
<1>3. PICK i \in 1 .. Size(node[q]) : node[q].array[i].first = k
  BY <1>2
<1>4. p = q
  BY <1>2, <1>3, KeyInLeaf
<1> QED BY <1>3, <1>4

\* So is every key of a leaf in the index.
LEMMA LeafPresent ==
  ASSUME MapOK, NEW p \in DOMAIN node, node[p].leaf, NEW i \in 1 .. Size(node[p])
  PROVE  node[p].array[i].first \in Present
<1>1. Maps(node[p].array[i].first, node[p].array[i].second)
  BY DEF Maps
<1> QED BY <1>1 DEF MapOK, Present

\* The keys r of n from the x-th on.
Taken(r, n, x) ==
  /\ Len(r) = Size(n) - x + 1
  /\ \A i \in 1 .. Len(r) : r[i] = n.array[x + i - 1].first

\* What is taken are the keys of the leaf from there on, in order.
LEMMA TakenIs ==
  ASSUME NEW n, Size(n) \in Nat, Sorted(n, 1), NEW x \in 1 .. Size(n) + 1, NEW r, Taken(r, n, x)
  PROVE  /\ Increasing(r)
         /\ \A k : Among(r, k) => \E j \in 1 .. Size(n) : n.array[j].first = k
         /\ \A j \in 1 .. Size(n) : j >= x => Among(r, n.array[j].first)
<1>. PICK m : m = Len(r)
  OBVIOUS
<1>1. m = Size(n) - x + 1 /\ m \in Nat /\ \A i \in 1 .. m : r[i] = n.array[x + i - 1].first
  BY DEF Taken
<1>2. \A i \in 1 .. m : x + i - 1 \in 1 .. Size(n) /\ x + i - 1 >= x
  BY <1>1
<1>3. ASSUME NEW i \in 1 .. m, NEW j \in 1 .. m, i < j PROVE r[i] < r[j]
  <2>1. x + i - 1 < x + j - 1
    BY <1>3
  <2>2. n.array[x + i - 1].first < n.array[x + j - 1].first
    BY <1>2, <2>1 DEF Sorted
  <2> QED BY <1>1, <2>2
<1>4. ASSUME NEW j \in 1 .. Size(n), j >= x PROVE Among(r, n.array[j].first)
  <2>. PICK i : i = j - x + 1
    OBVIOUS
  <2>1. i \in 1 .. m /\ x + i - 1 = j
    BY <1>1, <1>4
  <2>2. r[i] = n.array[j].first
    BY <1>1, <2>1
  <2> QED BY <2>1, <2>2 DEF Among
<1>5. ASSUME NEW k, Among(r, k) PROVE \E j \in 1 .. Size(n) : n.array[j].first = k
  <2>1. PICK i \in 1 .. m : r[i] = k
    BY <1>5 DEF Among
  <2> QED BY <1>1, <1>2, <2>1
<1> QED BY <1>1, <1>3, <1>4, <1>5 DEF Increasing

\* Two rising sequences, the second above the first, make one.
LEMMA JoinedRises ==
  ASSUME NEW s, NEW r, NEW z, Len(s) \in Nat, Len(r) \in Nat, Joined(z, s, r),
         Increasing(s), Increasing(r), \A j, k : Among(s, j) /\ Among(r, k) => j < k
  PROVE  /\ Increasing(z)
         /\ \A k : Among(z, k) <=> Among(s, k) \/ Among(r, k)
<1>. PICK a, b : a = Len(s) /\ b = Len(r)
  OBVIOUS
<1>1. /\ Len(z) = a + b /\ a \in Nat /\ b \in Nat
      /\ \A i \in 1 .. a : z[i] = s[i]
      /\ \A i \in 1 .. b : z[a + i] = r[i]
  BY DEF Joined
<1>2. ASSUME NEW i \in 1 .. a + b, i > a PROVE \E j \in 1 .. b : i = a + j /\ z[i] = r[j]
  <2>1. i - a \in 1 .. b /\ a + (i - a) = i
    BY <1>1, <1>2
  <2> QED BY <1>1, <2>1
<1>3. \A i \in 1 .. a + b : i <= a => i \in 1 .. a
  BY <1>1
<1>4. \A k : Among(z, k) <=> Among(s, k) \/ Among(r, k)
  <2>1. ASSUME NEW k, Among(z, k) PROVE Among(s, k) \/ Among(r, k)
    <3>1. PICK i \in 1 .. a + b : z[i] = k
      BY <1>1, <2>1 DEF Among
    <3>2. CASE i <= a
      BY <1>1, <1>3, <3>1, <3>2 DEF Among
    <3>3. CASE i > a
      <4>1. PICK j \in 1 .. b : z[i] = r[j]
        BY <1>2, <3>3
      <4> QED BY <3>1, <4>1 DEF Among
    <3> QED BY <1>1, <3>2, <3>3
  <2>2. ASSUME NEW k, Among(s, k) PROVE Among(z, k)
    <3>1. PICK i \in 1 .. a : s[i] = k
      BY <2>2 DEF Among
    <3>2. i \in 1 .. a + b
      BY <1>1
    <3> QED BY <1>1, <3>1, <3>2 DEF Among
  <2>3. ASSUME NEW k, Among(r, k) PROVE Among(z, k)
    <3>1. PICK i \in 1 .. b : r[i] = k
      BY <2>3 DEF Among
    <3>2. a + i \in 1 .. a + b
      BY <1>1
    <3> QED BY <1>1, <3>1, <3>2 DEF Among
  <2> QED BY <2>1, <2>2, <2>3
<1>5. ASSUME NEW i \in 1 .. a + b, NEW j \in 1 .. a + b, i < j PROVE z[i] < z[j]
  <2>1. CASE j <= a
    <3>1. i \in 1 .. a /\ j \in 1 .. a
      BY <1>1, <1>5, <2>1
    <3> QED BY <1>1, <1>5, <3>1 DEF Increasing
  <2>2. CASE i <= a /\ j > a
    <3>1. Among(s, z[i])
      BY <1>1, <1>3, <2>2 DEF Among
    <3>2. Among(r, z[j])
      BY <1>2, <2>2 DEF Among
    <3> QED BY <3>1, <3>2
  <2>3. CASE i > a
    <3>1. PICK k \in 1 .. b : i = a + k /\ z[i] = r[k]
      BY <1>2, <2>3
    <3>2. j > a
      BY <1>1, <1>5, <2>3
    <3>3. PICK l \in 1 .. b : j = a + l /\ z[j] = r[l]
      BY <1>2, <3>2
    <3>4. k < l
      BY <1>1, <1>5, <3>1, <3>3
    <3> QED BY <3>1, <3>3, <3>4 DEF Increasing
  <2>4. j <= a \/ (i <= a /\ j > a) \/ i > a
    BY <1>1
  <2> QED BY <2>1, <2>2, <2>3, <2>4
<1> QED BY <1>1, <1>4, <1>5 DEF Increasing


\* A scan that is at leaf p has gone through what there is below p, or is there to begin.
ScanAt(g, c, p) ==
  \/ c.seen = <<>> /\ g[p].lo <= c.key /\ c.key < g[p].hi
  \/ Caught(c, g[p].lo)

\* Once it has gone through the leaf it has caught what there is below the next one.
LEMMA ScanTakes ==
  ASSUME NEW g \in Ghosts, Good(g), MapOK, NEW p \in Live, node[p].leaf,
         NEW c, c \in ScanCalls, Increasing(c.seen), \A k : Among(c.seen, k) => k \in Present,
         \A k \in c.owed : k \in Present /\ c.key <= k, ScanAt(g, c, p),
         NEW x, x = (IF c.seen = <<>> THEN KeyIndex(node[p], c.key) ELSE 1),
         NEW r, Taken(r, node[p], x), Len(r) \in Nat,
         NEW d, d.key = c.key, d.owed = c.owed, Joined(d.seen, c.seen, r)
  PROVE  /\ Increasing(d.seen)
         /\ \A k : Among(d.seen, k) => k \in Present
         /\ Caught(d, g[p].hi)
<1>. PICK n, s, lo, hi : n = node[p] /\ s = c.seen /\ lo = g[p].lo /\ hi = g[p].hi
  OBVIOUS
<1>1. /\ p \in DOMAIN node /\ LeafEntries(g, p) /\ Size(n) \in Nat
      /\ lo \in Nat /\ hi \in Nat /\ lo < hi
  BY NodeFacts, GhostFacts DEF Good, TreeOK, PageOK, Placed, Live
<1>2. Sorted(n, 1)
  BY <1>1, TopAbove DEF LeafEntries, Sorted
<1>3. /\ c.key \in Nat /\ s \in Seq(Nat) /\ Len(s) \in Nat
  BY DEF ScanCalls
<1>4. /\ x \in 1 .. Size(n) + 1
      /\ \A j \in 1 .. Size(n) : c.key <= n.array[j].first => j >= x
  <2>1. CASE s = <<>>
    <3>1. KeyIndex(n, c.key) \in 1 .. Size(n) + 1
          /\ \A j \in 1 .. Size(n) : n.array[j].first < c.key <=> j < KeyIndex(n, c.key)
      BY <1>1, <1>2, <1>3, KeyIndexIs
    <3>2. \A j \in 1 .. Size(n) : n.array[j].first \in Nat
      BY <1>2 DEF Sorted
    <3> QED BY <1>3, <2>1, <3>1, <3>2
  <2>2. CASE s # <<>>
    BY <1>1, <2>2
  <2> QED BY <2>1, <2>2
<1>5. /\ Increasing(r)
      /\ \A k : Among(r, k) => \E j \in 1 .. Size(n) : n.array[j].first = k
      /\ \A j \in 1 .. Size(n) : j >= x => Among(r, n.array[j].first)
  <2>1. Taken(r, n, x)
    OBVIOUS
  <2>2. x \in 1 .. Size(n) + 1 /\ Size(n) \in Nat
    BY <1>1, <1>4
  <2>3. Increasing(r)
    BY <1>2, <2>1, <2>2, TakenIs
  <2>4. \A k : Among(r, k) => \E j \in 1 .. Size(n) : n.array[j].first = k
    BY <1>2, <2>1, <2>2, TakenIs
  <2>5. \A j \in 1 .. Size(n) : j >= x => Among(r, n.array[j].first)
    BY <1>2, <2>1, <2>2, TakenIs
  <2> QED BY Zenon, <2>3, <2>4, <2>5
<1>6. ASSUME NEW k, Among(r, k) PROVE k \in Present /\ k \in Nat /\ lo <= k /\ k < hi
  <2>1. PICK j \in 1 .. Size(n) : k = n.array[j].first
    BY <1>5, <1>6
  <2>2. k \in Present
    BY <1>1, <2>1, LeafPresent
  <2> QED BY <1>1, <2>1, <2>2, TopAbove DEF LeafEntries
<1>7. ASSUME NEW k, Among(s, k) PROVE k \in Nat /\ k < lo
  <2>1. k \in Nat
    BY <1>7, PresentKeys
  <2>2. s # <<>>
    BY <1>7 DEF Among
  <2> QED BY <1>7, <2>1, <2>2 DEF ScanAt, Caught
<1>8. \A j, k : Among(s, j) /\ Among(r, k) => j < k
  <2>1. ASSUME NEW j, NEW k, Among(s, j), Among(r, k) PROVE j < k
    <3>1. j \in Nat /\ k \in Nat /\ j < lo /\ lo <= k
      BY <1>6, <1>7, <2>1
    <3> QED BY <1>1, <3>1
  <2> QED BY <2>1
<1>9. /\ Increasing(d.seen)
      /\ \A k : Among(d.seen, k) <=> Among(s, k) \/ Among(r, k)
  BY Zenon, <1>3, <1>5, <1>8, JoinedRises
<1>10. \A k : Among(d.seen, k) => k \in Present
  BY <1>6, <1>9
<1>11. ASSUME NEW k, Among(d.seen, k) PROVE k < hi
  <2>1. CASE Among(s, k)
    <3>1. k \in Nat /\ k < lo
      BY <1>7, <2>1
    <3> QED BY <1>1, <3>1
  <2>2. CASE Among(r, k)
    BY <1>6, <2>2
  <2> QED BY <1>9, <1>11, <2>1, <2>2
<1>12. ASSUME NEW k \in c.owed, k < hi PROVE Among(d.seen, k)
  <2>1. k \in Present /\ k \in Nat /\ c.key <= k
    BY PresentKeys
  <2>2. CASE k < lo
    <3>1. Caught(c, lo)
      BY <1>1, <1>3, <2>1, <2>2 DEF ScanAt
    <3>2. Among(s, k)
      BY <2>2, <3>1 DEF Caught
    <3> QED BY <1>9, <3>2
  <2>3. CASE lo <= k
    <3>1. PICK j \in 1 .. Size(n) : n.array[j].first = k
      BY <1>12, <2>1, <2>3, PresentInLeaf
    <3>2. Among(r, k)
      BY <1>4, <1>5, <2>1, <3>1
    <3> QED BY <1>9, <3>2
  <2> QED BY <1>1, <2>1, <2>2, <2>3
<1>13. c.key < hi
  BY <1>1, <1>3 DEF ScanAt, Caught
<1> QED BY <1>9, <1>10, <1>11, <1>12, <1>13 DEF Caught

\* The caller goes through a leaf (ScanLeaf).
LEMMA ScanLeafScans ==
  ASSUME NEW g \in Ghosts, Good(g), MapOK, NEW t \in Threads, ScanLeaf(t), ScanOK(g, t)
  PROVE  ScanOK(g, t)'
<1>. PICK p, n, c, d, r : /\ p = target[t] /\ n = node[p] /\ c = call[t] /\ d = call'[t]
                          /\ r = KeysFrom(t, n)
  OBVIOUS
<1>. PICK x : x = IF c.seen = <<>> THEN KeyIndex(n, c.key) ELSE 1
  OBVIOUS
<1>1. /\ pc[t] = "scan" /\ PointOf(t) /\ TypeOK /\ InLeaf(g, t)
      /\ call' = [call EXCEPT ![t].seen = @ \o r] /\ node' = node
  BY DEF ScanLeaf, At, Good, ThreadOK, treeVars
<1>2. p \in Live /\ p \in DOMAIN node /\ n.leaf /\ c \in ScanCalls /\ c.op = "Scan"
  <2>1. p \in pages[t] /\ p \notin doomed[t] /\ n.leaf /\ c.op = "Scan"
    BY <1>1 DEF InLeaf, PointOf, Exclusive
  <2>2. p \in Live
    BY <2>1, LiveMine
  <2>3. c \in ScanCalls
    BY <1>1, <2>1 DEF PointOf, Calls
  <2> QED BY <2>1, <2>2, <2>3 DEF Live
<1>3. /\ Size(n) \in Nat /\ LeafEntries(g, p) /\ NextLeaf(g, p)
  BY <1>2, NodeFacts DEF Good, TreeOK, PageOK
<1>4. x \in 1 .. Size(n) + 1
  <2>1. Sorted(n, 1) /\ c.key \in Nat
    BY <1>2, <1>3, TopAbove DEF Sorted, LeafEntries, ScanCalls
  <2>2. KeyIndex(n, c.key) \in 1 .. Size(n) + 1
    BY <1>3, <2>1, KeyIndexIs
  <2> QED BY <1>3, <2>2
<1>5. Taken(r, n, x) /\ Len(r) \in Nat /\ r \in Seq(Nat)
  <2>. PICK m : m = Size(n) - x + 1
    OBVIOUS
  <2>1. r = [i \in 1 .. m |-> n.array[x + i - 1].first]
    BY DEF KeysFrom
  <2>2. m \in Nat /\ \A i \in 1 .. m : x + i - 1 \in 1 .. Size(n)
    BY <1>3, <1>4
  <2>3. \A i \in 1 .. m : n.array[x + i - 1].first \in Nat
    BY <1>2, <1>3, <2>2, TopAbove DEF LeafEntries
  <2>4. r \in [1 .. m -> Nat]
    BY Zenon, <2>1, <2>3
  <2>5. r \in Seq(Nat) /\ Len(r) = m
    BY <2>2, <2>4, SeqDef
  <2> QED BY <2>1, <2>2, <2>5 DEF Taken
<1>6. /\ d.op = "Scan" /\ d.key = c.key /\ d.owed = c.owed /\ Joined(d.seen, c.seen, r)
  <2>1. d = [c EXCEPT !.seen = @ \o r]
    BY <1>1 DEF TypeOK
  <2>2. c.seen \in Seq(Nat)
    BY <1>2 DEF ScanCalls
  <2>3. Joined(c.seen \o r, c.seen, r)
    BY <1>5, <2>2, JoinedIs
  <2>4. d.op = "Scan" /\ d.key = c.key /\ d.owed = c.owed /\ d.seen = c.seen \o r
    BY <1>2, <2>1 DEF ScanCalls
  <2> QED BY <2>3, <2>4
<1>7. ScanAt(g, c, p)
  BY <1>1, <1>2 DEF ScanOK, ScanAt, InRange
<1>8. /\ Increasing(d.seen)
      /\ \A k : Among(d.seen, k) => k \in Present
      /\ Caught(d, g[p].hi)
      /\ \A k \in c.owed : k \in Present /\ c.key <= k
  <2>1. /\ Increasing(c.seen) /\ \A k : Among(c.seen, k) => k \in Present
        /\ \A k \in c.owed : k \in Present /\ c.key <= k
    BY <1>2 DEF ScanOK
  <2> QED BY Zenon, <1>2, <1>5, <1>6, <1>7, <2>1, ScanTakes
<1>9. Present' = Present
  BY <1>1 DEF Present, Contents, Size
<1>10. CASE n.next = INVALID_PAGE_ID
  <2>1. pc'[t] = "free"
    BY <1>1, <1>10 DEF ScanLeaf, GoTo, TypeOK
  <2>2. g[p].hi = Top
    BY <1>3, <1>10 DEF NextLeaf
  <2>3. \A k \in d.owed : Among(d.seen, k)
    BY <1>6, <1>8, <2>2, PresentKeys DEF Caught
  <2> QED BY <1>6, <1>8, <1>9, <2>1, <2>3 DEF ScanOK
<1>11. CASE n.next # INVALID_PAGE_ID
  <2>1. pc'[t] = "walk" /\ target'[t] = n.next
    BY <1>1, <1>11 DEF ScanLeaf, GoTo, TypeOK
  <2>2. g[n.next].lo = g[p].hi
    BY <1>3, <1>11 DEF NextLeaf
  <2> QED BY <1>6, <1>8, <1>9, <2>1, <2>2 DEF ScanOK
<1> QED BY <1>10, <1>11


\* A step of t that removes no key, and moves no bound that the scan of u goes by, leaves that
\* scan as it is.
LEMMA ScanOthers ==
  ASSUME NEW t \in Threads, NEW u \in Threads \ {t}, Local(t), NEW g, NEW h, ScanOK(g, u),
         \A k : k \in Present => k \in Present',
         pc[u] = "scan" => h[target[u]] = g[target[u]],
         pc[u] = "walk" => h[target[u]].lo = g[target[u]].lo
  PROVE  ScanOK(h, u)'
<1>1. /\ pc'[u] = pc[u] /\ call'[u] = call[u] /\ target'[u] = target[u] /\ answer'[u] = answer[u]
  BY DEF Local
<1>. PICK c : c = call[u]
  OBVIOUS
<1>2. CASE c.op # "Scan"
  BY <1>1, <1>2 DEF ScanOK
<1>3. CASE c.op = "Scan"
  <2>1. /\ Increasing(c.seen)
        /\ \A k : Among(c.seen, k) => k \in Present'
        /\ \A k \in c.owed : k \in Present' /\ c.key <= k
    BY <1>3 DEF ScanOK
  <2>2. pc[u] \in {"root", "latch", "leaf"} => c.seen = <<>>
    BY <1>3 DEF ScanOK
  <2>3. pc[u] = "scan" => \/ c.seen = <<>> /\ InRange(h, u, target[u])'
                          \/ Caught(c, h[target[u]].lo)
    BY <1>1, <1>3 DEF ScanOK, InRange
  <2>4. pc[u] = "walk" => Caught(c, h[target[u]].lo)
    BY <1>3 DEF ScanOK
  <2>5. pc[u] = "free" /\ answer[u] # Pending => \A k \in c.owed : Among(c.seen, k)
    BY <1>3 DEF ScanOK
  <2> QED BY <1>1, <2>1, <2>2, <2>3, <2>4, <2>5 DEF ScanOK, InRange
<1> QED BY <1>2, <1>3

\* The steps of a scan that leave the tree alone.
LEMMA ScanQuietly ==
  ASSUME NEW g \in Ghosts, Good(g), MapOK, NEW t \in Threads, Quietly(t), Answered(t), ScanOK(g, t)
  PROVE  ScanOK(g, t)'
<1>. PICK c : c = call[t]
  OBVIOUS
<1>1. TypeOK /\ PointOf(t) /\ InLeaf(g, t)
  BY DEF Good, ThreadOK
<1>2. node' = node /\ Present' = Present
  BY QuietSame DEF Present, Contents, Size
<1>3. CASE Call(t)
  <2>1. call'[t] \in Calls
    BY <1>1, <1>3 DEF Call, TypeOK
  <2>2. call'[t].op # "Scan"
    BY <2>1 DEF Calls
  <2> QED BY <2>2 DEF ScanOK
<1>4. CASE CallScan(t)
  <2>1. PICK low \in {0} \cup (Keys \cap Present) :
          call' = [call EXCEPT ![t] = [op |-> "Scan", key |-> low, seen |-> <<>>,
                                       owed |-> {k \in Present : k >= low}]]
    BY <1>4 DEF CallScan
  <2>2. /\ call'[t].key = low /\ call'[t].seen = <<>> /\ call'[t].owed = {k \in Present : k >= low}
    BY <1>1, <2>1 DEF TypeOK
  <2>3. pc'[t] = "root"
    BY <1>1, <1>4 DEF CallScan, GoTo, TypeOK
  <2>4. low \in Nat /\ Present \subseteq Nat
    BY <1>1, PresentNat, TopAbove
  <2>5. \A k \in call'[t].owed : k \in Present' /\ call'[t].key <= k
    BY <1>2, <2>2, <2>4
  <2>6. Increasing(call'[t].seen) /\ \A k : ~Among(call'[t].seen, k)
    BY <2>2 DEF Increasing, Among
  <2> QED BY <2>2, <2>3, <2>5, <2>6 DEF ScanOK
<1>5. CASE CheckEmpty(t) \/ IsEmpty(t) \/ GetValue(t) \/ EnterRootLock(t) \/ EnterPage(t) \/ EnterSibling(t)
  <2>1. call' = call /\ c.op # "Scan"
    BY <1>1, <1>5 DEF CheckEmpty, IsEmpty, GetValue, EnterRootLock, EnterPage, EnterSibling, EnterLatch,
                      At, PointOf, Exclusive
  <2> QED BY <2>1 DEF ScanOK
<1>6. CASE c.op # "Scan" /\ (FindRoot(t) \/ LatchPage(t))
  <2>1. call' = call
    BY <1>6 DEF FindRoot, LatchPage
  <2> QED BY <1>6, <2>1 DEF ScanOK
<1>7. CASE c.op = "Scan" /\ (FindRoot(t) \/ LatchPage(t))
  <2>1. call' = call /\ c.seen = <<>>
    BY <1>7 DEF FindRoot, LatchPage, At, ScanOK
  <2>2. pc'[t] \in {"latch", "leaf"} \/ (pc'[t] = "free" /\ root_page_id = INVALID_PAGE_ID)
    BY <1>1, <1>7 DEF FindRoot, LatchPage, At, GoTo, TypeOK, Exclusive
  <2>3. root_page_id = INVALID_PAGE_ID => Present = {}
    BY EmptyMap DEF MapOK, Present
  <2>4. /\ Increasing(c.seen)
        /\ \A k : Among(c.seen, k) => k \in Present
        /\ \A k \in c.owed : k \in Present /\ c.key <= k
    BY <1>7 DEF ScanOK
  <2> QED BY <1>2, <2>1, <2>2, <2>3, <2>4 DEF ScanOK
<1>8. CASE ScanBegin(t) \/ ScanNext(t) \/ ScanClose(t)
  <2>1. call' = call /\ target' = target /\ answer' = answer /\ c.op = "Scan"
    BY <1>1, <1>8 DEF ScanBegin, ScanNext, ScanClose, At, PointOf
  <2>2. \/ pc[t] = "leaf" /\ pc'[t] = "scan"
        \/ pc[t] = "walk" /\ pc'[t] = "scan"
        \/ pc[t] = "scan" /\ pc'[t] = "free"
    BY <1>1, <1>8 DEF ScanBegin, ScanNext, ScanClose, At, GoTo, TypeOK
  <2>3. /\ Increasing(c.seen)
        /\ \A k : Among(c.seen, k) => k \in Present
        /\ \A k \in c.owed : k \in Present /\ c.key <= k
    BY <2>1 DEF ScanOK
  <2>4. CASE pc[t] = "leaf" /\ pc'[t] = "scan"
    <3>1. c.seen = <<>> /\ InRange(g, t, target[t])
      BY <1>1, <2>1, <2>4 DEF ScanOK, InLeaf
    <3> QED BY <1>2, <2>1, <2>3, <2>4, <3>1 DEF ScanOK, InRange
  <2>5. CASE pc[t] = "walk" /\ pc'[t] = "scan"
    <3>1. Caught(c, g[target[t]].lo)
      BY <2>1, <2>5 DEF ScanOK
    <3> QED BY <1>2, <2>1, <2>3, <2>5, <3>1 DEF ScanOK
  <2>6. CASE pc[t] = "scan" /\ pc'[t] = "free"
    <3>1. answer'[t] = Pending
      BY <2>1, <2>6 DEF Answered
    <3> QED BY <1>2, <2>1, <2>3, <2>6, <3>1 DEF ScanOK
  <2> QED BY <2>2, <2>4, <2>5, <2>6
<1>9. CASE ScanLeaf(t)
  BY <1>9, ScanLeafScans
<1> QED BY <1>3, <1>4, <1>5, <1>6, <1>7, <1>8, <1>9 DEF Quietly


\* The frame of an insertion keeps the bounds that the scans go by.
LEMMA FrameScans ==
  ASSUME NEW g \in Ghosts, NEW h \in Ghosts, Good(g), NEW t \in Threads, Acts(t), Apart(t), Frame(t, g, h),
         call[t].op # "Remove", \A k : k \in Present => k \in Present',
         NEW u \in Threads \ {t}, ScanOK(g, u)
  PROVE  ScanOK(h, u)'
<1>. PICK p : p = target[u]
  OBVIOUS
<1>1. Local(t) /\ PointOf(u) /\ InLeaf(g, u) /\ Walks(u)
  BY StepsLocal DEF Good, ThreadOK
<1>2. pc[u] = "scan" => h[p] = g[p]
  <2>1. pc[u] = "scan" => p \in pages[u] /\ p \in DOMAIN node
    BY <1>1 DEF InLeaf, PointOf
  <2> QED BY <2>1, HeldKept
<1>3. pc[u] = "walk" => h[p].lo = g[p].lo
  BY <1>1 DEF Walks, Frame
<1> QED BY <1>1, <1>2, <1>3, ScanOthers

\* The steps that add pages keep to those of their thread.
LEMMA GrowsApart ==
  ASSUME NEW g \in Ghosts, Good(g), NEW t \in Threads,
         StartNewTree(t) \/ SplitNode(t) \/ GrowRoot(t) \/ InsertIntoParent(t)
  PROVE  Apart(t) /\ call[t].op = "Insert" /\ call' = call
<1>1. TypeOK /\ PointOf(t)
  BY DEF Good, ThreadOK
<1>2. call[t].op = "Insert" /\ call' = call
  BY <1>1 DEF StartNewTree, SplitNode, GrowRoot, InsertIntoParent, At, PointOf
<1>3. \A p \in pages'[t] \ pages[t] : p \in PageIds /\ p \notin DOMAIN node
  <2>1. CASE SplitNode(t)
    <3>1. pages' = [pages EXCEPT ![t] = @ \cup {NewPageId}] /\ CanAllocate
      BY <2>1 DEF SplitNode
    <3>2. NewPageId \in PageIds /\ NewPageId \notin DOMAIN node
      BY <1>1, <3>1, NewPageIs DEF TypeOK
    <3> QED BY <1>1, <3>1, <3>2 DEF TypeOK
  <2>2. CASE StartNewTree(t) \/ GrowRoot(t) \/ InsertIntoParent(t)
    BY <2>2 DEF StartNewTree, GrowRoot, InsertIntoParent
  <2> QED BY <2>1, <2>2
<1> QED BY <1>2, <1>3, ApartIs

\* An insertion removes no key.
LEMMA InsertsPresent ==
  ASSUME NEW g \in Ghosts, Good(g), MapOK, MapOK', NEW t \in Threads,
         StartNewTree(t) \/ InsertIntoLeaf(t) \/ SplitNode(t) \/ GrowRoot(t) \/ InsertIntoParent(t)
  PROVE  \A k : k \in Present => k \in Present'
<1>. PICK p, x, v : p = target[t] /\ x = call[t].key /\ v = call[t].value
  OBVIOUS
<1>1. ASSUME Gains(x, v) PROVE \A k : k \in Present => k \in Present'
  <2>1. DOMAIN Contents' = DOMAIN Contents \cup {x}
    BY <1>1 DEF Gains
  <2> QED BY <2>1 DEF Present
<1>2. ASSUME Contents' = Contents PROVE \A k : k \in Present => k \in Present'
  BY <1>2 DEF Present
<1>3. CASE StartNewTree(t)
  BY <1>1, <1>3, StartEffect
<1>4. CASE InsertIntoLeaf(t) /\ ~Has(node[p], x)
  BY <1>1, <1>4, InsertEffect
<1>5. CASE InsertIntoLeaf(t) /\ Has(node[p], x)
  <2>1. node' = node
    BY <1>5 DEF InsertIntoLeaf
  <2>2. Contents' = Contents
    BY <2>1 DEF Contents, Size
  <2> QED BY <1>2, <2>2
<1>6. CASE SplitNode(t) \/ GrowRoot(t) \/ InsertIntoParent(t)
  BY <1>2, <1>6, SplitEffect, GrowEffect, HookEffect
<1> QED BY <1>3, <1>4, <1>5, <1>6

\* What keeps the scans in order: bounds that fit both the tree and its scans.
GoodScans == \E g \in Ghosts : Good(g) /\ \A t \in Threads : ScanOK(g, t)

\* No step of a call that only an insertion or a removal makes is one of a scan.
LEMMA NoScan ==
  ASSUME NEW h, NEW t \in Threads, call'[t].op # "Scan"
  PROVE  ScanOK(h, t)'
BY DEF ScanOK

\* Every action keeps them.
LEMMA ActScans ==
  ASSUME NEW g \in Ghosts, Good(g), \A u \in Threads : ScanOK(g, u), AllAnswered,
         NEW t \in Threads, Acts(t), MapOK', GoodTree'
  PROVE  GoodScans'
<1>1. TypeOK /\ PointOf(t) /\ Local(t) /\ MapOK /\ ScansAlone /\ Answered(t) /\ ScanOK(g, t)
  BY StepsLocal, ContentsAre DEF Good, ThreadOK, AllAnswered
<1>2. ASSUME Good(g)', ScanOK(g, t)', \A k : k \in Present => k \in Present'
      PROVE  GoodScans'
  <2>1. \A u \in Threads \ {t} : ScanOK(g, u)'
    BY <1>1, <1>2, ScanOthers
  <2>2. \A u \in Threads : ScanOK(g, u)'
    BY <1>2, <2>1
  <2> QED BY <1>2, <2>2 DEF GoodScans
<1>3. CASE Quietly(t)
  <2>1. Good(g)'
    BY <1>3, CallKeeps, CheckKeeps, FindRootKeeps, LatchPageKeeps, LeafKeeps, EnterKeeps, ScanLeafKeeps,
       ScanNextKeeps DEF Quietly
  <2>2. ScanOK(g, t)'
    BY <1>1, <1>3, ScanQuietly
  <2>3. Present' = Present
    BY <1>3, QuietSame DEF Present, Contents, Size
  <2> QED BY <1>2, <2>1, <2>2, <2>3
<1>4. CASE FreePages(t)
  <2>1. Good(g)'
    BY <1>4, FreePagesKeeps
  <2>2. call'[t].op # "Scan"
    BY <1>1, <1>4 DEF FreePages, TypeOK, NoCall
  <2>3. Present' = Present
    BY <1>1, <1>4, FreeEffect DEF Present
  <2> QED BY <1>2, <2>1, <2>2, <2>3, NoScan
<1>5. CASE InsertIntoLeaf(t)
  <2>1. Good(g)'
    BY <1>5, InsertIntoLeafKeeps
  <2>2. call'[t].op # "Scan"
    BY <1>5 DEF InsertIntoLeaf
  <2>3. \A k : k \in Present => k \in Present'
    BY <1>1, <1>5, InsertsPresent
  <2> QED BY <1>2, <2>1, <2>2, <2>3, NoScan
<1>6. CASE StartNewTree(t) \/ SplitNode(t) \/ GrowRoot(t) \/ InsertIntoParent(t)
  <2>1. PICK h \in Ghosts : Good(h)' /\ Frame(t, g, h)
    BY <1>6, StartNewTreeKeeps, SplitNodeKeeps, GrowRootKeeps, InsertIntoParentKeeps
  <2>2. Apart(t) /\ call[t].op = "Insert" /\ call'[t].op # "Scan"
    BY <1>6, GrowsApart
  <2>3. \A k : k \in Present => k \in Present'
    BY <1>1, <1>6, InsertsPresent
  <2>4. \A u \in Threads \ {t} : ScanOK(h, u)'
    BY <2>1, <2>2, <2>3, FrameScans
  <2>5. ScanOK(h, t)'
    BY <2>2, NoScan
  <2>6. \A u \in Threads : ScanOK(h, u)'
    BY <2>4, <2>5
  <2> QED BY <2>1, <2>6 DEF GoodScans
<1>7. CASE RemoveFromLeaf(t) \/ AdjustRoot(t) \/ CoalesceOrRedistribute(t)
  <2>1. call[t].op = "Remove" /\ call' = call
    BY <1>1, <1>7 DEF RemoveFromLeaf, AdjustRoot, CoalesceOrRedistribute, At, PointOf
  <2>2. \A u \in Threads : call'[u].op # "Scan"
    BY <1>1, <2>1 DEF ScansAlone
  <2>3. PICK h \in Ghosts : Good(h)'
    BY DEF GoodTree
  <2>4. \A u \in Threads : ScanOK(h, u)'
    BY <2>2, NoScan
  <2> QED BY <2>3, <2>4 DEF GoodScans
<1> QED BY <1>3, <1>4, <1>5, <1>6, <1>7 DEF Acts, Step, Quietly

\* So does a step that changes nothing.
LEMMA NextScans ==
  GoodScans /\ AllAnswered /\ [Next]_vars /\ MapOK' /\ GoodTree' => GoodScans'
<1>. SUFFICES ASSUME GoodScans, AllAnswered, [Next]_vars, MapOK', GoodTree'
              PROVE  GoodScans'
  OBVIOUS
<1>1. PICK g \in Ghosts : Good(g) /\ \A t \in Threads : ScanOK(g, t)
  BY DEF GoodScans
<1>2. CASE UNCHANGED vars
  <2>1. UNCHANGED <<node, pc, call, answer, target>>
    BY <1>2 DEF vars, treeVars
  <2>2. Present' = Present
    BY <2>1 DEF Present, Contents, Size
  <2>3. \A t \in Threads : ScanOK(g, t)'
    BY <1>1, <2>1, <2>2 DEF ScanOK, InRange
  <2>4. Good(g)'
    BY <1>1, <1>2, StutterGood
  <2> QED BY <2>3, <2>4 DEF GoodScans
<1>3. CASE Next
  <2>1. PICK t \in Threads : Acts(t)
    BY <1>3 DEF Next, Acts
  <2> QED BY <1>1, <2>1, ActScans
<1> QED BY <1>2, <1>3

\* At first there is no scan.
LEMMA InitScans ==
  ASSUME Init, GoodTree
  PROVE  GoodScans
<1>1. PICK g \in Ghosts : Good(g)
  BY DEF GoodTree
<1>2. \A t \in Threads : call[t].op # "Scan"
  BY DEF Init, NoCalls, NoCall
<1> QED BY <1>1, <1>2 DEF GoodScans, ScanOK

\* What the invariant says of a scan that has run to the end.
LEMMA ScansAre ==
  GoodScans => ScansInOrder
<1>. SUFFICES ASSUME NEW g \in Ghosts, Good(g), \A t \in Threads : ScanOK(g, t)
              PROVE  ScansInOrder
  BY DEF GoodScans
<1>. SUFFICES ASSUME NEW t \in Threads, pc[t] = "free", call[t].op = "Scan", answer[t] # Pending,
                     NEW s, s = call[t].seen
              PROVE  /\ \A i, j \in DOMAIN s : i < j => s[i] < s[j]
                     /\ call[t].owed \subseteq ToSet(s)
                     /\ ToSet(s) \subseteq Present
  BY DEF ScansInOrder
<1>1. call[t] \in ScanCalls
  BY DEF Good, ThreadOK, PointOf, Calls
<1>2. s \in Seq(Nat) /\ DOMAIN s = 1 .. Len(s)
  BY <1>1 DEF ScanCalls
<1>3. ToSet(s) = {k \in Nat : Among(s, k)}
  BY <1>2 DEF ToSet, Among
<1>4. \A k : Among(s, k) => k \in Nat
  BY <1>2 DEF Among
<1>5. ScanOK(g, t)
  OBVIOUS
<1>6. Increasing(s) /\ (\A k : Among(s, k) => k \in Present) /\ \A k \in call[t].owed : Among(s, k)
  BY <1>5 DEF ScanOK
<1> QED BY <1>2, <1>3, <1>4, <1>6 DEF Increasing

\* A scan goes through the keys in order and once each, all that were there when it began and
\* none that is not there, whatever leaves the insertions beside it split
\* (IndexIterator::operator++).
THEOREM TreeScansInOrder == Spec => []ScansInOrder
<1>1. Init => AllAnswered
  BY InitAnswered
<1>2. Init => GoodScans
  BY InitGood, InitScans
<1>3. Spec => [](GoodTree /\ MapOK /\ TypeOK)
  BY TreeGood, MapAlways, TypeAlways, PTL
<1>4. GoodTree /\ GoodTree' /\ MapOK' /\ TypeOK' /\ AllAnswered /\ [Next]_vars => AllAnswered'
  BY NextIsIndex
<1>5. GoodScans /\ AllAnswered /\ [Next]_vars /\ MapOK' /\ GoodTree' => GoodScans'
  BY NextScans
<1> QED BY <1>1, <1>2, <1>3, <1>4, <1>5, ScansAre, PTL DEF Spec

=============================================================================
