--------------------------- MODULE BufferPoolProofs ---------------------------
(***************************************************************************)
(* Proofs about BufferPool, for every pool size, set of handles and data:  *)
(* its structural invariants, that a clean page is the page of the file,   *)
(* and that the pool implements the page store, provided that callers      *)
(* unpin new pages dirty, as every caller in the repository does.          *)
(***************************************************************************)
EXTENDS BufferPoolStore, SequenceTheorems, FiniteSetTheorems, TLAPS

(***************************************************************************)
(* What the operations do to a list without duplicates.                    *)
(***************************************************************************)

\* What is taken out of a list by its position: Tail removes the first element.
LEMMA TailElements ==
  ASSUME NEW S, NEW s \in Seq(S), s # <<>>, NoDuplicates(s)
  PROVE  /\ Tail(s) \in Seq(S)
         /\ Head(s) \in S
         /\ NoDuplicates(Tail(s))
         /\ Elements(Tail(s)) = Elements(s) \ {Head(s)}
         /\ Head(s) \in Elements(s)
<1>1. Len(s) \in Nat \ {0} /\ Head(s) = s[1]
  OBVIOUS
<1>2. /\ Tail(s) \in Seq(S)
      /\ Len(Tail(s)) = Len(s) - 1
      /\ \A i \in 1 .. Len(s) - 1 : Tail(s)[i] = s[i + 1]
  OBVIOUS
<1>3. NoDuplicates(Tail(s))
  BY <1>1, <1>2 DEF NoDuplicates
<1>4. Elements(Tail(s)) \subseteq Elements(s) \ {Head(s)}
  BY <1>1, <1>2 DEF Elements, NoDuplicates
<1>5. Elements(s) \ {Head(s)} \subseteq Elements(Tail(s))
  <2>1. SUFFICES ASSUME NEW i \in 1 .. Len(s), i # 1
                 PROVE  s[i] \in Elements(Tail(s))
    BY <1>1 DEF Elements
  <2>2. i - 1 \in 1 .. Len(Tail(s)) /\ Tail(s)[i - 1] = s[i]
    BY <1>1, <1>2, <2>1
  <2> QED BY <2>2 DEF Elements
<1>6. Head(s) \in Elements(s) /\ Head(s) \in S
  BY <1>1 DEF Elements
<1> QED BY <1>2, <1>3, <1>4, <1>5, <1>6

\* The replacer's victim is its last element.
LEMMA FrontElements ==
  ASSUME NEW S, NEW s \in Seq(S), s # <<>>, NoDuplicates(s)
  PROVE  /\ WithoutVictim(s) \in Seq(S)
         /\ VictimOf(s) \in S
         /\ NoDuplicates(WithoutVictim(s))
         /\ Elements(WithoutVictim(s)) = Elements(s) \ {VictimOf(s)}
         /\ VictimOf(s) \in Elements(s)
<1> DEFINE n == Len(s) - 1
           t == SubSeq(s, 1, n)
<1>1. Len(s) \in Nat \ {0}
  OBVIOUS
<1>2. /\ t \in Seq(S)
      /\ Len(t) = Len(s) - 1
      /\ \A i \in 1 .. Len(s) - 1 : t[i] = s[i]
  <2>1. n \in Nat /\ \A i \in 1 .. n : s[i] \in S
    BY <1>1
  <2> HIDE DEF n
  <2>2. 1 \in Int /\ n \in Int
    BY <2>1
  <2>3. /\ t \in Seq(S)
        /\ Len(t) = IF 1 <= n THEN n - 1 + 1 ELSE 0
        /\ \A i \in 1 .. n - 1 + 1 : t[i] = s[1 + i - 1]
    BY <2>1, <2>2, SubSeqProperties
  <2> HIDE DEF t
  <2>4. Len(t) = n
    BY <2>1, <2>3
  <2>5. \A i \in 1 .. n : t[i] = s[i]
    BY <2>1, <2>3
  <2> QED BY <2>3, <2>4, <2>5 DEF n
<1> HIDE DEF t
<1>3. NoDuplicates(t)
  BY <1>1, <1>2 DEF NoDuplicates
<1>4. Elements(t) \subseteq Elements(s) \ {s[Len(s)]}
  BY <1>1, <1>2 DEF Elements, NoDuplicates
<1>5. Elements(s) \ {s[Len(s)]} \subseteq Elements(t)
  BY <1>1, <1>2 DEF Elements
<1>6. s[Len(s)] \in Elements(s) /\ s[Len(s)] \in S
  BY <1>1 DEF Elements
<1> QED BY <1>2, <1>3, <1>4, <1>5, <1>6 DEF t, VictimOf, WithoutVictim

\* LRUReplacer::Erase removes exactly the value it is given.
LEMMA EraseElements ==
  ASSUME NEW S, NEW s \in Seq(S), NoDuplicates(s), NEW f
  PROVE  /\ Erase(s, f) \in Seq(S)
         /\ NoDuplicates(Erase(s, f))
         /\ Elements(Erase(s, f)) = Elements(s) \ {f}
<1>1. CASE f \notin Elements(s)
  BY <1>1 DEF Erase
<1>2. CASE f \in Elements(s)
  <2> DEFINE k == CHOOSE i \in 1 .. Len(s) : s[i] = f
             t == [i \in 1 .. Len(s) - 1 |-> IF i < k THEN s[i] ELSE s[i + 1]]
  <2>1. k \in 1 .. Len(s) /\ s[k] = f
    BY <1>2 DEF Elements
  <2>2. Erase(s, f) = t
    BY <1>2 DEF Erase
  <2>3. Len(s) \in Nat \ {0}
    BY <2>1
  <2> HIDE DEF k
  <2>4. \A i \in 1 .. Len(s) - 1 : t[i] \in S
    BY <2>1, <2>3
  <2>5. t \in Seq(S) /\ Len(t) = Len(s) - 1
    BY <2>3, <2>4
  <2>6. \A i \in 1 .. Len(t) : t[i] = IF i < k THEN s[i] ELSE s[i + 1]
    BY <2>5
  <2> HIDE DEF t
  <2>7. NoDuplicates(t)
    <3> DEFINE at(i) == IF i < k THEN i ELSE i + 1
    <3>1. \A i \in 1 .. Len(t) : at(i) \in 1 .. Len(s) /\ t[i] = s[at(i)]
      BY <2>1, <2>3, <2>5, <2>6
    <3>2. \A i, j \in 1 .. Len(t) : at(i) = at(j) => i = j
      BY <2>1, <2>3, <2>5
    <3> HIDE DEF at
    <3> QED BY <3>1, <3>2 DEF NoDuplicates
  <2>8. Elements(t) \subseteq Elements(s) \ {f}
    <3>1. SUFFICES ASSUME NEW i \in 1 .. Len(t)
                   PROVE  t[i] \in Elements(s) \ {f}
      BY DEF Elements
    <3>2. \E j \in 1 .. Len(s) : j # k /\ t[i] = s[j]
      <4>1. CASE i < k
        BY <2>1, <2>3, <2>5, <2>6, <4>1
      <4>2. CASE ~(i < k)
        <5>1. i + 1 \in 1 .. Len(s) /\ i + 1 # k /\ t[i] = s[i + 1]
          BY <2>1, <2>3, <2>5, <2>6, <4>2
        <5> QED BY <5>1
      <4> QED BY <4>1, <4>2
    <3> QED BY <2>1, <3>2 DEF Elements, NoDuplicates
  <2>9. Elements(s) \ {f} \subseteq Elements(t)
    <3>1. SUFFICES ASSUME NEW i \in 1 .. Len(s), i # k
                   PROVE  s[i] \in Elements(t)
      BY <2>1 DEF Elements
    <3>2. CASE i < k
      BY <2>1, <2>3, <2>5, <2>6, <3>2 DEF Elements
    <3>3. CASE i > k
      <4>1. i - 1 \in 1 .. Len(t) /\ t[i - 1] = s[i]
        BY <2>1, <2>3, <2>5, <2>6, <3>3
      <4> QED BY <4>1 DEF Elements
    <3> QED BY <2>1, <3>1, <3>2, <3>3
  <2> QED BY <2>2, <2>5, <2>7, <2>8, <2>9
<1> QED BY <1>1, <1>2

\* LRUReplacer::Insert puts the value in front and leaves the others.
LEMMA InsertFrontElements ==
  ASSUME NEW S, NEW s \in Seq(S), NoDuplicates(s), NEW f \in S
  PROVE  /\ InsertFront(s, f) \in Seq(S)
         /\ NoDuplicates(InsertFront(s, f))
         /\ Elements(InsertFront(s, f)) = Elements(s) \cup {f}
<1> DEFINE e == Erase(s, f)
           t == <<f>> \o e
<1>1. e \in Seq(S) /\ NoDuplicates(e) /\ Elements(e) = Elements(s) \ {f}
  BY EraseElements
<1> HIDE DEF e
<1>2. /\ t \in Seq(S)
      /\ Len(t) = Len(e) + 1
      /\ t[1] = f
      /\ \A i \in 2 .. Len(e) + 1 : t[i] = e[i - 1]
      /\ Len(e) \in Nat
  BY <1>1
<1> HIDE DEF t
<1>3. NoDuplicates(t)
  <2>1. \A i \in 1 .. Len(e) : e[i] # f
    BY <1>1 DEF Elements
  <2>2. SUFFICES ASSUME NEW i \in 1 .. Len(t), NEW j \in 1 .. Len(t), t[i] = t[j], i < j
                 PROVE  FALSE
    BY <1>2 DEF NoDuplicates
  <2>3. j - 1 \in 1 .. Len(e) /\ t[j] = e[j - 1]
    BY <1>2, <2>2
  <2>4. CASE i = 1
    BY <1>2, <2>1, <2>2, <2>3, <2>4
  <2>5. CASE i # 1
    <3>1. i - 1 \in 1 .. Len(e) /\ t[i] = e[i - 1]
      BY <1>2, <2>2, <2>5
    <3> QED BY <1>1, <1>2, <2>2, <2>3, <3>1, SMTT(30) DEF NoDuplicates
  <2> QED BY <2>4, <2>5
<1>4. Elements(t) \subseteq Elements(e) \cup {f}
  BY <1>2, SMTT(30) DEF Elements
<1>5. \A i \in 1 .. Len(e) : i + 1 \in 1 .. Len(t) /\ t[i + 1] = e[i]
  BY <1>2
<1>6. Elements(e) \cup {f} \subseteq Elements(t)
  <2>1. f \in Elements(t)
    BY <1>2 DEF Elements
  <2>2. ASSUME NEW i \in 1 .. Len(e)
        PROVE  e[i] \in Elements(t)
    BY <1>5 DEF Elements
  <2> QED BY <2>1, <2>2 DEF Elements
<1> QED BY <1>1, <1>2, <1>3, <1>4, <1>6 DEF InsertFront, t, e

\* DeletePage puts the frame at the end of the free list.
LEMMA AppendElements ==
  ASSUME NEW S, NEW s \in Seq(S), NoDuplicates(s), NEW f \in S, f \notin Elements(s)
  PROVE  /\ Append(s, f) \in Seq(S)
         /\ NoDuplicates(Append(s, f))
         /\ Elements(Append(s, f)) = Elements(s) \cup {f}
<1> DEFINE t == Append(s, f)
<1>1. /\ t \in Seq(S)
      /\ Len(t) = Len(s) + 1
      /\ t[Len(s) + 1] = f
      /\ \A i \in 1 .. Len(s) : t[i] = s[i]
      /\ Len(s) \in Nat
  OBVIOUS
<1> HIDE DEF t
<1>2. NoDuplicates(t)
  BY <1>1 DEF NoDuplicates, Elements
<1>3. Elements(t) = Elements(s) \cup {f}
  BY <1>1 DEF Elements
<1> QED BY <1>1, <1>2, <1>3 DEF t

\* The inductive invariant: the four structural properties need one another.
PoolInv == TypeOK /\ TableMatchesFrames /\ FramePartition /\ PinsMatchHandles

USE DiskAssumption, PoolAssumption DEF INVALID_PAGE_ID, nullptr

(***************************************************************************)
(* The disk.                                                               *)
(***************************************************************************)

\* Every operation of the disk manager yields a disk and page contents.
LEMMA DiskTypes ==
  ASSUME NEW d \in Disk, NEW p \in PageIds, NEW x \in Data
  PROVE  /\ WritePage(d, p, x) \in Disk
         /\ ReadPage(d, p, x) \in Data
         /\ AfterRead(d, p) \in Disk
<1>1. WritePage(d, p, x) \in Disk
  BY DEF WritePage, Disk, PageIds
<1>2. ReadPage(d, p, x) \in Data
  BY DEF ReadPage, Disk, PageIds
<1>3. AfterRead(d, p) \in Disk
  BY DEF AfterRead, Disk
<1> QED BY <1>1, <1>2, <1>3

\* Writing back the victim.
LEMMA WrittenBackType ==
  ASSUME TypeOK, FramePartition, NEW f \in Frames
  PROVE  WrittenBack(f) \in Disk
<1>1. is_dirty[f] => page_id[f] \in PageIds /\ data[f] \in Data
  BY DEF TypeOK, FramePartition
<1> QED BY <1>1, DiskTypes DEF WrittenBack, TypeOK
(***************************************************************************)
(* The shared steps.                                                       *)
(***************************************************************************)

\* The victim is free or evictable, so unpinned; it leaves the list it was in and
\* no other frame moves.
LEMMA VictimFacts ==
  ASSUME TypeOK, FramePartition, NEW f \in Frames, GetVictimPage(f)
  PROVE  /\ pin_count[f] = 0
         /\ free_list' \in Seq(Frames) /\ NoDuplicates(free_list')
         /\ replacer' \in Seq(Frames) /\ NoDuplicates(replacer')
         /\ Elements(free_list') = Elements(free_list) \ {f}
         /\ Elements(replacer') = Elements(replacer) \ {f}
<1>1. /\ free_list \in Seq(Frames) /\ NoDuplicates(free_list)
      /\ replacer \in Seq(Frames) /\ NoDuplicates(replacer)
      /\ \A g \in Frames : ~(g \in Elements(free_list) /\ g \in Elements(replacer))
      /\ \A g \in Frames :
           g \in Elements(free_list) \/ g \in Elements(replacer) => pin_count[g] = 0
  BY DEF TypeOK, FramePartition
<1>2. CASE free_list # <<>> /\ f = Head(free_list) /\ free_list' = Tail(free_list)
             /\ UNCHANGED replacer
  BY <1>1, <1>2, TailElements
<1>3. CASE replacer # <<>> /\ f = VictimOf(replacer)
             /\ replacer' = WithoutVictim(replacer) /\ UNCHANGED free_list
  BY <1>1, <1>3, FrontElements
<1> QED BY <1>2, <1>3 DEF GetVictimPage

\* A page that is not resident has no holder, and neither has an unpinned one.
LEMMA NoHolders ==
  ASSUME PoolInv
  PROVE  /\ \A p \in PageIds : page_table[p] = nullptr => Holders(p) = {}
         /\ \A f \in Frames :
              page_id[f] # -1 /\ pin_count[f] = 0 => Holders(page_id[f]) = {}
         /\ \A h \in Handles :
              held[h] # -1 => page_table[held[h]] = ptr[h] /\ pin_count[ptr[h]] > 0
         /\ \A p : IsFiniteSet(Holders(p))
<1>1. ASSUME NEW p PROVE IsFiniteSet(Holders(p))
  <2>1. Holders(p) \subseteq Handles
    BY DEF Holders
  <2> QED BY <2>1, FS_Subset
<1>2. ASSUME NEW f \in Frames, page_id[f] # -1, pin_count[f] = 0
      PROVE  Holders(page_id[f]) = {}
  <2>1. Cardinality(Holders(page_id[f])) = 0
    BY <1>2 DEF PoolInv, PinsMatchHandles
  <2> QED BY <1>1, <2>1, FS_EmptySet
<1>3. ASSUME NEW h \in Handles, held[h] # -1
      PROVE  page_table[held[h]] = ptr[h] /\ pin_count[ptr[h]] > 0
  <2>1. ptr[h] \in Frames /\ page_id[ptr[h]] = held[h] /\ page_table[held[h]] = ptr[h]
    BY <1>3 DEF PoolInv, PinsMatchHandles, TableMatchesFrames
  <2>2. pin_count[ptr[h]] # 0
    BY <1>2, <1>3, <2>1 DEF Holders
  <2>3. pin_count[ptr[h]] \in Nat
    BY <2>1 DEF PoolInv, TypeOK
  <2> QED BY <2>1, <2>2, <2>3
<1>4. ASSUME NEW p \in PageIds, page_table[p] = nullptr
      PROVE  Holders(p) = {}
  <2>1. p # -1
    BY DEF PageIds
  <2>2. \A h \in Handles : held[h] = p => ptr[h] \in Frames
    BY <2>1 DEF PoolInv, PinsMatchHandles
  <2> QED BY <1>3, <1>4, <2>1, <2>2 DEF Holders, Frames
<1> QED BY <1>1, <1>2, <1>3, <1>4
(***************************************************************************)
(* Every operation preserves PoolInv.                                      *)
(***************************************************************************)

\* FetchPage of an absent page and NewPage: the victim becomes the frame of p.
LEMMA RebindPreserves ==
  ASSUME PoolInv, NEW h \in Handles, NEW p \in PageIds, NEW f \in Frames,
         NEW b \in BOOLEAN,
         page_table[p] = nullptr, Rebind(f, p), Hand(h, p, f, b),
         data' \in [Frames -> Data], disk' \in Disk,
         next_page_id' \in 0 .. MaxPages,
         deleted' \in SUBSET (0 .. next_page_id' - 1),
         \A q \in PageIds : Live(q) => Live(q)',
         Live(p)'
  PROVE  PoolInv'
<1> DEFINE q == page_id[f]
<1>1. TypeOK /\ TableMatchesFrames /\ FramePartition /\ PinsMatchHandles
  BY DEF PoolInv
<1>2. /\ pin_count[f] = 0
      /\ free_list' \in Seq(Frames) /\ NoDuplicates(free_list')
      /\ replacer' \in Seq(Frames) /\ NoDuplicates(replacer')
      /\ Elements(free_list') = Elements(free_list) \ {f}
      /\ Elements(replacer') = Elements(replacer) \ {f}
  BY <1>1, VictimFacts DEF Rebind
<1>3. p # -1 /\ q # p
  BY <1>1 DEF PageIds, TableMatchesFrames, Frames
<1>4. \A r \in PageIds :
        page_table'[r] = IF r = p THEN f ELSE IF r = q THEN nullptr ELSE page_table[r]
  BY <1>1, <1>3 DEF Rebind, TableInsert, TableRemove, TypeOK
<1>5. /\ page_table' \in [PageIds -> Frames \cup {nullptr}]
      /\ page_id' = [page_id EXCEPT ![f] = p]
      /\ pin_count' = [pin_count EXCEPT ![f] = 1]
      /\ is_dirty' = [is_dirty EXCEPT ![f] = FALSE]
      /\ held[h] = -1
      /\ held' = [held EXCEPT ![h] = p]
      /\ ptr' = [ptr EXCEPT ![h] = f]
      /\ owes' = [owes EXCEPT ![h] = b]
  BY <1>1 DEF Rebind, Hand, TableInsert, TableRemove, TypeOK
<1>6. TypeOK'
  BY <1>1, <1>2, <1>5 DEF TypeOK
<1>7. TableMatchesFrames'
  <2>1. ASSUME NEW r \in PageIds, page_table'[r] # nullptr
        PROVE  page_id'[page_table'[r]] = r /\ Live(r)'
    BY <1>1, <1>3, <1>4, <1>5, <2>1 DEF TypeOK, TableMatchesFrames
  <2>2. ASSUME NEW g \in Frames, page_id'[g] # -1
        PROVE  page_table'[page_id'[g]] = g
    <3>1. CASE g = f
      BY <1>1, <1>4, <1>5, <3>1 DEF TypeOK
    <3>2. CASE g # f
      <4>1. page_id'[g] = page_id[g] /\ page_id[g] \in PageIds
        BY <1>1, <1>5, <2>2, <3>2 DEF TypeOK
      <4>2. page_table[page_id[g]] = g /\ page_id[g] # p /\ page_id[g] # q
        BY <1>1, <2>2, <3>2, <4>1 DEF TableMatchesFrames, Frames
      <4> QED BY <1>4, <4>1, <4>2
    <3> QED BY <3>1, <3>2
  <2> QED BY <2>1, <2>2 DEF TableMatchesFrames
<1>8. FramePartition'
  <2>1. ASSUME NEW g \in Frames, g # f
        PROVE  /\ page_id'[g] = page_id[g] /\ pin_count'[g] = pin_count[g]
               /\ is_dirty'[g] = is_dirty[g]
               /\ g \in Elements(free_list') <=> g \in Elements(free_list)
               /\ g \in Elements(replacer') <=> g \in Elements(replacer)
    BY <1>1, <1>2, <1>5, <2>1 DEF TypeOK
  <2>2. /\ page_id'[f] # -1 /\ pin_count'[f] = 1
        /\ f \notin Elements(free_list') /\ f \notin Elements(replacer')
    BY <1>1, <1>2, <1>3, <1>5 DEF TypeOK
  <2> QED BY <1>1, <1>2, <2>1, <2>2 DEF FramePartition
<1>9. PinsMatchHandles'
  <2>1. /\ Holders(p) = {}
        /\ q # -1 => Holders(q) = {}
        /\ \A g \in Handles : held[g] # -1 => ptr[g] # f
    <3>1. Holders(p) = {}
      BY NoHolders
    <3>2. q # -1 => Holders(q) = {}
      BY <1>2, NoHolders
    <3>3. ASSUME NEW g \in Handles, held[g] # -1
          PROVE  ptr[g] # f
      <4>1. pin_count[ptr[g]] > 0
        BY <3>3, NoHolders
      <4> QED BY <1>2, <4>1
    <3> QED BY <3>1, <3>2, <3>3
  <2>2. Holders(p)' = {h}
    BY <1>1, <1>5, <2>1 DEF Holders, TypeOK
  <2>3. Cardinality(Holders(p)') = 1
    BY <2>2, FS_Singleton
  <2>4. ASSUME NEW r \in PageIds, r # p
        PROVE  Holders(r)' = Holders(r)
    BY <1>1, <1>5, <2>4 DEF Holders, TypeOK, PageIds
  <2>5. ASSUME NEW g \in Frames, page_id'[g] # -1
        PROVE  pin_count'[g] = Cardinality(Holders(page_id[g])')
    <3>1. CASE g = f
      BY <1>1, <1>5, <2>3, <3>1 DEF TypeOK
    <3>2. CASE g # f
      <4>1. page_id'[g] = page_id[g] /\ pin_count'[g] = pin_count[g]
        BY <1>1, <1>5, <3>2 DEF TypeOK
      <4>2. page_id[g] \in PageIds /\ page_id[g] # p
        BY <1>1, <2>5, <4>1 DEF TypeOK, TableMatchesFrames, Frames
      <4> QED BY <1>1, <2>4, <2>5, <4>1, <4>2 DEF PinsMatchHandles
    <3> QED BY <3>1, <3>2
  <2>6. ASSUME NEW g \in Handles, held'[g] # -1
        PROVE  ptr'[g] \in Frames /\ page_id'[ptr'[g]] = held'[g]
    BY <1>1, <1>5, <2>1, <2>6 DEF TypeOK, PinsMatchHandles
  <2> QED BY <2>5, <2>6 DEF PinsMatchHandles
<1> QED BY <1>6, <1>7, <1>8, <1>9 DEF PoolInv
\* FetchPage of a resident page: one more pin, and out of the replacer.
LEMMA FetchHitPreserves ==
  ASSUME PoolInv, NEW h \in Handles, NEW p \in PageIds, FetchHit(h, p)
  PROVE  PoolInv'
<1> DEFINE f == page_table[p]
<1>1. TypeOK /\ TableMatchesFrames /\ FramePartition /\ PinsMatchHandles
  BY DEF PoolInv
<1>2. f \in Frames /\ page_id[f] = p /\ p # -1 /\ pin_count[f] \in Nat
  BY <1>1 DEF FetchHit, PinResident, TypeOK, TableMatchesFrames, PageIds
<1>3. /\ pin_count' = [pin_count EXCEPT ![f] = @ + 1]
      /\ held[h] = -1
      /\ held' = [held EXCEPT ![h] = p]
      /\ ptr' = [ptr EXCEPT ![h] = f]
      /\ owes' = [owes EXCEPT ![h] = FALSE]
      /\ replacer' = Erase(replacer, f)
      /\ UNCHANGED <<page_id, is_dirty, data, page_table, free_list, disk,
                    next_page_id, deleted>>
  BY DEF FetchHit, PinResident, Hand
<1> HIDE DEF f
<1>4. /\ replacer' \in Seq(Frames) /\ NoDuplicates(replacer')
      /\ Elements(replacer') = Elements(replacer) \ {f}
  BY <1>1, <1>3, EraseElements DEF TypeOK, FramePartition
<1>5. TypeOK'
  BY <1>1, <1>2, <1>3, <1>4 DEF TypeOK
<1>6. TableMatchesFrames'
  BY <1>1, <1>3 DEF TableMatchesFrames, Live
<1>7. FramePartition'
  BY <1>1, <1>2, <1>3, <1>4 DEF FramePartition, TypeOK
<1>8. PinsMatchHandles'
  <2>1. Holders(p)' = Holders(p) \cup {h} /\ h \notin Holders(p)
    BY <1>1, <1>2, <1>3 DEF Holders, TypeOK
  <2>2. Cardinality(Holders(p)') = Cardinality(Holders(p)) + 1
    <3>1. IsFiniteSet(Holders(p))
      BY NoHolders
    <3> QED BY <2>1, <3>1, FS_AddElement
  <2>3. ASSUME NEW r \in PageIds, r # p
        PROVE  Holders(r)' = Holders(r)
    BY <1>1, <1>3, <2>3 DEF Holders, TypeOK, PageIds
  <2>4. ASSUME NEW g \in Frames, page_id'[g] # -1
        PROVE  pin_count'[g] = Cardinality(Holders(page_id[g])')
    <3>1. CASE g = f
      BY <1>1, <1>2, <1>3, <2>2, <3>1 DEF TypeOK, PinsMatchHandles
    <3>2. CASE g # f
      <4>1. page_id[g] \in PageIds /\ page_id[g] # p /\ pin_count'[g] = pin_count[g]
        BY <1>1, <1>2, <1>3, <2>4, <3>2 DEF TypeOK, TableMatchesFrames, f
      <4> QED BY <1>1, <1>3, <2>3, <2>4, <4>1 DEF PinsMatchHandles
    <3> QED BY <3>1, <3>2
  <2>5. ASSUME NEW g \in Handles, held'[g] # -1
        PROVE  ptr'[g] \in Frames /\ page_id'[ptr'[g]] = held'[g]
    BY <1>1, <1>2, <1>3, <2>5 DEF TypeOK, PinsMatchHandles
  <2>6. \A r : Holders(r)' = {g \in Handles : held'[g] = r}
    BY DEF Holders
  <2> QED BY <1>3, <2>4, <2>5 DEF PinsMatchHandles
<1> QED BY <1>5, <1>6, <1>7, <1>8 DEF PoolInv

\* FetchPage of a page that is not resident.
LEMMA FetchMissPreserves ==
  ASSUME PoolInv, NEW h \in Handles, NEW p \in PageIds, FetchMiss(h, p)
  PROVE  PoolInv'
<1>1. TypeOK /\ FramePartition
  BY DEF PoolInv
<1>2. PICK f \in Frames :
        /\ Rebind(f, p)
        /\ data' = [data EXCEPT ![f] = ReadPage(WrittenBack(f), p, @)]
        /\ disk' = AfterRead(WrittenBack(f), p)
        /\ Hand(h, p, f, FALSE)
  BY DEF FetchMiss, ReadIn
<1>3. WrittenBack(f) \in Disk
  BY <1>1, WrittenBackType
<1>4. disk' \in Disk /\ data' \in [Frames -> Data]
  BY <1>1, <1>2, <1>3, DiskTypes DEF TypeOK
<1>5. /\ page_table[p] = nullptr /\ Live(p)
      /\ next_page_id' = next_page_id /\ deleted' = deleted
  BY DEF FetchMiss, ReadIn
<1>6. /\ next_page_id' \in 0 .. MaxPages /\ \A q : Live(q)' = Live(q)
      /\ deleted' \in SUBSET (0 .. next_page_id' - 1)
  BY <1>1, <1>5 DEF TypeOK, Live
<1> QED BY <1>2, <1>4, <1>5, <1>6, RebindPreserves

\* NewPage: the id was never handed out, so nothing is bound to it.
LEMMA NewPagePreserves ==
  ASSUME PoolInv, NEW h \in Handles, NewPage(h)
  PROVE  PoolInv'
<1>1. TypeOK /\ FramePartition /\ TableMatchesFrames
  BY DEF PoolInv
<1>2. PICK p \in PageIds : p = next_page_id
  BY <1>1 DEF NewPage, TypeOK, PageIds
<1>3. PICK f \in Frames :
        /\ Rebind(f, p)
        /\ disk' = WrittenBack(f)
        /\ data' = [data EXCEPT ![f] = Zero]
        /\ Hand(h, p, f, ~MayUnpinNewClean)
  BY <1>2 DEF NewPage
<1>4. /\ next_page_id' = p + 1 /\ deleted' = deleted
      /\ next_page_id' \in 0 .. MaxPages
      /\ deleted' \in SUBSET (0 .. next_page_id' - 1)
  BY <1>1, <1>2 DEF NewPage, TypeOK, PageIds
<1>5. disk' \in Disk /\ data' \in [Frames -> Data]
  BY <1>1, <1>3, WrittenBackType DEF TypeOK
<1>6. page_table[p] = nullptr
  BY <1>1, <1>2 DEF TableMatchesFrames, Live, PageIds
<1>7. /\ \A q \in PageIds : Live(q) => Live(q)'
      /\ Live(p)'
  BY <1>1, <1>2, <1>4 DEF Live, TypeOK, PageIds
<1>8. PICK b \in BOOLEAN : b = ~MayUnpinNewClean
  OBVIOUS
<1>9. Hand(h, p, f, b)
  BY <1>3, <1>8
<1> QED BY <1>3, <1>4, <1>5, <1>6, <1>7, <1>9, RebindPreserves
\* A caller's write reaches the frame of the page it holds, and nothing else.
LEMMA WriteDataPreserves ==
  ASSUME PoolInv, NEW h \in Handles, NEW x \in Data, WriteData(h, x)
  PROVE  PoolInv'
<1>1. /\ data' = [data EXCEPT ![ptr[h]] = x]
      /\ owes' = [owes EXCEPT ![h] = TRUE]
      /\ UNCHANGED <<page_id, pin_count, is_dirty, page_table, replacer, free_list,
                    disk, next_page_id, deleted, held, ptr>>
  BY DEF WriteData
<1>2. TypeOK'
  BY <1>1 DEF PoolInv, TypeOK
<1>3. TableMatchesFrames'
  BY <1>1 DEF PoolInv, TableMatchesFrames, Live
<1>4. FramePartition'
  BY <1>1 DEF PoolInv, FramePartition
<1>5. PinsMatchHandles'
  BY <1>1 DEF PoolInv, PinsMatchHandles, Holders
<1> QED BY <1>2, <1>3, <1>4, <1>5 DEF PoolInv

\* UnpinPage: one pin less; the last one makes the frame evictable.
LEMMA UnpinPagePreserves ==
  ASSUME PoolInv, NEW h \in Handles, NEW b \in BOOLEAN, UnpinPage(h, b)
  PROVE  PoolInv'
<1> DEFINE p == held[h]
           f == page_table[held[h]]
<1>1. TypeOK /\ TableMatchesFrames /\ FramePartition /\ PinsMatchHandles
  BY DEF PoolInv
<1>2. /\ p \in PageIds /\ p # -1
      /\ f \in Frames /\ page_id[f] = p
      /\ pin_count[f] \in Nat \ {0}
      /\ is_dirty' = [is_dirty EXCEPT ![f] = DirtyAfterUnpin(f, b)]
      /\ pin_count' = [pin_count EXCEPT ![f] = @ - 1]
      /\ replacer' = ReplacerAfterUnpin(f)
      /\ held' = [held EXCEPT ![h] = -1]
      /\ ptr' = [ptr EXCEPT ![h] = -1]
      /\ owes' = [owes EXCEPT ![h] = FALSE]
      /\ UNCHANGED <<page_id, data, page_table, free_list, disk, next_page_id, deleted>>
  BY <1>1 DEF UnpinPage, TypeOK, TableMatchesFrames
<1>3. PICK q \in PageIds, k \in Frames : q = p /\ k = f
  BY <1>2
<1>4. /\ held[h] = q /\ q # -1
      /\ page_id[k] = q /\ page_table[q] = k
      /\ pin_count[k] \in Nat \ {0}
      /\ is_dirty' = [is_dirty EXCEPT ![k] = DirtyAfterUnpin(k, b)]
      /\ pin_count' = [pin_count EXCEPT ![k] = @ - 1]
      /\ replacer' = ReplacerAfterUnpin(k)
  BY <1>2, <1>3
<1> HIDE DEF p, f
<1>5. /\ replacer' \in Seq(Frames) /\ NoDuplicates(replacer')
      /\ Elements(replacer') =
           IF pin_count[k] = 1 THEN Elements(replacer) \cup {k} ELSE Elements(replacer)
  <2>1. replacer \in Seq(Frames) /\ NoDuplicates(replacer)
    BY <1>1 DEF TypeOK, FramePartition
  <2>2. /\ InsertFront(replacer, k) \in Seq(Frames)
        /\ NoDuplicates(InsertFront(replacer, k))
        /\ Elements(InsertFront(replacer, k)) = Elements(replacer) \cup {k}
    BY <2>1, InsertFrontElements
  <2> QED BY <1>4, <2>1, <2>2 DEF ReplacerAfterUnpin
<1>6. TypeOK'
  <2>1. DirtyAfterUnpin(k, b) \in BOOLEAN
    BY <1>1 DEF DirtyAfterUnpin, TypeOK
  <2>2. pin_count' \in [Frames -> Nat]
    <3>1. pin_count \in [Frames -> Nat] /\ pin_count[k] - 1 \in Nat
      BY <1>1, <1>4 DEF TypeOK
    <3> QED BY <1>4, <3>1
  <2>3. is_dirty' \in [Frames -> BOOLEAN]
    BY <1>1, <1>4, <2>1 DEF TypeOK
  <2>4. /\ held' \in [Handles -> PageIds \cup {-1}]
        /\ ptr' \in [Handles -> Frames \cup {-1}]
        /\ owes' \in [Handles -> BOOLEAN]
    BY <1>1, <1>2 DEF TypeOK
  <2> QED BY <1>1, <1>2, <1>5, <2>2, <2>3, <2>4 DEF TypeOK
<1>7. TableMatchesFrames'
  BY <1>1, <1>2 DEF TableMatchesFrames, Live
<1>8. FramePartition'
  BY <1>1, <1>2, <1>4, <1>5 DEF FramePartition, TypeOK
<1>9. PinsMatchHandles'
  <2>1. Holders(q)' = Holders(q) \ {h} /\ h \in Holders(q)
    BY <1>1, <1>2, <1>4 DEF Holders, TypeOK
  <2>2. Cardinality(Holders(q)') = Cardinality(Holders(q)) - 1
    <3>1. IsFiniteSet(Holders(q))
      BY NoHolders
    <3> QED BY <2>1, <3>1, FS_RemoveElement, ZenonT(30)
  <2>3. ASSUME NEW r \in PageIds, r # q
        PROVE  Holders(r)' = Holders(r)
    BY <1>1, <1>2, <1>4, <2>3 DEF Holders, TypeOK, PageIds
  <2>4. ASSUME NEW g \in Frames, page_id'[g] # -1
        PROVE  pin_count'[g] = Cardinality(Holders(page_id[g])')
    <3>1. CASE g = k
      BY <1>1, <1>2, <1>4, <2>2, <3>1 DEF TypeOK, PinsMatchHandles
    <3>2. CASE g # k
      <4>1. page_id[g] \in PageIds /\ page_id[g] # q /\ pin_count'[g] = pin_count[g]
        BY <1>1, <1>2, <1>4, <2>4, <3>2 DEF TypeOK, TableMatchesFrames
      <4> QED BY <1>1, <1>2, <2>3, <2>4, <4>1 DEF PinsMatchHandles
    <3> QED BY <3>1, <3>2
  <2>5. ASSUME NEW g \in Handles, held'[g] # -1
        PROVE  ptr'[g] \in Frames /\ page_id'[ptr'[g]] = held'[g]
    BY <1>1, <1>2, <1>4, <2>5 DEF TypeOK, PinsMatchHandles
  <2> QED BY <1>2, <2>4, <2>5 DEF PinsMatchHandles
<1> QED BY <1>6, <1>7, <1>8, <1>9 DEF PoolInv
\* FlushPage changes a flag and the file only.
LEMMA FlushPagePreserves ==
  ASSUME PoolInv, NEW p \in PageIds, FlushPage(p)
  PROVE  PoolInv'
<1> DEFINE f == page_table[p]
<1>1. TypeOK /\ TableMatchesFrames /\ FramePartition /\ PinsMatchHandles
  BY DEF PoolInv
<1>2. /\ f \in Frames
      /\ disk' = WritePage(disk, p, data[f])
      /\ is_dirty' = [is_dirty EXCEPT ![f] = FALSE]
      /\ UNCHANGED <<page_id, pin_count, data, page_table, replacer, free_list,
                    next_page_id, deleted, held, ptr, owes>>
  BY <1>1 DEF FlushPage, TypeOK, handleVars
<1>3. disk' \in Disk
  <2>1. disk \in Disk /\ data[f] \in Data
    BY <1>1, <1>2 DEF TypeOK
  <2> QED BY <1>2, <2>1, DiskTypes
<1>4. TypeOK'
  BY <1>1, <1>2, <1>3 DEF TypeOK
<1>5. TableMatchesFrames'
  BY <1>1, <1>2 DEF TableMatchesFrames, Live
<1>6. FramePartition'
  BY <1>1, <1>2 DEF FramePartition, TypeOK
<1>7. PinsMatchHandles'
  BY <1>1, <1>2 DEF PinsMatchHandles, Holders
<1> QED BY <1>4, <1>5, <1>6, <1>7 DEF PoolInv

\* DeletePage of a resident page: the frame leaves the replacer for the free list.
LEMMA DeleteResidentPreserves ==
  ASSUME PoolInv, NEW p \in PageIds, DeleteResident(p)
  PROVE  PoolInv'
<1> DEFINE f == page_table[p]
<1>1. TypeOK /\ TableMatchesFrames /\ FramePartition /\ PinsMatchHandles
  BY DEF PoolInv
<1>2. /\ f \in Frames /\ page_id[f] = p /\ p # -1 /\ Live(p)
      /\ pin_count[f] = 0
      /\ replacer' = Erase(replacer, f)
      /\ page_table' = TableRemove(page_table, p)
      /\ is_dirty' = [is_dirty EXCEPT ![f] = FALSE]
      /\ data' = [data EXCEPT ![f] = Zero]
      /\ page_id' = [page_id EXCEPT ![f] = -1]
      /\ free_list' = Append(free_list, f)
      /\ deleted' = deleted \cup {p}
      /\ UNCHANGED <<pin_count, disk, next_page_id, held, ptr, owes>>
  BY <1>1 DEF DeleteResident, TypeOK, TableMatchesFrames, PageIds, handleVars
<1>3. PICK k \in Frames : k = f
  BY <1>2
<1> HIDE DEF f
<1>4. page_table' \in [PageIds -> Frames \cup {nullptr}]
      /\ \A r \in PageIds : page_table'[r] = IF r = p THEN nullptr ELSE page_table[r]
  BY <1>1, <1>2 DEF TableRemove, TypeOK
<1>5. /\ replacer' \in Seq(Frames) /\ NoDuplicates(replacer')
      /\ Elements(replacer') = Elements(replacer) \ {k}
  BY <1>1, <1>2, <1>3, EraseElements DEF TypeOK, FramePartition
<1>6. /\ free_list' \in Seq(Frames) /\ NoDuplicates(free_list')
      /\ Elements(free_list') = Elements(free_list) \cup {k}
  <2>1. k \notin Elements(free_list) /\ free_list \in Seq(Frames) /\ NoDuplicates(free_list)
    BY <1>1, <1>2, <1>3 DEF TypeOK, FramePartition
  <2> QED BY <1>2, <1>3, <2>1, AppendElements
<1>7. TypeOK'
  <2>1. p \in 0 .. next_page_id - 1
    BY <1>1, <1>2 DEF Live, TypeOK, PageIds
  <2> QED BY <1>1, <1>2, <1>3, <1>4, <1>5, <1>6, <2>1 DEF TypeOK
<1>8. TableMatchesFrames'
  <2>1. ASSUME NEW r \in PageIds, page_table'[r] # nullptr
        PROVE  page_id'[page_table'[r]] = r /\ Live(r)'
    BY <1>1, <1>2, <1>3, <1>4, <2>1 DEF TypeOK, TableMatchesFrames, Live
  <2>2. ASSUME NEW g \in Frames, page_id'[g] # -1
        PROVE  page_table'[page_id'[g]] = g
    <3>1. g # k /\ page_id'[g] = page_id[g] /\ page_id[g] \in PageIds
      BY <1>1, <1>2, <1>3, <2>2 DEF TypeOK
    <3>2. page_table[page_id[g]] = g
      BY <1>1, <2>2, <3>1 DEF TableMatchesFrames
    <3>3. page_id[g] # p
      BY <1>3, <3>1, <3>2 DEF f
    <3> QED BY <1>4, <3>1, <3>2, <3>3
  <2> QED BY <2>1, <2>2 DEF TableMatchesFrames
<1>9. FramePartition'
  BY <1>1, <1>2, <1>3, <1>5, <1>6 DEF FramePartition, TypeOK
<1>10. PinsMatchHandles'
  <2>1. Holders(p) = {}
    BY <1>2, NoHolders
  <2>2. ASSUME NEW g \in Handles, held'[g] # -1
        PROVE  ptr'[g] \in Frames /\ page_id'[ptr'[g]] = held'[g]
    <3>1. held[g] # p /\ ptr[g] \in Frames /\ page_id[ptr[g]] = held[g]
      BY <1>1, <1>2, <2>1, <2>2 DEF Holders, PinsMatchHandles
    <3> QED BY <1>1, <1>2, <3>1 DEF TypeOK
  <2>3. ASSUME NEW g \in Frames, page_id'[g] # -1
        PROVE  pin_count'[g] = Cardinality(Holders(page_id[g])) /\ page_id'[g] = page_id[g]
    BY <1>1, <1>2, <1>3, <2>3 DEF TypeOK, PinsMatchHandles
  <2>4. \A r : Holders(r)' = Holders(r)
    BY <1>2 DEF Holders
  <2> QED BY <2>2, <2>3, <2>4 DEF PinsMatchHandles
<1> QED BY <1>7, <1>8, <1>9, <1>10 DEF PoolInv

\* DeletePage of a page that is not resident.
LEMMA DeleteAbsentPreserves ==
  ASSUME PoolInv, NEW p \in PageIds, DeleteAbsent(p)
  PROVE  PoolInv'
<1>1. /\ p < next_page_id /\ page_table[p] = nullptr /\ deleted' = deleted \cup {p}
      /\ UNCHANGED <<page_id, pin_count, is_dirty, data, page_table, replacer,
                    free_list, disk, next_page_id, held, ptr, owes>>
  BY DEF DeleteAbsent, poolVars, handleVars
<1>2. TypeOK'
  BY <1>1 DEF PoolInv, TypeOK, PageIds
<1>3. TableMatchesFrames'
  BY <1>1 DEF PoolInv, TableMatchesFrames, Live
<1>4. FramePartition'
  BY <1>1 DEF PoolInv, FramePartition
<1>5. PinsMatchHandles'
  BY <1>1 DEF PoolInv, PinsMatchHandles, Holders
<1> QED BY <1>2, <1>3, <1>4, <1>5 DEF PoolInv
\* Initially every frame is free.
LEMMA InitPoolInv == Init => PoolInv
<1> SUFFICES ASSUME Init PROVE PoolInv
  OBVIOUS
<1>1. TypeOK
  <2>1. free_list \in Seq(Frames)
    BY DEF Init, Frames
  <2>2. EmptyDisk \in Disk
    BY DEF EmptyDisk, Disk
  <2> QED BY <2>1, <2>2 DEF Init, TypeOK
<1>2. /\ Elements(free_list) = Frames /\ NoDuplicates(free_list)
      /\ Elements(replacer) = {} /\ NoDuplicates(replacer)
  <2>1. /\ Len(free_list) = PoolSize
        /\ \A i \in 1 .. PoolSize : free_list[i] = i - 1
    BY DEF Init
  <2>2. \A f \in Frames : f + 1 \in 1 .. PoolSize /\ free_list[f + 1] = f
    BY <2>1 DEF Frames
  <2>3. Elements(free_list) = Frames
    BY <2>1, <2>2 DEF Elements, Frames
  <2>4. NoDuplicates(free_list)
    BY <2>1 DEF NoDuplicates
  <2>5. Elements(replacer) = {} /\ NoDuplicates(replacer)
    BY DEF Init, Elements, NoDuplicates
  <2> QED BY <2>3, <2>4, <2>5
<1>3. TableMatchesFrames
  BY DEF Init, TableMatchesFrames
<1>4. FramePartition
  BY <1>2 DEF Init, FramePartition
<1>5. PinsMatchHandles
  BY DEF Init, PinsMatchHandles
<1> QED BY <1>1, <1>3, <1>4, <1>5 DEF PoolInv

\* Every step preserves the invariant.
LEMMA NextPoolInv == PoolInv /\ [Next]_vars => PoolInv'
<1> SUFFICES ASSUME PoolInv, [Next]_vars PROVE PoolInv'
  OBVIOUS
<1>1. ASSUME NEW h \in Handles, NEW p \in PageIds, FetchHit(h, p) PROVE PoolInv'
  BY <1>1, FetchHitPreserves
<1>2. ASSUME NEW h \in Handles, NEW p \in PageIds, FetchMiss(h, p) PROVE PoolInv'
  BY <1>2, FetchMissPreserves
<1>3. ASSUME NEW h \in Handles, NewPage(h) PROVE PoolInv'
  BY <1>3, NewPagePreserves
<1>4. ASSUME NEW h \in Handles, NEW x \in Data, WriteData(h, x) PROVE PoolInv'
  BY <1>4, WriteDataPreserves
<1>5. ASSUME NEW h \in Handles, NEW b \in BOOLEAN, UnpinPage(h, b) PROVE PoolInv'
  BY <1>5, UnpinPagePreserves
<1>6. ASSUME NEW p \in PageIds, FlushPage(p) PROVE PoolInv'
  BY <1>6, FlushPagePreserves
<1>7. ASSUME NEW p \in PageIds, DeleteResident(p) PROVE PoolInv'
  BY <1>7, DeleteResidentPreserves
<1>8. ASSUME NEW p \in PageIds, DeleteAbsent(p) PROVE PoolInv'
  BY <1>8, DeleteAbsentPreserves
<1>9. CASE UNCHANGED vars
  BY <1>9 DEF vars, poolVars, handleVars, PoolInv, TypeOK, TableMatchesFrames,
              FramePartition, PinsMatchHandles, Holders, Live
<1> QED BY <1>1, <1>2, <1>3, <1>4, <1>5, <1>6, <1>7, <1>8, <1>9 DEF Next

(***************************************************************************)
(* The theorems.                                                           *)
(***************************************************************************)

\* The structural invariant of the pool, for every pool size and every number of
\* callers.
THEOREM PoolInvariant == Spec => []PoolInv
<1> QED BY InitPoolInv, NextPoolInv, PTL DEF Spec

\* The variables of the pool keep their types.
THEOREM TypeCorrect == Spec => []TypeOK
<1>1. PoolInv => TypeOK
  BY DEF PoolInv
<1> QED BY <1>1, PoolInvariant, PTL

\* The page table and the frames' page ids always agree.
THEOREM TableCorrect == Spec => []TableMatchesFrames
<1>1. PoolInv => TableMatchesFrames
  BY DEF PoolInv
<1> QED BY <1>1, PoolInvariant, PTL

\* No frame is lost or handed out twice.
THEOREM PartitionCorrect == Spec => []FramePartition
<1>1. PoolInv => FramePartition
  BY DEF PoolInv
<1> QED BY <1>1, PoolInvariant, PTL

\* Pins are counted exactly, and no page moves under a caller that holds it.
THEOREM PinsCorrect == Spec => []PinsMatchHandles
<1>1. PoolInv => PinsMatchHandles
  BY DEF PoolInv
<1> QED BY <1>1, PoolInvariant, PTL

(***************************************************************************)
(* The page store.                                                         *)
(***************************************************************************)

\* The invariant the refinement needs.
StoreInv == PoolInv /\ CleanMatchesDisk

\* After the write-back of an unpinned victim the file holds its page, and what
\* it held of every other page.
LEMMA WriteBackFacts ==
  ASSUME StoreInv, NEW f \in Frames, pin_count[f] = 0
  PROVE  /\ WrittenBack(f) \in Disk
         /\ WrittenBack(f).ok
         /\ WrittenBack(f).size >= disk.size
         /\ \A p \in PageIds : p # page_id[f] => WrittenBack(f).page[p] = disk.page[p]
         /\ page_id[f] # -1 =>
              /\ page_id[f] < WrittenBack(f).size
              /\ WrittenBack(f).page[page_id[f]] = data[f]
<1>1. /\ TypeOK /\ TableMatchesFrames /\ FramePartition /\ PoolInv /\ CleanMatchesDisk
      /\ disk \in Disk /\ disk.ok
  BY DEF StoreInv, PoolInv, TypeOK, CleanMatchesDisk
<1>2. WrittenBack(f) \in Disk
  BY <1>1, WrittenBackType
<1>3. CASE is_dirty[f]
  <2>1. page_id[f] \in PageIds
    BY <1>1, <1>3 DEF TypeOK, FramePartition
  <2>2. WrittenBack(f) = [page |-> [disk.page EXCEPT ![page_id[f]] = data[f]],
                          size |-> IF page_id[f] >= disk.size THEN page_id[f] + 1 ELSE disk.size,
                          ok   |-> TRUE]
    BY <1>1, <1>3 DEF WrittenBack, WritePage
  <2> QED BY <1>1, <1>2, <2>1, <2>2 DEF Disk, PageIds
<1>4. CASE ~is_dirty[f]
  <2>1. WrittenBack(f) = disk
    BY <1>4 DEF WrittenBack
  <2>2. ASSUME page_id[f] # -1
        PROVE  page_id[f] < disk.size /\ disk.page[page_id[f]] = data[f]
    <3>1. /\ page_id[f] \in PageIds /\ page_table[page_id[f]] = f /\ Live(page_id[f])
      BY <1>1, <2>2 DEF TypeOK, TableMatchesFrames, Frames
    <3>2. Holders(page_id[f]) = {}
      BY <1>1, <2>2, NoHolders
    <3> QED BY <1>1, <1>4, <3>1, <3>2 DEF CleanMatchesDisk, Recoverable, Frames
  <2> QED BY <1>1, <1>2, <2>1, <2>2 DEF Disk
<1> QED BY <1>3, <1>4

\* What FetchPage of a page that is not resident and NewPage have in common: the
\* victim f becomes page p with content x, held by h.
Replaced(h, p, f, x) ==
  /\ page_table[p] = nullptr
  /\ Rebind(f, p)
  /\ held[h] = -1
  /\ held' = [held EXCEPT ![h] = p]
  /\ \A g \in Handles : g # h => owes'[g] = owes[g]
  /\ data' = [data EXCEPT ![f] = x]
  /\ disk'.ok
  /\ disk'.size = WrittenBack(f).size
  /\ disk'.page = WrittenBack(f).page

\* Such a step keeps the content of every other live page, and every other live
\* page stays recoverable.
LEMMA RebindKeepsPages ==
  ASSUME StoreInv, NEW h \in Handles, NEW p \in PageIds, NEW f \in Frames,
         NEW x \in Data, Replaced(h, p, f, x)
  PROVE  /\ page_table'[p] = f
         /\ data'[f] = x
         /\ Holders(p)' = {h}
         /\ ~is_dirty'[f]
         /\ \A q \in PageIds : q # p /\ Live(q) =>
              /\ Content(q)' = Content(q)
              /\ Recoverable(q)'
<1>1. /\ TypeOK /\ TableMatchesFrames /\ FramePartition /\ PinsMatchHandles
      /\ CleanMatchesDisk /\ PoolInv
      /\ disk \in Disk /\ disk.ok
  BY DEF StoreInv, PoolInv, TypeOK, CleanMatchesDisk
<1> USE DEF Replaced
<1>2. pin_count[f] = 0
  BY <1>1, VictimFacts DEF Rebind
<1>3. /\ WrittenBack(f) \in Disk
      /\ WrittenBack(f).size >= disk.size
      /\ \A r \in PageIds : r # page_id[f] => WrittenBack(f).page[r] = disk.page[r]
      /\ page_id[f] # -1 =>
           /\ page_id[f] < WrittenBack(f).size
           /\ WrittenBack(f).page[page_id[f]] = data[f]
  BY <1>2, WriteBackFacts
<1>4. p # -1 /\ page_id[f] # p
  BY <1>1 DEF PageIds, TableMatchesFrames, Frames
<1>5. \A r \in PageIds :
        page_table'[r] = IF r = p THEN f ELSE IF r = page_id[f] THEN nullptr ELSE page_table[r]
  BY <1>1, <1>4 DEF Rebind, TableInsert, TableRemove, TypeOK
<1>6. /\ is_dirty' = [is_dirty EXCEPT ![f] = FALSE]
      /\ held[h] = -1
      /\ held' = [held EXCEPT ![h] = p]
      /\ \A g \in Handles : g # h => owes'[g] = owes[g]
  BY DEF Rebind
<1>7. Holders(p) = {}
  BY <1>1, NoHolders
<1>8. Holders(p)' = {h}
  BY <1>1, <1>6, <1>7 DEF Holders, TypeOK
<1>9. ASSUME NEW q \in PageIds, q # p, Live(q)
      PROVE  /\ Content(q)' = Content(q)
             /\ Recoverable(q)'
  <2>1. CASE q = page_id[f]
    <3>1. q # -1 /\ page_table[q] = f /\ page_table'[q] = nullptr
      BY <1>1, <1>4, <1>5, <2>1 DEF PageIds, TableMatchesFrames
    <3>2. disk'.page[q] = data[f] /\ q < disk'.size
      BY <1>3, <2>1, <3>1
    <3> QED BY <3>1, <3>2 DEF Content, Recoverable, Frames
  <2>2. CASE q # page_id[f]
    <3>1. page_table'[q] = page_table[q] /\ disk'.page[q] = disk.page[q]
      BY <1>3, <1>5, <1>9, <2>2
    <3>2. CASE page_table[q] = nullptr
      <4>1. q < disk.size
        BY <1>1, <1>9, <3>2 DEF CleanMatchesDisk, Recoverable
      <4>2. q < disk'.size
        BY <1>1, <1>3, <4>1 DEF Disk, PageIds
      <4> QED BY <3>1, <3>2, <4>2 DEF Content, Recoverable
    <3>3. CASE page_table[q] # nullptr
      <4>1. page_table[q] \in Frames /\ page_table[q] # f
        BY <1>1, <2>2, <3>3 DEF TypeOK, TableMatchesFrames
      <4>2. data'[page_table[q]] = data[page_table[q]]
            /\ is_dirty'[page_table[q]] = is_dirty[page_table[q]]
        BY <1>1, <1>6, <4>1 DEF TypeOK
      <4>3. \A g \in Handles : held[g] = q => held'[g] = q /\ owes'[g] = owes[g]
        BY <1>1, <1>6 DEF TypeOK, PageIds
      <4>4. \/ is_dirty[page_table[q]]
            \/ \E g \in Handles : held[g] = q /\ owes[g]
            \/ q < disk.size /\ disk.page[q] = data[page_table[q]]
        BY <1>1, <1>9, <3>3 DEF CleanMatchesDisk, Recoverable, Holders
      <4>5. q < disk.size => q < disk'.size
        BY <1>1, <1>3 DEF Disk, PageIds
      <4> QED BY <3>1, <3>3, <4>2, <4>3, <4>4, <4>5 DEF Content, Recoverable, Holders
    <3> QED BY <3>2, <3>3
  <2> QED BY <2>1, <2>2
<1> QED BY <1>1, <1>5, <1>6, <1>8, <1>9 DEF TypeOK
(***************************************************************************)
(* Every operation keeps the pages recoverable, and is an operation of the *)
(* page store or invisible in it.                                          *)
(***************************************************************************)

\* A step that neither makes, deletes nor changes a page.
LEMMA SameView ==
  ASSUME \A q \in PageIds : Live(q)' = Live(q),
         \A q \in PageIds : Live(q) => Content(q)' = Content(q)
  PROVE  StoreView' = StoreView
BY DEF StoreView

LEMMA FetchHitStore ==
  ASSUME StoreInv, NEW h \in Handles, NEW p \in PageIds, FetchHit(h, p)
  PROVE  CleanMatchesDisk' /\ Store!Fetch(h, p)
<1>1. /\ TypeOK /\ CleanMatchesDisk
      /\ Live(p) /\ held[h] = -1
      /\ held' = [held EXCEPT ![h] = p]
      /\ owes' = [owes EXCEPT ![h] = FALSE]
      /\ UNCHANGED <<is_dirty, data, page_table, disk, next_page_id, deleted>>
  BY DEF StoreInv, PoolInv, FetchHit, PinResident, Hand
<1>2. \A q \in PageIds : Live(q)' = Live(q) /\ Content(q)' = Content(q)
  BY <1>1 DEF Live, Content
<1>3. ASSUME NEW q \in PageIds, \E g \in Holders(q) : owes[g]
      PROVE  \E g \in Holders(q)' : owes'[g]
  BY <1>1, <1>3 DEF Holders, TypeOK, PageIds
<1>4. CleanMatchesDisk'
  BY <1>1, <1>2, <1>3 DEF CleanMatchesDisk, Recoverable
<1>5. StoreView' = StoreView
  BY <1>2, SameView
<1>6. p \in DOMAIN StoreView
  BY <1>1 DEF StoreView
<1> QED BY <1>1, <1>4, <1>5, <1>6 DEF Store!Fetch, Store!None

LEMMA FetchMissStore ==
  ASSUME StoreInv, NEW h \in Handles, NEW p \in PageIds, FetchMiss(h, p)
  PROVE  CleanMatchesDisk' /\ Store!Fetch(h, p)
<1>1. /\ TypeOK /\ FramePartition /\ TableMatchesFrames /\ CleanMatchesDisk
      /\ disk \in Disk
      /\ Live(p) /\ page_table[p] = nullptr /\ held[h] = -1
      /\ held' = [held EXCEPT ![h] = p]
      /\ UNCHANGED <<next_page_id, deleted>>
  BY DEF StoreInv, PoolInv, TypeOK, FetchMiss, ReadIn, Hand
<1>2. PICK f \in Frames :
        /\ Rebind(f, p)
        /\ data' = [data EXCEPT ![f] = ReadPage(WrittenBack(f), p, @)]
        /\ disk' = AfterRead(WrittenBack(f), p)
        /\ Hand(h, p, f, FALSE)
  BY DEF FetchMiss, ReadIn
<1>3. pin_count[f] = 0
  BY <1>1, <1>2, VictimFacts DEF Rebind
<1>4. /\ WrittenBack(f) \in Disk /\ WrittenBack(f).ok
      /\ WrittenBack(f).size >= disk.size
      /\ \A q \in PageIds : q # page_id[f] => WrittenBack(f).page[q] = disk.page[q]
  BY <1>3, WriteBackFacts
<1>5. p < WrittenBack(f).size /\ p # page_id[f]
  BY <1>1, <1>4, SMTT(30) DEF CleanMatchesDisk, Recoverable, Disk, PageIds, TableMatchesFrames, Frames
<1>6. PICK x \in Data : x = disk.page[p]
  BY <1>1 DEF Disk
<1>7. data' = [data EXCEPT ![f] = x]
  <2>1. ReadPage(WrittenBack(f), p, data[f]) = x
    BY <1>4, <1>5, <1>6 DEF ReadPage, Disk, PageIds
  <2> QED BY <1>1, <1>2, <2>1 DEF TypeOK
<1>8. disk'.ok /\ disk'.size = WrittenBack(f).size /\ disk'.page = WrittenBack(f).page
  BY <1>2, <1>4, <1>5 DEF AfterRead, Disk, PageIds
<1>9. /\ page_table'[p] = f /\ data'[f] = x
      /\ \A q \in PageIds : q # p /\ Live(q) =>
           /\ Content(q)' = Content(q)
           /\ Recoverable(q)'
  <2>1. \A g \in Handles : g # h => owes'[g] = owes[g]
    BY <1>1, <1>2 DEF Hand, TypeOK
  <2>2. Replaced(h, p, f, x)
    BY <1>1, <1>2, <1>7, <1>8, <2>1 DEF Replaced
  <2> QED BY <2>2, RebindKeepsPages
<1>10. p < disk'.size /\ disk'.page[p] = data'[f] /\ Content(p)' = Content(p)
  BY <1>1, <1>4, <1>5, <1>6, <1>8, <1>9 DEF Content, Frames
<1>11. \A q \in PageIds : Live(q)' = Live(q)
  BY <1>1 DEF Live
<1>12. CleanMatchesDisk'
  <2>1. Recoverable(p)'
    BY <1>9, <1>10 DEF Recoverable, Frames
  <2> QED BY <1>8, <1>9, <1>11, <2>1 DEF CleanMatchesDisk
<1>13. StoreView' = StoreView
  BY <1>9, <1>10, <1>11, SameView
<1>14. p \in DOMAIN StoreView
  BY <1>1 DEF StoreView
<1> QED BY <1>1, <1>12, <1>13, <1>14 DEF Store!Fetch, Store!None

LEMMA NewPageStore ==
  ASSUME ~MayUnpinNewClean, StoreInv, NEW h \in Handles, NewPage(h)
  PROVE  CleanMatchesDisk' /\ Store!New(h)
<1>1. /\ TypeOK /\ FramePartition /\ TableMatchesFrames /\ CleanMatchesDisk
  BY DEF StoreInv, PoolInv
<1>2. PICK p \in PageIds : p = next_page_id
  BY <1>1 DEF NewPage, TypeOK, PageIds
<1>3. PICK f \in Frames :
        /\ Rebind(f, p)
        /\ disk' = WrittenBack(f)
        /\ data' = [data EXCEPT ![f] = Zero]
        /\ Hand(h, p, f, TRUE)
  BY <1>2 DEF NewPage
<1>4. /\ next_page_id' = p + 1 /\ deleted' = deleted /\ p < MaxPages
      /\ held[h] = -1 /\ held' = [held EXCEPT ![h] = p]
  BY <1>2, <1>3 DEF NewPage, Hand
<1>5. page_table[p] = nullptr /\ ~Live(p)
  BY <1>1, <1>2 DEF TableMatchesFrames, Live, PageIds
<1>6. pin_count[f] = 0
  BY <1>1, <1>3, VictimFacts DEF Rebind
<1>7. disk'.ok
  BY <1>3, <1>6, WriteBackFacts
<1>8. /\ page_table'[p] = f /\ data'[f] = Zero
      /\ Holders(p)' = {h} /\ owes'[h] = TRUE
      /\ \A q \in PageIds : q # p /\ Live(q) =>
           /\ Content(q)' = Content(q)
           /\ Recoverable(q)'
  <2>1. PICK x \in Data : x = Zero
    BY DiskAssumption
  <2>2. /\ data' = [data EXCEPT ![f] = x]
        /\ disk'.size = WrittenBack(f).size /\ disk'.page = WrittenBack(f).page
        /\ \A g \in Handles : g # h => owes'[g] = owes[g]
        /\ owes'[h] = TRUE
    BY <1>1, <1>3, <2>1 DEF Hand, TypeOK
  <2>3. /\ page_table'[p] = f /\ data'[f] = x
        /\ Holders(p)' = {h}
        /\ \A q \in PageIds : q # p /\ Live(q) =>
             /\ Content(q)' = Content(q)
             /\ Recoverable(q)'
    <3>1. Replaced(h, p, f, x)
      BY <1>3, <1>4, <1>5, <1>7, <2>2 DEF Replaced
    <3> QED BY <3>1, RebindKeepsPages
  <2> QED BY <2>1, <2>2, <2>3
<1>9. \A q \in PageIds : Live(q)' <=> Live(q) \/ q = p
  BY <1>1, <1>2, <1>4 DEF Live, TypeOK, PageIds
<1>10. CleanMatchesDisk'
  <2>1. ASSUME NEW q \in PageIds, Live(q)'
        PROVE  Recoverable(q)'
    <3>1. CASE q = p
      BY <1>8, <3>1 DEF Recoverable, Frames
    <3>2. CASE q # p
      BY <1>8, <1>9, <2>1, <3>2
    <3> QED BY <3>1, <3>2
  <2> QED BY <1>7, <2>1 DEF CleanMatchesDisk
<1>11. Content(p)' = Zero
  BY <1>8 DEF Content, Frames
<1>12. StoreView' = [q \in DOMAIN StoreView \cup {p} |->
                       IF q = p THEN Zero ELSE StoreView[q]]
  <2>1. DOMAIN StoreView' = DOMAIN StoreView \cup {p}
    BY <1>9 DEF StoreView
  <2>2. ASSUME NEW q \in DOMAIN StoreView'
        PROVE  StoreView'[q] = IF q = p THEN Zero ELSE StoreView[q]
    BY <1>5, <1>8, <1>9, <1>11, <2>2 DEF StoreView
  <2>3. StoreView' = [q \in DOMAIN StoreView' |-> StoreView'[q]]
    BY DEF StoreView
  <2> QED BY <2>1, <2>2, <2>3
<1> QED BY <1>2, <1>4, <1>10, <1>12 DEF Store!New, Store!None

LEMMA WriteDataStore ==
  ASSUME StoreInv, NEW h \in Handles, NEW x \in Data, WriteData(h, x)
  PROVE  CleanMatchesDisk' /\ Store!Write(h, x)
<1>1. /\ TypeOK /\ FramePartition /\ TableMatchesFrames /\ PinsMatchHandles /\ CleanMatchesDisk
      /\ held[h] # -1
      /\ data' = [data EXCEPT ![ptr[h]] = x]
      /\ owes' = [owes EXCEPT ![h] = TRUE]
      /\ UNCHANGED <<is_dirty, page_table, disk, next_page_id, deleted, held>>
  BY DEF StoreInv, PoolInv, WriteData
<1>2. PICK p \in PageIds : p = held[h]
  BY <1>1 DEF TypeOK
<1>3. PICK f \in Frames : f = ptr[h] /\ page_id[f] = p
  BY <1>1, <1>2 DEF PinsMatchHandles
<1>4. page_table[p] = f /\ Live(p)
  BY <1>1, <1>2, <1>3 DEF TableMatchesFrames, PageIds, Frames
<1>5. \A q \in PageIds : q # p => page_table[q] # f
  BY <1>1, <1>3 DEF TableMatchesFrames, Frames
<1>6. \A q \in PageIds : Live(q)' = Live(q)
  BY <1>1 DEF Live
<1>7. \A q \in PageIds : Content(q)' = IF q = p THEN x ELSE Content(q)
  BY <1>1, <1>3, <1>4, <1>5 DEF Content, TypeOK, Frames
<1>8. CleanMatchesDisk'
  <2>1. ASSUME NEW q \in PageIds, Live(q)
        PROVE  Recoverable(q)'
    <3>1. CASE q = p
      <4>1. h \in Holders(p)' /\ owes'[h]
        BY <1>1, <1>2 DEF Holders, TypeOK
      <4> QED BY <1>1, <1>4, <3>1, <4>1 DEF Recoverable, Frames
    <3>2. CASE q # p
      <4>1. Recoverable(q) /\ page_table[q] # f
        BY <1>1, <1>5, <2>1, <3>2 DEF CleanMatchesDisk
      <4>2. data'[page_table[q]] = data[page_table[q]] \/ page_table[q] = nullptr
        BY <1>1, <1>3, <4>1 DEF TypeOK
      <4>3. \A g \in Holders(q) : owes[g] => g \in Holders(q)' /\ owes'[g]
        BY <1>1 DEF Holders, TypeOK
      <4> QED BY <1>1, <4>1, <4>2, <4>3 DEF Recoverable
    <3> QED BY <3>1, <3>2
  <2> QED BY <1>1, <1>6, <2>1 DEF CleanMatchesDisk
<1>9. StoreView' = [StoreView EXCEPT ![p] = x]
  BY <1>6, <1>7 DEF StoreView
<1>10. p \in DOMAIN StoreView
  BY <1>4 DEF StoreView
<1> QED BY <1>1, <1>2, <1>8, <1>9, <1>10 DEF Store!Write

LEMMA UnpinPageStore ==
  ASSUME StoreInv, NEW h \in Handles, NEW dirty \in BOOLEAN, UnpinPage(h, dirty)
  PROVE  CleanMatchesDisk' /\ Store!Unpin(h)
<1>1. /\ TypeOK /\ TableMatchesFrames /\ CleanMatchesDisk
      /\ held[h] # -1
      /\ held' = [held EXCEPT ![h] = -1]
      /\ owes' = [owes EXCEPT ![h] = FALSE]
      /\ UNCHANGED <<data, page_table, disk, next_page_id, deleted>>
  BY DEF StoreInv, PoolInv, UnpinPage
<1>2. PICK p \in PageIds : p = held[h]
  BY <1>1 DEF TypeOK
<1>3. PICK f \in Frames : f = page_table[p]
  BY <1>1, <1>2 DEF UnpinPage, TypeOK
<1>4. /\ owes[h] => dirty
      /\ is_dirty' = [is_dirty EXCEPT ![f] = DirtyAfterUnpin(f, dirty)]
  BY <1>2, <1>3 DEF UnpinPage
<1>5. \A q \in PageIds : Live(q)' = Live(q) /\ Content(q)' = Content(q)
  BY <1>1 DEF Live, Content
<1>6. CleanMatchesDisk'
  <2>1. ASSUME NEW q \in PageIds, Live(q)
        PROVE  Recoverable(q)'
    <3>1. Recoverable(q)
      BY <1>1, <2>1 DEF CleanMatchesDisk
    <3>2. ASSUME page_table[q] # nullptr, is_dirty[page_table[q]]
          PROVE  is_dirty'[page_table[q]]
      BY <1>1, <1>4, <3>2 DEF TypeOK, DirtyAfterUnpin
    <3>3. ASSUME NEW g \in Holders(q), owes[g], page_table[q] # nullptr
          PROVE  \/ is_dirty'[page_table[q]]
                 \/ g \in Holders(q)' /\ owes'[g]
      <4>1. CASE g = h
        <5>1. q = p /\ dirty
          BY <1>2, <1>4, <3>3, <4>1 DEF Holders
        <5>2. DirtyAfterUnpin(f, dirty) = TRUE
          BY <5>1, Zenon DEF DirtyAfterUnpin
        <5>3. is_dirty' = [is_dirty EXCEPT ![f] = TRUE]
          BY <1>4, <5>2, Zenon
        <5> QED BY <1>1, <1>3, <5>1, <5>3 DEF TypeOK
      <4>2. CASE g # h
        BY <1>1, <3>3, <4>2 DEF Holders, TypeOK
      <4> QED BY <4>1, <4>2
    <3> QED BY <1>1, <3>1, <3>2, <3>3 DEF Recoverable
  <2> QED BY <1>1, <1>5, <2>1 DEF CleanMatchesDisk
<1>7. StoreView' = StoreView
  BY <1>5, SameView
<1> QED BY <1>1, <1>6, <1>7 DEF Store!Unpin, Store!None

LEMMA FlushPageStore ==
  ASSUME StoreInv, NEW p \in PageIds, FlushPage(p)
  PROVE  CleanMatchesDisk' /\ UNCHANGED Store!vars
<1>1. /\ TypeOK /\ TableMatchesFrames /\ CleanMatchesDisk
      /\ disk \in Disk /\ disk.ok
      /\ UNCHANGED <<data, page_table, next_page_id, deleted, held, owes>>
  BY DEF StoreInv, PoolInv, FlushPage, TypeOK, CleanMatchesDisk, handleVars
<1>2. PICK f \in Frames : f = page_table[p]
  BY <1>1 DEF FlushPage, TypeOK
<1>3. /\ disk' = WritePage(disk, p, data[f])
      /\ is_dirty' = [is_dirty EXCEPT ![f] = FALSE]
  BY <1>2 DEF FlushPage
<1>4. /\ disk'.ok
      /\ disk'.page = [disk.page EXCEPT ![p] = data[f]]
      /\ disk'.size = IF p >= disk.size THEN p + 1 ELSE disk.size
  BY <1>1, <1>3 DEF WritePage
<1>5. \A q \in PageIds : page_table[q] = f => q = p
  BY <1>1, <1>2 DEF TableMatchesFrames, Frames
<1>6. \A q \in PageIds : Live(q)' = Live(q)
  BY <1>1 DEF Live
<1>7. ASSUME NEW q \in PageIds, Live(q)
      PROVE  Content(q)' = Content(q) /\ Recoverable(q)'
  <2>1. CASE q = p
    <3>1. p < disk'.size /\ disk'.page[p] = data[f]
      BY <1>1, <1>4 DEF Disk, PageIds
    <3> QED BY <1>1, <1>2, <2>1, <3>1 DEF Content, Recoverable, Frames
  <2>2. CASE q # p
    <3>1. Recoverable(q) /\ page_table[q] # f
      BY <1>1, <1>5, <1>7, <2>2 DEF CleanMatchesDisk
    <3>2. disk'.page[q] = disk.page[q] /\ (q < disk.size => q < disk'.size)
      BY <1>1, <1>4, <2>2 DEF Disk, PageIds
    <3>3. page_table[q] # nullptr => is_dirty'[page_table[q]] = is_dirty[page_table[q]]
      BY <1>1, <1>3, <3>1 DEF TypeOK
    <3>4. Holders(q)' = Holders(q)
      BY <1>1 DEF Holders
    <3> QED BY <1>1, <3>1, <3>2, <3>3, <3>4 DEF Content, Recoverable
  <2> QED BY <2>1, <2>2
<1>8. CleanMatchesDisk'
  BY <1>4, <1>6, <1>7 DEF CleanMatchesDisk
<1>9. StoreView' = StoreView
  BY <1>6, <1>7, SameView
<1> QED BY <1>1, <1>8, <1>9 DEF Store!vars

LEMMA DeleteResidentStore ==
  ASSUME StoreInv, NEW p \in PageIds, DeleteResident(p)
  PROVE  CleanMatchesDisk' /\ Store!Delete(p)
<1>1. /\ TypeOK /\ TableMatchesFrames /\ FramePartition /\ CleanMatchesDisk /\ PoolInv
      /\ page_table' = TableRemove(page_table, p)
      /\ deleted' = deleted \cup {p}
      /\ UNCHANGED <<disk, next_page_id, held, owes>>
  BY DEF StoreInv, PoolInv, DeleteResident, handleVars
<1>2. PICK f \in Frames : f = page_table[p] /\ pin_count[f] = 0
  BY <1>1 DEF DeleteResident, TypeOK
<1>3. /\ is_dirty' = [is_dirty EXCEPT ![f] = FALSE]
      /\ data' = [data EXCEPT ![f] = Zero]
  BY <1>2 DEF DeleteResident
<1>4. Live(p) /\ page_id[f] = p
  BY <1>1, <1>2 DEF TableMatchesFrames, Frames
<1>5. Holders(p) = {}
  BY <1>1, <1>2, <1>4, NoHolders DEF PageIds
<1>6. \A q \in PageIds : Live(q)' <=> Live(q) /\ q # p
  BY <1>1 DEF Live
<1>7. ASSUME NEW q \in PageIds, Live(q), q # p
      PROVE  Content(q)' = Content(q) /\ Recoverable(q)'
  <2>1. page_table'[q] = page_table[q] /\ page_table[q] # f
    BY <1>1, <1>4, <1>7 DEF TableRemove, TableMatchesFrames, Frames
  <2>2. page_table[q] # nullptr =>
          /\ is_dirty'[page_table[q]] = is_dirty[page_table[q]]
          /\ data'[page_table[q]] = data[page_table[q]]
    BY <1>1, <1>3, <2>1 DEF TypeOK
  <2>3. Recoverable(q) /\ Holders(q)' = Holders(q)
    BY <1>1, <1>7 DEF CleanMatchesDisk, Holders
  <2> QED BY <1>1, <2>1, <2>2, <2>3 DEF Content, Recoverable
<1>8. CleanMatchesDisk'
  BY <1>1, <1>6, <1>7 DEF CleanMatchesDisk
<1>9. StoreView' = [q \in DOMAIN StoreView \ {p} |-> StoreView[q]]
  <2>1. DOMAIN StoreView' = DOMAIN StoreView \ {p}
    BY <1>6 DEF StoreView
  <2>2. ASSUME NEW q \in DOMAIN StoreView'
        PROVE  StoreView'[q] = StoreView[q]
    BY <1>6, <1>7, <2>2 DEF StoreView
  <2>3. StoreView' = [q \in DOMAIN StoreView' |-> StoreView'[q]]
    BY DEF StoreView
  <2> QED BY <2>1, <2>2, <2>3
<1>10. p \in DOMAIN StoreView
  BY <1>4 DEF StoreView
<1> QED BY <1>1, <1>5, <1>8, <1>9, <1>10 DEF Store!Delete, Holders

LEMMA DeleteAbsentStore ==
  ASSUME StoreInv, NEW p \in PageIds, DeleteAbsent(p)
  PROVE  CleanMatchesDisk' /\ (Store!Delete(p) \/ UNCHANGED Store!vars)
<1>1. /\ TypeOK /\ PinsMatchHandles /\ TableMatchesFrames /\ CleanMatchesDisk
      /\ p < next_page_id /\ page_table[p] = nullptr
      /\ deleted' = deleted \cup {p}
      /\ UNCHANGED <<is_dirty, data, page_table, disk, next_page_id, held, owes>>
  BY DEF StoreInv, PoolInv, DeleteAbsent, poolVars, handleVars
<1>2. \A h \in Handles : held[h] # p
  BY <1>1 DEF PinsMatchHandles, TableMatchesFrames, Frames, PageIds
<1>3. \A q \in PageIds : Live(q)' <=> Live(q) /\ q # p
  BY <1>1 DEF Live
<1>4. \A q \in PageIds : Content(q)' = Content(q) /\ (Recoverable(q) => Recoverable(q)')
  BY <1>1 DEF Content, Recoverable, Holders
<1>5. CleanMatchesDisk'
  BY <1>1, <1>3, <1>4 DEF CleanMatchesDisk
<1>6. StoreView' = [q \in DOMAIN StoreView \ {p} |-> StoreView[q]]
  <2>1. DOMAIN StoreView' = DOMAIN StoreView \ {p}
    BY <1>3 DEF StoreView
  <2>2. ASSUME NEW q \in DOMAIN StoreView'
        PROVE  StoreView'[q] = StoreView[q]
    BY <1>3, <1>4, <2>2 DEF StoreView
  <2>3. StoreView' = [q \in DOMAIN StoreView' |-> StoreView'[q]]
    BY DEF StoreView
  <2> QED BY <2>1, <2>2, <2>3
<1>7. CASE Live(p)
  <2>1. p \in DOMAIN StoreView
    BY <1>7 DEF StoreView
  <2> QED BY <1>1, <1>2, <1>5, <1>6, <2>1 DEF Store!Delete
<1>8. CASE ~Live(p)
  <2>1. \A q \in PageIds : Live(q)' = Live(q)
    BY <1>3, <1>8 DEF Live
  <2>2. StoreView' = StoreView
    BY <1>4, <2>1, SameView
  <2> QED BY <1>1, <1>5, <2>2 DEF Store!vars
<1> QED BY <1>7, <1>8

-----------------------------------------------------------------------------

LEMMA InitStoreInv ==
  ASSUME Init
  PROVE  StoreInv /\ Store!Init
<1>1. /\ disk.ok /\ next_page_id = 0
      /\ held = [h \in Handles |-> -1]
  BY DEF Init, EmptyDisk
<1>2. \A q \in PageIds : ~Live(q)
  BY <1>1 DEF Live, PageIds
<1>3. PoolInv /\ CleanMatchesDisk
  BY <1>1, <1>2, InitPoolInv DEF CleanMatchesDisk
<1>4. StoreView = [p \in {} |-> Zero]
  BY <1>2 DEF StoreView
<1> QED BY <1>1, <1>3, <1>4 DEF StoreInv, Store!Init, Store!None

LEMMA NextStoreInv ==
  ASSUME ~MayUnpinNewClean, StoreInv, [Next]_vars
  PROVE  StoreInv' /\ [Store!Next]_(Store!vars)
<1>1. PoolInv'
  BY NextPoolInv DEF StoreInv
<1>2. ASSUME NEW h \in Handles, NEW p \in PageIds, FetchHit(h, p)
      PROVE  CleanMatchesDisk' /\ Store!Next
  BY <1>2, FetchHitStore DEF Store!Next, Store!PageIds, PageIds
<1>3. ASSUME NEW h \in Handles, NEW p \in PageIds, FetchMiss(h, p)
      PROVE  CleanMatchesDisk' /\ Store!Next
  BY <1>3, FetchMissStore DEF Store!Next, Store!PageIds, PageIds
<1>4. ASSUME NEW h \in Handles, NewPage(h)
      PROVE  CleanMatchesDisk' /\ Store!Next
  BY <1>4, NewPageStore DEF Store!Next
<1>5. ASSUME NEW h \in Handles, NEW x \in Data, WriteData(h, x)
      PROVE  CleanMatchesDisk' /\ Store!Next
  BY <1>5, WriteDataStore DEF Store!Next
<1>6. ASSUME NEW h \in Handles, NEW dirty \in BOOLEAN, UnpinPage(h, dirty)
      PROVE  CleanMatchesDisk' /\ Store!Next
  BY <1>6, UnpinPageStore DEF Store!Next
<1>7. ASSUME NEW p \in PageIds, FlushPage(p)
      PROVE  CleanMatchesDisk' /\ UNCHANGED Store!vars
  BY <1>7, FlushPageStore
<1>8. ASSUME NEW p \in PageIds, DeleteResident(p)
      PROVE  CleanMatchesDisk' /\ Store!Next
  BY <1>8, DeleteResidentStore DEF Store!Next, Store!PageIds, PageIds
<1>9. ASSUME NEW p \in PageIds, DeleteAbsent(p)
      PROVE  CleanMatchesDisk' /\ (Store!Next \/ UNCHANGED Store!vars)
  BY <1>9, DeleteAbsentStore DEF Store!Next, Store!PageIds, PageIds
<1>10. CASE UNCHANGED vars
  <2>1. UNCHANGED <<is_dirty, data, page_table, disk, next_page_id, deleted, held, owes>>
    BY <1>10 DEF vars, poolVars, handleVars
  <2>2. \A q \in PageIds : Live(q)' = Live(q) /\ Content(q)' = Content(q)
    BY <2>1 DEF Live, Content
  <2>3. \A q \in PageIds : Recoverable(q)' = Recoverable(q)
    BY <2>1 DEF Recoverable, Holders
  <2>4. CleanMatchesDisk'
    BY <2>1, <2>2, <2>3 DEF StoreInv, CleanMatchesDisk
  <2>5. StoreView' = StoreView
    BY <2>2, SameView
  <2> QED BY <1>1, <2>1, <2>4, <2>5 DEF StoreInv, Store!vars
<1>11. CASE Next
  BY <1>1, <1>2, <1>3, <1>4, <1>5, <1>6, <1>7, <1>8, <1>9, <1>11 DEF Next, StoreInv
<1> QED BY <1>10, <1>11

\* Clean frames agree with the file, so that the pool may drop them: the property
\* CleanMatchesDisk of the UnpinPage and GetVictimPage code, for every number of
\* frames, pages and callers.
THEOREM CleanCorrect ==
  ASSUME ~MayUnpinNewClean
  PROVE  Spec => []CleanMatchesDisk
<1>1. Init => StoreInv
  BY InitStoreInv
<1>2. StoreInv /\ [Next]_vars => StoreInv'
  BY NextStoreInv
<1>3. StoreInv => CleanMatchesDisk
  BY DEF StoreInv
<1> QED BY <1>1, <1>2, <1>3, PTL DEF Spec

\* The buffer pool implements the page store (the property ImplementsPageStore):
\* through any sequence of fetches, evictions, write-backs, flushes and deletes,
\* a caller sees what was last written to its page.
THEOREM PoolImplementsStore ==
  ASSUME ~MayUnpinNewClean
  PROVE  Spec => ImplementsPageStore
<1>1. Init => StoreInv /\ Store!Init
  BY InitStoreInv
<1>2. StoreInv /\ [Next]_vars => StoreInv' /\ [Store!Next]_(Store!vars)
  BY NextStoreInv
<1> QED BY <1>1, <1>2, PTL DEF Spec, ImplementsPageStore, Store!Spec
================================================================================
