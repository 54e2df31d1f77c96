---------------------------- MODULE TableHeapProofs ----------------------------
(***************************************************************************)
(* The pages of a table stay well formed and no assertion of ApplyDelete   *)
(* and UpdateTuple fails until a lapse that is the cause, scans miss       *)
(* nothing, transactions are atomic until the first lapse, and threads wait *)
(* for each other for ever in one way only: for any number of transactions, *)
(* scans, pages and tuples, of any sizes, and for all calls of the model.  *)
(*                                                                         *)
(* The first part is about a page: the operations of a table page keep it  *)
(* well formed, and keep the bytes of the tuples they are not about.  The  *)
(* offsets and sizes of the slots tile the bytes above the free space      *)
(* pointer; the lemmas on Tiles are arithmetic about such tilings, and the *)
(* theorems apply them to the slots of a page.  What they do to a page that *)
(* is not well formed any more is told by the lemmas on AnyPage.           *)
(*                                                                         *)
(* The second part is about a table.  Base holds whatever happens: types,  *)
(* what threads are inside of, and that every record is about a slot there *)
(* is.  PagesInv adds, until an update has moved a marked tuple, that every *)
(* page is well formed and that what an undo restores has been written.    *)
(* SafeInv adds, until moreover a deletion is refused, that the slot a     *)
(* record of a write set is about still has its tuple when the record is   *)
(* applied or undone (RecordStands), for which nobody else's record and no *)
(* earlier one of the same transaction may take it away (RecordsApart,     *)
(* RecordsOrdered).  ScanInv says that what scans owe is ahead of them     *)
(* (Owes), and needs nothing of the above.  That transactions are atomic   *)
(* follows from SafeInv, ScanInv and IdleEmpty, step by step (StepKinds),  *)
(* with what the pages hold without what can be undone told from the oldest *)
(* record about a slot (Was).                                              *)
(***************************************************************************)
EXTENDS TableHeap, SequenceTheorems, FiniteSetTheorems, WellFoundedInduction, TLAPS

-----------------------------------------------------------------------------
(* Pages. *)

USE PageAssumption

\* O[j] and S[j] are the offset and the size of tuple j of n; a size of 0 is no tuple.
Apart(O, S, i, j) == O[i] + S[i] <= O[j] \/ O[j] + S[j] <= O[i]

Inside(O, S, j, free) == free <= O[j] /\ O[j] + S[j] <= PAGE_SIZE

Holds(O, S, j, o) == O[j] <= o /\ o < O[j] + S[j]

Tiles(n, O, S, free) ==
  /\ \A j \in 1 .. n : S[j] # 0 => Inside(O, S, j, free)
  /\ \A i, j \in 1 .. n : i # j /\ S[i] # 0 /\ S[j] # 0 => Apart(O, S, i, j)
  /\ \A o \in Int : free <= o /\ o < PAGE_SIZE => \E j \in 1 .. n : Holds(O, S, j, o)

Numbers(n, O, S) == \A j \in 1 .. n : O[j] \in Nat /\ S[j] \in Nat

\* From O and S to P and T, of m slots, tuple k has come.
WithTuple(n, O, S, m, P, T, k) ==
  /\ k \in 1 .. n => S[k] = 0
  /\ \A j \in 1 .. m : j # k => j \in 1 .. n /\ P[j] = O[j] /\ T[j] = S[j]
  /\ \A j \in 1 .. n : j # k => j \in 1 .. m

LEMMA TilesAfterInsert ==
  ASSUME NEW n \in Nat, NEW m \in Nat,
         NEW O, NEW S, Numbers(n, O, S), NEW P, NEW T, Numbers(m, P, T),
         NEW free \in Nat, NEW low \in Nat, low < free, free <= PAGE_SIZE,
         Tiles(n, O, S, free),
         NEW k \in 1 .. m, WithTuple(n, O, S, m, P, T, k), P[k] = low, T[k] = free - low
  PROVE  Tiles(m, P, T, low)
<1> USE DEF Numbers, WithTuple
<1>1. ASSUME NEW j \in 1 .. m, T[j] # 0
      PROVE  Inside(P, T, j, low)
  BY <1>1 DEF Tiles, Inside
<1>2. ASSUME NEW i \in 1 .. m, NEW j \in 1 .. m, i # j, T[i] # 0, T[j] # 0
      PROVE  Apart(P, T, i, j)
  <2>1. CASE i # k /\ j # k
    BY <1>2, <2>1 DEF Tiles, Apart
  <2>2. CASE i = k
    BY <1>2, <2>2 DEF Tiles, Apart, Inside
  <2>3. CASE j = k
    BY <1>2, <2>3 DEF Tiles, Apart, Inside
  <2> QED BY <2>1, <2>2, <2>3
<1>3. ASSUME NEW o \in Int, low <= o, o < PAGE_SIZE
      PROVE  \E j \in 1 .. m : Holds(P, T, j, o)
  <2>1. CASE o < free
    <3>1. Holds(P, T, k, o)
      BY <1>3, <2>1 DEF Holds
    <3> QED BY <3>1
  <2>2. CASE free <= o
    <3>1. PICK j \in 1 .. n : Holds(O, S, j, o)
      BY <1>3, <2>2 DEF Tiles
    <3>2. j # k /\ j \in 1 .. m
      BY <3>1 DEF Holds
    <3>3. P[j] = O[j] /\ T[j] = S[j]
      BY <3>2
    <3>4. Holds(P, T, j, o)
      BY <3>1, <3>3 DEF Holds
    <3> QED BY <3>2, <3>4
  <2> QED BY <2>1, <2>2
<1> QED BY <1>1, <1>2, <1>3 DEF Tiles

\* From O and S to P and T tuple k has gone.
WithoutTuple(n, O, S, P, T, k) ==
  /\ S[k] # 0 /\ T[k] = 0
  /\ \A j \in 1 .. n : j # k =>
       /\ T[j] = S[j]
       /\ S[j] # 0 => P[j] = IF O[j] < O[k] THEN O[j] + S[k] ELSE O[j]

LEMMA TilesAfterDelete ==
  ASSUME NEW n \in Nat,
         NEW O, NEW S, Numbers(n, O, S), NEW P, NEW T, Numbers(n, P, T),
         NEW free \in Nat, Tiles(n, O, S, free),
         NEW k \in 1 .. n, WithoutTuple(n, O, S, P, T, k),
         NEW low, low = free + S[k]
  PROVE  Tiles(n, P, T, low)
<1> USE DEF Numbers, WithoutTuple
<1>1. ASSUME NEW j \in 1 .. n, j # k, S[j] # 0
      PROVE  O[j] + S[j] <= O[k] \/ O[k] + S[k] <= O[j]
  BY <1>1 DEF Tiles, Apart
<1>5. \A j \in 1 .. n : O[j] \in Nat /\ S[j] \in Nat /\ P[j] \in Nat /\ T[j] \in Nat
  OBVIOUS
<1>6. ASSUME NEW j \in 1 .. n, j # k, S[j] # 0
      PROVE  T[j] = S[j] /\ P[j] = IF O[j] < O[k] THEN O[j] + S[k] ELSE O[j]
  BY <1>6
<1>2. ASSUME NEW j \in 1 .. n, T[j] # 0
      PROVE  Inside(P, T, j, free + S[k])
  <2>1. j # k /\ S[j] # 0
    BY <1>2
  <2>2. Inside(O, S, j, free) /\ Inside(O, S, k, free)
    BY <2>1 DEF Tiles
  <2> QED BY <1>1, <1>5, <1>6, <2>1, <2>2 DEF Inside
<1>3. ASSUME NEW i \in 1 .. n, NEW j \in 1 .. n, i # j, T[i] # 0, T[j] # 0
      PROVE  Apart(P, T, i, j)
  <2>1. i # k /\ j # k /\ S[i] # 0 /\ S[j] # 0
    BY <1>3
  <2>2. Apart(O, S, i, j)
    BY <1>3, <2>1 DEF Tiles
  <2>3. /\ T[i] = S[i] /\ P[i] = IF O[i] < O[k] THEN O[i] + S[k] ELSE O[i]
        /\ T[j] = S[j] /\ P[j] = IF O[j] < O[k] THEN O[j] + S[k] ELSE O[j]
    BY <1>6, <2>1
  <2>4. /\ O[i] + S[i] <= O[k] \/ O[k] + S[k] <= O[i]
        /\ O[j] + S[j] <= O[k] \/ O[k] + S[k] <= O[j]
    BY <1>1, <2>1
  <2> QED BY <1>5, <2>1, <2>2, <2>3, <2>4 DEF Apart
<1>4. ASSUME NEW o \in Int, free + S[k] <= o, o < PAGE_SIZE
      PROVE  \E j \in 1 .. n : Holds(P, T, j, o)
  <2>1. CASE o < O[k] + S[k]
    <3>1. free <= o - S[k] /\ o - S[k] < PAGE_SIZE /\ o - S[k] \in Int
      BY <1>4
    <3>2. PICK j \in 1 .. n : Holds(O, S, j, o - S[k])
      BY <3>1 DEF Tiles
    <3>3. j # k /\ S[j] # 0 /\ O[j] < O[k]
      BY <1>4, <1>5, <2>1, <3>2 DEF Holds
    <3>5. T[j] = S[j] /\ P[j] = O[j] + S[k]
      BY <1>6, <3>3
    <3>4. Holds(P, T, j, o)
      BY <1>4, <1>5, <3>2, <3>5 DEF Holds
    <3> QED BY <3>4
  <2>2. CASE O[k] + S[k] <= o
    <3>1. free <= o
      BY <1>4
    <3>2. PICK j \in 1 .. n : Holds(O, S, j, o)
      BY <1>4, <3>1 DEF Tiles
    <3>3. j # k /\ S[j] # 0
      BY <1>4, <1>5, <2>2, <3>2 DEF Holds
    <3>4. ~(O[j] < O[k])
      BY <1>1, <1>4, <1>5, <2>2, <3>2, <3>3 DEF Holds
    <3>6. T[j] = S[j] /\ P[j] = O[j]
      BY <1>6, <3>3, <3>4
    <3>5. Holds(P, T, j, o)
      BY <3>2, <3>6 DEF Holds
    <3> QED BY <3>5
  <2> QED BY <2>1, <2>2
<1> QED BY <1>2, <1>3, <1>4 DEF Tiles

\* The tuples up to and including tuple k move by the difference of its sizes.
WithTupleResized(n, O, S, P, T, k) ==
  /\ S[k] # 0 /\ T[k] # 0 /\ P[k] = O[k] + S[k] - T[k]
  /\ \A j \in 1 .. n : j # k =>
       /\ T[j] = S[j]
       /\ S[j] # 0 => P[j] = IF O[j] < O[k] THEN O[j] + S[k] - T[k] ELSE O[j]

LEMMA TilesAfterUpdate ==
  ASSUME NEW n \in Nat,
         NEW O, NEW S, Numbers(n, O, S), NEW P, NEW T, Numbers(n, P, T),
         NEW free \in Nat, Tiles(n, O, S, free),
         NEW k \in 1 .. n, WithTupleResized(n, O, S, P, T, k),
         NEW low, low = free + S[k] - T[k]
  PROVE  Tiles(n, P, T, low)
<1> USE DEF Numbers, WithTupleResized
<1>1. ASSUME NEW j \in 1 .. n, j # k, S[j] # 0
      PROVE  O[j] + S[j] <= O[k] \/ O[k] + S[k] <= O[j]
  BY <1>1 DEF Tiles, Apart
<1>5. \A j \in 1 .. n : O[j] \in Nat /\ S[j] \in Nat /\ P[j] \in Int /\ T[j] \in Nat
  OBVIOUS
<1>6. ASSUME NEW j \in 1 .. n, j # k, S[j] # 0
      PROVE  T[j] = S[j] /\ P[j] = IF O[j] < O[k] THEN O[j] + S[k] - T[k] ELSE O[j]
  BY <1>6
<1>2. ASSUME NEW j \in 1 .. n, T[j] # 0
      PROVE  Inside(P, T, j, free + S[k] - T[k])
  <2>1. free <= O[k] /\ O[k] + S[k] <= PAGE_SIZE
    BY DEF Tiles, Inside
  <2>2. S[j] # 0 => free <= O[j] /\ O[j] + S[j] <= PAGE_SIZE
    BY DEF Tiles, Inside
  <2>3. CASE j = k
    BY <1>5, <2>1, <2>3 DEF Inside
  <2>4. CASE j # k
    <3>1. S[j] # 0
      BY <1>2, <2>4
    <3> QED BY <1>1, <1>5, <1>6, <2>1, <2>2, <2>4, <3>1 DEF Inside
  <2> QED BY <2>3, <2>4
<1>3. ASSUME NEW i \in 1 .. n, NEW j \in 1 .. n, i # j, T[i] # 0, T[j] # 0
      PROVE  Apart(P, T, i, j)
  <2>1. S[i] # 0 /\ S[j] # 0
    BY <1>3
  <2>2. Apart(O, S, i, j)
    BY <1>3, <2>1 DEF Tiles
  <2>6. ASSUME NEW l \in {i, j}, l # k
        PROVE  /\ T[l] = S[l] /\ P[l] = IF O[l] < O[k] THEN O[l] + S[k] - T[k] ELSE O[l]
               /\ O[l] + S[l] <= O[k] \/ O[k] + S[k] <= O[l]
    BY <1>1, <1>6, <2>1, <2>6
  <2>3. CASE i # k /\ j # k
    BY <1>5, <2>1, <2>2, <2>3, <2>6 DEF Apart
  <2>4. CASE i = k
    BY <1>3, <1>5, <2>1, <2>4, <2>6 DEF Apart
  <2>5. CASE j = k
    BY <1>3, <1>5, <2>1, <2>5, <2>6 DEF Apart
  <2> QED BY <2>3, <2>4, <2>5
<1>4. ASSUME NEW o \in Int, free + S[k] - T[k] <= o, o < PAGE_SIZE
      PROVE  \E j \in 1 .. n : Holds(P, T, j, o)
  <2>1. CASE o < O[k] + S[k] - T[k]
    <3> DEFINE b == o - S[k] + T[k]
    <3>6. O[k] + S[k] <= PAGE_SIZE
      BY DEF Tiles, Inside
    <3>1. b \in Int /\ free <= b /\ b < O[k] /\ b < PAGE_SIZE
      BY <1>4, <1>5, <2>1, <3>6
    <3>2. PICK j \in 1 .. n : Holds(O, S, j, b)
      BY <3>1 DEF Tiles
    <3>3. j # k /\ S[j] # 0 /\ O[j] < O[k]
      BY <1>5, <3>1, <3>2 DEF Holds
    <3>5. T[j] = S[j] /\ P[j] = O[j] + S[k] - T[k]
      BY <1>6, <3>3
    <3>4. Holds(P, T, j, o)
      BY <1>4, <1>5, <3>2, <3>5 DEF Holds
    <3> QED BY <3>4
  <2>2. CASE O[k] + S[k] - T[k] <= o /\ o < O[k] + S[k]
    <3>1. Holds(P, T, k, o)
      BY <1>4, <1>5, <2>2 DEF Holds
    <3> QED BY <3>1
  <2>3. CASE O[k] + S[k] <= o
    <3>7. free <= O[k]
      BY DEF Tiles, Inside
    <3>1. free <= o
      BY <1>4, <1>5, <2>3, <3>7
    <3>2. PICK j \in 1 .. n : Holds(O, S, j, o)
      BY <1>4, <3>1 DEF Tiles
    <3>3. j # k /\ S[j] # 0
      BY <1>4, <1>5, <2>3, <3>2 DEF Holds
    <3>4. ~(O[j] < O[k])
      BY <1>1, <1>4, <1>5, <2>3, <3>2, <3>3 DEF Holds
    <3>6. T[j] = S[j] /\ P[j] = O[j]
      BY <1>6, <3>3, <3>4
    <3>5. Holds(P, T, j, o)
      BY <3>2, <3>6 DEF Holds
    <3> QED BY <3>5
  <2> QED BY <2>1, <2>2, <2>3
<1> QED BY <1>2, <1>3, <1>4 DEF Tiles

-----------------------------------------------------------------------------
(* The slots of a page as a tiling. *)

Offset(p) == [j \in 1 .. Len(p.slots) |-> p.slots[j].offset]

Size(p) == [j \in 1 .. Len(p.slots) |-> Abs(p.slots[j].size)]

RoomForSlots(p) == HeaderSize + SlotSize * Len(p.slots) <= p.free /\ p.free <= PAGE_SIZE

LEMMA AbsFacts == \A n \in Int : Abs(n) \in Nat /\ (Abs(n) = 0 <=> n = 0) /\ Abs(-n) = Abs(n)
BY DEF Abs

LEMMA PageFacts ==
  ASSUME NEW p \in Page
  PROVE  /\ p.free \in Nat /\ p.free <= PAGE_SIZE /\ p.slots \in Seq(Slot) /\ Len(p.slots) \in Nat
         /\ \A j \in 1 .. Len(p.slots) :
              /\ p.slots[j] \in Slot /\ p.slots[j].offset \in Nat /\ p.slots[j].size \in Int
              /\ Offset(p)[j] = p.slots[j].offset /\ Size(p)[j] = Abs(p.slots[j].size)
              /\ Offset(p)[j] \in Nat /\ Size(p)[j] \in Nat
              /\ Size(p)[j] = 0 <=> p.slots[j].size = 0
<1>1. p.free \in Nat /\ p.free <= PAGE_SIZE /\ p.slots \in Seq(Slot) /\ Len(p.slots) \in Nat
  BY DEF Page
<1>2. ASSUME NEW j \in 1 .. Len(p.slots)
      PROVE  p.slots[j] \in Slot /\ p.slots[j].offset \in Nat /\ p.slots[j].size \in Int
  <2>1. p.slots[j] \in Slot
    BY <1>1
  <2>2. \A o \in Slot : o.offset \in 0 .. PAGE_SIZE /\ o.size \in -PAGE_SIZE .. PAGE_SIZE
    BY DEF Slot
  <2> QED BY <2>1, <2>2
<1>3. ASSUME NEW j \in 1 .. Len(p.slots)
      PROVE  Offset(p)[j] = p.slots[j].offset /\ Size(p)[j] = Abs(p.slots[j].size)
  BY DEF Offset, Size
<1> QED BY <1>1, <1>2, <1>3, AbsFacts

LEMMA LayoutTiles ==
  ASSUME NEW p \in Page
  PROVE  PageLayout(p) <=>
           RoomForSlots(p) /\ Tiles(Len(p.slots), Offset(p), Size(p), p.free)
<1> DEFINE n == Len(p.slots)
           O == Offset(p)
           S == Size(p)
<1>1. /\ p.free \in Nat /\ n \in Nat
      /\ \A j \in 1 .. n :
           /\ O[j] \in Nat /\ S[j] \in Nat
           /\ p.slots[j].offset = O[j] /\ Abs(p.slots[j].size) = S[j]
           /\ S[j] = 0 <=> p.slots[j].size = 0
  BY PageFacts
<1>2. \A j \in 1 .. n : Region(p.slots[j]) = O[j] .. O[j] + S[j] - 1
  BY <1>1 DEF Region
<1> HIDE DEF n, O, S
<1>3. ASSUME NEW i \in 1 .. n, NEW j \in 1 .. n
      PROVE  Region(p.slots[i]) \cap Region(p.slots[j]) = {}
               <=> (S[i] # 0 /\ S[j] # 0 => Apart(O, S, i, j))
  <2>1. /\ O[i] \in Nat /\ S[i] \in Nat /\ O[j] \in Nat /\ S[j] \in Nat
        /\ Region(p.slots[i]) = O[i] .. O[i] + S[i] - 1
        /\ Region(p.slots[j]) = O[j] .. O[j] + S[j] - 1
    BY <1>1, <1>2
  <2>2. ASSUME Region(p.slots[i]) \cap Region(p.slots[j]) = {}, S[i] # 0, S[j] # 0
        PROVE  Apart(O, S, i, j)
    <3>1. O[i] \in Region(p.slots[i]) /\ O[j] \in Region(p.slots[j])
      BY <2>1, <2>2
    <3>2. O[i] \notin Region(p.slots[j]) /\ O[j] \notin Region(p.slots[i])
      BY <2>2, <3>1
    <3> QED BY <2>1, <3>2 DEF Apart
  <2>3. ASSUME S[i] # 0 /\ S[j] # 0 => Apart(O, S, i, j)
        PROVE  Region(p.slots[i]) \cap Region(p.slots[j]) = {}
    BY <2>1, <2>3, SMTT(30) DEF Apart
  <2> QED BY <2>2, <2>3
<1>4. ASSUME NEW j \in 1 .. n, NEW o \in Int
      PROVE  o \in Region(p.slots[j]) <=> Holds(O, S, j, o)
  <2>1. O[j] \in Nat /\ S[j] \in Nat /\ Region(p.slots[j]) = O[j] .. O[j] + S[j] - 1
    BY <1>1, <1>2
  <2> QED BY <2>1 DEF Holds
<1>5. (\A o \in p.free .. PAGE_SIZE - 1 : \E j \in 1 .. n : o \in Region(p.slots[j]))
        <=> \A o \in Int : p.free <= o /\ o < PAGE_SIZE => \E j \in 1 .. n : Holds(O, S, j, o)
  BY <1>1, <1>4
<1>6. (\A j \in 1 .. n : p.slots[j].size # 0 =>
         p.free <= p.slots[j].offset /\ p.slots[j].offset + Abs(p.slots[j].size) <= PAGE_SIZE)
        <=> \A j \in 1 .. n : S[j] # 0 => Inside(O, S, j, p.free)
  BY <1>1 DEF Inside
<1>7. (\A i, j \in 1 .. n : i # j => Region(p.slots[i]) \cap Region(p.slots[j]) = {})
        <=> \A i, j \in 1 .. n : i # j /\ S[i] # 0 /\ S[j] # 0 => Apart(O, S, i, j)
  BY <1>3
<1> QED BY <1>5, <1>6, <1>7 DEF PageLayout, Tiles, RoomForSlots, n, O, S

-----------------------------------------------------------------------------
(* Marks. *)

WithSize(p, i, size) == [p EXCEPT !.slots[i].size = size]

\* The page is q but for the size of slot i.
SizeDiffers(p, q, i, size) ==
  /\ q \in Page /\ q.free = p.free /\ q.data = p.data /\ Len(q.slots) = Len(p.slots)
  /\ \A j \in 1 .. Len(p.slots) :
       /\ q.slots[j].offset = p.slots[j].offset
       /\ q.slots[j].size = IF j = i THEN size ELSE p.slots[j].size

LEMMA SizeChanged ==
  ASSUME NEW p \in Page, NEW i \in 1 .. Len(p.slots), NEW size \in Int,
         Abs(size) = Abs(p.slots[i].size)
  PROVE  SizeDiffers(p, WithSize(p, i, size), i, size)
<1> DEFINE q == WithSize(p, i, size)
<1>1. p.slots \in Seq(Slot) /\ p.slots[i] \in Slot /\ size \in -PAGE_SIZE .. PAGE_SIZE
  <2>1. p.slots \in Seq(Slot) /\ p.slots[i] \in Slot
    BY PageFacts
  <2>2. p.slots[i].size \in -PAGE_SIZE .. PAGE_SIZE
    BY <2>1 DEF Slot
  <2> QED BY <2>1, <2>2 DEF Abs
<1> DEFINE slots == [p.slots EXCEPT ![i] = [p.slots[i] EXCEPT !.size = size]]
<1>2. [p.slots[i] EXCEPT !.size = size] \in Slot
  BY <1>1 DEF Slot
<1>3. slots \in Seq(Slot) /\ Len(slots) = Len(p.slots)
  BY <1>1, <1>2
<1>4. \A j \in 1 .. Len(p.slots) :
        slots[j] = IF j = i THEN [p.slots[i] EXCEPT !.size = size] ELSE p.slots[j]
  BY <1>1
<1>5. q = [p EXCEPT !.slots = slots]
  BY DEF Page, WithSize
<1> HIDE DEF slots, q
<1>6. q \in Page /\ q.free = p.free /\ q.data = p.data /\ q.slots = slots
  BY <1>3, <1>5 DEF Page
<1>7. /\ [p.slots[i] EXCEPT !.size = size].offset = p.slots[i].offset
      /\ [p.slots[i] EXCEPT !.size = size].size = size
  BY <1>1 DEF Slot
<1> QED BY <1>3, <1>4, <1>6, <1>7 DEF SizeDiffers, q

LEMMA SameLayout ==
  ASSUME NEW p \in Page, PageLayout(p), NEW q \in Page,
         q.free = p.free, Len(q.slots) = Len(p.slots),
         \A j \in 1 .. Len(p.slots) :
           q.slots[j].offset = p.slots[j].offset /\ Abs(q.slots[j].size) = Abs(p.slots[j].size)
  PROVE  PageLayout(q)
<1>1. Offset(q) = Offset(p) /\ Size(q) = Size(p)
  BY DEF Offset, Size
<1> QED BY <1>1, LayoutTiles DEF RoomForSlots

\* MarkDelete and RollbackDelete change nothing but whether the tuple is there, and the
\* second takes back the first: all bytes stay, so that an abort finds them.
THEOREM MarksKeepPages ==
  ASSUME NEW p \in Page, PageLayout(p), NEW i \in 1 .. Len(p.slots)
  PROVE  /\ MarkDelete(p, i) \in Page /\ PageLayout(MarkDelete(p, i))
         /\ RollbackDelete(p, i) \in Page /\ PageLayout(RollbackDelete(p, i))
         /\ \A j \in 1 .. Len(p.slots) : /\ BytesAt(MarkDelete(p, i), j) = BytesAt(p, j)
                                         /\ BytesAt(RollbackDelete(p, i), j) = BytesAt(p, j)
         /\ Visible(p, i) => Marked(MarkDelete(p, i), i)
         /\ Marked(p, i) => Visible(RollbackDelete(p, i), i)
<1> DEFINE s == p.slots[i].size
           m == MarkDelete(p, i)
           r == RollbackDelete(p, i)
<1>1. s \in Int /\ p.slots \in Seq(Slot) /\ p.slots[i] \in Slot
  BY PageFacts
<1>2. /\ -s \in Int /\ Abs(-s) = Abs(s)
      /\ Abs(s) \in Int /\ Abs(Abs(s)) = Abs(s)
  BY <1>1 DEF Abs
<1>3. m = WithSize(p, i, -s) /\ r = WithSize(p, i, Abs(s))
  BY <1>1 DEF MarkDelete, RollbackDelete, WithSize, Page
<1> HIDE DEF s, m, r
<1>4. SizeDiffers(p, m, i, -s)
  BY <1>2, <1>3, SizeChanged DEF s
<1>5. SizeDiffers(p, r, i, Abs(s))
  BY <1>2, <1>3, SizeChanged DEF s
<1>6. \A j \in 1 .. Len(p.slots) : /\ Abs(m.slots[j].size) = Abs(p.slots[j].size)
                                   /\ Abs(r.slots[j].size) = Abs(p.slots[j].size)
  BY <1>2, <1>4, <1>5 DEF SizeDiffers, s
<1>7. PageLayout(m) /\ PageLayout(r)
  BY <1>4, <1>5, <1>6, SameLayout DEF SizeDiffers
<1>8. \A j \in 1 .. Len(p.slots) : BytesAt(m, j) = BytesAt(p, j) /\ BytesAt(r, j) = BytesAt(p, j)
  BY <1>4, <1>5, <1>6 DEF BytesAt, SizeDiffers
<1>9. (Visible(p, i) => Marked(m, i)) /\ (Marked(p, i) => Visible(r, i))
  BY <1>1, <1>4, <1>5 DEF Visible, Marked, IsSlot, Abs, SizeDiffers, s
<1> QED BY <1>4, <1>5, <1>7, <1>8, <1>9 DEF SizeDiffers, m, r

-----------------------------------------------------------------------------
(* ApplyDelete. *)

\* What the layout says of slot i that has a tuple, and of another one.
LEMMA TuplesApart ==
  ASSUME NEW p \in Page, PageLayout(p), NEW i \in 1 .. Len(p.slots), p.slots[i].size # 0
  PROVE  /\ Size(p)[i] \in Nat \ {0}
         /\ p.free <= Offset(p)[i] /\ Offset(p)[i] + Size(p)[i] <= PAGE_SIZE
         /\ \A j \in 1 .. Len(p.slots) : j # i /\ p.slots[j].size # 0 =>
              \/ Offset(p)[j] + Size(p)[j] <= Offset(p)[i]
              \/ Offset(p)[i] + Size(p)[i] <= Offset(p)[j]
<1>1. Tiles(Len(p.slots), Offset(p), Size(p), p.free)
  BY LayoutTiles
<1>2. \A j \in 1 .. Len(p.slots) :
        /\ Offset(p)[j] \in Nat /\ Size(p)[j] \in Nat
        /\ Size(p)[j] = 0 <=> p.slots[j].size = 0
  BY PageFacts
<1> QED BY <1>1, <1>2 DEF Tiles, Inside, Apart

\* The bytes of a tuple lie in the page.
LEMMA BytesInPage ==
  ASSUME NEW p \in Page, PageLayout(p), NEW j \in 1 .. Len(p.slots), p.slots[j].size # 0
  PROVE  BytesAt(p, j) = [k \in 1 .. Abs(p.slots[j].size) |-> p.data[p.slots[j].offset + k - 1]]
<1> DEFINE o == p.slots[j].offset
           m == Abs(p.slots[j].size)
<1>1. o \in Nat /\ m \in Nat /\ o + m <= PAGE_SIZE /\ PAGE_SIZE \in Nat
  <2>1. o \in Nat /\ m \in Nat
    BY PageFacts
  <2>2. o + m <= PAGE_SIZE
    BY DEF PageLayout
  <2> QED BY <2>1, <2>2
<1>2. BytesAt(p, j) = [k \in 1 .. m |-> ByteAt(p.data, o + k - 1)]
  BY DEF BytesAt
<1> HIDE DEF o, m
<1>3. ASSUME NEW k \in 1 .. m
      PROVE  ByteAt(p.data, o + k - 1) = p.data[o + k - 1]
  <2>1. o + k - 1 \in Offsets
    BY <1>1 DEF Offsets
  <2> QED BY <2>1 DEF ByteAt
<1>4. [k \in 1 .. m |-> ByteAt(p.data, o + k - 1)] = [k \in 1 .. m |-> p.data[o + k - 1]]
  BY <1>3, Zenon
<1> QED BY <1>2, <1>4 DEF o, m

\* What ApplyDelete makes of the slots.
LEMMA SlotsDeleted ==
  ASSUME NEW p \in Page, PageLayout(p), NEW i \in 1 .. Len(p.slots), p.slots[i].size # 0,
         NEW j \in 1 .. Len(p.slots)
  PROVE  /\ SlotsAfterDelete(p, i)[j] \in Slot
         /\ j = i => SlotsAfterDelete(p, i)[j].size = 0 /\ SlotsAfterDelete(p, i)[j].offset = 0
         /\ j # i =>
              /\ SlotsAfterDelete(p, i)[j].size = p.slots[j].size
              /\ p.slots[j].size # 0 =>
                   SlotsAfterDelete(p, i)[j].offset =
                     IF Offset(p)[j] < Offset(p)[i] THEN Offset(p)[j] + Size(p)[i] ELSE Offset(p)[j]
<1> DEFINE s == p.slots[j]
           e == SlotsAfterDelete(p, i)[j]
<1>1. /\ s \in Slot /\ s.offset \in Nat /\ s.size \in Int
      /\ Offset(p)[j] = s.offset /\ Size(p)[j] = Abs(s.size)
      /\ Offset(p)[i] = p.slots[i].offset /\ Size(p)[i] = Abs(p.slots[i].size)
      /\ Offset(p)[i] \in Nat
  BY PageFacts
<1>2. Size(p)[i] \in Nat \ {0} /\ Offset(p)[i] + Size(p)[i] <= PAGE_SIZE
  BY TuplesApart
<1>3. e = IF j = i THEN [offset |-> 0, size |-> 0]
          ELSE IF s.size # 0 /\ s.offset < p.slots[i].offset
          THEN [s EXCEPT !.offset = @ + Abs(p.slots[i].size)]
          ELSE s
  BY DEF SlotsAfterDelete
<1>4. CASE j = i
  BY <1>3, <1>4 DEF Slot
<1>5. CASE j # i /\ s.size # 0 /\ s.offset < p.slots[i].offset
  <2>1. e = [s EXCEPT !.offset = s.offset + Size(p)[i]]
    BY <1>1, <1>3, <1>5 DEF Slot
  <2>2. s.offset + Size(p)[i] \in 0 .. PAGE_SIZE
    BY <1>1, <1>2, <1>5, SMTT(30)
  <2> HIDE DEF s, e
  <2>3. e \in Slot /\ e.size = s.size /\ e.offset = s.offset + Size(p)[i]
    BY <1>1, <2>1, <2>2 DEF Slot
  <2> QED BY <1>1, <1>5, <2>3 DEF s, e
<1>6. CASE j # i /\ ~(s.size # 0 /\ s.offset < p.slots[i].offset)
  BY <1>1, <1>3, <1>6
<1> QED BY <1>4, <1>5, <1>6

\* A sequence of slots of which each is known.
LEMMA SlotSequence ==
  ASSUME NEW n \in Nat, NEW f, f = [j \in 1 .. n |-> f[j]], \A j \in 1 .. n : f[j] \in Slot
  PROVE  f \in Seq(Slot) /\ Len(f) = n
<1>1. f \in [1 .. n -> Slot]
  OBVIOUS
<1> QED BY <1>1

\* The bytes an ApplyDelete moves.
DataAfterDelete(data, free, n, offset) ==
  Forget(Move(data, free + n, free, offset - free), free + n)

BytesMoved(after, data, free, n, offset) ==
  /\ after \in [Offsets -> Bytes \cup {Free}]
  /\ \A o \in Nat : free <= o /\ o < offset => after[o + n] = data[o]
  /\ \A o \in Nat : offset + n <= o /\ o < PAGE_SIZE => after[o] = data[o]

LEMMA BytesDeleted ==
  ASSUME NEW data \in [Offsets -> Bytes \cup {Free}], NEW free \in Nat, NEW n \in Nat,
         NEW offset \in Nat, free <= offset, offset + n <= PAGE_SIZE
  PROVE  BytesMoved(DataAfterDelete(data, free, n, offset), data, free, n, offset)
<1> DEFINE after == DataAfterDelete(data, free, n, offset)
           moved == Move(data, free + n, free, offset - free)
<1>1. \A o \in Offsets : o \in Nat /\ o < PAGE_SIZE
  BY DEF Offsets
<1>2. \A o \in Nat : o < PAGE_SIZE => o \in Offsets
  BY DEF Offsets
<1>3. \A o \in Offsets : moved[o] = IF free + n <= o /\ o < offset + n
                                   THEN data[o - n] ELSE data[o]
  <2> SUFFICES ASSUME NEW o \in Offsets
               PROVE  moved[o] = IF free + n <= o /\ o < offset + n THEN data[o - n] ELSE data[o]
    OBVIOUS
  <2>1. moved[o] = IF o \in (free + n) .. (free + n) + (offset - free) - 1
                   THEN ByteAt(data, free + o - (free + n)) ELSE data[o]
    BY DEF Move
  <2>2. o \in Nat /\ free + o - (free + n) = o - n
    BY <1>1
  <2>3. o \in (free + n) .. (free + n) + (offset - free) - 1
          <=> free + n <= o /\ o < offset + n
    BY <2>2
  <2>4. free + n <= o /\ o < offset + n => o - n \in Offsets
    BY <1>1, <1>2
  <2> QED BY <2>1, <2>2, <2>3, <2>4 DEF ByteAt
<1>4. \A o \in Offsets : after[o] = IF o < free + n THEN Free ELSE moved[o]
  BY DEF Forget, DataAfterDelete
<1>5. after = [o \in Offsets |-> after[o]]
  BY DEF Forget, DataAfterDelete
<1> HIDE DEF moved, after
<1>6. ASSUME NEW o \in Offsets
      PROVE  after[o] \in Bytes \cup {Free}
  <2>1. CASE o < free + n
    BY <1>4, <2>1
  <2>2. CASE free + n <= o /\ o < offset + n
    <3>1. o - n \in Offsets
      BY <1>1, <1>2, <2>2
    <3> QED BY <1>3, <1>4, <1>1, <2>2, <3>1
  <2>3. CASE ~(o < free + n) /\ ~(free + n <= o /\ o < offset + n)
    BY <1>3, <1>4, <2>3
  <2> QED BY <1>1, <2>1, <2>2, <2>3
<1>7. after \in [Offsets -> Bytes \cup {Free}]
  BY <1>5, <1>6
<1>8. ASSUME NEW o \in Nat, free <= o, o < offset
      PROVE  after[o + n] = data[o]
  <2>1. o + n \in Offsets
    BY <1>2, <1>8
  <2>2. after[o + n] = data[(o + n) - n]
    BY <1>3, <1>4, <1>8, <2>1
  <2> QED BY <2>2
<1>9. ASSUME NEW o \in Nat, offset + n <= o, o < PAGE_SIZE
      PROVE  after[o] = data[o]
  BY <1>2, <1>3, <1>4, <1>9
<1> QED BY <1>7, <1>8, <1>9 DEF after, BytesMoved

\* ApplyDelete keeps the page well formed and moves every other tuple, marked ones
\* included, with all of its bytes to where its slot says then.
THEOREM ApplyDeleteKeepsTuples ==
  ASSUME NEW p \in Page, PageLayout(p), NEW i \in 1 .. Len(p.slots), p.slots[i].size # 0
  PROVE  /\ CanApplyDelete(p, i)
         /\ ApplyDelete(p, i) \in Page /\ PageLayout(ApplyDelete(p, i))
         /\ \A j \in 1 .. Len(p.slots) : j # i /\ p.slots[j].size # 0 =>
              BytesAt(ApplyDelete(p, i), j) = BytesAt(p, j)
<1> DEFINE q == ApplyDelete(p, i)
           n == Size(p)[i]
           N == Len(p.slots)
           slots == SlotsAfterDelete(p, i)
           after == DataAfterDelete(p.data, p.free, n, Offset(p)[i])
<1>1. /\ p.free \in Nat /\ p.free <= PAGE_SIZE /\ N \in Nat
      /\ p.data \in [Offsets -> Bytes \cup {Free}] /\ p.next \in Nat
      /\ \A j \in 1 .. N :
           /\ p.slots[j].size \in Int
           /\ Offset(p)[j] = p.slots[j].offset /\ Size(p)[j] = Abs(p.slots[j].size)
           /\ Offset(p)[j] \in Nat /\ Size(p)[j] \in Nat
           /\ Size(p)[j] = 0 <=> p.slots[j].size = 0
  BY PageFacts DEF Page, Data
<1>2. /\ n \in Nat \ {0} /\ Offset(p)[i] \in Nat
      /\ p.free <= Offset(p)[i] /\ Offset(p)[i] + n <= PAGE_SIZE
      /\ \A j \in 1 .. N : j # i /\ p.slots[j].size # 0 =>
           \/ Offset(p)[j] + Size(p)[j] <= Offset(p)[i]
           \/ Offset(p)[i] + n <= Offset(p)[j]
  BY <1>1, TuplesApart
<1>3. slots \in Seq(Slot) /\ Len(slots) = N
  <2>1. slots = [j \in 1 .. N |-> slots[j]]
    BY DEF SlotsAfterDelete
  <2>2. \A j \in 1 .. N : slots[j] \in Slot
    BY SlotsDeleted
  <2> HIDE DEF slots, N
  <2> QED BY <1>1, <2>1, <2>2, SlotSequence
<1>4. q = [p EXCEPT !.free = p.free + n, !.slots = slots, !.data = after]
  BY <1>1 DEF ApplyDelete, DataAfterDelete
<1>5. /\ after \in [Offsets -> Bytes \cup {Free}]
      /\ \A b \in Nat : p.free <= b /\ b < Offset(p)[i] => after[b + n] = p.data[b]
      /\ \A b \in Nat : Offset(p)[i] + n <= b /\ b < PAGE_SIZE => after[b] = p.data[b]
  <2> DEFINE offset == Offset(p)[i]
  <2>1. /\ p.data \in [Offsets -> Bytes \cup {Free}] /\ p.free \in Nat /\ n \in Nat
        /\ offset \in Nat /\ p.free <= offset /\ offset + n <= PAGE_SIZE
    BY <1>1, <1>2
  <2>2. after = DataAfterDelete(p.data, p.free, n, offset)
    OBVIOUS
  <2> HIDE DEF n, after, offset
  <2>3. BytesMoved(DataAfterDelete(p.data, p.free, n, offset), p.data, p.free, n, offset)
    BY <2>1, BytesDeleted
  <2> QED BY <2>2, <2>3 DEF offset, BytesMoved
<1> HIDE DEF q, n, N, slots, after
<1>6. /\ q \in Page /\ q.free = p.free + n /\ q.slots = slots /\ q.data = after
  <2>1. p.free + n \in 0 .. PAGE_SIZE
    BY <1>1, <1>2
  <2> QED BY <1>1, <1>3, <1>4, <1>5, <2>1 DEF Page, Data
<1>7. /\ \A j \in 1 .. N : /\ Offset(q)[j] \in Nat /\ Size(q)[j] \in Nat
                           /\ Offset(q)[j] = slots[j].offset /\ Size(q)[j] = Abs(slots[j].size)
      /\ Size(q)[i] = 0
      /\ \A j \in 1 .. N : j # i =>
           /\ Size(q)[j] = Size(p)[j]
           /\ Size(p)[j] # 0 => Offset(q)[j] = IF Offset(p)[j] < Offset(p)[i]
                                               THEN Offset(p)[j] + n ELSE Offset(p)[j]
  <2>1. \A j \in 1 .. N : /\ Offset(q)[j] \in Nat /\ Size(q)[j] \in Nat
                          /\ Offset(q)[j] = slots[j].offset /\ Size(q)[j] = Abs(slots[j].size)
    BY <1>3, <1>6, PageFacts
  <2>2. \A j \in 1 .. N :
          /\ j = i => slots[j].size = 0
          /\ j # i => /\ slots[j].size = p.slots[j].size
                      /\ p.slots[j].size # 0 =>
                           slots[j].offset = IF Offset(p)[j] < Offset(p)[i]
                                             THEN Offset(p)[j] + n ELSE Offset(p)[j]
    BY SlotsDeleted DEF slots, N, n
  <2>3. Abs(0) = 0
    BY DEF Abs
  <2>4. Size(q)[i] = 0
    <3>1. i \in 1 .. N
      BY DEF N
    <3> QED BY <2>1, <2>2, <2>3, <3>1
  <2>5. ASSUME NEW j \in 1 .. N, j # i
        PROVE  /\ Size(q)[j] = Size(p)[j]
               /\ Size(p)[j] # 0 => Offset(q)[j] = IF Offset(p)[j] < Offset(p)[i]
                                                   THEN Offset(p)[j] + n ELSE Offset(p)[j]
    <3>1. Size(p)[j] = Abs(p.slots[j].size) /\ p.slots[j].size \in Int
      BY PageFacts DEF N
    <3>2. Size(p)[j] # 0 => p.slots[j].size # 0
      BY <2>3, <3>1
    <3> QED BY <2>1, <2>2, <2>5, <3>1, <3>2
  <2> QED BY <2>1, <2>4, <2>5
<1>8. Tiles(N, Offset(q), Size(q), q.free)
  <2>1. Tiles(N, Offset(p), Size(p), p.free)
    BY LayoutTiles DEF N
  <2>2. i \in 1 .. N /\ Size(p)[i] # 0
    BY <1>1 DEF N
  <2>3. q.free = p.free + Size(p)[i]
    BY <1>6 DEF n
  <2>4. \A j \in 1 .. N : j # i =>
           /\ Size(q)[j] = Size(p)[j]
           /\ Size(p)[j] # 0 => Offset(q)[j] = IF Offset(p)[j] < Offset(p)[i]
                                               THEN Offset(p)[j] + Size(p)[i] ELSE Offset(p)[j]
    BY <1>7 DEF n
  <2>5. Numbers(N, Offset(p), Size(p)) /\ Numbers(N, Offset(q), Size(q))
    BY <1>1, <1>7 DEF Numbers
  <2>6. WithoutTuple(N, Offset(p), Size(p), Offset(q), Size(q), i)
    BY <1>7, <2>2, <2>4 DEF WithoutTuple
  <2> QED BY <1>1, <2>1, <2>2, <2>3, <2>5, <2>6, TilesAfterDelete
<1>9. PageLayout(q)
  <2>1. RoomForSlots(p)
    BY LayoutTiles
  <2> DEFINE room == SlotSize * N
  <2>2. room \in Nat /\ HeaderSize + room <= p.free
    BY <1>1, <2>1 DEF RoomForSlots, N
  <2>4. RoomForSlots(q) <=> HeaderSize + room <= q.free /\ q.free <= PAGE_SIZE
    BY <1>3, <1>6 DEF RoomForSlots
  <2> HIDE DEF room
  <2>5. q.free = p.free + n /\ p.free + n <= PAGE_SIZE
    BY <1>1, <1>2, <1>6
  <2>3. RoomForSlots(q)
    BY <1>1, <1>2, <2>2, <2>4, <2>5
  <2> QED BY <1>3, <1>6, <1>8, <2>3, LayoutTiles
<1>10. ASSUME NEW j \in 1 .. N, j # i, p.slots[j].size # 0
       PROVE  BytesAt(q, j) = BytesAt(p, j)
  <2> DEFINE o == Offset(p)[j]
             m == Size(p)[j]
  <2>1. /\ o \in Nat /\ m \in Nat /\ o = p.slots[j].offset /\ m = Abs(p.slots[j].size)
        /\ Size(p)[j] # 0
    BY <1>1, <1>10
  <2>2. /\ Abs(slots[j].size) = m
        /\ slots[j].offset = IF o < Offset(p)[i] THEN o + n ELSE o
    BY <1>7, <1>10, <2>1
  <2>3. p.free <= o /\ o + m <= PAGE_SIZE
    BY <1>10, TuplesApart DEF N
  <2>7. /\ o \in Nat /\ m \in Nat /\ p.free \in Nat /\ n \in Nat /\ Offset(p)[i] \in Nat
        /\ PAGE_SIZE \in Nat
    BY <1>1, <1>2, <2>1
  <2>8. o + m <= Offset(p)[i] \/ Offset(p)[i] + n <= o
    BY <1>2, <1>10
  <2>9. m # 0
    BY <2>1
  <2> HIDE DEF o, m
  <2>4. ASSUME NEW k \in 1 .. m
        PROVE  after[slots[j].offset + k - 1] = p.data[o + k - 1]
    <3>1. o + k - 1 \in Nat /\ p.free <= o + k - 1 /\ o + k - 1 < PAGE_SIZE /\ k \in Nat
      <4>1. k \in Nat /\ 1 <= k /\ k <= m
        BY <2>7
      <4>2. o + k - 1 \in Nat /\ o <= o + k - 1 /\ o + k - 1 < o + m
        BY <2>7, <4>1
      <4> QED BY <2>3, <2>7, <4>1, <4>2
    <3>2. CASE o < Offset(p)[i]
      <4>1. o + k - 1 < Offset(p)[i]
        <5>1. o + m <= Offset(p)[i]
          BY <2>7, <2>8, <3>2
        <5>2. k <= m
          BY <2>7
        <5> QED BY <2>7, <3>1, <5>1, <5>2
      <4>3. slots[j].offset + k - 1 = (o + k - 1) + n
        BY <2>2, <2>7, <3>1, <3>2
      <4>4. after[(o + k - 1) + n] = p.data[o + k - 1]
        BY <1>5, <3>1, <4>1
      <4> QED BY <4>3, <4>4
    <3>3. CASE ~(o < Offset(p)[i])
      <4>1. Offset(p)[i] + n <= o
        BY <2>7, <2>8, <2>9, <3>3
      <4>2. Offset(p)[i] + n <= o + k - 1
        <5>1. 1 <= k
          BY <2>7
        <5> QED BY <2>7, <3>1, <4>1, <5>1
      <4>3. after[o + k - 1] = p.data[o + k - 1]
        BY <1>5, <3>1, <4>2
      <4> QED BY <2>2, <3>3, <4>3
    <3> QED BY <3>2, <3>3
  <2>5. BytesAt(q, j) = [k \in 1 .. m |-> after[slots[j].offset + k - 1]]
    <3>1. j \in 1 .. Len(q.slots) /\ q.slots[j].size # 0 /\ Abs(q.slots[j].size) = m
      BY <1>3, <1>6, <2>2, <2>9 DEF Abs
    <3> QED BY <1>6, <1>9, <3>1, BytesInPage
  <2>6. BytesAt(p, j) = [k \in 1 .. m |-> p.data[o + k - 1]]
    <3>1. j \in 1 .. Len(p.slots) /\ p.slots[j].size # 0
      BY <1>10 DEF N
    <3>2. BytesAt(p, j) =
            [k \in 1 .. Abs(p.slots[j].size) |-> p.data[p.slots[j].offset + k - 1]]
      BY <3>1, BytesInPage
    <3> QED BY <2>1, <3>2
  <2> QED BY <2>4, <2>5, <2>6
<1>11. CanApplyDelete(p, i)
  BY <1>1, <1>2 DEF CanApplyDelete, AboveFree, IsSlot, N
<1> QED BY <1>6, <1>9, <1>10, <1>11 DEF q, N

-----------------------------------------------------------------------------
(* InsertTuple. *)

LEMMA LeastNatural ==
  ASSUME NEW T \in SUBSET Nat, T # {}
  PROVE  \E i \in T : \A j \in T : i <= j
<1> DEFINE R == {ss \in Nat \X Nat : ss[1] < ss[2]}
<1>1. \A x, y \in Nat : <<y, x>> \in R <=> y < x
  OBVIOUS
<1>2. IsWellFoundedOn(R, Nat)
  BY NatLessThanWellFounded, Zenon DEF OpToRel
<1> HIDE DEF R
<1>3. PICK i \in T : \A j \in T : ~(<<j, i>> \in R)
  BY <1>2, WFMin
<1>4. ASSUME NEW j \in T
      PROVE  i <= j
  <2>1. i \in Nat /\ j \in Nat
    BY <1>3
  <2>2. ~(j < i)
    BY <1>1, <1>3, <2>1
  <2> QED BY <2>1, <2>2
<1> QED BY <1>4

LEMMA SlotForEmpty ==
  ASSUME NEW p \in Page, EmptySlots(p) # {}
  PROVE  SlotFor(p) \in EmptySlots(p) /\ EmptySlots(p) \subseteq 1 .. Len(p.slots)
<1>1. EmptySlots(p) \subseteq 1 .. Len(p.slots) /\ EmptySlots(p) \in SUBSET Nat
  BY PageFacts DEF EmptySlots
<1> HIDE DEF EmptySlots
<1>2. \E i \in EmptySlots(p) : \A j \in EmptySlots(p) : i <= j
  BY <1>1, LeastNatural
<1> QED BY <1>1, <1>2 DEF SlotFor

\* The page's room, by the product that the header is short of.
LEMMA RoomForOne ==
  ASSUME NEW n \in Nat
  PROVE  SlotSize * n \in Nat /\ SlotSize * (n + 1) = SlotSize * n + SlotSize
OBVIOUS

\* Where the new tuple goes.
SlotsAfterInsert(p, slot) ==
  IF EmptySlots(p) = {} THEN Append(p.slots, slot) ELSE [p.slots EXCEPT ![SlotFor(p)] = slot]

Inserted(p, slots, slot) ==
  /\ slots \in Seq(Slot) /\ Len(slots) \in Nat
  /\ Len(slots) = IF EmptySlots(p) = {} THEN Len(p.slots) + 1 ELSE Len(p.slots)
  /\ SlotFor(p) \in 1 .. Len(slots) /\ slots[SlotFor(p)] = slot
  /\ SlotFor(p) \in 1 .. Len(p.slots) => p.slots[SlotFor(p)].size = 0
  /\ \A j \in 1 .. Len(slots) : j # SlotFor(p) =>
       j \in 1 .. Len(p.slots) /\ slots[j] = p.slots[j]
  /\ \A j \in 1 .. Len(p.slots) : j \in 1 .. Len(slots)

LEMMA SlotsInserted ==
  ASSUME NEW p \in Page, NEW slot \in Slot
  PROVE  Inserted(p, SlotsAfterInsert(p, slot), slot)
<1> DEFINE slots == SlotsAfterInsert(p, slot)
<1>1. p.slots \in Seq(Slot) /\ Len(p.slots) \in Nat
  BY PageFacts
<1>2. CASE EmptySlots(p) = {}
  <2>1. SlotFor(p) = Len(p.slots) + 1 /\ slots = Append(p.slots, slot)
    BY <1>2 DEF SlotFor, SlotsAfterInsert
  <2> HIDE DEF slots
  <2>2. slots \in Seq(Slot) /\ Len(slots) = Len(p.slots) + 1 /\ slots[Len(p.slots) + 1] = slot
    BY <1>1, <2>1
  <2>3. \A j \in 1 .. Len(p.slots) : slots[j] = p.slots[j]
    BY <1>1, <2>1
  <2>4. SlotFor(p) \notin 1 .. Len(p.slots)
    BY <1>1, <2>1
  <2> QED BY <1>1, <1>2, <2>1, <2>2, <2>3, <2>4 DEF Inserted, slots
<1>3. CASE EmptySlots(p) # {}
  <2>1. SlotFor(p) \in 1 .. Len(p.slots) /\ p.slots[SlotFor(p)].size = 0
    BY <1>3, SlotForEmpty DEF EmptySlots
  <2>4. slots = [p.slots EXCEPT ![SlotFor(p)] = slot]
    BY <1>3 DEF SlotsAfterInsert
  <2> HIDE DEF slots
  <2>2. slots \in Seq(Slot) /\ Len(slots) = Len(p.slots) /\ slots[SlotFor(p)] = slot
    BY <1>1, <2>1, <2>4
  <2>3. \A j \in 1 .. Len(p.slots) : j # SlotFor(p) => slots[j] = p.slots[j]
    BY <1>1, <2>1, <2>4
  <2> QED BY <1>1, <1>3, <2>1, <2>2, <2>3 DEF Inserted, slots
<1> QED BY <1>2, <1>3

\* memcpy of a tuple.
LEMMA BytesPut ==
  ASSUME NEW data \in [Offsets -> Bytes \cup {Free}], NEW to \in Nat, NEW tuple \in Seq(Bytes),
         to + Len(tuple) <= PAGE_SIZE
  PROVE  /\ Put(data, to, tuple) \in [Offsets -> Bytes \cup {Free}]
         /\ \A k \in 1 .. Len(tuple) : Put(data, to, tuple)[to + k - 1] = tuple[k]
         /\ \A o \in Offsets : (o < to \/ to + Len(tuple) <= o) => Put(data, to, tuple)[o] = data[o]
<1> DEFINE n == Len(tuple)
           put == Put(data, to, tuple)
<1>1. n \in Nat /\ \A k \in 1 .. n : tuple[k] \in Bytes
  OBVIOUS
<1>2. \A o \in Offsets : o \in Nat /\ o < PAGE_SIZE
  BY DEF Offsets
<1>3. \A o \in Nat : o < PAGE_SIZE => o \in Offsets
  BY DEF Offsets
<1>4. put = [o \in Offsets |-> put[o]]
  BY DEF Put
<1>5. \A o \in Offsets : put[o] = IF o \in to .. to + n - 1 THEN tuple[o - to + 1] ELSE data[o]
  BY DEF Put
<1> HIDE DEF n, put
<1>6. ASSUME NEW o \in Offsets
      PROVE  put[o] \in Bytes \cup {Free}
  <2>1. CASE o \in to .. to + n - 1
    <3>1. o - to + 1 \in 1 .. n
      BY <1>1, <1>2, <2>1
    <3> QED BY <1>1, <1>5, <2>1, <3>1
  <2>2. CASE o \notin to .. to + n - 1
    BY <1>5, <2>2
  <2> QED BY <2>1, <2>2
<1>7. put \in [Offsets -> Bytes \cup {Free}]
  BY <1>4, <1>6
<1>8. ASSUME NEW k \in 1 .. n
      PROVE  put[to + k - 1] = tuple[k]
  <2>1. k \in Nat /\ 1 <= k /\ k <= n
    BY <1>1
  <2>2. to + k - 1 \in Nat /\ to + k - 1 < PAGE_SIZE /\ to + k - 1 \in to .. to + n - 1
    BY <1>1, <2>1 DEF n
  <2>3. (to + k - 1) - to + 1 = k
    BY <2>1
  <2>4. put[to + k - 1] = tuple[(to + k - 1) - to + 1]
    BY <1>3, <1>5, <2>2
  <2> QED BY <2>3, <2>4
<1>9. ASSUME NEW o \in Offsets, o < to \/ to + n <= o
      PROVE  put[o] = data[o]
  BY <1>1, <1>2, <1>5, <1>9
<1> QED BY <1>7, <1>8, <1>9 DEF n, put

\* InsertTuple, in a slot that was empty or in a new one, keeps the page well formed and the
\* bytes of every other tuple, and the new slot reads back what was inserted.
THEOREM InsertTupleKeepsTuples ==
  ASSUME NEW p \in Page, PageLayout(p), NEW tuple \in Seq(Bytes), tuple # <<>>, Fits(p, tuple)
  PROVE  /\ InsertTuple(p, tuple) \in Page /\ PageLayout(InsertTuple(p, tuple))
         /\ Visible(InsertTuple(p, tuple), SlotFor(p))
         /\ BytesAt(InsertTuple(p, tuple), SlotFor(p)) = tuple
         /\ \A j \in 1 .. Len(p.slots) : p.slots[j].size # 0 =>
              j # SlotFor(p) /\ BytesAt(InsertTuple(p, tuple), j) = BytesAt(p, j)
<1> DEFINE q == InsertTuple(p, tuple)
           N == Len(p.slots)
           len == Len(tuple)
           free == p.free - len
           slot == [offset |-> free, size |-> len]
           slots == SlotsAfterInsert(p, slot)
           data == Put(p.data, free, tuple)
           k == SlotFor(p)
           m == Len(slots)
<1>1. /\ p.free \in Nat /\ p.free <= PAGE_SIZE /\ N \in Nat
      /\ p.data \in [Offsets -> Bytes \cup {Free}] /\ p.next \in Nat
  BY PageFacts DEF Page, Data
<1>2. \A j \in 1 .. N :
        /\ p.slots[j].size \in Int
        /\ Offset(p)[j] = p.slots[j].offset /\ Size(p)[j] = Abs(p.slots[j].size)
        /\ Offset(p)[j] \in Nat /\ Size(p)[j] \in Nat
        /\ Size(p)[j] = 0 <=> p.slots[j].size = 0
  BY PageFacts
<1>3. len \in Nat \ {0}
  OBVIOUS
<1>4. /\ free \in Nat /\ free < p.free
      /\ HeaderSize + SlotSize * N <= free
      /\ EmptySlots(p) = {} => HeaderSize + SlotSize * (N + 1) <= free
  <2> DEFINE room == SlotSize * N
  <2>1. room \in Nat /\ SlotSize * (N + 1) = room + SlotSize
    BY <1>1, RoomForOne
  <2>2. /\ p.free - HeaderSize - room >= len
        /\ EmptySlots(p) = {} => p.free - HeaderSize - room >= len + SlotSize
    BY DEF Fits, GetFreeSpaceSize
  <2> HIDE DEF room, len
  <2>3. /\ free \in Nat /\ free < p.free /\ HeaderSize + room <= free
        /\ EmptySlots(p) = {} => HeaderSize + room + SlotSize <= free
    BY <1>1, <1>3, <2>1, <2>2, SMTT(30)
  <2> QED BY <2>1, <2>3 DEF room
<1>5. slot \in Slot /\ slot.offset = free /\ slot.size = len
  BY <1>1, <1>3, <1>4 DEF Slot
<1>6. /\ slots \in Seq(Slot) /\ m \in Nat
      /\ m = IF EmptySlots(p) = {} THEN N + 1 ELSE N
      /\ k \in 1 .. m /\ slots[k] = slot
      /\ k \in 1 .. N => p.slots[k].size = 0
      /\ \A j \in 1 .. m : j # k => j \in 1 .. N /\ slots[j] = p.slots[j]
      /\ \A j \in 1 .. N : j \in 1 .. m
  <2> HIDE DEF slot
  <2>1. Inserted(p, slots, slot)
    BY <1>5, SlotsInserted
  <2> QED BY <2>1 DEF Inserted
<1>7. /\ data \in [Offsets -> Bytes \cup {Free}]
      /\ \A b \in 1 .. len : data[free + b - 1] = tuple[b]
      /\ \A o \in Offsets : o >= p.free => data[o] = p.data[o]
  <2>1. free + len = p.free /\ free + len <= PAGE_SIZE
    BY <1>1, <1>3
  <2> HIDE DEF free
  <2>2. /\ data \in [Offsets -> Bytes \cup {Free}]
        /\ \A b \in 1 .. len : data[free + b - 1] = tuple[b]
        /\ \A o \in Offsets : (o < free \/ free + len <= o) => data[o] = p.data[o]
    BY <1>1, <1>4, <2>1, BytesPut
  <2>3. \A o \in Offsets : o \in Nat
    BY DEF Offsets
  <2> QED BY <1>1, <2>1, <2>2, <2>3
<1>8. q = [p EXCEPT !.free = free, !.slots = slots, !.data = data]
  BY DEF InsertTuple, SlotsAfterInsert, Page
<1> HIDE DEF q, N, len, free, slot, slots, data, k, m
<1>9. q \in Page /\ q.free = free /\ q.slots = slots /\ q.data = data
  <2>1. free \in 0 .. PAGE_SIZE
    BY <1>1, <1>4
  <2> QED BY <1>1, <1>6, <1>7, <1>8, <2>1 DEF Page, Data
<1>10. /\ \A j \in 1 .. m : /\ Offset(q)[j] \in Nat /\ Size(q)[j] \in Nat
                            /\ Offset(q)[j] = slots[j].offset /\ Size(q)[j] = Abs(slots[j].size)
  BY <1>9, PageFacts DEF m
<1>11. Offset(q)[k] = free /\ Size(q)[k] = p.free - free
  <2>1. Abs(len) = len /\ p.free - free = len
    BY <1>1, <1>3 DEF Abs, free
  <2> QED BY <1>5, <1>6, <1>10, <2>1
<1>12. Tiles(m, Offset(q), Size(q), free)
  <2>1. Tiles(N, Offset(p), Size(p), p.free)
    BY LayoutTiles DEF N
  <2>2. Numbers(N, Offset(p), Size(p)) /\ Numbers(m, Offset(q), Size(q))
    BY <1>2, <1>10 DEF Numbers
  <2>3. WithTuple(N, Offset(p), Size(p), m, Offset(q), Size(q), k)
    <3>1. k \in 1 .. N => Size(p)[k] = 0
      BY <1>2, <1>6
    <3>2. ASSUME NEW j \in 1 .. m, j # k
          PROVE  j \in 1 .. N /\ Offset(q)[j] = Offset(p)[j] /\ Size(q)[j] = Size(p)[j]
      <4>1. j \in 1 .. N /\ slots[j] = p.slots[j]
        BY <1>6, <3>2
      <4>2. Offset(q)[j] = slots[j].offset /\ Size(q)[j] = Abs(slots[j].size)
        BY <1>10
      <4>3. Offset(p)[j] = p.slots[j].offset /\ Size(p)[j] = Abs(p.slots[j].size)
        BY <1>2, <4>1
      <4> QED BY <4>1, <4>2, <4>3, Zenon
    <3> QED BY <1>6, <3>1, <3>2, SMTT(30) DEF WithTuple
  <2> QED BY <1>1, <1>4, <1>6, <1>11, <2>1, <2>2, <2>3, TilesAfterInsert
<1>13. PageLayout(q)
  <2>1. RoomForSlots(q)
    <3>1. Len(q.slots) = m
      BY <1>9 DEF m
    <3> QED BY <1>1, <1>4, <1>6, <1>9, <3>1 DEF RoomForSlots
  <2> QED BY <1>9, <1>12, <2>1, LayoutTiles DEF m
<1>14. Visible(q, k)
  BY <1>3, <1>5, <1>6, <1>9 DEF Visible, IsSlot, m
<1>15. BytesAt(q, k) = tuple
  <2>1. Abs(q.slots[k].size) = len /\ q.slots[k].offset = free
    BY <1>3, <1>5, <1>6, <1>9 DEF Abs
  <2>2. BytesAt(q, k) = [b \in 1 .. len |-> data[free + b - 1]]
    <3>1. k \in 1 .. Len(q.slots) /\ q.slots[k].size # 0
      BY <1>14 DEF Visible, IsSlot
    <3> QED BY <1>9, <1>13, <2>1, <3>1, BytesInPage
  <2>3. tuple = [b \in 1 .. len |-> tuple[b]]
    BY DEF len
  <2> QED BY <1>7, <2>2, <2>3
<1>16. ASSUME NEW j \in 1 .. N, p.slots[j].size # 0
       PROVE  j # k /\ BytesAt(q, j) = BytesAt(p, j)
  <2> DEFINE o == p.slots[j].offset
             n == Abs(p.slots[j].size)
  <2>1. j # k /\ q.slots[j] = p.slots[j]
    BY <1>6, <1>9, <1>16
  <2>2. o \in Nat /\ n \in Nat /\ p.free <= o /\ o + n <= PAGE_SIZE
    BY <1>2, <1>16, TuplesApart DEF N
  <2>3. BytesAt(q, j) = [b \in 1 .. n |-> data[o + b - 1]]
    <3>1. j \in 1 .. Len(q.slots)
      BY <1>6, <1>9 DEF m
    <3> QED BY <1>9, <1>13, <1>16, <2>1, <3>1, BytesInPage
  <2>4. BytesAt(p, j) = [b \in 1 .. n |-> p.data[o + b - 1]]
    BY <1>16, BytesInPage DEF N
  <2> HIDE DEF o, n
  <2>5. ASSUME NEW b \in 1 .. n
        PROVE  data[o + b - 1] = p.data[o + b - 1]
    <3>1. b \in Nat /\ 1 <= b /\ b <= n
      BY <2>2
    <3>2. o + b - 1 \in Offsets /\ o + b - 1 >= p.free
      BY <1>1, <2>2, <3>1 DEF Offsets
    <3> QED BY <1>7, <3>2
  <2> QED BY <2>1, <2>3, <2>4, <2>5
<1> QED BY <1>9, <1>13, <1>14, <1>15, <1>16 DEF q, N, k

-----------------------------------------------------------------------------
(* UpdateTuple. *)

\* What UpdateTuple makes of slot j.
SlotUpdated(p, i, len, j, slot) ==
  /\ slot \in Slot
  /\ j = i => slot.size = len /\ slot.offset = Offset(p)[i] + Size(p)[i] - len
  /\ j # i =>
       /\ slot.size = p.slots[j].size
       /\ p.slots[j].size # 0 =>
            slot.offset = IF Offset(p)[j] < Offset(p)[i] THEN Offset(p)[j] + Size(p)[i] - len
                          ELSE Offset(p)[j]

\* A tuple at offset o that is at or in front of the end of the updated one stays in the
\* page when it moves by n - len bytes.
LEMMA StaysInPage ==
  ASSUME NEW f \in Nat, NEW a \in Nat, NEW n \in Nat, NEW len \in Nat, NEW size \in Nat,
         f <= a, a + n <= size, f + n - len >= 0, NEW o \in Nat, f <= o, o <= a
  PROVE  o + n - len \in 0 .. size /\ len \in -size .. size
<1>1. 0 <= o + n - len /\ o + n - len <= size
  OBVIOUS
<1>2. len <= size /\ -size <= len
  OBVIOUS
<1> QED BY <1>1, <1>2

\* SlotsAfterUpdate gives every slot what SlotUpdated says.
LEMMA SlotsUpdated ==
  ASSUME NEW p \in Page, PageLayout(p), NEW i \in 1 .. Len(p.slots), p.slots[i].size > 0,
         NEW tuple, Len(tuple) \in Nat \ {0}, MovesNoMarked(p, i, tuple),
         p.free + p.slots[i].size - Len(tuple) >= 0,
         NEW j \in 1 .. Len(p.slots)
  PROVE  SlotUpdated(p, i, Len(tuple), j, SlotsAfterUpdate(p, i, tuple)[j])
<1> DEFINE s == p.slots[j]
           e == SlotsAfterUpdate(p, i, tuple)[j]
           len == Len(tuple)
           O == Offset(p)[i]
           n == Size(p)[i]
<1>1. /\ s \in Slot /\ s.offset \in Nat /\ s.offset <= PAGE_SIZE /\ s.size \in Int
      /\ Offset(p)[j] = s.offset /\ Size(p)[j] = Abs(s.size)
      /\ O = p.slots[i].offset /\ O \in Nat /\ n = Abs(p.slots[i].size)
  BY PageFacts, SMTT(30) DEF Slot
<1>2. /\ p.slots[i].size = n /\ n \in Nat \ {0}
      /\ p.free \in Nat /\ p.free <= O /\ O + n <= PAGE_SIZE
  <2>1. p.slots[i].size \in Int /\ p.free \in Nat
    BY PageFacts
  <2> QED BY <1>1, <2>1, TuplesApart DEF Abs
<1>3. e = [offset |-> IF s.size > 0 /\ s.offset < O + n THEN s.offset + n - len ELSE s.offset,
           size |-> IF j = i THEN len ELSE s.size]
  <2>1. e = [offset |-> IF s.size > 0 /\ s.offset < p.slots[i].offset + p.slots[i].size
                        THEN s.offset + (p.slots[i].size - len) ELSE s.offset,
             size |-> IF j = i THEN len ELSE s.size]
    BY DEF SlotsAfterUpdate
  <2>2. s.offset + (n - len) = s.offset + n - len
    BY <1>1, <1>2
  <2> QED BY <1>1, <1>2, <2>1, <2>2
<1>4. j # i /\ s.size # 0 =>
        /\ p.free <= s.offset
        /\ s.offset + Size(p)[j] <= O \/ O + n <= s.offset
        /\ Size(p)[j] \in Nat \ {0}
  BY <1>1, TuplesApart
<1>5. j # i /\ s.size < 0 => len = n \/ O < s.offset
  BY <1>1, <1>2 DEF MovesNoMarked, Marked, IsSlot
<1>6. p.free + n - len >= 0
  BY <1>2
<1> HIDE DEF s, e, len, O, n
<1>7. len \in Nat \ {0}
  BY DEF len
<1>10. /\ s.offset \in Nat /\ s.offset <= PAGE_SIZE /\ s.size \in Int /\ PAGE_SIZE \in Nat
       /\ O \in Nat /\ n \in Nat /\ n # 0 /\ p.free \in Nat /\ len \in Nat /\ len # 0
       /\ p.free <= O /\ O + n <= PAGE_SIZE /\ p.free + n - len >= 0
  BY <1>1, <1>2, <1>6, <1>7
<1>11. ASSUME j # i, s.size # 0
       PROVE  p.free <= s.offset /\ (s.offset < O \/ O + n <= s.offset)
  <2> DEFINE z == Size(p)[j]
             o == s.offset
  <2>1. p.free <= o /\ (o + z <= O \/ O + n <= o) /\ z \in Nat /\ z # 0
    BY <1>4, <1>11
  <2>2. o \in Nat
    BY <1>10
  <2> HIDE DEF z, o
  <2>3. o < O \/ O + n <= o
    BY <1>10, <2>1, <2>2
  <2> QED BY <2>1, <2>3 DEF o
<1>8. CASE j = i
  <2>1. s.size = n /\ s.offset = O
    BY <1>1, <1>2, <1>8 DEF s
  <2>2. e = [offset |-> O + n - len, size |-> len]
    BY <1>1, <1>2, <1>3, <1>8, <2>1
  <2>3. O + n - len \in 0 .. PAGE_SIZE /\ len \in -PAGE_SIZE .. PAGE_SIZE
    <3>1. O <= O
      BY <1>10
    <3> QED BY <1>10, <3>1, StaysInPage
  <2> QED BY <1>8, <2>2, <2>3 DEF SlotUpdated, Slot, e, len, O, n
<1>9. CASE j # i
  <2>1. CASE s.size = 0
    <3>1. e = [offset |-> s.offset, size |-> s.size]
      BY <1>3, <1>9, <2>1
    <3> QED BY <1>1, <1>9, <2>1, <3>1 DEF SlotUpdated, Slot, s, e
  <2>2. CASE s.size # 0 /\ s.offset < O
    <3>1. s.size > 0 \/ len = n
      BY <1>1, <1>5, <1>9, <2>2
    <3>2. s.offset < O + n
      BY <1>10, <2>2
    <3>3. (len = n => s.offset + n - len = s.offset) /\ e.size = s.size
      BY <1>1, <1>3, <1>7, <1>9
    <3>4. e = [offset |-> s.offset + n - len, size |-> s.size]
      BY <1>3, <1>9, <3>1, <3>2, <3>3
    <3>5. s.offset + n - len \in 0 .. PAGE_SIZE
      <4>1. p.free <= s.offset /\ s.offset <= O
        BY <1>9, <1>10, <1>11, <2>2
      <4> QED BY <1>10, <4>1, StaysInPage
    <3>6. s.size \in -PAGE_SIZE .. PAGE_SIZE
      BY <1>1 DEF Slot
    <3> QED BY <1>1, <1>9, <2>2, <3>4, <3>5, <3>6 DEF SlotUpdated, Slot, s, e, len, O, n
  <2>3. CASE s.size # 0 /\ ~(s.offset < O)
    <3>1. ~(s.offset < O + n)
      BY <1>9, <1>10, <1>11, <2>3
    <3>2. e = [offset |-> s.offset, size |-> s.size]
      BY <1>3, <1>9, <3>1
    <3> QED BY <1>1, <1>9, <2>3, <3>2 DEF SlotUpdated, Slot, s, e, len, O, n
  <2> QED BY <2>1, <2>2, <2>3
<1> QED BY <1>8, <1>9

\* The bytes an UpdateTuple of n bytes at offset moves and writes.
DataAfterUpdate(data, free, n, offset, tuple) ==
  Forget(Put(Move(data, free + (n - Len(tuple)), free, offset - free),
             offset + (n - Len(tuple)), tuple),
         free + (n - Len(tuple)))

BytesUpdated(after, data, free, n, offset, tuple) ==
  /\ after \in [Offsets -> Bytes \cup {Free}]
  /\ \A k \in 1 .. Len(tuple) : after[offset + n - Len(tuple) + k - 1] = tuple[k]
  /\ \A o \in Nat : free <= o /\ o < offset => after[o + n - Len(tuple)] = data[o]
  /\ \A o \in Nat : offset + n <= o /\ o < PAGE_SIZE => after[o] = data[o]

LEMMA BytesAfterUpdate ==
  ASSUME NEW data \in [Offsets -> Bytes \cup {Free}], NEW free \in Nat, NEW n \in Nat,
         NEW offset \in Nat, free <= offset, offset + n <= PAGE_SIZE,
         NEW tuple \in Seq(Bytes), Len(tuple) > 0, free + n - Len(tuple) >= 0
  PROVE  BytesUpdated(DataAfterUpdate(data, free, n, offset, tuple), data, free, n, offset, tuple)
<1> DEFINE len == Len(tuple)
           d == n - len
           moved == Move(data, free + d, free, offset - free)
           put == Put(moved, offset + d, tuple)
           after == DataAfterUpdate(data, free, n, offset, tuple)
<1>1. len \in Nat \ {0} /\ d \in Int /\ d < n /\ free + d >= 0 /\ d = n - len
  OBVIOUS
<1>2. \A o \in Offsets : o \in Nat /\ o < PAGE_SIZE
  BY DEF Offsets
<1>3. \A o \in Nat : o < PAGE_SIZE => o \in Offsets
  BY DEF Offsets
<1>4. moved = [o \in Offsets |-> moved[o]]
  BY DEF Move
<1>5. ASSUME NEW o \in Offsets
      PROVE  moved[o] = IF free + d <= o /\ o < offset + d THEN data[o - d] ELSE data[o]
  <2>1. moved[o] = IF o \in (free + d) .. (free + d) + (offset - free) - 1
                   THEN ByteAt(data, free + o - (free + d)) ELSE data[o]
    BY DEF Move
  <2> HIDE DEF moved, d
  <2>2. o \in Nat /\ free + o - (free + d) = o - d
    BY <1>1, <1>2
  <2>3. o \in (free + d) .. (free + d) + (offset - free) - 1 <=> free + d <= o /\ o < offset + d
    BY <1>1, <2>2
  <2>4. free + d <= o /\ o < offset + d => o - d \in Offsets
    BY <1>1, <1>3, <2>2
  <2> QED BY <2>1, <2>2, <2>3, <2>4 DEF ByteAt
<1> HIDE DEF moved
<1>6. moved \in [Offsets -> Bytes \cup {Free}]
  <2> SUFFICES ASSUME NEW o \in Offsets PROVE moved[o] \in Bytes \cup {Free}
    BY <1>4
  <2> HIDE DEF d
  <2>1. CASE free + d <= o /\ o < offset + d
    <3>1. o - d \in Offsets
      <4>1. o \in Nat /\ o - d >= free /\ o - d < offset
        BY <1>1, <1>2, <2>1
      <4> QED BY <1>1, <1>3, <4>1
    <3> QED BY <1>5, <2>1, <3>1
  <2>2. CASE ~(free + d <= o /\ o < offset + d)
    BY <1>5, <2>2
  <2> QED BY <2>1, <2>2
<1>7. offset + d \in Nat /\ (offset + d) + len = offset + n /\ (offset + d) + len <= PAGE_SIZE
  BY <1>1
<1>8. /\ put \in [Offsets -> Bytes \cup {Free}]
      /\ \A k \in 1 .. len : put[(offset + d) + k - 1] = tuple[k]
      /\ \A o \in Offsets : (o < offset + d \/ (offset + d) + len <= o) => put[o] = moved[o]
  <2> DEFINE to == offset + d
  <2>1. to \in Nat /\ to + Len(tuple) <= PAGE_SIZE
    BY <1>7
  <2> HIDE DEF to
  <2>2. /\ Put(moved, to, tuple) \in [Offsets -> Bytes \cup {Free}]
        /\ \A k \in 1 .. Len(tuple) : Put(moved, to, tuple)[to + k - 1] = tuple[k]
        /\ \A o \in Offsets : (o < to \/ to + Len(tuple) <= o) => Put(moved, to, tuple)[o] = moved[o]
    BY <1>6, <2>1, BytesPut
  <2> QED BY <2>2 DEF to
<1>9. after = Forget(put, free + d)
  BY DEF DataAfterUpdate, moved
<1> HIDE DEF put, after, d, len
<1>10. /\ after = [o \in Offsets |-> after[o]]
       /\ \A o \in Offsets : after[o] = IF o < free + d THEN Free ELSE put[o]
  BY <1>9 DEF Forget
<1>11. after \in [Offsets -> Bytes \cup {Free}]
  BY <1>8, <1>10
<1>12. ASSUME NEW k \in 1 .. len
       PROVE  after[offset + n - len + k - 1] = tuple[k]
  <2>1. k \in Nat /\ 1 <= k /\ k <= len
    BY <1>1
  <2>2. offset + n - len + k - 1 = (offset + d) + k - 1
    BY <1>1, <2>1
  <2>3. (offset + d) + k - 1 \in Nat /\ (offset + d) + k - 1 < PAGE_SIZE
    BY <1>1, <1>7, <2>1
  <2>4. ~((offset + d) + k - 1 < free + d)
    BY <1>1, <2>1
  <2>5. (offset + d) + k - 1 \in Offsets
    BY <1>3, <2>3
  <2> QED BY <1>8, <1>10, <2>2, <2>4, <2>5
<1>13. ASSUME NEW o \in Nat, free <= o, o < offset
       PROVE  after[o + n - len] = data[o]
  <2>1. o + n - len = o + d
    BY <1>1
  <2>2. o + d \in Nat /\ o + d < PAGE_SIZE
    BY <1>1, <1>13
  <2>3. o + d \in Offsets /\ ~(o + d < free + d) /\ free + d <= o + d /\ o + d < offset + d
    BY <1>1, <1>3, <1>13, <2>2
  <2>4. (o + d) - d = o
    BY <1>1
  <2>5. moved[o + d] = data[(o + d) - d]
    BY <1>5, <2>3
  <2> QED BY <1>8, <1>10, <2>1, <2>3, <2>4, <2>5
<1>14. ASSUME NEW o \in Nat, offset + n <= o, o < PAGE_SIZE
       PROVE  after[o] = data[o]
  <2>1. o \in Offsets
    BY <1>3, <1>14
  <2>2. ~(o < free + d) /\ ~(o < offset + d) /\ (offset + d) + len <= o
    BY <1>1, <1>7, <1>14
  <2> QED BY <1>5, <1>8, <1>10, <2>1, <2>2
<1> QED BY <1>11, <1>12, <1>13, <1>14 DEF BytesUpdated, len, after

\* UpdateTuple keeps the page well formed and the bytes of every other tuple, and the slot
\* reads back what was written - provided that the update does not move a marked tuple: its
\* offset is not corrected (table_page.cpp tests the size for > 0).
THEOREM UpdateTupleKeepsTuples ==
  ASSUME NEW p \in Page, PageLayout(p), NEW i \in 1 .. Len(p.slots), NEW tuple \in Seq(Bytes),
         tuple # <<>>, CanUpdate(p, i, tuple), MovesNoMarked(p, i, tuple)
  PROVE  /\ UpdateTuple(p, i, tuple) \in Page /\ PageLayout(UpdateTuple(p, i, tuple))
         /\ BytesAt(UpdateTuple(p, i, tuple), i) = tuple
         /\ \A j \in 1 .. Len(p.slots) : j # i /\ p.slots[j].size # 0 =>
              BytesAt(UpdateTuple(p, i, tuple), j) = BytesAt(p, j)
<1> DEFINE q == UpdateTuple(p, i, tuple)
           N == Len(p.slots)
           len == Len(tuple)
           n == Size(p)[i]
           O == Offset(p)[i]
           low == p.free + n - len
           slots == SlotsAfterUpdate(p, i, tuple)
           data == DataAfterUpdate(p.data, p.free, n, O, tuple)
<1>1. /\ p.free \in Nat /\ p.free <= PAGE_SIZE /\ N \in Nat
      /\ p.data \in [Offsets -> Bytes \cup {Free}] /\ p.next \in Nat
  BY PageFacts DEF Page, Data
<1>2. \A j \in 1 .. N :
        /\ p.slots[j].size \in Int
        /\ Offset(p)[j] = p.slots[j].offset /\ Size(p)[j] = Abs(p.slots[j].size)
        /\ Offset(p)[j] \in Nat /\ Size(p)[j] \in Nat
        /\ Size(p)[j] = 0 <=> p.slots[j].size = 0
  BY PageFacts
<1>3. len \in Nat /\ len # 0
  OBVIOUS
<1>4. /\ p.slots[i].size > 0 /\ p.slots[i].size # 0
      /\ n = p.slots[i].size /\ O = p.slots[i].offset /\ n \in Nat /\ n # 0 /\ O \in Nat
      /\ p.free <= O /\ O + n <= PAGE_SIZE
  <2>1. p.slots[i].size > 0 /\ p.slots[i].size \in Int
    BY <1>2 DEF CanUpdate, Visible, IsSlot
  <2>2. Abs(p.slots[i].size) = p.slots[i].size
    BY <2>1 DEF Abs
  <2> QED BY <1>2, <2>1, <2>2, TuplesApart
<1>5. low \in Nat /\ low <= PAGE_SIZE /\ HeaderSize + SlotSize * N <= low
  <2> DEFINE room == SlotSize * N
  <2>1. room \in Nat
    BY <1>1, RoomForOne
  <2>2. p.free - HeaderSize - room >= len - n
    BY <1>4 DEF CanUpdate, GetFreeSpaceSize
  <2>4. /\ n \in Nat /\ O \in Nat /\ len \in Nat /\ p.free \in Nat /\ HeaderSize \in Nat
        /\ p.free <= O /\ O + n <= PAGE_SIZE /\ PAGE_SIZE \in Nat
    BY <1>1, <1>3, <1>4
  <2> HIDE DEF room, len, n, O
  <2>3. low \in Nat /\ low <= PAGE_SIZE /\ HeaderSize + room <= low
    BY <2>1, <2>2, <2>4, SMTT(30)
  <2> QED BY <2>3 DEF room
<1>6. \A j \in 1 .. N : SlotUpdated(p, i, len, j, slots[j])
  <2>1. p.free + p.slots[i].size - Len(tuple) >= 0
    BY <1>4, <1>5
  <2>2. Len(tuple) \in Nat \ {0}
    BY <1>3
  <2> QED BY <1>4, <2>1, <2>2, SlotsUpdated
<1>7. slots \in Seq(Slot) /\ Len(slots) = N
  <2>1. slots = [j \in 1 .. N |-> slots[j]]
    BY DEF SlotsAfterUpdate
  <2>2. \A j \in 1 .. N : slots[j] \in Slot
    BY <1>6 DEF SlotUpdated
  <2> HIDE DEF slots, N
  <2> QED BY <1>1, <2>1, <2>2, SlotSequence
<1>8. BytesUpdated(data, p.data, p.free, n, O, tuple)
  <2>1. Len(tuple) > 0 /\ p.free + n - Len(tuple) >= 0
    BY <1>3, <1>5
  <2> HIDE DEF n, O
  <2> QED BY <1>1, <1>4, <2>1, BytesAfterUpdate
<1>9. q = [p EXCEPT !.free = low, !.slots = slots, !.data = data]
  <2>1. /\ p.slots[i].size = n /\ p.slots[i].offset = O /\ p.free + (n - len) = low
    BY <1>1, <1>3, <1>4
  <2> HIDE DEF n, O, low
  <2> QED BY <2>1 DEF UpdateTuple, DataAfterUpdate
<1> HIDE DEF q, N, len, n, O, low, slots, data
<1>10. q \in Page /\ q.free = low /\ q.slots = slots /\ q.data = data
  <2>1. low \in 0 .. PAGE_SIZE
    BY <1>1, <1>5
  <2>2. data \in [Offsets -> Bytes \cup {Free}]
    BY <1>8 DEF BytesUpdated
  <2> QED BY <1>1, <1>7, <1>9, <2>1, <2>2 DEF Page, Data
<1>11. \A j \in 1 .. N : /\ Offset(q)[j] \in Nat /\ Size(q)[j] \in Nat
                         /\ Offset(q)[j] = slots[j].offset /\ Size(q)[j] = Abs(slots[j].size)
  BY <1>7, <1>10, PageFacts
<1>12. Abs(len) = len /\ i \in 1 .. N
  BY <1>3 DEF Abs, N
<1>13. Tiles(N, Offset(q), Size(q), low)
  <2>1. Tiles(N, Offset(p), Size(p), p.free)
    BY LayoutTiles DEF N
  <2>2. Numbers(N, Offset(p), Size(p)) /\ Numbers(N, Offset(q), Size(q))
    BY <1>2, <1>11 DEF Numbers
  <2>3. WithTupleResized(N, Offset(p), Size(p), Offset(q), Size(q), i)
    <3>1. Size(p)[i] # 0 /\ Size(q)[i] = len /\ len # 0 /\ Offset(q)[i] = O + n - len
      BY <1>3, <1>4, <1>6, <1>11, <1>12 DEF SlotUpdated, O, n
    <3>2. ASSUME NEW j \in 1 .. N, j # i
          PROVE  /\ Size(q)[j] = Size(p)[j]
                 /\ Size(p)[j] # 0 => Offset(q)[j] =
                      IF Offset(p)[j] < O THEN Offset(p)[j] + n - len ELSE Offset(p)[j]
      BY <1>2, <1>6, <1>11, <3>2 DEF SlotUpdated, O, n
    <3> QED BY <3>1, <3>2 DEF WithTupleResized, O, n
  <2>4. low = p.free + Size(p)[i] - Size(q)[i]
    <3>1. Size(q)[i] = len
      BY <1>6, <1>11, <1>12 DEF SlotUpdated
    <3> QED BY <3>1 DEF low, n
  <2> QED BY <1>1, <1>12, <2>1, <2>2, <2>3, <2>4, TilesAfterUpdate
<1>14. PageLayout(q)
  <2>1. RoomForSlots(q)
    BY <1>5, <1>7, <1>10 DEF RoomForSlots
  <2> QED BY <1>7, <1>10, <1>13, <2>1, LayoutTiles
<1>15. BytesAt(q, i) = tuple
  <2>1. Abs(q.slots[i].size) = len /\ q.slots[i].offset = O + n - len
    BY <1>6, <1>10, <1>12 DEF SlotUpdated, O, n
  <2>2. BytesAt(q, i) = [k \in 1 .. len |-> data[O + n - len + k - 1]]
    <3>1. i \in 1 .. Len(q.slots) /\ q.slots[i].size # 0
      BY <1>3, <1>7, <1>10, <1>12, <2>1 DEF Abs
    <3> QED BY <1>10, <1>14, <2>1, <3>1, BytesInPage
  <2>3. tuple = [k \in 1 .. len |-> tuple[k]]
    BY DEF len
  <2>4. \A k \in 1 .. len : data[O + n - len + k - 1] = tuple[k]
    BY <1>8 DEF BytesUpdated, len
  <2> QED BY <2>2, <2>3, <2>4
<1>16. ASSUME NEW j \in 1 .. N, j # i, p.slots[j].size # 0
       PROVE  BytesAt(q, j) = BytesAt(p, j)
  <2> DEFINE o == Offset(p)[j]
             m == Size(p)[j]
             o2 == slots[j].offset
  <2>1. /\ o = p.slots[j].offset /\ m = Abs(p.slots[j].size) /\ Abs(slots[j].size) = m
        /\ o2 = IF o < O THEN o + n - len ELSE o
    BY <1>2, <1>6, <1>16 DEF SlotUpdated, O, n
  <2>2. /\ o \in Nat /\ m \in Nat /\ m # 0 /\ O \in Nat /\ n \in Nat /\ n # 0 /\ len \in Nat
        /\ p.free \in Nat /\ PAGE_SIZE \in Nat
    BY <1>1, <1>2, <1>3, <1>4, <1>16
  <2>3. p.free <= o /\ o + m <= PAGE_SIZE
    BY <1>16, TuplesApart DEF N
  <2>4. o + m <= O \/ O + n <= o
    BY <1>4, <1>16, TuplesApart DEF N, O, n
  <2>5. BytesAt(q, j) = [k \in 1 .. m |-> data[o2 + k - 1]]
    <3>1. j \in 1 .. Len(q.slots) /\ q.slots[j].size # 0 /\ Abs(q.slots[j].size) = m
      BY <1>7, <1>10, <2>1, <2>2 DEF Abs
    <3> QED BY <1>10, <1>14, <3>1, BytesInPage
  <2>6. BytesAt(p, j) = [k \in 1 .. m |-> p.data[o + k - 1]]
    <3>1. j \in 1 .. Len(p.slots)
      BY DEF N
    <3> QED BY <1>16, <2>1, <3>1, BytesInPage
  <2> HIDE DEF o, m, o2
  <2>7. ASSUME NEW k \in 1 .. m
        PROVE  data[o2 + k - 1] = p.data[o + k - 1]
    <3>1. k \in Nat /\ 1 <= k /\ k <= m
      BY <2>2
    <3>2. o + k - 1 \in Nat /\ p.free <= o + k - 1 /\ o + k - 1 < PAGE_SIZE
      BY <2>2, <2>3, <3>1
    <3>3. CASE o < O
      <4>1. o + k - 1 < O
        BY <2>2, <2>4, <3>1, <3>3
      <4>2. data[(o + k - 1) + n - len] = p.data[o + k - 1]
        BY <1>8, <3>2, <4>1 DEF BytesUpdated, len
      <4>3. o2 + k - 1 = (o + k - 1) + n - len
        BY <2>1, <2>2, <3>1, <3>3, SMTT(30)
      <4> QED BY <4>2, <4>3
    <3>4. CASE ~(o < O)
      <4>1. O + n <= o + k - 1
        BY <2>2, <2>4, <3>1, <3>4
      <4>2. data[o + k - 1] = p.data[o + k - 1]
        BY <1>8, <3>2, <4>1 DEF BytesUpdated
      <4> QED BY <2>1, <3>4, <4>2
    <3> QED BY <3>3, <3>4
  <2> QED BY <2>5, <2>6, <2>7
<1> QED BY <1>10, <1>14, <1>15, <1>16 DEF q, N

-----------------------------------------------------------------------------
(* Init. *)

\* A new page is well formed, so pages on which only the operations above are done are.
THEOREM EmptyPageWellFormed == EmptyPage \in Page /\ PageLayout(EmptyPage)
<1>1. EmptyPage \in Page
  BY DEF EmptyPage, Page, Data, INVALID_PAGE_ID
<1>2. Len(EmptyPage.slots) = 0 /\ EmptyPage.free = PAGE_SIZE
  BY DEF EmptyPage
<1>3. PageLayout(EmptyPage)
  <2>1. \A j \in 1 .. Len(EmptyPage.slots) : FALSE
    BY <1>2
  <2>2. HeaderSize + SlotSize * Len(EmptyPage.slots) <= PAGE_SIZE
    BY <1>2
  <2>3. PAGE_SIZE .. PAGE_SIZE - 1 = {}
    OBVIOUS
  <2> QED BY <1>2, <2>1, <2>2, <2>3 DEF PageLayout
<1> QED BY <1>1, <1>3

-----------------------------------------------------------------------------
(* What can be said of a page after an update has moved a marked tuple: that the operations *)
(* make another such page of it, and that slots do not go away.                            *)

AnySlot == [offset : Int, size : Int]

LEMMA AnyPageFacts ==
  ASSUME NEW p \in AnyPage
  PROVE  /\ p.free \in Int /\ p.slots \in Seq(AnySlot) /\ p.data \in Data /\ p.next \in Nat
         /\ Len(p.slots) \in Nat
         /\ \A j \in 1 .. Len(p.slots) :
              p.slots[j] \in AnySlot /\ p.slots[j].offset \in Int /\ p.slots[j].size \in Int
<1>1. /\ p.free \in Int /\ p.slots \in Seq(AnySlot) /\ p.data \in Data /\ p.next \in Nat
  BY DEF AnyPage, AnySlot
<1>2. \A j \in 1 .. Len(p.slots) : p.slots[j] \in AnySlot
  BY <1>1
<1>3. \A s \in AnySlot : s.offset \in Int /\ s.size \in Int
  BY DEF AnySlot
<1> QED BY <1>1, <1>2, <1>3

LEMMA PageIsAny == Page \subseteq AnyPage
<1>1. Slot \subseteq AnySlot
  BY DEF Slot, AnySlot
<1>2. Seq(Slot) \subseteq Seq(AnySlot)
  BY <1>1
<1>3. 0 .. PAGE_SIZE \subseteq Int
  OBVIOUS
<1> QED BY <1>2, <1>3 DEF Page, AnyPage, AnySlot

LEMMA DataStays ==
  ASSUME NEW data \in Data
  PROVE  /\ \A to, from, n : Move(data, to, from, n) \in Data
         /\ \A to \in Int, tuple \in Seq(Bytes \cup {Free}) : Put(data, to, tuple) \in Data
         /\ \A free : Forget(data, free) \in Data
<1>1. \A o : ByteAt(data, o) \in Bytes \cup {Free}
  BY DEF Data, ByteAt
<1>2. \A o \in Offsets : data[o] \in Bytes \cup {Free}
  BY DEF Data
<1>3. ASSUME NEW to, NEW from, NEW n
      PROVE  Move(data, to, from, n) \in Data
  BY <1>1, <1>2 DEF Data, Move
<1>4. ASSUME NEW to \in Int, NEW tuple \in Seq(Bytes \cup {Free})
      PROVE  Put(data, to, tuple) \in Data
  <2>1. ASSUME NEW o \in Offsets, o \in to .. to + Len(tuple) - 1
        PROVE  tuple[o - to + 1] \in Bytes \cup {Free}
    <3>1. o - to + 1 \in 1 .. Len(tuple)
      BY <2>1
    <3> QED BY <3>1
  <2> QED BY <1>2, <2>1 DEF Data, Put
<1>5. ASSUME NEW free
      PROVE  Forget(data, free) \in Data
  BY <1>2 DEF Data, Forget
<1> QED BY <1>3, <1>4, <1>5

\* A page with other slots and other data.
AnyWith(p, q, free, slots, data) == q = [p EXCEPT !.free = free, !.slots = slots, !.data = data]

LEMMA AnyPageFrom ==
  ASSUME NEW p \in AnyPage, NEW free \in Int, NEW slots \in Seq(AnySlot), NEW data \in Data,
         NEW q, AnyWith(p, q, free, slots, data)
  PROVE  q \in AnyPage /\ q.slots = slots
BY DEF AnyPage, AnySlot, AnyWith

LEMMA AnySlots ==
  ASSUME NEW n \in Nat, NEW f, f = [j \in 1 .. n |-> f[j]], \A j \in 1 .. n : f[j] \in AnySlot
  PROVE  f \in Seq(AnySlot) /\ Len(f) = n
<1>1. f \in [1 .. n -> AnySlot]
  OBVIOUS
<1> QED BY <1>1

\* The page q is p with no slot less.
AnyAfter(p, q) == q \in AnyPage /\ Len(p.slots) <= Len(q.slots)

LEMMA AnyMarks ==
  ASSUME NEW p \in AnyPage, NEW i \in 1 .. Len(p.slots)
  PROVE  AnyAfter(p, MarkDelete(p, i)) /\ AnyAfter(p, RollbackDelete(p, i))
<1>1. ASSUME NEW size \in Int
      PROVE  AnyAfter(p, [p EXCEPT !.slots[i].size = size])
  <2>1. PICK slots : slots = [p.slots EXCEPT ![i].size = size]
    OBVIOUS
  <2>2. slots \in Seq(AnySlot) /\ Len(slots) = Len(p.slots)
    <3>1. [p.slots[i] EXCEPT !.size = size] \in AnySlot
      BY <1>1, AnyPageFacts DEF AnySlot
    <3> QED BY <2>1, <3>1, AnyPageFacts
  <2>3. [p EXCEPT !.slots = slots] \in AnyPage /\ [p EXCEPT !.slots = slots].slots = slots
    BY <2>2 DEF AnyPage, AnySlot
  <2>4. [p EXCEPT !.slots[i].size = size] = [p EXCEPT !.slots = slots]
    BY <2>1
  <2>5. Len(p.slots) <= Len(slots)
    BY <2>2, AnyPageFacts
  <2> QED BY <2>3, <2>4, <2>5 DEF AnyAfter
<1>2. p.slots[i].size \in Int
  BY AnyPageFacts
<1>3. -p.slots[i].size \in Int /\ Abs(p.slots[i].size) \in Int
  BY <1>2 DEF Abs
<1>4. AnyAfter(p, [p EXCEPT !.slots[i].size = -p.slots[i].size])
  BY <1>1, <1>3
<1>5. AnyAfter(p, [p EXCEPT !.slots[i].size = Abs(p.slots[i].size)])
  BY <1>1, <1>3
<1> QED BY <1>4, <1>5 DEF MarkDelete, RollbackDelete

LEMMA AnyDelete ==
  ASSUME NEW p \in AnyPage, NEW i \in 1 .. Len(p.slots)
  PROVE  AnyAfter(p, ApplyDelete(p, i))
<1>1. PICK n : n = Abs(p.slots[i].size)
  OBVIOUS
<1>2. n \in Int
  BY <1>1, AnyPageFacts DEF Abs
<1>3. PICK slots : slots = SlotsAfterDelete(p, i)
  OBVIOUS
<1>4. slots \in Seq(AnySlot) /\ Len(slots) = Len(p.slots)
  <2>1. ASSUME NEW j \in 1 .. Len(p.slots)
        PROVE  slots[j] \in AnySlot
    <3>1. PICK s : s = p.slots[j]
      OBVIOUS
    <3>2. s \in AnySlot /\ s.offset + n \in Int
      BY <1>2, <3>1, AnyPageFacts
    <3>5. [s EXCEPT !.offset = @ + n] \in AnySlot
      BY <3>2 DEF AnySlot
    <3>3. [offset |-> 0, size |-> 0] \in AnySlot
      BY DEF AnySlot
    <3>4. slots[j] \in {s, [s EXCEPT !.offset = @ + n], [offset |-> 0, size |-> 0]}
      BY <1>1, <1>3, <3>1 DEF SlotsAfterDelete
    <3> QED BY <3>2, <3>3, <3>4, <3>5
  <2>2. slots = [j \in 1 .. Len(p.slots) |-> slots[j]]
    BY <1>3 DEF SlotsAfterDelete
  <2> QED BY <2>1, <2>2, AnySlots, AnyPageFacts
<1>5. PICK data : data = Forget(Move(p.data, p.free + n, p.free, p.slots[i].offset - p.free), p.free + n)
  OBVIOUS
<1>6. data \in Data /\ p.free + n \in Int
  <2>1. Move(p.data, p.free + n, p.free, p.slots[i].offset - p.free) \in Data
    BY DataStays, AnyPageFacts
  <2> QED BY <1>2, <1>5, <2>1, DataStays, AnyPageFacts
<1>7. AnyWith(p, ApplyDelete(p, i), p.free + n, slots, data)
  BY <1>1, <1>3, <1>5 DEF ApplyDelete, AnyWith
<1>8. ApplyDelete(p, i) \in AnyPage /\ ApplyDelete(p, i).slots = slots
  BY <1>4, <1>6, <1>7, AnyPageFrom
<1>9. Len(p.slots) <= Len(slots)
  BY <1>4, AnyPageFacts
<1> QED BY <1>8, <1>9 DEF AnyAfter

LEMMA AnyUpdate ==
  ASSUME NEW p \in AnyPage, NEW i \in 1 .. Len(p.slots), NEW tuple \in Seq(Bytes \cup {Free})
  PROVE  AnyAfter(p, UpdateTuple(p, i, tuple))
<1>1. PICK shift : shift = p.slots[i].size - Len(tuple)
  OBVIOUS
<1>2. Len(tuple) \in Nat /\ shift \in Int
  BY <1>1, AnyPageFacts
<1>3. PICK slots : slots = SlotsAfterUpdate(p, i, tuple)
  OBVIOUS
<1>4. slots \in Seq(AnySlot) /\ Len(slots) = Len(p.slots)
  <2>1. ASSUME NEW j \in 1 .. Len(p.slots)
        PROVE  slots[j] \in AnySlot
    <3>1. /\ slots[j] = [offset |-> slots[j].offset, size |-> slots[j].size]
          /\ slots[j].offset \in {p.slots[j].offset, p.slots[j].offset + shift}
          /\ slots[j].size \in {p.slots[j].size, Len(tuple)}
      BY <1>1, <1>3 DEF SlotsAfterUpdate
    <3>2. slots[j].offset \in Int /\ slots[j].size \in Int
      BY <1>2, <3>1, AnyPageFacts
    <3> QED BY <3>1, <3>2 DEF AnySlot
  <2>2. slots = [j \in 1 .. Len(p.slots) |-> slots[j]]
    BY <1>3 DEF SlotsAfterUpdate
  <2> QED BY <2>1, <2>2, AnySlots, AnyPageFacts
<1>5. PICK moved : moved = Move(p.data, p.free + shift, p.free, p.slots[i].offset - p.free)
  OBVIOUS
<1>6. PICK data : data = Forget(Put(moved, p.slots[i].offset + shift, tuple), p.free + shift)
  OBVIOUS
<1>7. data \in Data /\ p.free + shift \in Int
  <2>1. moved \in Data
    BY <1>5, DataStays, AnyPageFacts
  <2>2. p.slots[i].offset + shift \in Int /\ p.free + shift \in Int
    BY <1>2, AnyPageFacts
  <2>3. Put(moved, p.slots[i].offset + shift, tuple) \in Data
    BY <2>1, <2>2, DataStays
  <2> QED BY <1>6, <2>2, <2>3, DataStays
<1>8. AnyWith(p, UpdateTuple(p, i, tuple), p.free + shift, slots, data)
  BY <1>1, <1>3, <1>5, <1>6 DEF UpdateTuple, AnyWith
<1>9. UpdateTuple(p, i, tuple) \in AnyPage /\ UpdateTuple(p, i, tuple).slots = slots
  BY <1>4, <1>7, <1>8, AnyPageFrom
<1>10. Len(p.slots) <= Len(slots)
  BY <1>4, AnyPageFacts
<1> QED BY <1>9, <1>10 DEF AnyAfter

LEMMA AnyInsert ==
  ASSUME NEW p \in AnyPage, NEW tuple \in Seq(Bytes)
  PROVE  /\ AnyAfter(p, InsertTuple(p, tuple)) /\ SlotFor(p) \in Nat
         /\ SlotFor(p) \in 1 .. Len(InsertTuple(p, tuple).slots)
<1>1. PICK k : k = SlotFor(p)
  OBVIOUS
<1>2. PICK n : n = Len(p.slots)
  OBVIOUS
<1>3. n \in Nat /\ p.slots \in Seq(AnySlot) /\ p.free \in Int /\ Len(tuple) \in Nat
  BY <1>2, AnyPageFacts
<1>4. PICK slot : slot = [offset |-> p.free - Len(tuple), size |-> Len(tuple)]
  OBVIOUS
<1>5. slot \in AnySlot
  BY <1>3, <1>4 DEF AnySlot
<1>6. EmptySlots(p) # {} => k \in 1 .. n
  <2>1. EmptySlots(p) \subseteq 1 .. n /\ EmptySlots(p) \in SUBSET Nat
    BY <1>2, <1>3 DEF EmptySlots
  <2> HIDE DEF EmptySlots
  <2>2. EmptySlots(p) # {} => \E i \in EmptySlots(p) : \A j \in EmptySlots(p) : i <= j
    BY <2>1, LeastNatural
  <2> QED BY <1>1, <2>1, <2>2 DEF SlotFor
<1>7. PICK slots : slots = IF EmptySlots(p) = {} THEN Append(p.slots, slot)
                           ELSE [p.slots EXCEPT ![k] = slot]
  OBVIOUS
<1>8. slots \in Seq(AnySlot) /\ n <= Len(slots) /\ k \in 1 .. Len(slots) /\ k \in Nat
  <2>1. CASE EmptySlots(p) = {}
    <3>1. k = n + 1
      BY <1>1, <1>2, <2>1 DEF SlotFor
    <3> QED BY <1>2, <1>3, <1>5, <1>7, <2>1, <3>1
  <2>2. CASE EmptySlots(p) # {}
    BY <1>2, <1>3, <1>5, <1>6, <1>7, <2>2
  <2> QED BY <2>1, <2>2
<1>9. PICK data : data = Put(p.data, p.free - Len(tuple), tuple)
  OBVIOUS
<1>10. data \in Data /\ p.free - Len(tuple) \in Int
  <2>1. tuple \in Seq(Bytes \cup {Free}) /\ p.free - Len(tuple) \in Int
    BY <1>3
  <2> QED BY <1>9, <2>1, DataStays, AnyPageFacts
<1>11. AnyWith(p, InsertTuple(p, tuple), p.free - Len(tuple), slots, data)
  BY <1>1, <1>4, <1>7, <1>9 DEF InsertTuple, AnyWith
<1>12. InsertTuple(p, tuple) \in AnyPage /\ InsertTuple(p, tuple).slots = slots
  BY <1>8, <1>10, <1>11, AnyPageFrom
<1> QED BY <1>1, <1>2, <1>8, <1>12 DEF AnyAfter

\* What is read of a slot.
LEMMA AnyTuple ==
  ASSUME NEW p \in AnyPage, NEW i \in 1 .. Len(p.slots)
  PROVE  /\ BytesAt(p, i) \in Seq(Bytes \cup {Free})
         /\ Len(BytesAt(p, i)) = Abs(p.slots[i].size)
<1>1. PICK n : n = Abs(p.slots[i].size)
  OBVIOUS
<1>2. n \in Nat
  <2>1. p.slots[i].size \in Int
    BY AnyPageFacts
  <2> QED BY <1>1, <2>1, AbsFacts
<1>3. \A o : ByteAt(p.data, o) \in Bytes \cup {Free}
  BY AnyPageFacts DEF Data, ByteAt
<1>4. BytesAt(p, i) \in [1 .. n -> Bytes \cup {Free}]
  BY <1>1, <1>3 DEF BytesAt
<1> QED BY <1>1, <1>2, <1>4

HIDE PageAssumption

-----------------------------------------------------------------------------
(* Tables. *)

\* The size of slot i of page p: negative for a marked tuple, 0 for none.
SizeAt(p, i) == heap[p].slots[i].size

IsRid(p, i) == p \in 1 .. Len(heap) /\ i \in 1 .. Len(heap[p].slots)

\* The record about what t did at slot i of page p is of type wtype.
Item == [page : Nat, slot : Nat, wtype : {"INSERT", "DELETE", "UPDATE"},
         tuple : Seq(Bytes \cup {Free})]

SameRid(r, s) == r.page = s.page /\ r.slot = s.slot

\* The k-th record of t is going to be applied or can still be undone.
Counts(t, k) == state[t] = "COMMITTED" => write_set[t][k].wtype = "DELETE"

Types ==
  /\ heap \in Seq(AnyPage)
  /\ state \in [Txns -> {"none", "GROWING", "COMMITTED", "ABORTED"}]
  /\ call \in [Txns -> {"none", "InsertTuple", "Commit", "Abort"}]
  /\ write_set \in [Txns -> Seq(Item)]
  /\ inserting \in [Txns -> [page : Nat, tuple : Seq(Bytes)]]

\* The tuple, marked or not, in slot i of page p.
TupleAt(p, i) == BytesAt(heap[p], i)

\* Since a page gets a slot only when all its slots have tuples.
SlotsBounded(p) == HeaderSize + (SlotSize + 1) * Len(p.slots) <= PAGE_SIZE

\* Which the assertion of ApplyDelete looks at when a deletion was refused.
EmptyAtZero(p) == \A i \in 1 .. Len(p.slots) : p.slots[i].size = 0 => p.slots[i].offset = 0

\* A well formed page all of whose tuples have been written.
GoodPage(p) ==
  /\ p \in Page /\ PageLayout(p) /\ SlotsBounded(p) /\ EmptyAtZero(p)
  /\ \A i \in 1 .. Len(p.slots) : p.slots[i].size # 0 => BytesAt(p, i) \in Seq(Bytes)

GoodPages == \A p \in 1 .. Len(heap) : GoodPage(heap[p])

CallsInState ==
  \A t \in Txns :
    /\ call[t] = "InsertTuple" => state[t] \in {"GROWING", "ABORTED"}
    /\ call[t] = "Commit" => state[t] = "COMMITTED"
    /\ call[t] = "Abort" => state[t] = "ABORTED"

\* What is inserted fits in a new page.
InsertsFit ==
  \A t \in Txns :
    call[t] = "InsertTuple" => Len(inserting[t].tuple) + HeaderSize + SlotSize <= PAGE_SIZE

Threads == CallsInState /\ InsertsFit

\* What holds whatever happens: a record is about a slot there is.
RecordThere(t, k) ==
  /\ IsRid(write_set[t][k].page, write_set[t][k].slot)
  /\ write_set[t][k].wtype = "UPDATE" => write_set[t][k].tuple # <<>>

RecordsThere == \A t \in Txns : \A k \in 1 .. Len(write_set[t]) : RecordThere(t, k)

Base == Types /\ Threads /\ RecordsThere

\* Until an update moves a marked tuple: pages are well formed, and what an undo restores
\* has been written.
WrittenKept ==
  \A t \in Txns : \A k \in 1 .. Len(write_set[t]) :
    write_set[t][k].wtype = "UPDATE" => write_set[t][k].tuple \in Seq(Bytes)

PageInv == Base /\ GoodPages /\ WrittenKept

\* A record that counts is about a slot with a tuple, which is marked if the record is a
\* deletion.
RecordStands(t, k) ==
  LET r == write_set[t][k] IN
  /\ IsRid(r.page, r.slot)
  /\ Counts(t, k) => SizeAt(r.page, r.slot) # 0
  /\ r.wtype = "DELETE" => SizeAt(r.page, r.slot) < 0

RecordsStand == \A t \in Txns : \A k \in 1 .. Len(write_set[t]) : RecordStands(t, k)

\* Two transactions have no records about the same slot.
RecordsApart ==
  \A t, u \in Txns :
    t # u =>
      \A k \in 1 .. Len(write_set[t]) : \A l \in 1 .. Len(write_set[u]) :
        Counts(t, k) /\ Counts(u, l) => ~SameRid(write_set[t][k], write_set[u][l])

\* Of the records of a transaction about a slot only the first can be an insertion and only
\* the last a deletion.
RecordsOrdered ==
  \A t \in Txns : \A k, l \in 1 .. Len(write_set[t]) :
    k < l /\ SameRid(write_set[t][k], write_set[t][l]) =>
      write_set[t][k].wtype # "DELETE" /\ write_set[t][l].wtype # "INSERT"

Records == RecordsStand /\ RecordsApart /\ RecordsOrdered

\* Until moreover a deletion is refused.
HeapInv == PageInv /\ Records /\ stopped # "assertion"

-----------------------------------------------------------------------------
(* What the operations of a page do to its slots. *)

\* The page q is p with another size in slot i, which p perhaps does not have.
Rewritten(p, q, i, size) ==
  /\ GoodPage(q)
  /\ i \in 1 .. Len(q.slots) /\ q.slots[i].size = size
  /\ \A j \in 1 .. Len(p.slots) : j \in 1 .. Len(q.slots)
  /\ \A j \in 1 .. Len(q.slots) :
       j # i => /\ j \in 1 .. Len(p.slots) /\ q.slots[j].size = p.slots[j].size
                /\ p.slots[j].size # 0 => BytesAt(q, j) = BytesAt(p, j)

\* The slots and the bytes of tuples are all that makes a page a good one.
LEMMA GoodAfter ==
  ASSUME NEW p, GoodPage(p), NEW q \in Page, PageLayout(q), SlotsBounded(q),
         EmptyAtZero(q), NEW i,
         i \in 1 .. Len(q.slots), NEW size, q.slots[i].size = size,
         size # 0 => BytesAt(q, i) \in Seq(Bytes),
         \A j \in 1 .. Len(p.slots) : j \in 1 .. Len(q.slots),
         \A j \in 1 .. Len(q.slots) : j # i =>
           /\ j \in 1 .. Len(p.slots) /\ q.slots[j].size = p.slots[j].size
           /\ p.slots[j].size # 0 => BytesAt(q, j) = BytesAt(p, j)
  PROVE  Rewritten(p, q, i, size)
<1>1. ASSUME NEW j \in 1 .. Len(q.slots), q.slots[j].size # 0
      PROVE  BytesAt(q, j) \in Seq(Bytes)
  <2>1. CASE j = i
    BY <1>1, <2>1
  <2>2. CASE j # i
    BY <1>1, <2>2 DEF GoodPage
  <2> QED BY <2>1, <2>2
<1> QED BY <1>1 DEF Rewritten, GoodPage

\* Tuples that tile a part of the page are no more than its bytes.
LEMMA TuplesCount ==
  ASSUME NEW p, GoodPage(p), EmptySlots(p) = {}
  PROVE  Len(p.slots) <= PAGE_SIZE - p.free
<1> DEFINE n == Len(p.slots)
           T == p.free .. PAGE_SIZE - 1
           f == [i \in 1 .. n |-> p.slots[i].offset]
<1>1. /\ p \in Page /\ PageLayout(p) /\ n \in Nat
      /\ p.free \in Nat /\ p.free <= PAGE_SIZE /\ PAGE_SIZE \in Nat
  BY PageFacts, PageAssumption DEF GoodPage
<1>2. ASSUME NEW i \in 1 .. n
      PROVE  p.slots[i].offset \in Region(p.slots[i]) /\ p.slots[i].offset \in T
  <2>1. p.slots[i].size # 0
    BY DEF EmptySlots
  <2>2. p.slots[i].offset \in Nat /\ p.slots[i].size \in Int
    BY <1>1, PageFacts
  <2>3. Abs(p.slots[i].size) \in Nat \ {0}
    BY <2>1, <2>2, AbsFacts
  <2>4. p.free <= p.slots[i].offset /\ p.slots[i].offset + Abs(p.slots[i].size) <= PAGE_SIZE
    BY <1>1, <2>1 DEF PageLayout
  <2> QED BY <1>1, <2>2, <2>3, <2>4 DEF Region
<1>3. ASSUME NEW i \in 1 .. n, NEW j \in 1 .. n, i # j
      PROVE  f[i] # f[j]
  <2>1. Region(p.slots[i]) \cap Region(p.slots[j]) = {}
    BY <1>1, <1>3 DEF PageLayout
  <2> QED BY <1>2, <2>1
<1>4. f \in Injection(1 .. n, T)
  BY <1>2, <1>3 DEF Injection, IsInjective
<1>5. IsFiniteSet(T) /\ Cardinality(T) = PAGE_SIZE - p.free
  <2>1. p.free \in Int /\ PAGE_SIZE - 1 \in Int
    BY <1>1
  <2>2. IsFiniteSet(T) /\ Cardinality(T) = IF p.free > PAGE_SIZE - 1 THEN 0
                                           ELSE PAGE_SIZE - 1 - p.free + 1
    BY <2>1, FS_Interval
  <2> QED BY <1>1, <2>2
<1>6. Cardinality(1 .. n) = n
  <2> HIDE DEF n
  <2>1. Cardinality(1 .. n) = IF 1 > n THEN 0 ELSE n - 1 + 1
    BY <1>1, FS_Interval
  <2> QED BY <1>1, <2>1
<1>7. Cardinality(1 .. n) <= Cardinality(T)
  BY <1>4, <1>5, FS_Injection
<1> QED BY <1>5, <1>6, <1>7

LEMMA BoundAfterInsert ==
  ASSUME NEW p, GoodPage(p), NEW tuple \in Seq(Bytes), tuple # <<>>, Fits(p, tuple),
         EmptySlots(p) = {}, NEW slot, NEW q, q.slots = Append(p.slots, slot)
  PROVE  SlotsBounded(q)
<1> DEFINE n == Len(p.slots)
           room == SlotSize * n
<1>1. /\ n \in Nat /\ p.free \in Nat /\ PAGE_SIZE \in Nat /\ HeaderSize \in Nat
      /\ SlotSize \in Nat /\ p.slots \in Seq(Slot)
  BY PageFacts, PageAssumption DEF GoodPage
<1>2. Len(q.slots) = n + 1
  <2>1. p.slots \in Seq(Slot \cup {slot}) /\ slot \in Slot \cup {slot}
    BY <1>1
  <2> QED BY <2>1, AppendProperties
<1>3. n <= PAGE_SIZE - p.free
  BY TuplesCount
<1>4. p.free - HeaderSize - room >= Len(tuple) + SlotSize
  BY DEF Fits, GetFreeSpaceSize
<1>5. Len(tuple) \in Nat \ {0}
  OBVIOUS
<1>6. room \in Nat /\ (SlotSize + 1) * (n + 1) = room + n + SlotSize + 1
  <2> HIDE DEF n
  <2>1. room \in Nat
    BY <1>1
  <2>2. (SlotSize + 1) * (n + 1) = SlotSize * n + n + SlotSize + 1
    BY <1>1
  <2> QED BY <2>1, <2>2
<1> HIDE DEF room, n
<1>7. HeaderSize + (room + n + SlotSize + 1) <= PAGE_SIZE
  BY <1>1, <1>3, <1>4, <1>5, <1>6
<1> QED BY <1>2, <1>6, <1>7 DEF SlotsBounded

\* InsertTuple takes an empty slot or a new one.
LEMMA InsertRewrites ==
  ASSUME NEW p, GoodPage(p), NEW tuple \in Seq(Bytes), tuple # <<>>, Fits(p, tuple)
  PROVE  /\ Rewritten(p, InsertTuple(p, tuple), SlotFor(p), Len(tuple))
         /\ BytesAt(InsertTuple(p, tuple), SlotFor(p)) = tuple
         /\ SlotFor(p) \in 1 .. Len(p.slots) => p.slots[SlotFor(p)].size = 0
<1> DEFINE q == InsertTuple(p, tuple)
           k == SlotFor(p)
           len == Len(tuple)
           slot == [offset |-> p.free - len, size |-> len]
<1>1. p \in Page /\ PageLayout(p)
  BY DEF GoodPage
<1>2. /\ q \in Page /\ PageLayout(q) /\ BytesAt(q, k) = tuple
      /\ \A j \in 1 .. Len(p.slots) : p.slots[j].size # 0 =>
           j # k /\ BytesAt(q, j) = BytesAt(p, j)
  BY <1>1, InsertTupleKeepsTuples
<1>3. q.slots = SlotsAfterInsert(p, slot)
  BY <1>1 DEF InsertTuple, SlotsAfterInsert, Page
<1>4. slot \in Slot /\ slot.size = len
  <2> DEFINE room == SlotSize * Len(p.slots)
             free == p.free
  <2>1. free \in Nat /\ free <= PAGE_SIZE /\ Len(p.slots) \in Nat
    BY <1>1, PageFacts
  <2>2. room \in Nat
    BY <2>1, RoomForOne
  <2>3. free - HeaderSize - room >= len
    BY DEF Fits, GetFreeSpaceSize
  <2>4. len \in Nat
    OBVIOUS
  <2> HIDE DEF room, len, free
  <2>5. free - len \in 0 .. PAGE_SIZE /\ len \in -PAGE_SIZE .. PAGE_SIZE
    BY PageAssumption, <2>1, <2>2, <2>3, <2>4, SMTT(30)
  <2> QED BY <2>5 DEF Slot, free
<1> HIDE DEF q, slot
<1>5. Inserted(p, q.slots, slot)
  BY <1>1, <1>3, <1>4, SlotsInserted
<1> HIDE DEF k, len
<1>6. /\ k \in 1 .. Len(q.slots) /\ q.slots[k].size = len
      /\ \A j \in 1 .. Len(p.slots) : j \in 1 .. Len(q.slots)
      /\ \A j \in 1 .. Len(q.slots) : j # k => j \in 1 .. Len(p.slots) /\ q.slots[j] = p.slots[j]
  BY <1>4, <1>5 DEF Inserted, k
<1>7. k \in 1 .. Len(p.slots) => p.slots[k].size = 0
  BY <1>2
<1>8. SlotsBounded(q)
  <2>1. CASE EmptySlots(p) = {}
    BY <1>3, <2>1, BoundAfterInsert DEF SlotsAfterInsert
  <2>2. CASE EmptySlots(p) # {}
    <3>1. Len(q.slots) = Len(p.slots)
      BY <1>1, <1>3, <2>2, PageFacts DEF SlotsAfterInsert
    <3> QED BY <3>1 DEF GoodPage, SlotsBounded
  <2> QED BY <2>1, <2>2
<1>10. EmptyAtZero(q)
  <2>1. len # 0
    BY DEF len
  <2> QED BY <1>6, <2>1 DEF EmptyAtZero, GoodPage
<1>9. Rewritten(p, q, k, len)
  BY <1>2, <1>6, <1>8, <1>10, GoodAfter
<1> QED BY <1>2, <1>7, <1>9 DEF q, k, len

\* MarkDelete and RollbackDelete change the sign of a size.
LEMMA MarkRewrites ==
  ASSUME NEW p, GoodPage(p), NEW i \in 1 .. Len(p.slots)
  PROVE  /\ p.slots[i].size # 0 =>
              Rewritten(p, MarkDelete(p, i), i, -p.slots[i].size)
         /\ Rewritten(p, RollbackDelete(p, i), i, Abs(p.slots[i].size))
         /\ BytesAt(MarkDelete(p, i), i) = BytesAt(p, i)
         /\ BytesAt(RollbackDelete(p, i), i) = BytesAt(p, i)
<1> DEFINE s == p.slots[i].size
           m == MarkDelete(p, i)
           r == RollbackDelete(p, i)
<1>1. p \in Page /\ PageLayout(p) /\ s \in Int /\ p.slots \in Seq(Slot) /\ p.slots[i] \in Slot
  BY PageFacts DEF GoodPage
<1>2. /\ -s \in Int /\ Abs(-s) = Abs(s)
      /\ Abs(s) \in Int /\ Abs(Abs(s)) = Abs(s)
  BY <1>1 DEF Abs
<1>3. m = WithSize(p, i, -s) /\ r = WithSize(p, i, Abs(s))
  BY <1>1 DEF MarkDelete, RollbackDelete, WithSize, Page
<1>4. /\ m \in Page /\ PageLayout(m) /\ r \in Page /\ PageLayout(r)
      /\ \A j \in 1 .. Len(p.slots) : BytesAt(m, j) = BytesAt(p, j) /\ BytesAt(r, j) = BytesAt(p, j)
  BY <1>1, MarksKeepPages
<1> HIDE DEF s, m, r
<1>5. SizeDiffers(p, m, i, -s)
  BY <1>1, <1>2, <1>3, SizeChanged DEF s
<1>6. SizeDiffers(p, r, i, Abs(s))
  BY <1>1, <1>2, <1>3, SizeChanged DEF s
<1>7. s # 0 => BytesAt(p, i) \in Seq(Bytes)
  BY DEF GoodPage, s
<1>8. SlotsBounded(m) /\ SlotsBounded(r)
  BY <1>5, <1>6 DEF SizeDiffers, GoodPage, SlotsBounded
<1>11. (-s = 0 => s = 0) /\ (Abs(s) = 0 <=> s = 0)
  BY <1>1, AbsFacts
<1>12. EmptyAtZero(m) /\ EmptyAtZero(r)
  BY <1>5, <1>6, <1>11 DEF SizeDiffers, GoodPage, EmptyAtZero, s
<1>9. s # 0 => Rewritten(p, m, i, -s)
  BY <1>4, <1>5, <1>7, <1>8, <1>12, GoodAfter DEF SizeDiffers
<1>10. Rewritten(p, r, i, Abs(s))
  BY <1>4, <1>6, <1>7, <1>8, <1>11, <1>12, GoodAfter DEF SizeDiffers
<1> QED BY <1>4, <1>9, <1>10 DEF s, m, r

\* ApplyDelete finds the tuple and empties its slot.
LEMMA DeleteRewrites ==
  ASSUME NEW p, GoodPage(p), NEW i \in 1 .. Len(p.slots), p.slots[i].size # 0
  PROVE  CanApplyDelete(p, i) /\ Rewritten(p, ApplyDelete(p, i), i, 0)
<1> DEFINE q == ApplyDelete(p, i)
           N == Len(p.slots)
<1>1. p \in Page /\ PageLayout(p) /\ N \in Nat
  BY PageFacts DEF GoodPage
<1>2. /\ CanApplyDelete(p, i) /\ q \in Page /\ PageLayout(q)
      /\ \A j \in 1 .. N : j # i /\ p.slots[j].size # 0 => BytesAt(q, j) = BytesAt(p, j)
  BY <1>1, ApplyDeleteKeepsTuples
<1>3. q.slots = SlotsAfterDelete(p, i)
  BY <1>1 DEF ApplyDelete, Page
<1> HIDE DEF q
<1>4. Len(q.slots) = N
  BY <1>1, <1>3 DEF SlotsAfterDelete
<1>5. \A j \in 1 .. N : q.slots[j].size = IF j = i THEN 0 ELSE p.slots[j].size
  BY <1>1, <1>3, SlotsDeleted
<1>7. EmptyAtZero(q)
  <2> SUFFICES ASSUME NEW j \in 1 .. N, q.slots[j].size = 0 PROVE q.slots[j].offset = 0
    BY <1>4 DEF EmptyAtZero
  <2>1. CASE j = i
    BY <1>1, <1>3, <2>1, SlotsDeleted
  <2>2. CASE j # i
    <3>1. p.slots[j].size = 0
      BY <1>5, <2>2
    <3>2. q.slots[j] = p.slots[j]
      BY <1>3, <2>2, <3>1 DEF SlotsAfterDelete
    <3> QED BY <3>1, <3>2 DEF GoodPage, EmptyAtZero
  <2> QED BY <2>1, <2>2
<1>6. Rewritten(p, q, i, 0)
  <2>1. SlotsBounded(q)
    BY <1>4 DEF GoodPage, SlotsBounded
  <2> QED BY <1>2, <1>4, <1>5, <1>7, <2>1, GoodAfter
<1> QED BY <1>2, <1>6 DEF q

\* UpdateTuple, if no marked tuple is in its way.
LEMMA UpdateRewrites ==
  ASSUME NEW p, GoodPage(p), NEW i \in 1 .. Len(p.slots), NEW tuple \in Seq(Bytes),
         tuple # <<>>, CanUpdate(p, i, tuple), MovesNoMarked(p, i, tuple)
  PROVE  /\ Rewritten(p, UpdateTuple(p, i, tuple), i, Len(tuple))
         /\ BytesAt(UpdateTuple(p, i, tuple), i) = tuple
<1> DEFINE q == UpdateTuple(p, i, tuple)
           N == Len(p.slots)
<1>1. p \in Page /\ PageLayout(p) /\ N \in Nat
  BY PageFacts DEF GoodPage
<1>2. /\ q \in Page /\ PageLayout(q) /\ BytesAt(q, i) = tuple
      /\ \A j \in 1 .. N : j # i /\ p.slots[j].size # 0 => BytesAt(q, j) = BytesAt(p, j)
  BY <1>1, UpdateTupleKeepsTuples
<1>3. q.slots = SlotsAfterUpdate(p, i, tuple)
  BY <1>1 DEF UpdateTuple, Page
<1> HIDE DEF q
<1>4. Len(q.slots) = N
  BY <1>1, <1>3 DEF SlotsAfterUpdate
<1>5. \A j \in 1 .. N : q.slots[j].size = IF j = i THEN Len(tuple) ELSE p.slots[j].size
  BY <1>1, <1>3 DEF SlotsAfterUpdate
<1>7. EmptyAtZero(q)
  <2> SUFFICES ASSUME NEW j \in 1 .. N, q.slots[j].size = 0 PROVE q.slots[j].offset = 0
    BY <1>4 DEF EmptyAtZero
  <2>1. j # i /\ p.slots[j].size = 0
    BY <1>5
  <2>2. q.slots[j].offset = p.slots[j].offset
    BY <1>3, <2>1 DEF SlotsAfterUpdate
  <2> QED BY <2>1, <2>2 DEF GoodPage, EmptyAtZero
<1>6. Rewritten(p, q, i, Len(tuple))
  <2>1. SlotsBounded(q)
    BY <1>4 DEF GoodPage, SlotsBounded
  <2> QED BY <1>2, <1>4, <1>5, <1>7, <2>1, GoodAfter
<1> QED BY <1>2, <1>6 DEF q

LEMMA EmptyIsGood == GoodPage(EmptyPage) /\ Len(EmptyPage.slots) = 0
<1>1. EmptyPage \in Page /\ PageLayout(EmptyPage) /\ Len(EmptyPage.slots) = 0
  BY EmptyPageWellFormed DEF EmptyPage
<1>2. SlotsBounded(EmptyPage)
  BY <1>1, PageAssumption DEF SlotsBounded
<1>3. EmptyAtZero(EmptyPage)
  BY <1>1 DEF EmptyAtZero
<1> QED BY <1>1, <1>2, <1>3 DEF GoodPage

\* The link to the next page is no part of what makes a page a good one.
LEMMA LinkKeepsGood ==
  ASSUME NEW p, GoodPage(p), NEW next \in Nat
  PROVE  /\ GoodPage([p EXCEPT !.next = next]) /\ [p EXCEPT !.next = next].slots = p.slots
         /\ \A i : BytesAt([p EXCEPT !.next = next], i) = BytesAt(p, i)
<1> DEFINE q == [p EXCEPT !.next = next]
<1>1. p \in Page /\ PageLayout(p)
  BY DEF GoodPage
<1>2. q \in Page /\ q.free = p.free /\ q.slots = p.slots /\ q.data = p.data
  BY <1>1 DEF Page
<1> HIDE DEF q
<1>3. PageLayout(q)
  BY <1>1, <1>2 DEF PageLayout
<1>4. \A i : BytesAt(q, i) = BytesAt(p, i)
  BY <1>2 DEF BytesAt
<1>5. SlotsBounded(q)
  BY <1>2 DEF GoodPage, SlotsBounded
<1>7. EmptyAtZero(q)
  BY <1>2 DEF GoodPage, EmptyAtZero
<1>6. GoodPage(q)
  BY <1>2, <1>3, <1>4, <1>5, <1>7 DEF GoodPage
<1> QED BY <1>2, <1>4, <1>6 DEF q

\* The assertion of ApplyDelete fails on an empty slot, and holds on any other.
LEMMA AboveFreeIffTuple ==
  ASSUME NEW p, GoodPage(p), NEW i \in 1 .. Len(p.slots)
  PROVE  AboveFree(p, i) <=> p.slots[i].size # 0
<1>1. p \in Page /\ PageLayout(p) /\ EmptyAtZero(p)
  BY DEF GoodPage
<1>2. CASE p.slots[i].size # 0
  BY <1>1, <1>2, PageFacts DEF PageLayout, AboveFree
<1>3. CASE p.slots[i].size = 0
  <2>1. p.slots[i].offset = 0
    BY <1>1, <1>3 DEF EmptyAtZero
  <2>2. PICK n : n = Len(p.slots)
    OBVIOUS
  <2>3. n \in Nat \ {0} /\ p.free \in Nat
    BY <1>1, <2>2, PageFacts
  <2>4. HeaderSize + SlotSize * n <= p.free
    BY <1>1, <2>2 DEF PageLayout
  <2>5. SlotSize * n \in Nat \ {0} /\ HeaderSize \in Nat
    BY <2>3, PageAssumption
  <2>6. p.free > 0
    BY <2>3, <2>4, <2>5
  <2> QED BY <1>3, <2>1, <2>3, <2>6 DEF AboveFree
<1> QED BY <1>2, <1>3

-----------------------------------------------------------------------------
(* What the steps do whatever happens. *)

\* A tuple that is being inserted.
LEMMA InsertingTuple ==
  ASSUME Base, NEW t \in Txns, NEW p, NEW tuple \in Tuples, InsertAt(t, p, tuple)
  PROVE  /\ tuple \in Seq(Bytes) /\ tuple # <<>>
         /\ Len(tuple) + HeaderSize + SlotSize <= PAGE_SIZE
         /\ state[t] \in {"GROWING", "ABORTED"}
<1>1. tuple \in Seq(Bytes) /\ tuple # <<>>
  BY HeapAssumption
<1>2. CASE Calls(t) /\ Len(tuple) + HeaderSize + SlotSize <= PAGE_SIZE
  BY <1>1, <1>2 DEF Calls
<1>3. CASE call[t] = "InsertTuple" /\ inserting[t] = [page |-> p, tuple |-> tuple]
  <2>1. inserting[t].tuple = tuple
    BY <1>3
  <2> QED BY <1>1, <1>3, <2>1 DEF Base, Threads, CallsInState, InsertsFit
<1> QED BY <1>2, <1>3 DEF InsertAt

\* What a page can become.
PageBecomes(p, q) ==
  \/ \E i \in 1 .. Len(heap[p].slots) :
       \/ heap[p].slots[i].size # 0 /\ q = MarkDelete(heap[p], i)
       \/ q = RollbackDelete(heap[p], i)
       \/ AboveFree(heap[p], i) /\ q = ApplyDelete(heap[p], i)
       \/ \E tuple \in Seq(Bytes \cup {Free}) :
            /\ tuple # <<>> /\ CanUpdate(heap[p], i, tuple)
            /\ MovesNoMarked(heap[p], i, tuple) \/ "moved" \in lapses'
            /\ WrittenKept => tuple \in Seq(Bytes)
            /\ q = UpdateTuple(heap[p], i, tuple)
  \/ \E tuple \in Seq(Bytes) :
       tuple # <<>> /\ Fits(heap[p], tuple) /\ q = InsertTuple(heap[p], tuple)

HeapBecomes ==
  \/ heap' = heap
  \/ \E p \in 1 .. Len(heap) : \E q : PageBecomes(p, q) /\ heap' = [heap EXCEPT ![p] = q]
  \/ \E p \in 1 .. Len(heap), tuple \in Seq(Bytes) :
       /\ tuple # <<>> /\ Len(tuple) + HeaderSize + SlotSize <= PAGE_SIZE
       /\ heap' = Append([heap EXCEPT ![p].next = Len(heap) + 1], InsertTuple(EmptyPage, tuple))

LEMMA InsertBecomes ==
  ASSUME Base, NEW t \in Txns, NEW p \in 1 .. Len(heap), NEW tuple \in Tuples,
         InsertStep(t, p, tuple)
  PROVE  HeapBecomes
<1>1. /\ tuple \in Seq(Bytes) /\ tuple # <<>>
      /\ Len(tuple) + HeaderSize + SlotSize <= PAGE_SIZE
  BY InsertingTuple
     DEF InsertStep, InsertHere, InsertMovesOn, InsertExtends, InsertFails, Full
<1>2. CASE InsertHere(t, p, tuple)
  <2>1. PICK q : q = InsertTuple(heap[p], tuple)
    OBVIOUS
  <2>2. heap' = [heap EXCEPT ![p] = q] /\ Fits(heap[p], tuple)
    BY <1>2, <2>1 DEF InsertHere, WritePage
  <2>3. PageBecomes(p, q)
    BY <1>1, <2>1, <2>2 DEF PageBecomes
  <2> QED BY <2>2, <2>3 DEF HeapBecomes
<1>3. CASE InsertMovesOn(t, p, tuple) \/ InsertFails(t, p, tuple)
  BY <1>3 DEF InsertMovesOn, InsertFails, HeapBecomes
<1>4. CASE InsertExtends(t, p, tuple)
  <2>1. heap' = Append([heap EXCEPT ![p].next = Len(heap) + 1], InsertTuple(EmptyPage, tuple))
    BY <1>4 DEF InsertExtends
  <2> QED BY <1>1, <2>1 DEF HeapBecomes
<1> QED BY <1>2, <1>3, <1>4 DEF InsertStep

\* An update, or the undo of one.
LEMMA UpdateBecomes ==
  ASSUME NEW t, NEW p \in 1 .. Len(heap), NEW i \in 1 .. Len(heap[p].slots),
         NEW tuple \in Seq(Bytes \cup {Free}), tuple # <<>>, NEW lapse,
         CanUpdate(heap[p], i, tuple), WrittenKept => tuple \in Seq(Bytes),
         Update(t, p, i, tuple, lapse)
  PROVE  HeapBecomes
<1>1. CASE ~AboveFree(heap[p], i)
  BY <1>1 DEF Update, HeapBecomes
<1>2. CASE AboveFree(heap[p], i)
  <2>1. PICK q : q = UpdateTuple(heap[p], i, tuple)
    OBVIOUS
  <2>2. heap' = [heap EXCEPT ![p] = q]
    BY <1>2, <2>1 DEF Update, WritePage
  <2>3. MovesNoMarked(heap[p], i, tuple) \/ "moved" \in lapses'
    BY DEF Update
  <2>4. PageBecomes(p, q)
    BY <2>1, <2>3 DEF PageBecomes
  <2> QED BY <2>2, <2>4 DEF HeapBecomes
<1> QED BY <1>1, <1>2

LEMMA CallBecomes ==
  ASSUME Base, NEW t \in Txns, NEW p \in 1 .. Len(heap), NEW i \in 1 .. Len(heap[p].slots),
         MarkTuple(t, p, i) \/ \E tuple \in Tuples : ChangeTuple(t, p, i, tuple)
  PROVE  HeapBecomes
<1>1. CASE MarkTuple(t, p, i) /\ Visible(heap[p], i)
  <2>1. PICK q : q = MarkDelete(heap[p], i)
    OBVIOUS
  <2>2. heap' = [heap EXCEPT ![p] = q]
    BY <1>1, <2>1 DEF MarkTuple, WritePage
  <2>4. heap[p].slots[i].size # 0
    <3>1. heap[p] \in AnyPage
      BY DEF Base, Types
    <3>2. heap[p].slots[i].size > 0
      BY <1>1 DEF Visible
    <3> QED BY <3>1, <3>2, AnyPageFacts
  <2>3. PageBecomes(p, q)
    BY <2>1, <2>4 DEF PageBecomes
  <2> QED BY <2>2, <2>3 DEF HeapBecomes
<1>2. CASE MarkTuple(t, p, i) /\ ~Visible(heap[p], i)
  <2>1. heap' = [heap EXCEPT ![p] = heap[p]]
    BY <1>2 DEF MarkTuple, WritePage
  <2>2. heap' = heap
    BY <2>1 DEF Base, Types
  <2> QED BY <2>2 DEF HeapBecomes
<1>3. ASSUME NEW tuple \in Tuples, ChangeTuple(t, p, i, tuple)
      PROVE  HeapBecomes
  <2>1. tuple \in Seq(Bytes) /\ tuple \in Seq(Bytes \cup {Free}) /\ tuple # <<>>
    BY HeapAssumption
  <2>2. CanUpdate(heap[p], i, tuple) /\ \E lapse : Update(t, p, i, tuple, lapse)
    BY <1>3 DEF ChangeTuple
  <2> QED BY <2>1, <2>2, UpdateBecomes
<1> QED BY <1>1, <1>2, <1>3

\* The record that a transaction is about to work off.
LEMMA LastThere ==
  ASSUME Base, NEW t \in Txns, write_set[t] # <<>>
  PROVE  /\ Len(write_set[t]) \in 1 .. Len(write_set[t]) /\ Last(t) \in Item
         /\ Last(t).page \in 1 .. Len(heap)
         /\ Last(t).slot \in 1 .. Len(heap[Last(t).page].slots)
         /\ Last(t).wtype = "UPDATE" => Last(t).tuple # <<>>
<1>1. write_set[t] \in Seq(Item)
  BY DEF Base, Types
<1>2. Len(write_set[t]) \in 1 .. Len(write_set[t]) /\ Last(t) \in Item
  BY <1>1 DEF Last
<1>3. RecordThere(t, Len(write_set[t]))
  BY <1>2 DEF Base, RecordsThere
<1> QED BY <1>2, <1>3 DEF RecordThere, IsRid, Last

LEMMA ItemBecomes ==
  ASSUME Base, NEW t \in Txns, CommitItem(t) \/ AbortItem(t)
  PROVE  HeapBecomes
<1>1. PICK p : p = Last(t).page
  OBVIOUS
<1>2. PICK i : i = Last(t).slot
  OBVIOUS
<1>3. p \in 1 .. Len(heap) /\ i \in 1 .. Len(heap[p].slots) /\ write_set[t] # <<>>
  BY <1>1, <1>2, LastThere DEF CommitItem, AbortItem
<1>4. CASE Remove(t, p, i) /\ CanApplyDelete(heap[p], i)
  <2>1. PICK q : q = ApplyDelete(heap[p], i)
    OBVIOUS
  <2>2. heap' = [heap EXCEPT ![p] = q] /\ AboveFree(heap[p], i)
    BY <1>4, <2>1 DEF Remove, WritePage, CanApplyDelete
  <2>3. PageBecomes(p, q)
    BY <1>3, <2>1, <2>2 DEF PageBecomes
  <2> QED BY <1>3, <2>2, <2>3 DEF HeapBecomes
<1>5. CASE Remove(t, p, i) /\ ~CanApplyDelete(heap[p], i)
  BY <1>5 DEF Remove, HeapBecomes
<1>6. CASE CommitItem(t) /\ ~Remove(t, p, i)
  BY <1>1, <1>2, <1>6 DEF CommitItem, HeapBecomes
<1>7. CASE AbortItem(t) /\ WritePage(t, p, i, RollbackDelete(heap[p], i))
  <2>1. PICK q : q = RollbackDelete(heap[p], i)
    OBVIOUS
  <2>2. heap' = [heap EXCEPT ![p] = q]
    BY <1>7, <2>1 DEF WritePage
  <2>3. PageBecomes(p, q)
    BY <1>3, <2>1 DEF PageBecomes
  <2> QED BY <1>3, <2>2, <2>3 DEF HeapBecomes
<1>8. CASE AbortItem(t) /\ KeepUpdate(t, p, i, Last(t).tuple)
  BY <1>8 DEF KeepUpdate, HeapBecomes
<1>9. CASE /\ Last(t).wtype = "UPDATE" /\ CanUpdate(heap[p], i, Last(t).tuple)
           /\ Update(t, p, i, Last(t).tuple, {})
  <2>1. PICK tuple : tuple = Last(t).tuple
    OBVIOUS
  <2>2. tuple \in Seq(Bytes \cup {Free}) /\ tuple # <<>>
    BY <1>3, <1>9, <2>1, LastThere DEF Item
  <2>3. WrittenKept => tuple \in Seq(Bytes)
    BY <1>3, <1>9, <2>1, LastThere DEF WrittenKept, Last
  <2> QED BY <1>3, <1>9, <2>1, <2>2, <2>3, UpdateBecomes
<1>10. AbortItem(t) => \/ Remove(t, p, i)
                       \/ WritePage(t, p, i, RollbackDelete(heap[p], i))
                       \/ KeepUpdate(t, p, i, Last(t).tuple)
                       \/ /\ Last(t).wtype = "UPDATE" /\ CanUpdate(heap[p], i, Last(t).tuple)
                          /\ Update(t, p, i, Last(t).tuple, {})
  BY <1>1, <1>2 DEF AbortItem
<1> QED BY <1>4, <1>5, <1>6, <1>7, <1>8, <1>9, <1>10

\* The steps that do not touch the table: of transactions, and of scans.
QuietSteps(t) ==
  \/ Begin(t) \/ Refused(t) \/ Commit(t) \/ Abort(t) \/ NoFrame(t) \/ End(t)
  \/ \E p \in 1 .. Len(heap) : EnterLatch(t, p)

ScanSteps(s) ==
  \/ ScanBegin(s) \/ ScanFetch(s) \/ ScanFetchFails(s)
  \/ ScanNext(s) \/ ScanCopy(s) \/ ScanNoFrame(s) \/ ScanClose(s)

LEMMA QuietKeepsHeap ==
  ASSUME NEW t, QuietSteps(t)
  PROVE  heap' = heap /\ write_set' = write_set /\ inserting' = inserting /\ lapses' = lapses
BY DEF QuietSteps, Begin, Refused, Commit, Abort, NoFrame, End, EnterLatch, txnVars, faults

LEMMA ScansWriteNothing ==
  ASSUME NEW s, ScanSteps(s)
  PROVE  UNCHANGED <<heap, txnVars, entered, lapses>> /\ stopped' \in {stopped, "no frame"}
BY DEF ScanSteps, ScanBegin, ScanFetch, ScanFetchFails, ScanNext, ScanCopy, ScanNoFrame,
       ScanClose, ScanStep, faults

\* The steps of the whole.
WriteStep(t) ==
  \E p \in 1 .. Len(heap) :
    \/ \E tuple \in Tuples : InsertStep(t, p, tuple)
    \/ \E i \in 1 .. Len(heap[p].slots) :
         MarkTuple(t, p, i) \/ \E tuple \in Tuples : ChangeTuple(t, p, i, tuple)

LEMMA NextIs ==
  ASSUME Next
  PROVE  \/ \E t \in Txns : QuietSteps(t) \/ WriteStep(t) \/ CommitItem(t) \/ AbortItem(t)
         \/ \E s \in Scans : ScanSteps(s)
<1>1. CASE \E s \in Scans : ScanSteps(s)
  BY <1>1
<1>2. ASSUME NEW t \in Txns,
             \/ Begin(t) \/ Refused(t) \/ Commit(t) \/ Abort(t)
             \/ CommitItem(t) \/ AbortItem(t) \/ NoFrame(t) \/ End(t)
      PROVE  QuietSteps(t) \/ CommitItem(t) \/ AbortItem(t)
  BY <1>2 DEF QuietSteps
<1>3. ASSUME NEW t \in Txns, NEW p \in 1 .. Len(heap),
             \/ EnterLatch(t, p)
             \/ \E tuple \in Tuples : InsertStep(t, p, tuple)
             \/ \E i \in 1 .. Len(heap[p].slots) :
                  MarkTuple(t, p, i) \/ \E tuple \in Tuples : ChangeTuple(t, p, i, tuple)
      PROVE  QuietSteps(t) \/ WriteStep(t)
  BY <1>3 DEF QuietSteps, WriteStep
<1> QED BY <1>1, <1>2, <1>3, Zenon DEF Next, ScanSteps

LEMMA HeapSteps ==
  ASSUME Base, Next
  PROVE  HeapBecomes
<1>1. ASSUME NEW t \in Txns, QuietSteps(t) PROVE HeapBecomes
  BY <1>1, QuietKeepsHeap DEF HeapBecomes
<1>2. ASSUME NEW s \in Scans, ScanSteps(s) PROVE HeapBecomes
  BY <1>2, ScansWriteNothing DEF HeapBecomes
<1>3. ASSUME NEW t \in Txns, WriteStep(t) PROVE HeapBecomes
  BY <1>3, InsertBecomes, CallBecomes DEF WriteStep
<1>4. ASSUME NEW t \in Txns, CommitItem(t) \/ AbortItem(t) PROVE HeapBecomes
  BY <1>4, ItemBecomes
<1> QED BY <1>1, <1>2, <1>3, <1>4, NextIs

\* Pages and slots stay.
HeapStill == heap' \in Seq(AnyPage) /\ \A a, b : IsRid(a, b) => IsRid(a, b)'

LEMMA PageStill ==
  ASSUME Types, NEW p \in 1 .. Len(heap), NEW q, AnyAfter(heap[p], q),
         heap' = [heap EXCEPT ![p] = q]
  PROVE  HeapStill /\ Len(heap') = Len(heap)
<1>1. heap \in Seq(AnyPage) /\ q \in AnyPage
  BY DEF Types, AnyAfter
<1>2. /\ heap' \in Seq(AnyPage) /\ Len(heap') = Len(heap) /\ heap'[p] = q
      /\ \A a \in 1 .. Len(heap) : a # p => heap'[a] = heap[a]
  BY <1>1
<1>3. Len(heap[p].slots) \in Nat /\ Len(q.slots) \in Nat /\ Len(heap[p].slots) <= Len(q.slots)
  BY <1>1, AnyPageFacts DEF AnyAfter
<1>4. ASSUME NEW a, NEW b, IsRid(a, b) PROVE IsRid(a, b)'
  <2>1. CASE a = p
    BY <1>2, <1>3, <1>4, <2>1 DEF IsRid
  <2>2. CASE a # p
    BY <1>2, <1>4, <2>2 DEF IsRid
  <2> QED BY <2>1, <2>2
<1> QED BY <1>2, <1>4 DEF HeapStill

LEMMA GrownStill ==
  ASSUME Types, NEW p \in 1 .. Len(heap), NEW q \in AnyPage, NEW new, new = Len(heap) + 1,
         heap' = Append([heap EXCEPT ![p].next = new], q)
  PROVE  HeapStill /\ Len(heap') = new /\ (1 \in 1 .. Len(q.slots) => IsRid(new, 1)')
<1>1. heap \in Seq(AnyPage) /\ Len(heap) \in Nat /\ new \in Nat
  BY DEF Types
<1>2. PICK link : link = [heap[p] EXCEPT !.next = new]
  OBVIOUS
<1>3. link \in AnyPage /\ link.slots = heap[p].slots
  <2>1. heap[p] \in AnyPage
    BY <1>1
  <2> QED BY <1>1, <1>2, <2>1 DEF AnyPage
<1>4. PICK old : old = [heap EXCEPT ![p] = link]
  OBVIOUS
<1>5. heap' = Append(old, q)
  BY <1>2, <1>4
<1>6. /\ old \in Seq(AnyPage) /\ Len(old) = Len(heap)
      /\ \A a \in 1 .. Len(heap) : old[a].slots = heap[a].slots
  BY <1>1, <1>3, <1>4
<1>7. /\ heap' \in Seq(AnyPage) /\ Len(heap') = Len(old) + 1 /\ heap'[Len(old) + 1] = q
      /\ \A a \in 1 .. Len(old) : heap'[a] = old[a]
  <2>1. old \in Seq(AnyPage) /\ Len(old) \in Nat
    BY <1>6
  <2>2. Append(old, q) \in Seq(AnyPage) /\ Len(Append(old, q)) = Len(old) + 1
    BY <2>1
  <2>3. Append(old, q)[Len(old) + 1] = q
    BY <2>1, <2>2
  <2>4. \A a \in 1 .. Len(old) : Append(old, q)[a] = old[a]
    BY <2>1
  <2> QED BY <1>5, <2>2, <2>3, <2>4
<1>8. ASSUME NEW a, NEW b, IsRid(a, b) PROVE IsRid(a, b)'
  <2>1. a \in 1 .. Len(heap) /\ a \in 1 .. new /\ b \in 1 .. Len(heap[a].slots)
    BY <1>1, <1>8 DEF IsRid
  <2>2. heap'[a].slots = heap[a].slots
    BY <1>6, <1>7, <2>1
  <2> QED BY <1>6, <1>7, <2>1, <2>2 DEF IsRid
<1>9. ASSUME 1 \in 1 .. Len(q.slots) PROVE IsRid(new, 1)'
  <2>1. heap'[new] = q /\ new \in 1 .. Len(heap')
    BY <1>1, <1>6, <1>7
  <2> QED BY <1>9, <2>1 DEF IsRid
<1> QED BY <1>6, <1>7, <1>8, <1>9 DEF HeapStill

LEMMA EmptyIsAny == EmptyPage \in AnyPage
BY EmptyIsGood, PageIsAny DEF GoodPage

LEMMA HeapStays ==
  ASSUME Types, HeapBecomes
  PROVE  HeapStill
<1>1. CASE heap' = heap
  BY <1>1 DEF HeapStill, Types, IsRid
<1>2. ASSUME NEW p \in 1 .. Len(heap), NEW q, PageBecomes(p, q), heap' = [heap EXCEPT ![p] = q]
      PROVE  HeapStill
  <2>1. heap[p] \in AnyPage
    BY DEF Types
  <2>2. AnyAfter(heap[p], q)
    BY <1>2, <2>1, AnyMarks, AnyDelete, AnyUpdate, AnyInsert DEF PageBecomes
  <2> QED BY <1>2, <2>2, PageStill
<1>3. ASSUME NEW p \in 1 .. Len(heap), NEW tuple \in Seq(Bytes),
             heap' = Append([heap EXCEPT ![p].next = Len(heap) + 1], InsertTuple(EmptyPage, tuple))
      PROVE  HeapStill
  <2>1. InsertTuple(EmptyPage, tuple) \in AnyPage
    BY EmptyIsAny, AnyInsert DEF AnyAfter
  <2> QED BY <1>3, <2>1, GrownStill
<1> QED BY <1>1, <1>2, <1>3 DEF HeapBecomes


-----------------------------------------------------------------------------
(* What the steps do to calls and to write sets, whatever happens. *)

CallsTyped ==
  /\ state \in [Txns -> {"none", "GROWING", "COMMITTED", "ABORTED"}]
  /\ call \in [Txns -> {"none", "InsertTuple", "Commit", "Abort"}]
  /\ inserting \in [Txns -> [page : Nat, tuple : Seq(Bytes)]]
  /\ Threads

LEMMA QuietCalls ==
  ASSUME Base, NEW t \in Txns, QuietSteps(t)
  PROVE  CallsTyped'
<1>1. /\ inserting' = inserting
      /\ state' = state \/ \E x \in {"none", "GROWING", "COMMITTED", "ABORTED"} :
                              state' = [state EXCEPT ![t] = x]
      /\ call' = call \/ \E x \in {"none", "Commit", "Abort"} : call' = [call EXCEPT ![t] = x]
      /\ call'[t] = "InsertTuple" => state' = state
      /\ call'[t] = "Commit" => state'[t] = "COMMITTED"
      /\ call'[t] = "Abort" => state'[t] = "ABORTED"
  <2> USE DEF Base, Types, Threads, CallsInState
  <2>1. CASE Begin(t)
    BY <2>1 DEF Begin
  <2>2. CASE Refused(t)
    BY <2>2 DEF Refused, Calls
  <2>3. CASE Commit(t)
    BY <2>3 DEF Commit
  <2>4. CASE Abort(t)
    BY <2>4 DEF Abort
  <2>5. CASE End(t)
    BY <2>5 DEF End
  <2>6. CASE NoFrame(t)
    BY <2>6 DEF NoFrame, txnVars
  <2>7. ASSUME NEW p, EnterLatch(t, p)
        PROVE  state' = state /\ call' = call /\ inserting' = inserting
    BY <2>7 DEF EnterLatch, txnVars
  <2> QED BY <2>1, <2>2, <2>3, <2>4, <2>5, <2>6, <2>7 DEF QuietSteps
<1>2. /\ state' \in [Txns -> {"none", "GROWING", "COMMITTED", "ABORTED"}]
      /\ call' \in [Txns -> {"none", "InsertTuple", "Commit", "Abort"}]
      /\ inserting' \in [Txns -> [page : Nat, tuple : Seq(Bytes)]]
      /\ \A u \in Txns \ {t} : state'[u] = state[u] /\ call'[u] = call[u]
  BY <1>1 DEF Base, Types
<1>3. call'[t] = "InsertTuple" => call[t] = "InsertTuple"
  BY <1>1 DEF Base, Types
<1>4. CallsInState'
  BY <1>1, <1>2, <1>3 DEF Base, Threads, CallsInState
<1>5. InsertsFit'
  BY <1>1, <1>2, <1>3 DEF Base, Threads, InsertsFit
<1> QED BY <1>2, <1>4, <1>5 DEF CallsTyped, Threads

LEMMA InsertCalls ==
  ASSUME Base, NEW t \in Txns, NEW p \in 1 .. Len(heap), NEW tuple \in Tuples,
         InsertStep(t, p, tuple)
  PROVE  CallsTyped'
<1>1. /\ tuple \in Seq(Bytes) /\ state[t] \in {"GROWING", "ABORTED"}
      /\ Len(tuple) + HeaderSize + SlotSize <= PAGE_SIZE
  BY InsertingTuple
     DEF InsertStep, InsertHere, InsertMovesOn, InsertExtends, InsertFails, Full
<1>2. CASE InsertMovesOn(t, p, tuple)
  <2>1. heap[p].next \in Nat
    BY AnyPageFacts DEF Base, Types
  <2>2. PICK n \in Nat : n = heap[p].next
    BY <2>1
  <2>3. /\ state' = state /\ call' = [call EXCEPT ![t] = "InsertTuple"]
        /\ inserting' = [inserting EXCEPT ![t] = [page |-> n, tuple |-> tuple]]
    BY <1>2, <2>2 DEF InsertMovesOn
  <2>4. /\ state' \in [Txns -> {"none", "GROWING", "COMMITTED", "ABORTED"}]
        /\ call' \in [Txns -> {"none", "InsertTuple", "Commit", "Abort"}]
        /\ inserting' \in [Txns -> [page : Nat, tuple : Seq(Bytes)]]
    BY <1>1, <2>3 DEF Base, Types
  <2>5. /\ call'[t] = "InsertTuple" /\ inserting'[t].tuple = tuple
        /\ \A u \in Txns \ {t} : call'[u] = call[u] /\ inserting'[u] = inserting[u]
    BY <2>3 DEF Base, Types
  <2>6. CallsInState' /\ InsertsFit'
    BY <1>1, <2>3, <2>5 DEF Base, Threads, CallsInState, InsertsFit
  <2> QED BY <2>4, <2>6 DEF CallsTyped, Threads
<1>3. CASE ~InsertMovesOn(t, p, tuple)
  <2>1. /\ state' = state \/ state' = [state EXCEPT ![t] = "ABORTED"]
        /\ call' = [call EXCEPT ![t] = "none"]
        /\ inserting' = [inserting EXCEPT ![t] = NotInserting]
    BY <1>3 DEF InsertStep, InsertHere, InsertExtends, InsertFails, InsertEnds
  <2>2. NotInserting \in [page : Nat, tuple : Seq(Bytes)]
    BY DEF NotInserting
  <2>4. /\ state' \in [Txns -> {"none", "GROWING", "COMMITTED", "ABORTED"}]
        /\ call' \in [Txns -> {"none", "InsertTuple", "Commit", "Abort"}]
        /\ inserting' \in [Txns -> [page : Nat, tuple : Seq(Bytes)]]
    BY <2>1, <2>2 DEF Base, Types
  <2>5. /\ call'[t] = "none"
        /\ \A u \in Txns \ {t} :
             state'[u] = state[u] /\ call'[u] = call[u] /\ inserting'[u] = inserting[u]
    BY <2>1 DEF Base, Types
  <2>6. CallsInState' /\ InsertsFit'
    BY <2>5 DEF Base, Threads, CallsInState, InsertsFit
  <2> QED BY <2>4, <2>6 DEF CallsTyped, Threads
<1> QED BY <1>2, <1>3

LEMMA CallsStay ==
  ASSUME Base, Next
  PROVE  CallsTyped'
<1>1. ASSUME state' = state, call' = call, inserting' = inserting
      PROVE  CallsTyped'
  BY <1>1 DEF Base, Types, CallsTyped, Threads, CallsInState, InsertsFit
<1>2. ASSUME NEW t \in Txns, QuietSteps(t) PROVE CallsTyped'
  BY <1>2, QuietCalls
<1>3. ASSUME NEW s \in Scans, ScanSteps(s) PROVE CallsTyped'
  BY <1>1, <1>3, ScansWriteNothing DEF txnVars
<1>4. ASSUME NEW t \in Txns, CommitItem(t) \/ AbortItem(t) PROVE CallsTyped'
  BY <1>1, <1>4 DEF CommitItem, AbortItem
<1>5. ASSUME NEW t \in Txns, WriteStep(t) PROVE CallsTyped'
  <2>1. PICK p \in 1 .. Len(heap) :
          \/ \E tuple \in Tuples : InsertStep(t, p, tuple)
          \/ \E i \in 1 .. Len(heap[p].slots) :
               MarkTuple(t, p, i) \/ \E tuple \in Tuples : ChangeTuple(t, p, i, tuple)
    BY <1>5 DEF WriteStep
  <2>2. CASE \E tuple \in Tuples : InsertStep(t, p, tuple)
    BY <2>2, InsertCalls
  <2>3. ASSUME NEW i, MarkTuple(t, p, i) PROVE CallsTyped'
    BY <1>1, <2>3 DEF MarkTuple
  <2>4. ASSUME NEW i, NEW tuple, ChangeTuple(t, p, i, tuple) PROVE CallsTyped'
    BY <1>1, <2>4 DEF ChangeTuple
  <2> QED BY <2>1, <2>2, <2>3, <2>4
<1> QED BY <1>2, <1>3, <1>4, <1>5, NextIs

LEMMA OneMore ==
  ASSUME Types, NEW t \in Txns, NEW item \in Item,
         write_set' = [write_set EXCEPT ![t] = Append(@, item)]
  PROVE  /\ write_set' \in [Txns -> Seq(Item)]
         /\ Len(write_set[t]) \in Nat
         /\ Len(write_set'[t]) = Len(write_set[t]) + 1
         /\ write_set'[t][Len(write_set[t]) + 1] = item
         /\ \A k \in 1 .. Len(write_set[t]) : write_set'[t][k] = write_set[t][k]
         /\ \A u \in Txns : u # t => write_set'[u] = write_set[u]
<1>1. write_set \in [Txns -> Seq(Item)] /\ write_set[t] \in Seq(Item)
  BY DEF Types
<1> DEFINE w == write_set[t]
<1> HIDE DEF w
<1>2. w \in Seq(Item) => /\ Append(w, item) \in Seq(Item) /\ Len(w) \in Nat
                         /\ Len(Append(w, item)) = Len(w) + 1
                         /\ Append(w, item)[Len(w) + 1] = item
                         /\ \A k \in 1 .. Len(w) : Append(w, item)[k] = w[k]
  OBVIOUS
<1>3. write_set'[t] = Append(w, item) /\ \A u \in Txns : u # t => write_set'[u] = write_set[u]
  BY <1>1 DEF w
<1> QED BY <1>1, <1>2, <1>3 DEF w

\* The last record of t is gone.
LEMMA OneLess ==
  ASSUME Types, NEW t \in Txns, write_set[t] # <<>>, Popped(t)
  PROVE  /\ write_set' \in [Txns -> Seq(Item)]
         /\ Len(write_set[t]) \in Nat \ {0} /\ Last(t) \in Item
         /\ Len(write_set'[t]) = Len(write_set[t]) - 1
         /\ \A k \in 1 .. Len(write_set'[t]) :
              k \in 1 .. Len(write_set[t]) /\ write_set'[t][k] = write_set[t][k]
         /\ \A u \in Txns : u # t => write_set'[u] = write_set[u]
<1>1. write_set \in [Txns -> Seq(Item)] /\ write_set[t] \in Seq(Item)
  BY DEF Types
<1> DEFINE w == write_set[t]
           n == Len(w) - 1
           front == SubSeq(w, 1, n)
<1>2. ASSUME w \in Seq(Item), w # <<>>
      PROVE  /\ Len(w) \in Nat \ {0} /\ w[Len(w)] \in Item
             /\ front \in Seq(Item) /\ Len(front) = Len(w) - 1
             /\ \A k \in 1 .. Len(front) : k \in 1 .. Len(w) /\ front[k] = w[k]
  <2> HIDE DEF w
  <2>1. Len(w) \in Nat \ {0}
    BY <1>2
  <2>2. w[Len(w)] \in Item
    BY <1>2, <2>1
  <2>3. n \in Nat /\ \A k \in 1 .. n : w[k] \in Item /\ k \in 1 .. Len(w) /\ 1 + k - 1 = k
    BY <1>2, <2>1
  <2>4. n = Len(w) - 1
    OBVIOUS
  <2> HIDE DEF n
  <2>5. 1 \in Int /\ n \in Int
    BY <2>3
  <2>6. /\ front \in Seq(Item)
        /\ Len(front) = IF 1 <= n THEN n - 1 + 1 ELSE 0
        /\ \A k \in 1 .. n - 1 + 1 : front[k] = w[1 + k - 1]
    BY <2>3, <2>5, SubSeqProperties
  <2> HIDE DEF front
  <2>7. Len(front) = n /\ n - 1 + 1 = n
    BY <2>3, <2>6
  <2> QED BY <2>1, <2>2, <2>3, <2>4, <2>6, <2>7
<1> HIDE DEF front
<1>3. write_set' = [write_set EXCEPT ![t] = front]
  BY DEF Popped, front
<1>4. write_set'[t] = front /\ \A u \in Txns : u # t => write_set'[u] = write_set[u]
  BY <1>1, <1>3
<1>5. write_set' \in [Txns -> Seq(Item)]
  BY <1>1, <1>2, <1>3
<1> QED BY <1>1, <1>2, <1>4, <1>5 DEF Last

\* A write set gets a record about a slot there is, or loses its last one, or neither.
WritesThere(t) ==
  \/ write_set' = write_set
  \/ write_set[t] # <<>> /\ Popped(t)
  \/ \E item \in Item :
       /\ write_set' = [write_set EXCEPT ![t] = Append(@, item)]
       /\ IsRid(item.page, item.slot)'
       /\ item.wtype = "UPDATE" => item.tuple # <<>> /\ (GoodPages => item.tuple \in Seq(Bytes))

LEMMA RecordedThere ==
  ASSUME NEW t, NEW p \in Nat, NEW i \in Nat, NEW wtype \in {"INSERT", "DELETE", "UPDATE"},
         NEW tuple \in Seq(Bytes \cup {Free}), Recorded(t, p, i, wtype, tuple), IsRid(p, i)',
         wtype = "UPDATE" => tuple # <<>> /\ (GoodPages => tuple \in Seq(Bytes))
  PROVE  WritesThere(t)
<1>1. PICK item : item = [page |-> p, slot |-> i, wtype |-> wtype, tuple |-> tuple]
  OBVIOUS
<1>2. /\ item \in Item /\ item.page = p /\ item.slot = i /\ item.wtype = wtype
      /\ item.tuple = tuple
  BY <1>1 DEF Item
<1>3. write_set' = [write_set EXCEPT ![t] = Append(@, item)]
  BY <1>1 DEF Recorded
<1>4. IsRid(item.page, item.slot)'
  <2>1. item' = item
    OBVIOUS
  <2> QED BY <1>2 DEF IsRid
<1> QED BY <1>2, <1>3, <1>4 DEF WritesThere

LEMMA InsertThere ==
  ASSUME Base, NEW t \in Txns, NEW p \in 1 .. Len(heap), NEW tuple \in Tuples,
         InsertStep(t, p, tuple)
  PROVE  WritesThere(t)
<1>1. tuple \in Seq(Bytes) /\ heap[p] \in AnyPage /\ p \in Nat /\ Len(heap) \in Nat
      /\ <<>> \in Seq(Bytes \cup {Free})
  BY HeapAssumption DEF Base, Types
<1>2. CASE InsertHere(t, p, tuple)
  <2>1. PICK q : q = InsertTuple(heap[p], tuple)
    OBVIOUS
  <2>2. PICK i : i = SlotFor(heap[p])
    OBVIOUS
  <2>3. AnyAfter(heap[p], q) /\ i \in Nat /\ i \in 1 .. Len(q.slots)
    BY <1>1, <2>1, <2>2, AnyInsert
  <2>4. heap' = [heap EXCEPT ![p] = q] /\ Recorded(t, p, i, "INSERT", <<>>)
    BY <1>2, <2>1, <2>2 DEF InsertHere, WritePage
  <2>5. Len(heap') = Len(heap) /\ heap'[p] = q
    BY <2>3, <2>4, PageStill DEF Base, Types
  <2>6. IsRid(p, i)'
    BY <2>3, <2>5 DEF IsRid
  <2> QED BY <1>1, <2>3, <2>4, <2>6, RecordedThere
<1>3. CASE InsertMovesOn(t, p, tuple) \/ InsertFails(t, p, tuple)
  BY <1>3 DEF InsertMovesOn, InsertFails, WritesThere
<1>4. CASE InsertExtends(t, p, tuple)
  <2>1. PICK new : new = Len(heap) + 1
    OBVIOUS
  <2>2. PICK q : q = InsertTuple(EmptyPage, tuple)
    OBVIOUS
  <2>3. /\ heap' = Append([heap EXCEPT ![p].next = new], q)
        /\ Recorded(t, new, 1, "INSERT", <<>>)
    BY <1>4, <2>1, <2>2 DEF InsertExtends
  <2>4. q \in AnyPage /\ 1 \in 1 .. Len(q.slots)
    <3>1. SlotFor(EmptyPage) = 1
      BY EmptyIsGood DEF EmptySlots, SlotFor
    <3> QED BY <1>1, <2>2, <3>1, EmptyIsAny, AnyInsert DEF AnyAfter
  <2>5. IsRid(new, 1)' /\ new \in Nat
    BY <1>1, <2>1, <2>3, <2>4, GrownStill DEF Base
  <2> QED BY <1>1, <2>3, <2>5, RecordedThere
<1> QED BY <1>2, <1>3, <1>4 DEF InsertStep

LEMMA CallThere ==
  ASSUME Base, HeapStill, NEW t \in Txns,
         NEW p \in 1 .. Len(heap), NEW i \in 1 .. Len(heap[p].slots),
         MarkTuple(t, p, i) \/ \E tuple \in Tuples : ChangeTuple(t, p, i, tuple)
  PROVE  WritesThere(t)
<1>1. heap[p] \in AnyPage /\ Len(heap) \in Nat
  BY DEF Base, Types
<1>2. p \in Nat /\ i \in Nat /\ heap[p].slots[i].size \in Int
  BY <1>1, AnyPageFacts
<1>3. IsRid(p, i)'
  BY DEF HeapStill, IsRid
<1>4. CASE MarkTuple(t, p, i)
  <2>1. Recorded(t, p, i, "DELETE", <<>>) /\ <<>> \in Seq(Bytes \cup {Free})
    BY <1>4 DEF MarkTuple
  <2> QED BY <1>2, <1>3, <2>1, RecordedThere
<1>5. ASSUME NEW tuple \in Tuples, ChangeTuple(t, p, i, tuple)
      PROVE  WritesThere(t)
  <2>1. PICK old : old = BytesAt(heap[p], i)
    OBVIOUS
  <2>2. old \in Seq(Bytes \cup {Free}) /\ Len(old) = Abs(heap[p].slots[i].size)
    BY <1>1, <2>1, AnyTuple
  <2>3. heap[p].slots[i].size > 0
    BY <1>5 DEF ChangeTuple, CanUpdate, Visible
  <2>4. old # <<>>
    BY <1>2, <2>2, <2>3, AbsFacts
  <2>5. GoodPages => old \in Seq(Bytes)
    BY <1>2, <2>1, <2>3 DEF GoodPages, GoodPage
  <2>6. write_set' = write_set \/ Recorded(t, p, i, "UPDATE", old)
    BY <1>5, <2>1 DEF ChangeTuple
  <2> QED BY <1>2, <1>3, <2>2, <2>4, <2>5, <2>6, RecordedThere DEF WritesThere
<1> QED BY <1>4, <1>5

LEMMA WritesAreThere ==
  ASSUME Base, Next, HeapStill
  PROVE  write_set' = write_set \/ \E t \in Txns : WritesThere(t)
<1>1. ASSUME NEW t \in Txns, QuietSteps(t) PROVE write_set' = write_set
  BY <1>1, QuietKeepsHeap
<1>2. ASSUME NEW s \in Scans, ScanSteps(s) PROVE write_set' = write_set
  BY <1>2, ScansWriteNothing DEF txnVars
<1>3. ASSUME NEW t \in Txns, WriteStep(t) PROVE WritesThere(t)
  BY <1>3, InsertThere, CallThere DEF WriteStep
<1>4. ASSUME NEW t \in Txns, CommitItem(t) \/ AbortItem(t) PROVE WritesThere(t)
  BY <1>4 DEF CommitItem, AbortItem, WritesThere
<1> QED BY <1>1, <1>2, <1>3, <1>4, NextIs

RecordsTyped == write_set \in [Txns -> Seq(Item)] /\ RecordsThere

LEMMA RecordsStayThere ==
  ASSUME Base, HeapStill, write_set' = write_set \/ \E t \in Txns : WritesThere(t)
  PROVE  /\ RecordsTyped'
         /\ GoodPages /\ WrittenKept => WrittenKept'
<1>1. ASSUME NEW u \in Txns, NEW k \in 1 .. Len(write_set[u]), NEW l,
             write_set'[u][l] = write_set[u][k]
      PROVE  RecordThere(u, l)' /\ (WrittenKept /\ write_set'[u][l].wtype = "UPDATE" =>
                                       write_set'[u][l].tuple \in Seq(Bytes))
  <2>1. PICK a : a = write_set[u][k].page
    OBVIOUS
  <2>2. PICK b : b = write_set[u][k].slot
    OBVIOUS
  <2>3. IsRid(a, b) /\ (write_set[u][k].wtype = "UPDATE" => write_set[u][k].tuple # <<>>)
    BY <2>1, <2>2 DEF Base, RecordsThere, RecordThere
  <2>4. IsRid(a, b)'
    BY <2>3 DEF HeapStill
  <2>5. write_set'[u][l].page = a /\ write_set'[u][l].slot = b
    BY <1>1, <2>1, <2>2
  <2>6. RecordThere(u, l)'
    BY <1>1, <2>3, <2>4, <2>5 DEF RecordThere, IsRid
  <2> QED BY <1>1, <2>6 DEF WrittenKept
<1>2. CASE write_set' = write_set
  <2>1. RecordsTyped'
    BY <1>1, <1>2 DEF RecordsTyped, RecordsThere, Base, Types
  <2>2. WrittenKept => WrittenKept'
    BY <1>2 DEF WrittenKept
  <2> QED BY <2>1, <2>2
<1>3. ASSUME NEW t \in Txns, write_set[t] # <<>>, Popped(t)
      PROVE  RecordsTyped' /\ (WrittenKept => WrittenKept')
  <2>1. /\ write_set' \in [Txns -> Seq(Item)]
        /\ \A u \in Txns : \A k \in 1 .. Len(write_set'[u]) :
             k \in 1 .. Len(write_set[u]) /\ write_set'[u][k] = write_set[u][k]
    BY <1>3, OneLess DEF Base
  <2>2. RecordsTyped'
    BY <1>1, <2>1 DEF RecordsTyped, RecordsThere
  <2>3. WrittenKept => WrittenKept'
    BY <1>1, <2>1 DEF WrittenKept
  <2> QED BY <2>2, <2>3
<1>4. ASSUME NEW t \in Txns, NEW item \in Item,
             write_set' = [write_set EXCEPT ![t] = Append(@, item)],
             IsRid(item.page, item.slot)',
             item.wtype = "UPDATE" => item.tuple # <<>> /\ (GoodPages => item.tuple \in Seq(Bytes))
      PROVE  RecordsTyped' /\ (GoodPages /\ WrittenKept => WrittenKept')
  <2>1. PICK n : n = Len(write_set[t])
    OBVIOUS
  <2>2. /\ write_set' \in [Txns -> Seq(Item)] /\ n \in Nat
        /\ Len(write_set'[t]) = n + 1 /\ write_set'[t][n + 1] = item
        /\ \A k \in 1 .. n : write_set'[t][k] = write_set[t][k]
        /\ \A u \in Txns : u # t => write_set'[u] = write_set[u]
    BY <1>4, <2>1, OneMore DEF Base
  <2>3. RecordThere(t, n + 1)'
    BY <1>4, <2>2 DEF RecordThere, IsRid
  <2>4. ASSUME NEW u \in Txns, NEW k \in 1 .. Len(write_set'[u])
        PROVE  \/ k \in 1 .. Len(write_set[u]) /\ write_set'[u][k] = write_set[u][k]
               \/ u = t /\ k = n + 1
    BY <2>1, <2>2
  <2>5. RecordsTyped'
    BY <1>1, <2>2, <2>3, <2>4 DEF RecordsTyped, RecordsThere
  <2>6. GoodPages /\ WrittenKept => WrittenKept'
    BY <1>1, <1>4, <2>2, <2>4 DEF WrittenKept
  <2> QED BY <2>5, <2>6
<1> QED BY <1>2, <1>3, <1>4 DEF WritesThere

LEMMA BaseNext ==
  ASSUME Base, Next
  PROVE  Base' /\ HeapStill
<1>1. HeapStill
  BY HeapSteps, HeapStays DEF Base
<1>2. CallsTyped'
  BY CallsStay
<1>3. RecordsTyped'
  BY <1>1, WritesAreThere, RecordsStayThere
<1> QED BY <1>1, <1>2, <1>3 DEF Base, Types, HeapStill, CallsTyped, RecordsTyped

LEMMA BaseUnchanged ==
  ASSUME Base, UNCHANGED vars
  PROVE  Base'
<1>1. /\ heap' = heap /\ state' = state /\ call' = call /\ write_set' = write_set
      /\ inserting' = inserting
  BY DEF vars, txnVars
<1>2. Types' /\ Threads'
  BY <1>1 DEF Base, Types, Threads, CallsInState, InsertsFit
<1>3. RecordsThere'
  BY <1>1 DEF Base, RecordsThere, RecordThere, IsRid
<1> QED BY <1>2, <1>3 DEF Base

LEMMA BaseInit == Init => Base /\ GoodPages /\ WrittenKept
<1> SUFFICES ASSUME Init PROVE Base /\ GoodPages /\ WrittenKept
  OBVIOUS
<1>1. /\ heap = <<EmptyPage>> /\ \A t \in Txns : state[t] = "none" /\ call[t] = "none"
      /\ \A t \in Txns : Len(write_set[t]) = 0
  BY DEF Init
<1>2. Types
  BY EmptyIsAny DEF Init, Types, NotInserting
<1>3. GoodPages
  BY <1>1, EmptyIsGood DEF GoodPages
<1>4. Threads /\ RecordsThere /\ WrittenKept
  BY <1>1 DEF Threads, CallsInState, InsertsFit, RecordsThere, WrittenKept
<1> QED BY <1>2, <1>3, <1>4 DEF Base

-----------------------------------------------------------------------------
(* What a step does to the slots of well formed pages. *)

\* The k-th record of t is about slot i of page p.
About(t, k, p, i) == write_set[t][k].page = p /\ write_set[t][k].slot = i

\* No slot but slot i of page p changes its size or its tuple.
Only(p, i) ==
  /\ GoodPages'
  /\ IsRid(p, i)'
  /\ \A a, b : IsRid(a, b) => IsRid(a, b)'
  /\ \A a, b : IsRid(a, b)' /\ ~(a = p /\ b = i) =>
       /\ IsRid(a, b) /\ SizeAt(a, b)' = SizeAt(a, b)
       /\ SizeAt(a, b) # 0 => TupleAt(a, b)' = TupleAt(a, b)

\* A page of the heap is rewritten in place.
LEMMA PageRewritten ==
  ASSUME Types, GoodPages, NEW p \in 1 .. Len(heap), NEW i, NEW size, NEW q,
         Rewritten(heap[p], q, i, size), heap' = [heap EXCEPT ![p] = q]
  PROVE  Only(p, i) /\ SizeAt(p, i)' = size /\ TupleAt(p, i)' = BytesAt(q, i)
<1>1. heap \in Seq(AnyPage) /\ Len(heap) \in Nat
  BY DEF Types
<1>2. q \in AnyPage /\ GoodPage(q)
  BY PageIsAny DEF Rewritten, GoodPage
<1>3. /\ heap' \in Seq(AnyPage) /\ Len(heap') = Len(heap) /\ heap'[p] = q
      /\ \A a \in 1 .. Len(heap) : a # p => heap'[a] = heap[a]
  BY <1>1, <1>2
<1>4. GoodPages'
  <2> SUFFICES ASSUME NEW a \in 1 .. Len(heap') PROVE GoodPage(heap'[a])
    BY DEF GoodPages, GoodPage, BytesAt
  <2> QED BY <1>2, <1>3 DEF GoodPages
<1>5. IsRid(p, i)' /\ SizeAt(p, i)' = size /\ TupleAt(p, i)' = BytesAt(q, i)
  <2>1. TupleAt(p, i)' = BytesAt(q, i)
    BY <1>3 DEF TupleAt, BytesAt
  <2> QED BY <1>3, <2>1 DEF IsRid, SizeAt, Rewritten
<1>6. ASSUME NEW a, NEW b, IsRid(a, b)
      PROVE  IsRid(a, b)'
  BY <1>3, <1>6 DEF IsRid, Rewritten
<1>7. ASSUME NEW a, NEW b, IsRid(a, b)', ~(a = p /\ b = i)
      PROVE  /\ IsRid(a, b) /\ SizeAt(a, b)' = SizeAt(a, b)
             /\ SizeAt(a, b) # 0 => TupleAt(a, b)' = TupleAt(a, b)
  <2>1. IsRid(a, b) /\ SizeAt(a, b)' = SizeAt(a, b)
    BY <1>3, <1>7 DEF IsRid, SizeAt, Rewritten
  <2>2. TupleAt(a, b)' = BytesAt(heap'[a], b)
    BY DEF TupleAt, BytesAt
  <2>3. CASE a = p
    BY <1>3, <1>7, <2>2, <2>3 DEF IsRid, SizeAt, TupleAt, Rewritten
  <2>4. CASE a # p
    BY <1>3, <2>1, <2>2, <2>4 DEF IsRid, TupleAt
  <2> QED BY <2>1, <2>3, <2>4
<1> QED BY <1>3, <1>4, <1>5, <1>6, <1>7 DEF Only

\* InsertTuple links a new page and inserts there.
LEMMA PageAdded ==
  ASSUME Types, GoodPages, NEW p \in 1 .. Len(heap), NEW size, NEW q,
         Rewritten(EmptyPage, q, 1, size), NEW new, new = Len(heap) + 1,
         heap' = Append([heap EXCEPT ![p].next = new], q)
  PROVE  Only(new, 1) /\ SizeAt(new, 1)' = size /\ TupleAt(new, 1)' = BytesAt(q, 1)
<1> DEFINE linked == [heap[p] EXCEPT !.next = new]
           old == [heap EXCEPT ![p] = linked]
<1>1. heap \in Seq(AnyPage) /\ Len(heap) \in Nat
  BY DEF Types
<1>2. q \in AnyPage /\ GoodPage(q) /\ 1 \in 1 .. Len(q.slots) /\ q.slots[1].size = size
  BY PageIsAny DEF Rewritten, GoodPage
<1>3. /\ GoodPage(linked) /\ linked.slots = heap[p].slots /\ linked \in AnyPage
      /\ \A b : BytesAt(linked, b) = BytesAt(heap[p], b)
  <2>1. GoodPage(heap[p]) /\ new \in Nat
    BY <1>1 DEF GoodPages
  <2> QED BY <2>1, LinkKeepsGood, PageIsAny DEF GoodPage
<1>4. heap' = Append(old, q)
  OBVIOUS
<1> HIDE DEF linked
<1>5. /\ old \in Seq(AnyPage) /\ Len(old) = Len(heap) /\ old[p] = linked
      /\ \A a \in 1 .. Len(heap) : a # p => old[a] = heap[a]
  BY <1>1, <1>3
<1> HIDE DEF old
<1>6. /\ heap' \in Seq(AnyPage) /\ Len(heap') = new /\ heap'[new] = q
      /\ \A a \in 1 .. Len(heap) : heap'[a] = old[a]
  <2>1. Append(old, q) \in Seq(AnyPage)
    BY <1>2, <1>5
  <2>2. old \in Seq(AnyPage) /\ q \in AnyPage /\ Len(old) \in Nat
    BY <1>2, <1>5
  <2>3. Len(Append(old, q)) = Len(old) + 1
    BY <2>2
  <2>4. Append(old, q)[Len(old) + 1] = q
    BY <2>2, <2>3
  <2>5. Len(Append(old, q)) = Len(old) + 1 /\ Append(old, q)[Len(old) + 1] = q
    BY <2>3, <2>4
  <2>6. \A a \in 1 .. Len(old) : Append(old, q)[a] = old[a]
    BY <2>2
  <2>7. Len(old) = Len(heap) /\ Len(old) + 1 = new
    BY <1>1, <1>5
  <2> QED BY <1>4, <2>1, <2>5, <2>6, <2>7
<1>7. \A a \in 1 .. new : a = new \/ a \in 1 .. Len(heap)
  BY <1>1
<1>8. \A a \in 1 .. Len(heap) :
        /\ GoodPage(heap'[a]) /\ heap'[a].slots = heap[a].slots
        /\ \A b : BytesAt(heap'[a], b) = BytesAt(heap[a], b)
  BY <1>3, <1>5, <1>6 DEF GoodPages
<1>9. GoodPages'
  <2> SUFFICES ASSUME NEW a \in 1 .. Len(heap') PROVE GoodPage(heap'[a])
    BY DEF GoodPages, GoodPage, BytesAt
  <2> QED BY <1>2, <1>6, <1>7, <1>8
<1>10. \A j \in 1 .. Len(q.slots) : j = 1
  BY EmptyIsGood DEF Rewritten
<1>11. IsRid(new, 1)' /\ SizeAt(new, 1)' = size /\ TupleAt(new, 1)' = BytesAt(q, 1)
  <2>1. new \in 1 .. new
    BY <1>1
  <2>2. TupleAt(new, 1)' = BytesAt(q, 1)
    BY <1>6 DEF TupleAt, BytesAt
  <2> QED BY <1>2, <1>6, <2>1, <2>2 DEF IsRid, SizeAt
<1>12. ASSUME NEW a, NEW b, IsRid(a, b)
       PROVE  IsRid(a, b)'
  <2>1. a \in 1 .. Len(heap) /\ b \in 1 .. Len(heap[a].slots) /\ a \in 1 .. new
    BY <1>1, <1>12 DEF IsRid
  <2> QED BY <1>6, <1>8, <2>1 DEF IsRid
<1>13. ASSUME NEW a, NEW b, IsRid(a, b)', ~(a = new /\ b = 1)
       PROVE  /\ IsRid(a, b) /\ SizeAt(a, b)' = SizeAt(a, b)
              /\ SizeAt(a, b) # 0 => TupleAt(a, b)' = TupleAt(a, b)
  <2>1. a \in 1 .. new /\ b \in 1 .. Len(heap'[a].slots)
    BY <1>6, <1>13 DEF IsRid
  <2>2. a # new
    BY <1>6, <1>10, <1>13, <2>1
  <2>3. a \in 1 .. Len(heap)
    BY <1>7, <2>1, <2>2
  <2>4. TupleAt(a, b)' = BytesAt(heap'[a], b)
    BY DEF TupleAt, BytesAt
  <2>5. TupleAt(a, b)' = TupleAt(a, b)
    BY <1>8, <2>3, <2>4 DEF TupleAt
  <2> QED BY <1>8, <2>1, <2>3, <2>5 DEF IsRid, SizeAt
<1> QED BY <1>6, <1>9, <1>11, <1>12, <1>13 DEF Only

\* Of a step that does nothing to the heap, too, it holds that only one slot changes.
LEMMA SameHeap ==
  ASSUME Types, GoodPages, NEW p, NEW i, IsRid(p, i), heap' = heap
  PROVE  Only(p, i) /\ SizeAt(p, i)' = SizeAt(p, i) /\ TupleAt(p, i)' = TupleAt(p, i)
<1>1. GoodPages'
  <2> SUFFICES ASSUME NEW a \in 1 .. Len(heap) PROVE GoodPage(heap[a])
    BY DEF GoodPages, GoodPage, BytesAt
  <2> QED BY DEF GoodPages
<1>2. \A a, b : TupleAt(a, b)' = TupleAt(a, b)
  BY DEF TupleAt, BytesAt
<1> QED BY <1>1, <1>2 DEF Only, Types, IsRid, SizeAt

-----------------------------------------------------------------------------
(* Pages stay well formed. *)

\* What is not larger than a page fits in a new one.
LEMMA FitsEmpty ==
  ASSUME NEW tuple \in Seq(Bytes), Len(tuple) + HeaderSize + SlotSize <= PAGE_SIZE
  PROVE  Fits(EmptyPage, tuple) /\ SlotFor(EmptyPage) = 1
<1>1. EmptySlots(EmptyPage) = {} /\ SlotFor(EmptyPage) = 1
  BY EmptyIsGood DEF EmptySlots, SlotFor
<1>2. EmptyPage.free = PAGE_SIZE /\ SlotSize * Len(EmptyPage.slots) = 0
  BY PageAssumption, EmptyIsGood DEF EmptyPage
<1>3. GetFreeSpaceSize(EmptyPage) = PAGE_SIZE - HeaderSize
  BY PageAssumption, <1>2 DEF GetFreeSpaceSize
<1>4. Len(tuple) \in Nat
  OBVIOUS
<1> QED BY PageAssumption, <1>1, <1>3, <1>4 DEF Fits

LEMMA PageStaysGood ==
  ASSUME NEW p, GoodPage(heap[p]), WrittenKept, "moved" \notin lapses', NEW q, PageBecomes(p, q)
  PROVE  GoodPage(q)
<1>1. ASSUME NEW i \in 1 .. Len(heap[p].slots),
             \/ heap[p].slots[i].size # 0 /\ q = MarkDelete(heap[p], i)
             \/ q = RollbackDelete(heap[p], i)
      PROVE  GoodPage(q)
  BY <1>1, MarkRewrites DEF Rewritten
<1>2. ASSUME NEW i \in 1 .. Len(heap[p].slots), AboveFree(heap[p], i), q = ApplyDelete(heap[p], i)
      PROVE  GoodPage(q)
  BY <1>2, AboveFreeIffTuple, DeleteRewrites DEF Rewritten
<1>3. ASSUME NEW i \in 1 .. Len(heap[p].slots), NEW tuple \in Seq(Bytes), tuple # <<>>,
             CanUpdate(heap[p], i, tuple), MovesNoMarked(heap[p], i, tuple),
             q = UpdateTuple(heap[p], i, tuple)
      PROVE  GoodPage(q)
  BY <1>3, UpdateRewrites DEF Rewritten
<1>4. ASSUME NEW tuple \in Seq(Bytes), tuple # <<>>, Fits(heap[p], tuple),
             q = InsertTuple(heap[p], tuple)
      PROVE  GoodPage(q)
  BY <1>4, InsertRewrites DEF Rewritten
<1> QED BY <1>1, <1>2, <1>3, <1>4, Zenon DEF PageBecomes

LEMMA PagesStayGood ==
  ASSUME Types, GoodPages, WrittenKept, "moved" \notin lapses', HeapBecomes
  PROVE  GoodPages'
<1>1. CASE heap' = heap
  <2> SUFFICES ASSUME NEW a \in 1 .. Len(heap) PROVE GoodPage(heap[a])
    BY <1>1 DEF GoodPages, GoodPage, BytesAt
  <2> QED BY DEF GoodPages
<1>2. ASSUME NEW p \in 1 .. Len(heap), NEW q, PageBecomes(p, q), heap' = [heap EXCEPT ![p] = q]
      PROVE  GoodPages'
  <2>1. GoodPage(q)
    BY <1>2, PageStaysGood DEF GoodPages
  <2>2. /\ Len(heap') = Len(heap) /\ heap'[p] = q
        /\ \A a \in 1 .. Len(heap) : a # p => heap'[a] = heap[a]
    <3>1. q \in AnyPage
      BY <2>1, PageIsAny DEF GoodPage
    <3> QED BY <1>2, <3>1 DEF Types
  <2> SUFFICES ASSUME NEW a \in 1 .. Len(heap') PROVE GoodPage(heap'[a])
    BY DEF GoodPages, GoodPage, BytesAt
  <2> QED BY <2>1, <2>2 DEF GoodPages
<1>3. ASSUME NEW p \in 1 .. Len(heap), NEW tuple \in Seq(Bytes), tuple # <<>>,
             Len(tuple) + HeaderSize + SlotSize <= PAGE_SIZE,
             heap' = Append([heap EXCEPT ![p].next = Len(heap) + 1], InsertTuple(EmptyPage, tuple))
      PROVE  GoodPages'
  <2>1. Fits(EmptyPage, tuple) /\ SlotFor(EmptyPage) = 1
    BY <1>3, FitsEmpty
  <2>2. PICK q : q = InsertTuple(EmptyPage, tuple)
    OBVIOUS
  <2>3. Rewritten(EmptyPage, q, 1, Len(tuple))
    BY <1>3, <2>1, <2>2, EmptyIsGood, InsertRewrites
  <2>4. PICK n : n = Len(tuple)
    OBVIOUS
  <2>5. PICK new : new = Len(heap) + 1
    OBVIOUS
  <2> QED BY <1>3, <2>2, <2>3, <2>4, <2>5, PageAdded DEF Only
<1> QED BY <1>1, <1>2, <1>3 DEF HeapBecomes

\* What went wrong stays so.
LEMMA LapsesStay == Next => lapses \subseteq lapses'
<1> SUFFICES ASSUME Next PROVE lapses \subseteq lapses'
  OBVIOUS
<1>1. ASSUME NEW t \in Txns, QuietSteps(t) PROVE lapses \subseteq lapses'
  BY <1>1, QuietKeepsHeap
<1>2. ASSUME NEW s \in Scans, ScanSteps(s) PROVE lapses \subseteq lapses'
  BY <1>2, ScansWriteNothing
<1>3. ASSUME NEW t \in Txns, WriteStep(t) PROVE lapses \subseteq lapses'
  BY <1>3 DEF WriteStep, InsertStep, InsertHere, InsertMovesOn, InsertExtends, InsertFails,
              MarkTuple, ChangeTuple, Update, faults
<1>4. ASSUME NEW t \in Txns, CommitItem(t) \/ AbortItem(t) PROVE lapses \subseteq lapses'
  BY <1>4 DEF CommitItem, AbortItem, Remove, KeepUpdate, Update, faults
<1> QED BY <1>1, <1>2, <1>3, <1>4, NextIs

PagesInv == Base /\ ("moved" \notin lapses => GoodPages /\ WrittenKept)

LEMMA PagesNext ==
  ASSUME PagesInv, Next
  PROVE  PagesInv'
<1>1. Base' /\ HeapStill /\ HeapBecomes
  BY BaseNext, HeapSteps DEF PagesInv
<1>2. ASSUME "moved" \notin lapses'
      PROVE  GoodPages' /\ WrittenKept'
  <2>1. GoodPages /\ WrittenKept
    BY <1>2, LapsesStay DEF PagesInv
  <2>2. GoodPages'
    BY <1>1, <1>2, <2>1, PagesStayGood DEF PagesInv, Base
  <2>3. WrittenKept'
    BY <1>1, <2>1, WritesAreThere, RecordsStayThere DEF PagesInv
  <2> QED BY <2>2, <2>3
<1> QED BY <1>1, <1>2 DEF PagesInv

LEMMA PagesUnchanged ==
  ASSUME PagesInv, UNCHANGED vars
  PROVE  PagesInv'
<1>1. heap' = heap /\ write_set' = write_set /\ lapses' = lapses /\ Base'
  BY BaseUnchanged DEF PagesInv, vars, txnVars, faults
<1>2. GoodPages => GoodPages'
  <2> SUFFICES ASSUME GoodPages, NEW a \in 1 .. Len(heap) PROVE GoodPage(heap[a])
    BY <1>1 DEF GoodPages, GoodPage, BytesAt
  <2> QED BY DEF GoodPages
<1>3. WrittenKept => WrittenKept'
  BY <1>1 DEF WrittenKept
<1> QED BY <1>1, <1>2, <1>3 DEF PagesInv

LEMMA PagesAlways == Spec => []PagesInv
<1>1. Init => PagesInv
  BY BaseInit DEF PagesInv
<1>2. PagesInv /\ [Next]_vars => PagesInv'
  BY PagesNext, PagesUnchanged
<1> QED BY <1>1, <1>2, PTL DEF Spec

\* Every page stays well formed until an update moves a marked tuple: no two tuples overlap,
\* marked ones included, none reaches the slots, and no byte is lost between them, whatever
\* the transactions do beside each other.
THEOREM TableKeepsPages == Spec => []PagesWellFormed
<1>1. PagesInv => PagesWellFormed
  BY DEF PagesInv, PagesWellFormed, GoodPages, GoodPage
<1> QED BY <1>1, PagesAlways, PTL

-----------------------------------------------------------------------------
(* What the steps do to the records, unless an update moves a marked tuple or a deletion is *)
(* refused.                                                                                 *)

Sound == lapses \cap {"moved", "refused"} = {}

LEMMA HeapParts == HeapInv => Base /\ Types /\ Threads /\ GoodPages /\ WrittenKept /\ Records
BY DEF HeapInv, PageInv, Base

\* A record about a slot that keeps its size stands as it did.
LEMMA OthersStand ==
  ASSUME NEW p, NEW i, Only(p, i), state' = state,
         NEW u, NEW k, RecordStands(u, k), write_set'[u][k] = write_set[u][k],
         ~About(u, k, p, i)
  PROVE  RecordStands(u, k)'
<1>1. PICK a : a = write_set[u][k].page
  OBVIOUS
<1>2. PICK b : b = write_set[u][k].slot
  OBVIOUS
<1>3. IsRid(a, b) /\ ~(a = p /\ b = i)
  BY <1>1, <1>2 DEF RecordStands, About
<1>4. IsRid(a, b)' /\ SizeAt(a, b)' = SizeAt(a, b)
  BY <1>3 DEF Only
<1>5. write_set'[u][k].page = a /\ write_set'[u][k].slot = b
  BY <1>1, <1>2
<1> QED BY <1>1, <1>2, <1>4, <1>5 DEF RecordStands, Counts, SizeAt, IsRid

\* t writes slot i of page p, which no other transaction has written, and records that.
LEMMA RecordAdded ==
  ASSUME Types, Records, NEW t \in Txns, state[t] # "COMMITTED", state' = state,
         NEW p, NEW i, Only(p, i),
         NEW item \in Item, item.page = p, item.slot = i,
         write_set' = [write_set EXCEPT ![t] = Append(@, item)],
         SizeAt(p, i)' # 0, item.wtype = "DELETE" => SizeAt(p, i)' < 0,
         \A u \in Txns \ {t} : \A k \in 1 .. Len(write_set[u]) :
           Counts(u, k) => ~About(u, k, p, i),
         \A k \in 1 .. Len(write_set[t]) : About(t, k, p, i) =>
           write_set[t][k].wtype # "DELETE" /\ item.wtype # "INSERT"
  PROVE  Records'
<1> DEFINE n == Len(write_set[t])
           Old(u, k) == k \in 1 .. Len(write_set[u]) /\ write_set'[u][k] = write_set[u][k]
           New(u, k) == u = t /\ k = n + 1 /\ write_set'[u][k] = item
<1>1. n \in Nat
  BY OneMore
<1>2. \A u \in Txns : \A k \in 1 .. Len(write_set'[u]) : New(u, k) \/ (k \in Nat /\ Old(u, k))
  BY OneMore, <1>1
<1>3. ASSUME NEW u \in Txns, NEW k, Old(u, k)
      PROVE  /\ RecordStands(u, k)
             /\ u # t /\ Counts(u, k) => ~About(u, k, p, i)
             /\ u = t /\ About(u, k, p, i) =>
                  write_set[u][k].wtype # "DELETE" /\ item.wtype # "INSERT"
  BY <1>3 DEF Records, RecordsStand
<1>4. ASSUME NEW u \in Txns, NEW k \in 1 .. Len(write_set'[u])
      PROVE  RecordStands(u, k)'
  <2>1. CASE New(u, k)
    <3>1. IsRid(p, i)'
      BY DEF Only
    <3> QED BY <2>1, <3>1 DEF RecordStands, SizeAt, IsRid
  <2>2. CASE Old(u, k) /\ ~About(u, k, p, i)
    BY <1>3, <2>2, OthersStand
  <2>3. CASE Old(u, k) /\ About(u, k, p, i)
    <3>1. IsRid(p, i)' /\ RecordStands(u, k) /\ write_set[u][k].wtype # "DELETE"
      BY <1>3, <2>3 DEF Only, Counts
    <3> QED BY <2>3, <3>1 DEF RecordStands, Counts, About, SizeAt, IsRid
  <2> QED BY <1>2, <2>1, <2>2, <2>3
<1>5. ASSUME NEW u \in Txns, NEW v \in Txns, u # v,
             NEW k \in 1 .. Len(write_set'[u]), NEW l \in 1 .. Len(write_set'[v]),
             Counts(u, k)', Counts(v, l)'
      PROVE  ~SameRid(write_set'[u][k], write_set'[v][l])
  <2>1. CASE Old(u, k) /\ Old(v, l)
    BY <1>5, <2>1 DEF Records, RecordsApart, Counts
  <2>2. CASE New(u, k)
    <3>1. Old(v, l) /\ v # t
      BY <1>2, <1>5, <2>2
    <3>2. ~About(v, l, p, i)
      BY <1>3, <1>5, <3>1 DEF Counts
    <3> QED BY <2>2, <3>1, <3>2 DEF SameRid, About
  <2>3. CASE New(v, l)
    <3>1. Old(u, k) /\ u # t
      BY <1>2, <1>5, <2>3
    <3>2. ~About(u, k, p, i)
      BY <1>3, <1>5, <3>1 DEF Counts
    <3> QED BY <2>3, <3>1, <3>2 DEF SameRid, About
  <2> QED BY <1>2, <2>1, <2>2, <2>3
<1>6. ASSUME NEW u \in Txns, NEW k \in 1 .. Len(write_set'[u]), NEW l \in 1 .. Len(write_set'[u]),
             k < l, SameRid(write_set'[u][k], write_set'[u][l])
      PROVE  write_set'[u][k].wtype # "DELETE" /\ write_set'[u][l].wtype # "INSERT"
  <2>1. CASE Old(u, k) /\ Old(u, l)
    BY <1>6, <2>1 DEF Records, RecordsOrdered
  <2>2. CASE New(u, l)
    <3>1. Old(u, k) /\ u = t
      <4>1. k \in Nat /\ k # n + 1
        BY <1>1, <1>6, <2>2
      <4> QED BY <1>2, <2>2, <4>1
    <3>2. About(u, k, p, i)
      BY <1>6, <2>2, <3>1 DEF About, SameRid
    <3> QED BY <1>3, <2>2, <3>1, <3>2
  <2>3. CASE New(u, k) /\ Old(u, l)
    BY <1>1, <1>6, <2>3
  <2> QED BY <1>2, <2>1, <2>2, <2>3
<1>7. RecordsStand'
  BY <1>4 DEF RecordsStand
<1>8. RecordsApart'
  BY <1>5 DEF RecordsApart
<1>9. RecordsOrdered'
  BY <1>6 DEF RecordsOrdered
<1> QED BY <1>7, <1>8, <1>9 DEF Records

\* A transaction without a record of it updates a slot; no deletion is on record for that.
LEMMA RecordsKept ==
  ASSUME Records, state' = state, write_set' = write_set,
         NEW p, NEW i, Only(p, i), SizeAt(p, i)' # 0,
         \A u \in Txns : \A k \in 1 .. Len(write_set[u]) :
           About(u, k, p, i) => write_set[u][k].wtype # "DELETE"
  PROVE  Records'
<1>1. ASSUME NEW u \in Txns, NEW k \in 1 .. Len(write_set[u])
      PROVE  RecordStands(u, k)'
  <2>1. RecordStands(u, k)
    BY DEF Records, RecordsStand
  <2>2. CASE ~About(u, k, p, i)
    BY <2>1, <2>2, OthersStand
  <2>3. CASE About(u, k, p, i)
    <3>1. write_set[u][k].wtype # "DELETE"
      BY <2>3
    <3>2. IsRid(p, i)'
      BY DEF Only
    <3> QED BY <2>1, <2>3, <3>1, <3>2 DEF RecordStands, About, SizeAt, IsRid
  <2> QED BY <2>2, <2>3
<1>2. RecordsStand'
  BY <1>1 DEF RecordsStand
<1>3. RecordsApart'
  BY DEF Records, RecordsApart, Counts
<1>4. RecordsOrdered'
  BY DEF Records, RecordsOrdered
<1> QED BY <1>2, <1>3, <1>4 DEF Records

\* The record about slot i of page p that is t's last is worked off: what it says of the slot
\* no longer has to hold, and what other records say of it does.
LEMMA RecordPopped ==
  ASSUME Types, Records, NEW t \in Txns, write_set[t] # <<>>, Popped(t), state' = state,
         NEW p, NEW i, Only(p, i), About(t, Len(write_set[t]), p, i),
         \/ SizeAt(p, i)' = SizeAt(p, i)
         \/ /\ Counts(t, Len(write_set[t]))
            /\ \A k \in 1 .. Len(write_set[t]) - 1 : About(t, k, p, i) =>
                 /\ write_set[t][k].wtype # "DELETE"
                 /\ Counts(t, k) => SizeAt(p, i)' # 0
  PROVE  Records'
<1> DEFINE n == Len(write_set[t])
<1>1. /\ n \in Nat /\ n # 0 /\ n \in 1 .. n
      /\ \A k \in 1 .. Len(write_set'[t]) : k \in 1 .. n - 1
  BY OneLess
<1>2. \A u \in Txns : \A k \in 1 .. Len(write_set'[u]) :
        k \in 1 .. Len(write_set[u]) /\ write_set'[u][k] = write_set[u][k]
  BY OneLess
<1> HIDE DEF n
<1>3. ASSUME NEW u \in Txns, NEW k \in 1 .. Len(write_set'[u])
      PROVE  RecordStands(u, k)'
  <2>1. RecordStands(u, k)
    BY <1>2 DEF Records, RecordsStand
  <2>2. CASE ~About(u, k, p, i)
    BY <1>2, <2>1, <2>2, OthersStand
  <2>3. CASE About(u, k, p, i)
    <3>1. IsRid(p, i)'
      BY DEF Only
    <3>2. write_set'[u][k] = write_set[u][k] /\ k \in 1 .. Len(write_set[u])
      BY <1>2
    <3>3. CASE SizeAt(p, i)' = SizeAt(p, i)
      BY <2>1, <2>3, <3>1, <3>3, <3>2 DEF RecordStands, Counts, About, SizeAt, IsRid
    <3>4. CASE SizeAt(p, i)' # SizeAt(p, i)
      <4>1. u # t => ~Counts(u, k)
        <5> SUFFICES ASSUME u # t, Counts(u, k) PROVE FALSE
          OBVIOUS
        <5>1. About(t, n, p, i) /\ Counts(t, n) /\ n \in 1 .. Len(write_set[t])
          BY <1>1, <3>4 DEF n
        <5>2. ~SameRid(write_set[u][k], write_set[t][n])
          BY <3>2, <5>1 DEF Records, RecordsApart
        <5> QED BY <2>3, <5>1, <5>2 DEF SameRid, About
      <4>2. write_set[u][k].wtype # "DELETE" /\ (Counts(u, k) => SizeAt(p, i)' # 0)
        <5>1. CASE u = t
          <6>1. k \in 1 .. n - 1
            BY <1>1, <5>1
          <6> QED BY <2>3, <3>4, <5>1, <6>1 DEF n
        <5>2. CASE u # t
          BY <4>1, <5>2 DEF Counts
        <5> QED BY <5>1, <5>2
      <4> QED BY <2>1, <2>3, <3>1, <3>2, <4>2 DEF RecordStands, Counts, About, SizeAt, IsRid
    <3> QED BY <3>3, <3>4
  <2> QED BY <2>2, <2>3
<1>4. RecordsStand'
  BY <1>3 DEF RecordsStand
<1>5. RecordsApart'
  <2> SUFFICES ASSUME NEW u \in Txns, NEW v \in Txns, u # v,
                      NEW k \in 1 .. Len(write_set'[u]), NEW l \in 1 .. Len(write_set'[v]),
                      Counts(u, k)', Counts(v, l)'
               PROVE  ~SameRid(write_set'[u][k], write_set'[v][l])
    BY DEF RecordsApart
  <2>1. Counts(u, k) /\ Counts(v, l)
    BY <1>2 DEF Counts
  <2> QED BY <1>2, <2>1 DEF Records, RecordsApart
<1>6. RecordsOrdered'
  BY <1>2 DEF Records, RecordsOrdered
<1> QED BY <1>4, <1>5, <1>6 DEF Records

-----------------------------------------------------------------------------
(* The steps. *)

\* Steps that leave the pages and the records alone: a transaction that has begun to commit
\* does not take that back as long as it has records.
LEMMA NothingWritten ==
  ASSUME Records, heap' = heap, write_set' = write_set,
         \A u \in Txns : write_set[u] # <<>> /\ state[u] = "COMMITTED" => state'[u] = "COMMITTED"
  PROVE  Records'
<1>2. ASSUME NEW u \in Txns, NEW k \in 1 .. Len(write_set[u])
      PROVE  Counts(u, k)' => Counts(u, k)
  <2>1. write_set[u] # <<>>
    BY <1>2
  <2> QED BY <2>1 DEF Counts
<1>3. RecordsStand'
  <2> SUFFICES ASSUME NEW u \in Txns, NEW k \in 1 .. Len(write_set[u])
               PROVE  RecordStands(u, k)'
    BY DEF RecordsStand
  <2>1. RecordStands(u, k)
    BY DEF Records, RecordsStand
  <2> QED BY <1>2, <2>1 DEF RecordStands, SizeAt, IsRid
<1>4. RecordsApart'
  <2> SUFFICES ASSUME NEW u \in Txns, NEW v \in Txns, u # v,
                      NEW k \in 1 .. Len(write_set[u]), NEW l \in 1 .. Len(write_set[v]),
                      Counts(u, k)', Counts(v, l)'
               PROVE  ~SameRid(write_set[u][k], write_set[v][l])
    BY DEF RecordsApart
  <2> QED BY <1>2 DEF Records, RecordsApart
<1>5. RecordsOrdered'
  BY DEF Records, RecordsOrdered
<1> QED BY <1>3, <1>4, <1>5 DEF Records

Safe == Records /\ stopped # "assertion"

LEMMA QuietStep ==
  ASSUME HeapInv, NEW t \in Txns, QuietSteps(t)
  PROVE  Safe'
<1>1. heap' = heap /\ write_set' = write_set
  BY QuietKeepsHeap
<1>2. /\ \A u \in Txns : u # t => state'[u] = state[u]
      /\ write_set[t] # <<>> /\ state[t] = "COMMITTED" => state'[t] = "COMMITTED"
      /\ stopped' \in {stopped, "no frame"}
  <2> USE HeapParts DEF Types
  <2>1. CASE Begin(t)
    BY <2>1 DEF Begin, faults
  <2>2. CASE Refused(t)
    BY <2>2 DEF Refused, Calls, faults
  <2>3. CASE Commit(t)
    BY <2>3 DEF Commit, faults
  <2>4. CASE Abort(t)
    BY <2>4 DEF Abort, faults
  <2>5. CASE End(t)
    BY <2>5 DEF End, faults
  <2>6. CASE NoFrame(t)
    BY <2>6 DEF NoFrame, txnVars
  <2>7. ASSUME NEW p, EnterLatch(t, p)
        PROVE  state' = state /\ stopped' = stopped
    BY <2>7 DEF EnterLatch, txnVars, faults
  <2> QED BY <2>1, <2>2, <2>3, <2>4, <2>5, <2>6, <2>7 DEF QuietSteps
<1>3. Records'
  BY <1>1, <1>2, HeapParts, NothingWritten
<1> QED BY <1>2, <1>3 DEF Safe, HeapInv

LEMMA ScanStepSafe ==
  ASSUME HeapInv, NEW s \in Scans, ScanSteps(s)
  PROVE  Safe'
<1>1. /\ heap' = heap /\ state' = state /\ write_set' = write_set
      /\ stopped' \in {stopped, "no frame"}
  BY ScansWriteNothing DEF txnVars
<1>2. Records'
  BY <1>1, HeapParts, NothingWritten
<1> QED BY <1>1, <1>2 DEF Safe, HeapInv

\* InsertTuple finds no room in a page.
LEMMA InsertGoesOn ==
  ASSUME HeapInv, NEW t \in Txns, NEW p \in 1 .. Len(heap), NEW tuple \in Tuples,
         InsertMovesOn(t, p, tuple) \/ InsertFails(t, p, tuple)
  PROVE  Safe'
<1>1. state[t] \in {"GROWING", "ABORTED"}
  BY HeapParts, InsertingTuple DEF InsertMovesOn, InsertFails, Full
<1>2. heap' = heap /\ write_set' = write_set /\ stopped' = stopped
  BY DEF InsertMovesOn, InsertFails, faults
<1>3. \A u \in Txns : state[u] = "COMMITTED" => state'[u] = "COMMITTED"
  BY <1>1, HeapParts DEF Types, InsertMovesOn, InsertFails
<1>4. Records'
  BY <1>2, <1>3, HeapParts, NothingWritten
<1> QED BY <1>2, <1>4 DEF Safe, HeapInv

\* No record is about the slot into which a tuple is inserted.
LEMMA InsertDone ==
  ASSUME HeapInv, NEW t \in Txns, state[t] # "COMMITTED", state' = state,
         NEW p \in Nat, NEW i \in Nat, Only(p, i),
         SizeAt(p, i)' # 0, ~(SizeAt(p, i)' < 0), IsRid(p, i) => SizeAt(p, i) = 0,
         Recorded(t, p, i, "INSERT", <<>>)
  PROVE  Records'
<1>1. PICK item \in Item : item = [page |-> p, slot |-> i, wtype |-> "INSERT", tuple |-> <<>>]
  <2>1. [page |-> p, slot |-> i, wtype |-> "INSERT", tuple |-> <<>>] \in Item
    BY DEF Item
  <2> QED BY <2>1
<1>2. write_set' = [write_set EXCEPT ![t] = Append(@, item)]
  BY <1>1 DEF Recorded
<1>3. item.page = p /\ item.slot = i /\ item.wtype = "INSERT"
  BY <1>1
<1>4. Types /\ Records /\ RecordsThere
  BY HeapParts DEF Base
<1>5. \A u \in Txns : \A k \in 1 .. Len(write_set[u]) : ~(Counts(u, k) /\ About(u, k, p, i))
  <2> SUFFICES ASSUME NEW u \in Txns, NEW k \in 1 .. Len(write_set[u]),
                      Counts(u, k), About(u, k, p, i)
               PROVE  FALSE
    OBVIOUS
  <2>1. RecordStands(u, k) /\ RecordThere(u, k)
    BY <1>4 DEF Records, RecordsStand, RecordsThere
  <2> QED BY <2>1 DEF RecordStands, RecordThere, About
<1>6. \A k \in 1 .. Len(write_set[t]) : ~About(t, k, p, i)
  BY <1>5 DEF Counts
<1> QED BY <1>2, <1>3, <1>4, <1>5, <1>6, RecordAdded

\* t has inserted the tuple into slot i of page p.
Puts(t, p, i, tuple) ==
  /\ p \in Nat /\ i \in Nat /\ Only(p, i)
  /\ SizeAt(p, i)' = Len(tuple) /\ TupleAt(p, i)' = tuple
  /\ IsRid(p, i) => SizeAt(p, i) = 0
  /\ Recorded(t, p, i, "INSERT", <<>>)

\* InsertTuple finds room.
LEMMA InsertHereDoes ==
  ASSUME HeapInv, NEW t \in Txns, NEW p \in 1 .. Len(heap), NEW tuple \in Tuples,
         InsertHere(t, p, tuple)
  PROVE  \E i : Puts(t, p, i, tuple)
<1>1. /\ tuple \in Seq(Bytes) /\ tuple # <<>> /\ state[t] # "COMMITTED"
      /\ Len(tuple) \in Nat /\ Len(tuple) # 0
  BY HeapParts, InsertingTuple DEF InsertHere
<1>2. PICK i : i = SlotFor(heap[p])
  OBVIOUS
<1>3. PICK q : q = InsertTuple(heap[p], tuple)
  OBVIOUS
<1>4. /\ heap' = [heap EXCEPT ![p] = q] /\ Recorded(t, p, i, "INSERT", <<>>)
      /\ Fits(heap[p], tuple)
  BY <1>2, <1>3 DEF InsertHere, WritePage
<1>5. /\ Rewritten(heap[p], q, i, Len(tuple)) /\ BytesAt(q, i) = tuple
      /\ i \in 1 .. Len(heap[p].slots) => heap[p].slots[i].size = 0
  <2>1. GoodPage(heap[p])
    BY HeapParts DEF GoodPages
  <2> QED BY <1>1, <1>2, <1>3, <1>4, <2>1, InsertRewrites
<1>6. PICK n : n = Len(tuple)
  OBVIOUS
<1>7. Only(p, i) /\ SizeAt(p, i)' = n /\ TupleAt(p, i)' = tuple
  BY <1>4, <1>5, <1>6, HeapParts, PageRewritten
<1>8. IsRid(p, i) => SizeAt(p, i) = 0
  BY <1>5 DEF IsRid, SizeAt
<1>9. p \in Nat /\ i \in Nat
  BY <1>5 DEF Rewritten
<1> QED BY <1>4, <1>6, <1>7, <1>8, <1>9 DEF Puts

\* InsertTuple creates a page.
LEMMA InsertExtendsDoes ==
  ASSUME HeapInv, NEW t \in Txns, NEW p \in 1 .. Len(heap), NEW tuple \in Tuples,
         InsertExtends(t, p, tuple)
  PROVE  \E new, i : Puts(t, new, i, tuple)
<1>1. /\ tuple \in Seq(Bytes) /\ tuple # <<>> /\ state[t] # "COMMITTED"
      /\ Len(tuple) \in Nat /\ Len(tuple) # 0
      /\ Len(tuple) + HeaderSize + SlotSize <= PAGE_SIZE
  <2>1. InsertAt(t, p, tuple)
    BY DEF InsertExtends, Full
  <2>2. /\ tuple \in Seq(Bytes) /\ tuple # <<>>
        /\ Len(tuple) + HeaderSize + SlotSize <= PAGE_SIZE
        /\ state[t] \in {"GROWING", "ABORTED"}
    BY <2>1, HeapParts, InsertingTuple
  <2> QED BY <2>2
<1>2. PICK new : new = Len(heap) + 1
  OBVIOUS
<1>3. PICK q : q = InsertTuple(EmptyPage, tuple)
  OBVIOUS
<1>4. /\ heap' = Append([heap EXCEPT ![p].next = new], q)
      /\ Recorded(t, new, 1, "INSERT", <<>>)
  BY <1>2, <1>3 DEF InsertExtends
<1>5. PICK n : n = Len(tuple)
  OBVIOUS
<1>7. Fits(EmptyPage, tuple) /\ SlotFor(EmptyPage) = 1
  BY <1>1, FitsEmpty
<1>8. Rewritten(EmptyPage, q, 1, n) /\ BytesAt(q, 1) = tuple
  BY <1>1, <1>3, <1>5, <1>7, EmptyIsGood, InsertRewrites
<1>9. Only(new, 1) /\ SizeAt(new, 1)' = n /\ TupleAt(new, 1)' = tuple
  BY <1>2, <1>4, <1>8, HeapParts, PageAdded
<1>10. ~IsRid(new, 1) /\ new \in Nat
  <2>1. Len(heap) \in Nat
    BY HeapParts DEF Types
  <2> QED BY <1>1, <1>2, <1>5, <2>1 DEF IsRid
<1> QED BY <1>4, <1>5, <1>9, <1>10 DEF Puts

LEMMA InsertDoes ==
  ASSUME HeapInv, NEW t \in Txns, NEW p \in 1 .. Len(heap), NEW tuple \in Tuples,
         InsertHere(t, p, tuple) \/ InsertExtends(t, p, tuple)
  PROVE  \E a, i : Puts(t, a, i, tuple)
BY InsertHereDoes, InsertExtendsDoes

LEMMA InsertSteps ==
  ASSUME HeapInv, NEW t \in Txns, NEW p \in 1 .. Len(heap), NEW tuple \in Tuples,
         InsertHere(t, p, tuple) \/ InsertExtends(t, p, tuple)
  PROVE  Safe'
<1>1. PICK a, i : Puts(t, a, i, tuple)
  BY InsertDoes
<1>2. state' = state /\ stopped' = stopped /\ InsertAt(t, p, tuple)
  BY DEF InsertHere, InsertExtends, Full, faults
<1>3. tuple \in Seq(Bytes) /\ tuple # <<>> /\ state[t] # "COMMITTED"
  BY <1>2, HeapParts, InsertingTuple
<1>4. PICK n : n = Len(tuple)
  OBVIOUS
<1>5. n # 0 /\ ~(n < 0)
  BY <1>3, <1>4
<1>6. /\ a \in Nat /\ i \in Nat /\ Only(a, i) /\ SizeAt(a, i)' = n
      /\ IsRid(a, i) => SizeAt(a, i) = 0
      /\ Recorded(t, a, i, "INSERT", <<>>)
  BY <1>1, <1>4 DEF Puts
<1>7. Records'
  BY <1>2, <1>3, <1>5, <1>6, InsertDone
<1> QED BY <1>2, <1>7 DEF Safe, HeapInv

\* What is there of slot i of page p.
LEMMA SlotAt ==
  ASSUME HeapInv, NEW p, NEW i, IsRid(p, i)
  PROVE  /\ p \in 1 .. Len(heap) /\ i \in 1 .. Len(heap[p].slots) /\ p \in Nat /\ i \in Nat
         /\ GoodPage(heap[p]) /\ heap[p].slots[i].size = SizeAt(p, i) /\ SizeAt(p, i) \in Int
<1>1. p \in 1 .. Len(heap) /\ i \in 1 .. Len(heap[p].slots)
  BY DEF IsRid
<1>2. GoodPage(heap[p])
  BY <1>1, HeapParts DEF GoodPages
<1>3. heap[p] \in Page
  BY <1>2 DEF GoodPage
<1>4. heap[p].slots[i].size \in Int /\ Len(heap[p].slots) \in Nat
  BY <1>1, <1>3, PageFacts
<1>5. Len(heap) \in Nat
  BY HeapParts DEF Types
<1> QED BY <1>1, <1>2, <1>4, <1>5 DEF SizeAt

\* A slot that others have not written.
LEMMA NotTheirs ==
  ASSUME NEW t \in Txns, NEW p, NEW i, Untouched(t, p, i)
  PROVE  \A u \in Txns \ {t} : \A k \in 1 .. Len(write_set[u]) : Counts(u, k) => ~About(u, k, p, i)
BY DEF Untouched, Writes, Counts, About

\* A tuple that is not marked is not one that t has deleted.
LEMMA NotDeleted ==
  ASSUME HeapInv, NEW t \in Txns, NEW p, NEW i, ~(SizeAt(p, i) < 0)
  PROVE  \A k \in 1 .. Len(write_set[t]) : About(t, k, p, i) => write_set[t][k].wtype # "DELETE"
<1> SUFFICES ASSUME NEW k \in 1 .. Len(write_set[t]), About(t, k, p, i),
                    write_set[t][k].wtype = "DELETE"
             PROVE  FALSE
  OBVIOUS
<1>1. RecordStands(t, k)
  BY HeapParts DEF Records, RecordsStand
<1> QED BY <1>1 DEF RecordStands, About

\* MarkDelete.
LEMMA MarkDoes ==
  ASSUME HeapInv, "refused" \notin lapses', NEW t \in Txns,
         NEW p \in 1 .. Len(heap), NEW i \in 1 .. Len(heap[p].slots), MarkTuple(t, p, i)
  PROVE  /\ p \in Nat /\ i \in Nat /\ SizeAt(p, i) \in Int /\ SizeAt(p, i) > 0
         /\ Only(p, i) /\ SizeAt(p, i)' = -SizeAt(p, i) /\ TupleAt(p, i)' = TupleAt(p, i)
<1>1. PICK s : s = SizeAt(p, i)
  OBVIOUS
<1>2. /\ p \in Nat /\ i \in Nat /\ GoodPage(heap[p]) /\ heap[p].slots[i].size = s /\ s \in Int
  BY <1>1, SlotAt DEF IsRid
<1>3. PICK q : q = MarkDelete(heap[p], i)
  OBVIOUS
<1>4. s > 0 /\ Visible(heap[p], i)
  BY <1>2 DEF MarkTuple, Visible
<1>5. heap' = [heap EXCEPT ![p] = q]
  BY <1>3, <1>4 DEF MarkTuple, WritePage
<1>6. PICK m : m = -s
  OBVIOUS
<1>7. s # 0
  BY <1>2, <1>4
<1>8. Rewritten(heap[p], q, i, m) /\ BytesAt(q, i) = BytesAt(heap[p], i)
  BY <1>2, <1>3, <1>6, <1>7, MarkRewrites
<1>9. Types /\ GoodPages
  BY HeapParts
<1>10. Only(p, i) /\ SizeAt(p, i)' = m /\ TupleAt(p, i)' = TupleAt(p, i)
  BY <1>5, <1>8, <1>9, PageRewritten DEF TupleAt
<1> QED BY <1>1, <1>2, <1>4, <1>6, <1>10

LEMMA MarkStep ==
  ASSUME HeapInv, "refused" \notin lapses',
         NEW t \in Txns, NEW p \in 1 .. Len(heap), NEW i \in 1 .. Len(heap[p].slots),
         MarkTuple(t, p, i)
  PROVE  Safe'
<1>1. PICK s : s = SizeAt(p, i)
  OBVIOUS
<1>2. PICK m : m = -s
  OBVIOUS
<1>3. /\ p \in Nat /\ i \in Nat /\ s \in Int /\ s > 0
      /\ Only(p, i) /\ SizeAt(p, i)' = m
  BY <1>1, <1>2, MarkDoes
<1>4. /\ Recorded(t, p, i, "DELETE", <<>>) /\ state' = state /\ stopped' = stopped
      /\ Untouched(t, p, i) /\ state[t] # "COMMITTED"
  BY DEF MarkTuple, Calls
<1>5. m # 0 /\ m < 0
  BY <1>2, <1>3
<1>7. PICK item \in Item : item = [page |-> p, slot |-> i, wtype |-> "DELETE", tuple |-> <<>>]
  <2>1. [page |-> p, slot |-> i, wtype |-> "DELETE", tuple |-> <<>>] \in Item
    BY <1>3 DEF Item
  <2> QED BY <2>1
<1>8. /\ write_set' = [write_set EXCEPT ![t] = Append(@, item)]
      /\ item.page = p /\ item.slot = i /\ item.wtype = "DELETE"
  BY <1>4, <1>7 DEF Recorded
<1>9. \A k \in 1 .. Len(write_set[t]) : About(t, k, p, i) => write_set[t][k].wtype # "DELETE"
  BY <1>1, <1>3, NotDeleted
<1>10. Records'
  BY <1>3, <1>4, <1>5, <1>8, <1>9, HeapParts, NotTheirs, RecordAdded
<1> QED BY <1>4, <1>10 DEF Safe, HeapInv

\* What is there of a tuple.
LEMMA TupleFacts ==
  ASSUME HeapInv, NEW p, NEW i, IsRid(p, i), SizeAt(p, i) # 0
  PROVE  TupleAt(p, i) \in Seq(Bytes) /\ Len(TupleAt(p, i)) = Abs(SizeAt(p, i))
<1>1. /\ p \in 1 .. Len(heap) /\ i \in 1 .. Len(heap[p].slots) /\ GoodPage(heap[p])
      /\ heap[p].slots[i].size # 0 /\ heap[p].slots[i].size \in Int
  BY SlotAt
<1>2. TupleAt(p, i) \in Seq(Bytes)
  BY <1>1 DEF GoodPage, TupleAt
<1>3. Abs(heap[p].slots[i].size) \in Nat
  BY <1>1, AbsFacts
<1>4. Len(TupleAt(p, i)) = Abs(heap[p].slots[i].size)
  BY <1>3 DEF TupleAt, BytesAt
<1> QED BY <1>2, <1>4 DEF SizeAt

\* UpdateTuple, of a call or of an undo: its assertion holds.
LEMMA UpdateDoes ==
  ASSUME HeapInv, "moved" \notin lapses', NEW t, NEW p, NEW i, IsRid(p, i),
         NEW tuple \in Seq(Bytes), tuple # <<>>, NEW lapse,
         CanUpdate(heap[p], i, tuple), Update(t, p, i, tuple, lapse)
  PROVE  /\ p \in Nat /\ i \in Nat /\ SizeAt(p, i) \in Int /\ SizeAt(p, i) > 0
         /\ Len(tuple) \in Nat \ {0}
         /\ Only(p, i) /\ SizeAt(p, i)' = Len(tuple) /\ TupleAt(p, i)' = tuple
         /\ stopped' = stopped
<1>1. PICK s : s = SizeAt(p, i)
  OBVIOUS
<1>2. /\ p \in 1 .. Len(heap) /\ i \in 1 .. Len(heap[p].slots)
      /\ p \in Nat /\ i \in Nat /\ GoodPage(heap[p]) /\ heap[p].slots[i].size = s /\ s \in Int
  BY <1>1, SlotAt
<1>3. PICK q : q = UpdateTuple(heap[p], i, tuple)
  OBVIOUS
<1>4. PICK n : n = Len(tuple)
  OBVIOUS
<1>5. n \in Nat /\ n # 0
  BY <1>4
<1>6. s > 0
  BY <1>2 DEF CanUpdate, Visible
<1>7. AboveFree(heap[p], i)
  BY <1>2, <1>6, AboveFreeIffTuple
<1>8. /\ heap' = [heap EXCEPT ![p] = q] /\ stopped' = stopped
      /\ MovesNoMarked(heap[p], i, tuple)
  BY <1>3, <1>7 DEF Update, WritePage
<1>9. Rewritten(heap[p], q, i, n) /\ BytesAt(q, i) = tuple
  BY <1>2, <1>3, <1>4, <1>8, UpdateRewrites
<1>10. Types /\ GoodPages
  BY HeapParts
<1>11. Only(p, i) /\ SizeAt(p, i)' = n /\ TupleAt(p, i)' = tuple
  BY <1>2, <1>8, <1>9, <1>10, PageRewritten
<1> QED BY <1>1, <1>2, <1>4, <1>5, <1>6, <1>8, <1>11

\* UpdateTuple that a caller calls.
LEMMA ChangeDoes ==
  ASSUME HeapInv, "moved" \notin lapses',
         NEW t \in Txns, NEW p \in 1 .. Len(heap), NEW i \in 1 .. Len(heap[p].slots),
         NEW tuple \in Tuples, ChangeTuple(t, p, i, tuple)
  PROVE  /\ p \in Nat /\ i \in Nat /\ SizeAt(p, i) \in Int /\ SizeAt(p, i) > 0
         /\ Len(tuple) \in Nat \ {0}
         /\ Only(p, i) /\ SizeAt(p, i)' = Len(tuple) /\ TupleAt(p, i)' = tuple
         /\ stopped' = stopped
<1>1. tuple \in Seq(Bytes) /\ tuple # <<>> /\ IsRid(p, i)
  BY HeapAssumption DEF IsRid
<1>2. CanUpdate(heap[p], i, tuple) /\ \E lapse : Update(t, p, i, tuple, lapse)
  BY DEF ChangeTuple
<1> QED BY <1>1, <1>2, UpdateDoes

LEMMA ChangeStep ==
  ASSUME HeapInv, "moved" \notin lapses',
         NEW t \in Txns, NEW p \in 1 .. Len(heap), NEW i \in 1 .. Len(heap[p].slots),
         NEW tuple \in Tuples, ChangeTuple(t, p, i, tuple)
  PROVE  Safe'
<1>1. PICK s : s = SizeAt(p, i)
  OBVIOUS
<1>2. PICK n : n = Len(tuple)
  OBVIOUS
<1>3. /\ p \in Nat /\ i \in Nat /\ s \in Int /\ s > 0 /\ n \in Nat /\ n # 0
      /\ Only(p, i) /\ SizeAt(p, i)' = n /\ stopped' = stopped
  BY <1>1, <1>2, ChangeDoes
<1>4. state' = state /\ Untouched(t, p, i) /\ state[t] # "COMMITTED"
  BY DEF ChangeTuple, Calls
<1>5. \A k \in 1 .. Len(write_set[t]) : About(t, k, p, i) => write_set[t][k].wtype # "DELETE"
  BY <1>1, <1>3, NotDeleted
<1>6. PICK old : old = TupleAt(p, i)
  OBVIOUS
<1>7. CASE Recorded(t, p, i, "UPDATE", old)
  <2>1. old \in Seq(Bytes \cup {Free})
    <3>1. IsRid(p, i) /\ SizeAt(p, i) # 0
      BY <1>1, <1>3 DEF IsRid
    <3>2. old \in Seq(Bytes)
      BY <1>6, <3>1, TupleFacts
    <3> QED BY <3>2
  <2>2. PICK item \in Item : item = [page |-> p, slot |-> i, wtype |-> "UPDATE", tuple |-> old]
    <3>1. [page |-> p, slot |-> i, wtype |-> "UPDATE", tuple |-> old] \in Item
      BY <1>3, <2>1 DEF Item
    <3> QED BY <3>1
  <2>3. /\ write_set' = [write_set EXCEPT ![t] = Append(@, item)]
        /\ item.page = p /\ item.slot = i /\ item.wtype = "UPDATE"
    BY <1>7, <2>2 DEF Recorded
  <2>4. Records'
    BY <1>3, <1>4, <1>5, <2>3, HeapParts, NotTheirs, RecordAdded
  <2> QED BY <1>3, <2>4 DEF Safe, HeapInv
<1>8. CASE write_set' = write_set
  <2>1. ASSUME NEW u \in Txns, NEW k \in 1 .. Len(write_set[u]), About(u, k, p, i)
        PROVE  write_set[u][k].wtype # "DELETE"
    <3>1. CASE u = t
      BY <1>5, <2>1, <3>1
    <3>2. CASE u # t
      <4>1. ~Counts(u, k)
        BY <1>4, <2>1, <3>2, NotTheirs
      <4> QED BY <4>1 DEF Counts
    <3> QED BY <3>1, <3>2
  <2>2. Records'
    BY <1>3, <1>4, <1>8, <2>1, HeapParts, RecordsKept
  <2> QED BY <1>3, <2>2 DEF Safe, HeapInv
<1>9. write_set' = write_set \/ Recorded(t, p, i, "UPDATE", old)
  BY <1>6 DEF ChangeTuple, TupleAt
<1> QED BY <1>7, <1>8, <1>9

\* The record a transaction comes to.
LEMMA LastRecord ==
  ASSUME HeapInv, NEW t \in Txns, write_set[t] # <<>>,
         NEW p, p = Last(t).page, NEW i, i = Last(t).slot
  PROVE  /\ About(t, Len(write_set[t]), p, i) /\ IsRid(p, i)
         /\ Counts(t, Len(write_set[t])) => SizeAt(p, i) # 0
         /\ Last(t).wtype \in {"INSERT", "DELETE", "UPDATE"}
         /\ Last(t).wtype = "DELETE" => SizeAt(p, i) < 0
         /\ Last(t).wtype = "UPDATE" => Last(t).tuple \in Seq(Bytes) /\ Last(t).tuple # <<>>
         /\ \A k \in 1 .. Len(write_set[t]) - 1 : About(t, k, p, i) =>
              write_set[t][k].wtype # "DELETE" /\ Last(t).wtype # "INSERT"
<1> DEFINE n == Len(write_set[t])
<1>1. Types /\ Records /\ RecordsThere /\ WrittenKept
  BY HeapParts DEF Base
<1>2. n \in Nat /\ n # 0
  <2>1. write_set[t] \in Seq(Item)
    BY <1>1 DEF Types
  <2> QED BY <2>1
<1>3. Last(t) = write_set[t][n]
  BY DEF Last
<1> HIDE DEF n
<1>4. n \in 1 .. n /\ \A k \in 1 .. n - 1 : k \in 1 .. n /\ k < n
  BY <1>2
<1>5. RecordStands(t, n) /\ RecordThere(t, n)
  BY <1>1, <1>4 DEF Records, RecordsStand, RecordsThere, n
<1>9. write_set[t][n].wtype = "UPDATE" => write_set[t][n].tuple \in Seq(Bytes)
  BY <1>1, <1>4 DEF WrittenKept, n
<1>6. write_set[t][n] \in Item
  BY <1>1, <1>4 DEF Types, n
<1>7. \A k \in 1 .. n - 1 : About(t, k, p, i) =>
        write_set[t][k].wtype # "DELETE" /\ Last(t).wtype # "INSERT"
  BY <1>1, <1>3, <1>4 DEF Records, RecordsOrdered, SameRid, About, n
<1>8. Last(t).wtype \in {"INSERT", "DELETE", "UPDATE"}
  BY <1>3, <1>6 DEF Item
<1> QED BY <1>3, <1>5, <1>7, <1>8, <1>9 DEF RecordStands, RecordThere, About, n

\* Nothing is done about a record that is no deletion.
LEMMA ItemSkipped ==
  ASSUME HeapInv, NEW t \in Txns, write_set[t] # <<>>, Popped(t),
         heap' = heap, state' = state
  PROVE  Records'
<1>1. PICK p : p = Last(t).page
  OBVIOUS
<1>2. PICK i : i = Last(t).slot
  OBVIOUS
<1>3. About(t, Len(write_set[t]), p, i) /\ IsRid(p, i)
  BY <1>1, <1>2, LastRecord
<1>4. Types /\ GoodPages /\ Records
  BY HeapParts
<1>5. Only(p, i) /\ SizeAt(p, i)' = SizeAt(p, i)
  BY <1>3, <1>4, SameHeap
<1> QED BY <1>3, <1>4, <1>5, RecordPopped

\* ApplyDelete: no assertion fails.
LEMMA RemoveDoes ==
  ASSUME HeapInv, NEW t, NEW p, NEW i, IsRid(p, i), SizeAt(p, i) # 0, Remove(t, p, i)
  PROVE  stopped' = stopped /\ Only(p, i) /\ SizeAt(p, i)' = 0
<1>1. /\ p \in 1 .. Len(heap) /\ i \in 1 .. Len(heap[p].slots)
      /\ GoodPage(heap[p]) /\ heap[p].slots[i].size # 0
  BY SlotAt
<1>2. PICK q : q = ApplyDelete(heap[p], i)
  OBVIOUS
<1>3. CanApplyDelete(heap[p], i) /\ Rewritten(heap[p], q, i, 0)
  BY <1>1, <1>2, DeleteRewrites
<1>4. heap' = [heap EXCEPT ![p] = q] /\ stopped' = stopped
  BY <1>2, <1>3 DEF Remove, WritePage
<1> QED BY <1>1, <1>3, <1>4, HeapParts, PageRewritten

\* Commit of a deletion and abort of an insertion.
LEMMA RemoveStep ==
  ASSUME HeapInv, NEW t \in Txns, write_set[t] # <<>>, Popped(t), state' = state,
         \/ state[t] = "COMMITTED" /\ Last(t).wtype = "DELETE"
         \/ state[t] = "ABORTED" /\ Last(t).wtype = "INSERT",
         Remove(t, Last(t).page, Last(t).slot)
  PROVE  Safe'
<1>1. PICK p : p = Last(t).page
  OBVIOUS
<1>2. PICK i : i = Last(t).slot
  OBVIOUS
<1>4. Counts(t, Len(write_set[t]))
  BY DEF Counts, Last
<1>5. /\ About(t, Len(write_set[t]), p, i) /\ IsRid(p, i) /\ SizeAt(p, i) # 0
      /\ \A k \in 1 .. Len(write_set[t]) - 1 : About(t, k, p, i) =>
           write_set[t][k].wtype # "DELETE" /\ Last(t).wtype # "INSERT"
  BY <1>1, <1>2, <1>4, LastRecord
<1>6. stopped' = stopped /\ Only(p, i) /\ SizeAt(p, i)' = 0
  BY <1>1, <1>2, <1>5, RemoveDoes
<1>7. \A k \in 1 .. Len(write_set[t]) - 1 : ~(About(t, k, p, i) /\ Counts(t, k))
  BY <1>5 DEF Counts
<1>8. Records'
  BY <1>4, <1>5, <1>6, <1>7, HeapParts, RecordPopped
<1> QED BY <1>6, <1>8 DEF Safe, HeapInv

\* RollbackDelete.
LEMMA UnmarkDoes ==
  ASSUME HeapInv, NEW t, NEW p, NEW i, IsRid(p, i), SizeAt(p, i) # 0,
         WritePage(t, p, i, RollbackDelete(heap[p], i))
  PROVE  /\ SizeAt(p, i) \in Int
         /\ Only(p, i) /\ SizeAt(p, i)' = Abs(SizeAt(p, i)) /\ TupleAt(p, i)' = TupleAt(p, i)
<1>1. PICK s : s = SizeAt(p, i)
  OBVIOUS
<1>2. /\ p \in 1 .. Len(heap) /\ i \in 1 .. Len(heap[p].slots)
      /\ GoodPage(heap[p]) /\ heap[p].slots[i].size = s /\ s \in Int /\ s # 0
  BY <1>1, SlotAt
<1>3. PICK q : q = RollbackDelete(heap[p], i)
  OBVIOUS
<1>4. Rewritten(heap[p], q, i, Abs(s)) /\ BytesAt(q, i) = BytesAt(heap[p], i)
  BY <1>2, <1>3, MarkRewrites
<1>5. heap' = [heap EXCEPT ![p] = q]
  BY <1>3 DEF WritePage
<1>6. Only(p, i) /\ SizeAt(p, i)' = Abs(s) /\ TupleAt(p, i)' = TupleAt(p, i)
  BY <1>2, <1>4, <1>5, HeapParts, PageRewritten DEF TupleAt
<1> QED BY <1>1, <1>2, <1>6

\* Abort of a deletion.
LEMMA UnmarkStep ==
  ASSUME HeapInv, NEW t \in Txns, write_set[t] # <<>>, Popped(t), state' = state,
         Last(t).wtype = "DELETE",
         WritePage(t, Last(t).page, Last(t).slot,
                   RollbackDelete(heap[Last(t).page], Last(t).slot))
  PROVE  Records'
<1>1. PICK p : p = Last(t).page
  OBVIOUS
<1>2. PICK i : i = Last(t).slot
  OBVIOUS
<1>4. Counts(t, Len(write_set[t]))
  BY DEF Counts, Last
<1>5. /\ About(t, Len(write_set[t]), p, i) /\ IsRid(p, i) /\ SizeAt(p, i) # 0
      /\ \A k \in 1 .. Len(write_set[t]) - 1 : About(t, k, p, i) =>
           write_set[t][k].wtype # "DELETE"
  BY <1>1, <1>2, <1>4, LastRecord
<1>6. PICK s : s = SizeAt(p, i)
  OBVIOUS
<1>7. PICK m : m = Abs(s)
  OBVIOUS
<1>8. s \in Int /\ s # 0 /\ Only(p, i) /\ SizeAt(p, i)' = m
  BY <1>1, <1>2, <1>5, <1>6, <1>7, UnmarkDoes
<1>9. m # 0
  BY <1>7, <1>8 DEF Abs
<1> QED BY <1>4, <1>5, <1>8, <1>9, HeapParts, RecordPopped

\* UpdateTuple with the tuple a record has kept.
LEMMA UndoDoes ==
  ASSUME HeapInv, "moved" \notin lapses', NEW t \in Txns, write_set[t] # <<>>,
         Last(t).wtype = "UPDATE",
         NEW p, p = Last(t).page, NEW i, i = Last(t).slot, NEW tuple, tuple = Last(t).tuple,
         CanUpdate(heap[p], i, tuple), Update(t, p, i, tuple, {})
  PROVE  /\ SizeAt(p, i) \in Int /\ SizeAt(p, i) > 0 /\ Len(tuple) \in Nat \ {0}
         /\ Only(p, i) /\ SizeAt(p, i)' = Len(tuple) /\ TupleAt(p, i)' = tuple
         /\ stopped' = stopped
<1>1. IsRid(p, i) /\ tuple \in Seq(Bytes) /\ tuple # <<>>
  BY LastRecord
<1> QED BY <1>1, UpdateDoes

\* Abort of an update that finds room.
LEMMA UndoUpdateStep ==
  ASSUME HeapInv, "moved" \notin lapses', NEW t \in Txns, write_set[t] # <<>>, Popped(t),
         state' = state, state[t] = "ABORTED", Last(t).wtype = "UPDATE",
         CanUpdate(heap[Last(t).page], Last(t).slot, Last(t).tuple),
         Update(t, Last(t).page, Last(t).slot, Last(t).tuple, {})
  PROVE  Safe'
<1>1. PICK p : p = Last(t).page
  OBVIOUS
<1>2. PICK i : i = Last(t).slot
  OBVIOUS
<1>3. PICK tuple : tuple = Last(t).tuple
  OBVIOUS
<1>4. PICK n : n = Len(tuple)
  OBVIOUS
<1>5. CanUpdate(heap[p], i, tuple) /\ Update(t, p, i, tuple, {})
  BY <1>1, <1>2, <1>3
<1>6. n \in Nat /\ n # 0 /\ Only(p, i) /\ SizeAt(p, i)' = n /\ stopped' = stopped
  BY <1>1, <1>2, <1>3, <1>4, <1>5, UndoDoes
<1>7. Counts(t, Len(write_set[t]))
  BY DEF Counts
<1>8. /\ About(t, Len(write_set[t]), p, i) /\ IsRid(p, i)
      /\ \A k \in 1 .. Len(write_set[t]) - 1 : About(t, k, p, i) =>
           write_set[t][k].wtype # "DELETE"
  BY <1>1, <1>2, LastRecord
<1>9. Records'
  BY <1>6, <1>7, <1>8, HeapParts, RecordPopped
<1> QED BY <1>6, <1>9 DEF Safe, HeapInv

\* Commit goes through the write set.
LEMMA CommitItemStep ==
  ASSUME HeapInv, NEW t \in Txns, CommitItem(t)
  PROVE  Safe'
<1>1. write_set[t] # <<>> /\ Popped(t) /\ state[t] = "COMMITTED" /\ state' = state
  BY HeapParts DEF CommitItem, Threads, CallsInState
<1>2. CASE Last(t).wtype = "DELETE"
  <2>1. Remove(t, Last(t).page, Last(t).slot)
    BY <1>2 DEF CommitItem
  <2> QED BY <1>1, <1>2, <2>1, RemoveStep
<1>3. CASE Last(t).wtype # "DELETE"
  <2>1. heap' = heap /\ stopped' = stopped
    BY <1>3 DEF CommitItem, faults
  <2>2. Records'
    BY <1>1, <2>1, ItemSkipped
  <2> QED BY <2>1, <2>2 DEF Safe, HeapInv
<1> QED BY <1>2, <1>3

\* Abort goes through the write set.
LEMMA AbortItemStep ==
  ASSUME HeapInv, "moved" \notin lapses', NEW t \in Txns, AbortItem(t)
  PROVE  Safe'
<1> DEFINE p == Last(t).page
           i == Last(t).slot
           tuple == Last(t).tuple
<1>1. write_set[t] # <<>> /\ Popped(t) /\ state[t] = "ABORTED" /\ state' = state
  BY HeapParts DEF AbortItem, Threads, CallsInState
<1>2. CASE Last(t).wtype = "INSERT" /\ Remove(t, p, i)
  BY <1>1, <1>2, RemoveStep
<1>3. CASE /\ Last(t).wtype = "DELETE" /\ WritePage(t, p, i, RollbackDelete(heap[p], i))
           /\ stopped' = stopped
  <2>1. Records'
    BY <1>1, <1>3, UnmarkStep
  <2> QED BY <1>3, <2>1 DEF Safe, HeapInv
<1>4. CASE /\ Last(t).wtype = "UPDATE" /\ CanUpdate(heap[p], i, tuple)
           /\ Update(t, p, i, tuple, {})
  BY <1>1, <1>4, UndoUpdateStep
<1>5. CASE KeepUpdate(t, p, i, tuple)
  <2>1. heap' = heap /\ stopped' = stopped
    BY <1>5 DEF KeepUpdate
  <2>2. Records'
    BY <1>1, <2>1, ItemSkipped
  <2> QED BY <2>1, <2>2 DEF Safe, HeapInv
<1> QED BY <1>2, <1>3, <1>4, <1>5 DEF AbortItem, faults

LEMMA RecordsNext ==
  ASSUME HeapInv, Next, Sound'
  PROVE  Safe'
<1>1. "moved" \notin lapses' /\ "refused" \notin lapses'
  BY DEF Sound
<1>2. ASSUME NEW t \in Txns, WriteStep(t)
      PROVE  Safe'
  <2>1. PICK p \in 1 .. Len(heap) :
          \/ \E tuple \in Tuples : InsertStep(t, p, tuple)
          \/ \E i \in 1 .. Len(heap[p].slots) :
               MarkTuple(t, p, i) \/ \E tuple \in Tuples : ChangeTuple(t, p, i, tuple)
    BY <1>2 DEF WriteStep
  <2>2. ASSUME NEW tuple \in Tuples, InsertStep(t, p, tuple)
        PROVE  Safe'
    BY <2>2, InsertSteps, InsertGoesOn DEF InsertStep
  <2>3. ASSUME NEW i \in 1 .. Len(heap[p].slots), MarkTuple(t, p, i)
        PROVE  Safe'
    BY <1>1, <2>3, MarkStep
  <2>4. ASSUME NEW i \in 1 .. Len(heap[p].slots), NEW tuple \in Tuples, ChangeTuple(t, p, i, tuple)
        PROVE  Safe'
    BY <1>1, <2>4, ChangeStep
  <2> QED BY <2>1, <2>2, <2>3, <2>4
<1> QED BY <1>1, <1>2, NextIs, QuietStep, ScanStepSafe, CommitItemStep, AbortItemStep

SafeInv == PagesInv /\ (Sound => Safe)

LEMMA SoundIs == SafeInv /\ Sound => HeapInv
BY DEF SafeInv, Safe, Sound, PagesInv, HeapInv, PageInv

LEMMA SafeUnchanged ==
  ASSUME SafeInv, UNCHANGED vars
  PROVE  SafeInv'
<1>1. /\ heap' = heap /\ write_set' = write_set /\ lapses' = lapses /\ stopped' = stopped
      /\ state' = state /\ PagesInv'
  BY PagesUnchanged DEF SafeInv, vars, txnVars, faults
<1>2. Records => Records'
  BY <1>1, NothingWritten
<1> QED BY <1>1, <1>2 DEF SafeInv, Safe, Sound

LEMMA SafeAlways == Spec => []SafeInv
<1>1. Init => SafeInv
  <2> SUFFICES ASSUME Init PROVE SafeInv
    OBVIOUS
  <2>1. PagesInv
    BY BaseInit DEF PagesInv
  <2>2. stopped = "no" /\ \A t \in Txns : Len(write_set[t]) = 0
    BY DEF Init
  <2>3. Records
    BY <2>2 DEF Records, RecordsStand, RecordsApart, RecordsOrdered
  <2> QED BY <2>1, <2>2, <2>3 DEF SafeInv, Safe
<1>2. ASSUME SafeInv, Next PROVE SafeInv'
  <2>1. PagesInv'
    BY <1>2, PagesNext DEF SafeInv
  <2>2. ASSUME Sound' PROVE Safe'
    <3>1. Sound
      BY <1>2, <2>2, LapsesStay DEF Sound
    <3> QED BY <1>2, <2>2, <3>1, SoundIs, RecordsNext
  <2> QED BY <2>1, <2>2 DEF SafeInv
<1>3. SafeInv /\ [Next]_vars => SafeInv'
  BY <1>2, SafeUnchanged
<1> QED BY <1>1, <1>3, PTL DEF Spec

\* ApplyDelete, at the commit of a deletion and the abort of an insertion, and UpdateTuple
\* always find the tuple above the free space pointer, until an update has moved a marked
\* tuple or a deletion was refused.
THEOREM TableNeverFails == Spec => []NoAssertionFails
<1>1. SafeInv => NoAssertionFails
  BY DEF SafeInv, Sound, Safe, NoAssertionFails
<1> QED BY <1>1, SafeAlways, PTL

-----------------------------------------------------------------------------
(* Scans.  That they miss nothing does not depend on pages being well formed, so nothing is  *)
(* assumed here of what callers do.                                                          *)

IsSequence(s) == \E S : s \in Seq(S)

IsPage(p) ==
  /\ p = [free |-> p.free, slots |-> p.slots, data |-> p.data, next |-> p.next]
  /\ IsSequence(p.slots)

\* Each page is linked to the next one.
Chained ==
  /\ IsSequence(heap) /\ Len(heap) \in 1 .. MaxHeapPages
  /\ \A p \in 1 .. Len(heap) :
       /\ IsPage(heap[p])
       /\ heap[p].next = IF p = Len(heap) THEN INVALID_PAGE_ID ELSE p + 1

Shows(r) == r[1] \in 1 .. Len(heap) /\ Visible(heap[r[1]], r[2])

\* The iterator has yet to come to the rid.
Ahead(it, r) ==
  \/ it.page < r[1]
  \/ it.page = r[1] /\ it.slot < r[2]
  \/ it.page = r[1] /\ it.slot = r[2] /\ it.pc # "at"

\* What an iterator owes is there and ahead of it.
Owes(it) ==
  /\ it.page = 0 => it.pc \in {"idle", "at"} /\ (it.whole => it.owed = {})
  /\ it.page # 0 => /\ it.page \in 1 .. Len(heap)
                    /\ it.whole => \A r \in it.owed : Ahead(it, r)
  /\ it.pc = "walk" => it.slot = 0 /\ it.page # 0
  /\ it.whole => \A r \in it.owed : Shows(r)

ScanInv == Chained /\ scan \in [Scans -> Iterator] /\ \A s \in Scans : Owes(scan[s])

Changed(s, i, e) == [s EXCEPT ![i] = e]

LEMMA SequenceChanged ==
  ASSUME NEW s, IsSequence(s), NEW i, NEW e, NEW r, r = Changed(s, i, e)
  PROVE  /\ IsSequence(r) /\ Len(r) = Len(s) /\ Len(s) \in Nat
         /\ i \in 1 .. Len(s) => r[i] = e
         /\ \A j \in 1 .. Len(s) : j # i => r[j] = s[j]
<1>1. PICK S : s \in Seq(S)
  BY DEF IsSequence
<1>2. PICK X : X = S \cup {e}
  OBVIOUS
<1>3. s \in Seq(X) /\ e \in X
  <2>1. S \subseteq X
    BY <1>2
  <2> QED BY <1>1, <1>2, <2>1
<1>4. Len(s) \in Nat /\ s \in [1 .. Len(s) -> X]
  BY <1>3
<1>5. r \in [1 .. Len(s) -> X]
  BY <1>3, <1>4 DEF Changed
<1>6. r \in Seq(X) /\ Len(r) = Len(s)
  BY <1>4, <1>5
<1> QED BY <1>4, <1>6 DEF IsSequence, Changed

LEMMA SequenceGrown ==
  ASSUME NEW s, IsSequence(s), NEW e
  PROVE  /\ IsSequence(Append(s, e)) /\ Len(Append(s, e)) = Len(s) + 1 /\ Len(s) \in Nat
         /\ Append(s, e)[Len(s) + 1] = e
         /\ \A j \in 1 .. Len(s) : Append(s, e)[j] = s[j]
<1>1. PICK S : s \in Seq(S)
  BY DEF IsSequence
<1>2. s \in Seq(S \cup {e}) /\ e \in S \cup {e}
  BY <1>1
<1>3. Append(s, e) \in Seq(S \cup {e})
  BY <1>2
<1>4. /\ Len(Append(s, e)) = Len(s) + 1 /\ Append(s, e)[Len(s) + 1] = e
      /\ \A j \in 1 .. Len(s) : Append(s, e)[j] = s[j]
  BY <1>2, AppendProperties
<1> QED BY <1>1, <1>3, <1>4 DEF IsSequence

\* The page q is p with another tuple, or none, in slot i.
Kept(p, q, i) ==
  /\ IsPage(q) /\ q.next = p.next
  /\ \A j \in 1 .. Len(p.slots) :
       j # i => j \in 1 .. Len(q.slots) /\ q.slots[j].size = p.slots[j].size

\* The page after p but for its link.
With(p, free, slots, data) == [p EXCEPT !.free = free, !.slots = slots, !.data = data]

\* A page with other slots, of which only slot i has another size.
LEMMA SlotsKept ==
  ASSUME NEW p, IsPage(p), NEW q, NEW free, NEW slots, NEW data, NEW i,
         q = With(p, free, slots, data),
         IsSequence(slots),
         \A j \in 1 .. Len(p.slots) :
           j # i => j \in 1 .. Len(slots) /\ slots[j].size = p.slots[j].size
  PROVE  Kept(p, q, i)
<1>1. q = [free |-> free, slots |-> slots, data |-> data, next |-> p.next]
  BY DEF IsPage, With
<1>2. q.free = free /\ q.slots = slots /\ q.data = data /\ q.next = p.next
  BY <1>1
<1> QED BY <1>1, <1>2 DEF Kept, IsPage

LEMMA InsertKeeps ==
  ASSUME NEW p, IsPage(p), NEW tuple
  PROVE  Kept(p, InsertTuple(p, tuple), SlotFor(p))
<1> DEFINE slot == [offset |-> p.free - Len(tuple), size |-> Len(tuple)]
           k == SlotFor(p)
<1>1. PICK slots : slots = IF EmptySlots(p) = {} THEN Append(p.slots, slot)
                           ELSE [p.slots EXCEPT ![k] = slot]
  OBVIOUS
<1>2. InsertTuple(p, tuple) =
        With(p, p.free - Len(tuple), slots, Put(p.data, p.free - Len(tuple), tuple))
  BY <1>1 DEF InsertTuple, IsPage, With
<1>3. IsSequence(p.slots)
  BY DEF IsPage
<1> HIDE DEF slot, k
<1>4. /\ IsSequence(slots)
      /\ \A j \in 1 .. Len(p.slots) : j # k => j \in 1 .. Len(slots) /\ slots[j] = p.slots[j]
  <2>1. CASE EmptySlots(p) = {}
    BY <1>1, <1>3, <2>1, SequenceGrown
  <2>2. CASE EmptySlots(p) # {}
    <3>1. slots = Changed(p.slots, k, slot)
      BY <1>1, <2>2 DEF Changed
    <3> QED BY <1>3, <3>1, SequenceChanged
  <2> QED BY <2>1, <2>2
<1>5. PICK q : q = InsertTuple(p, tuple)
  OBVIOUS
<1>6. Kept(p, q, k)
  BY <1>2, <1>4, <1>5, SlotsKept
<1> QED BY <1>5, <1>6 DEF k

\* MarkDelete and RollbackDelete.
LEMMA MarksKeep ==
  ASSUME NEW p, IsPage(p), NEW i
  PROVE  Kept(p, MarkDelete(p, i), i) /\ Kept(p, RollbackDelete(p, i), i)
<1> SUFFICES ASSUME NEW slot, NEW q, q = [p EXCEPT !.slots = [@ EXCEPT ![i] = slot]]
             PROVE  Kept(p, q, i)
  <2>1. PICK a : a = [p.slots[i] EXCEPT !.size = -@]
    OBVIOUS
  <2>2. PICK b : b = [p.slots[i] EXCEPT !.size = Abs(@)]
    OBVIOUS
  <2>3. MarkDelete(p, i) = [p EXCEPT !.slots = [@ EXCEPT ![i] = a]]
    BY <2>1 DEF MarkDelete, IsPage
  <2>4. RollbackDelete(p, i) = [p EXCEPT !.slots = [@ EXCEPT ![i] = b]]
    BY <2>2 DEF RollbackDelete, IsPage
  <2> QED BY <2>3, <2>4
<1>1. PICK slots : slots = [p.slots EXCEPT ![i] = slot]
  OBVIOUS
<1>2. q = With(p, p.free, slots, p.data)
  BY <1>1 DEF IsPage, With
<1>3. IsSequence(p.slots) /\ slots = Changed(p.slots, i, slot)
  BY <1>1 DEF IsPage, Changed
<1>4. /\ IsSequence(slots)
      /\ \A j \in 1 .. Len(p.slots) : j # i => j \in 1 .. Len(slots) /\ slots[j] = p.slots[j]
  BY <1>3, SequenceChanged
<1> QED BY <1>2, <1>4, SlotsKept

\* What UpdateTuple and ApplyDelete make of the slots.
LEMMA SlotsStay ==
  ASSUME NEW p, IsPage(p), NEW i, NEW tuple,
         NEW slots, slots = SlotsAfterUpdate(p, i, tuple) \/ slots = SlotsAfterDelete(p, i)
  PROVE  /\ IsSequence(slots)
         /\ \A j \in 1 .. Len(p.slots) :
              j # i => j \in 1 .. Len(slots) /\ slots[j].size = p.slots[j].size
<1>1. PICK n : n = Len(p.slots)
  OBVIOUS
<1>2. n \in Nat
  <2>1. PICK S : p.slots \in Seq(S)
    BY DEF IsPage, IsSequence
  <2> QED BY <1>1, <2>1
<1>3. PICK X : X = {slots[j] : j \in 1 .. n}
  OBVIOUS
<1>4. slots \in [1 .. n -> X]
  BY <1>1, <1>3 DEF SlotsAfterUpdate, SlotsAfterDelete
<1>5. slots \in Seq(X) /\ Len(slots) = n
  BY <1>2, <1>4
<1>6. ASSUME NEW j \in 1 .. n, j # i
      PROVE  slots[j].size = p.slots[j].size
  <2>1. CASE slots = SlotsAfterUpdate(p, i, tuple)
    BY <1>1, <1>6, <2>1 DEF SlotsAfterUpdate
  <2>2. CASE slots = SlotsAfterDelete(p, i)
    <3>1. PICK s : s = p.slots[j]
      OBVIOUS
    <3>2. [s EXCEPT !.offset = @ + Abs(p.slots[i].size)].size = s.size
      OBVIOUS
    <3> QED BY <1>1, <1>6, <2>2, <3>1, <3>2 DEF SlotsAfterDelete
  <2> QED BY <2>1, <2>2
<1> QED BY <1>1, <1>5, <1>6 DEF IsSequence

LEMMA MovesKeep ==
  ASSUME NEW p, IsPage(p), NEW i, NEW tuple
  PROVE  Kept(p, UpdateTuple(p, i, tuple), i) /\ Kept(p, ApplyDelete(p, i), i)
<1>1. ASSUME NEW q, NEW slots, NEW free, NEW data,
             slots = SlotsAfterUpdate(p, i, tuple) \/ slots = SlotsAfterDelete(p, i),
             q = With(p, free, slots, data)
      PROVE  Kept(p, q, i)
  <2>1. /\ IsSequence(slots)
        /\ \A j \in 1 .. Len(p.slots) :
             j # i => j \in 1 .. Len(slots) /\ slots[j].size = p.slots[j].size
    BY <1>1, SlotsStay
  <2> QED BY <1>1, <2>1, SlotsKept
<1>2. \E free, data :
        UpdateTuple(p, i, tuple) = With(p, free, SlotsAfterUpdate(p, i, tuple), data)
  BY DEF UpdateTuple, With
<1>3. \E free, data : ApplyDelete(p, i) = With(p, free, SlotsAfterDelete(p, i), data)
  BY DEF ApplyDelete, With
<1> QED BY <1>1, <1>2, <1>3

\* A page is rewritten: the pages stay linked, and what the other rids show stays.
LEMMA ChainKept ==
  ASSUME Chained, NEW p, NEW q, NEW i, p \in 1 .. Len(heap) => Kept(heap[p], q, i),
         heap' = [heap EXCEPT ![p] = q]
  PROVE  /\ Chained' /\ Len(heap') = Len(heap)
         /\ \A r \in PageIds \X Nat : Shows(r) /\ r # <<p, i>> => Shows(r)'
<1>1. /\ IsSequence(heap') /\ Len(heap') = Len(heap)
      /\ p \in 1 .. Len(heap) => heap'[p] = q
      /\ \A a \in 1 .. Len(heap) : a # p => heap'[a] = heap[a]
  <2>1. PICK h : h = Changed(heap, p, q)
    OBVIOUS
  <2>2. h = heap' /\ IsSequence(heap)
    BY <2>1 DEF Changed, Chained
  <2>3. PICK s : s = heap
    OBVIOUS
  <2>4. h = Changed(s, p, q) /\ IsSequence(s)
    BY <2>1, <2>2, <2>3
  <2>5. IsSequence(h) /\ Len(h) = Len(s)
    BY <2>4, SequenceChanged
  <2>6. p \in 1 .. Len(s) => h[p] = q
    BY <2>4, SequenceChanged
  <2>7. \A a \in 1 .. Len(s) : a # p => h[a] = s[a]
    BY <2>4, SequenceChanged
  <2> QED BY <2>2, <2>3, <2>5, <2>6, <2>7 DEF IsSequence
<1>2. ASSUME NEW a \in 1 .. Len(heap)
      PROVE  IsPage(heap'[a]) /\ heap'[a].next = heap[a].next
  BY <1>1 DEF Kept, Chained
<1>3. Chained'
  <2>1. \A a \in 1 .. Len(heap') :
          IsPage(heap'[a]) /\ heap'[a].next = IF a = Len(heap') THEN INVALID_PAGE_ID ELSE a + 1
    BY <1>1, <1>2 DEF Chained
  <2> QED BY <1>1, <2>1 DEF Chained, IsPage, IsSequence
<1>4. ASSUME NEW a \in PageIds, NEW b \in Nat, Shows(<<a, b>>), <<a, b>> # <<p, i>>
      PROVE  Shows(<<a, b>>)'
  BY <1>1, <1>4 DEF Shows, Visible, IsSlot, Kept
<1> QED BY <1>1, <1>3, <1>4

\* NextSlot is the first visible slot after slot i.
LEMMA NextSlotFinds ==
  ASSUME NEW p, IsPage(p), NEW i \in Nat, NEW n, n = NextSlot(p, i)
  PROVE  /\ n \in Nat
         /\ n # 0 => i < n /\ Visible(p, n)
         /\ \A j : Visible(p, j) /\ i < j => n # 0 /\ n <= j
<1>1. PICK later : later = {j \in VisibleSlots(p) : j > i}
  OBVIOUS
<1>2. Len(p.slots) \in Nat
  BY DEF IsPage, IsSequence
<1>3. later \subseteq Nat \ {0}
  BY <1>1, <1>2 DEF VisibleSlots
<1>4. \A j : j \in later <=> Visible(p, j) /\ i < j
  BY <1>1, <1>2 DEF VisibleSlots, Visible, IsSlot
<1>5. n = IF later = {} THEN 0 ELSE CHOOSE j \in later : \A k \in later : j <= k
  BY <1>1 DEF NextSlot
<1>6. CASE later = {}
  BY <1>4, <1>5, <1>6
<1>7. CASE later # {}
  <2>1. \E j \in later : \A k \in later : j <= k
    BY <1>3, <1>7, LeastNatural
  <2>2. n \in later /\ \A k \in later : n <= k
    BY <1>5, <1>7, <2>1
  <2> QED BY <1>3, <1>4, <2>2
<1> QED BY <1>6, <1>7

\* A step of one scan.
LEMMA OneScanSteps ==
  ASSUME ScanInv, NEW s \in Scans, NEW new \in Iterator, ScanStep(s, new), Owes(new)
  PROVE  ScanInv'
<1>1. heap' = heap /\ scan' = [scan EXCEPT ![s] = new] /\ scan' \in [Scans -> Iterator]
  BY DEF ScanStep, ScanInv
<1>2. Chained'
  BY <1>1 DEF ScanInv, Chained, IsPage, IsSequence
<1>3. ASSUME NEW u \in Scans
      PROVE  Owes(scan[u])'
  <2>1. Owes(scan'[u])
    BY <1>1 DEF ScanInv
  <2> QED BY <1>1, <2>1 DEF Owes, Shows
<1> QED BY <1>1, <1>2, <1>3 DEF ScanInv

LEMMA RidsThere == ScanInv => /\ VisibleRids \in SUBSET (PageIds \X Nat)
                              /\ \A r \in VisibleRids : Shows(r) /\ r[1] \in Nat \ {0} /\ r[2] \in Nat \ {0}
BY DEF VisibleRids, Shows, PageIds, ScanInv, Chained

LEMMA ScanBeginStep ==
  ASSUME ScanInv, NEW s \in Scans, ScanBegin(s)
  PROVE  ScanInv'
<1>1. PICK i : i = NextSlot(heap[1], 0)
  OBVIOUS
<1>2. /\ 1 \in 1 .. Len(heap) /\ IsPage(heap[1]) /\ MaxHeapPages \in Nat \ {0}
      /\ Len(heap) \in Nat
  BY HeapAssumption DEF ScanInv, Chained
<1>3. i \in Nat /\ \A j : Visible(heap[1], j) /\ 0 < j => i # 0 /\ i <= j
  BY <1>1, <1>2, NextSlotFinds
<1>4. PICK new : new = [NotScanning EXCEPT !.pc = IF i = 0 THEN "at" ELSE "fetch",
                                           !.page = IF i = 0 THEN 0 ELSE 1,
                                           !.slot = i, !.owed = VisibleRids,
                                           !.whole = i # 0]
  OBVIOUS
<1>5. ScanStep(s, new)
  BY <1>1, <1>4 DEF ScanBegin
<1>6. /\ new \in Iterator /\ new.slot = i /\ new.owed = VisibleRids
      /\ i = 0 => new.pc = "at" /\ new.page = 0 /\ new.whole = FALSE
      /\ i # 0 => new.pc = "fetch" /\ new.page = 1 /\ new.whole = TRUE
  <2>1. VisibleRids \in SUBSET (PageIds \X Nat) /\ 0 \in 0 .. MaxHeapPages /\ 1 \in 0 .. MaxHeapPages
    BY <1>2, RidsThere
  <2>2. CASE i = 0
    <3>1. new = [pc |-> "at", page |-> 0, slot |-> 0, owed |-> VisibleRids, whole |-> FALSE]
      BY <1>4, <2>2 DEF NotScanning
    <3> QED BY <2>1, <2>2, <3>1 DEF Iterator
  <2>3. CASE i # 0
    <3>1. new = [pc |-> "fetch", page |-> 1, slot |-> i, owed |-> VisibleRids, whole |-> TRUE]
      BY <1>4, <2>3 DEF NotScanning
    <3> QED BY <1>3, <2>1, <2>3, <3>1 DEF Iterator
  <2> QED BY <2>2, <2>3
<1>7. ASSUME NEW r \in VisibleRids, i # 0
      PROVE  Ahead(new, r)
  <2>1. Shows(r) /\ r[1] \in Nat \ {0} /\ r[2] \in Nat \ {0}
    BY RidsThere
  <2>2. r[1] = 1 => i <= r[2]
    BY <1>3, <2>1 DEF Shows
  <2> QED BY <1>3, <1>6, <1>7, <2>1, <2>2 DEF Ahead
<1>8. Owes(new)
  <2>1. \A r \in VisibleRids : Shows(r)
    BY RidsThere
  <2>2. CASE i = 0
    BY <1>6, <2>2 DEF Owes
  <2>3. CASE i # 0
    BY <1>2, <1>6, <1>7, <2>1, <2>3 DEF Owes
  <2> QED BY <2>2, <2>3
<1> QED BY <1>5, <1>6, <1>8, OneScanSteps

\* An iterator of ScanInv.
LEMMA ScanAt ==
  ASSUME ScanInv, NEW s \in Scans, NEW it, it = scan[s]
  PROVE  /\ it \in Iterator /\ Owes(it)
         /\ it.page \in Nat /\ it.slot \in Nat
         /\ \A r \in it.owed : /\ r \in PageIds \X Nat /\ r[1] \in Nat /\ r[2] \in Nat
                               /\ r = <<r[1], r[2]>>
BY DEF ScanInv, Iterator, PageIds

\* ScanFetch and ScanCopy: the tuple is returned.
LEMMA ScanReturns ==
  ASSUME ScanInv, NEW s \in Scans, ScanFetch(s) \/ ScanCopy(s)
  PROVE  ScanInv'
<1>1. PICK it : it = scan[s]
  OBVIOUS
<1>2. PICK new : new = [it EXCEPT !.pc = "at", !.owed = @ \ {<<it.page, it.slot>>}]
  OBVIOUS
<1>3. ScanStep(s, new) /\ it.pc \in {"fetch", "copy"}
  BY <1>1, <1>2 DEF ScanFetch, ScanCopy
<1>4. it \in Iterator /\ Owes(it) /\ it.page \in Nat /\ it.slot \in Nat
  BY <1>1, ScanAt
<1>5. /\ new \in Iterator /\ new.pc = "at" /\ new.page = it.page /\ new.slot = it.slot
      /\ new.whole = it.whole /\ new.owed = it.owed \ {<<it.page, it.slot>>}
  BY <1>2, <1>4 DEF Iterator
<1>6. ASSUME NEW r \in new.owed, Ahead(it, r)
      PROVE  Ahead(new, r)
  <2>1. r = <<r[1], r[2]>> /\ r # <<it.page, it.slot>>
    BY <1>1, <1>5, ScanAt
  <2>2. ~(r[1] = it.page /\ r[2] = it.slot)
    BY <2>1
  <2> QED BY <1>5, <1>6, <2>2 DEF Ahead
<1>7. Owes(new)
  BY <1>3, <1>4, <1>5, <1>6 DEF Owes
<1> QED BY <1>3, <1>5, <1>7, OneScanSteps

\* The tuple is not returned: the iterator no longer owes anything.
LEMMA ScanFetchFailsStep ==
  ASSUME ScanInv, NEW s \in Scans, ScanFetchFails(s)
  PROVE  ScanInv'
<1>1. PICK it : it = scan[s]
  OBVIOUS
<1>2. PICK new : new = [it EXCEPT !.pc = "at", !.whole = FALSE]
  OBVIOUS
<1>3. ScanStep(s, new) /\ it.pc = "fetch"
  BY <1>1, <1>2 DEF ScanFetchFails
<1>4. it \in Iterator /\ Owes(it)
  BY <1>1, ScanAt
<1>5. /\ new \in Iterator /\ new.pc = "at" /\ new.page = it.page /\ new.whole = FALSE
  BY <1>2, <1>4 DEF Iterator
<1>6. Owes(new)
  BY <1>3, <1>4, <1>5 DEF Owes
<1> QED BY <1>3, <1>5, <1>6, OneScanSteps

LEMMA ScanCloseStep ==
  ASSUME ScanInv, NEW s \in Scans, ScanClose(s)
  PROVE  ScanInv'
<1>1. NotScanning \in Iterator /\ Owes(NotScanning)
  BY HeapAssumption DEF NotScanning, Iterator, Owes
<1> QED BY <1>1, OneScanSteps DEF ScanClose

MovedTo(it, pc, page, slot) == [it EXCEPT !.pc = pc, !.page = page, !.slot = slot]

\* operator++: the next tuple of the page, the next page, or the end.
LEMMA ScanNextStep ==
  ASSUME ScanInv, NEW s \in Scans, ScanNext(s)
  PROVE  ScanInv'
<1>1. PICK it : it = scan[s]
  OBVIOUS
<1>2. PICK p : p = it.page
  OBVIOUS
<1>3. PICK i : i = it.slot
  OBVIOUS
<1>4. PICK new : new = ScanPage(s, p, i)
  OBVIOUS
<1>5. ScanStep(s, new) /\ ((it.pc = "at" /\ p # 0) \/ it.pc = "walk")
  BY <1>1, <1>2, <1>3, <1>4 DEF ScanNext, Goes
<1>6. it \in Iterator /\ Owes(it) /\ p \in Nat /\ i \in Nat
  BY <1>1, <1>2, <1>3, ScanAt
<1>7. /\ p \in 1 .. Len(heap) /\ IsPage(heap[p]) /\ p \in PageIds
      /\ heap[p].next = IF p = Len(heap) THEN INVALID_PAGE_ID ELSE p + 1
      /\ Len(heap) \in 1 .. MaxHeapPages
  <2>1. it.page # 0
    BY <1>2, <1>5, <1>6 DEF Owes
  <2>2. p \in 1 .. Len(heap)
    BY <1>2, <1>6, <2>1 DEF Owes
  <2>3. Len(heap) \in 1 .. MaxHeapPages /\ MaxHeapPages \in Nat
    BY HeapAssumption DEF ScanInv, Chained
  <2>4. IsPage(heap[p]) /\ heap[p].next = IF p = Len(heap) THEN INVALID_PAGE_ID ELSE p + 1
    BY <2>2 DEF ScanInv, Chained
  <2> QED BY <2>2, <2>3, <2>4 DEF PageIds
<1>8. PICK j : j = NextSlot(heap[p], i)
  OBVIOUS
<1>9. /\ j \in Nat
      /\ \A k : Visible(heap[p], k) /\ i < k => j # 0 /\ j <= k
  BY <1>6, <1>7, <1>8, NextSlotFinds
<1>10. ASSUME NEW r \in it.owed, it.whole
       PROVE  /\ Shows(r) /\ r[1] \in Nat /\ r[2] \in Nat /\ p <= r[1]
              /\ r[1] = p => j # 0 /\ j <= r[2]
  <2>1. Shows(r) /\ Ahead(it, r) /\ r[1] \in Nat /\ r[2] \in Nat
    BY <1>1, <1>2, <1>6, <1>7, <1>10, ScanAt DEF Owes
  <2>2. r[1] = p => i < r[2]
    <3>1. r[1] = p => r[2] # 0
      <4>1. Len(heap[p].slots) \in Nat
        BY <1>7 DEF IsPage, IsSequence
      <4> QED BY <2>1, <4>1 DEF Shows, Visible, IsSlot
    <3> QED BY <1>2, <1>3, <1>5, <1>6, <2>1, <3>1 DEF Ahead, Owes
  <2>3. r[1] = p => j # 0 /\ j <= r[2]
    BY <1>9, <2>1, <2>2 DEF Shows
  <2> QED BY <1>2, <1>6, <2>1, <2>3 DEF Ahead
<1>11. PICK pc, page, slot :
         /\ pc \in {"copy", "walk", "at"}
         /\ new = MovedTo(it, pc, page, slot)
         /\ \/ pc = "copy" /\ page = p /\ slot = j /\ j # 0
            \/ pc = "walk" /\ page = p + 1 /\ slot = 0 /\ j = 0 /\ p # Len(heap)
            \/ pc = "at" /\ page = 0 /\ slot = 0 /\ j = 0 /\ p = Len(heap)
  <2>1. CASE j # 0
    <3>1. new = MovedTo(it, "copy", p, j)
      BY <1>1, <1>4, <1>8, <2>1 DEF ScanPage, Standing, MovedTo
    <3> QED BY <2>1, <3>1
  <2>2. CASE j = 0 /\ p # Len(heap)
    <3>1. heap[p].next = p + 1 /\ heap[p].next # INVALID_PAGE_ID
      BY <1>6, <1>7, <2>2 DEF INVALID_PAGE_ID
    <3>2. new = MovedTo(it, "walk", p + 1, 0)
      BY <1>1, <1>4, <1>8, <2>2, <3>1 DEF ScanPage, Standing, MovedTo
    <3> QED BY <2>2, <3>2
  <2>3. CASE j = 0 /\ p = Len(heap)
    <3>1. heap[p].next = INVALID_PAGE_ID
      BY <1>7, <2>3
    <3>2. new = MovedTo(it, "at", 0, 0)
      BY <1>1, <1>4, <1>8, <2>3, <3>1 DEF ScanPage, Standing, MovedTo
    <3> QED BY <2>3, <3>2
  <2> QED BY <2>1, <2>2, <2>3
<1>12. /\ page \in 0 .. MaxHeapPages /\ slot \in Nat
       /\ page # 0 => page \in 1 .. Len(heap)
  <2>1. p \in Nat /\ Len(heap) \in Nat /\ MaxHeapPages \in Nat
    BY <1>6, <1>7, HeapAssumption
  <2>2. 0 < p /\ p <= Len(heap) /\ Len(heap) <= MaxHeapPages
    BY <1>7, <2>1
  <2> QED BY <1>9, <1>11, <2>1, <2>2
<1>13. /\ new \in Iterator /\ new.pc = pc /\ new.page = page /\ new.slot = slot
       /\ new.whole = it.whole /\ new.owed = it.owed
  BY <1>6, <1>11, <1>12 DEF Iterator, MovedTo
<1>14. ASSUME NEW r \in it.owed, it.whole
       PROVE  page # 0 /\ Ahead(new, r)
  <2>1. r[1] \in 1 .. Len(heap) /\ Len(heap) \in Nat
    BY <1>7, <1>10, <1>14 DEF Shows
  <2>2. /\ p <= r[1] /\ r[1] \in Nat /\ r[2] \in Nat /\ r[1] <= Len(heap)
        /\ r[1] = p => j # 0 /\ j <= r[2]
    BY <1>10, <1>14, <2>1
  <2>3. CASE pc = "copy" /\ page = p /\ slot = j /\ j # 0
    BY <1>6, <1>7, <1>9, <1>13, <2>2, <2>3 DEF Ahead
  <2>4. CASE pc = "walk" /\ page = p + 1 /\ slot = 0 /\ j = 0
    BY <1>6, <1>13, <2>2, <2>4 DEF Ahead
  <2>5. CASE j = 0 /\ p = Len(heap)
    BY <1>6, <2>1, <2>2, <2>5
  <2> QED BY <1>11, <2>3, <2>4, <2>5
<1>15. Owes(new)
  BY <1>7, <1>10, <1>11, <1>12, <1>13, <1>14 DEF Owes
<1> QED BY <1>5, <1>13, <1>15, OneScanSteps

\* A rid is written: whoever has not come to it owes it no longer.
LEMMA WritesOwe ==
  ASSUME ScanInv, NEW p, NEW q, NEW i, p \in 1 .. Len(heap) => Kept(heap[p], q, i),
         heap' = [heap EXCEPT ![p] = q],
         scan' = [s \in Scans |-> [scan[s] EXCEPT !.owed = @ \ {<<p, i>>}]]
  PROVE  ScanInv'
<1>1. /\ Chained' /\ Len(heap') = Len(heap)
      /\ \A r \in PageIds \X Nat : Shows(r) /\ r # <<p, i>> => Shows(r)'
  BY ChainKept DEF ScanInv
<1>2. ASSUME NEW s \in Scans
      PROVE  scan'[s] \in Iterator /\ Owes(scan[s])'
  <2>1. PICK it : it = scan[s]
    OBVIOUS
  <2>2. PICK new : new = scan'[s]
    OBVIOUS
  <2>3. it \in Iterator /\ Owes(it)
    BY <2>1, ScanAt
  <2>4. new = [it EXCEPT !.owed = @ \ {<<p, i>>}]
    BY <2>1, <2>2
  <2>5. /\ new \in Iterator /\ new.pc = it.pc /\ new.page = it.page /\ new.slot = it.slot
        /\ new.whole = it.whole /\ new.owed = it.owed \ {<<p, i>>}
    BY <2>3, <2>4 DEF Iterator
  <2>6. \A r \in new.owed : (Ahead(it, r) => Ahead(new, r)) /\ (Shows(r) => Shows(r)')
    BY <1>1, <2>1, <2>5, ScanAt DEF Ahead
  <2>7. Owes(new)'
    BY <1>1, <2>3, <2>5, <2>6 DEF Owes
  <2> QED BY <2>2, <2>5, <2>7 DEF Owes, Ahead, Shows
<1>3. scan' \in [Scans -> Iterator]
  BY <1>2
<1> QED BY <1>1, <1>2, <1>3 DEF ScanInv

LEMMA WritePageOwes ==
  ASSUME ScanInv, NEW t, NEW p, NEW q, NEW i, p \in 1 .. Len(heap) => Kept(heap[p], q, i),
         WritePage(t, p, i, q)
  PROVE  ScanInv'
<1>1. /\ heap' = [heap EXCEPT ![p] = q]
      /\ scan' = [s \in Scans |-> [scan[s] EXCEPT !.owed = @ \ {<<p, i>>}]]
  BY DEF WritePage
<1> QED BY <1>1, WritesOwe

LEMMA NothingOwed ==
  ASSUME ScanInv, heap' = heap, scan' = scan
  PROVE  ScanInv'
BY DEF ScanInv, Chained, Owes, Shows, Ahead, IsPage, IsSequence

\* InsertTuple links a new page, which nobody has seen, after the last.
LEMMA ExtendsOwes ==
  ASSUME ScanInv, NEW t, NEW p \in 1 .. Len(heap), NEW tuple, InsertExtends(t, p, tuple)
  PROVE  ScanInv'
<1>1. PICK new : new = Len(heap) + 1
  OBVIOUS
<1>2. PICK q : q = InsertTuple(EmptyPage, tuple)
  OBVIOUS
<1>3. PICK linked : linked = [heap[p] EXCEPT !.next = new]
  OBVIOUS
<1>4. PICK old : old = Changed(heap, p, linked)
  OBVIOUS
<1>5. /\ heap' = Append(old, q) /\ scan' = scan /\ new <= MaxHeapPages
      /\ heap[p].next = INVALID_PAGE_ID
  BY <1>1, <1>2, <1>3, <1>4 DEF InsertExtends, Changed
<1>6. /\ IsSequence(heap) /\ Len(heap) \in 1 .. MaxHeapPages /\ MaxHeapPages \in Nat
      /\ IsPage(heap[p]) /\ Len(heap) \in Nat /\ new \in 1 .. MaxHeapPages
  <2>1. IsSequence(heap) /\ Len(heap) \in 1 .. MaxHeapPages /\ MaxHeapPages \in Nat
    BY HeapAssumption DEF ScanInv, Chained
  <2>2. IsPage(heap[p])
    BY DEF ScanInv, Chained
  <2> QED BY <1>1, <1>5, <2>1, <2>2
<1>7. p = Len(heap)
  BY <1>5, <1>6 DEF ScanInv, Chained, INVALID_PAGE_ID
<1>8. IsPage(q) /\ q.next = INVALID_PAGE_ID
  <2>1. IsPage(EmptyPage) /\ EmptyPage.next = INVALID_PAGE_ID
    <3>1. <<>> \in Seq({})
      OBVIOUS
    <3> QED BY <3>1 DEF EmptyPage, IsPage, IsSequence
  <2> QED BY <1>2, <2>1, InsertKeeps DEF Kept
<1>9. IsPage(linked) /\ linked.next = new /\ linked.slots = heap[p].slots
  <2>1. PICK e : e = heap[p]
    OBVIOUS
  <2>2. e = [free |-> e.free, slots |-> e.slots, data |-> e.data, next |-> e.next]
    BY <1>6, <2>1 DEF IsPage
  <2>3. linked = [free |-> e.free, slots |-> e.slots, data |-> e.data, next |-> new]
    BY <1>3, <2>1, <2>2
  <2> QED BY <1>6, <2>1, <2>3 DEF IsPage
<1>10. /\ IsSequence(old) /\ Len(old) = Len(heap) /\ old[p] = linked
       /\ \A a \in 1 .. Len(heap) : a # p => old[a] = heap[a]
  BY <1>4, <1>6, SequenceChanged
<1>11. /\ IsSequence(heap') /\ Len(heap') = new /\ heap'[new] = q
       /\ \A a \in 1 .. Len(heap) : heap'[a] = old[a]
  <2>1. PICK h : h = Append(old, q)
    OBVIOUS
  <2>2. /\ IsSequence(h) /\ Len(h) = Len(old) + 1 /\ h[Len(old) + 1] = q
        /\ \A a \in 1 .. Len(old) : h[a] = old[a]
    BY <1>10, <2>1, SequenceGrown
  <2> QED BY <1>1, <1>5, <1>10, <2>1, <2>2 DEF IsSequence
<1>12. \A a \in 1 .. Len(heap) : IsPage(heap'[a]) /\ heap'[a].slots = heap[a].slots
                                  /\ heap'[a].next = a + 1
  <2> SUFFICES ASSUME NEW a \in 1 .. Len(heap)
               PROVE  IsPage(heap'[a]) /\ heap'[a].slots = heap[a].slots /\ heap'[a].next = a + 1
    OBVIOUS
  <2>1. CASE a = p
    BY <1>1, <1>7, <1>9, <1>10, <1>11, <2>1
  <2>2. CASE a # p
    <3>1. heap'[a] = heap[a]
      BY <1>10, <1>11, <2>2
    <3> QED BY <1>7, <2>2, <3>1 DEF ScanInv, Chained
  <2> QED BY <2>1, <2>2
<1>13. \A a \in 1 .. new : a = new \/ (a \in 1 .. Len(heap) /\ a # new)
  BY <1>1, <1>6
<1>14. Chained'
  <2>1. \A a \in 1 .. new :
          IsPage(heap'[a]) /\ heap'[a].next = IF a = new THEN INVALID_PAGE_ID ELSE a + 1
    BY <1>8, <1>11, <1>12, <1>13
  <2> QED BY <1>6, <1>11, <2>1 DEF Chained, IsPage, IsSequence
<1>15. 1 .. Len(heap) \subseteq 1 .. Len(heap')
  BY <1>1, <1>6, <1>11
<1>16. \A r : Shows(r) => Shows(r)'
  BY <1>12, <1>15 DEF Shows, Visible, IsSlot
<1>17. ASSUME NEW s \in Scans
       PROVE  Owes(scan[s])'
  <2>1. Owes(scan[s])
    BY DEF ScanInv
  <2>2. Owes(scan[s])' <=> LET it == scan[s] IN
          /\ it.page = 0 => it.pc \in {"idle", "at"} /\ (it.whole => it.owed = {})
          /\ it.page # 0 => /\ it.page \in 1 .. Len(heap')
                            /\ it.whole => \A r \in it.owed : Ahead(it, r)
          /\ it.pc = "walk" => it.slot = 0 /\ it.page # 0
          /\ it.whole => \A r \in it.owed : Shows(r)'
    BY <1>5 DEF Owes, Ahead, Shows
  <2> QED BY <1>15, <1>16, <2>1, <2>2 DEF Owes
<1> QED BY <1>5, <1>14, <1>17 DEF ScanInv

\* An update, or the undo of one.
LEMMA UpdateOwes ==
  ASSUME ScanInv, NEW t, NEW p, p \in 1 .. Len(heap) => IsPage(heap[p]), NEW i, NEW tuple,
         NEW lapse, Update(t, p, i, tuple, lapse)
  PROVE  ScanInv'
<1>1. CASE AboveFree(heap[p], i)
  <2>1. WritePage(t, p, i, UpdateTuple(heap[p], i, tuple))
    BY <1>1 DEF Update
  <2>2. p \in 1 .. Len(heap) => Kept(heap[p], UpdateTuple(heap[p], i, tuple), i)
    BY MovesKeep
  <2> QED BY <2>1, <2>2, WritePageOwes
<1>2. CASE ~AboveFree(heap[p], i)
  BY <1>2, NothingOwed DEF Update
<1> QED BY <1>1, <1>2

LEMMA TxnStepsOwe ==
  ASSUME ScanInv, NEW t \in Txns,
         QuietSteps(t) \/ CommitItem(t) \/ AbortItem(t)
  PROVE  ScanInv'
<1>1. CASE QuietSteps(t)
  BY <1>1, NothingOwed
     DEF QuietSteps, Begin, Refused, Commit, Abort, NoFrame, End, EnterLatch
<1> DEFINE p == Last(t).page
           i == Last(t).slot
           tuple == Last(t).tuple
<1>2. p \in 1 .. Len(heap) => IsPage(heap[p])
  BY DEF ScanInv, Chained
<1>3. ASSUME Remove(t, p, i)
      PROVE  ScanInv'
  <2>1. CASE CanApplyDelete(heap[p], i)
    <3>1. WritePage(t, p, i, ApplyDelete(heap[p], i))
      BY <1>3, <2>1 DEF Remove
    <3>2. p \in 1 .. Len(heap) => Kept(heap[p], ApplyDelete(heap[p], i), i)
      BY <1>2, MovesKeep
    <3> QED BY <3>1, <3>2, WritePageOwes
  <2>2. CASE ~CanApplyDelete(heap[p], i)
    BY <1>3, <2>2, NothingOwed DEF Remove
  <2> QED BY <2>1, <2>2
<1>4. CASE CommitItem(t)
  <2>1. CASE Last(t).wtype = "DELETE"
    BY <1>3, <1>4, <2>1 DEF CommitItem
  <2>2. CASE Last(t).wtype # "DELETE"
    BY <1>4, <2>2, NothingOwed DEF CommitItem
  <2> QED BY <2>1, <2>2
<1>5. CASE AbortItem(t)
  <2>1. CASE Remove(t, p, i)
    BY <1>3, <2>1
  <2>2. CASE WritePage(t, p, i, RollbackDelete(heap[p], i))
    <3>1. p \in 1 .. Len(heap) => Kept(heap[p], RollbackDelete(heap[p], i), i)
      BY <1>2, MarksKeep
    <3> QED BY <2>2, <3>1, WritePageOwes
  <2>3. CASE Update(t, p, i, tuple, {})
    BY <1>2, <2>3, UpdateOwes
  <2>4. CASE KeepUpdate(t, p, i, tuple)
    BY <2>4, NothingOwed DEF KeepUpdate
  <2> QED BY <1>5, <2>1, <2>2, <2>3, <2>4 DEF AbortItem
<1> QED BY <1>1, <1>4, <1>5

LEMMA CallsOwe ==
  ASSUME ScanInv, NEW t \in Txns, WriteStep(t)
  PROVE  ScanInv'
<1> SUFFICES ASSUME NEW p \in 1 .. Len(heap),
               \/ \E tuple \in Tuples : InsertStep(t, p, tuple)
               \/ \E i \in 1 .. Len(heap[p].slots) :
                    MarkTuple(t, p, i) \/ \E tuple \in Tuples : ChangeTuple(t, p, i, tuple)
             PROVE  ScanInv'
  BY DEF WriteStep
<1>1. IsPage(heap[p])
  BY DEF ScanInv, Chained
<1>3. ASSUME NEW tuple \in Tuples, InsertStep(t, p, tuple)
      PROVE  ScanInv'
  <2>1. CASE InsertHere(t, p, tuple)
    <3>1. WritePage(t, p, SlotFor(heap[p]), InsertTuple(heap[p], tuple))
      BY <2>1 DEF InsertHere
    <3>2. Kept(heap[p], InsertTuple(heap[p], tuple), SlotFor(heap[p]))
      BY <1>1, InsertKeeps
    <3> QED BY <3>1, <3>2, WritePageOwes
  <2>2. CASE InsertExtends(t, p, tuple)
    BY <2>2, ExtendsOwes
  <2>3. CASE InsertMovesOn(t, p, tuple) \/ InsertFails(t, p, tuple)
    BY <2>3, NothingOwed DEF InsertMovesOn, InsertFails
  <2> QED BY <1>3, <2>1, <2>2, <2>3 DEF InsertStep
<1>4. ASSUME NEW i \in 1 .. Len(heap[p].slots), MarkTuple(t, p, i)
      PROVE  ScanInv'
  <2>1. PICK q : q = IF Visible(heap[p], i) THEN MarkDelete(heap[p], i) ELSE heap[p]
    OBVIOUS
  <2>2. WritePage(t, p, i, q)
    BY <1>4, <2>1 DEF MarkTuple
  <2>3. Kept(heap[p], q, i)
    BY <1>1, <2>1, MarksKeep DEF Kept
  <2> QED BY <2>2, <2>3, WritePageOwes
<1>5. ASSUME NEW i \in 1 .. Len(heap[p].slots), NEW tuple \in Tuples, ChangeTuple(t, p, i, tuple)
      PROVE  ScanInv'
  <2>1. \E lapse : Update(t, p, i, tuple, lapse)
    BY <1>5 DEF ChangeTuple
  <2> QED BY <1>1, <2>1, UpdateOwes
<1> QED BY <1>3, <1>4, <1>5

LEMMA ScanInvNext ==
  ASSUME ScanInv, [Next]_vars
  PROVE  ScanInv'
<1>1. CASE UNCHANGED vars
  BY <1>1, NothingOwed DEF vars
<1>2. ASSUME NEW s \in Scans, ScanSteps(s)
      PROVE  ScanInv'
  <2>1. CASE ScanNoFrame(s)
    BY <2>1, NothingOwed DEF ScanNoFrame
  <2> QED BY <1>2, <2>1, ScanBeginStep, ScanReturns, ScanFetchFailsStep, ScanNextStep,
             ScanCloseStep DEF ScanSteps
<1>3. CASE Next
  BY <1>2, <1>3, NextIs, TxnStepsOwe, CallsOwe
<1> QED BY <1>1, <1>3

LEMMA ScanInvInit == Init => ScanInv
<1> SUFFICES ASSUME Init PROVE ScanInv
  OBVIOUS
<1>1. IsPage(EmptyPage) /\ EmptyPage.next = INVALID_PAGE_ID
  <2>1. <<>> \in Seq({})
    OBVIOUS
  <2> QED BY <2>1 DEF EmptyPage, IsPage, IsSequence
<1>2. heap = <<EmptyPage>>
  BY DEF Init
<1>3. IsSequence(heap) /\ Len(heap) = 1 /\ heap[1] = EmptyPage
  <2>1. <<EmptyPage>> \in Seq({EmptyPage})
    OBVIOUS
  <2> QED BY <1>2, <2>1 DEF IsSequence
<1>4. Chained
  BY <1>1, <1>3, HeapAssumption DEF Chained
<1>5. NotScanning \in Iterator /\ Owes(NotScanning)
  BY HeapAssumption DEF NotScanning, Iterator, Owes
<1>6. scan = [s \in Scans |-> NotScanning]
  BY DEF Init
<1> QED BY <1>4, <1>5, <1>6 DEF ScanInv

\* A scan that got past begin(), and found a frame for its first page, returns every tuple
\* that was visible when it began and that nobody has written since, whatever transactions
\* insert, delete, apply and undo beside it and however the table grows.
THEOREM ScansMissNothing == Spec => []ScansComplete
<1>1. ScanInv => ScansComplete
  BY DEF ScanInv, Owes, ScansComplete
<1>2. ScanInv /\ [Next]_vars => ScanInv'
  BY ScanInvNext
<1> QED BY <1>1, <1>2, ScanInvInit, PTL DEF Spec

-----------------------------------------------------------------------------
(* Types and bounds. *)

Inserting == [page : 0 .. MaxHeapPages, tuple : Tuples \cup {<<>>}]

Small ==
  /\ inserting \in [Txns -> Inserting]
  /\ entered \in [Txns -> 0 .. MaxHeapPages]
  /\ stopped \in {"no", "assertion", "no frame"}
  /\ lapses \subseteq {"moved", "refused", "unrecorded", "kept"}

\* A transaction that is inside of InsertTuple has room for the record of it.
Roomy ==
  \A t \in Txns :
    /\ Len(write_set[t]) <= MaxWrites
    /\ call[t] = "InsertTuple" => /\ Len(write_set[t]) < MaxWrites
                                  /\ inserting[t].tuple \in Tuples

Bounded == Small /\ Roomy

\* A transaction has no more records than all have together.
LEMMA OwnRecords ==
  ASSUME Types, NEW t \in Txns
  PROVE  Len(write_set[t]) \in Nat /\ RecordCount \in Nat /\ Len(write_set[t]) <= RecordCount
<1> DEFINE Of(u) == {u} \X DOMAIN write_set[u]
           all == UNION {Of(u) : u \in Txns}
           n == Len(write_set[t])
<1>1. ASSUME NEW u \in Txns
      PROVE  DOMAIN write_set[u] = 1 .. Len(write_set[u]) /\ Len(write_set[u]) \in Nat
  <2>1. write_set[u] \in Seq(Item)
    BY DEF Types
  <2> QED BY <2>1
<1>2. ASSUME NEW u \in Txns
      PROVE  IsFiniteSet(Of(u)) /\ Cardinality(Of(u)) = Len(write_set[u])
  <2>1. PICK k : k = Len(write_set[u])
    OBVIOUS
  <2>2. k \in Nat /\ DOMAIN write_set[u] = 1 .. k
    BY <1>1, <2>1
  <2>3. IsFiniteSet({u}) /\ Cardinality({u}) = 1
    BY FS_Singleton
  <2>4. IsFiniteSet(1 .. k) /\ Cardinality(1 .. k) = k
    BY <2>2, FS_Interval
  <2>5. /\ IsFiniteSet({u} \X (1 .. k))
        /\ Cardinality({u} \X (1 .. k)) = Cardinality({u}) * Cardinality(1 .. k)
    BY <2>3, <2>4, FS_Product
  <2> QED BY <2>1, <2>2, <2>3, <2>4, <2>5
<1>3. IsFiniteSet({Of(u) : u \in Txns})
  <2>1. PICK S : S = {Of(u) : u \in Txns}
    OBVIOUS
  <2>2. PICK f : f = [u \in Txns |-> Of(u)]
    OBVIOUS
  <2>3. f \in Surjection(Txns, S)
    BY <2>1, <2>2 DEF Surjection
  <2>4. IsFiniteSet(Txns)
    BY HeapAssumption
  <2>5. IsFiniteSet(S)
    BY <2>3, <2>4, FS_Surjection
  <2> QED BY <2>1, <2>5
<1>4. IsFiniteSet(all)
  BY <1>2, <1>3, FS_UNION
<1>5. Of(t) \in SUBSET all
  OBVIOUS
<1>6. Cardinality(Of(t)) <= Cardinality(all)
  BY <1>4, <1>5, FS_Subset
<1>7. Cardinality(all) \in Nat
  BY <1>4, FS_CardinalityType
<1>8. RecordCount = Cardinality(all)
  BY DEF RecordCount
<1> QED BY <1>1, <1>2, <1>6, <1>7, <1>8

\* Who makes a call that writes has room for the record.
LEMMA RoomForRecord ==
  ASSUME Types, Roomy, NEW t \in Txns,
         Calls(t) \/ \E p, tuple : InsertAt(t, p, tuple)
  PROVE  Len(write_set[t]) < MaxWrites
<1>1. MaxWrites \in Nat
  BY HeapAssumption
<1>2. CASE Calls(t)
  BY <1>1, <1>2, OwnRecords DEF Calls
<1>3. CASE call[t] = "InsertTuple"
  BY <1>3 DEF Roomy
<1> QED BY <1>2, <1>3 DEF InsertAt

\* The call of t is over, or is the one it was before and has added no record; or it is an
\* insertion that goes on.
LEMMA RoomStays ==
  ASSUME Types, Roomy, NEW t \in Txns, WritesThere(t),
         \A u \in Txns \ {t} : call'[u] = call[u] /\ inserting'[u] = inserting[u],
         \/ write_set' = write_set \/ (write_set[t] # <<>> /\ Popped(t))
         \/ Len(write_set[t]) < MaxWrites,
         call'[t] = "InsertTuple" => /\ write_set' = write_set /\ Len(write_set[t]) < MaxWrites
                                     /\ inserting'[t].tuple \in Tuples
  PROVE  Roomy'
<1>1. MaxWrites \in Nat
  BY HeapAssumption
<1>2. /\ Len(write_set[t]) \in Nat /\ Len(write_set[t]) <= MaxWrites
      /\ \A u \in Txns : u # t => write_set'[u] = write_set[u]
      /\ Len(write_set'[t]) <= MaxWrites
  <2>1. Len(write_set[t]) \in Nat /\ Len(write_set[t]) <= MaxWrites
    BY OwnRecords DEF Roomy
  <2>2. CASE write_set' = write_set
    BY <2>1, <2>2
  <2>3. CASE write_set[t] # <<>> /\ Popped(t)
    BY <1>1, <2>1, <2>3, OneLess
  <2>4. ASSUME NEW item \in Item, write_set' = [write_set EXCEPT ![t] = Append(@, item)],
               Len(write_set[t]) < MaxWrites
        PROVE  /\ \A u \in Txns : u # t => write_set'[u] = write_set[u]
               /\ Len(write_set'[t]) <= MaxWrites
    BY <1>1, <2>1, <2>4, OneMore
  <2> QED BY <2>1, <2>2, <2>3, <2>4 DEF WritesThere
<1>3. ASSUME NEW u \in Txns
      PROVE  /\ Len(write_set'[u]) <= MaxWrites
             /\ call'[u] = "InsertTuple" => /\ Len(write_set'[u]) < MaxWrites
                                            /\ inserting'[u].tuple \in Tuples
  <2>1. CASE u = t
    BY <1>2, <2>1
  <2>2. CASE u # t
    BY <1>2, <2>2 DEF Roomy
  <2> QED BY <2>1, <2>2
<1> QED BY <1>3 DEF Roomy

\* What a step makes of the small variables.
LEMMA SmallStays ==
  ASSUME Small, NEW t,
         entered' = entered \/ \E p \in 0 .. MaxHeapPages : entered' = [entered EXCEPT ![t] = p],
         inserting' = inserting
           \/ \E new \in Inserting : inserting' = [inserting EXCEPT ![t] = new],
         stopped' \in {stopped, "assertion", "no frame"},
         lapses' \ lapses \subseteq {"moved", "refused", "unrecorded", "kept"}
  PROVE  Small'
<1>1. entered' \in [Txns -> 0 .. MaxHeapPages]
  BY DEF Small
<1>2. inserting' \in [Txns -> Inserting]
  BY DEF Small
<1>3. stopped' \in {"no", "assertion", "no frame"}
  BY DEF Small
<1>4. lapses' \subseteq {"moved", "refused", "unrecorded", "kept"}
  BY DEF Small
<1> QED BY <1>1, <1>2, <1>3, <1>4 DEF Small, Inserting

LEMMA NoPage == 0 \in 0 .. MaxHeapPages /\ NotInserting \in Inserting
BY HeapAssumption DEF NotInserting, Inserting

LEMMA QuietBounded ==
  ASSUME Types, ScanInv, Bounded, NEW t \in Txns, QuietSteps(t)
  PROVE  Bounded'
<1>1. /\ inserting' = inserting /\ write_set' = write_set /\ lapses' = lapses
  BY QuietKeepsHeap
<1>2. /\ stopped' \in {stopped, "no frame"}
      /\ entered' = entered \/ \E p \in 1 .. Len(heap) : entered' = [entered EXCEPT ![t] = p]
  BY DEF QuietSteps, Begin, Refused, Commit, Abort, NoFrame, End, EnterLatch, faults
<1>3. /\ \A u \in Txns \ {t} : call'[u] = call[u]
      /\ call'[t] = "InsertTuple" => call[t] = "InsertTuple"
  BY DEF QuietSteps, Begin, Refused, Commit, Abort, NoFrame, End, EnterLatch, txnVars, Types
<1>4. \A p \in 1 .. Len(heap) : p \in 0 .. MaxHeapPages
  BY HeapAssumption DEF ScanInv, Chained
<1>5. Small'
  BY <1>1, <1>2, <1>4, SmallStays DEF Bounded
<1>6. WritesThere(t)
  BY <1>1 DEF WritesThere
<1>7. Roomy'
  BY <1>1, <1>3, <1>6, RoomStays DEF Bounded, Roomy
<1> QED BY <1>5, <1>7 DEF Bounded

LEMMA InsertBounded ==
  ASSUME Base, ScanInv, Bounded, NEW t \in Txns, NEW p \in 1 .. Len(heap), NEW tuple \in Tuples,
         InsertStep(t, p, tuple)
  PROVE  Bounded'
<1>1. /\ Types /\ Small /\ Roomy /\ WritesThere(t) /\ Len(write_set[t]) < MaxWrites
  <2>1. InsertAt(t, p, tuple)
    BY DEF InsertStep, InsertHere, InsertMovesOn, InsertExtends, InsertFails, Full
  <2> QED BY <2>1, InsertThere, RoomForRecord DEF Base, Bounded
<1>2. /\ entered' = [entered EXCEPT ![t] = 0] /\ UNCHANGED faults
  BY DEF InsertStep, InsertHere, InsertMovesOn, InsertExtends, InsertFails, WritePage
<1>3. stopped' = stopped /\ lapses' = lapses
  BY <1>2 DEF faults
<1>4. CASE InsertMovesOn(t, p, tuple)
  <2>1. PICK next : next = heap[p].next
    OBVIOUS
  <2>2. PICK new : new = [page |-> next, tuple |-> tuple]
    OBVIOUS
  <2>3. /\ call' = [call EXCEPT ![t] = "InsertTuple"] /\ next # INVALID_PAGE_ID
        /\ inserting' = [inserting EXCEPT ![t] = new] /\ write_set' = write_set
    BY <1>4, <2>1, <2>2 DEF InsertMovesOn
  <2>4. next = p + 1 /\ p # Len(heap)
    BY <2>1, <2>3 DEF ScanInv, Chained
  <2>5. next \in 0 .. MaxHeapPages
    BY <2>4, HeapAssumption DEF ScanInv, Chained
  <2>6. new \in Inserting /\ new.tuple = tuple
    BY <2>2, <2>5 DEF Inserting
  <2>7. /\ inserting'[t] = new
        /\ \A u \in Txns \ {t} : call'[u] = call[u] /\ inserting'[u] = inserting[u]
    BY <1>1, <2>3 DEF Types
  <2>8. Small'
    BY <1>1, <1>2, <1>3, <2>3, <2>6, NoPage, SmallStays
  <2>9. Roomy'
    BY <1>1, <2>3, <2>6, <2>7, RoomStays
  <2> QED BY <2>8, <2>9 DEF Bounded
<1>5. CASE ~InsertMovesOn(t, p, tuple)
  <2>1. InsertEnds(t)
    BY <1>5 DEF InsertStep, InsertHere, InsertExtends, InsertFails
  <2>2. /\ call'[t] = "none"
        /\ \A u \in Txns \ {t} : call'[u] = call[u] /\ inserting'[u] = inserting[u]
    BY <1>1, <2>1 DEF InsertEnds, Types
  <2>3. Small'
    BY <1>1, <1>2, <1>3, <2>1, NoPage, SmallStays DEF InsertEnds
  <2>4. Roomy'
    BY <1>1, <2>2, RoomStays
  <2> QED BY <2>3, <2>4 DEF Bounded
<1> QED BY <1>4, <1>5

\* What an update or its undo does to the small variables.
LEMMA UpdateSmall ==
  ASSUME NEW t, NEW p, NEW i, NEW tuple, NEW lapse, Update(t, p, i, tuple, lapse)
  PROVE  /\ entered' = entered \/ entered' = [entered EXCEPT ![t] = 0]
         /\ stopped' \in {stopped, "assertion"}
         /\ lapses' \ lapses \subseteq lapse \cup {"moved"}
BY DEF Update, WritePage

LEMMA CallBounded ==
  ASSUME Base, Bounded, HeapStill, NEW t \in Txns, NEW p \in 1 .. Len(heap),
         NEW i \in 1 .. Len(heap[p].slots),
         MarkTuple(t, p, i) \/ \E tuple \in Tuples : ChangeTuple(t, p, i, tuple)
  PROVE  Bounded'
<1>1. /\ Types /\ Small /\ Roomy /\ WritesThere(t) /\ Len(write_set[t]) < MaxWrites
      /\ call[t] = "none" /\ call' = call /\ inserting' = inserting
  <2>1. Calls(t) /\ call' = call /\ inserting' = inserting
    BY DEF MarkTuple, ChangeTuple
  <2> QED BY <2>1, CallThere, RoomForRecord DEF Base, Bounded, Calls
<1>2. Small'
  <2>1. CASE MarkTuple(t, p, i)
    <3>1. /\ entered' = [entered EXCEPT ![t] = 0] /\ stopped' = stopped
          /\ lapses' \ lapses \subseteq {"moved", "refused", "unrecorded", "kept"}
      BY <2>1 DEF MarkTuple, WritePage
    <3> QED BY <1>1, <3>1, NoPage, SmallStays
  <2>2. ASSUME NEW tuple \in Tuples, ChangeTuple(t, p, i, tuple)
        PROVE  Small'
    <3>1. \E lapse \in SUBSET {"unrecorded"} : Update(t, p, i, tuple, lapse)
      BY <2>2 DEF ChangeTuple
    <3>2. /\ entered' = entered \/ entered' = [entered EXCEPT ![t] = 0]
          /\ stopped' \in {stopped, "assertion"}
          /\ lapses' \ lapses \subseteq {"moved", "refused", "unrecorded", "kept"}
      BY <3>1, UpdateSmall
    <3> QED BY <1>1, <3>2, NoPage, SmallStays
  <2> QED BY <2>1, <2>2
<1>3. Roomy'
  BY <1>1, RoomStays
<1> QED BY <1>2, <1>3 DEF Bounded

LEMMA ItemBounded ==
  ASSUME Base, Bounded, NEW t \in Txns, CommitItem(t) \/ AbortItem(t)
  PROVE  Bounded'
<1>1. /\ call' = call /\ inserting' = inserting /\ write_set[t] # <<>> /\ Popped(t)
      /\ WritesThere(t) /\ Types /\ Small /\ Roomy /\ call[t] # "InsertTuple"
  BY DEF CommitItem, AbortItem, WritesThere, Base, Bounded
<1>2. PICK p : p = Last(t).page
  OBVIOUS
<1>3. PICK i : i = Last(t).slot
  OBVIOUS
<1>4. /\ entered' = entered \/ entered' = [entered EXCEPT ![t] = 0]
      /\ stopped' \in {stopped, "assertion", "no frame"}
      /\ lapses' \ lapses \subseteq {"moved", "refused", "unrecorded", "kept"}
  <2>1. CASE Remove(t, p, i)
    BY <2>1 DEF Remove, WritePage
  <2>2. CASE CommitItem(t) /\ ~Remove(t, p, i)
    BY <1>2, <1>3, <2>2 DEF CommitItem, faults
  <2>3. CASE WritePage(t, p, i, RollbackDelete(heap[p], i)) /\ UNCHANGED faults
    BY <2>3 DEF WritePage, faults
  <2>4. CASE Update(t, p, i, Last(t).tuple, {})
    <3>1. lapses' \ lapses \subseteq {} \cup {"moved"}
      BY <2>4, UpdateSmall
    <3> QED BY <2>4, <3>1, UpdateSmall
  <2>5. CASE KeepUpdate(t, p, i, Last(t).tuple)
    BY <2>5 DEF KeepUpdate
  <2>6. AbortItem(t) => \/ Remove(t, p, i)
                        \/ WritePage(t, p, i, RollbackDelete(heap[p], i)) /\ UNCHANGED faults
                        \/ Update(t, p, i, Last(t).tuple, {})
                        \/ KeepUpdate(t, p, i, Last(t).tuple)
    BY <1>2, <1>3 DEF AbortItem
  <2> QED BY <2>1, <2>2, <2>3, <2>4, <2>5, <2>6
<1>5. Small'
  BY <1>1, <1>4, NoPage, SmallStays
<1>6. Roomy'
  BY <1>1, RoomStays
<1> QED BY <1>5, <1>6 DEF Bounded

LEMMA BoundedNext ==
  ASSUME Base, HeapStill, ScanInv, Bounded, Next
  PROVE  Bounded'
<1>1. ASSUME NEW t \in Txns, QuietSteps(t) PROVE Bounded'
  BY <1>1, QuietBounded DEF Base
<1>2. ASSUME NEW t \in Txns, WriteStep(t) PROVE Bounded'
  BY <1>2, InsertBounded, CallBounded DEF WriteStep
<1>3. ASSUME NEW s \in Scans, ScanSteps(s) PROVE Bounded'
  <2>1. UNCHANGED <<txnVars, entered, lapses>> /\ stopped' \in {stopped, "no frame"}
    BY <1>3, ScansWriteNothing
  <2> QED BY <2>1 DEF txnVars, Bounded, Small, Roomy
<1> QED BY <1>1, <1>2, <1>3, NextIs, ItemBounded

LEMMA TypeOKFrom == PagesInv /\ ScanInv /\ Bounded => TypeOK
<1> SUFFICES ASSUME PagesInv, ScanInv, Bounded PROVE TypeOK
  OBVIOUS
<1>1. Types /\ Len(heap) \in 1 .. MaxHeapPages
  BY DEF PagesInv, Base, ScanInv, Chained
<1>2. heap \in Seq(IF "moved" \in lapses THEN AnyPage ELSE Page)
  <2>1. heap \in Seq(AnyPage)
    BY <1>1 DEF Types
  <2>2. CASE "moved" \notin lapses
    <3>1. \A p \in 1 .. Len(heap) : heap[p] \in Page
      BY <2>2 DEF PagesInv, GoodPages, GoodPage
    <3>2. heap \in [1 .. Len(heap) -> Page]
      BY <2>1, <3>1
    <3>3. heap \in Seq(Page)
      BY <2>1, <3>2
    <3> QED BY <2>2, <3>3
  <2> QED BY <2>1, <2>2
<1>3. ASSUME NEW t \in Txns
      PROVE  write_set[t] \in Seq(Record) /\ Len(write_set[t]) <= MaxWrites
  <2>1. PICK w : w = write_set[t]
    OBVIOUS
  <2>2. w \in Seq(Item) /\ Len(w) \in Nat
    BY <1>1, <2>1 DEF Types
  <2>3. ASSUME NEW k \in 1 .. Len(w)
        PROVE  w[k] \in Record
    <3>1. PICK r : r = w[k]
      OBVIOUS
    <3>2. r \in Item
      BY <2>2, <3>1
    <3>3. r.page \in PageIds
      <4>1. RecordThere(t, k)
        BY <2>1 DEF PagesInv, Base, RecordsThere
      <4>2. r.page \in 1 .. Len(heap)
        BY <2>1, <3>1, <4>1 DEF RecordThere, IsRid
      <4> QED BY <1>1, <4>2, HeapAssumption DEF PageIds
    <3> QED BY <3>1, <3>2, <3>3 DEF Item, Record
  <2>4. w \in Seq(Record)
    <3>1. w \in [1 .. Len(w) -> Record]
      BY <2>2, <2>3
    <3> QED BY <2>2, <3>1
  <2> QED BY <2>1, <2>4 DEF Bounded, Roomy
<1> QED BY <1>1, <1>2, <1>3 DEF TypeOK, Types, Bounded, Small, Inserting, ScanInv

\* The types and the bounds of the table's state, whatever the transactions do beside each
\* other; a page stays one of the page layout's types until an update moves a marked tuple.
THEOREM TableTypeCorrect == Spec => []TypeOK
<1> DEFINE All == PagesInv /\ ScanInv /\ Bounded
<1>1. Init => All
  <2> SUFFICES ASSUME Init PROVE All
    OBVIOUS
  <2>1. PagesInv
    BY BaseInit DEF PagesInv
  <2>2. /\ inserting = [t \in Txns |-> NotInserting] /\ entered = [t \in Txns |-> 0]
        /\ \A t \in Txns : write_set[t] = <<>> /\ call[t] = "none"
        /\ stopped = "no" /\ lapses = {}
    BY DEF Init
  <2>3. Bounded
    BY <2>2, NoPage, HeapAssumption DEF Bounded, Small, Roomy
  <2> QED BY <2>1, <2>3, ScanInvInit
<1>2. ASSUME All, Next PROVE All'
  <2>1. Base /\ HeapStill
    BY <1>2, BaseNext DEF PagesInv
  <2> QED BY <1>2, <2>1, PagesNext, ScanInvNext, BoundedNext
<1>3. ASSUME All, UNCHANGED vars PROVE All'
  <2>1. Bounded'
    BY <1>3 DEF vars, txnVars, faults, Bounded, Small, Roomy
  <2> QED BY <1>3, <2>1, PagesUnchanged, ScanInvNext
<1>4. All /\ [Next]_vars => All'
  BY <1>2, <1>3
<1>5. All => TypeOK
  BY TypeOKFrom
<1> QED BY <1>1, <1>4, <1>5, PTL DEF Spec

-----------------------------------------------------------------------------
(* Transactions are atomic, as long as there is no lapse. *)

\* The k-th record of t is x.
Rec(t, k, x) == k \in 1 .. Len(write_set[t]) /\ write_set[t][k] = x

On(x, p, i) == x.page = p /\ x.slot = i

\* A record counts as long as it can be undone, that of a deletion until it is applied.
Stands(t, x) == state[t] = "COMMITTED" => x.wtype = "DELETE"

Has(t, p, i) == \E k, x : Rec(t, k, x) /\ On(x, p, i)

\* Between transactions a thread has no records.
IdleEmpty == \A t \in Txns : state[t] = "none" => write_set[t] = <<>>

LEMMA IdleEmptyNext ==
  ASSUME Base, IdleEmpty, Next
  PROVE  IdleEmpty'
<1>1. ASSUME NEW t \in Txns, state[t] # "none", state'[t] # "none",
             \A u \in Txns \ {t} : state'[u] = state[u] /\ write_set'[u] = write_set[u]
      PROVE  IdleEmpty'
  BY <1>1 DEF IdleEmpty
<1>2. ASSUME write_set' = write_set,
             \A u \in Txns : state'[u] = "none" => state[u] = "none" \/ write_set[u] = <<>>
      PROVE  IdleEmpty'
  BY <1>2 DEF IdleEmpty
<1>3. ASSUME NEW t \in Txns, QuietSteps(t) PROVE IdleEmpty'
  <2>1. write_set' = write_set
    BY <1>3, QuietKeepsHeap
  <2>2. \A u \in Txns : state'[u] = "none" => state[u] = "none" \/ write_set[u] = <<>>
    BY <1>3 DEF QuietSteps, Begin, Refused, Commit, Abort, NoFrame, End, EnterLatch, txnVars,
                Base, Types
  <2> QED BY <1>2, <2>1, <2>2
<1>4. ASSUME NEW s \in Scans, ScanSteps(s) PROVE IdleEmpty'
  BY <1>2, <1>4, ScansWriteNothing DEF txnVars
<1>5. ASSUME NEW t \in Txns, WriteStep(t) PROVE IdleEmpty'
  <2>1. HeapStill
    BY BaseNext
  <2>2. state[t] # "none" /\ state'[t] # "none" /\ \A u \in Txns \ {t} : state'[u] = state[u]
    <3>1. PICK p \in 1 .. Len(heap) :
            \/ \E tuple \in Tuples : InsertStep(t, p, tuple)
            \/ \E i \in 1 .. Len(heap[p].slots) :
                 MarkTuple(t, p, i) \/ \E tuple \in Tuples : ChangeTuple(t, p, i, tuple)
      BY <1>5 DEF WriteStep
    <3>2. ASSUME NEW tuple \in Tuples, InsertStep(t, p, tuple)
          PROVE  /\ state[t] # "none" /\ state'[t] # "none"
                 /\ \A u \in Txns \ {t} : state'[u] = state[u]
      <4>1. InsertAt(t, p, tuple)
        BY <3>2 DEF InsertStep, InsertHere, InsertMovesOn, InsertExtends, InsertFails, Full
      <4>2. state[t] \in {"GROWING", "ABORTED"}
        BY <4>1, InsertingTuple
      <4>3. state' = state \/ state' = [state EXCEPT ![t] = "ABORTED"]
        BY <3>2 DEF InsertStep, InsertHere, InsertMovesOn, InsertExtends, InsertFails
      <4> QED BY <4>2, <4>3 DEF Base, Types
    <3>3. ASSUME NEW i \in 1 .. Len(heap[p].slots),
                 MarkTuple(t, p, i) \/ \E tuple \in Tuples : ChangeTuple(t, p, i, tuple)
          PROVE  state[t] # "none" /\ state' = state
      BY <3>3 DEF MarkTuple, ChangeTuple, Calls
    <3> QED BY <3>1, <3>2, <3>3
  <2>3. WritesThere(t)
    BY <1>5, <2>1, InsertThere, CallThere DEF WriteStep
  <2>4. \A u \in Txns \ {t} : write_set'[u] = write_set[u]
    BY <2>3, OneMore, OneLess DEF WritesThere, Base
  <2> QED BY <1>1, <2>2, <2>4
<1>6. ASSUME NEW t \in Txns, CommitItem(t) \/ AbortItem(t) PROVE IdleEmpty'
  <2>1. state' = state /\ write_set[t] # <<>> /\ Popped(t)
    BY <1>6 DEF CommitItem, AbortItem
  <2>2. state[t] # "none" /\ \A u \in Txns \ {t} : write_set'[u] = write_set[u]
    BY <2>1, OneLess DEF IdleEmpty, Base
  <2> QED BY <1>1, <2>1, <2>2
<1> QED BY <1>3, <1>4, <1>5, <1>6, NextIs

\* HeapInv, of the records as such.
LEMMA RecFacts ==
  ASSUME HeapInv, NEW t \in Txns, NEW k, NEW x, Rec(t, k, x)
  PROVE  /\ k \in Nat /\ x \in Item /\ IsRid(x.page, x.slot)
         /\ Stands(t, x) => SizeAt(x.page, x.slot) # 0
         /\ x.wtype = "DELETE" => SizeAt(x.page, x.slot) < 0
         /\ x.wtype = "UPDATE" => x.tuple \in Seq(Bytes) /\ x.tuple # <<>>
         /\ x.wtype \in {"INSERT", "DELETE", "UPDATE"}
<1>1. write_set[t] \in Seq(Item)
  BY HeapParts DEF Types
<1>2. k \in Nat /\ x \in Item
  BY <1>1 DEF Rec
<1>3. x.wtype \in {"INSERT", "DELETE", "UPDATE"}
  BY <1>2 DEF Item
<1>4. RecordStands(t, k)
  BY DEF Rec, HeapInv, Records, RecordsStand
<1>5. x.wtype = "UPDATE" => x.tuple \in Seq(Bytes) /\ x.tuple # <<>>
  BY HeapParts DEF Rec, WrittenKept, Base, RecordsThere, RecordThere
<1> QED BY <1>2, <1>3, <1>4, <1>5 DEF Rec, RecordStands, Counts, Stands

LEMMA RecApart ==
  ASSUME HeapInv, NEW p, NEW i,
         NEW t \in Txns, NEW k, NEW x, Rec(t, k, x), On(x, p, i), Stands(t, x),
         NEW u \in Txns, NEW l, NEW y, Rec(u, l, y), On(y, p, i), Stands(u, y)
  PROVE  t = u
BY HeapParts DEF Records, RecordsApart, Counts, Stands, Rec, SameRid, On

LEMMA RecOrder ==
  ASSUME HeapInv, NEW p, NEW i, NEW t \in Txns, NEW k, NEW l, k < l,
         NEW x, Rec(t, k, x), On(x, p, i), NEW y, Rec(t, l, y), On(y, p, i)
  PROVE  x.wtype # "DELETE" /\ y.wtype # "INSERT"
BY HeapParts DEF Records, RecordsOrdered, Rec, SameRid, On

\* The records change by one of t, at the end of its write set.
Adds(t, item) ==
  \A u \in Txns : \A k, x :
    Rec(u, k, x)' <=> Rec(u, k, x) \/ (u = t /\ k = Len(write_set[t]) + 1 /\ x = item)

Drops(t, item) ==
  /\ Rec(t, Len(write_set[t]), item)
  /\ \A u \in Txns : \A k, x :
       Rec(u, k, x)' <=> Rec(u, k, x) /\ ~(u = t /\ k = Len(write_set[t]))
  /\ \A k, x : Rec(t, k, x) /\ k # Len(write_set[t]) => k < Len(write_set[t])

LEMMA RecordedAdds ==
  ASSUME HeapInv, NEW t \in Txns, NEW p \in Nat, NEW i \in Nat,
         NEW wtype \in {"INSERT", "DELETE", "UPDATE"}, NEW tuple \in Seq(Bytes \cup {Free}),
         Recorded(t, p, i, wtype, tuple)
  PROVE  \E item \in Item :
           /\ item.page = p /\ item.slot = i /\ item.wtype = wtype /\ item.tuple = tuple
           /\ Adds(t, item)
<1>1. PICK item \in Item : item = [page |-> p, slot |-> i, wtype |-> wtype, tuple |-> tuple]
  <2>1. [page |-> p, slot |-> i, wtype |-> wtype, tuple |-> tuple] \in Item
    BY DEF Item
  <2> QED BY <2>1
<1>2. write_set' = [write_set EXCEPT ![t] = Append(@, item)]
  BY <1>1 DEF Recorded
<1>3. PICK n : n = Len(write_set[t])
  OBVIOUS
<1>4. /\ n \in Nat /\ Len(write_set'[t]) = n + 1 /\ write_set'[t][n + 1] = item
      /\ \A k \in 1 .. n : write_set'[t][k] = write_set[t][k]
      /\ \A u \in Txns : u # t => write_set'[u] = write_set[u]
  BY <1>2, <1>3, HeapParts, OneMore
<1>5. ASSUME NEW u \in Txns, NEW k, NEW x
      PROVE  Rec(u, k, x)' <=> Rec(u, k, x) \/ (u = t /\ k = n + 1 /\ x = item)
  <2>1. CASE u # t
    BY <1>4, <2>1 DEF Rec
  <2>2. CASE u = t
    <3>1. k \in 1 .. n + 1 <=> k \in 1 .. n \/ k = n + 1
      BY <1>4
    <3>2. n + 1 \notin 1 .. n
      BY <1>4
    <3> QED BY <1>3, <1>4, <2>2, <3>1, <3>2 DEF Rec
  <2> QED BY <2>1, <2>2
<1>6. Adds(t, item)
  BY <1>3, <1>5 DEF Adds
<1>7. item.page = p /\ item.slot = i /\ item.wtype = wtype /\ item.tuple = tuple
  BY <1>1
<1> QED BY <1>6, <1>7

LEMMA PoppedDrops ==
  ASSUME HeapInv, NEW t \in Txns, write_set[t] # <<>>, Popped(t)
  PROVE  Drops(t, Last(t))
<1>1. PICK n : n = Len(write_set[t])
  OBVIOUS
<1>2. /\ n \in Nat \ {0} /\ Len(write_set'[t]) = n - 1
      /\ \A k \in 1 .. n - 1 : write_set'[t][k] = write_set[t][k]
      /\ \A u \in Txns : u # t => write_set'[u] = write_set[u]
  BY <1>1, HeapParts, OneLess
<1>3. \A k : /\ k \in 1 .. n - 1 <=> k \in 1 .. n /\ k # n
             /\ k \in 1 .. n /\ k # n => k < n
  BY <1>2
<1>4. n \in 1 .. n
  BY <1>2
<1>5. ASSUME NEW u \in Txns, NEW k, NEW x
      PROVE  Rec(u, k, x)' <=> Rec(u, k, x) /\ ~(u = t /\ k = n)
  BY <1>1, <1>2, <1>3 DEF Rec
<1> QED BY <1>1, <1>3, <1>4, <1>5 DEF Drops, Rec, Last

LEMMA OnlyElsewhere ==
  ASSUME NEW p, NEW i, Only(p, i), NEW a, NEW b, ~(a = p /\ b = i)
  PROVE  /\ IsRid(a, b)' => IsRid(a, b)
         /\ IsRid(a, b) => SizeAt(a, b)' = SizeAt(a, b)
         /\ IsRid(a, b) /\ SizeAt(a, b) # 0 => TupleAt(a, b)' = TupleAt(a, b)
BY DEF Only

-----------------------------------------------------------------------------
(* The kinds of steps. *)

OpenStay == \A u \in Txns : Open(u)' <=> Open(u)

LEMMA OpenStays ==
  ASSUME HeapInv, state' = state,
         \/ call' = call
         \/ \E t \in Txns : /\ call[t] # "Abort" /\ call'[t] # "Abort"
                            /\ \A u \in Txns \ {t} : call'[u] = call[u]
  PROVE  OpenStay
BY DEF OpenStay, Open, Undone

\* Nobody but t can still undo or apply anything at slot i of page p, and t has not deleted it.
OwnOnly(t, p, i) ==
  \A u \in Txns : \A k, x : Rec(u, k, x) /\ On(x, p, i) /\ Stands(u, x) =>
    u = t /\ x.wtype # "DELETE"

\* t has written slot i of page p, and has a record of it.
Wrote(t, p, i, item) ==
  /\ Open(t) /\ state' = state /\ OpenStay
  /\ Only(p, i) /\ On(item, p, i) /\ Adds(t, item) /\ OwnOnly(t, p, i)
  /\ SizeAt(p, i)' \in Int
  /\ \/ /\ item.wtype = "INSERT"
        /\ \A u \in Txns : \A k, x : ~(Rec(u, k, x) /\ On(x, p, i) /\ Stands(u, x))
        /\ IsRid(p, i) => SizeAt(p, i) = 0
        /\ SizeAt(p, i)' > 0 /\ TupleAt(p, i)' \in Tuples
     \/ /\ item.wtype = "UPDATE"
        /\ IsRid(p, i) /\ SizeAt(p, i) > 0 /\ item.tuple = TupleAt(p, i)
        /\ SizeAt(p, i)' > 0 /\ TupleAt(p, i)' \in Tuples
     \/ /\ item.wtype = "DELETE"
        /\ IsRid(p, i) /\ SizeAt(p, i) > 0
        /\ SizeAt(p, i)' = -SizeAt(p, i) /\ TupleAt(p, i)' = TupleAt(p, i)

\* t, which a refused call has set to ABORTED, has updated what it has a record of.
Rewrote(t, p, i) ==
  /\ Open(t) /\ state' = state /\ OpenStay /\ write_set' = write_set
  /\ Only(p, i) /\ OwnOnly(t, p, i) /\ Has(t, p, i)
  /\ SizeAt(p, i)' \in Int
  /\ IsRid(p, i) /\ SizeAt(p, i) > 0
  /\ SizeAt(p, i)' > 0 /\ TupleAt(p, i)' \in Tuples

\* A record of t has been undone.
Undid(t, p, i, item) ==
  /\ state[t] = "ABORTED" /\ ~Open(t) /\ state' = state /\ OpenStay
  /\ Only(p, i) /\ On(item, p, i) /\ Drops(t, item)
  /\ \/ item.wtype = "INSERT" /\ SizeAt(p, i)' = 0
     \/ /\ item.wtype = "DELETE"
        /\ SizeAt(p, i)' > 0 /\ SizeAt(p, i)' = Abs(SizeAt(p, i))
        /\ TupleAt(p, i)' = TupleAt(p, i)
     \/ /\ item.wtype = "UPDATE"
        /\ SizeAt(p, i)' > 0 /\ SizeAt(p, i)' = Len(item.tuple)
        /\ TupleAt(p, i)' = item.tuple

\* Commit has done with a record of t.
Applied(t, p, i, item) ==
  /\ state[t] = "COMMITTED" /\ state' = state /\ OpenStay
  /\ Only(p, i) /\ On(item, p, i) /\ Drops(t, item)
  /\ \/ /\ item.wtype # "DELETE"
        /\ SizeAt(p, i)' = SizeAt(p, i) /\ TupleAt(p, i)' = TupleAt(p, i)
     \/ item.wtype = "DELETE" /\ SizeAt(p, i)' = 0

LEMMA InsertWrites ==
  ASSUME HeapInv, NEW t \in Txns, NEW p \in 1 .. Len(heap), NEW tuple \in Tuples,
         InsertHere(t, p, tuple) \/ InsertExtends(t, p, tuple)
  PROVE  \E a, i, item : Wrote(t, a, i, item)
<1>1. PICK a, i : Puts(t, a, i, tuple)
  BY InsertDoes
<1>2. state' = state /\ InsertAt(t, p, tuple) /\ InsertEnds(t)
  BY DEF InsertHere, InsertExtends, Full
<1>3. tuple \in Seq(Bytes) /\ tuple # <<>> /\ state[t] \in {"GROWING", "ABORTED"}
  BY <1>2, HeapParts, InsertingTuple
<1>4. Open(t) /\ OpenStay
  <2>1. call[t] # "Abort"
    BY <1>2 DEF InsertAt, Calls
  <2>2. call'[t] # "Abort" /\ \A u \in Txns \ {t} : call'[u] = call[u]
    BY <1>2, HeapParts DEF InsertEnds, Types
  <2> QED BY <1>2, <1>3, <2>1, <2>2, OpenStays DEF Open, Undone
<1>5. PICK n : n = Len(tuple)
  OBVIOUS
<1>6. n \in Int /\ n > 0
  BY <1>3, <1>5
<1>7. /\ a \in Nat /\ i \in Nat /\ Only(a, i) /\ SizeAt(a, i)' = n /\ TupleAt(a, i)' = tuple
      /\ IsRid(a, i) => SizeAt(a, i) = 0
      /\ Recorded(t, a, i, "INSERT", <<>>)
  BY <1>1, <1>5 DEF Puts
<1>8. PICK item \in Item : On(item, a, i) /\ item.wtype = "INSERT" /\ Adds(t, item)
  <2>1. PICK none : none = <<>>
    OBVIOUS
  <2>2. none \in Seq(Bytes \cup {Free}) /\ Recorded(t, a, i, "INSERT", none)
    BY <1>7, <2>1
  <2> QED BY <1>7, <2>2, RecordedAdds DEF On
<1>9. \A u \in Txns : \A k, x : ~(Rec(u, k, x) /\ On(x, a, i) /\ Stands(u, x))
  BY <1>7, RecFacts DEF On
<1> QED BY <1>2, <1>4, <1>6, <1>7, <1>8, <1>9 DEF Wrote, OwnOnly

\* What others have left alone, and t has not deleted.
LEMMA OwnRecordsOnly ==
  ASSUME HeapInv, NEW t \in Txns, NEW p, NEW i, Untouched(t, p, i), ~(SizeAt(p, i) < 0)
  PROVE  OwnOnly(t, p, i)
<1> SUFFICES ASSUME NEW u \in Txns, NEW k, NEW x, Rec(u, k, x), On(x, p, i), Stands(u, x)
             PROVE  u = t /\ x.wtype # "DELETE"
  BY DEF OwnOnly
<1>1. u = t
  BY NotTheirs DEF Rec, On, Stands, Counts, About
<1>2. x.wtype # "DELETE"
  BY RecFacts DEF On
<1> QED BY <1>1, <1>2

\* A call of MarkDelete or UpdateTuple is one of an open transaction.
LEMMA CallIsOpen ==
  ASSUME HeapInv, NEW t \in Txns, Calls(t), state' = state, call' = call
  PROVE  Open(t) /\ OpenStay
BY OpenStays DEF Calls, Open, Undone

LEMMA MarkWrites ==
  ASSUME HeapInv, "refused" \notin lapses', NEW t \in Txns,
         NEW p \in 1 .. Len(heap), NEW i \in 1 .. Len(heap[p].slots), MarkTuple(t, p, i)
  PROVE  \E item : Wrote(t, p, i, item)
<1>1. PICK s : s = SizeAt(p, i)
  OBVIOUS
<1>2. PICK m : m = -s
  OBVIOUS
<1>3. /\ p \in Nat /\ i \in Nat /\ s \in Int /\ s > 0
      /\ Only(p, i) /\ SizeAt(p, i)' = m /\ TupleAt(p, i)' = TupleAt(p, i)
  BY <1>1, <1>2, MarkDoes
<1>4. /\ Recorded(t, p, i, "DELETE", <<>>)
      /\ state' = state /\ Untouched(t, p, i) /\ Open(t) /\ OpenStay
  BY CallIsOpen DEF MarkTuple
<1>5. PICK item \in Item : On(item, p, i) /\ item.wtype = "DELETE" /\ Adds(t, item)
  <2>1. PICK none : none = <<>>
    OBVIOUS
  <2>2. none \in Seq(Bytes \cup {Free}) /\ Recorded(t, p, i, "DELETE", none)
    BY <1>3, <1>4, <2>1
  <2> QED BY <1>3, <1>4, <2>2, RecordedAdds DEF On
<1>6. IsRid(p, i) /\ m \in Int
  BY <1>2, <1>3 DEF IsRid
<1>7. ~(SizeAt(p, i) < 0)
  BY <1>1, <1>3
<1>8. OwnOnly(t, p, i)
  BY <1>4, <1>7, OwnRecordsOnly
<1> QED BY <1>1, <1>2, <1>3, <1>4, <1>5, <1>6, <1>8 DEF Wrote

LEMMA ChangeWrites ==
  ASSUME HeapInv, lapses' = {}, NEW t \in Txns,
         NEW p \in 1 .. Len(heap), NEW i \in 1 .. Len(heap[p].slots), NEW tuple \in Tuples,
         ChangeTuple(t, p, i, tuple)
  PROVE  Rewrote(t, p, i) \/ \E item : Wrote(t, p, i, item)
<1>1. PICK s : s = SizeAt(p, i)
  OBVIOUS
<1>2. PICK n : n = Len(tuple)
  OBVIOUS
<1>3. /\ p \in Nat /\ i \in Nat /\ s \in Int /\ s > 0 /\ n \in Nat \ {0}
      /\ Only(p, i) /\ SizeAt(p, i)' = n /\ TupleAt(p, i)' = tuple
  BY <1>1, <1>2, ChangeDoes
<1>4. n \in Int /\ n > 0 /\ IsRid(p, i) /\ ~(SizeAt(p, i) < 0) /\ SizeAt(p, i) # 0
  BY <1>1, <1>3 DEF IsRid
<1>5. /\ state' = state /\ Untouched(t, p, i) /\ Open(t) /\ OpenStay
  BY CallIsOpen DEF ChangeTuple
<1>6. OwnOnly(t, p, i)
  BY <1>4, <1>5, OwnRecordsOnly
<1>7. PICK old : old = TupleAt(p, i)
  OBVIOUS
<1>8. CASE Recorded(t, p, i, "UPDATE", old)
  <2>1. old \in Seq(Bytes \cup {Free})
    <3>1. old \in Seq(Bytes)
      BY <1>4, <1>7, TupleFacts
    <3> QED BY <3>1
  <2>2. PICK item \in Item :
          On(item, p, i) /\ item.wtype = "UPDATE" /\ item.tuple = old /\ Adds(t, item)
    BY <1>3, <1>8, <2>1, RecordedAdds DEF On
  <2> QED BY <1>1, <1>3, <1>4, <1>5, <1>6, <1>7, <2>2 DEF Wrote
<1>9. CASE /\ UNCHANGED write_set
           /\ Update(t, p, i, tuple, IF Writes(t, p, i) THEN {} ELSE {"unrecorded"})
  <2>1. Writes(t, p, i)
    BY <1>9 DEF Update
  <2>2. Has(t, p, i)
    BY <2>1 DEF Writes, Has, Rec, On
  <2> QED BY <1>1, <1>3, <1>4, <1>5, <1>6, <1>9, <2>2 DEF Rewrote
<1> QED BY <1>7, <1>8, <1>9 DEF ChangeTuple, TupleAt

LEMMA CommitApplies ==
  ASSUME HeapInv, NEW t \in Txns, CommitItem(t)
  PROVE  \E p, i, item : Applied(t, p, i, item)
<1>1. /\ write_set[t] # <<>> /\ Popped(t) /\ state[t] = "COMMITTED" /\ state' = state
      /\ OpenStay
  BY HeapParts, OpenStays DEF CommitItem, Threads, CallsInState
<1>2. PICK item : item = Last(t)
  OBVIOUS
<1>3. Drops(t, item)
  BY <1>1, <1>2, PoppedDrops
<1>4. PICK p : p = item.page
  OBVIOUS
<1>5. PICK i : i = item.slot
  OBVIOUS
<1>6. IsRid(p, i) /\ (item.wtype = "DELETE" => SizeAt(p, i) # 0)
  <2>1. IsRid(p, i) /\ (Last(t).wtype = "DELETE" => SizeAt(p, i) < 0)
    BY <1>1, <1>2, <1>4, <1>5, LastRecord
  <2> QED BY <1>2, <2>1
<1>7. On(item, p, i)
  BY <1>4, <1>5 DEF On
<1>8. CASE item.wtype = "DELETE"
  <2>1. Remove(t, p, i)
    BY <1>2, <1>4, <1>5, <1>8 DEF CommitItem
  <2>2. Only(p, i) /\ SizeAt(p, i)' = 0
    BY <1>6, <1>8, <2>1, RemoveDoes
  <2> QED BY <1>1, <1>3, <1>7, <1>8, <2>2 DEF Applied
<1>9. CASE item.wtype # "DELETE"
  <2>1. heap' = heap
    BY <1>2, <1>9 DEF CommitItem
  <2>2. Only(p, i) /\ SizeAt(p, i)' = SizeAt(p, i) /\ TupleAt(p, i)' = TupleAt(p, i)
    BY <1>6, <2>1, HeapParts, SameHeap
  <2> QED BY <1>1, <1>3, <1>7, <1>9, <2>2 DEF Applied
<1> QED BY <1>8, <1>9

LEMMA AbortUndoes ==
  ASSUME HeapInv, lapses' = {}, NEW t \in Txns, AbortItem(t)
  PROVE  \E p, i, item : Undid(t, p, i, item)
<1>1. /\ write_set[t] # <<>> /\ Popped(t) /\ state[t] = "ABORTED" /\ state' = state
      /\ ~Open(t) /\ OpenStay
  BY HeapParts, OpenStays DEF AbortItem, Threads, CallsInState, Open
<1>2. PICK item : item = Last(t)
  OBVIOUS
<1>3. Drops(t, item)
  BY <1>1, <1>2, PoppedDrops
<1>4. PICK p : p = item.page
  OBVIOUS
<1>5. PICK i : i = item.slot
  OBVIOUS
<1>6. PICK tuple : tuple = item.tuple
  OBVIOUS
<1>7. Stands(t, item) /\ On(item, p, i)
  BY <1>1, <1>4, <1>5 DEF Stands, On
<1>8. PICK s : s = SizeAt(p, i)
  OBVIOUS
<1>9. IsRid(p, i) /\ s # 0
  BY <1>3, <1>4, <1>5, <1>7, <1>8, RecFacts DEF Drops
<1>10. CASE item.wtype = "INSERT"
  <2>1. Remove(t, p, i)
    BY <1>2, <1>4, <1>5, <1>10 DEF AbortItem
  <2>2. Only(p, i) /\ SizeAt(p, i)' = 0
    BY <1>8, <1>9, <2>1, RemoveDoes
  <2> QED BY <1>1, <1>3, <1>7, <1>10, <2>2 DEF Undid
<1>11. CASE item.wtype = "DELETE"
  <2>1. WritePage(t, p, i, RollbackDelete(heap[p], i))
    BY <1>2, <1>4, <1>5, <1>11 DEF AbortItem
  <2>2. PICK m : m = Abs(s)
    OBVIOUS
  <2>3. s \in Int /\ Only(p, i) /\ SizeAt(p, i)' = m /\ TupleAt(p, i)' = TupleAt(p, i)
    BY <1>8, <1>9, <2>1, <2>2, UnmarkDoes
  <2>4. m > 0
    BY <1>9, <2>2, <2>3 DEF Abs
  <2> QED BY <1>1, <1>3, <1>7, <1>8, <1>11, <2>2, <2>3, <2>4 DEF Undid
<1>12. CASE item.wtype = "UPDATE"
  <2>1. ~KeepUpdate(t, p, i, tuple)
    BY DEF KeepUpdate
  <2>2. CanUpdate(heap[p], i, tuple) /\ Update(t, p, i, tuple, {})
    BY <1>2, <1>4, <1>5, <1>6, <1>12, <2>1 DEF AbortItem
  <2>3. PICK n : n = Len(tuple)
    OBVIOUS
  <2>4. /\ n \in Nat \ {0} /\ Only(p, i) /\ SizeAt(p, i)' = n /\ TupleAt(p, i)' = tuple
    BY <1>1, <1>2, <1>4, <1>5, <1>6, <1>12, <2>2, <2>3, UndoDoes
  <2>5. n > 0
    BY <2>4
  <2> QED BY <1>1, <1>3, <1>6, <1>7, <1>12, <2>3, <2>4, <2>5 DEF Undid
<1> QED BY <1>3, <1>10, <1>11, <1>12, RecFacts DEF Drops

\* What a step does to the table and its transactions.
StepKinds ==
  \/ \E t \in Txns : \E p, i :
       Rewrote(t, p, i) \/ \E item : Wrote(t, p, i, item) \/ Undid(t, p, i, item)
                                     \/ Applied(t, p, i, item)
  \/ \E t \in Txns :
       \/ QuietSteps(t)
       \/ \E p \in 1 .. Len(heap), tuple \in Tuples :
            InsertMovesOn(t, p, tuple) \/ InsertFails(t, p, tuple)
  \/ UNCHANGED <<heap, txnVars>>

LEMMA StepIsOne ==
  ASSUME HeapInv, lapses' = {}, Next
  PROVE  StepKinds
<1>1. ASSUME NEW t \in Txns, NEW p \in 1 .. Len(heap), NEW tuple \in Tuples,
             InsertStep(t, p, tuple)
      PROVE  StepKinds
  <2>1. CASE InsertHere(t, p, tuple) \/ InsertExtends(t, p, tuple)
    BY <2>1, InsertWrites DEF StepKinds
  <2>2. CASE InsertMovesOn(t, p, tuple) \/ InsertFails(t, p, tuple)
    BY <2>2 DEF StepKinds
  <2> QED BY <1>1, <2>1, <2>2 DEF InsertStep
<1>2. ASSUME NEW t \in Txns, NEW p \in 1 .. Len(heap), NEW i \in 1 .. Len(heap[p].slots),
             MarkTuple(t, p, i) \/ \E tuple \in Tuples : ChangeTuple(t, p, i, tuple)
      PROVE  StepKinds
  BY <1>2, MarkWrites, ChangeWrites DEF StepKinds
<1>3. ASSUME NEW t \in Txns, CommitItem(t) \/ AbortItem(t)
      PROVE  StepKinds
  BY <1>3, CommitApplies, AbortUndoes DEF StepKinds
<1>4. ASSUME NEW s \in Scans, ScanSteps(s)
      PROVE  StepKinds
  BY <1>4, ScansWriteNothing DEF StepKinds
<1>5. ASSUME NEW t \in Txns, QuietSteps(t)
      PROVE  StepKinds
  BY <1>5 DEF StepKinds
<1>6. ASSUME NEW t \in Txns, WriteStep(t)
      PROVE  StepKinds
  BY <1>1, <1>2, <1>6 DEF WriteStep
<1> QED BY <1>3, <1>4, <1>5, <1>6, NextIs

-----------------------------------------------------------------------------
(* What the table is without what can still be undone. *)

\* The oldest record of t about slot i of page p.
First(t, k, x, p, i) ==
  /\ Rec(t, k, x) /\ On(x, p, i)
  /\ \A l, y : Rec(t, l, y) /\ On(y, p, i) => k <= l

\* c was there before the record x.
Saves(x, p, i, c) ==
  \/ x.wtype = "INSERT" /\ c = NoTuple
  \/ x.wtype = "UPDATE" /\ c = x.tuple
  \/ x.wtype = "DELETE" /\ c = TupleAt(p, i)

\* c is there now.
Sees(p, i, c) ==
  \/ IsRid(p, i) /\ SizeAt(p, i) > 0 /\ c = TupleAt(p, i)
  \/ ~(IsRid(p, i) /\ SizeAt(p, i) > 0) /\ c = NoTuple

\* c is there without what can still be undone.
Was(p, i, c) ==
  \/ (\A t \in Txns : Undone(t) => ~Has(t, p, i)) /\ Sees(p, i, c)
  \/ \E t \in Txns : \E k, x : Undone(t) /\ First(t, k, x, p, i) /\ Saves(x, p, i, c)

\* How that is the abstract state.
Abstracts ==
  \A p, i : <<p, i>> \in Rids =>
    /\ Was(p, i, Committed(<<p, i>>))
    /\ \A c : Was(p, i, c) => Committed(<<p, i>>) = c
    /\ \A c : Sees(p, i, c) <=> Shown(<<p, i>>) = c
    /\ \A t \in Txns : RecordsOf(t, <<p, i>>) # {} <=> Has(t, p, i)

LEMMA AbstractState == HeapInv => Abstracts
<1> SUFFICES ASSUME HeapInv, NEW p, NEW i, <<p, i>> \in Rids
             PROVE  /\ Was(p, i, Committed(<<p, i>>))
                    /\ \A c : Was(p, i, c) => Committed(<<p, i>>) = c
                    /\ \A c : Sees(p, i, c) <=> Shown(<<p, i>>) = c
                    /\ \A t \in Txns : RecordsOf(t, <<p, i>>) # {} <=> Has(t, p, i)
  BY DEF Abstracts
<1>1. PICK r : r = <<p, i>>
  OBVIOUS
<1>2. r \in PageIds \X (1 .. PAGE_SIZE) /\ r[1] = p /\ r[2] = i
  BY <1>1 DEF Rids
<1>3. r \in VisibleRids <=> IsRid(p, i) /\ SizeAt(p, i) > 0
  <2>1. p \in 1 .. MaxHeapPages /\ MaxHeapPages \in Nat /\ Len(heap) \in Nat
    BY <1>2, HeapAssumption, HeapParts DEF PageIds, Types
  <2>2. p <= Len(heap) <=> p \in 1 .. Len(heap)
    BY <2>1
  <2> QED BY <1>2, <2>2 DEF VisibleRids, Visible, IsSlot, IsRid, SizeAt
<1>4. \A c : Sees(p, i, c) <=> Shown(r) = c
  BY <1>2, <1>3 DEF Sees, Shown, TupleAt
<1>5. \A t \in Txns : \A k : k \in RecordsOf(t, r) <=> \E x : Rec(t, k, x) /\ On(x, p, i)
  BY <1>2 DEF RecordsOf, Rec, On
<1>6. \A t \in Txns : RecordsOf(t, r) # {} <=> Has(t, p, i)
  BY <1>5 DEF Has
<1>7. ASSUME NEW t \in Txns, NEW k, NEW x, Undone(t), First(t, k, x, p, i), NEW c, Saves(x, p, i, c)
      PROVE  Committed(r) = c
  <2>1. \A u \in Txns : Undone(u) /\ RecordsOf(u, r) # {} <=> u = t
    <3>1. ASSUME NEW u \in Txns, Undone(u), RecordsOf(u, r) # {}
          PROVE  u = t
      <4>1. PICK l, y : Rec(u, l, y) /\ On(y, p, i)
        BY <1>6, <3>1 DEF Has
      <4> QED BY <1>7, <3>1, <4>1, RecApart DEF First, Stands, Undone
    <3>2. RecordsOf(t, r) # {}
      BY <1>5, <1>7 DEF First
    <3> QED BY <1>7, <3>1, <3>2
  <2>2. (CHOOSE u \in Txns : Undone(u) /\ RecordsOf(u, r) # {}) = t
    BY <2>1
  <2>3. Committed(r) = Before(t, r)
    BY <2>1, <2>2 DEF Committed
  <2>4. PICK l : l = CHOOSE m \in RecordsOf(t, r) : \A n \in RecordsOf(t, r) : m <= n
    OBVIOUS
  <2>5. k \in RecordsOf(t, r) /\ \A n \in RecordsOf(t, r) : k <= n
    BY <1>5, <1>7 DEF First
  <2>6. l \in RecordsOf(t, r) /\ \A n \in RecordsOf(t, r) : l <= n
    BY <2>4, <2>5
  <2>7. l = k
    <3>1. RecordsOf(t, r) \subseteq Nat
      BY <1>5, RecFacts
    <3> QED BY <2>5, <2>6, <3>1
  <2>8. write_set[t][l] = x
    BY <1>7, <2>7 DEF First, Rec
  <2>9. Before(t, r) = CASE x.wtype = "INSERT" -> NoTuple
                         [] x.wtype = "UPDATE" -> x.tuple
                         [] x.wtype = "DELETE" -> BytesAt(heap[r[1]], r[2])
    BY <2>4, <2>8 DEF Before
  <2> QED BY <1>2, <1>7, <2>3, <2>9 DEF Saves, TupleAt
<1>8. ASSUME \A t \in Txns : Undone(t) => ~Has(t, p, i)
      PROVE  Committed(r) = Shown(r)
  BY <1>6, <1>8 DEF Committed
<1>9. \A c : Was(p, i, c) => Committed(r) = c
  BY <1>4, <1>7, <1>8 DEF Was
<1>10. Was(p, i, Committed(r))
  <2>1. CASE \A t \in Txns : Undone(t) => ~Has(t, p, i)
    BY <1>4, <1>8, <2>1 DEF Was
  <2>2. ASSUME NEW t \in Txns, Undone(t), Has(t, p, i)
        PROVE  Was(p, i, Committed(r))
    <3>1. RecordsOf(t, r) # {} /\ RecordsOf(t, r) \in SUBSET Nat
      BY <1>5, <1>6, <2>2, RecFacts
    <3>2. PICK k \in RecordsOf(t, r) : \A l \in RecordsOf(t, r) : k <= l
      BY <3>1, LeastNatural
    <3>3. PICK x : Rec(t, k, x) /\ On(x, p, i)
      BY <1>5, <3>2
    <3>4. First(t, k, x, p, i)
      BY <1>5, <3>2, <3>3 DEF First
    <3>5. PICK c : Saves(x, p, i, c)
      BY <3>3, RecFacts DEF Saves
    <3>6. Was(p, i, c)
      BY <2>2, <3>4, <3>5 DEF Was
    <3> QED BY <1>9, <3>6
  <2> QED BY <2>1, <2>2
<1> QED BY <1>1, <1>4, <1>6, <1>9, <1>10

\* What is neither written nor worked off stays as it was.
LEMMA ElsewhereStays ==
  ASSUME HeapInv, NEW p, NEW i, Only(p, i), state' = state,
         \A u \in Txns : \A k, x : ~On(x, p, i) => (Rec(u, k, x)' <=> Rec(u, k, x)),
         NEW a, NEW b, ~(a = p /\ b = i)
  PROVE  /\ \A c : Was(a, b, c) => Was(a, b, c)'
         /\ \A c : Sees(a, b, c) => Sees(a, b, c)'
         /\ \A u \in Txns : Has(u, a, b)' <=> Has(u, a, b)
<1>1. \A u \in Txns : \A k, x : On(x, a, b) => (Rec(u, k, x)' <=> Rec(u, k, x))
  BY DEF On
<1>2. \A u \in Txns : Has(u, a, b)' <=> Has(u, a, b)
  BY <1>1 DEF Has
<1>3. /\ IsRid(a, b)' <=> IsRid(a, b)
      /\ IsRid(a, b) => SizeAt(a, b)' = SizeAt(a, b)
      /\ IsRid(a, b) /\ SizeAt(a, b) # 0 => TupleAt(a, b)' = TupleAt(a, b)
  BY OnlyElsewhere DEF Only
<1>4. IsRid(a, b) => SizeAt(a, b) \in Int
  BY SlotAt
<1>5. IsRid(a, b) /\ SizeAt(a, b) > 0 => SizeAt(a, b) # 0
  BY <1>4
<1>6. \A c : Sees(a, b, c) => Sees(a, b, c)'
  BY <1>3, <1>5 DEF Sees
<1>7. \A u \in Txns : Undone(u)' <=> Undone(u)
  BY DEF Undone
<1>8. ASSUME NEW u \in Txns, NEW k, NEW x, Undone(u), First(u, k, x, a, b),
             NEW c, Saves(x, a, b, c)
      PROVE  First(u, k, x, a, b)' /\ Saves(x, a, b, c)'
  <2>1. First(u, k, x, a, b)'
    BY <1>1, <1>8 DEF First
  <2>2. IsRid(a, b) /\ SizeAt(a, b) # 0
    BY <1>8, RecFacts DEF First, On, Stands, Undone
  <2> QED BY <1>3, <1>8, <2>1, <2>2 DEF Saves
<1>9. \A c : Was(a, b, c) => Was(a, b, c)'
  BY <1>2, <1>6, <1>7, <1>8 DEF Was
<1> QED BY <1>2, <1>6, <1>9

\* Steps that change the state of a transaction only.
LEMMA SameStays ==
  ASSUME heap' = heap, write_set' = write_set, NEW p, NEW i,
         \A u \in Txns : Has(u, p, i) => (Undone(u)' <=> Undone(u))
  PROVE  \A c : Was(p, i, c) => Was(p, i, c)'
<1>1. \A u \in Txns : \A k, x : Rec(u, k, x)' <=> Rec(u, k, x)
  BY DEF Rec
<1>2. /\ IsRid(p, i)' <=> IsRid(p, i)
      /\ SizeAt(p, i)' = SizeAt(p, i) /\ TupleAt(p, i)' = TupleAt(p, i)
  BY DEF IsRid, SizeAt, TupleAt, BytesAt
<1>3. \A c : Sees(p, i, c)' <=> Sees(p, i, c)
  BY <1>2 DEF Sees
<1>4. \A u \in Txns : Has(u, p, i)' <=> Has(u, p, i)
  BY <1>1 DEF Has
<1>5. ASSUME NEW u \in Txns, NEW k, NEW x, Undone(u), First(u, k, x, p, i),
             NEW c, Saves(x, p, i, c)
      PROVE  Undone(u)' /\ First(u, k, x, p, i)' /\ Saves(x, p, i, c)'
  <2>1. First(u, k, x, p, i)'
    BY <1>1, <1>5 DEF First
  <2>2. Has(u, p, i)
    BY <1>5 DEF Has, First
  <2> QED BY <1>2, <1>5, <2>1, <2>2 DEF Saves
<1> QED BY <1>3, <1>4, <1>5 DEF Was

\* A write does not show without what can be undone.
LEMMA WroteStays ==
  ASSUME HeapInv, NEW t \in Txns, NEW p, NEW i, NEW item, Wrote(t, p, i, item)
  PROVE  \A c : Was(p, i, c) => Was(p, i, c)'
<1>1. /\ Undone(t) /\ state' = state
      /\ Only(p, i) /\ On(item, p, i) /\ Adds(t, item) /\ Undone(t)'
  BY DEF Wrote, Open, Undone
<1>2. PICK n : n = Len(write_set[t]) + 1
  OBVIOUS
<1>3. /\ \A u \in Txns : \A k, x :
           Rec(u, k, x)' <=> Rec(u, k, x) \/ (u = t /\ k = n /\ x = item)
      /\ \A k, x : Rec(t, k, x) => k \in Nat /\ k <= n
      /\ n \in Nat
  <2>1. Len(write_set[t]) \in Nat
    BY HeapParts DEF Types
  <2> QED BY <1>1, <1>2, <2>1 DEF Adds, Rec
<1>4. ASSUME NEW c, \A u \in Txns : Undone(u) => ~Has(u, p, i), Sees(p, i, c)
      PROVE  Was(p, i, c)'
  <2>1. \A k, x : ~(Rec(t, k, x) /\ On(x, p, i))
    BY <1>1, <1>4 DEF Has, Undone
  <2>2. First(t, n, item, p, i)'
    <3>1. \A l, y : Rec(t, l, y)' /\ On(y, p, i) => n <= l
      BY <1>3, <2>1
    <3> QED BY <1>1, <1>3, <3>1 DEF First
  <2>3. Saves(item, p, i, c)'
    <3>1. CASE item.wtype = "INSERT"
      <4>1. ~(IsRid(p, i) /\ SizeAt(p, i) > 0)
        BY <3>1 DEF Wrote
      <4> QED BY <1>4, <3>1, <4>1 DEF Sees, Saves
    <3>2. CASE item.wtype = "UPDATE"
      BY <1>4, <3>2 DEF Wrote, Sees, Saves
    <3>3. CASE item.wtype = "DELETE"
      BY <1>4, <3>3 DEF Wrote, Sees, Saves
    <3> QED BY <3>1, <3>2, <3>3 DEF Wrote
  <2> QED BY <1>1, <2>2, <2>3 DEF Was
<1>5. ASSUME NEW c, NEW u \in Txns, NEW k, NEW x, Undone(u), First(u, k, x, p, i),
             Saves(x, p, i, c)
      PROVE  Was(p, i, c)'
  <2>1. u = t /\ x.wtype # "DELETE"
    BY <1>5 DEF Wrote, OwnOnly, First, Stands, Undone
  <2>2. First(t, k, x, p, i)'
    <3>1. ASSUME NEW l, NEW y, Rec(t, l, y)', On(y, p, i)
          PROVE  k <= l
      <4>1. CASE Rec(t, l, y)
        BY <1>5, <2>1, <3>1, <4>1 DEF First
      <4>2. CASE l = n
        BY <1>3, <1>5, <2>1, <4>2 DEF First
      <4> QED BY <1>3, <3>1, <4>1, <4>2
    <3> QED BY <1>3, <1>5, <2>1, <3>1 DEF First
  <2>3. Saves(x, p, i, c)'
    BY <1>5, <2>1 DEF Saves
  <2> QED BY <1>1, <2>2, <2>3 DEF Was
<1> QED BY <1>4, <1>5 DEF Was

\* Nor does an update without a record of its own: there is an older one.
LEMMA RewroteStays ==
  ASSUME HeapInv, NEW t \in Txns, NEW p, NEW i, Rewrote(t, p, i)
  PROVE  \A c : Was(p, i, c) => Was(p, i, c)'
<1>1. /\ Undone(t) /\ state' = state /\ write_set' = write_set /\ Has(t, p, i)
      /\ OwnOnly(t, p, i)
  BY DEF Rewrote, Open
<1>2. \A u \in Txns : \A k, x : Rec(u, k, x)' <=> Rec(u, k, x)
  BY <1>1 DEF Rec
<1>3. ASSUME NEW c, NEW u \in Txns, NEW k, NEW x, Undone(u), First(u, k, x, p, i),
             Saves(x, p, i, c)
      PROVE  Was(p, i, c)'
  <2>1. x.wtype # "DELETE"
    BY <1>1, <1>3 DEF OwnOnly, First, Stands, Undone
  <2>2. First(u, k, x, p, i)' /\ Undone(u)'
    BY <1>1, <1>2, <1>3 DEF First, Undone
  <2>3. Saves(x, p, i, c)'
    BY <1>3, <2>1 DEF Saves
  <2> QED BY <2>2, <2>3 DEF Was
<1> QED BY <1>1, <1>3 DEF Was

\* To undo a record brings back what it saved.
LEMMA UndidStays ==
  ASSUME HeapInv, NEW t \in Txns, NEW p, NEW i, NEW item, Undid(t, p, i, item)
  PROVE  \A c : Was(p, i, c) => Was(p, i, c)'
<1>1. /\ state[t] = "ABORTED" /\ state' = state
      /\ Only(p, i) /\ On(item, p, i) /\ Drops(t, item) /\ Undone(t)
  BY DEF Undid, Undone
<1>2. PICK n : n = Len(write_set[t])
  OBVIOUS
<1>3. /\ Rec(t, n, item)
      /\ \A u \in Txns : \A k, x : Rec(u, k, x)' <=> Rec(u, k, x) /\ ~(u = t /\ k = n)
      /\ \A k, x : Rec(t, k, x) /\ k # n => k < n
  BY <1>1, <1>2 DEF Drops
<1>4. \A u \in Txns : Undone(u) /\ Has(u, p, i) => u = t
  BY <1>1, <1>3, RecApart DEF Has, Stands, Undone
<1>5. ASSUME NEW c, NEW k, NEW x, First(t, k, x, p, i), Saves(x, p, i, c), k # n
      PROVE  Was(p, i, c)'
  <2>1. First(t, k, x, p, i)'
    BY <1>3, <1>5 DEF First
  <2>2. x.wtype # "DELETE"
    BY <1>1, <1>3, <1>5, RecOrder DEF First
  <2>3. Saves(x, p, i, c)' /\ Undone(t)'
    BY <1>1, <1>5, <2>2 DEF Saves, Undone
  <2> QED BY <2>1, <2>3 DEF Was
<1>6. ASSUME NEW c, First(t, n, item, p, i), Saves(item, p, i, c)
      PROVE  Was(p, i, c)'
  <2>1. ASSUME NEW u \in Txns, Undone(u)', Has(u, p, i)'
        PROVE  FALSE
    <3>1. PICK l, y : Rec(u, l, y)' /\ On(y, p, i)
      BY <2>1 DEF Has
    <3>2. Undone(u) /\ Rec(u, l, y) /\ ~(u = t /\ l = n)
      BY <1>1, <1>3, <2>1, <3>1 DEF Undone
    <3>3. u = t
      BY <1>4, <3>1, <3>2 DEF Has
    <3>4. l < n /\ n <= l
      BY <1>3, <1>6, <3>1, <3>2, <3>3 DEF First
    <3>5. l \in Nat /\ n \in Nat
      BY <1>3, <3>2, RecFacts
    <3> QED BY <3>4, <3>5
  <2>2. Sees(p, i, c)'
    <3>1. CASE item.wtype = "INSERT"
      BY <1>6, <3>1 DEF Undid, Sees, Saves
    <3>2. CASE item.wtype = "UPDATE"
      BY <1>1, <1>6, <3>2 DEF Undid, Sees, Saves, Only
    <3>3. CASE item.wtype = "DELETE"
      BY <1>1, <1>6, <3>3 DEF Undid, Sees, Saves, Only
    <3> QED BY <3>1, <3>2, <3>3 DEF Undid
  <2> QED BY <2>1, <2>2 DEF Was
<1>7. \A k, x : First(t, k, x, p, i) /\ k = n => x = item
  BY <1>3 DEF First, Rec
<1>8. Has(t, p, i)
  BY <1>1, <1>3 DEF Has
<1>9. ASSUME NEW c, NEW u \in Txns, NEW k, NEW x,
             Undone(u), First(u, k, x, p, i), Saves(x, p, i, c)
      PROVE  Was(p, i, c)'
  <2>1. Has(u, p, i)
    BY <1>9 DEF Has, First
  <2>2. u = t
    BY <1>4, <1>9, <2>1
  <2> QED BY <1>5, <1>6, <1>7, <1>9, <2>2
<1> QED BY <1>1, <1>8, <1>9 DEF Was

\* What Commit does about a record does not show: nobody can undo what happened to the slot,
\* and a deleted tuple was not visible any more.
LEMMA AppliedStays ==
  ASSUME HeapInv, NEW t \in Txns, NEW p, NEW i, NEW item, Applied(t, p, i, item)
  PROVE  /\ \A c : Was(p, i, c) => Was(p, i, c)'
         /\ \A c : Sees(p, i, c) => Sees(p, i, c)'
         /\ \A u \in Txns : u # t => (Has(u, p, i)' <=> Has(u, p, i))
<1>1. /\ state[t] = "COMMITTED" /\ state' = state
      /\ Only(p, i) /\ On(item, p, i) /\ Drops(t, item)
  BY DEF Applied
<1>2. PICK n : n = Len(write_set[t])
  OBVIOUS
<1>3. /\ Rec(t, n, item)
      /\ \A u \in Txns : \A k, x : Rec(u, k, x)' <=> Rec(u, k, x) /\ ~(u = t /\ k = n)
  BY <1>1, <1>2 DEF Drops
<1>4. \A u \in Txns : u # t => \A k, x : Rec(u, k, x)' <=> Rec(u, k, x)
  BY <1>3
<1>5. \A u \in Txns : u # t => (Has(u, p, i)' <=> Has(u, p, i))
  BY <1>4 DEF Has
<1>6. \A u \in Txns : (Undone(u)' <=> Undone(u)) /\ (Undone(u) => u # t)
  BY <1>1 DEF Undone
<1>7. IsRid(p, i) /\ IsRid(p, i)'
  BY <1>1, <1>3, RecFacts DEF On, Only
<1>8. item.wtype = "DELETE" => ~(SizeAt(p, i) > 0) /\ ~(SizeAt(p, i)' > 0)
  <2>1. item.wtype = "DELETE" => SizeAt(p, i) < 0 /\ SizeAt(p, i)' = 0
    BY <1>1, <1>3, RecFacts DEF On, Applied
  <2>2. SizeAt(p, i) \in Int
    BY <1>7, SlotAt
  <2> QED BY <2>1, <2>2
<1>9. item.wtype # "DELETE" => SizeAt(p, i)' = SizeAt(p, i) /\ TupleAt(p, i)' = TupleAt(p, i)
  BY DEF Applied
<1>10. \A c : Sees(p, i, c) => Sees(p, i, c)'
  BY <1>7, <1>8, <1>9 DEF Sees
<1>11. ASSUME NEW c, NEW u \in Txns, NEW k, NEW x,
              Undone(u), First(u, k, x, p, i), Saves(x, p, i, c)
       PROVE  Was(p, i, c)'
  <2>1. u # t /\ Undone(u)'
    BY <1>6, <1>11
  <2>2. First(u, k, x, p, i)'
    BY <1>4, <1>11, <2>1 DEF First
  <2>3. item.wtype # "DELETE"
    BY <1>1, <1>3, <1>11, <2>1, RecApart DEF First, Stands, Undone
  <2>4. Saves(x, p, i, c)'
    BY <1>9, <1>11, <2>3 DEF Saves
  <2> QED BY <2>1, <2>2, <2>4 DEF Was
<1>12. \A c : Was(p, i, c) => Was(p, i, c)'
  BY <1>5, <1>6, <1>10, <1>11 DEF Was
<1> QED BY <1>5, <1>10, <1>12

-----------------------------------------------------------------------------
(* The steps of the abstract table. *)

Table == [r \in Rids |-> Committed(r)]

Opened == {t \in Txns : Open(t)}

OwnOf(t, r) == IF Open(t) /\ RecordsOf(t, r) # {} THEN <<Shown(r)>> ELSE <<>>

Own == [t \in Txns |-> [r \in Rids |-> OwnOf(t, r)]]

LEMMA RidIsPair == \A r \in Rids : \E p, i : r = <<p, i>>
BY DEF Rids

LEMMA TableStays ==
  ASSUME HeapInv, HeapInv',
         \A p, i : <<p, i>> \in Rids => \A c : Was(p, i, c) => Was(p, i, c)'
  PROVE  Table' = Table
<1>1. Abstracts'
  BY AbstractState, PTL
<1>2. Abstracts
  BY AbstractState
<1>3. ASSUME NEW r \in Rids
      PROVE  Committed(r)' = Committed(r)
  <2>1. PICK p, i : r = <<p, i>>
    BY RidIsPair
  <2>2. PICK c : c = Committed(r)
    OBVIOUS
  <2>3. Was(p, i, c)
    BY <1>2, <1>3, <2>1, <2>2 DEF Abstracts
  <2>4. Was(p, i, c)'
    BY <1>3, <2>1, <2>3
  <2>5. Committed(r)' = c
    BY <1>1, <1>3, <2>1, <2>4 DEF Abstracts
  <2> QED BY <2>2, <2>5
<1> QED BY <1>3 DEF Table

LEMMA OwnStays ==
  ASSUME HeapInv, HeapInv', NEW t \in Txns, NEW p, NEW i, NEW r \in Rids, r = <<p, i>>,
         Open(t) \/ Open(t)' =>
           /\ Open(t)' <=> Open(t)
           /\ Has(t, p, i)' <=> Has(t, p, i)
           /\ Has(t, p, i) => \A c : Sees(p, i, c) => Sees(p, i, c)'
  PROVE  OwnOf(t, r)' = OwnOf(t, r)
<1>1. Abstracts'
  BY AbstractState, PTL
<1>2. Abstracts
  BY AbstractState
<1>3. /\ RecordsOf(t, r)' # {} <=> Has(t, p, i)'
      /\ \A c : Sees(p, i, c)' <=> Shown(r)' = c
  BY <1>1 DEF Abstracts
<1>4. /\ RecordsOf(t, r) # {} <=> Has(t, p, i)
      /\ \A c : Sees(p, i, c) <=> Shown(r) = c
  BY <1>2 DEF Abstracts
<1>5. CASE Open(t) /\ Has(t, p, i)
  <2>1. Shown(r)' = Shown(r)
    BY <1>3, <1>4, <1>5
  <2> QED BY <1>3, <1>4, <1>5, <2>1 DEF OwnOf
<1>6. CASE ~(Open(t) /\ Has(t, p, i))
  BY <1>3, <1>4, <1>6 DEF OwnOf
<1> QED BY <1>5, <1>6

\* There is an abstract rid for every slot.
RidsCover == \A p, i : IsRid(p, i) => <<p, i>> \in Rids

LEMMA SlotsAreRids == HeapInv /\ ScanInv => RidsCover
<1> SUFFICES ASSUME HeapInv, ScanInv, NEW p, NEW i, IsRid(p, i)
             PROVE  <<p, i>> \in Rids
  BY DEF RidsCover
<1>1. p \in 1 .. Len(heap) /\ i \in 1 .. Len(heap[p].slots) /\ GoodPage(heap[p])
  BY SlotAt
<1>2. Len(heap) \in 1 .. MaxHeapPages /\ MaxHeapPages \in Nat
  BY HeapAssumption DEF ScanInv, Chained
<1>3. PICK n \in Nat : n = Len(heap[p].slots)
  <2>1. heap[p] \in Page
    BY <1>1 DEF GoodPage
  <2> QED BY <2>1, PageFacts
<1>4. HeaderSize + (SlotSize + 1) * n <= PAGE_SIZE
  BY <1>1, <1>3 DEF GoodPage, SlotsBounded
<1>5. i \in Nat /\ 1 <= i /\ i <= n
  BY <1>1, <1>3
<1>6. PICK d \in Nat : n = i + d
  <2>1. n - i \in Nat /\ n = i + (n - i)
    BY <1>5
  <2> QED BY <2>1
<1>7. PICK e \in Nat : e = (SlotSize + 1) * d
  BY PageAssumption
<1>8. PICK f \in Nat : f = SlotSize * i
  BY <1>5, PageAssumption
<1>9. (SlotSize + 1) * n = (SlotSize + 1) * i + e /\ (SlotSize + 1) * i = f + i
  BY <1>5, <1>6, <1>7, <1>8, PageAssumption
<1>10. HeaderSize + (SlotSize + 1) * i <= PAGE_SIZE /\ i <= PAGE_SIZE
  <2>1. HeaderSize + (f + i + e) <= PAGE_SIZE
    BY <1>4, <1>9
  <2>2. HeaderSize + (f + i) <= PAGE_SIZE /\ i <= PAGE_SIZE
    BY <1>5, <2>1, PageAssumption
  <2> QED BY <1>9, <2>2
<1>11. p \in PageIds /\ i \in 1 .. PAGE_SIZE
  BY <1>1, <1>2, <1>5, <1>10, PageAssumption DEF PageIds
<1> QED BY <1>10, <1>11 DEF Rids

Filled(p, i) == SizeAt(p, i)' > 0 /\ TupleAt(p, i)' \in Tuples

Negated(p, i) == IsRid(p, i) /\ SizeAt(p, i) > 0 /\ SizeAt(p, i)' = -SizeAt(p, i)

\* Only t's records about slot i of page p change.
RecsElsewhere(t, p, i) ==
  \A u \in Txns : \A k, x : u # t \/ ~On(x, p, i) => (Rec(u, k, x)' <=> Rec(u, k, x))

\* t writes slot i of page p, which does not show without what can be undone.
Writing(t, p, i) ==
  /\ Open(t) /\ state' = state /\ OpenStay
  /\ Only(p, i) /\ OwnOnly(t, p, i) /\ RecsElsewhere(t, p, i) /\ Has(t, p, i)'
  /\ \A c : Was(p, i, c) => Was(p, i, c)'
  /\ Filled(p, i) \/ Negated(p, i)

LEMMA WroteIsWriting ==
  ASSUME HeapInv, NEW t \in Txns, NEW p, NEW i, NEW item, Wrote(t, p, i, item)
  PROVE  Writing(t, p, i)
<1>1. /\ Open(t) /\ state' = state /\ OpenStay
      /\ Only(p, i) /\ OwnOnly(t, p, i) /\ On(item, p, i) /\ Adds(t, item)
  BY DEF Wrote
<1>2. Has(t, p, i)'
  <2>1. PICK n : n = Len(write_set[t]) + 1
    OBVIOUS
  <2>2. Rec(t, n, item)'
    BY <1>1, <2>1 DEF Adds
  <2> QED BY <1>1, <2>2 DEF Has
<1>3. RecsElsewhere(t, p, i)
  BY <1>1 DEF Adds, RecsElsewhere
<1>4. \A c : Was(p, i, c) => Was(p, i, c)'
  BY WroteStays
<1>5. Filled(p, i) \/ Negated(p, i)
  BY DEF Wrote, Filled, Negated
<1> QED BY <1>1, <1>2, <1>3, <1>4, <1>5 DEF Writing

LEMMA RewroteIsWriting ==
  ASSUME HeapInv, NEW t \in Txns, NEW p, NEW i, Rewrote(t, p, i)
  PROVE  Writing(t, p, i)
<1>1. /\ Open(t) /\ state' = state /\ OpenStay /\ write_set' = write_set
      /\ Only(p, i) /\ OwnOnly(t, p, i) /\ Has(t, p, i)
  BY DEF Rewrote
<1>2. Has(t, p, i)' /\ RecsElsewhere(t, p, i)
  BY <1>1 DEF Has, Rec, RecsElsewhere
<1>3. \A c : Was(p, i, c) => Was(p, i, c)'
  BY RewroteStays
<1>4. Filled(p, i)
  BY DEF Rewrote, Filled
<1> QED BY <1>1, <1>2, <1>3, <1>4 DEF Writing

LEMMA WriteMaps ==
  ASSUME HeapInv, HeapInv', ScanInv', NEW t \in Txns, NEW p, NEW i, Writing(t, p, i)
  PROVE  \E r \in Rids, c \in Tuples \cup {NoTuple} : Promise!Write(t, r, c)
<1>1. /\ Open(t) /\ state' = state /\ Has(t, p, i)' /\ Only(p, i) /\ IsRid(p, i)'
      /\ \A u \in Txns : Open(u)' <=> Open(u)
      /\ \A c : Was(p, i, c) => Was(p, i, c)'
      /\ Filled(p, i) \/ Negated(p, i)
  BY DEF Writing, Only, OpenStay
<1>2. Abstracts
  BY AbstractState
<1>3. Abstracts' /\ RidsCover'
  BY AbstractState, SlotsAreRids, PTL
<1>4. PICK r : r = <<p, i>>
  OBVIOUS
<1>5. r \in Rids
  BY <1>1, <1>3, <1>4 DEF RidsCover, Rids
<1>6. PICK c : Sees(p, i, c)'
  BY DEF Sees
<1>7. \A u \in Txns : u # t /\ Undone(u) => ~Has(u, p, i)
  BY DEF Writing, OwnOnly, Has, Stands, Undone
<1>8. /\ \A u \in Txns : \A k, x : ~On(x, p, i) => (Rec(u, k, x)' <=> Rec(u, k, x))
      /\ \A u \in Txns : u # t => \A k, x : Rec(u, k, x)' <=> Rec(u, k, x)
  BY DEF Writing, RecsElsewhere
<1>9. \A u \in Txns : u # t /\ Open(u) => ~Has(u, p, i) /\ ~Has(u, p, i)'
  BY <1>7, <1>8 DEF Has, Open
<1>10. ASSUME NEW a, NEW b, ~(a = p /\ b = i)
       PROVE  /\ \A d : Was(a, b, d) => Was(a, b, d)'
              /\ \A d : Sees(a, b, d) => Sees(a, b, d)'
              /\ \A u \in Txns : Has(u, a, b)' <=> Has(u, a, b)
  <2>1. Only(p, i) /\ state' = state
    BY <1>1
  <2>2. \A u \in Txns : \A k, x : ~On(x, p, i) => (Rec(u, k, x)' <=> Rec(u, k, x))
    BY <1>8
  <2> QED BY <1>10, <2>1, <2>2, ElsewhereStays
<1>11. Table' = Table
  BY <1>1, <1>10, TableStays
<1>12. ASSUME NEW u \in Txns, NEW q \in Rids, ~(u = t /\ q = r)
       PROVE  OwnOf(u, q)' = OwnOf(u, q)
  <2>1. PICK a, b : q = <<a, b>>
    BY RidIsPair
  <2>2. CASE a = p /\ b = i
    <3>1. u # t
      BY <1>4, <1>12, <2>1, <2>2
    <3>2. Open(u) \/ Open(u)' => ~Has(u, a, b) /\ ~Has(u, a, b)'
      BY <1>1, <1>9, <2>2, <3>1
    <3> QED BY <1>1, <1>12, <2>1, <3>2, OwnStays
  <2>3. CASE ~(a = p /\ b = i)
    BY <1>1, <1>10, <1>12, <2>1, <2>3, OwnStays
  <2> QED BY <2>2, <2>3
<1>13. OwnOf(t, r)' = <<c>>
  <2>1. RecordsOf(t, r)' # {} /\ Shown(r)' = c
    BY <1>1, <1>3, <1>4, <1>5, <1>6 DEF Abstracts
  <2> QED BY <1>1, <2>1 DEF OwnOf
<1>14. Own' = [Own EXCEPT ![t] = [@ EXCEPT ![r] = <<c>>]]
  <2>1. \A u \in Txns, q \in Rids : OwnOf(u, q)' = IF u = t /\ q = r THEN <<c>> ELSE OwnOf(u, q)
    BY <1>12, <1>13
  <2> QED BY <1>5, <2>1 DEF Own
<1>15. \A u \in Opened \ {t} : Own[u][r] = <<>>
  <2>1. \A u \in Opened \ {t} : OwnOf(u, r) = <<>>
    BY <1>2, <1>4, <1>5, <1>9 DEF Abstracts, Opened, OwnOf
  <2> QED BY <1>5, <2>1 DEF Own, Opened
<1>16. IsRid(p, i) => SizeAt(p, i) \in Int
  BY SlotAt
<1>17. Filled(p, i) => c \in Tuples /\ c # NoTuple
  <2>1. \A d \in Tuples : d # NoTuple
    BY HeapAssumption DEF NoTuple
  <2>2. Filled(p, i) => c = TupleAt(p, i)'
    BY <1>1, <1>6 DEF Sees, Filled
  <2> QED BY <2>1, <2>2 DEF Filled
<1>18. Negated(p, i) => c = NoTuple /\ Shown(r) # NoTuple
  <2> SUFFICES ASSUME Negated(p, i) PROVE c = NoTuple /\ Shown(r) # NoTuple
    OBVIOUS
  <2>1. IsRid(p, i) /\ SizeAt(p, i) > 0 /\ SizeAt(p, i)' = -SizeAt(p, i)
    BY DEF Negated
  <2>2. ~(SizeAt(p, i)' > 0) /\ SizeAt(p, i) # 0 /\ Abs(SizeAt(p, i)) # 0
    BY <1>16, <2>1 DEF Abs
  <2>3. Len(TupleAt(p, i)) # 0
    BY <2>1, <2>2, TupleFacts
  <2>4. Sees(p, i, TupleAt(p, i))
    BY <2>1 DEF Sees
  <2>5. Shown(r) = TupleAt(p, i)
    BY <1>2, <1>4, <1>5, <2>4 DEF Abstracts
  <2> QED BY <1>6, <2>2, <2>3, <2>5 DEF Sees, NoTuple
<1>19. (IF Own[t][r] = <<>> THEN Table[r] ELSE Own[t][r][1]) = Shown(r)
  <2>1. Own[t][r] = OwnOf(t, r) /\ Table[r] = Committed(r)
    BY <1>5 DEF Own, Table
  <2>2. RecordsOf(t, r) # {} <=> Has(t, p, i)
    BY <1>2, <1>4, <1>5 DEF Abstracts
  <2>3. CASE Has(t, p, i)
    BY <1>1, <2>1, <2>2, <2>3 DEF OwnOf
  <2>4. CASE ~Has(t, p, i)
    <3>1. \A u \in Txns : Undone(u) => ~Has(u, p, i)
      BY <1>7, <2>4
    <3>2. Sees(p, i, Shown(r))
      BY <1>2, <1>4, <1>5 DEF Abstracts
    <3>3. Was(p, i, Shown(r))
      BY <3>1, <3>2 DEF Was
    <3>4. Committed(r) = Shown(r)
      BY <1>2, <1>4, <1>5, <3>3 DEF Abstracts
    <3> QED BY <1>1, <2>1, <2>2, <2>4, <3>4 DEF OwnOf
  <2> QED BY <2>3, <2>4
<1>20. c \in Tuples \cup {NoTuple}
  BY <1>1, <1>17, <1>18
<1>21. \/ (IF Own[t][r] = <<>> THEN Table[r] ELSE Own[t][r][1]) # NoTuple
       \/ c # NoTuple
  BY <1>1, <1>17, <1>18, <1>19
<1>22. t \in Opened /\ Opened' = Opened
  BY <1>1 DEF Opened
<1>23. Promise!Write(t, r, c)
  BY <1>11, <1>14, <1>15, <1>21, <1>22
     DEF Promise!Write, Promise!Unwritten, Table, Opened, Own, OwnOf
<1> QED BY <1>5, <1>20, <1>23

\* A step that does not show.
Hidden == Table' = Table /\ Opened' = Opened /\ Own' = Own

\* The records about other slots stay.
LEMMA DropsElsewhere ==
  ASSUME NEW t \in Txns, NEW p, NEW i, NEW item, On(item, p, i), Drops(t, item)
  PROVE  \A u \in Txns : \A k, x : ~On(x, p, i) => (Rec(u, k, x)' <=> Rec(u, k, x))
<1>1. PICK n : n = Len(write_set[t])
  OBVIOUS
<1>2. /\ Rec(t, n, item)
      /\ \A u \in Txns : \A k, x : Rec(u, k, x)' <=> Rec(u, k, x) /\ ~(u = t /\ k = n)
  BY <1>1 DEF Drops
<1>3. \A x : Rec(t, n, x) => x = item
  BY <1>2 DEF Rec
<1> QED BY <1>2, <1>3

LEMMA UndidHidden ==
  ASSUME HeapInv, HeapInv', NEW t \in Txns, NEW p, NEW i, NEW item, Undid(t, p, i, item)
  PROVE  Hidden
<1>1. /\ state[t] = "ABORTED" /\ state' = state /\ ~Open(t)
      /\ Only(p, i) /\ On(item, p, i) /\ Drops(t, item)
      /\ \A u \in Txns : Open(u)' <=> Open(u)
  BY DEF Undid, OpenStay
<1>2. \A u \in Txns : \A k, x : ~On(x, p, i) => (Rec(u, k, x)' <=> Rec(u, k, x))
  BY <1>1, DropsElsewhere
<1>3. ASSUME NEW a, NEW b, ~(a = p /\ b = i)
      PROVE  /\ \A c : Was(a, b, c) => Was(a, b, c)'
             /\ \A c : Sees(a, b, c) => Sees(a, b, c)'
             /\ \A u \in Txns : Has(u, a, b)' <=> Has(u, a, b)
  <2>1. Only(p, i) /\ state' = state
    BY <1>1
  <2> QED BY <1>2, <1>3, <2>1, ElsewhereStays
<1>4. Table' = Table
  BY <1>3, UndidStays, TableStays
<1>5. \A u \in Txns : Open(u) => ~Has(u, p, i) /\ ~Has(u, p, i)'
  <2> SUFFICES ASSUME NEW u \in Txns, Open(u)
               PROVE  ~Has(u, p, i) /\ ~Has(u, p, i)'
    OBVIOUS
  <2>1. \A k, x : Rec(u, k, x)' => Rec(u, k, x)
    BY <1>1 DEF Drops
  <2>2. ~Has(u, p, i)
    BY <1>1, RecApart DEF Has, Drops, Stands, Open, Undone
  <2> QED BY <2>1, <2>2 DEF Has
<1>6. ASSUME NEW u \in Txns, NEW q \in Rids
      PROVE  OwnOf(u, q)' = OwnOf(u, q)
  <2>1. PICK a, b : q = <<a, b>>
    BY RidIsPair
  <2>2. CASE a = p /\ b = i
    BY <1>1, <1>5, <2>1, <2>2, OwnStays
  <2>3. CASE ~(a = p /\ b = i)
    BY <1>1, <1>3, <2>1, <2>3, OwnStays
  <2> QED BY <2>2, <2>3
<1> QED BY <1>1, <1>4, <1>6 DEF Hidden, Opened, Own

LEMMA AppliedHidden ==
  ASSUME HeapInv, HeapInv', NEW t \in Txns, NEW p, NEW i, NEW item, Applied(t, p, i, item)
  PROVE  Hidden
<1>1. /\ state[t] = "COMMITTED" /\ state' = state /\ ~Open(t)
      /\ Only(p, i) /\ On(item, p, i) /\ Drops(t, item)
      /\ \A u \in Txns : Open(u)' <=> Open(u)
  BY DEF Applied, OpenStay, Open, Undone
<1>2. \A u \in Txns : \A k, x : ~On(x, p, i) => (Rec(u, k, x)' <=> Rec(u, k, x))
  BY <1>1, DropsElsewhere
<1>3. ASSUME NEW a, NEW b, ~(a = p /\ b = i)
      PROVE  /\ \A c : Was(a, b, c) => Was(a, b, c)'
             /\ \A c : Sees(a, b, c) => Sees(a, b, c)'
             /\ \A u \in Txns : Has(u, a, b)' <=> Has(u, a, b)
  <2>1. Only(p, i) /\ state' = state
    BY <1>1
  <2> QED BY <1>2, <1>3, <2>1, ElsewhereStays
<1>4. /\ \A c : Was(p, i, c) => Was(p, i, c)'
      /\ \A c : Sees(p, i, c) => Sees(p, i, c)'
      /\ \A u \in Txns : u # t => (Has(u, p, i)' <=> Has(u, p, i))
  BY AppliedStays
<1>5. ASSUME NEW a, NEW b
      PROVE  /\ \A c : Was(a, b, c) => Was(a, b, c)'
             /\ \A c : Sees(a, b, c) => Sees(a, b, c)'
             /\ \A u \in Txns : u # t => (Has(u, a, b)' <=> Has(u, a, b))
  BY <1>3, <1>4
<1>6. Table' = Table
  BY <1>5, TableStays
<1>7. ASSUME NEW u \in Txns, NEW q \in Rids
      PROVE  OwnOf(u, q)' = OwnOf(u, q)
  <2>1. PICK a, b : q = <<a, b>>
    BY RidIsPair
  <2>2. Open(u) => u # t
    BY <1>1
  <2> QED BY <1>1, <1>5, <2>1, <2>2, OwnStays
<1> QED BY <1>1, <1>6, <1>7 DEF Hidden, Opened, Own

\* A step that changes neither the pages nor the records, nor who can still write or undo.
LEMMA SameHidden ==
  ASSUME HeapInv, HeapInv', heap' = heap, write_set' = write_set,
         \A u \in Txns : Open(u)' <=> Open(u),
         \A u \in Txns : \A p, i : Has(u, p, i) => (Undone(u)' <=> Undone(u))
  PROVE  Hidden
<1>1. Table' = Table
  BY SameStays, TableStays
<1>2. \A r : Shown(r)' = Shown(r) /\ \A u : RecordsOf(u, r)' = RecordsOf(u, r)
  BY DEF Shown, VisibleRids, RecordsOf
<1>3. \A u \in Txns, r \in Rids : OwnOf(u, r)' = OwnOf(u, r)
  BY <1>2 DEF OwnOf
<1> QED BY <1>1, <1>3 DEF Hidden, Opened, Own


\* So does one that leaves the threads as they were.
LEMMA NothingHidden ==
  ASSUME HeapInv, HeapInv', UNCHANGED <<heap, txnVars>>
  PROVE  Hidden
<1>1. heap' = heap /\ write_set' = write_set /\ state' = state /\ call' = call
  BY DEF txnVars
<1>2. \A u \in Txns : Open(u)' <=> Open(u)
  BY <1>1 DEF Open, Undone
<1>3. \A u \in Txns : Undone(u)' <=> Undone(u)
  BY <1>1 DEF Undone
<1> QED BY <1>1, <1>2, <1>3, SameHidden

\* The records that a step leaves alone.
LEMMA HasStays ==
  ASSUME write_set' = write_set
  PROVE  \A u \in Txns : \A p, i : Has(u, p, i)' <=> Has(u, p, i)
BY DEF Has, Rec

LEMMA BeginMaps ==
  ASSUME HeapInv, HeapInv', IdleEmpty, NEW t \in Txns, Begin(t)
  PROVE  Promise!Begin(t)
<1>1. /\ heap' = heap /\ write_set' = write_set /\ state[t] = "none" /\ call' = call
      /\ state'[t] = "GROWING" /\ \A u \in Txns : u # t => state'[u] = state[u]
  BY HeapParts DEF Begin, Types
<1>2. \A k, x : ~Rec(t, k, x)
  BY <1>1 DEF IdleEmpty, Rec
<1>3. \A p, i : ~Has(t, p, i)
  BY <1>2 DEF Has
<1>4. \A u \in Txns : \A p, i : Has(u, p, i) => (Undone(u)' <=> Undone(u))
  BY <1>1, <1>3 DEF Undone
<1>5. Table' = Table
  BY <1>1, <1>4, SameStays, TableStays
<1>6. ASSUME NEW u \in Txns, NEW r \in Rids
      PROVE  OwnOf(u, r)' = OwnOf(u, r)
  <2>1. Shown(r)' = Shown(r) /\ RecordsOf(u, r)' = RecordsOf(u, r)
    BY <1>1 DEF Shown, VisibleRids, RecordsOf
  <2>2. u = t => RecordsOf(u, r) = {}
    BY <1>2 DEF RecordsOf, Rec
  <2>3. u # t => (Open(u)' <=> Open(u))
    BY <1>1 DEF Open, Undone
  <2> QED BY <2>1, <2>2, <2>3 DEF OwnOf
<1>7. Own' = Own
  BY <1>6 DEF Own
<1>8. ~Open(t) /\ Open(t)' /\ \A u \in Txns : u # t => (Open(u)' <=> Open(u))
  <2>1. call[t] # "Abort"
    BY <1>1, HeapParts DEF Threads, CallsInState
  <2> QED BY <1>1, <2>1 DEF Open, Undone
<1>9. t \notin Opened /\ Opened' = Opened \cup {t}
  BY <1>8 DEF Opened
<1> QED BY <1>5, <1>7, <1>9 DEF Promise!Begin, Table, Opened, Own, OwnOf

\* When the transaction is no more open, what it wrote is not its own any more.
LEMMA OwnEnds ==
  ASSUME heap' = heap, write_set' = write_set, NEW t \in Txns, ~Open(t)',
         \A u \in Txns : u # t => (Open(u)' <=> Open(u))
  PROVE  /\ Opened' = Opened \ {t}
         /\ Own' = [Own EXCEPT ![t] = Promise!Nothing]
<1>1. Opened' = Opened \ {t}
  BY DEF Opened
<1>2. ASSUME NEW u \in Txns, NEW r \in Rids
      PROVE  OwnOf(u, r)' = IF u = t THEN <<>> ELSE OwnOf(u, r)
  <2>1. Shown(r)' = Shown(r) /\ RecordsOf(u, r)' = RecordsOf(u, r)
    BY DEF Shown, VisibleRids, RecordsOf
  <2> QED BY <2>1 DEF OwnOf
<1>3. \A u \in Txns : [r \in Rids |-> OwnOf(u, r)']
                      = IF u = t THEN Promise!Nothing ELSE [r \in Rids |-> OwnOf(u, r)]
  BY <1>2 DEF Promise!Nothing, Promise!Unwritten
<1>4. Own' = [Own EXCEPT ![t] = Promise!Nothing]
  BY <1>3 DEF Own
<1> QED BY <1>1, <1>4

\* What the transaction has written becomes what is there without what can be undone.
LEMMA CommitMaps ==
  ASSUME HeapInv, HeapInv', NEW t \in Txns, Commit(t)
  PROVE  Promise!Commit(t)
<1>1. /\ heap' = heap /\ write_set' = write_set /\ Undone(t) /\ Open(t)
      /\ state'[t] = "COMMITTED" /\ \A u \in Txns : u # t => state'[u] = state[u]
      /\ ~Open(t)' /\ \A u \in Txns : u # t => (Open(u)' <=> Open(u))
  BY HeapParts DEF Commit, Types, Open, Undone
<1>2. Abstracts
  BY AbstractState
<1>3. Abstracts'
  BY AbstractState, PTL
<1>4. ASSUME NEW r \in Rids
      PROVE  Committed(r)' = IF OwnOf(t, r) = <<>> THEN Committed(r) ELSE OwnOf(t, r)[1]
  <2>1. PICK p, i : r = <<p, i>>
    BY RidIsPair
  <2>2. RecordsOf(t, r) # {} <=> Has(t, p, i)
    BY <1>2, <1>4, <2>1 DEF Abstracts
  <2>3. CASE ~Has(t, p, i)
    <3>1. \A u \in Txns : Has(u, p, i) => (Undone(u)' <=> Undone(u))
      BY <1>1, <2>3 DEF Undone
    <3>2. PICK c : c = Committed(r)
      OBVIOUS
    <3>3. Was(p, i, c)
      BY <1>2, <1>4, <2>1, <3>2 DEF Abstracts
    <3>4. Was(p, i, c)'
      BY <1>1, <3>1, <3>3, SameStays
    <3>5. Committed(r)' = c
      BY <1>3, <1>4, <2>1, <3>4 DEF Abstracts
    <3> QED BY <2>2, <2>3, <3>2, <3>5 DEF OwnOf
  <2>4. CASE Has(t, p, i)
    <3>1. \A u \in Txns : u # t /\ Undone(u) => ~Has(u, p, i)
      <4>1. \A x : Stands(t, x)
        BY <1>1 DEF Stands, Undone
      <4>2. \A u \in Txns : Undone(u) => \A x : Stands(u, x)
        BY DEF Stands, Undone
      <4> QED BY <2>4, <4>1, <4>2, RecApart DEF Has
    <3>2. \A u \in Txns : Undone(u)' => ~Has(u, p, i)'
      BY <1>1, <3>1, HasStays DEF Undone
    <3>3. PICK c : c = Shown(r)
      OBVIOUS
    <3>4. Shown(r)' = c
      BY <1>1, <3>3 DEF Shown, VisibleRids
    <3>5. Sees(p, i, c)'
      BY <1>3, <1>4, <2>1, <3>4 DEF Abstracts
    <3>6. Was(p, i, c)'
      BY <3>2, <3>5 DEF Was
    <3>7. Committed(r)' = c
      BY <1>3, <1>4, <2>1, <3>6 DEF Abstracts
    <3>8. OwnOf(t, r) = <<c>>
      BY <1>1, <2>2, <2>4, <3>3 DEF OwnOf
    <3> QED BY <3>7, <3>8
  <2> QED BY <2>3, <2>4
<1>5. Table' = [r \in Rids |-> IF Own[t][r] = <<>> THEN Table[r] ELSE Own[t][r][1]]
  BY <1>4 DEF Table, Own
<1>6. Opened' = Opened \ {t} /\ Own' = [Own EXCEPT ![t] = Promise!Nothing] /\ t \in Opened
  BY <1>1, OwnEnds DEF Opened
<1> QED BY <1>5, <1>6 DEF Promise!Commit, Promise!Unwritten, Table, Opened, Own, OwnOf

\* Abort begins.
LEMMA AbortMaps ==
  ASSUME HeapInv, HeapInv', NEW t \in Txns, heap' = heap, write_set' = write_set,
         Open(t), ~Open(t)', \A u \in Txns : u # t => (Open(u)' <=> Open(u)),
         \A u \in Txns : Undone(u)' <=> Undone(u)
  PROVE  Promise!Abort(t)
<1>1. Table' = Table
  BY SameStays, TableStays
<1>2. Opened' = Opened \ {t} /\ Own' = [Own EXCEPT ![t] = Promise!Nothing] /\ t \in Opened
  BY OwnEnds DEF Opened
<1> QED BY <1>1, <1>2 DEF Promise!Abort, Table, Opened, Own, OwnOf


\* The steps at which nothing is written or worked off.
LEMMA QuietMaps ==
  ASSUME HeapInv, HeapInv', IdleEmpty, NEW t \in Txns, QuietSteps(t)
  PROVE  Promise!Begin(t) \/ Promise!Commit(t) \/ Promise!Abort(t) \/ Hidden
<1>1. CASE Begin(t)
  BY <1>1, BeginMaps
<1>2. CASE Commit(t)
  BY <1>2, CommitMaps
<1>3. CASE Abort(t)
  <2>1. /\ heap' = heap /\ write_set' = write_set /\ call[t] = "none" /\ call'[t] = "Abort"
        /\ state[t] \in {"GROWING", "ABORTED"} /\ state'[t] = "ABORTED"
        /\ \A u \in Txns : u # t => state'[u] = state[u] /\ call'[u] = call[u]
    BY <1>3, HeapParts DEF Abort, Types
  <2>2. Open(t) /\ ~Open(t)' /\ \A u \in Txns : u # t => (Open(u)' <=> Open(u))
    BY <2>1 DEF Open, Undone
  <2>3. \A u \in Txns : Undone(u)' <=> Undone(u)
    BY <2>1 DEF Undone
  <2> QED BY <2>1, <2>2, <2>3, AbortMaps
<1>4. CASE Refused(t)
  <2>1. /\ heap' = heap /\ write_set' = write_set /\ call' = call
        /\ state[t] \in {"GROWING", "ABORTED"} /\ state'[t] = "ABORTED"
        /\ \A u \in Txns : u # t => state'[u] = state[u]
    BY <1>4, HeapParts DEF Refused, Calls, Types
  <2>2. \A u \in Txns : Undone(u)' <=> Undone(u)
    BY <2>1 DEF Undone
  <2>3. \A u \in Txns : Open(u)' <=> Open(u)
    BY <2>1, <2>2 DEF Open
  <2> QED BY <2>1, <2>2, <2>3, SameHidden
<1>5. CASE End(t)
  <2>1. /\ heap' = heap /\ write_set' = write_set /\ write_set[t] = <<>>
        /\ state'[t] = "none" /\ call[t] \in {"Commit", "Abort"}
        /\ \A u \in Txns : u # t => state'[u] = state[u] /\ call'[u] = call[u]
    BY <1>5, HeapParts DEF End, Types
  <2>2. \A p, i : ~Has(t, p, i)
    BY <2>1 DEF Has, Rec
  <2>3. \A u \in Txns : \A p, i : Has(u, p, i) => (Undone(u)' <=> Undone(u))
    BY <2>1, <2>2 DEF Undone
  <2>4. ~Open(t) /\ ~Open(t)'
    BY <2>1, HeapParts DEF Threads, CallsInState, Open, Undone
  <2>5. \A u \in Txns : Open(u)' <=> Open(u)
    BY <2>1, <2>4 DEF Open, Undone
  <2> QED BY <2>1, <2>3, <2>5, SameHidden
<1>6. CASE NoFrame(t) \/ \E p \in 1 .. Len(heap) : EnterLatch(t, p)
  <2>1. UNCHANGED <<heap, txnVars>>
    BY <1>6 DEF NoFrame, EnterLatch
  <2> QED BY <2>1, NothingHidden
<1> QED BY <1>1, <1>2, <1>3, <1>4, <1>5, <1>6 DEF QuietSteps

\* InsertTuple that finds no room neither shows: who was open still is.
LEMMA InsertHidden ==
  ASSUME HeapInv, HeapInv', NEW t \in Txns, NEW p \in 1 .. Len(heap), NEW tuple \in Tuples,
         InsertMovesOn(t, p, tuple) \/ InsertFails(t, p, tuple)
  PROVE  Hidden
<1>1. InsertAt(t, p, tuple)
  BY DEF InsertMovesOn, InsertFails, Full
<1>2. state[t] \in {"GROWING", "ABORTED"}
  BY <1>1, HeapParts, InsertingTuple
<1>3. call[t] # "Abort"
  BY <1>1 DEF InsertAt, Calls
<1>4. /\ heap' = heap /\ write_set' = write_set
      /\ state'[t] \in {"GROWING", "ABORTED"} /\ call'[t] # "Abort"
      /\ \A u \in Txns : u # t => state'[u] = state[u] /\ call'[u] = call[u]
  BY <1>2, HeapParts DEF InsertMovesOn, InsertFails, InsertEnds, Types
<1>5. \A u \in Txns : Undone(u)' <=> Undone(u)
  BY <1>2, <1>4 DEF Undone
<1>6. \A u \in Txns : Open(u)' <=> Open(u)
  BY <1>3, <1>4, <1>5 DEF Open
<1> QED BY <1>4, <1>5, <1>6, SameHidden

\* Every step is one of the abstract table or does not show, unless there is a lapse.
LEMMA StepMaps ==
  ASSUME HeapInv, HeapInv', ScanInv', IdleEmpty, lapses' = {}, Next
  PROVE  Promise!Next \/ Hidden
<1>1. ASSUME NEW t \in Txns, NEW p, NEW i, Writing(t, p, i)
      PROVE  Promise!Next
  <2>1. \E r \in Rids, c \in Tuples \cup {NoTuple} : Promise!Write(t, r, c)
    BY <1>1, WriteMaps
  <2> QED BY <2>1 DEF Promise!Next
<1>2. ASSUME NEW t \in Txns, NEW p, NEW i,
             Rewrote(t, p, i) \/ \E item : Wrote(t, p, i, item)
      PROVE  Promise!Next
  <2>1. Writing(t, p, i)
    BY <1>2, WroteIsWriting, RewroteIsWriting
  <2> QED BY <1>1, <2>1
<1>3. ASSUME NEW t \in Txns, NEW p, NEW i, NEW item,
             Undid(t, p, i, item) \/ Applied(t, p, i, item)
      PROVE  Hidden
  BY <1>3, UndidHidden, AppliedHidden
<1>4. ASSUME NEW t \in Txns, QuietSteps(t)
      PROVE  Promise!Next \/ Hidden
  BY <1>4, QuietMaps DEF Promise!Next
<1>5. ASSUME NEW t \in Txns, NEW p \in 1 .. Len(heap), NEW tuple \in Tuples,
             InsertMovesOn(t, p, tuple) \/ InsertFails(t, p, tuple)
      PROVE  Hidden
  BY <1>5, InsertHidden
<1>6. CASE UNCHANGED <<heap, txnVars>>
  BY <1>6, NothingHidden
<1>7. StepKinds
  BY StepIsOne
<1> QED BY <1>2, <1>3, <1>4, <1>5, <1>6, <1>7 DEF StepKinds

LEMMA InitMaps == Init => Promise!Init
<1> SUFFICES ASSUME Init PROVE Promise!Init
  OBVIOUS
<1>1. \A t \in Txns : state[t] = "none" /\ write_set[t] = <<>>
  BY DEF Init
<1>2. \A t \in Txns : ~Undone(t)
  BY <1>1 DEF Undone
<1>3. heap = <<EmptyPage>> /\ Len(heap) = 1 /\ heap[1] = EmptyPage
  BY DEF Init
<1>4. \A r \in Rids : Shown(r) = NoTuple
  <2>1. \A p, i : ~(p \in 1 .. 1 /\ Visible(heap[p], i))
    <3>1. \A i : ~(i \in 1 .. Len(EmptyPage.slots))
      BY EmptyIsGood
    <3>2. \A p : p \in 1 .. 1 => heap[p] = EmptyPage
      BY <1>3
    <3> QED BY <3>1, <3>2 DEF Visible, IsSlot
  <2>2. \A r \in Rids : r \notin VisibleRids
    BY <1>3, <2>1 DEF VisibleRids, PageIds
  <2> QED BY <2>2 DEF Shown
<1>5. \A r \in Rids : Committed(r) = NoTuple
  BY <1>2, <1>4 DEF Committed
<1>6. Table = [r \in Rids |-> NoTuple]
  BY <1>5 DEF Table
<1>7. Opened = {}
  BY <1>2 DEF Opened, Open
<1>8. Own = [t \in Txns |-> Promise!Nothing]
  <2>1. \A t \in Txns, r \in Rids : OwnOf(t, r) = <<>>
    BY <1>2 DEF OwnOf, Open
  <2> QED BY <2>1 DEF Own, Promise!Nothing, Promise!Unwritten
<1> QED BY <1>6, <1>7, <1>8 DEF Promise!Init, Table, Opened, Own, OwnOf

\* Transactions are atomic, whatever tuples they insert, update and delete, on however many
\* pages, beside however many others, and in an aborted transaction too: what the pages hold
\* without what can still be undone changes when a Commit begins, by all that its transaction
\* wrote, and at no other step.  This holds until the first lapse, of whatever kind; that
\* callers leave alone what another open transaction has written is part of the model.
THEOREM TableImplementsTransactions == Spec => ActsAsTransactionalTable
<1> DEFINE Inv == SafeInv /\ ScanInv /\ IdleEmpty
           Step == [lapses' # {} \/ Promise!Next]_(Promise!vars)
<1>1. Init => ScanInv /\ IdleEmpty
  <2>1. Init => IdleEmpty
    BY DEF Init, IdleEmpty
  <2> QED BY <2>1, ScanInvInit
<1>2. SafeInv /\ ScanInv /\ IdleEmpty /\ [Next]_vars => ScanInv' /\ IdleEmpty'
  <2>1. SafeInv /\ IdleEmpty /\ Next => IdleEmpty'
    BY IdleEmptyNext DEF SafeInv, PagesInv
  <2>2. IdleEmpty /\ UNCHANGED vars => IdleEmpty'
    BY DEF IdleEmpty, vars, txnVars
  <2> QED BY <2>1, <2>2, ScanInvNext
<1>3. Hidden => Step
  BY DEF Hidden, Promise!vars, Table, Opened, Own, OwnOf
<1>4. ASSUME Inv, Inv', [Next]_vars PROVE Step
  <2>1. CASE lapses' # {}
    BY <2>1
  <2>2. CASE lapses' = {}
    <3>1. lapses = {}
      BY <1>4, <2>2, LapsesStay DEF vars, faults
    <3>2. Sound /\ Sound'
      BY <2>2, <3>1 DEF Sound
    <3>3. HeapInv
      BY <1>4, <3>2, SoundIs
    <3>4. HeapInv'
      BY <1>4, <3>2, SoundIs, PTL
    <3>5. ASSUME Next PROVE Step
      <4>1. Promise!Next \/ Hidden
        BY <1>4, <2>2, <3>3, <3>4, <3>5, StepMaps
      <4> QED BY <1>3, <4>1
    <3>6. ASSUME UNCHANGED vars PROVE Step
      <4>1. UNCHANGED <<heap, txnVars>>
        BY <3>6 DEF vars
      <4>2. Hidden
        BY <3>3, <3>4, <4>1, NothingHidden
      <4> QED BY <1>3, <4>2
    <3> QED BY <1>4, <3>5, <3>6
  <2> QED BY <2>1, <2>2
<1> HIDE DEF Step
<1>5. Inv /\ Inv' /\ [Next]_vars => Step
  BY <1>4
<1> USE DEF Step
<1> QED BY <1>1, <1>2, <1>5, SafeAlways, InitMaps, PTL DEF Spec, ActsAsTransactionalTable

-----------------------------------------------------------------------------
(* Who waits for whom. *)

\* A writer that has entered a latch waits for a reader, which does not leave while it does.
Waiting ==
  /\ entered = [t \in Txns |-> entered[t]]
  /\ \A t \in Txns : entered[t] # 0 => Readers(entered[t]) # {}

\* A step that ends no wait but its own, and lets no reader leave whom a writer waits for.
LEMMA WaitsOn ==
  ASSUME Waiting,
         entered' = entered \/ \E t \in Txns : entered' = [entered EXCEPT ![t] = 0],
         \A p : (\E t \in Txns : entered[t] = p) => Readers(p) \subseteq Readers(p)'
  PROVE  Waiting'
<1>1. entered' = [t \in Txns |-> entered'[t]]
  BY DEF Waiting
<1>2. ASSUME NEW t \in Txns, (entered[t] # 0)' PROVE (Readers(entered[t]) # {})'
  <2>. PICK p : p = entered[t]
    OBVIOUS
  <2>1. entered'[t] = p
    BY <1>2 DEF Waiting
  <2>2. Readers(p) # {}
    BY <1>2, <2>1 DEF Waiting
  <2>3. Readers(p) \subseteq Readers(p)'
    OBVIOUS
  <2>4. Readers(p)' # {}
    BY <2>2, <2>3
  <2> QED BY <2>1, <2>4 DEF Readers
<1> QED BY <1>1, <1>2 DEF Waiting

\* Whoever reads the page goes on doing so when the step leaves scans where they are.
LEMMA ReadersStay ==
  ASSUME \A s \in Scans : scan'[s].pc = scan[s].pc /\ scan'[s].page = scan[s].page
  PROVE  \A p : Readers(p)' = Readers(p)
BY DEF Readers

\* Writing a page takes nobody off it.
LEMMA WritePageWaits ==
  ASSUME ScanInv, Waiting, NEW t \in Txns, NEW p, NEW i, NEW page, WritePage(t, p, i, page)
  PROVE  Waiting'
<1>1. ASSUME NEW s \in Scans PROVE scan'[s].pc = scan[s].pc /\ scan'[s].page = scan[s].page
  <2>1. scan[s] \in Iterator
    BY DEF ScanInv
  <2>2. scan'[s] = [scan[s] EXCEPT !.owed = @ \ {<<p, i>>}]
    BY DEF WritePage
  <2> QED BY <2>1, <2>2 DEF Iterator
<1>2. \A q : Readers(q)' = Readers(q)
  BY <1>1, ReadersStay
<1>3. entered' = [entered EXCEPT ![t] = 0]
  BY DEF WritePage
<1> QED BY <1>2, <1>3, WaitsOn

\* So does a step that leaves scans alone, and ends its wait or none.
LEMMA SameScansWait ==
  ASSUME Waiting, scan' = scan,
         entered' = entered \/ \E t \in Txns : entered' = [entered EXCEPT ![t] = 0]
  PROVE  Waiting'
<1>1. \A q : Readers(q)' = Readers(q)
  BY ReadersStay
<1> QED BY <1>1, WaitsOn

\* A scan goes on: it leaves a page only when no writer has entered.
LEMMA ScansWait ==
  ASSUME ScanInv, Waiting, NEW s \in Scans,
         ScanSteps(s)
  PROVE  Waiting'
<1>1. entered' = entered /\ \A u \in Scans \ {s} : scan'[u] = scan[u]
  BY DEF ScanInv, ScanSteps, ScanBegin, ScanFetch, ScanFetchFails, ScanNext, ScanCopy,
         ScanNoFrame, ScanClose, ScanStep
<1>2. scan[s].pc = "copy" => MayRead(scan[s].page) \/ scan' = scan
  BY DEF ScanSteps, ScanBegin, ScanFetch, ScanFetchFails, ScanNext, ScanCopy, ScanNoFrame,
         ScanClose, Goes
<1>3. ASSUME NEW p, NEW t \in Txns, entered[t] = p, NEW u \in Readers(p) PROVE u \in Readers(p)'
  <2>1. u # s \/ scan' = scan
    BY <1>2, <1>3 DEF Readers, MayRead
  <2>2. u \in Scans /\ scan[u].pc = "copy" /\ scan[u].page = p
    BY DEF Readers
  <2> QED BY <1>1, <2>1, <2>2 DEF Readers
<1> QED BY <1>1, <1>3, WaitsOn

\* Every step keeps it.
LEMMA WaitingNext ==
  ASSUME ScanInv, Waiting, [Next]_vars
  PROVE  Waiting'
<1>1. CASE UNCHANGED vars
  BY <1>1, SameScansWait DEF vars
<1>2. ASSUME NEW t \in Txns, NEW p, NEW i, Remove(t, p, i) PROVE Waiting'
  BY <1>2, WritePageWaits, SameScansWait DEF Remove
<1>3. ASSUME NEW t \in Txns, NEW p, NEW i, NEW tuple, NEW lapse, Update(t, p, i, tuple, lapse)
      PROVE  Waiting'
  BY <1>3, WritePageWaits, SameScansWait DEF Update
<1>4. ASSUME NEW t \in Txns, CommitItem(t) PROVE Waiting'
  BY <1>2, <1>4, SameScansWait DEF CommitItem
<1>5. ASSUME NEW t \in Txns, AbortItem(t) PROVE Waiting'
  <2>1. ASSUME NEW p, NEW i, NEW tuple, KeepUpdate(t, p, i, tuple) PROVE Waiting'
    BY <2>1, SameScansWait DEF KeepUpdate
  <2> QED BY <1>2, <1>3, <1>5, <2>1, WritePageWaits DEF AbortItem
<1>6. ASSUME NEW t \in Txns, QuietSteps(t) PROVE Waiting'
  <2>1. CASE scan' = scan /\ entered' = entered
    BY <2>1, SameScansWait
  <2>2. CASE Begin(t) \/ Refused(t) \/ Commit(t) \/ Abort(t) \/ NoFrame(t) \/ End(t)
    BY <2>1, <2>2 DEF Begin, Refused, Commit, Abort, NoFrame, End
  <2>3. ASSUME NEW p \in 1 .. Len(heap), EnterLatch(t, p) PROVE Waiting'
    <3>1. entered' = [entered EXCEPT ![t] = p] /\ scan' = scan /\ Readers(p) # {}
      BY <2>3 DEF EnterLatch
    <3>2. \A q : Readers(q)' = Readers(q)
      BY <3>1, ReadersStay
    <3>3. \A u \in Txns : entered'[u] = entered[u] \/ entered'[u] = p
      BY <3>1 DEF Waiting
    <3> QED BY <3>1, <3>2, <3>3 DEF Waiting
  <2> QED BY <1>6, <2>2, <2>3 DEF QuietSteps
<1>7. ASSUME NEW t \in Txns, WriteStep(t) PROVE Waiting'
  <2>1. PICK p \in 1 .. Len(heap) :
          \/ \E tuple \in Tuples : InsertStep(t, p, tuple)
          \/ \E i \in 1 .. Len(heap[p].slots) :
               MarkTuple(t, p, i) \/ \E tuple \in Tuples : ChangeTuple(t, p, i, tuple)
    BY <1>7 DEF WriteStep
  <2>2. ASSUME NEW tuple \in Tuples, InsertStep(t, p, tuple) PROVE Waiting'
    BY <2>2, WritePageWaits, SameScansWait
       DEF InsertStep, InsertHere, InsertMovesOn, InsertExtends, InsertFails
  <2>3. ASSUME NEW i, MarkTuple(t, p, i) PROVE Waiting'
    BY <2>3, WritePageWaits DEF MarkTuple
  <2>4. ASSUME NEW i, NEW tuple, ChangeTuple(t, p, i, tuple) PROVE Waiting'
    BY <1>3, <2>4 DEF ChangeTuple
  <2> QED BY <2>1, <2>2, <2>3, <2>4
<1>8. CASE Next
  BY <1>4, <1>5, <1>6, <1>7, <1>8, ScansWait, NextIs
<1> QED BY <1>1, <1>8

\* With nobody entered, a scan can go on; with no reader inside either, so can a writer.
LEMMA NobodyWaits ==
  ASSUME ScanInv, Waiting
  PROVE  NoOtherDeadlock
<1>. SUFFICES ASSUME Running, ~NestedLatch,
                     \/ \E t \in Txns : call[t] # "none"
                     \/ \E s \in Scans : scan[s].pc \in {"walk", "copy"}
              PROVE  \/ \E t \in Txns : call[t] # "none" /\ ~Blocked(t)
                     \/ \E s \in Scans : scan[s].pc \in {"walk", "copy"} /\ MayRead(scan[s].page)
  BY DEF NoOtherDeadlock
<1>1. \A t \in Txns : entered[t] = 0
  <2>. SUFFICES ASSUME NEW t \in Txns, entered[t] # 0
                PROVE  NestedLatch
    OBVIOUS
  <2>1. PICK s : s \in Readers(entered[t])
    BY DEF Waiting
  <2>2. s \in Scans /\ scan[s].page = entered[t]
    BY <2>1 DEF Readers
  <2> QED BY <2>1, <2>2 DEF NestedLatch
<1>2. CASE \E s \in Scans : scan[s].pc \in {"walk", "copy"}
  <2>1. PICK s \in Scans : scan[s].pc \in {"walk", "copy"}
    BY <1>2
  <2>2. scan[s].page # 0
    BY <2>1 DEF ScanInv, Owes
  <2> QED BY <1>1, <2>1, <2>2 DEF MayRead
<1>3. CASE ~\E s \in Scans : scan[s].pc \in {"walk", "copy"}
  <2>1. \A p \in PageIds : Readers(p) = {}
    BY <1>3 DEF Readers
  <2>2. \A t \in Txns, p \in PageIds : MayWrite(t, p)
    BY <1>1, <2>1 DEF MayWrite, PageIds
  <2> QED BY <1>3, <2>2 DEF Blocked
<1> QED BY <1>2, <1>3

\* As long as the program runs, threads inside of calls wait for each other for ever only
\* where operator++ latches a page twice and a writer comes in between.
THEOREM TableNoOtherDeadlock == Spec => []NoOtherDeadlock
<1>1. Init => Waiting
  BY DEF Init, Waiting
<1>2. ScanInv /\ Waiting /\ [Next]_vars => Waiting'
  BY WaitingNext
<1>3. ScanInv /\ [Next]_vars => ScanInv'
  BY ScanInvNext
<1> QED BY <1>1, <1>2, <1>3, ScanInvInit, NobodyWaits, PTL DEF Spec

================================================================================
