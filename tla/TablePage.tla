------------------------------- MODULE TablePage -------------------------------
(***************************************************************************)
(* The slotted page of a table (page/table_page.cpp).                      *)
(*                                                                         *)
(* A page is a value: its operations are called under its latch, so a call *)
(* is part of the caller's step.  It has                                   *)
(*   free   the free space pointer: the tuples lie from there to the end;  *)
(*   slots  per slot the offset and the size of its tuple; a size of 0 is  *)
(*          an empty slot, a negative one a tuple marked as deleted;       *)
(*   data   the bytes, by their offset;                                    *)
(*   next   the page after it in the table, or INVALID_PAGE_ID.            *)
(* Slot numbers start at 1 here.  A tuple is the sequence of its bytes.    *)
(* The slot array lies in front of the free space; its bytes are kept in   *)
(* `slots` and not in `data`, so PageLayout says that the two do not meet. *)
(***************************************************************************)
EXTENDS Integers, Sequences

CONSTANTS
  PAGE_SIZE,
  HeaderSize,   \* 24 bytes in the code
  SlotSize,     \* 8 bytes
  Bytes,        \* what a byte can hold
  Free          \* what nobody reads: the bytes of the free space

ASSUME PageAssumption ==
  /\ PAGE_SIZE \in Nat
  /\ HeaderSize \in Nat
  /\ SlotSize \in Nat \ {0}
  /\ HeaderSize + SlotSize < PAGE_SIZE
  /\ Free \notin Bytes

INVALID_PAGE_ID == 0

Offsets == 0 .. PAGE_SIZE - 1

Slot == [offset : 0 .. PAGE_SIZE, size : -PAGE_SIZE .. PAGE_SIZE]

Data == [Offsets -> Bytes \cup {Free}]

Page == [free : 0 .. PAGE_SIZE, slots : Seq(Slot), data : Data, next : Nat]

\* What a page can be after an update has left a marked tuple's offset behind: the
\* integers can be any.
AnyPage == [free : Int, slots : Seq([offset : Int, size : Int]), data : Data, next : Nat]

\* Init.
EmptyPage ==
  [free |-> PAGE_SIZE, slots |-> <<>>, data |-> [o \in Offsets |-> Free],
   next |-> INVALID_PAGE_ID]

Abs(n) == IF n < 0 THEN -n ELSE n

\* The bytes that slot s stands for, marked or not.
Region(s) == s.offset .. s.offset + Abs(s.size) - 1

\* The byte at o; what lies outside of the page is not known.
ByteAt(data, o) == IF o \in Offsets THEN data[o] ELSE Free

\* memmove of n bytes, and memcpy of a tuple.
Move(data, to, from, n) ==
  [o \in Offsets |-> IF o \in to .. to + n - 1 THEN ByteAt(data, from + o - to) ELSE data[o]]

Put(data, to, tuple) ==
  [o \in Offsets |-> IF o \in to .. to + Len(tuple) - 1 THEN tuple[o - to + 1]
                                                         ELSE data[o]]

\* Below the free space pointer nothing is kept.
Forget(data, free) == [o \in Offsets |-> IF o < free THEN Free ELSE data[o]]

\* The bytes of slot i.
BytesAt(p, i) ==
  [k \in 1 .. Abs(p.slots[i].size) |-> ByteAt(p.data, p.slots[i].offset + k - 1)]

GetFreeSpaceSize(p) == p.free - HeaderSize - SlotSize * Len(p.slots)

IsSlot(p, i) == i \in 1 .. Len(p.slots)

\* What GetTuple, the iterators and UpdateTuple take for a tuple.
Visible(p, i) == IsSlot(p, i) /\ p.slots[i].size > 0

Marked(p, i) == IsSlot(p, i) /\ p.slots[i].size < 0

-----------------------------------------------------------------------------
(* Operations. *)

EmptySlots(p) == {i \in 1 .. Len(p.slots) : p.slots[i].size = 0}

\* The slot InsertTuple takes: the first empty one, or a new one.
SlotFor(p) ==
  IF EmptySlots(p) = {} THEN Len(p.slots) + 1
  ELSE CHOOSE i \in EmptySlots(p) : \A j \in EmptySlots(p) : i <= j

\* Mutant: the room for the new slot is forgotten.
FitsWithoutSlot(p, tuple) == GetFreeSpaceSize(p) >= Len(tuple)

\* InsertTuple returns true.
Fits(p, tuple) ==
  /\ GetFreeSpaceSize(p) >= Len(tuple)
  /\ EmptySlots(p) = {} => GetFreeSpaceSize(p) >= Len(tuple) + SlotSize

InsertTuple(p, tuple) ==
  LET free == p.free - Len(tuple)
      slot == [offset |-> free, size |-> Len(tuple)]
  IN  [p EXCEPT !.free  = free,
                !.slots = IF EmptySlots(p) = {} THEN Append(@, slot)
                          ELSE [@ EXCEPT ![SlotFor(p)] = slot],
                !.data  = Put(@, free, tuple)]

\* MarkDelete of a slot that exists and is not marked; it returns false for
\* any other.  An empty slot stays empty, and true is returned.
MarkDelete(p, i) == [p EXCEPT !.slots[i].size = -@]

\* RollbackDelete makes a marked tuple visible again.
RollbackDelete(p, i) == [p EXCEPT !.slots[i].size = Abs(@)]

\* UpdateTuple returns true.
CanUpdate(p, i, tuple) ==
  /\ Visible(p, i)
  /\ GetFreeSpaceSize(p) >= Len(tuple) - p.slots[i].size

\* The assertion of UpdateTuple and ApplyDelete about slot i.
AboveFree(p, i) == p.slots[i].offset >= p.free

\* An update of slot i moves no marked tuple without its offset: all of them lie behind
\* it, or nothing moves.
MovesNoMarked(p, i, tuple) ==
  \/ Len(tuple) = p.slots[i].size
  \/ \A j \in 1 .. Len(p.slots) : Marked(p, j) => p.slots[i].offset < p.slots[j].offset

\* The slots after UpdateTuple: the tuples up to and including the updated one
\* move by the difference of its sizes - the visible ones; a marked one keeps its
\* offset although its bytes move too.
SlotsAfterUpdate(p, i, tuple) ==
  [j \in 1 .. Len(p.slots) |->
     LET s == p.slots[j]
         shift == p.slots[i].size - Len(tuple)
     IN  [offset |-> IF s.size > 0 /\ s.offset < p.slots[i].offset + p.slots[i].size
                     THEN s.offset + shift ELSE s.offset,
          size |-> IF j = i THEN Len(tuple) ELSE s.size]]

UpdateTuple(p, i, tuple) ==
  LET s == p.slots[i]
      shift == s.size - Len(tuple)
      moved == Move(p.data, p.free + shift, p.free, s.offset - p.free)
  IN  [p EXCEPT !.free  = p.free + shift,
                !.slots = SlotsAfterUpdate(p, i, tuple),
                !.data  = Forget(Put(moved, s.offset + shift, tuple), p.free + shift)]

\* The assertions of ApplyDelete.
CanApplyDelete(p, i) == IsSlot(p, i) /\ AboveFree(p, i)

\* Mutant: marked tuples are not given new offsets.
VisibleShifted(p, i) ==
  [j \in 1 .. Len(p.slots) |->
     LET s == p.slots[j]
     IN  IF j = i THEN [offset |-> 0, size |-> 0]
         ELSE IF s.size > 0 /\ s.offset < p.slots[i].offset
         THEN [s EXCEPT !.offset = @ + Abs(p.slots[i].size)]
         ELSE s]

\* The slots after ApplyDelete: slot i is empty, and the tuples in front of it,
\* marked or not, have moved over its bytes.
SlotsAfterDelete(p, i) ==
  [j \in 1 .. Len(p.slots) |->
     LET s == p.slots[j]
     IN  IF j = i THEN [offset |-> 0, size |-> 0]
         ELSE IF s.size # 0 /\ s.offset < p.slots[i].offset
         THEN [s EXCEPT !.offset = @ + Abs(p.slots[i].size)]
         ELSE s]

\* Mutant: the mark stays on the size by which the free space grows.
FreesMarkedSize(p, i) ==
  [p EXCEPT !.free  = @ + p.slots[i].size,
            !.slots = SlotsAfterDelete(p, i)]

ApplyDelete(p, i) ==
  LET s == p.slots[i]
      n == Abs(s.size)
  IN  [p EXCEPT !.free  = p.free + n,
                !.slots = SlotsAfterDelete(p, i),
                !.data  = Forget(Move(p.data, p.free + n, p.free, s.offset - p.free),
                                 p.free + n)]

VisibleSlots(p) == {i \in 1 .. Len(p.slots) : p.slots[i].size > 0}

\* GetNextTupleRid after slot i, and GetFirstTupleRid for i = 0; 0 if there is none.
NextSlot(p, i) ==
  LET later == {j \in VisibleSlots(p) : j > i}
  IN  IF later = {} THEN 0 ELSE CHOOSE j \in later : \A k \in later : j <= k

-----------------------------------------------------------------------------
(* What makes a page well formed. *)

\* The tuples, marked ones included, tile the bytes from the free space pointer
\* to the end: none reaches into another or into the free space, and no byte is
\* lost between them.
PageLayout(p) ==
  /\ HeaderSize + SlotSize * Len(p.slots) <= p.free
  /\ p.free <= PAGE_SIZE
  /\ \A i \in 1 .. Len(p.slots) :
       p.slots[i].size # 0 =>
         p.free <= p.slots[i].offset /\ p.slots[i].offset + Abs(p.slots[i].size) <= PAGE_SIZE
  /\ \A i, j \in 1 .. Len(p.slots) :
       i # j => Region(p.slots[i]) \cap Region(p.slots[j]) = {}
  /\ \A o \in p.free .. PAGE_SIZE - 1 :
       \E i \in 1 .. Len(p.slots) : o \in Region(p.slots[i])
================================================================================
