------------------------------ MODULE MCTableHeap ------------------------------
(* Small instances of TableHeap. *)
EXTENDS TableHeap, TLC

CONSTANTS Vals, MaxSize

\* The k-th byte of a tuple that stands for v.
MCBytes == Vals \X (1 .. MaxSize)

\* Tuples of every size.
MCTuples == {[k \in 1 .. n |-> <<v, k>>] : v \in Vals, n \in 1 .. MaxSize}

SlotCount == Cardinality({r \in PageIds \X (1 .. PAGE_SIZE) :
                            r[1] <= Len(heap) /\ IsSlot(heap[r[1]], r[2])})

\* Bounds: three slots with two records or two with three, and fewer after a lapse.  A
\* page is not followed after an update has moved a marked tuple, where only the types
\* are claimed.
Few ==
  /\ SlotCount + RecordCount + Cardinality(lapses) <= 5
  /\ "moved" \notin lapses

\* Bound: pages are not followed after any lapse.
Unharmed == lapses = {}

Symmetry == Permutations(Vals) \cup Permutations(Txns)
================================================================================
