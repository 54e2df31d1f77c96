------------------------------ MODULE LRUReplacer ------------------------------
(***************************************************************************)
(* The LRU replacer as buffer/lru_replacer.cpp builds it: a doubly linked  *)
(* list between two sentinels and a map from each value to its node.       *)
(*                                                                         *)
(* Every operation holds mLatch throughout and is one step.  A value has   *)
(* at most one node that anything points to, so the value stands for its   *)
(* node; the pointers a node keeps after it has been unlinked are in the   *)
(* state, since nothing clears them.                                       *)
(***************************************************************************)
EXTENDS LRUList, FiniteSets

CONSTANTS
  Values,          \* the frames
  mHead, mTail,    \* the sentinels
  nullptr

ASSUME ReplacerAssumption ==
  /\ mHead \notin Values /\ mTail \notin Values /\ nullptr \notin Values
  /\ mHead # mTail /\ nullptr \notin {mHead, mTail}

Nodes == Values \cup {mHead, mTail}

VARIABLES
  ptrNext,    \* node -> the next node towards mTail
  ptrPrev,    \* node -> the next node towards mHead
  mDataMap    \* the values that have a node in the map

vars == <<ptrNext, ptrPrev, mDataMap>>

Init ==
  /\ ptrNext = [n \in Nodes |-> IF n = mHead THEN mTail ELSE nullptr]
  /\ ptrPrev = [n \in Nodes |-> IF n = mTail THEN mHead ELSE nullptr]
  /\ mDataMap = {}

\* Unlinking n: its neighbours point to each other, in this order of assignments.
NextUnlinked(n) == [ptrNext EXCEPT ![ptrPrev[n]] = ptrNext[n]]

PrevUnlinked(n) == [ptrPrev EXCEPT ![ptrNext[n]] = ptrPrev[n]]

\* Mutant: the new first node does not point back to the sentinel.
InsertHalfLinked(v) ==
  LET next == IF v \in mDataMap THEN NextUnlinked(v) ELSE ptrNext
      prev == IF v \in mDataMap THEN PrevUnlinked(v) ELSE ptrPrev
      fir  == next[mHead]
  IN
  /\ ptrNext' = [next EXCEPT ![v] = fir, ![mHead] = v]
  /\ ptrPrev' = [prev EXCEPT ![fir] = v]
  /\ mDataMap' = mDataMap \cup {v}

\* Insert: a node that is in the list is unlinked first; then the node becomes
\* the first.
Insert(v) ==
  LET next == IF v \in mDataMap THEN NextUnlinked(v) ELSE ptrNext
      prev == IF v \in mDataMap THEN PrevUnlinked(v) ELSE ptrPrev
      fir  == next[mHead]
  IN
  /\ ptrNext' = [next EXCEPT ![v] = fir, ![mHead] = v]
  /\ ptrPrev' = [prev EXCEPT ![fir] = v, ![v] = mHead]
  /\ mDataMap' = mDataMap \cup {v}

\* The node Victim takes.
LastNode == ptrPrev[mTail]

\* Mutant: the value inserted last is evicted.
VictimFirst ==
  LET fir == ptrNext[mHead] IN
  /\ mDataMap # {}
  /\ ptrNext' = [ptrNext EXCEPT ![mHead] = ptrNext[fir]]
  /\ ptrPrev' = [ptrPrev EXCEPT ![ptrNext[fir]] = mHead]
  /\ mDataMap' = mDataMap \ {fir}

\* Victim of a list that is not empty; an empty one is left as it is.
Victim ==
  /\ mDataMap # {}
  /\ ptrPrev' = [ptrPrev EXCEPT ![mTail] = ptrPrev[LastNode]]
  /\ ptrNext' = [ptrNext EXCEPT ![ptrPrev[LastNode]] = mTail]
  /\ mDataMap' = mDataMap \ {LastNode}

\* Erase of a value in the map; any other changes nothing.
EraseNode(v) ==
  /\ v \in mDataMap
  /\ ptrNext' = NextUnlinked(v)
  /\ ptrPrev' = PrevUnlinked(v)
  /\ mDataMap' = mDataMap \ {v}

Next == (\E v \in Values : Insert(v) \/ EraseNode(v)) \/ Victim

Spec == Init /\ [][Next]_vars

-----------------------------------------------------------------------------

\* Position i of the list that has the nodes of s between its sentinels.
NodeAt(s, i) == IF i = 0 THEN mHead ELSE IF i = Len(s) + 1 THEN mTail ELSE s[i]

\* The links lead through the nodes of s and back.
LinkedAs(s) ==
  \A i \in 0 .. Len(s) :
    /\ ptrNext[NodeAt(s, i)] = NodeAt(s, i + 1)
    /\ ptrPrev[NodeAt(s, i + 1)] = NodeAt(s, i)

\* The orders the values of the map can be in.
Orders ==
  {s \in [1 .. Cardinality(mDataMap) -> mDataMap] : NoDuplicates(s) /\ Elements(s) = mDataMap}

\* The list as a sequence, first node first.
List == CHOOSE s \in Orders : LinkedAs(s)

\* The map and both directions of the list agree after any sequence of inserts,
\* erases and evictions, although unlinked nodes keep their pointers: the list
\* has exactly the values of the map, once each, between its sentinels, whether it is
\* read forwards or backwards.
ListMatchesMap == \E s \in Orders : LinkedAs(s)

\* Each operation does to the linked list what the operators of LRUList, which the
\* buffer pool's model uses as its replacer, do to a sequence: the first inserted
\* is the first victim, and an insert of a present value moves it to the front.
ImplementsLRUList ==
  [][/\ \A v \in Values :
          /\ Insert(v) => List' = InsertFront(List, v)
          /\ EraseNode(v) => List' = Erase(List, v)
     /\ Victim => List' = WithoutVictim(List) /\ VictimOf(List) \notin mDataMap']_vars
================================================================================
