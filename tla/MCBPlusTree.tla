------------------------------ MODULE MCBPlusTree ------------------------------
(* Small instances of the B+ tree for TLC. *)
EXTENDS BPlusTree

Symmetry == Permutations(Threads)

(* A tree of three levels, as one thread leaves it that inserts 15 down to 1, but 5   *)
(* last, and removes 9, 12 and 15.  A run that starts from it reaches deeper merges    *)
(* than its threads could first build up to.                                           *)
LoadedLeaf(keys, parent, next) ==
  [leaf |-> TRUE, array |-> [i \in 1 .. Len(keys) |-> Pair(keys[i], CHOOSE v \in Values : TRUE)],
   parent |-> parent, next |-> next]

LoadedInner(keys, children, parent) ==
  [leaf |-> FALSE, array |-> [i \in 1 .. Len(keys) |-> Pair(keys[i], children[i])],
   parent |-> parent, next |-> INVALID_PAGE_ID]

LoadedNodes ==
  <<LoadedLeaf(<<1, 2>>, 3, 8),
    LoadedLeaf(<<13, 14>>, 6, INVALID_PAGE_ID),
    LoadedInner(<<0, 3, 7>>, <<1, 8, 5>>, 7),
    LoadedLeaf(<<10, 11>>, 6, 2),
    LoadedLeaf(<<7, 8>>, 3, 4),
    LoadedInner(<<10, 13>>, <<4, 2>>, 7),
    LoadedInner(<<0, 10>>, <<3, 6>>, INVALID_PAGE_ID),
    LoadedLeaf(<<3, 4, 5, 6>>, 3, 5)>>

LoadedInit ==
  /\ root_page_id = 7
  /\ header = 7
  /\ node = LoadedNodes
  /\ NoCalls

LoadedSpec == LoadedInit /\ [][Next]_vars
================================================================================
