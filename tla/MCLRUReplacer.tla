----------------------------- MODULE MCLRUReplacer -----------------------------
(* Small instances of the LRU replacer for TLC. *)
EXTENDS LRUReplacer, TLC

Symmetry == Permutations(Values)
================================================================================
