---------------------------- MODULE MCVirtualTable ----------------------------
(* Small instances of VirtualTable. *)
EXTENDS VirtualTable, TLC

Symmetry == Permutations(Keys) \cup Permutations(Rids)
================================================================================
