---------------------------- MODULE MCExtendibleHash ----------------------------
(* Small instances of the hash table for TLC. *)
EXTENDS ExtendibleHash, TLC

\* Bound: Find looks for 3 only, the key that every split moves.
FindsOneKey ==
  \A t \in Threads : pc[t] # "idle" /\ call[t].op = "Find" => call[t].key = 3

Symmetry == Permutations(Threads)
================================================================================
