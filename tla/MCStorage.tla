------------------------------- MODULE MCStorage -------------------------------
(* Small instances of the sessions for TLC. *)
EXTENDS Storage, TLC

Symmetry == Permutations(Handles) \cup Permutations(Data \ {Zero})
================================================================================
