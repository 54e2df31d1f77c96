------------------------------- MODULE MCRWMutex -------------------------------
(* Small instances of the readers-writer lock for TLC. *)
EXTENDS RWMutex, TLC

Symmetry == Permutations(Threads)
================================================================================
