----------------------------- MODULE MCBufferPool -----------------------------
(* Finite instances of BufferPool. *)
EXTENDS BufferPoolStore, TLC

\* Handles, and the page contents other than Zero, are interchangeable.
Symmetry == Permutations(Handles) \cup Permutations(Data \ {Zero})
===============================================================================
