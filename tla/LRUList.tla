------------------------------- MODULE LRUList -------------------------------
(***************************************************************************)
(* What the LRU replacer (buffer/lru_replacer.cpp) does, as operators on   *)
(* the sequence of its values, the most recently inserted first.  Module   *)
(* LRUReplacer shows that its linked list and map compute them.            *)
(***************************************************************************)
EXTENDS Integers, Sequences

Elements(s) == {s[i] : i \in 1 .. Len(s)}

NoDuplicates(s) == \A i, j \in 1 .. Len(s) : s[i] = s[j] => i = j

\* Mutant: a pinned frame stays in the replacer.
EraseNothing(s, f) == s

\* LRUReplacer::Erase, of a value that is in the list at most once.
Erase(s, f) ==
  IF f \in Elements(s)
  THEN LET k == CHOOSE i \in 1 .. Len(s) : s[i] = f
       IN  [i \in 1 .. Len(s) - 1 |-> IF i < k THEN s[i] ELSE s[i + 1]]
  ELSE s

\* LRUReplacer::Insert moves a value to the front, new or not.
InsertFront(s, f) == <<f>> \o Erase(s, f)

\* LRUReplacer::Victim returns the value inserted longest ago and removes it.
VictimOf(s) == s[Len(s)]
WithoutVictim(s) == SubSeq(s, 1, Len(s) - 1)
==============================================================================
