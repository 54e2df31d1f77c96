-------------------------------- MODULE KeyMap --------------------------------
(***************************************************************************)
(* What a hash table promises: a partial function from keys to values, on  *)
(* which every operation acts at one instant.  Inserting a key that is     *)
(* present changes nothing.                                                *)
(***************************************************************************)
CONSTANTS Threads, Keys, Values, NotFound

VARIABLES
  map,     \* the present keys and their values
  answer   \* thread -> what its last Find or Remove returned

vars == <<map, answer>>

Init ==
  /\ map = [k \in {} |-> NotFound]
  /\ answer = [t \in Threads |-> NotFound]

Insert(k, v) ==
  /\ map' = [j \in DOMAIN map \cup {k} |-> IF j \in DOMAIN map THEN map[j] ELSE v]
  /\ UNCHANGED answer

Find(t, k) ==
  /\ answer' = [answer EXCEPT ![t] = IF k \in DOMAIN map THEN map[k] ELSE NotFound]
  /\ UNCHANGED map

Remove(t, k) ==
  /\ answer' = [answer EXCEPT ![t] = IF k \in DOMAIN map THEN "removed" ELSE NotFound]
  /\ map' = [j \in DOMAIN map \ {k} |-> map[j]]

Next ==
  \E k \in Keys :
    \/ \E v \in Values : Insert(k, v)
    \/ \E t \in Threads : Find(t, k) \/ Remove(t, k)

Spec == Init /\ [][Next]_vars
================================================================================
