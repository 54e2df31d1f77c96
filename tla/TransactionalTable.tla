-------------------------- MODULE TransactionalTable --------------------------
(***************************************************************************)
(* What a table and its transactions promise to callers that leave each    *)
(* other's tuples alone: a transaction's writes become part of the table   *)
(* at one instant, its commit, or never.                                   *)
(***************************************************************************)
CONSTANTS
  Txns,
  Rids,
  Contents,   \* what a rid can hold
  NoTuple     \* no tuple

VARIABLES
  table,    \* rid -> what transactions that have committed left there
  open,     \* the transactions that can still commit
  own       \* transaction -> rid -> what it has written there, or Unwritten

vars == <<table, open, own>>

Unwritten == <<>>

Nothing == [r \in Rids |-> Unwritten]

Init ==
  /\ table = [r \in Rids |-> NoTuple]
  /\ open = {}
  /\ own = [t \in Txns |-> Nothing]

Begin(t) ==
  /\ t \notin open
  /\ open' = open \cup {t}
  /\ UNCHANGED <<table, own>>

\* An insert, update or delete, of a rid that no other open transaction has written.
\* An insert takes a rid without a tuple, the others one with a tuple.
Write(t, r, c) ==
  /\ t \in open
  /\ \A u \in open \ {t} : own[u][r] = Unwritten
  /\ LET now == IF own[t][r] = Unwritten THEN table[r] ELSE own[t][r][1]
     IN  now # NoTuple \/ c # NoTuple
  /\ own' = [own EXCEPT ![t][r] = <<c>>]
  /\ UNCHANGED <<table, open>>

Commit(t) ==
  /\ t \in open
  /\ table' = [r \in Rids |-> IF own[t][r] = Unwritten THEN table[r] ELSE own[t][r][1]]
  /\ open' = open \ {t}
  /\ own' = [own EXCEPT ![t] = Nothing]

Abort(t) ==
  /\ t \in open
  /\ open' = open \ {t}
  /\ own' = [own EXCEPT ![t] = Nothing]
  /\ UNCHANGED table

Next ==
  \E t \in Txns :
    \/ Begin(t) \/ Commit(t) \/ Abort(t)
    \/ \E r \in Rids, c \in Contents \cup {NoTuple} : Write(t, r, c)

Spec == Init /\ [][Next]_vars
================================================================================
