------------------------------- MODULE IndexMap -------------------------------
(***************************************************************************)
(* What an index promises to its threads: each call acts on one map at one *)
(* instant between its invocation and its return.                          *)
(***************************************************************************)
CONSTANTS
  Threads,
  Calls,      \* the calls: records [op, key, value]
  NoCall,     \* the call of a thread that makes none
  Pending,    \* the answer of a call that has not acted yet
  NotFound    \* the answer of a Find of an absent key

VARIABLES
  map,     \* the present keys and their values
  call,    \* thread -> the call it is making, or NoCall
  answer   \* thread -> the answer of its current call, once it has acted

vars == <<map, call, answer>>

Init ==
  /\ map = [k \in {} |-> NotFound]
  /\ call = [t \in Threads |-> NoCall]
  /\ answer = [t \in Threads |-> Pending]

Invoke(t, c) ==
  /\ call[t] = NoCall
  /\ call' = [call EXCEPT ![t] = c]
  /\ UNCHANGED <<map, answer>>

\* The call of t acts, and its answer is a.
Act(t, op, a) ==
  /\ call[t].op = op
  /\ answer[t] = Pending
  /\ answer' = [answer EXCEPT ![t] = a]
  /\ UNCHANGED call

\* A key that is present keeps its value.
Insert(t, k) ==
  IF k \in DOMAIN map
  THEN Act(t, "Insert", "duplicate") /\ UNCHANGED map
  ELSE /\ Act(t, "Insert", "inserted")
       /\ map' = [j \in DOMAIN map \cup {k} |-> IF j = k THEN call[t].value ELSE map[j]]

Find(t, k) ==
  /\ Act(t, "Find", IF k \in DOMAIN map THEN map[k] ELSE NotFound)
  /\ UNCHANGED map

Remove(t, k) ==
  /\ Act(t, "Remove", "removed")
  /\ map' = [j \in DOMAIN map \ {k} |-> map[j]]

Return(t) ==
  /\ call[t] # NoCall
  /\ answer[t] # Pending
  /\ call' = [call EXCEPT ![t] = NoCall]
  /\ answer' = [answer EXCEPT ![t] = Pending]
  /\ UNCHANGED map

Next ==
  \E t \in Threads :
    \/ \E c \in Calls : Invoke(t, c)
    \/ LET k == call[t].key IN Insert(t, k) \/ Find(t, k) \/ Remove(t, k)
    \/ Return(t)

Spec == Init /\ [][Next]_vars
================================================================================
