------------------------------- MODULE PageStore -------------------------------
(***************************************************************************)
(* What the buffer pool promises its callers: a store of pages, each with  *)
(* a content, that behaves as if every page were always in memory.  Frames,*)
(* eviction, the replacer and the disk do not appear.                      *)
(***************************************************************************)
EXTENDS Integers

CONSTANTS
  MaxPages,   \* bound on the page ids handed out
  Data,       \* the contents a page can have
  Zero,       \* the content of a new page
  Handles     \* the page pointers callers can hold at one time

None == -1    \* a handle that holds no page, and the content of no page's id

PageIds == 0 .. MaxPages - 1

VARIABLES
  store,      \* page id -> its content; only the ids of existing pages
  next,       \* the next page id to hand out
  held        \* handle -> the page it pins, or None

vars == <<store, next, held>>

Init ==
  /\ store = [p \in {} |-> Zero]
  /\ next = 0
  /\ held = [h \in Handles |-> None]

New(h) ==
  /\ next < MaxPages
  /\ held[h] = None
  /\ store' = [p \in DOMAIN store \cup {next} |-> IF p = next THEN Zero ELSE store[p]]
  /\ held' = [held EXCEPT ![h] = next]
  /\ next' = next + 1

Fetch(h, p) ==
  /\ p \in DOMAIN store
  /\ held[h] = None
  /\ held' = [held EXCEPT ![h] = p]
  /\ UNCHANGED <<store, next>>

Write(h, x) ==
  /\ held[h] \in DOMAIN store
  /\ store' = [store EXCEPT ![held[h]] = x]
  /\ UNCHANGED <<next, held>>

Unpin(h) ==
  /\ held[h] # None
  /\ held' = [held EXCEPT ![h] = None]
  /\ UNCHANGED <<store, next>>

\* A page that somebody holds cannot be deleted.
Delete(p) ==
  /\ p \in DOMAIN store
  /\ \A h \in Handles : held[h] # p
  /\ store' = [q \in DOMAIN store \ {p} |-> store[q]]
  /\ UNCHANGED <<next, held>>

Next ==
  \/ \E h \in Handles :
       \/ New(h)
       \/ \E p \in PageIds : Fetch(h, p)
       \/ \E x \in Data : Write(h, x)
       \/ Unpin(h)
  \/ \E p \in PageIds : Delete(p)

Spec == Init /\ [][Next]_vars
================================================================================
