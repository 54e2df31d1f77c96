-------------------------------- MODULE Storage --------------------------------
(***************************************************************************)
(* Sessions of the storage engine on one database file.  Loading the       *)
(* extension makes a StorageEngine (vtable/virtual_table.cpp,              *)
(* sqlite3_vtable_init); the destructor of a table deletes it              *)
(* (VtabDisconnect), with its buffer pool and its disk manager.  What a    *)
(* later session finds is what is in the file.                             *)
(*                                                                         *)
(* Within a session the buffer pool takes the steps of module BufferPool.  *)
(* A caller of a later session fetches the pages of the earlier ones too:  *)
(* the header page at HEADER_PAGE_ID, and from there a table's first page. *)
(***************************************************************************)
EXTENDS BufferPool

CONSTANTS
  None,          \* no content: not an element of Data
  FlushesFirst   \* whether callers flush the dirty pages before they close

\* page id -> what a page of an earlier session holds by now, or None
VARIABLE kept

InitSession == Init /\ kept = [p \in PageIds |-> None]

\* A step of the pool that is not a caller writing or deleting a page.
PoolCall(h, p) ==
  /\ \/ FetchHit(h, p) \/ FetchMiss(h, p)
     \/ NewPage(h)
     \/ \E dirty \in BOOLEAN : UnpinPage(h, dirty)
     \/ FlushPage(p)
  /\ UNCHANGED kept

\* FetchPage of a page of an earlier session.
FetchKept(h, p) ==
  /\ kept[p] # None
  /\ PinResident(h, p) \/ ReadIn(h, p)
  /\ UNCHANGED kept

Write(h, x) ==
  /\ WriteData(h, x)
  /\ kept' = [kept EXCEPT ![held[h]] = IF @ = None THEN None ELSE x]

Delete(p) ==
  /\ DeleteResident(p) \/ DeleteAbsent(p)
  /\ kept' = [kept EXCEPT ![p] = None]

\* The destructor of the pool frees the frames as they are, the one of the disk manager
\* closes the file.  The next session starts with an empty pool, and a disk manager that
\* opens the file and numbers pages from 0.
Reopen ==
  /\ \A h \in Handles : held[h] = INVALID_PAGE_ID
  /\ FlushesFirst => \A f \in Frames : ~is_dirty[f]
  /\ page_id' = [f \in Frames |-> INVALID_PAGE_ID]
  /\ pin_count' = [f \in Frames |-> 0]
  /\ is_dirty' = [f \in Frames |-> FALSE]
  /\ data' = [f \in Frames |-> Zero]
  /\ page_table' = [p \in PageIds |-> nullptr]
  /\ replacer' = <<>>
  /\ free_list' = [i \in 1 .. PoolSize |-> i - 1]
  /\ disk' = [disk EXCEPT !.ok = TRUE]
  /\ next_page_id' = 0
  /\ deleted' = {}
  /\ kept' = [p \in PageIds |-> IF Live(p) THEN Content(p) ELSE kept[p]]
  /\ UNCHANGED handleVars

NextSession ==
  \/ \E h \in Handles, p \in PageIds : PoolCall(h, p) \/ FetchKept(h, p)
  \/ \E h \in Handles, x \in Data : Write(h, x)
  \/ \E p \in PageIds : Delete(p)
  \/ Reopen

SessionSpec == InitSession /\ [][NextSession]_<<vars, kept>>

-----------------------------------------------------------------------------
(* Properties. *)

\* A later session finds a page as the earlier one left it, and until a caller writes it
\* the page stays so: a session can "reopen an exist table" (virtual_table.h:112).
KeptPagesSurvive ==
  \A p \in PageIds : kept[p] # None => Content(p) = kept[p]
================================================================================
