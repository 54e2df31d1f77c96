------------------------------ MODULE BufferPool ------------------------------
(***************************************************************************)
(* The buffer pool (buffer/buffer_pool_manager.cpp) with its page table,   *)
(* LRU replacer, free list and disk, and the callers that pin pages in it. *)
(*                                                                         *)
(* Every public operation holds latch_ from its first line to its return,  *)
(* so each is one step.  What happens between two operations - a caller    *)
(* writing through the Page pointer it was given, other callers fetching,  *)
(* evicting, flushing and deleting meanwhile - is the interleaving.        *)
(*                                                                         *)
(* A caller's Page pointer with its pin is a handle: the page it believes  *)
(* it holds, the frame it points to, and whether it still owes the pool an *)
(* unpin with is_dirty = true (it has written, or the page is one it got   *)
(* from NewPage: every caller in the repository unpins those dirty).       *)
(*                                                                         *)
(* A call that returns nullptr or false changes nothing and is a           *)
(* stuttering step.                                                        *)
(***************************************************************************)
EXTENDS DiskManager, LRUList, FiniteSets

CONSTANTS
  PoolSize,       \* pool_size_
  Handles,        \* the Page pointers that callers can hold at one time
  MayUnpinNewClean  \* whether a caller may drop an unwritten new page clean

ASSUME PoolAssumption ==
  /\ PoolSize \in Nat \ {0}
  /\ IsFiniteSet(Handles)
  /\ MayUnpinNewClean \in BOOLEAN

Frames == 0 .. PoolSize - 1     \* indices into pages_
nullptr == -1

VARIABLES
  page_id,       \* Page::page_id_ of each frame
  pin_count,     \* Page::pin_count_
  is_dirty,      \* Page::is_dirty_
  data,          \* Page::data_
  page_table,    \* page id -> frame, or nullptr
  replacer,      \* the LRU list, most recently inserted first
  free_list,     \* the free frames, next one first
  disk,          \* the database file
  next_page_id,  \* DiskManager::next_page_id_
  deleted,       \* history: the pages callers have deleted
  held,          \* handle -> the page its owner pinned
  ptr,           \* handle -> the frame it points to
  owes           \* handle -> it must be unpinned dirty

poolVars == <<page_id, pin_count, is_dirty, data, page_table, replacer, free_list>>
handleVars == <<held, ptr, owes>>
vars == <<poolVars, disk, next_page_id, deleted, handleVars>>

TypeOK ==
  /\ page_id \in [Frames -> PageIds \cup {INVALID_PAGE_ID}]
  /\ pin_count \in [Frames -> Nat]
  /\ is_dirty \in [Frames -> BOOLEAN]
  /\ data \in [Frames -> Data]
  /\ page_table \in [PageIds -> Frames \cup {nullptr}]
  /\ replacer \in Seq(Frames)
  /\ free_list \in Seq(Frames)
  /\ disk \in Disk
  /\ next_page_id \in 0 .. MaxPages
  /\ deleted \in SUBSET (0 .. next_page_id - 1)
  /\ held \in [Handles -> PageIds \cup {INVALID_PAGE_ID}]
  /\ ptr \in [Handles -> Frames \cup {nullptr}]
  /\ owes \in [Handles -> BOOLEAN]

Init ==
  /\ page_id = [f \in Frames |-> INVALID_PAGE_ID]
  /\ pin_count = [f \in Frames |-> 0]
  /\ is_dirty = [f \in Frames |-> FALSE]
  /\ data = [f \in Frames |-> Zero]
  /\ page_table = [p \in PageIds |-> nullptr]
  /\ replacer = <<>>
  /\ free_list = [i \in 1 .. PoolSize |-> i - 1]
  /\ disk = EmptyDisk
  /\ next_page_id = 0
  /\ deleted = {}
  /\ held = [h \in Handles |-> INVALID_PAGE_ID]
  /\ ptr = [h \in Handles |-> nullptr]
  /\ owes = [h \in Handles |-> FALSE]

-----------------------------------------------------------------------------
(* Helpers. *)

\* The page table is an ExtendibleHash: Insert does not overwrite, and Remove of
\* INVALID_PAGE_ID, the id of a free frame, finds nothing.
TableInsert(t, p, f) == IF t[p] = nullptr THEN [t EXCEPT ![p] = f] ELSE t
\* Mutant: the entry of the page that is evicted or deleted stays.
RemoveNothing(t, p) == t

TableRemove(t, p) == [q \in PageIds |-> IF q = p THEN nullptr ELSE t[q]]

\* The frame GetVictimPage returns and what it removes it from.  There is none,
\* and the caller returns nullptr, when both lists are empty: replacer_->Size()
\* is constantly 1, but Victim then leaves the pointer null.
GetVictimPage(f) ==
  \/ /\ free_list # <<>>
     /\ f = Head(free_list)
     /\ free_list' = Tail(free_list)
     /\ UNCHANGED replacer
  \/ /\ free_list = <<>>
     /\ replacer # <<>>
     /\ f = VictimOf(replacer)
     /\ replacer' = WithoutVictim(replacer)
     /\ UNCHANGED free_list

\* Mutant: a dirty victim is dropped.
NeverWrittenBack(f) == disk

\* The disk once the victim f has been written back, if it has to be.
WrittenBack(f) ==
  IF is_dirty[f] THEN WritePage(disk, page_id[f], data[f]) ELSE disk

\* The victim f becomes the pinned, clean frame of page p.
Rebind(f, p) ==
  /\ GetVictimPage(f)
  /\ page_table' = TableInsert(TableRemove(page_table, page_id[f]), p, f)
  /\ page_id' = [page_id EXCEPT ![f] = p]
  /\ pin_count' = [pin_count EXCEPT ![f] = 1]
  /\ is_dirty' = [is_dirty EXCEPT ![f] = FALSE]

\* The caller gets the pointer f to page p in its unused handle h.
Hand(h, p, f, mustDirty) ==
  /\ held[h] = INVALID_PAGE_ID
  /\ held' = [held EXCEPT ![h] = p]
  /\ ptr' = [ptr EXCEPT ![h] = f]
  /\ owes' = [owes EXCEPT ![h] = mustDirty]

\* The pages that exist for the callers.
Live(p) == p < next_page_id /\ p \notin deleted

-----------------------------------------------------------------------------
(* Operations. *)

\* FetchPage finds page p resident: pin it and take it out of the replacer.
PinResident(h, p) ==
  LET f == page_table[p] IN
  /\ f # nullptr
  /\ pin_count' = [pin_count EXCEPT ![f] = @ + 1]
  /\ replacer' = Erase(replacer, f)
  /\ Hand(h, p, f, FALSE)
  /\ UNCHANGED <<page_id, is_dirty, data, page_table, free_list, disk,
                 next_page_id, deleted>>

\* FetchPage of a page that is not resident: take a victim, write it back if it
\* is dirty, rebind the frame and read the page into it.
ReadIn(h, p) ==
  /\ page_table[p] = nullptr
  /\ \E f \in Frames :
       /\ Rebind(f, p)
       /\ data' = [data EXCEPT ![f] = ReadPage(WrittenBack(f), p, @)]
       /\ disk' = AfterRead(WrittenBack(f), p)
       /\ Hand(h, p, f, FALSE)
  /\ UNCHANGED <<next_page_id, deleted>>

\* Callers fetch pages that exist.
FetchHit(h, p) == Live(p) /\ PinResident(h, p)
FetchMiss(h, p) == Live(p) /\ ReadIn(h, p)

\* NewPage: the id is allocated only once a victim has been found.  The new page
\* is zeroed and clean.  Guarded by the bound MaxPages.
NewPage(h) ==
  LET p == next_page_id IN
  /\ p < MaxPages
  /\ \E f \in Frames :
       /\ Rebind(f, p)
       /\ disk' = WrittenBack(f)
       /\ data' = [data EXCEPT ![f] = Zero]
       /\ Hand(h, p, f, ~MayUnpinNewClean)
  /\ next_page_id' = p + 1
  /\ UNCHANGED deleted

\* The caller writes the page through the pointer it holds, without any call.
WriteData(h, x) ==
  /\ held[h] # INVALID_PAGE_ID
  /\ data' = [data EXCEPT ![ptr[h]] = x]
  /\ owes' = [owes EXCEPT ![h] = TRUE]
  /\ UNCHANGED <<page_id, pin_count, is_dirty, page_table, replacer, free_list,
                 disk, next_page_id, deleted, held, ptr>>

\* Mutant: the last caller's word replaces the flag.
DirtyReplaced(f, dirty) == dirty

\* Dirty is sticky: |=.
DirtyAfterUnpin(f, dirty) == is_dirty[f] \/ dirty

\* Mutant: the frame becomes evictable although others still hold it.
AlwaysEvictable(f) == InsertFront(replacer, f)

\* The last unpin makes the frame the most recently used evictable one.
ReplacerAfterUnpin(f) ==
  IF pin_count[f] = 1 THEN InsertFront(replacer, f) ELSE replacer

\* UnpinPage by a caller that holds the page.
UnpinPage(h, dirty) ==
  LET f == page_table[held[h]] IN
  /\ held[h] # INVALID_PAGE_ID
  /\ owes[h] => dirty
  /\ f # nullptr
  /\ pin_count[f] > 0
  /\ is_dirty' = [is_dirty EXCEPT ![f] = DirtyAfterUnpin(f, dirty)]
  /\ pin_count' = [pin_count EXCEPT ![f] = @ - 1]
  /\ replacer' = ReplacerAfterUnpin(f)
  /\ held' = [held EXCEPT ![h] = INVALID_PAGE_ID]
  /\ ptr' = [ptr EXCEPT ![h] = nullptr]
  /\ owes' = [owes EXCEPT ![h] = FALSE]
  /\ UNCHANGED <<page_id, data, page_table, free_list, disk, next_page_id, deleted>>

\* FlushPage: may be called by anyone, whoever has the page pinned.
FlushPage(p) ==
  LET f == page_table[p] IN
  /\ f # nullptr
  /\ is_dirty[f]
  /\ disk' = WritePage(disk, p, data[f])
  /\ is_dirty' = [is_dirty EXCEPT ![f] = FALSE]
  /\ UNCHANGED <<page_id, pin_count, data, page_table, replacer, free_list,
                 next_page_id, deleted, handleVars>>

\* DeletePage of a resident page nobody has pinned.
DeleteResident(p) ==
  LET f == page_table[p] IN
  /\ f # nullptr
  /\ pin_count[f] = 0
  /\ replacer' = Erase(replacer, f)
  /\ page_table' = TableRemove(page_table, p)
  /\ is_dirty' = [is_dirty EXCEPT ![f] = FALSE]
  /\ data' = [data EXCEPT ![f] = Zero]
  /\ page_id' = [page_id EXCEPT ![f] = INVALID_PAGE_ID]
  /\ free_list' = Append(free_list, f)
  /\ deleted' = deleted \cup {p}
  /\ UNCHANGED <<pin_count, disk, next_page_id, handleVars>>

\* DeletePage of a page that is not resident: DeallocatePage does nothing.
DeleteAbsent(p) ==
  /\ p < next_page_id
  /\ page_table[p] = nullptr
  /\ deleted' = deleted \cup {p}
  /\ UNCHANGED <<poolVars, disk, next_page_id, handleVars>>

Next ==
  \/ \E h \in Handles :
       \/ \E p \in PageIds : FetchHit(h, p) \/ FetchMiss(h, p)
       \/ NewPage(h)
       \/ \E x \in Data : WriteData(h, x)
       \/ \E dirty \in BOOLEAN : UnpinPage(h, dirty)
  \/ \E p \in PageIds :
       FlushPage(p) \/ DeleteResident(p) \/ DeleteAbsent(p)

Spec == Init /\ [][Next]_vars

-----------------------------------------------------------------------------
(* Properties. *)

\* The page table and the frames' page ids are inverse to each other, whatever
\* sequence of fetches, evictions and deletions led here: otherwise two frames
\* could hold one page, or a lookup return a frame that holds another.  Only
\* pages that were allocated and not deleted are resident.
TableMatchesFrames ==
  /\ \A p \in PageIds :
       page_table[p] # nullptr => page_id[page_table[p]] = p /\ Live(p)
  /\ \A f \in Frames :
       page_id[f] # INVALID_PAGE_ID => page_table[page_id[f]] = f

\* Every frame is in exactly one place: free (and then it has no page and no
\* pin, what the assertions in GetVictimPage expect, and nothing to write back), evictable (a page nobody
\* has pinned), or pinned.  A frame missing from all three is lost to the pool,
\* a frame in two of them is handed out twice.
FramePartition ==
  /\ NoDuplicates(free_list)
  /\ NoDuplicates(replacer)
  /\ \A f \in Frames :
       /\ f \in Elements(free_list) <=> page_id[f] = INVALID_PAGE_ID
       /\ f \in Elements(free_list) => pin_count[f] = 0 /\ ~is_dirty[f]
       /\ f \in Elements(replacer) <=>
            (pin_count[f] = 0 /\ page_id[f] # INVALID_PAGE_ID)

Holders(p) == {h \in Handles : held[h] = p}

\* pin_count_ counts the callers that hold the page, and each of them still
\* points to the frame that holds its page: no page is evicted, deleted or
\* rebound under a caller.
PinsMatchHandles ==
  /\ \A f \in Frames :
       page_id[f] # INVALID_PAGE_ID => pin_count[f] = Cardinality(Holders(page_id[f]))
  /\ \A h \in Handles :
       held[h] # INVALID_PAGE_ID =>
         /\ ptr[h] \in Frames
         /\ page_id[ptr[h]] = held[h]

\* The file has, or will be given, what page p holds: a page that is not resident
\* is inside the file, and a clean frame that no caller has still to report dirty
\* agrees with it.
Recoverable(p) ==
  IF page_table[p] = nullptr
  THEN p < disk.size
  ELSE \/ is_dirty[page_table[p]]
       \/ \E h \in Holders(p) : owes[h]
       \/ p < disk.size /\ disk.page[p] = data[page_table[p]]

\* Evicting a clean frame without a write loses nothing, whichever callers wrote
\* the page and in whichever order they unpinned it; and every page that can be
\* fetched is in the file, so that no read ever fails the stream.
CleanMatchesDisk ==
  /\ disk.ok
  /\ \A p \in PageIds : Live(p) => Recoverable(p)

\* What a caller that fetches page p now is going to read.
Content(p) ==
  IF page_table[p] # nullptr THEN data[page_table[p]] ELSE disk.page[p]
===============================================================================
