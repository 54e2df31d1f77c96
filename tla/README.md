# A TLA+ verification project for SCU_DB

SCU_DB is a teaching database: a disk-oriented storage engine in C++ that SQLite
loads as a virtual-table extension. This directory holds TLA+ modules that model its
parts, TLC configurations that check them on small instances, and proofs that TLAPS
checks for all instances. Paths below are relative to `src/project2/src`, the second
assignment, which contains the first one (`src/project1`) and adds the B+ tree.

## 1. Inventory

The layers, top down; each calls only those below it.

| Component | State | Operations | Uses |
| --- | --- | --- | --- |
| Virtual table (`vtable/virtual_table.cpp`) | one global storage engine, one current transaction, cursors | create/connect, open/filter/next/close a cursor, update, begin/commit | table heap, index, transactions |
| Transactions (`concurrency/`) | per transaction: state, write set, page set, deleted-page set | begin, commit (applies deletes), abort (undoes the write set) | table heap |
| Lock manager, log manager, recovery | none: every function is a stub | - | - |
| Table heap and iterator (`table/`) | a chain of table pages | insert, mark/apply/rollback delete, update, scan | buffer pool, page latches |
| Table page (`page/table_page.cpp`) | slot array and tuples growing towards each other | the same, within one page | - |
| B+ tree and iterator (`index/`, `page/b_plus_tree_*`) | root page id, root lock, nodes in pages | get, insert, remove, range scan | buffer pool, page latches, header page |
| Header page (`page/header_page.cpp`) | page 0: index name -> root page id | insert/update/delete a record, find | - |
| Buffer pool (`buffer/buffer_pool_manager.cpp`) | frames with page id, pin count, dirty flag, content; page table; free list; replacer | fetch, new, unpin, flush, delete | hash table, replacer, disk |
| Hash table (`hash/extendible_hash.cpp`) | directory, buckets, their latches | insert, find, remove | - |
| LRU replacer (`buffer/lru_replacer.cpp`) | linked list, map to its nodes | insert, victim, erase, size | - |
| Disk manager (`disk/disk_manager.cpp`) | the database file and its stream, next page id; the log file | read/write a page, allocate, deallocate (no-op) | - |
| Readers-writer lock (`include/common/rwmutex.h`) | reader count, writer flag, two condition variables | read/write lock and unlock | - |
| Types, schema, tuple (`type/`, `catalog/`, `table/tuple.cpp`) | immutable values | arithmetic, comparison, layout | - |

How they interact. The buffer pool runs each operation under one mutex and calls the
hash table, the replacer and the disk manager within it. Everything above holds pages
through *pins* (a counted reference to a frame) and, for pages shared by threads, a
readers-writer latch in each `Page`. The B+ tree descends from the root with latch
crabbing, keeps the latched pages in the transaction's page set, and unlatches,
unpins and deletes them at the end. Root page ids are kept in page 0. Log and lock
manager are stubs: there is no recovery and no tuple locking.

What is hard, and what makes each part correct:

* **Buffer pool.** Callers interleave between operations; a page is written through
  a raw pointer and reported dirty only at its unpin; frames are evicted, reused and
  re-read. Correct: no page is in two frames, no frame in two lists, nobody's page is
  evicted, no write is lost - together: it behaves as if every page were in memory.
* **Disk.** Pages are allocated without writing, so the file can be shorter than the
  ids handed out; the stream's error bits are sticky. Correct: what is written is read.
* **Hash table.** Splits change the directory while others read it without a latch.
  Correct: a map; the directory's shape; no deadlock; splitting ends.
* **Replacer.** Pointer surgery with stale pointers left in nodes. Correct: a queue in
  order of last insertion.
* **Readers-writer lock.** Two condition variables shared by three kinds of sleepers.
  Correct: exclusion, no lost wakeup, entered writers and waiting readers get in.
* **B+ tree.** Structure: sorted, balanced, sizes in bounds, separators and parent
  pointers right through merges. Concurrency: crabbing must not deadlock, a leaf found
  must still be the right one, the empty tree is a special case tested separately.
* **Table pages.** Tuples lie without gaps between the slots and the end of the page, so
  every deletion that is applied and every update moves others; a deletion is only a mark
  until the commit, and marked tuples move too. Correct: no two tuples overlap, none loses
  a byte, and a slot always finds its own.
* **Table heap and transactions.** The write set is worked off backwards, one page latch
  at a time, while others insert into reused slots and scan. Correct: a transaction takes
  effect as a whole or not at all; scans miss nothing that stays; nobody waits for ever.
* **Virtual table.** One global transaction for all tables, begun by some callbacks,
  ended by others, in an order SQLite decides; there is no `xRollback`. Correct: no
  deletion is lost, indexes agree with rows, no callback meets a null transaction.
* **Engine sessions.** Close and open again: nothing is flushed, page ids restart at 0.

`PROJECT.json` lists these hazards at the lines where they bite, each with the
properties that cover it or a note why none does.

## 2. Plan

Order: what everything else stands on first. All of it is done but for what the last
paragraph names.

1. `DiskManager`, `LRUList`, `BufferPool`, `PageStore`, `BufferPoolStore` with proofs;
   `RWMutex` and `LRUReplacer` with proofs; `ExtendibleHash`, `KeyMap`.
2. `BPlusTree` and `IndexMap` with proofs: search, insertion, removal and scans with their
   latches.
3. `Storage`: close and open again over `BufferPool`.
4. `TablePage` with proofs, then `TableHeap` with proofs: page chain, latches, iterator,
   write set, commit and abort; `TransactionalTable` is what they promise.
5. `VirtualTable` with proofs: the SQLite callbacks over abstract tables and indexes.

Left: a bound on the frames under the tree, so that `NewPage` and `FetchPage` can fail
there; the records of several indexes in the header page; types and tuples as pure
operators. Every safety property that a passing run checks is also stated by a theorem.

How the modules compose. `BufferPool` is built on `DiskManager` and `LRUList`;
`BufferPoolStore` is `BufferPool` with its refinement of `PageStore`; `Storage` is
`BufferPool` with sessions. `TableHeap` is built on `TablePage` and refines
`TransactionalTable`. `ExtendibleHash` refines `KeyMap`, `BPlusTree` refines `IndexMap`,
`LRUReplacer` refines the operators of `LRUList`. The tree and the table heap stand on
what `PageStore` promises (pages are where their ids say) and on the lock of `RWMutex`
(a writer enters, then waits); the virtual table stands on what `IndexMap` and
`TransactionalTable` promise. Each of these was shown or proved once, one level down.

## 3. The modules

### DiskManager, LRUList, BufferPool

`BufferPool` models `BufferPoolManager` with everything it owns. Its operations hold
`latch_` from first to last line, so each is one action: `FetchHit`/`FetchMiss`
(FetchPage), `NewPage`, `UnpinPage`, `FlushPage`, `DeleteResident`/`DeleteAbsent`
(DeletePage). A call that returns null or false changes nothing and is a stuttering
step. `Rebind` is what FetchPage and NewPage share: victim, write back, table, pin.

A *handle* is a caller's `Page *` with its pin. `WriteData` is a caller writing through
it, which involves no call: `GetData()` hands out the bytes. `owes` is the caller's
duty to unpin dirty what it wrote. Callers in the repository also unpin every page they
created dirty (`b_plus_tree.cpp` 118 and 217, `table_heap.cpp` 33 and 81,
`virtual_table.cpp` 371); `MayUnpinNewClean` says whether that is assumed.

`DiskManager` is a value and operators on it: content per page id, length, and whether
the stream still works. Reading at the very end of the file fails the stream; reading
beyond it leaves the caller's buffer alone. `LRUList` has the replacer's operations on
sequences. The page table is a partial function here; that the extendible hash table
implements one under the pool's latch is what run `hash_serial` shows, and that the
linked list computes `LRUList`'s operators is what `lru_replacer` and `LRUReplacerProofs` show.

`PageStore` is the promise: pages with contents, handles that hold them, no frames and
no disk. `BufferPoolStore` maps the pool to it.

Abstractions: a page's content is one value; frames are numbers; page ids stop at
`MaxPages`; latches of pages are not taken here (see RWMutex).

### RWMutex

One action per stretch of code between taking `mutex_` and releasing it by return or
`wait`. `reader_` and `writer_` are the sets of sleeping threads; writers that find
another writer sleep on `reader_`, as in the code. `Wake` is the spurious wakeup.

### ExtendibleHash, KeyMap

Steps are delimited by the latches and by the reads that take none: computing the
index, reading `mBuckets[index]`, latching the bucket, splitting (two halves, because
readers see between them), re-reading. With one thread this is the table the buffer
pool uses; with more it is the table its tests use. Remove latches one bucket, looks for the
key (`SeekKey`) and erases it (`EraseKey`) in whatever bucket the directory names by then. Keys are their own hashes, as for
the integers in the code. `MaxDepth` bounds splitting: `LoopAtBound` goes round the
loop without splitting further. `KeyMap` is a map whose operations are atomic.

### LRUReplacer

The doubly linked list, assignment by assignment, with the pointers that unlinked nodes
keep, and the map.

### BPlusTree, IndexMap

`BPlusTree` has the nodes as records (entries, parent, next), the root page id, the
index's record in the header page, the root lock and the page latches, and threads that
make calls. A step ends where a thread may have to wait: `CheckEmpty`/`StartNewTree`
(the locked look of Insert), `IsEmpty` (the unlocked look of Remove), `FindRoot`, one
`LatchPage` per level with the release of the ancestors (`ReleasesAncestors` is the crabbing
rule), then the operation in the leaf and one step per level on the way up:
`SplitNode`, `InsertIntoParent` or `GrowRoot`; `CoalesceOrRedistribute` with the latch of
the sibling, or `AdjustRoot`; and `FreePages`, which is the return of the call. `pages` and
`doomed` are the transaction's page set and deleted-page set. A writer enters a lock
that readers hold and then waits (`EnterRootLock`, `EnterPage`, `EnterSibling`), as in
`RWMutex`.

Why a level at a time is fine enough: from the leaf up, a call touches only pages whose
latches it holds exclusively, whose contents nobody can look at in between. It does
write the parent pointers of children it has not latched; these are only read by who
holds the parent, as it does itself.

Abstractions. Keys are numbers and only compared; values are opaque. The pool does not
run out of frames, and a page's content is where its id says, which is what `PageStore`
promises and `BufferPoolProofs` shows of the pool. Pins are not counted: a page is
pinned by whoever has latched it or waits for it, and `FreePages` does not delete a page
that another thread waits for (DeletePage refuses). Ids of deleted pages are used again,
the smallest first: ids are only compared, and this keeps the state space finite.
A step that needs a page waits when all `MaxPages` ids are in use (`CanAllocate`); the code has
no such bound, and no run reaches it.
`LeafMax >= 2` and `InternalMax >= 3` are the smallest sizes at which the assertions of the
page code can hold; the real ones are what fits a page.
A thread that dereferences `nullptr` stops everything (`At`).

A scan descends like a look-up (`CallScan`, `FindRoot`, `LatchPage`), gives up the root
lock (`ScanBegin`) and then holds the latch of one leaf at a time: `ScanLeaf` is what its
caller reads from there and the first half of `operator++`, up to the release of the latch;
`ScanNext` is the second half, which latches the page whose id was read before; `ScanClose`
is the destructor of an iterator that is given up. Other threads act between these steps for
as long as they like. `seen` collects the keys; `owed`, a history field, those that were
there when the scan began. Callers begin at the front or at a key that is there, remove nothing while a scan is
open, and call nothing else in the thread that has one.

`IndexMap` is the promise: a call acts on one map at one instant between its invocation
and its return; scans are not atomic and `ScansInOrder` says what they give instead. The
refinement maps the tree to the entries of its leaves and leaves scans out; the acting
step of an insertion or removal is the one in the leaf (or `StartNewTree`, or the look
that finds the tree empty), and splits and merges are stutters.

### Storage

`BufferPool` with sessions. `Reopen` is `VirtualTable`'s `VtabDisconnect` down to the
destructors and the next start: the frames go as they are, the file stays, the stream is
open again, `next_page_id_` is 0. `kept` is history: what pages of earlier sessions
hold. `FlushesFirst` says whether callers flush before they close; nobody does.

### TablePage

A page as a value: free space pointer, slots (offset and size, negative when marked as
deleted, 0 when empty), bytes, next page. Each operation of `table_page.cpp` is an operator
with its guard (`Fits`/`InsertTuple`, `MarkDelete`, `CanUpdate`/`UpdateTuple`,
`CanApplyDelete`/`ApplyDelete`, `RollbackDelete`, `NextSlot`), with `memmove` as `Move`.
Bytes below the free space pointer are forgotten (`Free`), since nothing reads
them. `PageLayout` says that the tuples tile the page's end.

### TableHeap, TransactionalTable

Threads that run transactions over a chain of pages, and scans. One step is what
happens under one page latch: an attempt to insert into one page (`InsertHere`,
`InsertMovesOn`, `InsertExtends`, `InsertFails`), `MarkTuple`, `ChangeTuple`, one record
of the write set applied or undone (`CommitItem`, `AbortItem`). Scans take a step for
`begin()`, one for the constructor of the iterator, one per page latched by `operator++`,
and one for the second, nested latch in `GetTuple` (`ScanCopy`), between which writers can
enter (`EnterLatch`). `Refused` is a call without a frame.

The lock manager is a stub, so nothing keeps transactions apart. Callers are taken to
leave alone what another open transaction has written (`Untouched`); SQLite, the only
caller, runs one transaction at a time. Within that they may call what they want, and the
code has no guard for most of it: a row deleted twice, updates of every size beside
marked rows, writes of a transaction that a refused call has set to ABORTED, which nobody
looks at and `VtabCommit` commits all the same (`virtual_table.cpp:317`). Frames can run
out at any call: `Refused` sets the state, `NoFrame` and `ScanNoFrame` stop the program
where the page is used without a look or an assertion looks, `KeepUpdate` is the undo of
an update that nobody notices to have failed, `ScanFetchFails` an iterator that goes on
without the tuple it stands on.

Not all of these calls come through unharmed, and `lapses` is the history of those that
did not: an update moved a marked tuple (`"moved"`), a deletion was recorded that the page
had refused (`"refused"`), an aborted transaction updated what it had no record of
(`"unrecorded"`), an update was not undone (`"kept"`). `stopped` says whether an assertion
or a missing frame has stopped the program. No step is forbidden for their sake: the
properties name the lapses up to which they hold, and say that nothing else goes wrong.

`TransactionalTable` is the promise: writes are private until the commit, which makes all
of them visible at once. It is mapped to the rows without what can still be undone.

### VirtualTable

One connection of SQLite, the callbacks it makes, and the one global transaction.
Statements are series of callbacks in the order of `sqlite3VtabBegin`, `OP_VOpen`,
`OP_VUpdate`, `OP_Halt` and `sqlite3VtabCommit`, which is external code; `aVTrans` and
`autoCommit` are SQLite's. A table can be dropped inside of `BEGIN ... COMMIT` too
(`VtabDisconnect`), after which xCommit is not called for it. A row is its indexed key; the
transaction is the set of the deletions it has to apply. `interrupted` and `spoiled` are
history variables: the first is set when a cursor was closed or a table created inside
`BEGIN ... COMMIT`, the second collects the keys whose entry the index refused or whose row
found no place.

## 4. The runs

| Run | Instance | States | Shows |
| --- | --- | --- | --- |
| `buffer_pool` | 2 frames, 3 pages, 2 handles, 2 contents | 30 098 | tables consistent, pins right, clean frames agree with the file, refines `PageStore` |
| `rwmutex` | 4 threads, limit 4, fair | 1 984 | exclusion, no lost wakeup, entered writers write, readers get in |
| `hash_serial` | 1 thread, 5 keys, 2 values, buckets of 1, fair | 216 722 | refines `KeyMap`, keys in place, every call returns |
| `hash_concurrent` | 2 threads, 4 keys in two buckets that overflow, buckets of 1, depth 2 | @HC@ | directory shape, no deadlock, keys go astray by two named races only |
| `lru_replacer` | 4 values | 418 | list and map agree, operations are those on sequences |
| `tree_concurrent` | 2 threads, 4 keys, leaves of 2 | 414 042 | atomic calls, scans in order, no deadlock, assertions, links, header page |
| `tree_deep` | 2 threads, 12 keys loaded and 4 used, three levels, leaves of 4 | 393 457 | atomic calls, no deadlock, links, search tree and balance, with borrowing between leaves and between internal pages |
| `table_heap` | 2 transactions, 1 page of 6 bytes, tuples of 1 and 2 bytes, 3 records | @TH@ | pages well formed and assertions, refines `TransactionalTable`, each up to the lapses it names |
| `table_scan` | 1 transaction after another, 1 scan, 2 pages of 4 bytes, 2 records | @TS@ | scans complete, only the nested latch can block everybody |
| `session` | 2 tables, one indexed, 2 keys, 2 places | @SE@ | indexes agree with rows, no deletion forgotten, crashes explained |
| `tree_emptied` | 2 threads, 1 key | - | a finding |
| `reopen` | 2 frames, 2 pages, 1 handle | - | a finding |

Bounds. Two frames and three pages are the smallest pool in which eviction, reuse of a
frame and re-reading all happen while another page stays pinned; two handles can hold
the same page or fill the pool; deleted ids are not reused by the code either. Two
contents tell a lost write from a kept one. Four threads are enough for a reader and a
writer inside or draining with one of each asleep. Keys {0,1,2,4,6} share their low bits up
to depth three, so a split that moves nothing, a doubling, and a split without
doubling all occur; `MaxDepth` is one more than single-threaded splitting can reach.
With two threads, keys {0,1,2,3} overflow two buckets at depth one, and there are states in
which both threads are between the two halves of a split or wait there for the directory;
with fewer keys only the bucket of the even ones overflows, whose latch is held over the
split. Find looks for key 3 only there (`FindsOneKey`), which every split moves.
In the tree runs, leaves of two entries and internal pages of three make every second
insertion split and many removals merge. Leaves of two never
borrow; `tree_deep` has leaves of four and starts from the tree that `LoadedInit`
describes, with an internal page of three children beside one of two: its calls make
leaves borrow from the left and from the right, internal pages borrow from the left
and merge, and the root give way. Two threads are what every race here takes: a thread
is only affected by pages another one changed. `MaxPages` is never reached.

A page of six bytes with one byte per slot and no header holds up to three tuples of one
byte: a deletion or an update in the middle moves one tuple and leaves another, and the
page can be full with and without an empty slot. Three records of write sets are enough for
one transaction to insert beside another one's mark and for a tuple to be written twice;
the state constraint `Few` follows three slots with two records and two slots with three,
and fewer after a lapse. It does not follow a page once a marked tuple was moved, since no
property claims anything afterwards but `TypeOK`, that the page is built of integers. Two
records are enough beside a scan, where it takes two pages to walk. `Unharmed` does not
follow those pages after any lapse, for the size of the state space: that scans miss
nothing even then is what `ScansMissNothing` proves. Each byte of a tuple names its
position, so that a tuple put together from parts of two is seen. What holds for all page
sizes is proved in `TableHeapProofs`. Two tables are one with an index and one without,
which share the transaction; two keys and two places give duplicates, a full table and rows
that move.

Symmetry is used in runs without liveness, on handles, threads, transactions and values
that only equality tells apart.

Findings.

* `tree_emptied` (`b_plus_tree.cpp:137` and `:254`): Insert lets go of the root lock
  between its look at the root and its descent, Remove looks with no lock at all; a
  removal of the last key in between leaves them with a null leaf, which they use.
  `GetValue` tests for it. Up to that crash every call is atomic (`tree_concurrent`).
* `reopen` (`buffer_pool_manager.cpp:31`): the destructor of the pool writes no dirty
  frame and nobody flushes before, so a page that was not evicted is gone when "an exist
  table" is to be reopened (`virtual_table.h:112`). With `FlushesFirst = TRUE` TLC finds
  the second way to lose one: `next_page_id_` starts at 0, so the new session's first
  `NewPage` is given the id of a page that exists.

Observations, from variants of the runs that are not kept as runs.

* Buffer pool: with `MayUnpinNewClean = TRUE`, a page created but never written, evicted
  clean, and fetched when it lies exactly at the end of the file fails the stream for good
  (`disk_manager.cpp:95`), and later writes vanish silently. No caller of this repository
  unpins a new page clean.
* Hash table: `Insert` does not revalidate the bucket it waited for
  (`extendible_hash.cpp:114`), so a concurrent split sends a key where `Find` never looks;
  and `Find` uses `operator[]`, which puts back a key that was removed in between (`:75`).
  `AstrayOnlyByRace` says that nothing else does. A key astray can also make a later
  Insert split one bucket for ever. The buffer pool is not affected: it calls the table
  under its own latch.
* B+ tree: after a tree was emptied its record in page 0 stays and says
  INVALID_PAGE_ID. The next `StartNewTree` asks to *insert* a record (`b_plus_tree.cpp:112`),
  which `HeaderPage` refuses; the header has no root until the root next changes.
  `HeaderIsRootOrInvalid` says that this is the worst of it.
* Index iterator, from reading the code. A removal beside an open scan can move entries past
  it (`index_iterator.cpp:66`): a merge brings those of the next leaf into the one just
  left, a redistribution moves one either way. If the scan has fetched the page that is merged
  away, its pin makes DeletePage refuse, and nobody deletes the page later. `Begin(key)` with
  a key larger than all those of its leaf stands behind the last entry, which `isEnd` does not
  see (`b_plus_tree.cpp:436`). Nothing in `src/` but tests uses iterators, without
  removals beside them.
* `LRUReplacer::Size` is constantly 1 (`lru_replacer.cpp:86`); the pool copes because
  `Victim` leaves its argument null.
* Readers-writer lock: at its reader limit it can lose a wakeup, with four threads and a
  limit of two; with the limit at UINT_MAX it cannot, which `NoWakeupLost` proves.
* Table page, lapse `"moved"`: `UpdateTuple` gives new offsets to visible tuples
  only (`table_page.cpp:202`), although the bytes of marked ones move too. When the deletion of
  such a tuple is applied, the assertion of `ApplyDelete` (`table_page.cpp:242`) fails, or the
  bytes of another tuple go: without the exception in `NoAssertionFails` TLC shows one
  transaction that does it alone. An UPDATE of several rows gets there by itself
  (`virtual_table.cpp:292`): a row that does not fit is marked and inserted elsewhere, and the
  next one becomes shorter beside it. Up to such an update no two tuples ever overlap.
* Table heap, lapse `"refused"`: `MarkDelete` records a deletion that the page
  refused, since the tuple was marked already, and returns true (`table_heap.cpp:98`); the
  commit applies it twice, and the second time the assertion fails on an empty slot. No
  caller under `src/` deletes a row twice.
* Table heap, lapses `"kept"` and `"unrecorded"`: Abort ignores that
  undoing an update can fail (`transaction_manager.cpp:67`): another transaction can take
  the room of a tuple that was made shorter, or there is no frame, and the aborted change
  stays. Nothing under `src/` calls Abort. `UpdateTuple` makes no record for a
  transaction that is ABORTED (`table_heap.cpp:116`), so what one writes after a refused
  call could not be undone; it is committed instead.
* A scan takes a first page without tuples for the end of the table (`table_heap.cpp:162`),
  whatever the others hold; `ScansComplete` excepts it and nothing else. `operator++`
  latches for reading a page it has latched: if a writer has entered in between, both
  wait for ever (`table_iterator.cpp:32`); `NoOtherDeadlock` excepts that.
* Virtual table: a statement finds no transaction after a statement with a cursor, or a
  CREATE, inside `BEGIN ... COMMIT`, because SQLite calls xBegin once per table there and
  `VtabClose` has committed. The comment at `virtual_table.cpp:304` says "create new
  transaction(write operation will call this method)". ROLLBACK undoes nothing. The engine is
  deleted with the first table that is dropped.

Fairness. Safety runs assume none. `rwmutex` assumes that a thread able to run
eventually gets the mutex and runs, and that a holder of the lock returns it; nothing
makes a thread call, and nothing makes it wake by itself. `hash_serial` assumes that a
call that can go on does. Both are what a scheduler gives and neither lets the lock
choose who goes first.

Deadlock checking is off where the system may really stop: in `tree_concurrent`,
`tree_emptied` and `session` after a crash, in the runs of the table heap after a failed
assertion, without a frame or in the nested latch, and when the page ids or records are used up. What is
meant instead is said by `NoDeadlock` and `NoOtherDeadlock`: if calls are under way, one
can go on. It is on in all others. That a call of the tree *returns* is not claimed: the
lock is not fair, and a thread at the root can be overtaken again and again.

## 5. The proofs

The proof modules are checked by TLAPS without further assumptions than the
`ASSUME`s of the modules and those named here.

* `LRUReplacerProofs`: `ListCorrect` and `ReplacerImplementsList`, for any set of frames: the
  linked list computes those operators, so that what is proved of the buffer pool holds
  for the replacer the code has. The invariant is that there is a sequence without
  duplicates whose elements are the map and along which the links lead in both
  directions; no such sequence has a rival (`ChainUnique`), and unlinking, linking and
  evicting a node each turn it into the one the operator gives.
* `BufferPoolProofs`: `TypeCorrect`, `TableCorrect`, `PartitionCorrect`, `PinsCorrect`,
  for every number of frames, pages and handles. The four properties are inductive only
  together (`PoolInv`): the free list needs the table to know a free frame's page id is
  in no entry; pins need the partition to know that a victim has no holder. One lemma
  per action; fetches and new pages share the lemma about `Rebind`. Then `CleanCorrect`
  and `PoolImplementsStore`, assuming that callers unpin new pages dirty
  (`~MayUnpinNewClean`). `StoreInv` adds `CleanMatchesDisk`: what lets a clean victim be
  dropped is that the file agrees with it, and a read never comes up short because every
  existing page that is not resident is inside the file. The refinement then goes action
  by action: `FetchHit` and `FetchMiss` are `Fetch`, `FlushPage` and deletes of deleted
  pages are stutters.
* `ExtendibleHashProofs`: `TypeCorrect`, `DirectoryCorrect`, `KeysStayInPlace` and
  `LatchesDoNotBlock` for any number of threads, keys, values, bucket size and bound on the
  depth; `KeysFound` and `TableImplementsKeyMap` for one thread (`Threads = {self}`), which
  is how the buffer pool uses the table. The module begins with the arithmetic of low bits,
  since the prover knows nothing of powers: `Shift[d]` is defined by recursion on the depth
  and `ShiftFacts`, `LowSplit` and `LowBit` follow by induction and division. The invariant `HashInv`
  says of the time between the two halves of a split what `DirectoryShape` says outside of
  it: with the directory's latch held, the last bucket is reached by no index yet, the split
  bucket by the indices of both, and a key is at home in the half its next bit names
  (`Home`). `Latches` has who holds what at each point: a thread that waits for the
  directory's latch holds at most the latch of one bucket, and its holder waits for
  nothing. `SerialInv` adds that a thread finds the directory as it left it (`Alone`), from
  which no key is ever astray; the refinement of `KeyMap` then says of each step that the
  union of the buckets changes as the map does: a split moves keys and loses none.
* `RWMutexProofs`: `LockExcludes` for any number of threads and any limit; `NoWakeupLost`
  if the limit is at least the number of threads. The invariants say where sleepers can
  be: only waiting readers and writers sleep on `reader_`, only the draining writer
  on `writer_`.

* `VirtualTableProofs`: `DeletionsApplied`, `IndexCorrect`, `CrashesExplained` and
  `SessionTypes`, for any tables, keys and places, all parts of `SessionCorrect`. None of
  them is inductive alone. `NoDeletionForgotten` needs `DeletionsPending`: outside of an
  UPDATE or DELETE the transaction has nothing to apply, which is why it does no harm
  that VtabBegin replaces it. `IndexAgrees` needs that the rows a statement has collected
  are still visible when it comes to them (`TodoVisible`), and the two before it, so that
  a commit removes marked rows only. `CrashesOnlyInInterruptedTransaction` needs
  `TransactionThere`, which says when there is a transaction and when `aVTrans` is empty.
  One lemma per callback.
* `BPlusTreeInvariant` and `BPlusTreeProofs`: for any keys and values, any sizes of leaves and internal nodes that
  `TreeAssumption` allows, any number of pages and threads: `TreeTypeOK`, `TreeBalanced`,
  `TreeSearchable`, `TreeLinksMatch`, `TreeAssertionsHold`, `TreeNoDeadlock`,
  `HeaderKept`, `TreeImplementsMap`, `TreeActsAsMap` and `TreeScansInOrder`, and `TreeGood`, the invariant from which the others follow. A node does not
  say which keys may be in it, nor how high it is; both follow from the path to it, which
  changes under a thread's feet. `GoodTree` therefore says that there are *bounds*: for each
  page a lower and an upper key, the upper key as its parent knows it (they differ while a
  split is under way), and a level. Under them
  `TreeOK` is local: the entries of a node lie between its bounds in order, a child's bounds
  are the separators beside it, its level is one less, the root's bounds are all keys.
  `ThreadOK` says what a thread holds at each point: the page it stands on has the bounds that
  its key asks for, its page set is a path of which only the lowest nodes can be out of size
  (a thread halfway through a split or a merge owes its parent exactly one entry), and no
  other thread has those latches (`LatchInv`).
  The frame argument: a step changes pages latched exclusively by its thread, the parent
  pointers of their children, and bounds below such a page (`Frame`), so what is known of
  other threads is not disturbed, and the pages that did change (`Changes`, `TreeAfter`) are
  looked at one by one. One lemma per action; those for removals are in the second module,
  with the theorems. `NoDeadlock` follows since whoever waits for a page holds only pages of higher levels, but
  for a sibling on the level of the page held, whose parent is held exclusively, so nobody
  else is between the two; scans hold one leaf, and removals do not meet them. `Balanced` and
  `SearchTree` are about recursive functions along the tree: that `Depth` and `KeysBelow` are
  what the bounds say is shown by taking a node of least level for which it is not so.
  The refinement of `IndexMap` rests on `MapOK`: in a good tree no key is in two leaves, or
  twice in one, so the pairs of the leaves make up a function, which `Contents` is. Each step
  then leaves the pairs alone as a set, though splits, merges and redistributions move them
  between pages, or adds the pair of its call, or takes away that of its key (`AsIndex`); and
  a thread that stands on the leaf for its key finds there what the map says (`Answered` has
  which calls have acted). `TreeActsAsMap` says so of any good tree, whatever it came from.
  For the scans `ScanOK` is added to the bounds: a scan has gone in order through all it owes
  that lies below the lower bound of its leaf (`Caught`). This stays when the leaf is split,
  since the lower half keeps the bound, and when the scan moves on, since the next leaf begins
  where this one ends. The other threads' steps keep the bounds of its leaf by the frame
  argument; that removals do not meet scans is a guard of the specification, used here.
  `AnswerAssumption` is about the model alone: that no answer is taken for none.
* `TableHeapProofs`, its first part: for every size of page, header, slot and tuple, every operation of the
  slotted page keeps the page well formed and leaves the bytes of all other tuples alone:
  `InsertTupleKeepsTuples`, `ApplyDeleteKeepsTuples`, `UpdateTupleKeepsTuples`,
  `MarksKeepPages`, `EmptyPageWellFormed`. The core is that tuples which tile the bytes
  from the free space pointer cannot straddle the border of another one: each lies before
  or behind it, so that a shift moves it as a whole or not at all. The update has the
  hypothesis `MovesNoMarked`: no marked tuple lies below the updated one unless the size
  stays. The observation above shows that it cannot be dropped.
* `TableHeapProofs`, its second part, for any number of transactions, scans and pages and
  tuples of any sizes, and for every call that the model has. The theorems have no hypotheses
  about callers; each holds until the lapses that its property names.
  `TableKeepsPages` and `TableNeverFails` are `PagesWellFormed` and `NoAssertionFails`. The
  work is to show that the hypotheses of the first part hold when a record is applied or
  undone, any number of other transactions' steps after it was made. The invariant comes in
  three layers. `Base` holds whatever happens: types in which a page's integers can be any,
  what threads are inside of, and that a record is about a slot there is. `PagesInv` adds,
  until a marked tuple is moved, that all pages are well formed (`GoodPages`) and that what
  an undo restores has been written (`WrittenKept`). `SafeInv` adds, until moreover a refused
  deletion is recorded (`Sound`), that a record that is still going to be used is about a
  slot with a tuple, marked if the record is a deletion (`RecordStands`); two transactions
  have no such records about one slot (`RecordsApart`); of one transaction's records about a
  slot only the first is an insertion and only the last a deletion (`RecordsOrdered`). An
  undone update may resize a tuple and move a marked one; that is a lapse like any other, so
  nothing has to be said of sizes. One lemma per action.
  `TableTypeCorrect`, that is `TypeOK` with the bounds on pages and records, follows from
  `PagesInv`, the invariant of the scans and `Bounded`: a thread inside of `InsertTuple`
  has room for the record it will make.
  `ScansMissNothing` (`ScansComplete`) excepts no lapse. Its invariant
  `ScanInv` says that the pages are linked in the order of their ids (`Chained`) and that
  what an iterator owes is visible and ahead of it (`Owes`); a page does not have to be well
  formed for that, only to keep its other slots' sizes (`Kept`), so a scan misses nothing
  even where a marked tuple was moved.
  `TableImplementsTransactions` (`ActsAsTransactionalTable`) is the refinement, from
  `SafeInv`, `ScanInv` and `IdleEmpty` (nobody begins with records left over), for every step
  up to the first lapse. `StepIsOne` says that each such step writes one slot and adds the
  record of it (`Wrote`), rewrites one that its transaction has a record of already
  (`Rewrote`, the update of an aborted transaction), takes back the last record (`Undid`),
  finishes one after a commit (`Applied`) or leaves slots and records alone; and `Was` says of
  each what a slot holds without what can still be undone: only the beginning of a commit
  changes it.
  `TableNoOtherDeadlock` (`NoOtherDeadlock`) assumes nothing of the callers either. A writer
  enters a latch ahead of its turn only where a reader is inside, and that reader stays inside
  while it does (`Waiting`); so a writer that has entered shows a nested latch, and where there
  is none nobody has entered, so that every scan can go on, and every writer if there is none.

Model-checked only: liveness (`EnteredWriterWrites`, `ReadersGetIn`, `CallsReturn`), which
is outside of what the prover handles, and the findings, which are single behaviours. That
nobody blocks is stated with the guards of the steps, not with `ENABLED`, so that it can be
proved: `NoDeadlock` and `NoOtherDeadlock` name the conditions under which a thread waits.

## 6. Not modelled

* SQLite and its shell (vendored): almost all lines of `src/`, more than 400 000 of
  them; what SQLite calls when is part of `VirtualTable`. The share of mapped lines of the
  whole tree is small for this reason only: most of project2's own source with state is
  mapped.
* The log file, the log manager, recovery and the lock manager: stubs without effect.
* Schemas, columns, tuples' layout, values and their arithmetic: no state.
* `VtabConnect` and `VtabFilter`, parsing of declarations and choice of an index.
* `project1` (an earlier copy), `homework1` (SQL), printing and debug checks, build files.

Data races are modelled where the code has them on shared state a property depends on (the
hash table), with the mildest outcome: a read sees some value that was written.
