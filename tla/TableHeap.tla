------------------------------- MODULE TableHeap -------------------------------
(***************************************************************************)
(* A table (table/table_heap.cpp, table/table_iterator.cpp) and the        *)
(* transactions that change it (concurrency/transaction_manager.cpp).      *)
(*                                                                         *)
(* A thread runs one transaction at a time.  Every operation latches one   *)
(* page after the other and changes a page while it holds its latch        *)
(* exclusively, so that a step is what happens under one latch: an attempt *)
(* to insert into a page, a mark, an update, one item of the write set     *)
(* applied or undone.  A page that a scan has latched for reading makes    *)
(* the writer enter the latch and wait, and then lets no reader in, as in  *)
(* module RWMutex.                                                         *)
(*                                                                         *)
(* There are no tuple locks (LockManager is a stub), so what callers do    *)
(* beside each other is up to them.  They are taken to leave alone what    *)
(* another open transaction has written; else they may call what they      *)
(* want, in an aborted transaction too.                                    *)
(*                                                                         *)
(* The code does not get through all of these calls unharmed.  `lapses` is *)
(* a history of where it did not, for the properties to be about the rest: *)
(*   "moved"       an update changed the size of a tuple and with it moved *)
(*                 a marked one, whose offset stayed;                      *)
(*   "refused"     a deletion was recorded although the page had no tuple  *)
(*                 to mark, or a marked one;                               *)
(*   "unrecorded"  an aborted transaction updated what it had no record of *)
(*   "kept"        an update was not undone, as the page had no room for   *)
(*                 the old tuple or there was no frame for the page.       *)
(***************************************************************************)
EXTENDS TablePage, FiniteSets

CONSTANTS
  Txns,            \* the threads that run transactions
  Scans,           \* the threads that scan the table
  Tuples,          \* the tuples that callers insert, as sequences of bytes
  MaxHeapPages,    \* bound: at this many pages NewPage returns nullptr
  MaxWrites        \* bound: the records of all write sets together

ASSUME HeapAssumption ==
  /\ IsFiniteSet(Txns)
  /\ Tuples \subseteq Seq(Bytes) \ {<<>>}
  /\ MaxHeapPages \in Nat \ {0}
  /\ MaxWrites \in Nat

VARIABLES
  heap,        \* the pages of the table, by page id
  state,       \* Transaction::state_, or "none" between transactions
  call,        \* what the thread is inside of
  write_set,   \* Transaction::write_set_, the oldest record first
  inserting,   \* while in InsertTuple: the page it has come to, and the tuple
  entered,     \* the page whose latch the writer has entered and waits for, or 0
  scan,        \* the iterators
  stopped,     \* why the program has stopped, or "no"
  lapses       \* history: what went wrong so far

txnVars == <<state, call, write_set, inserting>>
faults == <<stopped, lapses>>
vars == <<heap, txnVars, entered, scan, faults>>

PageIds == 1 .. MaxHeapPages

Record == [page : PageIds, slot : Nat, wtype : {"INSERT", "DELETE", "UPDATE"},
           tuple : Seq(Bytes \cup {Free})]

\* An iterator: where it is, and as history the rids that were visible when it began,
\* that nobody has written since and that it has not returned; and whether it is a scan
\* of the whole table: it began on a page with tuples and has read what it came to.
Iterator == [pc : {"idle", "fetch", "at", "walk", "copy"}, page : 0 .. MaxHeapPages,
             slot : Nat, owed : SUBSET (PageIds \X Nat), whole : BOOLEAN]

TypeOK ==
  /\ heap \in Seq(IF "moved" \in lapses THEN AnyPage ELSE Page)
  /\ Len(heap) \in 1 .. MaxHeapPages
  /\ state \in [Txns -> {"none", "GROWING", "COMMITTED", "ABORTED"}]
  /\ call \in [Txns -> {"none", "InsertTuple", "Commit", "Abort"}]
  /\ \A t \in Txns : write_set[t] \in Seq(Record) /\ Len(write_set[t]) <= MaxWrites
  /\ inserting \in [Txns -> [page : 0 .. MaxHeapPages, tuple : Tuples \cup {<<>>}]]
  /\ entered \in [Txns -> 0 .. MaxHeapPages]
  /\ scan \in [Scans -> Iterator]
  /\ stopped \in {"no", "assertion", "no frame"}
  /\ lapses \subseteq {"moved", "refused", "unrecorded", "kept"}

NotScanning == [pc |-> "idle", page |-> 0, slot |-> 0, owed |-> {}, whole |-> FALSE]

NotInserting == [page |-> 0, tuple |-> <<>>]

Init ==
  /\ heap = <<EmptyPage>>
  /\ state = [t \in Txns |-> "none"]
  /\ call = [t \in Txns |-> "none"]
  /\ write_set = [t \in Txns |-> <<>>]
  /\ inserting = [t \in Txns |-> NotInserting]
  /\ entered = [t \in Txns |-> 0]
  /\ scan = [s \in Scans |-> NotScanning]
  /\ stopped = "no"
  /\ lapses = {}

-----------------------------------------------------------------------------
(* What callers do beside each other. *)

\* t has written the rid and has yet to apply or undo that.
Writes(t, p, i) ==
  \E k \in 1 .. Len(write_set[t]) :
    /\ write_set[t][k].page = p /\ write_set[t][k].slot = i
    /\ state[t] = "COMMITTED" => write_set[t][k].wtype = "DELETE"

Untouched(t, p, i) == \A u \in Txns \ {t} : ~Writes(u, p, i)

Recorded(t, p, i, wtype, tuple) ==
  write_set' = [write_set EXCEPT ![t] =
    Append(@, [page |-> p, slot |-> i, wtype |-> wtype, tuple |-> tuple])]

RecordCount == Cardinality(UNION {{t} \X DOMAIN write_set[t] : t \in Txns})

Running == stopped = "no"

\* t can make a call that writes; that it is ABORTED stops nobody.
Calls(t) ==
  /\ Running
  /\ state[t] \in {"GROWING", "ABORTED"}
  /\ call[t] = "none"
  /\ RecordCount < MaxWrites

-----------------------------------------------------------------------------
(* Latches. *)

\* The scans that hold the latch of page p from one step to the next.
Readers(p) == {s \in Scans : scan[s].pc = "copy" /\ scan[s].page = p}

\* RLatch can be had: no writer is inside or has entered.
MayRead(p) == Running /\ \A t \in Txns : entered[t] # p

\* WLatch is had by t, which has perhaps waited for the readers to leave.
MayWrite(t, p) ==
  /\ Running
  /\ entered[t] \in {0, p}
  /\ Readers(p) = {}
  /\ \A u \in Txns \ {t} : entered[u] # p

\* Mutant: the write set is undone from its front.
FirstItem(t) == Head(write_set[t])

\* The record that Commit and Abort come to next.
Last(t) == write_set[t][Len(write_set[t])]

\* The call that t is inside of goes on at page p: with InsertTuple, with a deletion that it
\* applies, or with what it undoes.
GoesOnAt(t, p) ==
  \/ call[t] = "InsertTuple" /\ inserting[t].page = p
  \/ /\ write_set[t] # <<>> /\ Last(t).page = p
     /\ call[t] = "Abort" \/ (call[t] = "Commit" /\ Last(t).wtype = "DELETE")

\* The pages whose latch the next step of t may want.
Wants(t, p) ==
  \/ Calls(t) /\ p = 1
  \/ Calls(t) /\ \E i \in 1 .. Len(heap[p].slots) : Untouched(t, p, i)
  \/ GoesOnAt(t, p)

\* WLatch finds readers inside: the writer enters, which keeps new readers out, and
\* waits.
EnterLatch(t, p) ==
  /\ Running
  /\ Wants(t, p)
  /\ entered[t] = 0
  /\ Readers(p) # {}
  /\ \A u \in Txns : entered[u] # p
  /\ entered' = [entered EXCEPT ![t] = p]
  /\ UNCHANGED <<heap, txnVars, scan, faults>>

\* The page p becomes `page`, which ends the wait of t; the rid is written.
WritePage(t, p, i, page) ==
  /\ heap' = [heap EXCEPT ![p] = page]
  /\ entered' = [entered EXCEPT ![t] = 0]
  /\ scan' = [s \in Scans |-> [scan[s] EXCEPT !.owed = @ \ {<<p, i>>}]]

-----------------------------------------------------------------------------
(* Operations. *)

\* TransactionManager::Begin.
Begin(t) ==
  /\ Running
  /\ state[t] = "none"
  /\ state' = [state EXCEPT ![t] = "GROWING"]
  /\ UNCHANGED <<heap, call, write_set, inserting, entered, scan, faults>>

\* A call of InsertTuple, MarkDelete or UpdateTuple whose FetchPage returns nullptr,
\* or of InsertTuple with a tuple larger than a page.  No caller looks at the state.
Refused(t) ==
  /\ Calls(t)
  /\ entered[t] = 0
  /\ state' = [state EXCEPT ![t] = "ABORTED"]
  /\ UNCHANGED <<heap, call, write_set, inserting, entered, scan, faults>>

\* InsertTuple begins at the first page, if the tuple is not larger than a page, and
\* goes on to the others.
InsertAt(t, p, tuple) ==
  \/ Calls(t) /\ p = 1 /\ Len(tuple) + HeaderSize + SlotSize <= PAGE_SIZE
  \/ call[t] = "InsertTuple" /\ inserting[t] = [page |-> p, tuple |-> tuple]

InsertEnds(t) ==
  /\ call' = [call EXCEPT ![t] = "none"]
  /\ inserting' = [inserting EXCEPT ![t] = NotInserting]

\* The page has room.
InsertHere(t, p, tuple) ==
  /\ InsertAt(t, p, tuple)
  /\ MayWrite(t, p)
  /\ Fits(heap[p], tuple)
  /\ WritePage(t, p, SlotFor(heap[p]), InsertTuple(heap[p], tuple))
  /\ Recorded(t, p, SlotFor(heap[p]), "INSERT", <<>>)
  /\ InsertEnds(t)
  /\ UNCHANGED <<state, faults>>

\* The insertion of t has the latch of page p, which has no room.
Full(t, p, tuple) ==
  /\ InsertAt(t, p, tuple)
  /\ MayWrite(t, p)
  /\ ~Fits(heap[p], tuple)

\* Mutant: the page stays latched.
InsertHoldsOn(t, p, tuple) ==
  /\ Full(t, p, tuple)
  /\ heap[p].next # INVALID_PAGE_ID
  /\ call' = [call EXCEPT ![t] = "InsertTuple"]
  /\ inserting' = [inserting EXCEPT ![t] = [page |-> heap[p].next, tuple |-> tuple]]
  /\ entered' = [entered EXCEPT ![t] = p]
  /\ UNCHANGED <<heap, state, write_set, scan, faults>>

\* Unlatch the page and go to the next one.
InsertMovesOn(t, p, tuple) ==
  /\ Full(t, p, tuple)
  /\ heap[p].next # INVALID_PAGE_ID
  /\ call' = [call EXCEPT ![t] = "InsertTuple"]
  /\ inserting' = [inserting EXCEPT ![t] = [page |-> heap[p].next, tuple |-> tuple]]
  /\ entered' = [entered EXCEPT ![t] = 0]
  /\ UNCHANGED <<heap, state, write_set, scan, faults>>

\* It is the last page: create and link another while the latch is held, and insert
\* there.  Nobody gets at the new page before that.
InsertExtends(t, p, tuple) ==
  LET new == Len(heap) + 1 IN
  /\ Full(t, p, tuple)
  /\ heap[p].next = INVALID_PAGE_ID
  /\ new <= MaxHeapPages
  /\ heap' = Append([heap EXCEPT ![p].next = new], InsertTuple(EmptyPage, tuple))
  /\ Recorded(t, new, 1, "INSERT", <<>>)
  /\ InsertEnds(t)
  /\ entered' = [entered EXCEPT ![t] = 0]
  /\ UNCHANGED <<state, scan, faults>>

\* NewPage returns nullptr.
InsertFails(t, p, tuple) ==
  /\ Full(t, p, tuple)
  /\ heap[p].next = INVALID_PAGE_ID
  /\ state' = [state EXCEPT ![t] = "ABORTED"]
  /\ InsertEnds(t)
  /\ entered' = [entered EXCEPT ![t] = 0]
  /\ UNCHANGED <<heap, write_set, scan, faults>>

\* MarkDelete, of a slot that has a tuple or had one.  The write set gets its record
\* also when the page has refused the mark, or had nothing to mark.
MarkTuple(t, p, i) ==
  LET marks == Visible(heap[p], i) IN
  /\ Calls(t)
  /\ MayWrite(t, p)
  /\ Untouched(t, p, i)
  /\ WritePage(t, p, i, IF marks THEN MarkDelete(heap[p], i) ELSE heap[p])
  /\ Recorded(t, p, i, "DELETE", <<>>)
  /\ lapses' = IF marks THEN lapses ELSE lapses \cup {"refused"}
  /\ UNCHANGED <<state, call, inserting, stopped>>

\* What an update of slot i by t does to the page, unless the assertion fails; `lapse`
\* is what else is wrong with it.
Update(t, p, i, tuple, lapse) ==
  /\ MayWrite(t, p)
  /\ IF AboveFree(heap[p], i)
     THEN WritePage(t, p, i, UpdateTuple(heap[p], i, tuple)) /\ UNCHANGED stopped
     ELSE stopped' = "assertion" /\ UNCHANGED <<heap, entered, scan>>
  /\ lapses' = lapses \cup lapse
                  \cup (IF MovesNoMarked(heap[p], i, tuple) THEN {} ELSE {"moved"})

\* UpdateTuple.  When it returns false nothing has changed.  A transaction that a refused
\* call has set to ABORTED gets no record.
ChangeTuple(t, p, i, tuple) ==
  /\ Calls(t)
  /\ CanUpdate(heap[p], i, tuple)
  /\ Untouched(t, p, i)
  /\ \/ /\ state[t] = "GROWING"
        /\ Update(t, p, i, tuple, {})
        /\ Recorded(t, p, i, "UPDATE", BytesAt(heap[p], i))
     \/ /\ state[t] = "ABORTED"
        /\ Update(t, p, i, tuple, IF Writes(t, p, i) THEN {} ELSE {"unrecorded"})
        /\ UNCHANGED write_set
  /\ UNCHANGED <<state, call, inserting>>

\* TransactionManager::Commit and Abort: the state is set, then the write set is
\* worked off from its end.
Commit(t) ==
  /\ Running
  /\ state[t] \in {"GROWING", "ABORTED"} /\ call[t] = "none" /\ entered[t] = 0
  /\ state' = [state EXCEPT ![t] = "COMMITTED"]
  /\ call' = [call EXCEPT ![t] = "Commit"]
  /\ UNCHANGED <<heap, write_set, inserting, entered, scan, faults>>

Abort(t) ==
  /\ Running
  /\ state[t] \in {"GROWING", "ABORTED"} /\ call[t] = "none" /\ entered[t] = 0
  /\ state' = [state EXCEPT ![t] = "ABORTED"]
  /\ call' = [call EXCEPT ![t] = "Abort"]
  /\ UNCHANGED <<heap, write_set, inserting, entered, scan, faults>>

\* pop_back.
Popped(t) == write_set' = [write_set EXCEPT ![t] = SubSeq(@, 1, Len(@) - 1)]

\* TableHeap::ApplyDelete; everything stops when an assertion fails.
Remove(t, p, i) ==
  /\ MayWrite(t, p)
  /\ IF CanApplyDelete(heap[p], i)
     THEN WritePage(t, p, i, ApplyDelete(heap[p], i)) /\ UNCHANGED stopped
     ELSE stopped' = "assertion" /\ UNCHANGED <<heap, entered, scan>>
  /\ UNCHANGED lapses

\* What Commit does about a record: deletions are applied.
CommitItem(t) ==
  LET item == Last(t) IN
  /\ Running
  /\ call[t] = "Commit"
  /\ write_set[t] # <<>>
  /\ IF item.wtype = "DELETE"
     THEN Remove(t, item.page, item.slot)
     ELSE UNCHANGED <<heap, entered, scan, faults>>
  /\ Popped(t)
  /\ UNCHANGED <<state, call, inserting>>

\* The update that is to be undone stays: the page refuses, or there is no frame for it.
KeepUpdate(t, p, i, tuple) ==
  /\ \/ MayWrite(t, p) /\ ~CanUpdate(heap[p], i, tuple)
     \/ Running /\ entered[t] = 0
  /\ entered' = [entered EXCEPT ![t] = 0]
  /\ lapses' = lapses \cup {"kept"}
  /\ UNCHANGED <<heap, scan, stopped>>

\* What Abort does about a record: it is undone.  The result of UpdateTuple is ignored.
AbortItem(t) ==
  LET item == Last(t)
      p == item.page
      i == item.slot
  IN
  /\ call[t] = "Abort"
  /\ write_set[t] # <<>>
  /\ \/ item.wtype = "INSERT" /\ Remove(t, p, i)
     \/ /\ item.wtype = "DELETE"
        /\ MayWrite(t, p)
        /\ WritePage(t, p, i, RollbackDelete(heap[p], i))
        /\ UNCHANGED faults
     \/ /\ item.wtype = "UPDATE"
        /\ CanUpdate(heap[p], i, item.tuple)
        /\ Update(t, p, i, item.tuple, {})
     \/ item.wtype = "UPDATE" /\ KeepUpdate(t, p, i, item.tuple)
  /\ Popped(t)
  /\ UNCHANGED <<state, call, inserting>>

\* FetchPage returns nullptr and nobody looks, or an assertion does: on the way to the next
\* page of an insertion, in ApplyDelete and in RollbackDelete.
NoFrame(t) ==
  /\ Running
  /\ entered[t] = 0
  /\ \E p \in PageIds : GoesOnAt(t, p)
  /\ ~(call[t] = "Abort" /\ Last(t).wtype = "UPDATE")
  /\ stopped' = "no frame"
  /\ UNCHANGED <<heap, txnVars, entered, scan, lapses>>

\* Commit and Abort return, and the transaction is gone.
End(t) ==
  /\ Running
  /\ call[t] \in {"Commit", "Abort"}
  /\ write_set[t] = <<>>
  /\ state' = [state EXCEPT ![t] = "none"]
  /\ call' = [call EXCEPT ![t] = "none"]
  /\ UNCHANGED <<heap, write_set, inserting, entered, scan, faults>>

-----------------------------------------------------------------------------
(* Scans. *)

\* The rids a scan can see.
VisibleRids == {r \in PageIds \X (1 .. PAGE_SIZE) :
                  r[1] <= Len(heap) /\ Visible(heap[r[1]], r[2])}

ScanStep(s, new) ==
  /\ scan' = [scan EXCEPT ![s] = new]
  /\ UNCHANGED <<heap, txnVars, entered, faults>>

\* The iterator s, standing on slot i of page p; on the end for p = 0.
Standing(s, pc, p, i) == [scan[s] EXCEPT !.pc = pc, !.page = p, !.slot = i]

\* begin() looks at the first page only, and takes a page without tuples for the end.
ScanBegin(s) ==
  LET i == NextSlot(heap[1], 0) IN
  /\ scan[s].pc = "idle"
  /\ MayRead(1)
  /\ ScanStep(s, [NotScanning EXCEPT !.pc = IF i = 0 THEN "at" ELSE "fetch",
                                     !.page = IF i = 0 THEN 0 ELSE 1,
                                     !.slot = i,
                                     !.owed = VisibleRids,
                                     !.whole = i # 0])

\* The constructor of the iterator latches the page again and reads the tuple, if it
\* is still there.
ScanFetch(s) ==
  LET r == <<scan[s].page, scan[s].slot>> IN
  /\ scan[s].pc = "fetch"
  /\ MayRead(r[1])
  /\ ScanStep(s, [scan[s] EXCEPT !.pc = "at",
                                 !.owed = @ \ {r}])

\* Or there is no frame for the page, and the iterator goes on without the tuple.
ScanFetchFails(s) ==
  /\ Running
  /\ scan[s].pc = "fetch"
  /\ ScanStep(s, [scan[s] EXCEPT !.pc = "at", !.whole = FALSE])

\* Mutant: the scan ends with the page it is on.
ScanOnePage(s, p, i) ==
  LET j == NextSlot(heap[p], i) IN
  IF j # 0 THEN Standing(s, "copy", p, j) ELSE Standing(s, "at", 0, 0)

\* The latched page p gives the next tuple after slot i, which is read with the latch
\* still held; or the next page, to be latched when p is unlatched; or the end.
ScanPage(s, p, i) ==
  LET j == NextSlot(heap[p], i) IN
  IF j # 0 THEN Standing(s, "copy", p, j)
  ELSE IF heap[p].next # INVALID_PAGE_ID THEN Standing(s, "walk", heap[p].next, 0)
  ELSE Standing(s, "at", 0, 0)

\* The iterator is not at the end.
Goes(s) == scan[s].pc = "walk" \/ (scan[s].pc = "at" /\ scan[s].page # 0)

\* operator++ latches the page it stands on, or the next page.
ScanNext(s) ==
  /\ Goes(s)
  /\ MayRead(scan[s].page)
  /\ ScanStep(s, ScanPage(s, scan[s].page, scan[s].slot))

\* GetTuple latches the same page a second time, reads the tuple, and both latches are
\* released.
ScanCopy(s) ==
  LET r == <<scan[s].page, scan[s].slot>> IN
  /\ scan[s].pc = "copy"
  /\ MayRead(r[1])
  /\ ScanStep(s, [scan[s] EXCEPT !.pc = "at", !.owed = @ \ {r}])

\* begin() and operator++ use the page without a look whether FetchPage has found a frame.
ScanNoFrame(s) ==
  /\ Running
  /\ scan[s].pc = "idle" \/ Goes(s)
  /\ stopped' = "no frame"
  /\ UNCHANGED <<heap, txnVars, entered, scan, lapses>>

\* The scan is over, or its caller stops.
ScanClose(s) ==
  /\ Running
  /\ scan[s].pc = "at"
  /\ ScanStep(s, NotScanning)

-----------------------------------------------------------------------------

InsertStep(t, p, tuple) ==
  \/ InsertHere(t, p, tuple) \/ InsertMovesOn(t, p, tuple)
  \/ InsertExtends(t, p, tuple) \/ InsertFails(t, p, tuple)

Next ==
  \/ \E t \in Txns :
       \/ Begin(t) \/ Refused(t) \/ Commit(t) \/ Abort(t)
       \/ CommitItem(t) \/ AbortItem(t) \/ NoFrame(t) \/ End(t)
       \/ \E p \in 1 .. Len(heap) :
            \/ EnterLatch(t, p)
            \/ \E tuple \in Tuples : InsertStep(t, p, tuple)
            \/ \E i \in 1 .. Len(heap[p].slots) :
                 MarkTuple(t, p, i) \/ \E tuple \in Tuples : ChangeTuple(t, p, i, tuple)
  \/ \E s \in Scans :
       \/ ScanBegin(s) \/ ScanFetch(s) \/ ScanFetchFails(s)
       \/ ScanNext(s) \/ ScanCopy(s) \/ ScanNoFrame(s) \/ ScanClose(s)

Spec == Init /\ [][Next]_vars

-----------------------------------------------------------------------------
(* Properties. *)

\* Every page stays well formed: inserts into reused slots, updates that move other
\* tuples, deletions applied while others are pending and undo, by several
\* transactions, never let two tuples overlap, reach the slots or lose bytes.  The one
\* exception is an update that moves a marked tuple.
PagesWellFormed == "moved" \notin lapses => \A p \in 1 .. Len(heap) : PageLayout(heap[p])

\* ApplyDelete and UpdateTuple find the tuple where its slot says, above the free space
\* pointer, whatever other transactions did to the page between the mark or the insert
\* and the commit or the undo; unless an update has moved a marked tuple, or a deletion
\* was recorded that the page had refused.
NoAssertionFails == stopped = "assertion" => lapses \cap {"moved", "refused"} # {}

\* A page gets a new slot only when all its slots have a tuple.
Rids == {r \in PageIds \X (1 .. PAGE_SIZE) : HeaderSize + (SlotSize + 1) * r[2] <= PAGE_SIZE}

NoTuple == <<>>

\* What a rid shows now.
Shown(r) == IF r \in VisibleRids THEN BytesAt(heap[r[1]], r[2]) ELSE NoTuple

\* The records of t about r.
RecordsOf(t, r) ==
  {k \in 1 .. Len(write_set[t]) : write_set[t][k].page = r[1] /\ write_set[t][k].slot = r[2]}

Undone(t) == state[t] \in {"GROWING", "ABORTED"}

\* t can still commit.
Open(t) == Undone(t) /\ call[t] # "Abort"

\* What was there before the oldest record of t about r.
Before(t, r) ==
  LET item == write_set[t][CHOOSE k \in RecordsOf(t, r) : \A l \in RecordsOf(t, r) : k <= l]
  IN  CASE item.wtype = "INSERT" -> NoTuple
        [] item.wtype = "UPDATE" -> item.tuple
        [] item.wtype = "DELETE" -> BytesAt(heap[r[1]], r[2])

\* The table without what can still be undone.
Committed(r) ==
  IF \E t \in Txns : Undone(t) /\ RecordsOf(t, r) # {}
  THEN Before(CHOOSE t \in Txns : Undone(t) /\ RecordsOf(t, r) # {}, r)
  ELSE Shown(r)

Promise == INSTANCE TransactionalTable WITH
  Contents <- Tuples,
  table <- [r \in Rids |-> Committed(r)],
  open <- {t \in Txns : Open(t)},
  own <- [t \in Txns |-> [r \in Rids |->
            IF Open(t) /\ RecordsOf(t, r) # {} THEN <<Shown(r)>> ELSE <<>>]]

\* Transactions are atomic: until Commit begins, what a transaction did can be undone and
\* nothing else is touched by that; once it has begun, all of it stays.  Neither the
\* steps in which the write set is worked off, nor the reuse of slots, nor the moves of
\* tuples within their page show.  This holds up to the first lapse: a moved mark, a
\* refused deletion, an unrecorded update or one that is not undone.
ActsAsTransactionalTable ==
  Promise!Init /\ [][lapses' # {} \/ Promise!Next]_(Promise!vars)

\* A scan that did not begin on a first page without tuples, and found a frame for it,
\* returns every tuple that was there all the time, while others insert, delete, grow the
\* table and free slots.
ScansComplete ==
  \A s \in Scans :
    scan[s].pc = "at" /\ scan[s].page = 0 /\ scan[s].whole => scan[s].owed = {}

\* A scan has the latch of a page and wants it a second time; a writer has come in between.
NestedLatch == \E s \in Scans, t \in Txns :
  s \in Readers(scan[s].page) /\ entered[t] = scan[s].page

\* t is inside of a call and waits for a latch.
Blocked(t) == \E p \in PageIds : GoesOnAt(t, p) /\ ~MayWrite(t, p)

\* The nested latch of operator++ is the only way in which threads that are inside of calls
\* can wait for each other for ever; whoever goes from page to page lets go of the first.
\* If there are any, and no nested latch, one of them can go on.
NoOtherDeadlock ==
  LET calling == {t \in Txns : call[t] # "none"}
      inside == {s \in Scans : scan[s].pc \in {"walk", "copy"}}
  IN  Running /\ ~NestedLatch /\ calling \cup inside # {} =>
        \/ \E t \in calling : ~Blocked(t)
        \/ \E s \in inside : MayRead(scan[s].page)
=================================================================================
