--------------------------- MODULE VirtualTableProofs ---------------------------
(***************************************************************************)
(* What the callbacks of the SQLite extension keep true, for all tables,   *)
(* keys and rows: the types, that no deletion is forgotten, that indexes   *)
(* agree with their tables, and when a statement finds no transaction.     *)
(***************************************************************************)
EXTENDS VirtualTable, TLAPS

USE TablesAssumption

\* Deletions are pending only while the statement that makes them runs: the cursor that
\* found its rows commits them when it is closed.  So whoever replaces the transaction
\* finds nothing in it.
DeletionsPending ==
  /\ stmt.kind # "change" => transaction \in {nullptr, {}}
  /\ transaction # nullptr =>
       \A t \in Tables, r \in Rids :
         <<t, r>> \in transaction => rows[t][r] # NoRow /\ rows[t][r].marked

\* The rows a statement has collected and not come to yet are there.
TodoVisible ==
  stmt.kind = "change" => stmt.todo \subseteq Visible(stmt.table)

\* aVTrans is emptied whenever BEGIN ... COMMIT ends, and a statement that changes rows
\* has a transaction.
TransactionThere ==
  /\ autoCommit /\ stmt = Idle => aVTrans = {}
  /\ stmt.kind = "change" => transaction # nullptr
  /\ stmt.kind = "insert" /\ transaction = nullptr => ~autoCommit /\ interrupted
  /\ ~autoCommit /\ aVTrans # {} /\ transaction = nullptr => interrupted

SessionInv ==
  /\ TypeOK
  /\ DeletionsPending
  /\ NoDeletionForgotten
  /\ TodoVisible
  /\ TransactionThere
  /\ IndexAgrees
  /\ CrashesOnlyInInterruptedTransaction

\* How a statement looks.
LEMMA StatementForms ==
  ASSUME TypeOK
  PROVE  \/ stmt = Idle /\ stmt.kind = "none" /\ stmt.todo = {}
         \/ /\ stmt.kind \in {"insert", "change"} /\ stmt # Idle
            /\ stmt.table \in Tables /\ stmt.todo \in SUBSET Rids
BY DEF TypeOK, Statement, Idle

LEMMA SessionInit == Init => SessionInv
<1> SUFFICES ASSUME Init PROVE SessionInv
  OBVIOUS
<1>1. TypeOK
  BY DEF Init, TypeOK, EmptyHeap, EmptyIndex, Statement
<1>2. \A t \in Tables, r \in Rids : rows[t][r] = NoRow
  BY DEF Init, EmptyHeap
<1>3. \A t \in Tables, k \in Keys : index[t][k] = NoRid
  BY DEF Init, EmptyIndex
<1>4. IndexAgrees
  BY <1>2, <1>3 DEF IndexAgrees, Visible
<1>5. DeletionsPending /\ NoDeletionForgotten /\ TodoVisible
  BY <1>2 DEF Init, DeletionsPending, NoDeletionForgotten, TodoVisible, Idle
<1>6. TransactionThere /\ CrashesOnlyInInterruptedTransaction
  BY DEF Init, TransactionThere, CrashesOnlyInInterruptedTransaction, Idle
<1> QED BY <1>1, <1>4, <1>5, <1>6 DEF SessionInv

-----------------------------------------------------------------------------
(* Commits. *)

\* A commit takes away marked rows only, and none is left.
LEMMA CommitApplies ==
  ASSUME TypeOK, DeletionsPending, NoDeletionForgotten, VtabCommit
  PROVE  /\ transaction' = nullptr
         /\ rows' \in [Tables -> [Rids -> Row \cup {NoRow}]]
         /\ \A t \in Tables, r \in Rids :
              /\ rows'[t][r] # NoRow => ~rows'[t][r].marked
              /\ rows'[t][r] # rows[t][r] => rows[t][r].marked /\ rows'[t][r] = NoRow
<1>1. transaction' = nullptr /\ rows' = AfterCommit(rows)
  BY DEF VtabCommit
<1>2. CASE transaction = nullptr
  BY <1>1, <1>2 DEF AfterCommit, NoDeletionForgotten, TypeOK
<1>3. CASE transaction # nullptr
  <2>1. rows' = [t \in Tables |-> [r \in Rids |->
                   IF <<t, r>> \in transaction THEN NoRow ELSE rows[t][r]]]
    BY <1>1, <1>3 DEF AfterCommit
  <2> QED BY <1>1, <1>3, <2>1 DEF DeletionsPending, NoDeletionForgotten, TypeOK
<1> QED BY <1>2, <1>3

\* What is visible does not change by that.
LEMMA CommitKeepsVisible ==
  ASSUME TypeOK, DeletionsPending, NoDeletionForgotten, VtabCommit
  PROVE  \A t \in Tables :
           /\ Visible(t)' = Visible(t)
           /\ \A r \in Visible(t) : rows'[t][r] = rows[t][r]
BY CommitApplies DEF Visible

\* The conjuncts that are about rows and transaction, after a commit.
LEMMA CommitKeepsRows ==
  ASSUME SessionInv, VtabCommit, UNCHANGED <<index, spoiled>>
  PROVE  DeletionsPending' /\ NoDeletionForgotten' /\ IndexAgrees'
<1>1. TypeOK /\ DeletionsPending /\ NoDeletionForgotten /\ IndexAgrees
  BY DEF SessionInv
<1>2. DeletionsPending' /\ NoDeletionForgotten'
  BY <1>1, CommitApplies DEF DeletionsPending, NoDeletionForgotten
<1>3. ASSUME NEW t \in Indexed, NEW k \in Keys, k \notin spoiled'[t], NEW r \in Rids
      PROVE  index'[t][k] = r <=> r \in Visible(t)' /\ rows'[t][r].key = k
  <2>1. Visible(t)' = Visible(t) /\ (r \in Visible(t) => rows'[t][r] = rows[t][r])
    BY <1>1, CommitKeepsVisible
  <2>2. index[t][k] = r <=> r \in Visible(t) /\ rows[t][r].key = k
    BY <1>1, <1>3 DEF IndexAgrees
  <2> QED BY <2>1, <2>2
<1> QED BY <1>2, <1>3 DEF IndexAgrees

-----------------------------------------------------------------------------
(* Steps that leave the rows and the indexes alone. *)

LEMMA DataKept ==
  ASSUME SessionInv, UNCHANGED dataVars, UNCHANGED transaction, stmt'.kind = stmt.kind
  PROVE  DeletionsPending' /\ NoDeletionForgotten' /\ IndexAgrees'
BY DEF SessionInv, dataVars, DeletionsPending, NoDeletionForgotten, IndexAgrees, Visible

\* A statement that does not change rows can replace the transaction: there is nothing
\* in it, and no row is marked.
LEMMA TransactionReplaced ==
  ASSUME SessionInv, UNCHANGED dataVars, stmt.kind # "change", transaction' \in {nullptr, {}}
  PROVE  DeletionsPending' /\ NoDeletionForgotten' /\ IndexAgrees'
<1>1. \A t \in Tables, r \in Rids : rows[t][r] # NoRow => ~rows[t][r].marked
  BY DEF SessionInv, DeletionsPending, NoDeletionForgotten
<1>2. DeletionsPending' /\ NoDeletionForgotten'
  BY <1>1 DEF dataVars, DeletionsPending, NoDeletionForgotten
<1>3. IndexAgrees'
  BY DEF SessionInv, dataVars, IndexAgrees, Visible
<1> QED BY <1>2, <1>3

LEMMA BeginPreserves ==
  ASSUME SessionInv, Begin
  PROVE  SessionInv'
<1>1. DeletionsPending' /\ NoDeletionForgotten' /\ IndexAgrees'
  BY DataKept DEF Begin
<1>2. TypeOK' /\ TodoVisible' /\ CrashesOnlyInInterruptedTransaction'
  BY DEF SessionInv, Begin, Between, TypeOK, dataVars, TodoVisible, Visible,
         CrashesOnlyInInterruptedTransaction
<1>3. TransactionThere'
  BY DEF SessionInv, Begin, Between, TransactionThere, Idle
<1> QED BY <1>1, <1>2, <1>3 DEF SessionInv

LEMMA RollbackPreserves ==
  ASSUME SessionInv, Rollback
  PROVE  SessionInv'
<1>1. DeletionsPending' /\ NoDeletionForgotten' /\ IndexAgrees'
  BY DataKept DEF Rollback
<1>2. TypeOK' /\ TodoVisible' /\ CrashesOnlyInInterruptedTransaction'
  BY DEF SessionInv, Rollback, Between, TypeOK, dataVars, TodoVisible, Visible,
         CrashesOnlyInInterruptedTransaction
<1>3. TransactionThere'
  BY DEF SessionInv, Rollback, Between, TransactionThere, Idle
<1> QED BY <1>1, <1>2, <1>3 DEF SessionInv

LEMMA CrashPreserves ==
  ASSUME SessionInv, UseAfterDelete \/ UpdateCrashes
  PROVE  SessionInv'
<1>1. /\ crashed' = TRUE
      /\ UNCHANGED <<tables, engine, dataVars, transaction, dbVars, cursors, stmt, interrupted>>
  BY DEF UseAfterDelete, UpdateCrashes, Crash
<1>2. DeletionsPending' /\ NoDeletionForgotten' /\ IndexAgrees'
  BY <1>1, DataKept
<1>3. TypeOK' /\ TodoVisible' /\ TransactionThere'
  BY <1>1 DEF SessionInv, TypeOK, dataVars, dbVars, TodoVisible, Visible, TransactionThere
<1>4. engine = "live" => ~autoCommit /\ interrupted
  BY DEF SessionInv, TransactionThere, UseAfterDelete, UpdateCrashes
<1>5. CrashesOnlyInInterruptedTransaction'
  BY <1>1, <1>4 DEF CrashesOnlyInInterruptedTransaction, dbVars
<1> QED BY <1>2, <1>3, <1>5 DEF SessionInv

LEMMA DisconnectPreserves ==
  ASSUME SessionInv, NEW t \in Tables, VtabDisconnect(t)
  PROVE  SessionInv'
<1>1. DeletionsPending' /\ NoDeletionForgotten' /\ IndexAgrees'
  BY DataKept DEF VtabDisconnect
<1>2. TypeOK'
  BY DEF SessionInv, VtabDisconnect, TypeOK, dataVars
<1>3. TodoVisible'
  BY DEF SessionInv, VtabDisconnect, dataVars, TodoVisible, Visible
<1>4. TransactionThere'
  BY DEF SessionInv, VtabDisconnect, Between, TransactionThere
<1>5. CrashesOnlyInInterruptedTransaction'
  BY DEF VtabDisconnect, Between, CrashesOnlyInInterruptedTransaction
<1> QED BY <1>1, <1>2, <1>3, <1>4, <1>5 DEF SessionInv

LEMMA SelectOpenPreserves ==
  ASSUME SessionInv, NEW t \in Tables, SelectOpen(t)
  PROVE  SessionInv'
<1>1. transaction' \in {nullptr, {}} /\ stmt.kind # "change"
  BY DEF SessionInv, DeletionsPending, SelectOpen, Between, VtabOpen, VtabBegin,
         NewTransaction, Idle
<1>2. transaction' # nullptr
  BY DEF SelectOpen, VtabOpen, VtabBegin, NewTransaction
<1>3. DeletionsPending' /\ NoDeletionForgotten' /\ IndexAgrees'
  BY <1>1, TransactionReplaced DEF SelectOpen
<1>4. TypeOK'
  BY <1>1 DEF SessionInv, SelectOpen, TypeOK, dataVars, dbVars
<1>5. TodoVisible' /\ CrashesOnlyInInterruptedTransaction'
  BY DEF SessionInv, SelectOpen, Between, dataVars, dbVars, TodoVisible, Visible,
         CrashesOnlyInInterruptedTransaction
<1>6. TransactionThere'
  BY <1>2 DEF SessionInv, SelectOpen, Between, dbVars, TransactionThere, Idle
<1> QED BY <1>3, <1>4, <1>5, <1>6 DEF SessionInv

-----------------------------------------------------------------------------
(* Statements begin. *)

LEMMA InsertStartPreserves ==
  ASSUME SessionInv, NEW t \in Tables, InsertStart(t)
  PROVE  SessionInv'
<1>1. transaction' \in {nullptr, {}} /\ stmt.kind # "change"
  BY DEF SessionInv, DeletionsPending, InsertStart, Between, OP_VBegin, VtabBegin,
         NewTransaction, Idle
<1>2. transaction' = nullptr => ~autoCommit /\ interrupted
  BY DEF SessionInv, TransactionThere, InsertStart, Between, OP_VBegin, VtabBegin,
         NewTransaction
<1>3. DeletionsPending' /\ NoDeletionForgotten' /\ IndexAgrees'
  BY <1>1, TransactionReplaced DEF InsertStart
<1>4. TypeOK'
  BY <1>1 DEF SessionInv, InsertStart, TypeOK, dataVars, Statement
<1>5. TodoVisible' /\ CrashesOnlyInInterruptedTransaction'
  BY DEF SessionInv, InsertStart, Between, TodoVisible, CrashesOnlyInInterruptedTransaction
<1>6. TransactionThere'
  BY <1>2 DEF InsertStart, TransactionThere, Idle
<1> QED BY <1>3, <1>4, <1>5, <1>6 DEF SessionInv

LEMMA ChangeStartPreserves ==
  ASSUME SessionInv, NEW t \in Tables, ChangeStart(t)
  PROVE  SessionInv'
<1>1. transaction' = {} /\ stmt.kind # "change"
  BY DEF SessionInv, DeletionsPending, ChangeStart, Between, VtabOpen, OP_VBegin, VtabBegin,
         NewTransaction, Idle
<1>2. DeletionsPending' /\ NoDeletionForgotten' /\ IndexAgrees'
  BY <1>1, TransactionReplaced DEF ChangeStart
<1>3. PICK found \in SUBSET Visible(t) :
        stmt' = [kind |-> "change", table |-> t, todo |-> found]
  BY DEF ChangeStart
<1>4. found \in SUBSET Rids
  BY DEF Visible
<1>5. TypeOK'
  BY <1>1, <1>3, <1>4 DEF SessionInv, ChangeStart, TypeOK, dataVars, Statement
<1>6. TodoVisible' /\ CrashesOnlyInInterruptedTransaction'
  BY <1>3 DEF SessionInv, ChangeStart, Between, dataVars, TodoVisible, Visible,
              CrashesOnlyInInterruptedTransaction
<1>7. TransactionThere'
  BY <1>1, <1>3 DEF ChangeStart, TransactionThere, Idle
<1> QED BY <1>2, <1>5, <1>6, <1>7 DEF SessionInv

-----------------------------------------------------------------------------
(* Statements end. *)

\* Everything but rows, transaction and what hangs on them.
LEMMA CommitPreserves ==
  ASSUME SessionInv, Commit
  PROVE  SessionInv'
<1>1. rows' \in [Tables -> [Rids -> Row \cup {NoRow}]] /\ transaction' \in {nullptr, transaction}
  <2>1. CASE aVTrans # {}
    BY <2>1, CommitApplies DEF Commit, FinalCommit, SessionInv
  <2>2. CASE aVTrans = {}
    BY <2>2 DEF Commit, FinalCommit, SessionInv, TypeOK
  <2> QED BY <2>1, <2>2
<1>2. DeletionsPending' /\ NoDeletionForgotten' /\ IndexAgrees'
  <2>1. CASE aVTrans # {}
    BY <2>1, CommitKeepsRows DEF Commit, FinalCommit
  <2>2. CASE aVTrans = {}
    BY <2>2, DataKept DEF Commit, FinalCommit, dataVars
  <2> QED BY <2>1, <2>2
<1>3. TypeOK' /\ TodoVisible' /\ CrashesOnlyInInterruptedTransaction'
  BY <1>1 DEF SessionInv, Commit, FinalCommit, Between, TypeOK, TodoVisible,
              CrashesOnlyInInterruptedTransaction, Idle
<1>4. TransactionThere'
  BY DEF Commit, FinalCommit, Between, TransactionThere, Idle
<1> QED BY <1>2, <1>3, <1>4 DEF SessionInv

LEMMA CreatePreserves ==
  ASSUME SessionInv, NEW t \in Tables, VtabCreate(t)
  PROVE  SessionInv'
<1>1. /\ rows' \in [Tables -> [Rids -> Row \cup {NoRow}]]
      /\ transaction' \in {nullptr, transaction}
      /\ DeletionsPending' /\ NoDeletionForgotten' /\ IndexAgrees'
  <2>1. CASE autoCommit
    BY <2>1, CommitApplies, CommitKeepsRows DEF VtabCreate, SessionInv
  <2>2. CASE ~autoCommit
    BY <2>2, DataKept DEF VtabCreate, SessionInv, TypeOK, dataVars
  <2> QED BY <2>1, <2>2
<1>2. TypeOK' /\ TodoVisible' /\ CrashesOnlyInInterruptedTransaction'
  BY <1>1 DEF SessionInv, VtabCreate, Between, TypeOK, TodoVisible,
              CrashesOnlyInInterruptedTransaction, Idle
<1>3. TransactionThere'
  BY DEF SessionInv, VtabCreate, Between, TransactionThere, Idle
<1> QED BY <1>1, <1>2, <1>3 DEF SessionInv

LEMMA SelectClosePreserves ==
  ASSUME SessionInv, NEW t \in Tables, SelectClose(t)
  PROVE  SessionInv'
<1>1. VtabCommit
  BY DEF SelectClose, VtabClose
<1>2. DeletionsPending' /\ NoDeletionForgotten' /\ IndexAgrees'
  BY <1>1, CommitKeepsRows DEF SelectClose
<1>3. TypeOK' /\ TodoVisible' /\ CrashesOnlyInInterruptedTransaction'
  BY <1>1, CommitApplies DEF SessionInv, SelectClose, Between, dbVars, TypeOK, TodoVisible,
              CrashesOnlyInInterruptedTransaction, Idle
<1>4. TransactionThere'
  BY DEF SessionInv, SelectClose, Between, dbVars, TransactionThere, Idle
<1> QED BY <1>2, <1>3, <1>4 DEF SessionInv

LEMMA HaltPreserves ==
  ASSUME SessionInv, Halt
  PROVE  SessionInv'
<1>1. stmt'.kind = "none" /\ stmt' = Idle
  BY DEF Halt, Idle
<1>2. CASE stmt.kind = "change" \/ autoCommit
  <2>1. VtabCommit
    BY <1>2 DEF Halt, VtabClose
  <2>2. DeletionsPending' /\ NoDeletionForgotten' /\ IndexAgrees'
    BY <2>1, CommitKeepsRows DEF Halt
  <2>3. TypeOK' /\ TodoVisible' /\ CrashesOnlyInInterruptedTransaction'
    BY <1>1, <2>1, CommitApplies
       DEF SessionInv, Halt, TypeOK, TodoVisible, Statement,
           CrashesOnlyInInterruptedTransaction
  <2>4. TransactionThere'
    BY <1>1, <1>2 DEF SessionInv, Halt, TransactionThere
  <2> QED BY <2>2, <2>3, <2>4 DEF SessionInv
<1>3. CASE stmt.kind # "change" /\ ~autoCommit
  <2>1. UNCHANGED dataVars /\ transaction' = transaction
    BY <1>3 DEF Halt, dataVars
  <2>2. transaction' \in {nullptr, {}}
    BY <1>3, <2>1 DEF SessionInv, DeletionsPending
  <2>3. DeletionsPending' /\ NoDeletionForgotten' /\ IndexAgrees'
    BY <1>3, <2>1, <2>2, TransactionReplaced
  <2>4. TypeOK' /\ TodoVisible' /\ CrashesOnlyInInterruptedTransaction'
    BY <1>1, <2>1 DEF SessionInv, Halt, TypeOK, TodoVisible, Statement, dataVars,
                      CrashesOnlyInInterruptedTransaction
  <2>5. TransactionThere'
    BY <1>1, <1>3, <2>1 DEF SessionInv, Halt, TransactionThere
  <2> QED BY <2>3, <2>4, <2>5 DEF SessionInv
<1> QED BY <1>2, <1>3

-----------------------------------------------------------------------------
(* VtabUpdate. *)

\* What every form of VtabUpdate leaves as it is, but for rows and index.
LEMMA UpdateKeeps ==
  ASSUME SessionInv, NEW kind \in {"insert", "change"}, Updates(kind),
         NEW newRows \in [Rids -> Row \cup {NoRow}],
         NEW entries \in [Tables -> [Keys -> Rids \cup {NoRid, Invalid}]],
         NEW deleted \in SUBSET Rids, NEW done \in SUBSET Rids,
         spoiled' \in [Tables -> SUBSET Keys],
         Update(newRows, entries, deleted, done)
  PROVE  /\ TypeOK' /\ TransactionThere' /\ CrashesOnlyInInterruptedTransaction'
         /\ stmt.table \in Tables
         /\ stmt'.kind = kind /\ stmt'.table = stmt.table /\ stmt'.todo = stmt.todo \ done
         /\ \A t \in Tables : rows'[t] = IF t = stmt.table THEN newRows ELSE rows[t]
         /\ transaction' = transaction \cup ({stmt.table} \X deleted)
<1>1. stmt.table \in Tables /\ stmt.todo \in SUBSET Rids /\ stmt.kind = kind /\ stmt # Idle
  BY StatementForms DEF SessionInv, Updates
<1>2. stmt \in [kind : {"insert", "change"}, table : Tables, todo : SUBSET Rids]
  BY <1>1 DEF SessionInv, TypeOK, Statement
<1>3. /\ stmt' = [stmt EXCEPT !.todo = @ \ done]
      /\ stmt' \in [kind : {"insert", "change"}, table : Tables, todo : SUBSET Rids]
      /\ stmt'.kind = kind /\ stmt'.table = stmt.table /\ stmt'.todo = stmt.todo \ done
  BY <1>2, <1>1 DEF Update
<1>4. transaction' = transaction \cup ({stmt.table} \X deleted)
      /\ transaction' \in SUBSET (Tables \X Rids)
  BY <1>1 DEF SessionInv, TypeOK, Update, Updates
<1>5. /\ rows' \in [Tables -> [Rids -> Row \cup {NoRow}]]
      /\ \A t \in Tables : rows'[t] = IF t = stmt.table THEN newRows ELSE rows[t]
  BY <1>1 DEF SessionInv, TypeOK, Update
<1>6. TypeOK'
  BY <1>3, <1>4, <1>5 DEF SessionInv, TypeOK, Update, Statement, dbVars
<1>7. TransactionThere'
  <2>1. stmt' # Idle
    BY <1>3 DEF Idle
  <2>2. transaction' # nullptr
    BY <1>4
  <2> QED BY <2>1, <2>2 DEF TransactionThere
<1>8. CrashesOnlyInInterruptedTransaction'
  BY DEF SessionInv, Updates, Update, CrashesOnlyInInterruptedTransaction
<1> QED BY <1>1, <1>3, <1>4, <1>5, <1>6, <1>7, <1>8

-----------------------------------------------------------------------------
(* The entries of one table. *)

\* The rid is one of a row that is there.
There(heap, r) == heap[r] # NoRow /\ ~heap[r].marked

\* What IndexAgrees says of one table, with its entries, its rows and its spoiled keys.
Agree(entry, heap, bad) ==
  \A k \in Keys \ bad, r \in Rids : entry[k] = r <=> There(heap, r) /\ heap[r].key = k

Heap == [Rids -> Row \cup {NoRow}]
Entry == [Keys -> Rids \cup {NoRid, Invalid}]

\* The entry of a row goes with the row.
LEMMA EntryDeleted ==
  ASSUME NEW heap \in Heap, NEW entry \in Entry, NEW bad, Agree(entry, heap, bad),
         NEW r \in Rids, There(heap, r)
  PROVE  /\ [entry EXCEPT ![heap[r].key] = NoRid] \in Entry
         /\ [heap EXCEPT ![r].marked = TRUE] \in Heap
         /\ heap[r].key \in Keys
         /\ ~There([heap EXCEPT ![r].marked = TRUE], r)
         /\ Agree([entry EXCEPT ![heap[r].key] = NoRid], [heap EXCEPT ![r].marked = TRUE], bad)
<1> DEFINE newEntry == [entry EXCEPT ![heap[r].key] = NoRid]
           newHeap == [heap EXCEPT ![r].marked = TRUE]
<1>1. heap[r] \in Row /\ heap[r].key \in Keys
  BY DEF Heap, There, Row
<1>2. newHeap[r] \in Row /\ newHeap[r].marked = TRUE /\ \A q \in Rids \ {r} : newHeap[q] = heap[q]
  BY <1>1 DEF Heap, Row
<1>3. newHeap \in Heap /\ newEntry \in Entry /\ ~There(newHeap, r)
  BY <1>1, <1>2 DEF Heap, Entry, There, Row
<1>4. ASSUME NEW k \in Keys \ bad, NEW q \in Rids
      PROVE  newEntry[k] = q <=> There(newHeap, q) /\ newHeap[q].key = k
  <2>1. entry[k] = q <=> There(heap, q) /\ heap[q].key = k
    BY DEF Agree
  <2>2. CASE q = r
    BY <2>1, <2>2, <1>1, <1>3 DEF Entry
  <2>3. CASE q # r
    <3>1. newHeap[q] = heap[q]
      BY <2>3, <1>2
    <3>2. heap[r].key = k => entry[k] = r
      BY DEF Agree
    <3> QED BY <2>1, <2>3, <3>1, <3>2, <1>1 DEF Entry, There
  <2> QED BY <2>2, <2>3
<1>5. Agree(newEntry, newHeap, bad)
  <2> HIDE DEF newEntry, newHeap
  <2> QED BY <1>4 DEF Agree
<1> QED BY <1>1, <1>3, <1>5

\* A row that was not there gets the entry of its key, or that key is spoiled.
LEMMA EntryInserted ==
  ASSUME NEW heap \in Heap, NEW entry \in Entry, NEW bad, Agree(entry, heap, bad),
         NEW k \in Keys, NEW r \in Rids, ~There(heap, r),
         NEW newEntry, NEW newHeap \in Heap, NEW newBad,
         newEntry = IF entry[k] = NoRid THEN [entry EXCEPT ![k] = r] ELSE entry,
         newHeap[r] = NewRow(k), \A q \in Rids \ {r} : newHeap[q] = heap[q],
         newBad = IF entry[k] # NoRid THEN bad \cup {k} ELSE bad
  PROVE  Agree(newEntry, newHeap, newBad)
<1>1. There(newHeap, r) /\ newHeap[r].key = k
  <2>1. NewRow(k) \in Row /\ NewRow(k).key = k /\ NewRow(k).marked = FALSE
    BY DEF NewRow, Row
  <2>2. NewRow(k) # NoRow
    BY <2>1 DEF Row
  <2> QED BY <2>1, <2>2 DEF There
<1> SUFFICES ASSUME NEW j \in Keys \ newBad, NEW q \in Rids
             PROVE  newEntry[j] = q <=> There(newHeap, q) /\ newHeap[q].key = j
  BY DEF Agree
<1>2. j \in Keys \ bad
  OBVIOUS
<1>3. entry[j] = q <=> There(heap, q) /\ heap[q].key = j
  BY <1>2 DEF Agree
<1>4. CASE j = k
  BY <1>1, <1>3, <1>4 DEF Entry, There
<1>5. CASE j # k
  BY <1>1, <1>3, <1>5 DEF Entry, There
<1> QED BY <1>4, <1>5

-----------------------------------------------------------------------------
(* The forms of VtabUpdate. *)

LEMMA IndexAgreesByTable ==
  IndexAgrees <=> \A t \in Indexed : Agree(index[t], rows[t], spoiled[t])
BY DEF IndexAgrees, Agree, Visible, There

\* What a form of VtabUpdate has to show of the one table it writes.
LEMMA UpdatePreserves ==
  ASSUME SessionInv, NEW kind \in {"insert", "change"}, Updates(kind),
         NEW newRows \in Heap,
         NEW entries \in [Tables -> Entry],
         NEW deleted \in SUBSET Rids, NEW done \in SUBSET Rids,
         spoiled' \in [Tables -> SUBSET Keys],
         Update(newRows, entries, deleted, done),
         kind = "insert" => deleted = {},
         \A r \in Rids : There(rows[stmt.table], r) /\ r \in stmt.todo \ done => There(newRows, r),
         \A r \in deleted : newRows[r] # NoRow /\ newRows[r].marked,
         \A r \in Rids :
           /\ rows[stmt.table][r] # NoRow /\ rows[stmt.table][r].marked
                => newRows[r] = rows[stmt.table][r]
           /\ newRows[r] # NoRow /\ newRows[r].marked
                => r \in deleted \/ newRows[r] = rows[stmt.table][r],
         \A t \in Tables \ {stmt.table} : entries[t] = index[t] /\ spoiled'[t] = spoiled[t],
         stmt.table \in Indexed => Agree(entries[stmt.table], newRows, spoiled'[stmt.table])
  PROVE  SessionInv'
<1> DEFINE t0 == stmt.table
<1>1. /\ TypeOK' /\ TransactionThere' /\ CrashesOnlyInInterruptedTransaction'
      /\ t0 \in Tables
      /\ stmt'.kind = kind /\ stmt'.table = t0 /\ stmt'.todo = stmt.todo \ done
      /\ \A t \in Tables : rows'[t] = IF t = t0 THEN newRows ELSE rows[t]
      /\ transaction' = transaction \cup ({t0} \X deleted)
  BY UpdateKeeps DEF Heap, Entry
<1>2. stmt.kind = kind /\ transaction # nullptr /\ index' = entries
  BY DEF Updates, Update
<1>3. NoDeletionForgotten'
  <2> SUFFICES ASSUME NEW t \in Tables, NEW r \in Rids, rows'[t][r] # NoRow, rows'[t][r].marked
               PROVE  transaction' # nullptr /\ <<t, r>> \in transaction'
    BY DEF NoDeletionForgotten
  <2>1. transaction' \in {nullptr} \cup SUBSET (Tables \X Rids) /\ transaction' # nullptr
    BY <1>1 DEF TransactionThere, TypeOK, SessionInv, Updates
  <2>2. CASE t = t0 /\ r \in deleted
    BY <1>1, <2>1, <2>2
  <2>3. CASE ~(t = t0 /\ r \in deleted)
    <3>1. rows'[t][r] = rows[t][r]
      BY <1>1, <2>3
    <3>2. <<t, r>> \in transaction
      BY <3>1 DEF SessionInv, NoDeletionForgotten
    <3> QED BY <1>1, <2>1, <3>2
  <2> QED BY <2>2, <2>3
<1>4. DeletionsPending'
  <2>1. kind = "insert" => transaction' \in {nullptr, {}}
    BY <1>1, <1>2 DEF SessionInv, DeletionsPending
  <2>2. ASSUME NEW t \in Tables, NEW r \in Rids, <<t, r>> \in transaction'
        PROVE  rows'[t][r] # NoRow /\ rows'[t][r].marked
    <3>1. CASE <<t, r>> \in transaction
      BY <1>1, <1>2, <3>1 DEF SessionInv, DeletionsPending
    <3>2. CASE t = t0 /\ r \in deleted
      BY <1>1, <3>2
    <3> QED BY <1>1, <2>2, <3>1, <3>2
  <2> QED BY <1>1, <2>1, <2>2 DEF DeletionsPending
<1>5. TodoVisible'
  <2> SUFFICES ASSUME kind = "change", NEW r \in stmt.todo \ done
               PROVE  r \in Rids /\ There(newRows, r)
    BY <1>1 DEF TodoVisible, Visible, There
  <2>1. r \in Rids /\ There(rows[t0], r)
    BY <1>2 DEF SessionInv, TodoVisible, Visible, There
  <2> QED BY <2>1
<1>6. IndexAgrees'
  <2>1. \A t \in Indexed : Agree(index[t], rows[t], spoiled[t])
    BY IndexAgreesByTable DEF SessionInv
  <2>2. ASSUME NEW t \in Indexed
        PROVE  Agree(index'[t], rows'[t], spoiled'[t])
    BY <1>1, <1>2, <2>1
  <2>3. ASSUME NEW t \in Indexed, NEW k \in Keys, k \notin spoiled'[t], NEW r \in Rids
        PROVE  index'[t][k] = r <=> There(rows'[t], r) /\ rows'[t][r].key = k
    BY <2>2, <2>3 DEF Agree
  <2> QED BY <2>3 DEF IndexAgrees, Visible, There
<1> QED BY <1>1, <1>3, <1>4, <1>5, <1>6 DEF SessionInv

\* What is known before VtabUpdate.
LEMMA BeforeUpdate ==
  ASSUME SessionInv, NEW kind \in {"insert", "change"}, Updates(kind)
  PROVE  /\ stmt.table \in Tables
         /\ rows[stmt.table] \in Heap
         /\ index \in [Tables -> Entry] /\ spoiled \in [Tables -> SUBSET Keys]
         /\ \A r \in stmt.todo : kind = "change" => r \in Rids /\ There(rows[stmt.table], r)
         /\ stmt.table \in Indexed =>
              Agree(index[stmt.table], rows[stmt.table], spoiled[stmt.table])
<1>1. stmt.table \in Tables /\ stmt.kind = kind
  BY StatementForms DEF SessionInv, Updates
<1>2. stmt.table \in Indexed =>
        Agree(index[stmt.table], rows[stmt.table], spoiled[stmt.table])
  BY IndexAgreesByTable DEF SessionInv
<1> QED BY <1>1, <1>2 DEF SessionInv, TypeOK, Heap, Entry, TodoVisible, Visible, There

LEMMA UpdateDeletePreserves ==
  ASSUME SessionInv, NEW r \in Rids, UpdateDelete(r)
  PROVE  SessionInv'
<1> DEFINE t == stmt.table
           newRows == [rows[t] EXCEPT ![r].marked = TRUE]
           entries == DeleteEntry(index, t, rows[t][r].key)
<1>1. /\ Updates("change") /\ r \in stmt.todo
      /\ Update(newRows, entries, {r}, {r}) /\ spoiled' = spoiled
  BY DEF UpdateDelete
<1>2. /\ t \in Tables /\ rows[t] \in Heap
      /\ index \in [Tables -> Entry] /\ spoiled \in [Tables -> SUBSET Keys]
      /\ There(rows[t], r)
      /\ t \in Indexed => Agree(index[t], rows[t], spoiled[t])
  BY <1>1, BeforeUpdate
<1>3. rows[t][r] \in Row /\ rows[t][r].key \in Keys
  BY <1>2 DEF Heap, There, Row
<1>4. /\ newRows \in Heap /\ newRows[r] # NoRow /\ newRows[r].marked
      /\ \A q \in Rids \ {r} : newRows[q] = rows[t][q]
  BY <1>2, <1>3 DEF Heap, Row
<1>5. /\ entries \in [Tables -> Entry]
      /\ \A u \in Tables \ {t} : entries[u] = index[u]
      /\ t \in Indexed => entries[t] = [index[t] EXCEPT ![rows[t][r].key] = NoRid]
  BY <1>2, <1>3 DEF DeleteEntry, Entry
<1>6. t \in Indexed => Agree(entries[t], newRows, spoiled[t])
  <2> SUFFICES ASSUME t \in Indexed PROVE Agree(entries[t], newRows, spoiled[t])
    OBVIOUS
  <2>1. index[t] \in Entry
    BY <1>2
  <2>2. Agree([index[t] EXCEPT ![rows[t][r].key] = NoRid], newRows, spoiled[t])
    BY <1>2, <2>1, EntryDeleted
  <2> QED BY <1>5, <2>2
<1> HIDE DEF newRows, entries
<1>7. \A q \in Rids : There(rows[t], q) /\ q \in stmt.todo \ {r} => There(newRows, q)
  BY <1>4 DEF There
<1>8. \A q \in Rids :
           /\ rows[t][q] # NoRow /\ rows[t][q].marked => newRows[q] = rows[t][q]
           /\ newRows[q] # NoRow /\ newRows[q].marked => q \in {r} \/ newRows[q] = rows[t][q]
  BY <1>2, <1>4 DEF There
<1> QED BY <1>1, <1>2, <1>4, <1>5, <1>6, <1>7, <1>8, UpdatePreserves

\* The key of an entry that InsertEntry makes or refuses.
LEMMA InsertEntryForm ==
  ASSUME NEW entries \in [Tables -> Entry], NEW t \in Tables, NEW k \in Keys,
         NEW r \in Rids \cup {Invalid}
  PROVE  /\ InsertEntry(entries, t, k, r) \in [Tables -> Entry]
         /\ \A u \in Tables \ {t} : InsertEntry(entries, t, k, r)[u] = entries[u]
         /\ t \in Indexed => InsertEntry(entries, t, k, r)[t] =
              IF entries[t][k] = NoRid THEN [entries[t] EXCEPT ![k] = r] ELSE entries[t]
BY DEF InsertEntry, Entry

LEMMA UpdateInsertPreserves ==
  ASSUME SessionInv, NEW k \in Keys, UpdateInsert(k)
  PROVE  SessionInv'
<1> DEFINE t == stmt.table
<1>1. Updates("insert")
  BY DEF UpdateInsert
<1>2. /\ t \in Tables /\ rows[t] \in Heap
      /\ index \in [Tables -> Entry] /\ spoiled \in [Tables -> SUBSET Keys]
      /\ t \in Indexed => Agree(index[t], rows[t], spoiled[t])
  BY <1>1, BeforeUpdate
<1>3. PICK r \in Places(t, Invalid) :
        /\ Update([q \in Rids |-> IF q = r THEN NewRow(k) ELSE rows[t][q]],
                  InsertEntry(index, t, k, r), {}, {})
        /\ Spoils(index, t, k, r = Invalid)
  BY DEF UpdateInsert
<1> DEFINE newRows == [q \in Rids |-> IF q = r THEN NewRow(k) ELSE rows[t][q]]
           entries == InsertEntry(index, t, k, r)
<1>4. \/ r \in Rids /\ rows[t][r] = NoRow /\ r # Invalid
      \/ r = Invalid /\ r \notin Rids
  BY DEF Places
<1>5. /\ NewRow(k) \in Row /\ NewRow(k) # NoRow /\ ~NewRow(k).marked
      /\ newRows \in Heap
      /\ \A q \in Rids \ {r} : newRows[q] = rows[t][q]
      /\ r \in Rids => newRows[r] = NewRow(k)
  <2>1. NewRow(k) \in Row /\ NewRow(k).marked = FALSE
    BY DEF NewRow, Row
  <2>2. NewRow(k) # NoRow
    BY <2>1 DEF Row
  <2>3. newRows \in Heap
    BY <1>2, <2>1 DEF Heap
  <2> QED BY <2>1, <2>2, <2>3
<1>6. /\ entries \in [Tables -> Entry]
      /\ \A u \in Tables \ {t} : entries[u] = index[u]
      /\ t \in Indexed => entries[t] =
           IF index[t][k] = NoRid THEN [index[t] EXCEPT ![k] = r] ELSE index[t]
  BY <1>2, <1>4, InsertEntryForm
<1>7. /\ spoiled' \in [Tables -> SUBSET Keys]
      /\ \A u \in Tables \ {t} : spoiled'[u] = spoiled[u]
      /\ spoiled'[t] = IF r = Invalid \/ index[t][k] # NoRid
                       THEN spoiled[t] \cup {k} ELSE spoiled[t]
  BY <1>2, <1>3 DEF Spoils
<1>8. t \in Indexed => Agree(entries[t], newRows, spoiled'[t])
  <2> SUFFICES ASSUME t \in Indexed PROVE Agree(entries[t], newRows, spoiled'[t])
    OBVIOUS
  <2> HIDE DEF entries, newRows
  <2>1. index[t] \in Entry
    BY <1>2
  <2>2. CASE r \in Rids
    <3>1. ~There(rows[t], r)
      BY <1>4, <2>2 DEF There
    <3>2. newRows[r] = NewRow(k)
      BY <1>5, <2>2
    <3>3. spoiled'[t] = IF index[t][k] # NoRid THEN spoiled[t] \cup {k} ELSE spoiled[t]
      BY <1>4, <1>7, <2>2
    <3> QED BY <1>2, <1>5, <1>6, <2>1, <2>2, <3>1, <3>2, <3>3, EntryInserted
  <2>3. CASE r \notin Rids
    <3> SUFFICES ASSUME NEW j \in Keys \ spoiled'[t], NEW q \in Rids
                 PROVE  entries[t][j] = q <=> There(newRows, q) /\ newRows[q].key = j
      BY DEF Agree
    <3>1. j # k /\ j \in Keys \ spoiled[t]
      BY <1>4, <1>7, <2>3
    <3>2. entries[t][j] = index[t][j]
      BY <1>6, <2>1, <3>1 DEF Entry
    <3>3. newRows[q] = rows[t][q]
      BY <1>5, <2>3
    <3> QED BY <1>2, <3>1, <3>2, <3>3 DEF Agree, There
  <2> QED BY <2>2, <2>3
<1> HIDE DEF newRows, entries
<1> DEFINE none == {}
<1>9. \A q \in Rids : There(rows[t], q) /\ q \in stmt.todo \ none => There(newRows, q)
  BY <1>4, <1>5 DEF There
<1>10. \A q \in Rids :
           /\ rows[t][q] # NoRow /\ rows[t][q].marked => newRows[q] = rows[t][q]
           /\ newRows[q] # NoRow /\ newRows[q].marked
                => q \in none \/ newRows[q] = rows[t][q]
  BY <1>4, <1>5 DEF There
<1>11. Update(newRows, entries, none, none)
  BY <1>3 DEF newRows, entries
<1>12. none \in SUBSET Rids /\ "insert" \in {"insert", "change"} /\ none = {}
      /\ \A q \in none : newRows[q] # NoRow /\ newRows[q].marked
  OBVIOUS
<1>13. newRows \in Heap
  BY <1>5
<1> HIDE DEF none
<1>14. \A u \in Tables \ {t} : entries[u] = index[u] /\ spoiled'[u] = spoiled[u]
  BY <1>6, <1>7
<1>15. entries \in [Tables -> Entry] /\ spoiled' \in [Tables -> SUBSET Keys]
  BY <1>6, <1>7
<1> QED BY <1>1, <1>8, <1>9, <1>10, <1>11, <1>12, <1>13, <1>14, <1>15, UpdatePreserves
\* Without the row at r: the rows, and the entries; and the entries when it has key k at q.
Gone(r) == [rows[stmt.table] EXCEPT ![r].marked = TRUE]
Left(r) == DeleteEntry(index, stmt.table, rows[stmt.table][r].key)
Changed(r, q, k) == EntriesAfterUpdate(stmt.table, r, q, k)

\* An update of the row at r, which is at q then: its old entry goes, and a new one comes.
LEMMA BeforeChange ==
  ASSUME SessionInv, Updates("change"), NEW r \in stmt.todo, NEW k \in Keys, NEW q \in Rids
  PROVE  /\ stmt.table \in Tables /\ rows[stmt.table] \in Heap /\ r \in Rids
         /\ spoiled \in [Tables -> SUBSET Keys]
         /\ Gone(r) \in Heap /\ Gone(r)[r] = [rows[stmt.table][r] EXCEPT !.marked = TRUE]
         /\ Gone(r)[r] # NoRow /\ Gone(r)[r].marked /\ There(rows[stmt.table], r)
         /\ \A p \in Rids \ {r} : Gone(r)[p] = rows[stmt.table][p]
         /\ Left(r) \in [Tables -> Entry]
         /\ Changed(r, q, k) \in [Tables -> Entry]
         /\ \A u \in Tables \ {stmt.table} : Changed(r, q, k)[u] = index[u]
         /\ stmt.table \in Indexed => Agree(Left(r)[stmt.table], Gone(r), spoiled[stmt.table])
         /\ stmt.table \in Indexed => Changed(r, q, k)[stmt.table] =
              IF Left(r)[stmt.table][k] = NoRid THEN [Left(r)[stmt.table] EXCEPT ![k] = q]
              ELSE Left(r)[stmt.table]
<1> DEFINE t == stmt.table
           old == rows[t][r].key
           gone == Gone(r)
           left == Left(r)
           entries == Changed(r, q, k)
<1>1. /\ t \in Tables /\ rows[t] \in Heap
      /\ index \in [Tables -> Entry] /\ spoiled \in [Tables -> SUBSET Keys]
      /\ r \in Rids /\ There(rows[t], r)
      /\ t \in Indexed => Agree(index[t], rows[t], spoiled[t])
  BY BeforeUpdate
<1>2. rows[t][r] \in Row /\ old \in Keys
  BY <1>1 DEF Heap, There, Row
<1>3. /\ gone \in Heap /\ gone[r] = [rows[t][r] EXCEPT !.marked = TRUE]
      /\ gone[r] # NoRow /\ gone[r].marked
      /\ \A p \in Rids \ {r} : gone[p] = rows[t][p]
  BY <1>1, <1>2 DEF Heap, Row, Gone
<1>4. /\ left \in [Tables -> Entry]
      /\ \A u \in Tables \ {t} : left[u] = index[u]
      /\ t \in Indexed => left[t] = [index[t] EXCEPT ![old] = NoRid]
  BY <1>1, <1>2 DEF DeleteEntry, Entry, Left
<1>5. entries = InsertEntry(left, t, k, q)
  BY DEF EntriesAfterUpdate, Changed, Left
<1>6. /\ entries \in [Tables -> Entry]
      /\ \A u \in Tables \ {t} : entries[u] = left[u]
      /\ t \in Indexed => entries[t] =
           IF left[t][k] = NoRid THEN [left[t] EXCEPT ![k] = q] ELSE left[t]
  BY <1>1, <1>4, <1>5, InsertEntryForm
<1>7. t \in Indexed => Agree(left[t], gone, spoiled[t])
  <2> SUFFICES ASSUME t \in Indexed PROVE Agree(left[t], gone, spoiled[t])
    OBVIOUS
  <2>1. index[t] \in Entry
    BY <1>1
  <2>2. Agree([index[t] EXCEPT ![old] = NoRid], gone, spoiled[t])
    BY <1>1, <2>1, EntryDeleted DEF Gone
  <2> QED BY <1>4, <2>2
<1> QED BY <1>1, <1>3, <1>4, <1>6, <1>7

LEMMA UpdateInPlacePreserves ==
  ASSUME SessionInv, NEW r \in Rids, NEW k \in Keys, UpdateInPlace(r, k)
  PROVE  SessionInv'
<1> DEFINE t == stmt.table
           gone == Gone(r)
           left == Left(r)
           newRows == [rows[t] EXCEPT ![r] = NewRow(k)]
           entries == Changed(r, r, k)
           none == {}
<1>1. /\ Updates("change") /\ r \in stmt.todo
      /\ Update(newRows, entries, none, {r}) /\ Spoils(left, t, k, FALSE)
  BY DEF UpdateInPlace, Left, Changed
<1>2. /\ t \in Tables /\ rows[t] \in Heap /\ r \in Rids
      /\ spoiled \in [Tables -> SUBSET Keys]
      /\ gone \in Heap /\ gone[r] = [rows[t][r] EXCEPT !.marked = TRUE]
      /\ There(rows[t], r) /\ gone[r] # NoRow /\ gone[r].marked
      /\ \A p \in Rids \ {r} : gone[p] = rows[t][p]
      /\ left \in [Tables -> Entry] /\ entries \in [Tables -> Entry]
      /\ \A u \in Tables \ {t} : entries[u] = index[u]
      /\ t \in Indexed => Agree(left[t], gone, spoiled[t])
      /\ t \in Indexed => entries[t] =
           IF left[t][k] = NoRid THEN [left[t] EXCEPT ![k] = r] ELSE left[t]
  BY <1>1, BeforeChange
<1>3. /\ spoiled' \in [Tables -> SUBSET Keys]
      /\ \A u \in Tables \ {t} : spoiled'[u] = spoiled[u]
      /\ spoiled'[t] = IF left[t][k] # NoRid THEN spoiled[t] \cup {k} ELSE spoiled[t]
  BY <1>1, <1>2 DEF Spoils
<1>4. /\ NewRow(k) \in Row /\ NewRow(k) # NoRow /\ ~NewRow(k).marked
      /\ newRows \in Heap /\ newRows[r] = NewRow(k)
      /\ \A p \in Rids \ {r} : newRows[p] = rows[t][p]
  <2>1. NewRow(k) \in Row /\ NewRow(k).marked = FALSE
    BY DEF NewRow, Row
  <2>2. NewRow(k) # NoRow
    BY <2>1 DEF Row
  <2> QED BY <1>2, <2>1, <2>2 DEF Heap
<1> HIDE DEF t, gone, left, newRows, entries, none
<1>5. t \in Indexed => Agree(entries[t], newRows, spoiled'[t])
  <2>1. ~There(gone, r) /\ \A p \in Rids \ {r} : newRows[p] = gone[p]
    BY <1>2, <1>4 DEF There
  <2>2. t \in Indexed => left[t] \in Entry
    BY <1>2
  <2> QED BY <1>2, <1>3, <1>4, <2>1, <2>2, EntryInserted
<1>6. \A p \in Rids : There(rows[t], p) /\ p \in stmt.todo \ {r} => There(newRows, p)
  BY <1>4 DEF There
<1>7. \A p \in Rids :
        /\ rows[t][p] # NoRow /\ rows[t][p].marked => newRows[p] = rows[t][p]
        /\ newRows[p] # NoRow /\ newRows[p].marked => p \in none \/ newRows[p] = rows[t][p]
  BY <1>2, <1>4 DEF There
<1>8. \A u \in Tables \ {t} : entries[u] = index[u] /\ spoiled'[u] = spoiled[u]
  BY <1>2, <1>3
<1>9. none \in SUBSET Rids /\ \A p \in none : newRows[p] # NoRow /\ newRows[p].marked
  BY DEF none
<1>10. newRows \in Heap /\ entries \in [Tables -> Entry] /\ spoiled' \in [Tables -> SUBSET Keys]
  BY <1>2, <1>3, <1>4
<1> QED BY <1>1, <1>5, <1>6, <1>7, <1>8, <1>9, <1>10, UpdatePreserves DEF t

LEMMA UpdateMovesPreserves ==
  ASSUME SessionInv, NEW r \in Rids, NEW k \in Keys, UpdateMoves(r, k)
  PROVE  SessionInv'
<1> DEFINE t == stmt.table
           gone == Gone(r)
           left == Left(r)
<1>1. Updates("change") /\ r \in stmt.todo
  BY DEF UpdateMoves
<1>2. PICK q \in Places(t, r) :
        /\ Update([p \in Rids |-> IF p = r THEN [rows[t][r] EXCEPT !.marked = TRUE]
                                  ELSE IF p = q THEN NewRow(k) ELSE rows[t][p]],
                  Changed(r, q, k), {r}, {r})
        /\ Spoils(left, t, k, q = r)
  BY DEF UpdateMoves, Left, Changed
<1>3. q \in Rids /\ (q = r \/ rows[t][q] = NoRow)
  BY DEF Places
<1> DEFINE newRows == [p \in Rids |-> IF p = r THEN [rows[t][r] EXCEPT !.marked = TRUE]
                                      ELSE IF p = q THEN NewRow(k) ELSE rows[t][p]]
           entries == Changed(r, q, k)
<1>4. /\ t \in Tables /\ rows[t] \in Heap /\ r \in Rids
      /\ spoiled \in [Tables -> SUBSET Keys]
      /\ gone \in Heap /\ gone[r] = [rows[t][r] EXCEPT !.marked = TRUE]
      /\ There(rows[t], r) /\ gone[r] # NoRow /\ gone[r].marked
      /\ \A p \in Rids \ {r} : gone[p] = rows[t][p]
      /\ left \in [Tables -> Entry] /\ entries \in [Tables -> Entry]
      /\ \A u \in Tables \ {t} : entries[u] = index[u]
      /\ t \in Indexed => Agree(left[t], gone, spoiled[t])
      /\ t \in Indexed => entries[t] =
           IF left[t][k] = NoRid THEN [left[t] EXCEPT ![k] = q] ELSE left[t]
  BY <1>1, <1>3, BeforeChange
<1>5. /\ spoiled' \in [Tables -> SUBSET Keys]
      /\ \A u \in Tables \ {t} : spoiled'[u] = spoiled[u]
      /\ spoiled'[t] = IF q = r \/ left[t][k] # NoRid THEN spoiled[t] \cup {k} ELSE spoiled[t]
  BY <1>2, <1>4 DEF Spoils
<1>6. Update(newRows, entries, {r}, {r})
  BY <1>2
<1>7. NewRow(k) \in Row /\ NewRow(k) # NoRow /\ ~NewRow(k).marked
  <2>1. NewRow(k) \in Row /\ NewRow(k).marked = FALSE
    BY DEF NewRow, Row
  <2> QED BY <2>1 DEF Row
<1>8. /\ newRows[r] = gone[r]
      /\ q # r => newRows[q] = NewRow(k)
      /\ \A p \in Rids \ {q, r} : newRows[p] = rows[t][p]
  BY <1>3, <1>4
<1>9. newRows \in Heap
  <2>1. gone[r] \in Row \cup {NoRow}
    BY <1>4 DEF Heap
  <2>2. \A p \in Rids : newRows[p] \in Row \cup {NoRow}
    BY <1>4, <1>7, <1>8, <2>1 DEF Heap
  <2>3. newRows = [p \in Rids |-> newRows[p]]
    OBVIOUS
  <2> HIDE DEF newRows
  <2> QED BY <2>2, <2>3 DEF Heap
<1> HIDE DEF t, gone, left, newRows, entries
<1>10. t \in Indexed => Agree(entries[t], newRows, spoiled'[t])
  <2> SUFFICES ASSUME t \in Indexed PROVE Agree(entries[t], newRows, spoiled'[t])
    OBVIOUS
  <2>1. left[t] \in Entry
    BY <1>4
  <2>2. CASE q # r
    <3>1. ~There(gone, q) /\ newRows[q] = NewRow(k)
      BY <1>3, <1>4, <1>8, <2>2 DEF There
    <3>2. \A p \in Rids \ {q} : newRows[p] = gone[p]
      BY <1>4, <1>8
    <3>3. spoiled'[t] = IF left[t][k] # NoRid THEN spoiled[t] \cup {k} ELSE spoiled[t]
      BY <1>5, <2>2
    <3> QED BY <1>3, <1>4, <1>9, <2>1, <3>1, <3>2, <3>3, EntryInserted
  <2>3. CASE q = r
    <3> SUFFICES ASSUME NEW j \in Keys \ spoiled'[t], NEW p \in Rids
                 PROVE  entries[t][j] = p <=> There(newRows, p) /\ newRows[p].key = j
      BY DEF Agree
    <3>1. j # k /\ j \in Keys \ spoiled[t]
      BY <1>5, <2>3
    <3>2. entries[t][j] = left[t][j]
      BY <1>4, <2>1, <3>1 DEF Entry
    <3>3. newRows[p] = gone[p]
      BY <1>4, <1>8, <2>3
    <3>4. left[t][j] = p <=> There(gone, p) /\ gone[p].key = j
      BY <1>4, <3>1 DEF Agree
    <3> QED BY <3>2, <3>3, <3>4 DEF There
  <2> QED BY <2>2, <2>3
<1>11. \A p \in Rids : There(rows[t], p) /\ p \in stmt.todo \ {r} => There(newRows, p)
  BY <1>3, <1>8 DEF There
<1>12. \A p \in Rids :
        /\ rows[t][p] # NoRow /\ rows[t][p].marked => newRows[p] = rows[t][p]
        /\ newRows[p] # NoRow /\ newRows[p].marked => p \in {r} \/ newRows[p] = rows[t][p]
  BY <1>3, <1>4, <1>7, <1>8 DEF There
<1>13. \A u \in Tables \ {t} : entries[u] = index[u] /\ spoiled'[u] = spoiled[u]
  BY <1>4, <1>5
<1>14. \A p \in {r} : newRows[p] # NoRow /\ newRows[p].marked
  BY <1>4, <1>8
<1>15. entries \in [Tables -> Entry] /\ spoiled' \in [Tables -> SUBSET Keys]
  BY <1>4, <1>5
<1> QED BY <1>1, <1>6, <1>9, <1>10, <1>11, <1>12, <1>13, <1>14, <1>15, UpdatePreserves DEF t

-----------------------------------------------------------------------------
(* The theorems. *)

LEMMA StutterPreserves ==
  ASSUME SessionInv, UNCHANGED vars
  PROVE  SessionInv'
<1>1. DeletionsPending' /\ NoDeletionForgotten' /\ IndexAgrees'
  BY DataKept DEF vars
<1>2. TypeOK' /\ TransactionThere' /\ CrashesOnlyInInterruptedTransaction'
  BY DEF SessionInv, vars, dataVars, dbVars, TypeOK, TransactionThere,
         CrashesOnlyInInterruptedTransaction
<1>3. TodoVisible'
  BY DEF SessionInv, vars, dataVars, TodoVisible, Visible
<1> QED BY <1>1, <1>2, <1>3 DEF SessionInv

LEMMA SessionStep == SessionInv /\ [Next]_vars => SessionInv'
<1> SUFFICES ASSUME SessionInv, [Next]_vars PROVE SessionInv'
  OBVIOUS
<1>1. CASE Begin \/ Commit \/ Rollback \/ UseAfterDelete \/ UpdateCrashes \/ Halt
  BY <1>1, BeginPreserves, CommitPreserves, RollbackPreserves, CrashPreserves, HaltPreserves
<1>2. ASSUME NEW t \in Tables,
             VtabCreate(t) \/ VtabDisconnect(t) \/ SelectOpen(t) \/ SelectClose(t)
      PROVE  SessionInv'
  BY <1>2, CreatePreserves, DisconnectPreserves, SelectOpenPreserves, SelectClosePreserves
<1>3. ASSUME NEW t \in Tables, InsertStart(t) \/ ChangeStart(t)
      PROVE  SessionInv'
  BY <1>3, InsertStartPreserves, ChangeStartPreserves
<1>4. ASSUME NEW k \in Keys, UpdateInsert(k)
      PROVE  SessionInv'
  BY <1>4, UpdateInsertPreserves
<1>5. ASSUME NEW r \in Rids, UpdateDelete(r)
      PROVE  SessionInv'
  BY <1>5, UpdateDeletePreserves
<1>6. ASSUME NEW r \in Rids, NEW k \in Keys, UpdateInPlace(r, k) \/ UpdateMoves(r, k)
      PROVE  SessionInv'
  BY <1>6, UpdateInPlacePreserves, UpdateMovesPreserves
<1>7. CASE UNCHANGED vars
  BY <1>7, StutterPreserves
<1> QED BY <1>1, <1>2, <1>3, <1>4, <1>5, <1>6, <1>7 DEF Next

\* The invariant of a session, with what the proof of its parts needs: pending deletions
\* belong to a running statement, and a statement's rows stay until it comes to them.
THEOREM SessionCorrect == Spec => []SessionInv
<1>1. Init => SessionInv
  BY SessionInit
<1>2. SessionInv /\ [Next]_vars => SessionInv'
  BY SessionStep
<1> QED BY <1>1, <1>2, PTL DEF Spec

\* VtabBegin replaces the global transaction and there is no xRollback, yet no marked row
\* is ever missing from the write set of the transaction that is committed next.
THEOREM DeletionsApplied == Spec => []NoDeletionForgotten
<1>1. SessionInv => NoDeletionForgotten
  BY DEF SessionInv
<1> QED BY <1>1, SessionCorrect, PTL

\* After every callback the index of a table and its visible rows agree, for the keys
\* whose entries the index did not refuse and whose rows the heap did not refuse.
THEOREM IndexCorrect == Spec => []IndexAgrees
<1>1. SessionInv => IndexAgrees
  BY DEF SessionInv
<1> QED BY <1>1, SessionCorrect, PTL

\* VtabUpdate meets a null transaction only inside of BEGIN ... COMMIT, after a cursor was
\* closed or a table created there.
THEOREM CrashesExplained == Spec => []CrashesOnlyInInterruptedTransaction
<1>1. SessionInv => CrashesOnlyInInterruptedTransaction
  BY DEF SessionInv
<1> QED BY <1>1, SessionCorrect, PTL

\* The variables of the session have their types.
THEOREM SessionTypes == Spec => []TypeOK
<1>1. SessionInv => TypeOK
  BY DEF SessionInv
<1> QED BY <1>1, SessionCorrect, PTL

================================================================================
