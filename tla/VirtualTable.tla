----------------------------- MODULE VirtualTable -----------------------------
(***************************************************************************)
(* The SQLite extension (vtable/virtual_table.cpp, virtual_table.h): the   *)
(* callbacks of the virtual tables of one connection and the one global    *)
(* transaction they share.                                                 *)
(*                                                                         *)
(* A statement is a series of callbacks.  SQLite gives the order: a        *)
(* statement that writes has OP_VBegin, which calls xBegin unless the      *)
(* table is in db->aVTrans already; UPDATE and DELETE open a cursor,       *)
(* collect the rows, and only then call xUpdate for each; when the         *)
(* statement halts its cursors are closed, and then, outside of BEGIN ...  *)
(* COMMIT, xCommit is called for the tables of aVTrans.  A statement that  *)
(* writes runs in one call of sqlite3_step; a SELECT can stay half read.   *)
(* There is no xRollback.                                                  *)
(*                                                                         *)
(* A row is its indexed key.  Pages, latches and the index tree are the    *)
(* business of TableHeap and BPlusTree.                                    *)
(***************************************************************************)
EXTENDS FiniteSets

CONSTANTS
  Tables,
  Indexed,    \* the tables that have an index
  Keys,
  Rids,       \* the places for rows of a table
  NoRow,
  NoRid,      \* the index has no entry
  Invalid,    \* the rid (INVALID_PAGE_ID, -1)
  nullptr

ASSUME TablesAssumption ==
  /\ Indexed \subseteq Tables
  /\ NoRid \notin Rids /\ Invalid \notin Rids /\ NoRid # Invalid
  /\ NoRow \notin [key : Keys, marked : BOOLEAN]
  /\ \A deletions \in SUBSET (Tables \X Rids) : deletions # nullptr

VARIABLES
  tables,       \* the tables that exist
  engine,       \* *storage_engine_: "live" or "deleted"
  rows,         \* the table heaps: table -> rid -> row, which may be marked as deleted
  index,        \* the indexes: table -> key -> rid
  transaction,  \* global_transaction_: nullptr, or the deletions it has to apply
  autoCommit,   \* SQLite: no BEGIN is open
  aVTrans,      \* SQLite: the tables xCommit is to be called for
  cursors,      \* the tables that a SELECT is reading
  stmt,         \* the statement that writes
  crashed,      \* a null or dangling pointer has been used
  interrupted,  \* history: since BEGIN a cursor was closed or a table created
  spoiled       \* history: table -> keys with a refused entry or a failed insert

dbVars == <<autoCommit, aVTrans>>
dataVars == <<rows, index, spoiled>>
vars == <<tables, engine, dataVars, transaction, dbVars, cursors, stmt, crashed, interrupted>>

Row == [key : Keys, marked : BOOLEAN]

Idle == [kind |-> "none", todo |-> {}]

Statement == {Idle} \cup [kind : {"insert", "change"}, table : Tables, todo : SUBSET Rids]

TypeOK ==
  /\ tables \subseteq Tables
  /\ engine \in {"live", "deleted"}
  /\ rows \in [Tables -> [Rids -> Row \cup {NoRow}]]
  /\ index \in [Tables -> [Keys -> Rids \cup {NoRid, Invalid}]]
  /\ transaction \in {nullptr} \cup SUBSET (Tables \X Rids)
  /\ autoCommit \in BOOLEAN
  /\ aVTrans \subseteq Tables
  /\ cursors \subseteq Tables
  /\ stmt \in Statement
  /\ crashed \in BOOLEAN /\ interrupted \in BOOLEAN
  /\ spoiled \in [Tables -> SUBSET Keys]

EmptyHeap == [r \in Rids |-> NoRow]
EmptyIndex == [k \in Keys |-> NoRid]

Init ==
  /\ tables = {}
  /\ engine = "live"
  /\ rows = [t \in Tables |-> EmptyHeap]
  /\ index = [t \in Tables |-> EmptyIndex]
  /\ transaction = nullptr
  /\ autoCommit = TRUE
  /\ aVTrans = {}
  /\ cursors = {}
  /\ stmt = Idle
  /\ crashed = FALSE
  /\ interrupted = FALSE
  /\ spoiled = [t \in Tables |-> {}]

Visible(t) == {r \in Rids : rows[t][r] # NoRow /\ ~rows[t][r].marked}

-----------------------------------------------------------------------------
(* Callbacks. *)

\* Begin and Commit of the transaction manager.
NewTransaction == {}

\* The deletions of the transaction are applied.
AfterCommit(heaps) ==
  IF transaction = nullptr THEN heaps
  ELSE [t \in Tables |-> [r \in Rids |->
          IF <<t, r>> \in transaction THEN NoRow ELSE heaps[t][r]]]

VtabCommit ==
  /\ rows' = AfterCommit(rows)
  /\ transaction' = nullptr

\* xBegin replaces the transaction there is.
VtabBegin == NewTransaction

\* VtabOpen begins one only if there is none.
VtabOpen(current) == IF current = nullptr THEN VtabBegin ELSE current

\* OP_VBegin.
OP_VBegin(t) == IF t \in aVTrans THEN transaction ELSE VtabBegin

\* Mutant: the transaction is left to xCommit.
CloseWithoutCommit == UNCHANGED <<rows, transaction>>

VtabClose == VtabCommit

DeleteEntry(entries, t, k) ==
  IF t \in Indexed THEN [entries EXCEPT ![t][k] = NoRid] ELSE entries

\* The index takes a key once.
InsertEntry(entries, t, k, r) ==
  IF t \in Indexed /\ entries[t][k] = NoRid THEN [entries EXCEPT ![t][k] = r] ELSE entries

\* History of an insertion of key k.
Spoils(entries, t, k, failed) ==
  spoiled' = IF failed \/ entries[t][k] # NoRid
             THEN [spoiled EXCEPT ![t] = @ \cup {k}] ELSE spoiled

-----------------------------------------------------------------------------
(* SQLite: statements, and the callbacks they make. *)

\* SQLite is between two statements.
Between == ~crashed /\ stmt = Idle

\* Nothing of the extension can be used when the engine is gone.
Crash ==
  /\ crashed' = TRUE
  /\ UNCHANGED <<tables, engine, dataVars, transaction, dbVars, cursors, stmt, interrupted>>

\* Every callback but a commit without a transaction uses it.
UseAfterDelete ==
  /\ Between
  /\ engine = "deleted"
  /\ Crash

Begin ==
  /\ Between
  /\ autoCommit
  /\ autoCommit' = FALSE
  /\ interrupted' = FALSE
  /\ UNCHANGED <<tables, engine, dataVars, transaction, aVTrans, cursors, stmt, crashed>>

\* xCommit is called for every table of aVTrans.
FinalCommit ==
  /\ IF aVTrans # {} THEN VtabCommit ELSE UNCHANGED <<rows, transaction>>
  /\ aVTrans' = {}

Commit ==
  /\ Between
  /\ ~autoCommit
  /\ engine = "live" \/ aVTrans = {} \/ transaction = nullptr
  /\ autoCommit' = TRUE
  /\ FinalCommit
  /\ UNCHANGED <<tables, engine, index, spoiled, cursors, stmt, crashed, interrupted>>

\* No callback is called.
Rollback ==
  /\ Between
  /\ ~autoCommit
  /\ autoCommit' = TRUE
  /\ aVTrans' = {}
  /\ UNCHANGED <<tables, engine, dataVars, transaction, cursors, stmt, crashed, interrupted>>

\* CREATE VIRTUAL TABLE.  SQLite adds the table to aVTrans without a call of xBegin.
VtabCreate(t) ==
  /\ Between
  /\ engine = "live"
  /\ t \notin tables
  /\ tables' = tables \cup {t}
  /\ IF autoCommit
     THEN VtabCommit /\ UNCHANGED aVTrans
     ELSE aVTrans' = aVTrans \cup {t} /\ UNCHANGED <<rows, transaction>>
  /\ interrupted' = TRUE
  /\ UNCHANGED <<engine, index, spoiled, autoCommit, cursors, stmt, crashed>>

\* DROP TABLE, inside of BEGIN or not, which SQLite refuses while the table is read; no
\* xCommit is called for the table any more.  VtabDisconnect deletes the engine of all tables.
VtabDisconnect(t) ==
  /\ Between
  /\ engine = "live"
  /\ t \in tables \ cursors
  /\ tables' = tables \ {t}
  /\ engine' = "deleted"
  /\ aVTrans' = aVTrans \ {t}
  /\ UNCHANGED <<dataVars, transaction, autoCommit, cursors, stmt, crashed, interrupted>>

\* A SELECT begins, and is over or reset.
SelectOpen(t) ==
  /\ Between
  /\ engine = "live"
  /\ t \in tables \ cursors
  /\ transaction' = VtabOpen(transaction)
  /\ cursors' = cursors \cup {t}
  /\ UNCHANGED <<tables, engine, dataVars, dbVars, stmt, crashed, interrupted>>

SelectClose(t) ==
  /\ Between
  /\ engine = "live"
  /\ t \in cursors
  /\ cursors' = cursors \ {t}
  /\ VtabClose
  /\ interrupted' = TRUE
  /\ UNCHANGED <<tables, engine, index, spoiled, dbVars, stmt, crashed>>

\* INSERT: OP_VBegin.
InsertStart(t) ==
  /\ Between
  /\ engine = "live"
  /\ t \in tables
  /\ transaction' = OP_VBegin(t)
  /\ aVTrans' = aVTrans \cup {t}
  /\ stmt' = [kind |-> "insert", table |-> t, todo |-> {}]
  /\ UNCHANGED <<tables, engine, dataVars, autoCommit, cursors, crashed, interrupted>>

\* UPDATE and DELETE: OP_VBegin, OP_VOpen, and the rows are collected.
ChangeStart(t) ==
  /\ Between
  /\ engine = "live"
  /\ t \in tables
  /\ transaction' = VtabOpen(OP_VBegin(t))
  /\ aVTrans' = aVTrans \cup {t}
  /\ \E found \in SUBSET Visible(t) :
       stmt' = [kind |-> "change", table |-> t, todo |-> found]
  /\ UNCHANGED <<tables, engine, dataVars, autoCommit, cursors, crashed, interrupted>>

\* VtabUpdate without a transaction: its write set is asked for all the same.
UpdateCrashes ==
  /\ ~crashed
  /\ \/ stmt.kind = "insert"
     \/ stmt.kind = "change" /\ stmt.todo # {}
  /\ transaction = nullptr
  /\ Crash

\* Mutant: every row is committed by itself.
UpdateCommitsEach(newRows, entries, deleted, done) ==
  /\ rows' = [rows EXCEPT ![stmt.table] = newRows]
  /\ index' = entries
  /\ transaction' = nullptr
  /\ stmt' = [stmt EXCEPT !.todo = @ \ done]
  /\ UNCHANGED <<tables, engine, dbVars, cursors, crashed, interrupted>>

\* VtabUpdate writes the rows and the entries of the table of stmt.
Update(newRows, entries, deleted, done) ==
  /\ rows' = [rows EXCEPT ![stmt.table] = newRows]
  /\ index' = entries
  /\ transaction' = transaction \cup ({stmt.table} \X deleted)
  /\ stmt' = [stmt EXCEPT !.todo = @ \ done]
  /\ UNCHANGED <<tables, engine, dbVars, cursors, crashed, interrupted>>

Updates(kind) == ~crashed /\ stmt.kind = kind /\ transaction # nullptr

NewRow(k) == [key |-> k, marked |-> FALSE]

\* Mutant: with no place the rid is not initialised.
UninitialisedPlace(t, otherwise) ==
  IF {r \in Rids : rows[t][r] = NoRow} = {} THEN {NoRow} ELSE {r \in Rids : rows[t][r] = NoRow}

\* The places InsertTuple can choose; with none it returns false and Invalid stays in
\* the rid.
Places(t, otherwise) ==
  LET free == {r \in Rids : rows[t][r] = NoRow}
  IN  IF free = {} THEN {otherwise} ELSE free

\* VtabUpdate with a new row.  That InsertTuple fails is not looked at.
UpdateInsert(k) ==
  /\ Updates("insert")
  /\ \E r \in Places(stmt.table, Invalid) :
       /\ Update([q \in Rids |-> IF q = r THEN NewRow(k) ELSE rows[stmt.table][q]],
                 InsertEntry(index, stmt.table, k, r), {}, {})
       /\ Spoils(index, stmt.table, k, r = Invalid)

\* VtabUpdate with a row to delete.
UpdateDelete(r) ==
  /\ Updates("change")
  /\ r \in stmt.todo
  /\ Update([rows[stmt.table] EXCEPT ![r].marked = TRUE],
            DeleteEntry(index, stmt.table, rows[stmt.table][r].key), {r}, {r})
  /\ UNCHANGED spoiled

\* Mutant: the entry is deleted when the row has its new key.
DeletesNewEntry(t, r, q, k) == InsertEntry(DeleteEntry(index, t, k), t, k, q)

\* The entries after an update of the row at r, which is at q then.
EntriesAfterUpdate(t, r, q, k) ==
  InsertEntry(DeleteEntry(index, t, rows[t][r].key), t, k, q)

\* VtabUpdate with a row to change, which keeps its place.
UpdateInPlace(r, k) ==
  LET t == stmt.table IN
  /\ Updates("change")
  /\ r \in stmt.todo
  /\ Update([rows[t] EXCEPT ![r] = NewRow(k)], EntriesAfterUpdate(t, r, r, k), {}, {r})
  /\ Spoils(DeleteEntry(index, t, rows[t][r].key), t, k, FALSE)

\* The page has no room for the changed row: it is deleted and inserted elsewhere.  If
\* that fails too the rid stays what it was.
UpdateMoves(r, k) ==
  LET t == stmt.table IN
  /\ Updates("change")
  /\ r \in stmt.todo
  /\ \E q \in Places(t, r) :
       /\ Update([p \in Rids |-> IF p = r THEN [rows[t][r] EXCEPT !.marked = TRUE]
                                 ELSE IF p = q THEN NewRow(k) ELSE rows[t][p]],
                 EntriesAfterUpdate(t, r, q, k), {r}, {r})
       /\ Spoils(DeleteEntry(index, t, rows[t][r].key), t, k, q = r)

\* The statement halts: its cursor is closed, and outside of BEGIN xCommit is called.
Halt ==
  /\ ~crashed
  /\ stmt # Idle
  /\ stmt.todo = {}
  /\ IF stmt.kind = "change" THEN VtabClose
     ELSE IF autoCommit THEN VtabCommit
     ELSE UNCHANGED <<rows, transaction>>
  /\ aVTrans' = IF autoCommit THEN {} ELSE aVTrans
  /\ interrupted' = (interrupted \/ stmt.kind = "change")
  /\ stmt' = Idle
  /\ UNCHANGED <<tables, engine, index, spoiled, autoCommit, cursors, crashed>>

Next ==
  \/ Begin \/ Commit \/ Rollback \/ UseAfterDelete \/ UpdateCrashes \/ Halt
  \/ \E t \in Tables :
       \/ VtabCreate(t) \/ VtabDisconnect(t) \/ SelectOpen(t) \/ SelectClose(t)
       \/ InsertStart(t) \/ ChangeStart(t)
  \/ \E k \in Keys : UpdateInsert(k)
  \/ \E r \in Rids :
       \/ UpdateDelete(r)
       \/ \E k \in Keys : UpdateInPlace(r, k) \/ UpdateMoves(r, k)

Spec == Init /\ [][Next]_vars

-----------------------------------------------------------------------------
(* Properties. *)

\* A lookup of a key finds the row that has it, and nothing else: after every callback
\* the entries of an index and the rows of its table agree, for every key that no
\* InsertEntry was refused for and no InsertTuple failed for.
IndexAgrees ==
  \A t \in Indexed, k \in Keys : k \notin spoiled[t] =>
    \A r \in Rids : index[t][k] = r <=> r \in Visible(t) /\ rows[t][r].key = k

\* No deletion is forgotten, although VtabBegin replaces the transaction there is and
\* ROLLBACK leaves it behind: a row that is marked as deleted is in the write set of the
\* transaction that is going to be committed.
NoDeletionForgotten ==
  \A t \in Tables, r \in Rids :
    rows[t][r] # NoRow /\ rows[t][r].marked => transaction # nullptr /\ <<t, r>> \in transaction

\* A statement finds no transaction only between BEGIN and COMMIT, after a statement with a
\* cursor or a CREATE; anything else that goes wrong comes after a DROP TABLE.
CrashesOnlyInInterruptedTransaction ==
  crashed /\ engine = "live" => ~autoCommit /\ interrupted
================================================================================
