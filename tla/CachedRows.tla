----------------------------- MODULE CachedRows -----------------------------
(***************************************************************************)
(* core/stores/sqlx/tx.go: transactOnConn, which ends the transaction by   *)
(* what its function did; and the CachedConn of core/stores/sqlc used      *)
(* within one (WithSession): Exec deletes the key of a row before the      *)
(* transaction commits, and a query of the session caches what it sees.    *)
(*                                                                         *)
(* One row, one key, one transaction at a time and one reader outside.     *)
(* The database (external) shows others what is committed.  The reader and *)
(* the session share the single flight of the key, so that one of them is  *)
(* at the cache at a time; Redis does not fail here (see CachedConn).      *)
(***************************************************************************)
EXTENDS Integers, FiniteSets

CONSTANT MaxRowVersion   \* bound: writes

VARIABLES committed,     \* the version of the row that others see
          written,       \* versions written so far
          tx,            \* out, fn, del, query, fill, end
          txRow,         \* the version the transaction has written; 0 is none
          outcome,       \* how fn has ended: nil, error, panic, exit
          txResult,      \* what Transact returned last, and whether it committed
          cached,        \* the key: a version (0 is none), and how it was read
          outside,       \* the reader: out, query, fill
          outsideRow, sessionRow  \* what the two have read

txVars == <<committed, written, tx, txRow, outcome, txResult, cached, outside, outsideRow, sessionRow>>

\* How a row was read: with nobody writing it, before the commit of a write that
\* is under way, or uncommitted.
Row(v, how) == [v |-> v, how |-> how]
NoRow == Row(0, "clean")

TransactInit ==
  /\ committed = 1 /\ written = 1
  /\ tx = "out" /\ txRow = 0 /\ outcome = "none" /\ txResult = <<"none", FALSE>>
  /\ cached = NoRow /\ outside = "out" /\ outsideRow = NoRow /\ sessionRow = NoRow

\* b(conn); when it fails Transact returns its error and nothing has happened.
BeginTx ==
  /\ tx = "out" /\ tx' = "fn" /\ txRow' = 0 /\ outcome' = "none"
  /\ UNCHANGED <<committed, written, txResult, cached, outside, outsideRow, sessionRow>>

\* Exec of the session's CachedConn: the statement.  A reader that has read the
\* row and not cached it yet has read it before this write.
TxExec ==
  /\ tx = "fn" /\ written < MaxRowVersion
  /\ tx' = "del" /\ written' = written + 1 /\ txRow' = written + 1
  /\ outsideRow' = IF outside = "fill" THEN [outsideRow EXCEPT !.how = "early"] ELSE outsideRow
  /\ UNCHANGED <<committed, outcome, txResult, cached, outside, sessionRow>>

\* Mutant of TxDelCache: the key is left to its expiry.
TxKeepsCache ==
  /\ tx = "del" /\ tx' = "fn"
  /\ UNCHANGED <<committed, written, txRow, outcome, txResult, cached, outside, outsideRow, sessionRow>>

TxDelCache ==
  /\ tx = "del" /\ tx' = "fn" /\ cached' = NoRow
  /\ UNCHANGED <<committed, written, txRow, outcome, txResult, outside, outsideRow, sessionRow>>

\* QueryRow of the session's CachedConn, when the key is not there.
SessionMiss ==
  /\ tx = "fn" /\ cached.v = 0 /\ outside = "out" /\ tx' = "query"
  /\ UNCHANGED <<committed, written, txRow, outcome, txResult, cached, outside, outsideRow, sessionRow>>

SessionQuery ==
  /\ tx = "query" /\ tx' = "fill"
  /\ sessionRow' = IF txRow # 0 THEN Row(txRow, "uncommitted") ELSE Row(committed, "clean")
  /\ UNCHANGED <<committed, written, txRow, outcome, txResult, cached, outside, outsideRow>>

SessionFill ==
  /\ tx = "fill" /\ tx' = "fn" /\ cached' = sessionRow
  /\ UNCHANGED <<committed, written, txRow, outcome, txResult, outside, outsideRow, sessionRow>>

\* fn returns, panics, or ends its goroutine with runtime.Goexit.
TxFnEnds ==
  /\ tx = "fn" /\ tx' = "end" /\ outcome' \in {"nil", "error", "panic", "exit"}
  /\ UNCHANGED <<committed, written, txRow, txResult, cached, outside, outsideRow, sessionRow>>

\* Mutant of RollsBack: a panic is not looked for.
RollsBackErrors == outcome = "error"

\* The tests of the deferred function.  A Goexit is no panic and leaves err nil.
RollsBack == outcome \in {"panic", "error"}

\* Rollback, which may fail; the database then gives the transaction up.
TxRollback ==
  /\ tx = "end" /\ RollsBack
  /\ tx' = "out" /\ txRow' = 0 /\ txResult' = <<"error", FALSE>>
  /\ UNCHANGED <<committed, written, outcome, cached, outside, outsideRow, sessionRow>>

\* Commit.  When it fails the write may have been committed or not.
TxCommit ==
  /\ tx = "end" /\ ~RollsBack
  /\ \E ok, done \in BOOLEAN :
       /\ ok => done
       /\ committed' = IF done /\ txRow # 0 THEN txRow ELSE committed
       /\ txResult' = <<IF ok THEN "nil" ELSE "commit failed", done>>
  /\ tx' = "out" /\ txRow' = 0
  /\ UNCHANGED <<written, outcome, cached, outside, outsideRow, sessionRow>>

\* QueryRow outside of the transaction.
OutsideMiss ==
  /\ outside = "out" /\ cached.v = 0 /\ tx \notin {"query", "fill"} /\ outside' = "query"
  /\ UNCHANGED <<committed, written, tx, txRow, outcome, txResult, cached, outsideRow, sessionRow>>

OutsideQuery ==
  /\ outside = "query" /\ outside' = "fill"
  /\ outsideRow' = Row(committed, IF txRow # 0 THEN "early" ELSE "clean")
  /\ UNCHANGED <<committed, written, tx, txRow, outcome, txResult, cached, sessionRow>>

OutsideFill ==
  /\ outside = "fill" /\ outside' = "out" /\ cached' = outsideRow
  /\ UNCHANGED <<committed, written, tx, txRow, outcome, txResult, outsideRow, sessionRow>>

KeyExpires ==
  /\ cached.v # 0 /\ cached' = NoRow
  /\ UNCHANGED <<committed, written, tx, txRow, outcome, txResult, outside, outsideRow, sessionRow>>

TransactNext ==
  \/ BeginTx \/ TxExec \/ TxDelCache \/ SessionMiss \/ SessionQuery \/ SessionFill
  \/ TxFnEnds \/ TxRollback \/ TxCommit
  \/ OutsideMiss \/ OutsideQuery \/ OutsideFill \/ KeyExpires

TransactSpec == TransactInit /\ [][TransactNext]_txVars

-----------------------------------------------------------------------------
\* Transact tells the truth: nil means committed, and a function that has failed
\* or panicked is never committed, whatever Rollback returns.
TransactHonest ==
  tx = "out" =>
    /\ txResult[1] = "nil" => txResult[2]
    /\ outcome \in {"error", "panic"} => txResult = <<"error", FALSE>>

\* After a transaction the key has what is committed, if the row was read with no
\* write of it under way.  Exec deletes the key before the commit, so a row
\* that is read in between stays, and so does one the session has cached; that
\* is what WithSession warns of.
CommittedCached == tx = "out" /\ cached.v # 0 /\ cached.how = "clean" => cached.v = committed

\* A transaction is committed or rolled back as its function ended, and the rows
\* it leaves in the cache are the committed ones, but for the two that are read
\* too early.
TransactSound == TransactHonest /\ CommittedCached

(***************************************************************************)
(* core/stores/sqlc/cachedsql.go: QueryRowIndexCtx, which finds a row by   *)
(* another column than its primary key, with two keys in the cache: the    *)
(* primary key of the row that has the value, and the row.                 *)
(*                                                                         *)
(* One value of the column, which one of the rows has; Exec gives it to    *)
(* another.  The readers are in different processes, so that no single     *)
(* flight holds one back.  A cached row is whether it has the value.       *)
(***************************************************************************)
CONSTANTS IndexReaders, RowIds,
          NoEntry,
          MaxMoves        \* bound: writes

VARIABLES holder,          \* the row with the value
          indexKey,       \* the key of the value: [row, clean]; NoEntry is none
          rowKeys,        \* the keys of the rows: [has, clean]
          mover,          \* the writer: out, or delete
          moves,
          indexReader,    \* out, query, setRow, setIndex, row, primary, fill
          sought,         \* the primary key a reader has
          readRow         \* what it has read: [has, clean]

indexVars == <<holder, indexKey, rowKeys, mover, moves, indexReader, sought, readRow>>

IndexInit ==
  /\ holder = CHOOSE r \in RowIds : TRUE
  /\ indexKey = NoEntry /\ rowKeys = [r \in RowIds |-> NoEntry]
  /\ mover = "out" /\ moves = 0
  /\ indexReader = [p \in IndexReaders |-> "out"]
  /\ sought = [p \in IndexReaders |-> holder]
  /\ readRow = [p \in IndexReaders |-> [has |-> FALSE, clean |-> FALSE]]

ReaderAt(p, s) == indexReader' = [indexReader EXCEPT ![p] = s]
Seeks(p, r) == sought' = [sought EXCEPT ![p] = r]
Reads(p, has) == readRow' = [readRow EXCEPT ![p] = [has |-> has, clean |-> TRUE]]

\* TakeWithExpire of the key of the value.
QueryRowIndex(p) ==
  /\ indexReader[p] = "out"
  /\ IF indexKey = NoEntry THEN ReaderAt(p, "query") /\ UNCHANGED sought
     ELSE ReaderAt(p, "row") /\ Seeks(p, indexKey.row)
  /\ UNCHANGED <<holder, indexKey, rowKeys, mover, moves, readRow>>

IndexQuery(p) ==
  /\ indexReader[p] = "query"
  /\ ReaderAt(p, "setRow") /\ Seeks(p, holder) /\ Reads(p, TRUE)
  /\ UNCHANGED <<holder, indexKey, rowKeys, mover, moves>>

\* SetWithExpire of the row.  Its error is the error of the call, and the key of
\* the value is not set.
SetRowKey(p) ==
  /\ indexReader[p] = "setRow"
  /\ \/ ReaderAt(p, "setIndex") /\ rowKeys' = [rowKeys EXCEPT ![sought[p]] = readRow[p]]
     \/ ReaderAt(p, "out") /\ UNCHANGED rowKeys
  /\ UNCHANGED <<holder, indexKey, mover, moves, sought, readRow>>

\* cacheVal of the key of the value; an error is logged.
SetIndexKey(p) ==
  /\ indexReader[p] = "setIndex" /\ ReaderAt(p, "out")
  /\ \/ indexKey' = [row |-> sought[p], clean |-> readRow[p].clean]
     \/ UNCHANGED indexKey
  /\ UNCHANGED <<holder, rowKeys, mover, moves, sought, readRow>>

\* The value was cached: Take of the row.
TakeRow(p) ==
  /\ indexReader[p] = "row"
  /\ ReaderAt(p, IF rowKeys[sought[p]] = NoEntry THEN "primary" ELSE "out")
  /\ UNCHANGED <<holder, indexKey, rowKeys, mover, moves, sought, readRow>>

PrimaryQuery(p) ==
  /\ indexReader[p] = "primary"
  /\ ReaderAt(p, "fill") /\ Reads(p, holder = sought[p])
  /\ UNCHANGED <<holder, indexKey, rowKeys, mover, moves, sought>>

FillRow(p) ==
  /\ indexReader[p] = "fill" /\ ReaderAt(p, "out")
  /\ \/ rowKeys' = [rowKeys EXCEPT ![sought[p]] = readRow[p]]
     \/ UNCHANGED rowKeys
  /\ UNCHANGED <<holder, indexKey, mover, moves, sought, readRow>>

\* ExecCtx: the statement, and then the keys of the value and of the rows.
MoveIndex(r) ==
  /\ mover = "out" /\ moves < MaxMoves /\ r # holder
  /\ holder' = r /\ mover' = "delete" /\ moves' = moves + 1
  /\ readRow' = [p \in IndexReaders |-> [readRow[p] EXCEPT !.clean = FALSE]]
  /\ UNCHANGED <<indexKey, rowKeys, indexReader, sought>>

\* Mutant of DeleteKeys: only the keys of the rows.
DeleteRowKeys ==
  /\ mover = "delete" /\ mover' = "out"
  /\ rowKeys' = [r \in RowIds |-> NoEntry]
  /\ UNCHANGED <<holder, indexKey, moves, indexReader, sought, readRow>>

DeleteKeys ==
  /\ mover = "delete" /\ mover' = "out"
  /\ indexKey' = NoEntry /\ rowKeys' = [r \in RowIds |-> NoEntry]
  /\ UNCHANGED <<holder, moves, indexReader, sought, readRow>>

IndexKeyExpires ==
  /\ indexKey # NoEntry /\ indexKey' = NoEntry
  /\ UNCHANGED <<holder, rowKeys, mover, moves, indexReader, sought, readRow>>

RowKeyExpires(r) ==
  /\ rowKeys[r] # NoEntry /\ rowKeys' = [rowKeys EXCEPT ![r] = NoEntry]
  /\ UNCHANGED <<holder, indexKey, mover, moves, indexReader, sought, readRow>>

IndexNext ==
  \/ \E p \in IndexReaders :
       \/ QueryRowIndex(p) \/ IndexQuery(p) \/ SetRowKey(p) \/ SetIndexKey(p)
       \/ TakeRow(p) \/ PrimaryQuery(p) \/ FillRow(p)
  \/ DeleteKeys \/ IndexKeyExpires
  \/ \E r \in RowIds : MoveIndex(r) \/ RowKeyExpires(r)

\* With no write under way, the two keys lead to the row that has the value: the
\* key of the value to that row, and the key of a row to what is in the table,
\* unless they were filled with what a reader had read before a write.
IndexCurrent ==
  mover = "out" =>
    /\ indexKey # NoEntry /\ indexKey.clean => indexKey.row = holder
    /\ \A r \in RowIds : rowKeys[r] # NoEntry /\ rowKeys[r].clean => rowKeys[r].has = (holder = r)
=============================================================================
