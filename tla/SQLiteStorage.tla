---------------------------- MODULE SQLiteStorage ----------------------------
(***************************************************************************)
(* SQLiteStorage: the current block, its state and the undo data in tables *)
(* of an SQLite database, next to the tables of the game.  Writes go       *)
(* through one connection, whose transactions are savepoints; snapshots    *)
(* are read transactions of connections of their own.                      *)
(*                                                                         *)
(* Operators map the record q of the storage to the next one.  SQLite      *)
(* itself is modelled from how the code uses it: a SAVEPOINT outside of    *)
(* another one begins a transaction, a RELEASE of the outermost one        *)
(* commits it, ROLLBACK TO takes the changes back but keeps the savepoint. *)
(***************************************************************************)
EXTENDS Chain, Sequences, SequencesExt

CONSTANTS NoUndoRow, NoKeyword

\* What a database holds, with the game's tables in rows.
SqContents(Rows, Value, Keyword) ==
    [hash   : Block \cup {NoBlock},
     state  : Keyword \cup {NoKeyword},
     undo   : [Block -> SUBSET [key : Rows, old : Value, new : Value] \cup {NoUndoRow}],
     inited : BOOLEAN,
     rows   : [Rows -> Value],
     hashes : [Block -> SUBSET [key : Rows, val : Value] \cup {NoUndoRow}]]

\* SetupSchema on a new file: all tables exist and are empty.
SetupSchema(rows) ==
    [hash |-> NoBlock, state |-> NoKeyword, undo |-> [b \in Block |-> NoUndoRow],
     inited |-> FALSE, rows |-> rows, hashes |-> [b \in Block |-> NoUndoRow]]

\* The storage with its connection: file is what is committed, work what the
\* connection sees, stack what its savepoints go back to.
OpenDatabase(file, wal) ==
    [file |-> file, work |-> file, stack |-> <<>>, wal |-> wal,
     started |-> FALSE, snapshots |-> 0, abort |-> "none"]

\* CHECK(cond) or abort the process for the given reason.
SqChecked(q, cond, why, next) ==
    IF q.abort # "none" THEN q ELSE IF cond THEN next ELSE [q EXCEPT !.abort = why]

----------------------------------------------------------------------------
(* SQLite.                                                                 *)

\* Outside of a transaction, a statement is one of its own.
SqlExecute(q, work) ==
    [q EXCEPT !.work = work, !.file = IF q.stack = <<>> THEN work ELSE @]

SqlSavepoint(q) == [q EXCEPT !.stack = Append(@, q.work)]

SqlRelease(q) ==
    SqChecked(q, q.stack # <<>>, "sql",
              [q EXCEPT !.stack = Front(q.stack),
                        !.file = IF Len(q.stack) = 1 THEN q.work ELSE @])

SqlRollbackTo(q) ==
    SqChecked(q, q.stack # <<>>, "sql", [q EXCEPT !.work = Last(q.stack)])

----------------------------------------------------------------------------
(* Transactions.                                                           *)

SqBeginTransaction(q) ==
    SqChecked(q, ~q.started, "nested", SqlSavepoint([q EXCEPT !.started = TRUE]))

SqCommitTransaction(q) ==
    SqChecked(SqlRelease(q), q.started, "not started", [SqlRelease(q) EXCEPT !.started = FALSE])

SqRollbackTransaction(q) ==
    SqChecked(SqlRollbackTo(q), q.started, "not started",
              [SqlRollbackTo(q) EXCEPT !.started = FALSE])

\* The checkpoint itself, after WaitForSnapshots; SQLite refuses it inside of
\* a transaction of the same connection.
WalCheckpoint(q) == SqChecked(q, ~q.wal \/ q.stack = <<>>, "checkpoint", q)

----------------------------------------------------------------------------
(* The tables of the storage.                                              *)

SetCurrentGameState(q, hash, state) ==
    SqChecked(q, q.started, "not started",
              SqlRelease(SqlExecute(SqlSavepoint(q),
                                    [q.work EXCEPT !.hash = hash, !.state = state])))

AddUndoData(q, hash, undo) ==
    SqChecked(q, q.started, "not started", SqlExecute(q, [q.work EXCEPT !.undo[hash] = undo]))

SqReleaseUndoData(q, hash) ==
    SqChecked(q, q.started, "not started",
              SqlExecute(q, [q.work EXCEPT !.undo[hash] = NoUndoRow]))

SqPruneUndoData(q, height) ==
    SqChecked(q, q.started, "not started",
              SqlExecute(q, [q.work EXCEPT !.undo =
                  [b \in Block |-> IF Height[b] <= height THEN NoUndoRow ELSE q.work.undo[b]]]))

----------------------------------------------------------------------------
(* Snapshots and closing.                                                  *)

GetSnapshot(q) == [q EXCEPT !.snapshots = @ + 1]

UnrefSnapshot(q) ==
    SqChecked(q, q.snapshots > 0, "snapshots", [q EXCEPT !.snapshots = @ - 1])

\* WaitForSnapshots returns once there are none.
NoSnapshots(q) == q.snapshots = 0

\* Clear: close, remove the file and open a new one.  What was not committed
\* is gone with the connection.
SqClear(q, rows) ==
    [OpenDatabase(SetupSchema(rows), q.wal) EXCEPT !.started = q.started, !.abort = q.abort]
=============================================================================
