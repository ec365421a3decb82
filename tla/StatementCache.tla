---------------------------- MODULE StatementCache ----------------------------
(***************************************************************************)
(* The cache of prepared statements of an SQLiteDatabase, shared by the    *)
(* threads that use one connection (the RPC threads of a snapshot do).     *)
(*                                                                         *)
(* An entry is an sqlite3_stmt with its bound parameter, its position in   *)
(* the rows of its result and the flag that reserves it.  A Statement      *)
(* object (a handle) refers to an entry; each thread has some of them and  *)
(* moves one into another.  view records what the thread has done with its *)
(* statement, which is what it takes the statement to be.                  *)
(***************************************************************************)
EXTENDS Naturals, Sequences, FiniteSets

CONSTANTS Users,       \* threads that use the database
          Slots,       \* [Users -> set of its Statement objects]
          Sqls,        \* SQL strings
          Values,      \* values of the parameter
          RowsFor,     \* [Values -> number of rows of the result]
          Unbound,
          NoSql

Handles == UNION {{u} \X Slots[u] : u \in Users}

ASSUME StatementsAssumption ==
    /\ IsFiniteSet(Handles)
    /\ RowsFor \in [Values -> Nat]
    /\ NoSql \notin Sqls

VARIABLES cache,       \* preparedStatements
          handle,      \* the Statement objects
          view,        \* what the thread knows of each of them
          stmtAbort    \* a CHECK that failed

cacheVars == <<cache, handle, view, stmtAbort>>

\* A statement as prepared: nothing bound, no row read.
NewStmt == [bound |-> Unbound, at |-> 0]

\* CachedStatement, as PrepareRo makes it: taken by its maker.
CachedStatement(sql) == [sql |-> sql, used |-> TRUE, stmt |-> NewStmt]

\* A Statement that refers to nothing.
EmptyStatement == [entry |-> 0, sql |-> NoSql]

StatementsInit ==
    /\ cache = <<>>
    /\ handle = [h \in Handles |-> EmptyStatement]
    /\ view = [h \in Handles |-> NewStmt]
    /\ stmtAbort = FALSE

Holds(h) == handle[h].entry # 0
Preparing(h) == ~Holds(h) /\ handle[h].sql # NoSql
Empty(h) == handle[h] = EmptyStatement

\* sqlite3_step: the next row, the end, or from the end the first row again.
NextRow(stmt) ==
    LET rows == IF stmt.bound = Unbound THEN 0 ELSE RowsFor[stmt.bound]
    IN  [stmt EXCEPT !.at = IF stmt.at > rows THEN 1 ELSE stmt.at + 1]

\* What the columns of the current row show.
Get(stmt) == <<stmt.bound, stmt.at>>

----------------------------------------------------------------------------
(* PrepareRo.                                                              *)

FreeEntries(sql) == {e \in DOMAIN cache : cache[e].sql = sql /\ ~cache[e].used}

\* Mutant: the reused statement stays where its last user left it.
ReusedAsIs(e) == [cache EXCEPT ![e].used = TRUE]

\* clear_bindings and Reset on the statement that is given out again.
Reused(e) == [cache EXCEPT ![e] = [@ EXCEPT !.used = TRUE, !.stmt = NewStmt]]

\* Under mutPreparedStatements: take a free entry, or find that a statement
\* has to be prepared, which is done without the lock.
PrepareRo(h, sql) ==
    /\ Empty(h)
    /\ IF FreeEntries(sql) # {}
       THEN \E e \in FreeEntries(sql) :
              /\ cache' = Reused(e)
              /\ handle' = [handle EXCEPT ![h] = [entry |-> e, sql |-> sql]]
       ELSE /\ handle' = [handle EXCEPT ![h].sql = sql]
            /\ UNCHANGED cache
    /\ view' = [view EXCEPT ![h] = NewStmt]
    /\ UNCHANGED stmtAbort

\* The new entry goes into the cache, whatever was freed in between.
EmplaceStatement(h) ==
    /\ Preparing(h)
    /\ cache' = Append(cache, CachedStatement(handle[h].sql))
    /\ handle' = [handle EXCEPT ![h].entry = Len(cache) + 1]
    /\ UNCHANGED <<view, stmtAbort>>

----------------------------------------------------------------------------
(* Use of a statement.                                                     *)

\* SQLite refuses to bind to a statement that runs, and Bind then aborts.
Bind(h, val) ==
    /\ Holds(h)
    /\ view[h].at = 0
    /\ stmtAbort' = (stmtAbort \/ cache[handle[h].entry].stmt.at # 0)
    /\ cache' = [cache EXCEPT ![handle[h].entry].stmt.bound = val]
    /\ view' = [view EXCEPT ![h].bound = val]
    /\ UNCHANGED handle

Step(h) ==
    /\ Holds(h)
    /\ cache' = [cache EXCEPT ![handle[h].entry].stmt = NextRow(@)]
    /\ view' = [view EXCEPT ![h] = NextRow(@)]
    /\ UNCHANGED <<handle, stmtAbort>>

\* Reset keeps what is bound.
ResetStatement(h) ==
    /\ Holds(h)
    /\ view[h].at # 0
    /\ cache' = [cache EXCEPT ![handle[h].entry].stmt.at = 0]
    /\ view' = [view EXCEPT ![h].at = 0]
    /\ UNCHANGED <<handle, stmtAbort>>

\* Clear: the entry may be taken again; it is not reset yet.
Released(c, h) == IF Holds(h) THEN [c EXCEPT ![handle[h].entry].used = FALSE] ELSE c

\* operator= (Statement&&) within a thread: what the target held is released.
MoveStatement(from, to) ==
    /\ from[1] = to[1] /\ from # to
    /\ Holds(from) /\ ~Preparing(to)
    /\ cache' = Released(cache, to)
    /\ handle' = [handle EXCEPT ![to] = handle[from], ![from] = EmptyStatement]
    /\ view' = [view EXCEPT ![to] = view[from], ![from] = NewStmt]
    /\ UNCHANGED stmtAbort

\* ~Statement.
DestroyStatement(h) ==
    /\ Holds(h)
    /\ cache' = Released(cache, h)
    /\ handle' = [handle EXCEPT ![h] = EmptyStatement]
    /\ view' = [view EXCEPT ![h] = NewStmt]
    /\ UNCHANGED stmtAbort

\* ClearStatementCache when the database is closed, which happens when no
\* thread refers to it any more; ~CachedStatement checks the flag.
ClearStatementCache ==
    /\ cache # <<>>
    /\ \A h \in Handles : Empty(h)
    /\ stmtAbort' = (stmtAbort \/ \E e \in DOMAIN cache : cache[e].used)
    /\ cache' = <<>>
    /\ UNCHANGED <<handle, view>>

StatementsNext ==
    \/ \E h \in Handles :
          \/ \E sql \in Sqls : PrepareRo(h, sql)
          \/ EmplaceStatement(h) \/ Step(h) \/ ResetStatement(h) \/ DestroyStatement(h)
          \/ \E val \in Values : Bind(h, val)
          \/ \E to \in Handles : MoveStatement(h, to)
    \/ ClearStatementCache

StatementsSpec == StatementsInit /\ [][StatementsNext]_cacheVars

----------------------------------------------------------------------------
(* Properties.                                                             *)

\* A prepared statement belongs to one Statement object at a time, and what
\* other users of the cache did with it before or do meanwhile never shows:
\* its parameter and its row are the ones of its holder.  Every reserved entry
\* has a holder, no CHECK fails, and the cache has at most as many entries of
\* one SQL string as there are Statement objects (PrepareRo, Statement::Clear).
StatementsExclusive ==
    /\ ~stmtAbort
    /\ \A h \in Handles : Holds(h) =>
          /\ cache[handle[h].entry].used
          /\ cache[handle[h].entry].sql = handle[h].sql
          /\ Get(cache[handle[h].entry].stmt) = Get(view[h])
          /\ \A g \in Handles \ {h} : handle[g].entry # handle[h].entry
    /\ \A e \in DOMAIN cache : cache[e].used => \E h \in Handles : handle[h].entry = e
    /\ \A sql \in Sqls :
          Cardinality({e \in DOMAIN cache : cache[e].sql = sql}) <= Cardinality(Handles)
=============================================================================
