----------------------------- MODULE SQLiteGame -----------------------------
(***************************************************************************)
(* SQLiteGame, with the non-fungible game on top.  libspex' game state is  *)
(* a keyword only ("initial" or the block); the real state is in the       *)
(* game's rows.  The undo data of a block is the changeset that an SQLite  *)
(* session recorded while the rules ran.                                   *)
(***************************************************************************)
EXTENDS SQLiteStorage, NonFungible

CONSTANTS
    IdsTaken(_),        \* how many automatic ids the rules draw for the moves
    BlockInterval,      \* the processor runs at heights that are BlockModulo
    BlockModulo         \* modulo BlockInterval, never if that is zero

AutoIdRow == <<"autoids">>
GameRows == NFRows \cup {AutoIdRow}
EmptyRows == [k \in GameRows |-> IF k = AutoIdRow THEN NoRow ELSE NFInitialState[k]]

Initial == <<"initial">>
BlockKeyword(b) == <<"block", b>>

----------------------------------------------------------------------------
(* Automatic ids, sessions and changesets.                                 *)

\* ActiveAutoIds: fetch the next id, draw n of them, sync when done.
SyncIds(rows, n) ==
    IF n = 0 THEN rows
    ELSE [rows EXCEPT ![AutoIdRow] = (IF @ = NoRow THEN 1 ELSE @) + n]

\* UpdateState, with the destructor of the active ids.
UpdateState(rows, moves) ==
    LET db == ProcessAll([k \in NFRows |-> rows[k]], moves)
    IN  SyncIds([k \in GameRows |-> IF k = AutoIdRow THEN rows[k] ELSE db[k]],
                IdsTaken(moves))

\* Mutant: the table of automatic ids is not attached to the session.
ExtractChangesetNoIds(old, new) ==
    {[key |-> k, old |-> old[k], new |-> new[k]] : k \in {x \in NFRows : old[x] # new[x]}}

\* The rows that differ, which is what the session records.
ExtractChangeset(old, new) ==
    {[key |-> k, old |-> old[k], new |-> new[k]] : k \in {x \in GameRows : old[x] # new[x]}}

Conflicts(rows, changes) == {c \in changes : rows[c.key] # c.new}

ApplyInverted(rows, changes) ==
    [k \in GameRows |-> IF \E c \in changes : c.key = k
                        THEN (CHOOSE c \in changes : c.key = k).old ELSE rows[k]]

----------------------------------------------------------------------------
(* The state keyword.                                                      *)

\* Whether the contents are those the keyword stands for; "abort" if the
\* tables have not been initialised.
CheckCurrentState(c, state, genesis) ==
    /\ c.hash # NoBlock
    /\ IF state = Initial THEN c.hash = genesis ELSE state = BlockKeyword(c.hash)

EnsureCurrentState(q, state, genesis) ==
    SqChecked(q, CheckCurrentState(q.work, state, genesis) /\ q.work.inited, "state", q)

\* InitialiseGame: once per database, in a transaction of its own.
InitialiseGame(q) ==
    IF q.work.inited THEN q
    ELSE SqlRelease(SqlExecute(SqlSavepoint(q), [q.work EXCEPT !.inited = TRUE]))

----------------------------------------------------------------------------
(* Blocks.                                                                 *)

\* ProcessForward inside the transaction, then the writes of Game.
Forward(q, b, moves, genesis) ==
    LET s    == EnsureCurrentState(q, q.work.state, genesis)
        rows == UpdateState(s.work.rows, moves)
        undo == ExtractChangeset(s.work.rows, rows)
    IN  SetCurrentGameState(AddUndoData(SqlExecute(s, [s.work EXCEPT !.rows = rows]), b, undo),
                            b, BlockKeyword(b))

\* ProcessBackwards likewise; a conflict aborts.
Backward(q, b, genesis) ==
    LET s    == EnsureCurrentState(q, q.work.state, genesis)
        undo == s.work.undo[b]
        back == [s.work EXCEPT !.rows = ApplyInverted(s.work.rows, undo)]
    IN  SqChecked(s, Conflicts(s.work.rows, undo) = {}, "conflict",
                  SqReleaseUndoData(SetCurrentGameState(SqlExecute(s, back), Parent[b],
                                                        BlockKeyword(Parent[b])), b))

\* SQLiteHasher: the hash of the tables that are not internal.  Different
\* tables have different hashes.
Compute(rows) == {[key |-> k, val |-> rows[k]] : k \in {x \in NFRows : rows[x] # NoRow}}

ShouldRun(height) == BlockInterval # 0 /\ height % BlockInterval = BlockModulo

\* A hash that is stored already has to be the same.
Store(q, b, hash) ==
    SqChecked(q, q.work.hashes[b] \in {NoUndoRow, hash}, "hash",
              SqlExecute(q, [q.work EXCEPT !.hashes[b] = hash]))

Process(q, b) ==
    IF ShouldRun(Height[b])
    THEN SqlRelease(Store(SqlSavepoint(q), b, Compute(q.work.rows)))
    ELSE q

GameStateUpdated(q, genesis) ==
    LET s == EnsureCurrentState(q, q.work.state, genesis)
    IN  IF s.abort = "none" THEN Process(s, s.work.hash) ELSE s
=============================================================================
