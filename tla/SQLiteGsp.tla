------------------------------ MODULE SQLiteGsp ------------------------------
(***************************************************************************)
(* A GSP on SQLite.  Game's handlers run one at a time under its mutex;    *)
(* "stage" is where the current one is, "idle" when the mutex is free.     *)
(* RPC threads (GetCustomStateData) take the mutex to get a snapshot and   *)
(* read from it without the mutex.  A checkpoint of the WAL file and the   *)
(* clearing of the database wait for all snapshots, with the mutex held.   *)
(*                                                                         *)
(* TransactionManager is abstracted to what it does to the storage: a      *)
(* transaction may stay open for the next block (flush = FALSE), and a     *)
(* rollback takes the whole batch.                                         *)
(***************************************************************************)
EXTENDS SQLiteGame

CONSTANTS
    FirstBlock,        \* the block of the initial state
    Games,          \* the moves of each block, and whether WAL mode is on
    Reader,         \* the RPC threads
    MaxThrows       \* bound on exceptions from the rules

ASSUME SqlAssumption ==
    /\ FirstBlock \in Block
    /\ IsFiniteSet(Reader)
    /\ MaxThrows \in Nat
    /\ \A g \in Games : g.wal \in BOOLEAN

VARIABLES
    sq,             \* the storage
    stage,
    calls,          \* per reader the block announced and the rows it reads
    blockMoves,     \* the moves of each block
    throws

sqlVars == <<sq, stage, calls, blockMoves, throws>>

Idle == stage = "idle" /\ sq.abort = "none"

NoCall == [phase |-> "none", block |-> NoBlock, rows |-> EmptyRows]

\* The rows that a replay of the chain gives.
Replay(moves) ==
    LET rows[b \in Block] == IF b = FirstBlock \/ Parent[b] = NoBlock THEN EmptyRows
                             ELSE UpdateState(rows[Parent[b]], moves[b])
    IN  rows

SqlInit ==
    /\ \E g \in Games : /\ sq = OpenDatabase(SetupSchema(EmptyRows), g.wal)
                        /\ blockMoves = g.moves
    /\ stage = "idle"
    /\ calls = [r \in Reader |-> NoCall]
    /\ throws = 0

\* The transaction manager begins a transaction unless one is open.
Begun(q) == IF q.started THEN q ELSE SqBeginTransaction(q)
Aborted(q) == IF q.started THEN SqRollbackTransaction(q) ELSE q

\* Commit or keep the batch open; a commit may be followed by a checkpoint.
Finish(q, flush, due) ==
    /\ sq' = IF flush THEN SqCommitTransaction(q) ELSE q
    /\ stage' = IF flush /\ due THEN "checkpoint" ELSE "committed"

Attach(b, flush, due) ==
    /\ Idle /\ sq.work.hash # NoBlock /\ Parent[b] = sq.work.hash
    /\ Finish(Forward(Begun(sq), b, blockMoves[b], FirstBlock), flush, due)
    /\ UNCHANGED <<calls, blockMoves, throws>>

\* UpdateState throws after some changes, and the transaction is rolled back.
AttachThrows(b) ==
    /\ Idle /\ sq.work.hash # NoBlock /\ Parent[b] = sq.work.hash
    /\ throws < MaxThrows
    /\ sq' = LET q == Begun(sq)
             IN  SqRollbackTransaction(SqlExecute(q,
                     [q.work EXCEPT !.rows = UpdateState(@, blockMoves[b])]))
    /\ throws' = throws + 1
    /\ UNCHANGED <<stage, calls, blockMoves>>

Detach(b, flush, due) ==
    /\ Idle /\ sq.work.hash = b /\ b # FirstBlock /\ sq.work.undo[b] # NoUndoRow
    /\ Finish(Backward(Begun(sq), b, FirstBlock), flush, due)
    /\ UNCHANGED <<calls, blockMoves, throws>>

\* The pruning queue's own transaction.
Prune(flush, due) ==
    /\ Idle /\ sq.work.hash # NoBlock
    /\ \E b \in Block : sq.work.undo[b] # NoUndoRow
    /\ sq' = LET q == SqPruneUndoData(Begun(sq), Height[sq.work.hash] - 1)
             IN  IF flush THEN SqCommitTransaction(q) ELSE q
    /\ stage' = IF flush /\ due THEN "prune checkpoint" ELSE stage
    /\ UNCHANGED <<calls, blockMoves, throws>>

\* Mutant: the checkpoint does not wait for the snapshots.
CheckpointAtOnce ==
    /\ stage \in {"checkpoint", "prune checkpoint"} /\ sq.abort = "none"
    /\ sq' = SqChecked(WalCheckpoint(sq), NoSnapshots(sq), "busy", WalCheckpoint(sq))
    /\ stage' = IF stage = "checkpoint" THEN "committed" ELSE "idle"
    /\ UNCHANGED <<calls, blockMoves, throws>>

Checkpoint ==
    /\ stage \in {"checkpoint", "prune checkpoint"} /\ sq.abort = "none"
    /\ sq.wal => NoSnapshots(sq)
    /\ sq' = WalCheckpoint(sq)
    /\ stage' = IF stage = "checkpoint" THEN "committed" ELSE "idle"
    /\ UNCHANGED <<calls, blockMoves, throws>>

\* GameStateUpdated runs the processors after the transaction.
Updated ==
    /\ stage = "committed" /\ sq.abort = "none"
    /\ sq' = GameStateUpdated(sq, FirstBlock)
    /\ stage' = "idle"
    /\ UNCHANGED <<calls, blockMoves, throws>>

----------------------------------------------------------------------------
(* Starting over: ReinitialiseState, or a detach without undo data.        *)

Resync ==
    /\ Idle
    /\ \/ sq.work.hash = NoBlock
       \/ /\ sq.work.hash \notin {NoBlock, FirstBlock}
          /\ sq.work.undo[sq.work.hash] = NoUndoRow
    /\ sq' = Aborted(sq)
    /\ stage' = "clear"
    /\ UNCHANGED <<calls, blockMoves, throws>>

ClearStorage ==
    /\ stage = "clear" /\ sq.abort = "none" /\ NoSnapshots(sq)
    /\ sq' = SqClear(sq, EmptyRows)
    /\ stage' = "initialise"
    /\ UNCHANGED <<calls, blockMoves, throws>>

GetInitialState ==
    /\ stage = "initialise" /\ sq.abort = "none"
    /\ sq' = InitialiseGame(sq)
    /\ stage' = "genesis"
    /\ UNCHANGED <<calls, blockMoves, throws>>

StoreGenesis(flush, due) ==
    /\ stage = "genesis" /\ sq.abort = "none"
    /\ Finish(SetCurrentGameState(Begun(sq), FirstBlock, Initial), flush, due)
    /\ UNCHANGED <<calls, blockMoves, throws>>

----------------------------------------------------------------------------
(* GetCustomStateData.                                                     *)

\* Mutant: a snapshot is used whatever block it is of.
SnapshotFitsAny(state) == sq.wal
SnapshotFits(state) == sq.wal /\ CheckCurrentState(sq.file, state, FirstBlock)

\* With the mutex: the block is announced, and either a snapshot of it is
\* taken for later or the reply is read from the main connection at once.
ReadStart(r) ==
    /\ Idle /\ sq.work.hash # NoBlock /\ calls[r].phase = "none"
    /\ LET snap == SnapshotFits(sq.work.state)
       IN  /\ sq' = IF snap THEN GetSnapshot(sq)
                    ELSE EnsureCurrentState(sq, sq.work.state, FirstBlock)
           /\ calls' = [calls EXCEPT ![r] =
                 [phase |-> IF snap THEN "reading" ELSE "reply", block |-> sq.work.hash,
                  rows |-> IF snap THEN sq.file.rows ELSE sq.work.rows]]
    /\ UNCHANGED <<stage, blockMoves, throws>>

\* Mutant: the snapshot is given back with the mutex.
ReadFinishLocked(r) ==
    /\ Idle /\ calls[r].phase # "none"
    /\ calls' = [calls EXCEPT ![r] = NoCall]
    /\ sq' = IF calls[r].phase = "reading" THEN UnrefSnapshot(sq) ELSE sq
    /\ UNCHANGED <<stage, blockMoves, throws>>

\* The reply, after which a snapshot is given back.
ReadFinish(r) ==
    /\ calls[r].phase # "none" /\ sq.abort = "none"
    /\ calls' = [calls EXCEPT ![r] = NoCall]
    /\ sq' = IF calls[r].phase = "reading" THEN UnrefSnapshot(sq) ELSE sq
    /\ UNCHANGED <<stage, blockMoves, throws>>

\* Killed or aborted at any point: the next process opens the file.
SqlRestart ==
    /\ sq' = OpenDatabase(sq.file, sq.wal)
    /\ stage' = "idle"
    /\ calls' = [r \in Reader |-> NoCall]
    /\ UNCHANGED <<blockMoves, throws>>

GameStep ==
    \/ \E flush, due \in BOOLEAN :
          \/ \E b \in Block : Attach(b, flush, due) \/ Detach(b, flush, due)
          \/ Prune(flush, due)
          \/ StoreGenesis(flush, due)
    \/ \E b \in Block : AttachThrows(b)
    \/ Resync

Continue == Checkpoint \/ Updated \/ ClearStorage \/ GetInitialState

SqlNext ==
    \/ GameStep
    \/ Continue
    \/ \E r \in Reader : ReadStart(r) \/ ReadFinish(r)
    \/ SqlRestart

\* A handler that was begun goes on, and every call that has its snapshot ends.
SqlFairness ==
    /\ WF_sqlVars(Continue)
    /\ WF_sqlVars(\E flush, due \in BOOLEAN : StoreGenesis(flush, due))
    /\ \A r \in Reader : WF_sqlVars(ReadFinish(r))

SqlSpec == SqlInit /\ [][SqlNext]_sqlVars /\ SqlFairness

----------------------------------------------------------------------------
(* Properties.                                                             *)

\* The tables of the game are those of a replay up to the current block, as
\* seen and as committed, whatever was undone by changesets, rolled back,
\* cleared or lost in a crash (SQLiteGame::ProcessBackwardsInternal).
RowsMatchBlock ==
    \A c \in {sq.work, sq.file} :
       c.hash # NoBlock => c.inited /\ c.rows = Replay(blockMoves)[c.hash]

\* Whatever moves a block has, no balance is without its asset, zero or above
\* the limit, alone or in sum, as the CHECKs of UpdateBalance and
\* GetAssetDetails take for granted.
BalancesConsistent == NFConsistent(sq.work.rows) /\ NFConsistent(sq.file.rows)

\* The pending moves of the game, seen over the tables of a block, show what a
\* block with these moves makes of the tables, although their effects are kept
\* apart from the database: later moves build on the earlier ones.  The tables
\* they are seen over are consistent.
PendingMatchesNext ==
    /\ BalancesConsistent
    /\ \A b \in Block : sq.work.hash # NoBlock /\ Parent[b] = sq.work.hash =>
          PendingAgrees([k \in NFRows |-> sq.work.rows[k]], blockMoves[b])

\* A reply is the state of the block it names, although the mutex is not held
\* while it is read and the chain moves on; the snapshots in use are counted.
AnswersMatchBlock ==
    /\ sq.snapshots = Cardinality({r \in Reader : calls[r].phase = "reading"})
    /\ \A r \in Reader : calls[r].phase # "none" =>
          FullState(calls[r].rows) = FullState(Replay(blockMoves)[calls[r].block])

\* No CHECK of the storage and the game fails: transactions, state keywords,
\* changesets without conflicts, and the hash of a block's state is the same
\* whenever it is computed.  (The checkpoint after a rollback is the
\* exception, see TransactionsNotNested.)
SqlNoAbort == sq.abort \in {"none", "checkpoint"}

\* Waiting for snapshots while holding the mutex ends: those who hold them do
\* not need it.
WaitsEnd == stage # "idle" ~> (stage = "idle" \/ sq.abort # "none")

\* sqlitestorage.hpp says that startedTransaction is there to exclude nested
\* transactions.  RollbackTransaction keeps its savepoint, so that the next
\* transaction is nested into it and its commit commits nothing.
TransactionsNotNested == Idle /\ ~sq.started => sq.stack = <<>>
=============================================================================
