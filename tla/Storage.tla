------------------------------ MODULE Storage ------------------------------
(***************************************************************************)
(* The game's storage: LMDBStorage (one write transaction over a durable   *)
(* key-value map) behind StorageWithCachedHeight, which remembers the      *)
(* height of the current block in memory only.                             *)
(*                                                                         *)
(* Game calls into the storage with its mutex held, several calls in a     *)
(* row, so every operation is a function from one storage record to the    *)
(* next and the specifications that use them compose them inside one step. *)
(* Two things that C++ expresses by control flow are fields:               *)
(*   ok           FALSE once a CHECK has failed: the process has aborted,  *)
(*                and no later operation of the step has any effect;       *)
(*   needsResize  set by the MDB_MAP_FULL that throws                      *)
(*                RetryWithNewTransaction, cleared by the rollback that    *)
(*                doubles the map.                                         *)
(***************************************************************************)
EXTENDS Chain

CONSTANTS
    GameState,      \* the values of GameStateData
    NoState,
    UndoData,       \* the values of UndoData
    NoUndo

ASSUME StorageAssumption ==
    /\ NoState \notin GameState
    /\ NoUndo \notin UndoData

NoHeight == -1

\* What the map holds: the current block hash, its state, and the undo data.
Contents == [hash  : Block \cup {NoBlock},
             state : GameState \cup {NoState},
             undo  : [Block -> UndoData \cup {NoUndo}]]

EmptyContents == [hash  |-> NoBlock,
                  state |-> NoState,
                  undo  |-> [b \in Block |-> NoUndo]]

(***************************************************************************)
(* A storage record d has the fields work (what reads return: they go      *)
(* through the open transaction if there is one), disk (what a restart     *)
(* finds), open, needsResize, height (the cached height) and ok; the       *)
(* transaction manager adds its own, see Db in TransactionManager.         *)
(***************************************************************************)

\* CHECK(cond): do the rest, or abort the process.
Checked(d, cond, next) == IF d.ok /\ cond THEN next ELSE [d EXCEPT !.ok = FALSE]

----------------------------------------------------------------------------
(* Contents after the individual writes.                                   *)

WithState(c, b, s) == [c EXCEPT !.hash = b, !.state = s]

WithUndo(c, b, u) == [c EXCEPT !.undo[b] = u]

ReleaseUndoData(c, bs) ==
    [c EXCEPT !.undo = [b \in Block |-> IF b \in bs THEN NoUndo ELSE c.undo[b]]]

\* Undo entries are stored with their block's height.
PruneUndoData(c, h) == ReleaseUndoData(c, {b \in Block : Height[b] <= h})

----------------------------------------------------------------------------
(* Transactions of the storage.                                            *)

StorageBegin(d) ==
    Checked(d, ~d.needsResize /\ ~d.open, [d EXCEPT !.open = TRUE])

\* The transaction's writes, with the height StorageWithCachedHeight keeps.
StorageWrite(d, c, h) ==
    Checked(d, d.open, [d EXCEPT !.work = c, !.height = h])

\* A write that finds the map full; it throws.
MapFull(d) == Checked(d, ~d.needsResize, [d EXCEPT !.needsResize = TRUE])

\* mdb_txn_commit frees the transaction whether or not it succeeds.
StorageCommit(d, full) ==
    Checked(d, ~d.needsResize /\ d.open,
            IF full THEN [d EXCEPT !.open = FALSE, !.work = d.disk,
                                   !.needsResize = TRUE]
                    ELSE [d EXCEPT !.open = FALSE, !.disk = d.work])

\* Mutants: a rollback that leaves the written contents visible, and one that
\* forgets to drop the cached height.
StorageRollbackKeepsWrites(d) ==
    Checked(d, TRUE, [d EXCEPT !.open = FALSE, !.needsResize = FALSE,
                               !.height = NoHeight])
StorageRollbackKeepsHeight(d) ==
    Checked(d, TRUE, [d EXCEPT !.open = FALSE, !.work = d.disk,
                               !.needsResize = FALSE])

StorageRollback(d) ==
    Checked(d, TRUE, [d EXCEPT !.open = FALSE, !.work = d.disk,
                               !.needsResize = FALSE, !.height = NoHeight])

\* Clear runs a transaction of its own and rolls it back itself if it fails;
\* the cached height is dropped first, whatever happens next.
StorageClear(d, full) ==
    Checked(d, ~d.open /\ ~d.needsResize,
            IF full THEN [d EXCEPT !.height = NoHeight]
                    ELSE [d EXCEPT !.height = NoHeight, !.work = EmptyContents,
                                   !.disk = EmptyContents])

\* GetCurrentBlockHashWithHeight asks the node for a height it does not have.
CacheHeight(d) ==
    IF d.work.hash # NoBlock /\ d.height = NoHeight
    THEN [d EXCEPT !.height = Height[d.work.hash]]
    ELSE d
=============================================================================
