----------------------------- MODULE BlockStore -----------------------------
(***************************************************************************)
(* Game's use of the transaction manager, one call at a time: an           *)
(* ActiveTransaction is begun, writes once or twice, and is committed, or  *)
(* unwound by an exception from the game rules, a write or the commit.     *)
(* The process may be killed between any two calls.                        *)
(***************************************************************************)
EXTENDS TransactionManager, Sequences

CONSTANTS GenesisHeight,
          StateAt,          \* [Block -> GameState]
          UndoOf,           \* [Block -> UndoData]
          BatchSizes        \* the arguments of SetBatchSize

ASSUME BlockStoreAssumption ==
    /\ StateAt \in [Block -> GameState]
    /\ UndoOf \in [Block -> UndoData]
    /\ BatchSizes \subseteq Nat \ {0}

VARIABLES
    db,
    scope,      \* the ActiveTransaction: "none", "open" or "unwinding"
    plan,       \* the contents its remaining writes will produce
    boundary    \* the contents after the last completed update

storeVars == <<db, scope, plan, boundary>>

StoreInit ==
    /\ db = OpenDb(EmptyContents)
    /\ scope = "none"
    /\ plan = <<>>
    /\ boundary = EmptyContents

\* The writes of an update, in the order of the code.
Plans(c) ==
    {<<WithState(c, b, StateAt[b])>> :
        b \in {x \in Block : c = EmptyContents /\ Height[x] = GenesisHeight}}
    \cup
    {<<WithUndo(c, b, UndoOf[b]), WithState(WithUndo(c, b, UndoOf[b]), b, StateAt[b])>> :
        b \in {x \in Block : c.hash # NoBlock /\ Parent[x] = c.hash}}
    \cup
    {<<WithState(c, Parent[b], StateAt[Parent[b]]),
       WithState(ReleaseUndoData(c, {b}), Parent[b], StateAt[Parent[b]])>> :
        b \in {x \in Block : c.hash = x /\ c.undo[x] # NoUndo}}

Begin ==
    /\ db.ok /\ scope = "none"
    /\ plan' \in Plans(db.work)
    /\ db' = BeginTransaction(db)
    /\ scope' = "open"
    /\ UNCHANGED boundary

\* Only the write of the current state touches the cached height.
Write ==
    /\ db.ok /\ scope = "open" /\ plan # <<>>
    /\ LET c == Head(plan)
       IN  db' = StorageWrite(db, c, IF c.hash = db.work.hash THEN db.height
                                     ELSE Height[c.hash])
    /\ plan' = Tail(plan)
    /\ UNCHANGED <<scope, boundary>>

WriteFails ==
    /\ db.ok /\ scope = "open" /\ plan # <<>>
    /\ db' = MapFull(db)
    /\ scope' = "unwinding"
    /\ UNCHANGED <<plan, boundary>>

\* ProcessForward or ProcessBackwards throws, before the first write.
LogicFails ==
    /\ db.ok /\ scope = "open" /\ db.work = boundary
    /\ scope' = "unwinding"
    /\ UNCHANGED <<db, plan, boundary>>

Commit(full) ==
    /\ db.ok /\ scope = "open" /\ plan = <<>>
    /\ db' = CommitTransaction(db, full)
    /\ scope' = IF db'.commitFailed THEN "unwinding" ELSE "none"
    /\ boundary' = IF db'.commitFailed THEN boundary ELSE db'.work
    /\ UNCHANGED plan

Unwind ==
    /\ db.ok /\ scope = "unwinding"
    /\ db' = RollbackTransaction(db)
    /\ scope' = "none"
    /\ plan' = <<>>
    /\ boundary' = db'.work

\* Game changes the batch size between two updates, and then flushes.
ChangeBatchSize(n, full) ==
    /\ db.ok /\ scope = "none"
    /\ db' = SetBatchSize(db, n, full)
    /\ boundary' = db'.work
    /\ UNCHANGED <<scope, plan>>

AbortAndClear(full) ==
    /\ db.ok /\ scope = "none"
    /\ db' = StorageClear(TryAbortTransaction(db), full)
    /\ boundary' = db'.work
    /\ UNCHANGED <<scope, plan>>

\* Killed, or aborted by a CHECK: the next process starts from the disk.
Restart ==
    /\ db' = OpenDb(db.disk)
    /\ boundary' = db.disk
    /\ scope' = "none"
    /\ plan' = <<>>

StoreNext ==
    \/ Begin \/ Write \/ WriteFails \/ LogicFails \/ Unwind
    \/ \E full \in BOOLEAN : Commit(full) \/ AbortAndClear(full)
    \/ \E n \in BatchSizes, full \in BOOLEAN : ChangeBatchSize(n, full)
    \/ Restart

StoreSpec == StoreInit /\ [][StoreNext]_storeVars

----------------------------------------------------------------------------
(* Properties.                                                             *)

\* The storage has a transaction open exactly when the manager has one or has
\* batched some, unless its commit just failed; with none open, reads see the
\* disk.  A crash between two updates costs fewer of them than the batch size.
BatchIsOneTransaction ==
    db.ok => /\ db.open <=> (db.inTxn \/ (db.batched > 0 /\ ~db.commitFailed))
             /\ ~db.open => db.work = db.disk
             /\ db.needsResize => db.commitFailed \/ scope = "unwinding"
             /\ scope = "none" /\ ~db.commitFailed => db.batched < db.batchSize

\* The storage changes by whole blocks, on disk and in what the game sees, no
\* matter where exceptions and crashes strike.
A == INSTANCE AtomicBlocks WITH current <- boundary, durable <- db.disk
ChangesByWholeBlocks == A!ASpec
=============================================================================
