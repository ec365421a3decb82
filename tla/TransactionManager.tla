------------------------- MODULE TransactionManager -------------------------
(***************************************************************************)
(* TransactionManager and ActiveTransaction: Game's transactions are       *)
(* collected into a batch, which is one transaction of the storage, and    *)
(* the whole batch is committed once it holds batchSize of them.           *)
(*                                                                         *)
(* Operators map the record "db" (the storage and the manager) to the next *)
(* one.  A failing commit throws; ActiveTransaction's destructor then      *)
(* rolls back, and with the transaction also everything batched before it. *)
(***************************************************************************)
EXTENDS Storage

Db == [work         : Contents,
       disk         : Contents,
       open         : BOOLEAN,
       needsResize  : BOOLEAN,
       height       : Nat \cup {NoHeight},
       ok           : BOOLEAN,
       inTxn        : BOOLEAN,
       commitFailed : BOOLEAN,
       batched      : Nat,
       batchSize    : Nat \ {0}]

\* A manager and a storage just opened on what the disk holds.
OpenDb(contents) ==
    [work |-> contents, disk |-> contents, open |-> FALSE,
     needsResize |-> FALSE, height |-> NoHeight, ok |-> TRUE,
     inTxn |-> FALSE, commitFailed |-> FALSE, batched |-> 0, batchSize |-> 1]

Flush(d, full) ==
    Checked(d, ~d.inTxn /\ ~d.commitFailed,
            IF d.batched = 0 THEN d
            ELSE IF full THEN [StorageCommit(d, TRUE) EXCEPT !.commitFailed = TRUE]
            ELSE [StorageCommit(d, FALSE) EXCEPT !.batched = 0])

\* Mutant: a smaller batch size takes effect with the next transaction only.
SetBatchSizeNoFlush(d, n, full) == Checked(d, n >= 1, [d EXCEPT !.batchSize = n])

SetBatchSize(d, n, full) ==
    LET e == [d EXCEPT !.batchSize = n]
    IN  Checked(d, n >= 1,
                IF e.batched >= n /\ ~e.inTxn THEN Flush(e, full) ELSE e)

BeginTransaction(d) ==
    LET e == [d EXCEPT !.inTxn = TRUE]
    IN  Checked(d, ~d.commitFailed /\ ~d.inTxn,
                IF d.batched = 0 THEN StorageBegin(e) ELSE e)

CommitTransaction(d, full) ==
    LET e == [d EXCEPT !.inTxn = FALSE, !.batched = d.batched + 1]
    IN  Checked(d, ~d.commitFailed /\ d.inTxn,
                IF e.batched >= e.batchSize THEN Flush(e, full) ELSE e)

\* Mutants: a rollback that forgets to empty the batch, or to leave the
\* transaction.
RollbackTransactionKeepsBatch(d) ==
    LET e == [d EXCEPT !.inTxn = FALSE, !.commitFailed = FALSE]
    IN  Checked(d, d.inTxn \/ d.commitFailed, StorageRollback(e))
RollbackTransactionStaysInside(d) ==
    LET e == [d EXCEPT !.commitFailed = FALSE]
    IN  Checked(d, d.inTxn \/ d.commitFailed,
                [StorageRollback(e) EXCEPT !.batched = 0])

RollbackTransaction(d) ==
    LET e == [d EXCEPT !.inTxn = FALSE, !.commitFailed = FALSE]
    IN  Checked(d, d.inTxn \/ d.commitFailed,
                [StorageRollback(e) EXCEPT !.batched = 0])

TryAbortTransaction(d) ==
    LET e == IF d.inTxn \/ d.commitFailed \/ d.batched > 0
             THEN StorageRollback(d) ELSE d
    IN  Checked(d, TRUE, [e EXCEPT !.inTxn = FALSE, !.commitFailed = FALSE,
                                   !.batched = 0])

(***************************************************************************)
(* The life of one ActiveTransaction whose body turns the contents into c  *)
(* (with h the height cached along): the new db and how the scope is left. *)
(* fault is where an exception is thrown:                                  *)
(*   "logic"   the game rules throw before anything is written,            *)
(*   "write"   a write finds the map full,                                 *)
(*   "commit"  the commit of the batch does (if this commit commits it).   *)
(* "retry" is RetryWithNewTransaction, "throw" any other exception.        *)
(***************************************************************************)
ActiveTransaction(d, c, h, fault) ==
    LET begun == BeginTransaction(d)
        done  == CommitTransaction(StorageWrite(begun, c, h), fault = "commit")
    IN  IF fault = "logic"
        THEN [db |-> RollbackTransaction(begun), res |-> "throw"]
        ELSE IF fault = "write"
        THEN [db |-> RollbackTransaction(MapFull(begun)), res |-> "retry"]
        ELSE IF done.commitFailed
        THEN [db |-> RollbackTransaction(done), res |-> "retry"]
        ELSE [db |-> done, res |-> "ok"]
=============================================================================
