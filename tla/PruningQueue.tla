---------------------------- MODULE PruningQueue ----------------------------
(***************************************************************************)
(* PruningQueue: the hashes of the last few attached blocks.  When the     *)
(* queue first fills up, all undo data below its front is removed; from    *)
(* then on, the undo data of each block that falls out at the front is.    *)
(* The queue lives in memory, its deletions are transactions on db.        *)
(***************************************************************************)
EXTENDS TransactionManager, Sequences

CONSTANT NBlocks    \* the number of blocks to keep

ASSUME NBlocksAssumption == NBlocks \in Nat

Queue == [hashes : Seq(Block), initialPruningDone : BOOLEAN]

EmptyQueue == [hashes |-> <<>>, initialPruningDone |-> FALSE]

(***************************************************************************)
(* One transaction releases everything in excess.  A block is popped after *)
(* its release, so a release that throws leaves the queue too long (the    *)
(* first one throws here), while a failing commit has shortened it.        *)
(***************************************************************************)
PruneIfTooLong(d, q, fault) ==
    LET n == Len(q.hashes) - NBlocks
        t == ActiveTransaction(d, ReleaseUndoData(d.work, {q.hashes[i] : i \in 1..n}),
                               d.height, fault)
    IN  IF n <= 0 THEN [db |-> d, queue |-> q, res |-> "ok"]
        ELSE [db    |-> t.db,
              queue |-> IF fault = "write" THEN q
                        ELSE [q EXCEPT !.hashes = SubSeq(@, n + 1, Len(@))],
              res   |-> t.res]

\* fault[1] strikes the initial pruning, fault[2] the regular one.
QueueAttachBlock(d, q, b, fault) ==
    LET pushed == [q EXCEPT !.hashes = Append(@, b)]
        front  == Height[b] + 1 - Len(pushed.hashes)
        filled == ~q.initialPruningDone /\ Len(pushed.hashes) >= NBlocks
        first  == IF filled /\ front > 0
                  THEN ActiveTransaction(d, PruneUndoData(d.work, front - 1),
                                         d.height, fault[1])
                  ELSE [db |-> Checked(d, filled => front >= 0, d), res |-> "ok"]
    IN  IF first.res # "ok"
        THEN [db |-> first.db, queue |-> pushed, res |-> first.res]
        ELSE PruneIfTooLong(first.db,
                            [pushed EXCEPT !.initialPruningDone = @ \/ filled],
                            fault[2])

QueueDetachBlock(q) ==
    IF q.hashes = <<>> THEN q
    ELSE [q EXCEPT !.hashes = SubSeq(@, 1, Len(@) - 1)]
=============================================================================
