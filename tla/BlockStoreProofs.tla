-------------------------- MODULE BlockStoreProofs --------------------------
(***************************************************************************)
(* Game's transactions, for any tree of blocks and any batch size: the     *)
(* batch is one transaction of the storage, no CHECK between the two fails *)
(* in an update, and the storage changes by whole blocks.  And for the     *)
(* games with MemoryStorage: what a block does is undone by its undo data. *)
(***************************************************************************)
EXTENDS BlockStore, MemoryGsp, NumberProofs, TransactionProofs, SequenceTheorems

\* What the storage may hold: a block with undo data has a parent.
Stored == {c \in Contents : \A b \in Block : c.undo[b] # NoUndo => Parent[b] \in Block}

\* What a transaction writes: there is a current block.
Written == {c \in Stored : c.hash \in Block}

\* The contents a whole update turns c into.
Targets(c) ==
    {WithState(c, b, StateAt[b]) :
        b \in {x \in Block : c = EmptyContents /\ Height[x] = GenesisHeight}}
    \cup
    {WithState(WithUndo(c, b, UndoOf[b]), b, StateAt[b]) :
        b \in {x \in Block : c.hash # NoBlock /\ Parent[x] = c.hash}}
    \cup
    {WithState(ReleaseUndoData(c, {b}), Parent[b], StateAt[Parent[b]]) :
        b \in {x \in Block : c.hash = x /\ c.undo[x] # NoUndo}}

\* What the open transaction ends with.
Outcome == IF plan = <<>> THEN db.work ELSE plan[Len(plan)]

StoreTypeOK ==
    /\ db \in DbIn(Stored)
    /\ scope \in {"none", "open", "unwinding"}
    /\ plan \in Seq(Written)
    /\ boundary \in Stored

\* The manager's and the storage's idea of a transaction, and the caller's.
ScopeInv ==
    /\ db.open <=> (db.inTxn \/ (db.batched > 0 /\ ~db.commitFailed))
    /\ ~db.open => db.work = db.disk
    /\ db.needsResize => db.commitFailed \/ scope = "unwinding"
    /\ scope = "none" /\ ~db.commitFailed => db.batched < db.batchSize
    /\ db.inTxn <=> (scope # "none" /\ ~db.commitFailed)
    /\ scope = "open" => ~db.commitFailed

\* The update under way leads from the boundary to the next one.
PlanInv ==
    /\ scope = "none" => boundary = db.work /\ plan = <<>>
    /\ scope = "open" => Outcome \in Targets(boundary)

StoreInv == StoreTypeOK /\ (db.ok => ScopeInv /\ PlanInv)

----------------------------------------------------------------------------
(* The contents.                                                           *)

LEMMA EmptyStored == EmptyContents \in Stored
  BY DEF Stored, Contents, EmptyContents

LEMMA WithStateStored ==
    ASSUME NEW c \in Stored, NEW b \in Block, NEW s \in GameState
    PROVE  WithState(c, b, s) \in Written
  BY DEF Written, Stored, Contents, WithState

LEMMA WithUndoStored ==
    ASSUME NEW c \in Written, NEW b \in Block, NEW u \in UndoData, Parent[b] \in Block
    PROVE  WithUndo(c, b, u) \in Written
  BY DEF Written, Stored, Contents, WithUndo

LEMMA ReleaseStored ==
    ASSUME NEW c \in Stored, NEW bs
    PROVE  ReleaseUndoData(c, bs) \in Stored
  <1> DEFINE u == [b \in Block |-> IF b \in bs THEN NoUndo ELSE c.undo[b]]
  <1>1. /\ c \in Contents
        /\ u \in [Block -> UndoData \cup {NoUndo}]
        /\ \A b \in Block : u[b] # NoUndo => Parent[b] \in Block
    BY DEF Stored, Contents
  <1>2. ReleaseUndoData(c, bs) = [c EXCEPT !.undo = u]
    BY DEF ReleaseUndoData
  <1> HIDE DEF u
  <1> QED
    BY <1>1, <1>2 DEF Stored, Contents

\* The writes of an update are contents the storage may hold, and the last one
\* is what the whole update leads to.
LEMMA PlansLead ==
    ASSUME NEW c \in Stored, NEW p \in Plans(c)
    PROVE  /\ p \in Seq(Written) /\ p # <<>>
           /\ p[Len(p)] \in Targets(c)
  <1>0. /\ \A b \in Block : StateAt[b] \in GameState /\ UndoOf[b] \in UndoData
        /\ c.hash \in Block \cup {NoBlock} /\ NoBlock \notin Block
    BY BlockStoreAssumption, ChainAssumption DEF Stored, Contents
  <1>1. CASE \E b \in Block : /\ c = EmptyContents /\ Height[b] = GenesisHeight
                              /\ p = <<WithState(c, b, StateAt[b])>>
    <2>1. PICK b \in Block : /\ c = EmptyContents /\ Height[b] = GenesisHeight
                             /\ p = <<WithState(c, b, StateAt[b])>>
      BY <1>1
    <2> DEFINE x == WithState(c, b, StateAt[b])
    <2>2. x \in Written
      BY <1>0, WithStateStored
    <2>3. x \in Targets(c)
      BY <2>1 DEF Targets
    <2> HIDE DEF x
    <2>4. p = <<x>>
      BY <2>1 DEF x
    <2> QED
      BY <2>2, <2>3, <2>4
  <1>2. CASE \E b \in Block :
               /\ c.hash # NoBlock /\ Parent[b] = c.hash
               /\ p = <<WithUndo(c, b, UndoOf[b]),
                        WithState(WithUndo(c, b, UndoOf[b]), b, StateAt[b])>>
    <2>1. PICK b \in Block :
               /\ c.hash # NoBlock /\ Parent[b] = c.hash
               /\ p = <<WithUndo(c, b, UndoOf[b]),
                        WithState(WithUndo(c, b, UndoOf[b]), b, StateAt[b])>>
      BY <1>2
    <2> DEFINE x == WithUndo(c, b, UndoOf[b])
               y == WithState(x, b, StateAt[b])
    <2>2. x \in Written /\ x \in Stored
      BY <1>0, <2>1, WithUndoStored DEF Written
    <2>3. y \in Written
      <3> HIDE DEF x
      <3> QED  BY <1>0, <2>2, WithStateStored
    <2>4. y \in Targets(c)
      BY <2>1 DEF Targets
    <2>5. p = <<x, y>>
      BY <2>1
    <2> HIDE DEF x, y
    <2> QED
      BY <2>2, <2>3, <2>4, <2>5
  <1>3. CASE \E b \in Block :
               /\ c.hash = b /\ c.undo[b] # NoUndo
               /\ p = <<WithState(c, Parent[b], StateAt[Parent[b]]),
                        WithState(ReleaseUndoData(c, {b}), Parent[b], StateAt[Parent[b]])>>
    <2>1. PICK b \in Block :
               /\ c.hash = b /\ c.undo[b] # NoUndo
               /\ p = <<WithState(c, Parent[b], StateAt[Parent[b]]),
                        WithState(ReleaseUndoData(c, {b}), Parent[b], StateAt[Parent[b]])>>
      BY <1>3
    <2> DEFINE x == WithState(c, Parent[b], StateAt[Parent[b]])
               y == WithState(ReleaseUndoData(c, {b}), Parent[b], StateAt[Parent[b]])
    <2>2. Parent[b] \in Block
      BY <2>1 DEF Stored
    <2>3. x \in Written
      BY <1>0, <2>2, WithStateStored
    <2>4. y \in Written
      BY <1>0, <2>2, ReleaseStored, WithStateStored
    <2>5. y \in Targets(c)
      BY <2>1 DEF Targets
    <2>6. p = <<x, y>>
      BY <2>1
    <2> HIDE DEF x, y
    <2> QED
      BY <2>3, <2>4, <2>5, <2>6
  <1> QED
    BY <1>1, <1>2, <1>3 DEF Plans

----------------------------------------------------------------------------
(* The steps of AtomicBlocks.                                              *)

AStep == A!ANext \/ UNCHANGED A!aVars

\* A call aborts the process only after a flush outside of any transaction has
\* failed.
AbortFree == db.ok /\ (scope # "none" \/ ~db.commitFailed) => db'.ok

LEMMA UpdateStep ==
    ASSUME NEW c \in Targets(boundary), boundary' = c, db'.disk \in {db.disk, c}
    PROVE  AStep
  <1>1. CASE \E b \in Block : /\ boundary = EmptyContents /\ Height[b] = GenesisHeight
                              /\ c = WithState(boundary, b, StateAt[b])
    BY <1>1 DEF AStep, A!ANext, A!Genesis, A!Update, A!WithState, A!EmptyContents,
                WithState, EmptyContents
  <1>2. CASE \E b \in Block : /\ boundary.hash # NoBlock /\ Parent[b] = boundary.hash
                              /\ c = WithState(WithUndo(boundary, b, UndoOf[b]), b, StateAt[b])
    BY <1>2 DEF AStep, A!ANext, A!Attach, A!Update, A!WithState, A!WithUndo,
                WithState, WithUndo
  <1>3. CASE \E b \in Block : /\ boundary.hash = b /\ boundary.undo[b] # NoUndo
                              /\ c = WithState(ReleaseUndoData(boundary, {b}), Parent[b],
                                              StateAt[Parent[b]])
    BY <1>3 DEF AStep, A!ANext, A!Detach, A!Update, A!WithState, A!ReleaseUndoData,
                WithState, ReleaseUndoData
  <1> QED
    BY <1>1, <1>2, <1>3 DEF Targets

LEMMA PersistStep ==
    ASSUME boundary' = boundary, db'.disk \in {db.disk, boundary}
    PROVE  AStep
  BY DEF AStep, A!ANext, A!Persist, A!aVars

LEMMA LoseStep ==
    ASSUME boundary' = db.disk, db'.disk = db.disk
    PROVE  AStep
  BY DEF AStep, A!ANext, A!Lose

LEMMA ClearStep ==
    ASSUME boundary' = EmptyContents, db'.disk = EmptyContents
    PROVE  AStep
  BY DEF AStep, A!ANext, A!Clear, A!EmptyContents, EmptyContents

----------------------------------------------------------------------------
(* The calls.                                                              *)

LEMMA StoredContents == Stored \subseteq Contents
  BY DEF Stored

LEMMA InDb ==
    ASSUME StoreTypeOK
    PROVE  /\ db \in Db /\ db.work \in Stored /\ db.disk \in Stored
           /\ db.batched \in Nat /\ db.batchSize \in Nat \ {0}
  BY DEF StoreTypeOK, DbIn, Db

LEMMA StoreInitInv == StoreInit => StoreInv /\ A!AInit
  <1> SUFFICES ASSUME StoreInit PROVE StoreInv /\ A!AInit
    OBVIOUS
  <1>1. OpenDb(EmptyContents) \in DbIn(Stored)
    BY EmptyStored, StoredContents, OpenDbIn
  <1>2. StoreTypeOK
    BY <1>1, EmptyStored DEF StoreInit, StoreTypeOK
  <1>3. ScopeInv /\ PlanInv
    BY DEF StoreInit, ScopeInv, PlanInv, OpenDb
  <1>4. A!AInit
    BY DEF StoreInit, OpenDb, A!AInit, A!EmptyContents, EmptyContents
  <1> QED
    BY <1>2, <1>3, <1>4 DEF StoreInv

\* Begin fails its CHECK after a flush that failed outside of any transaction.
LEMMA BeginStep ==
    ASSUME StoreInv, Begin
    PROVE  StoreInv' /\ AStep /\ AbortFree
  <1>1. /\ db.ok /\ scope = "none" /\ scope' = "open" /\ boundary' = boundary
        /\ plan' \in Plans(db.work) /\ db' = BeginTransaction(db)
        /\ StoreTypeOK /\ ScopeInv /\ PlanInv /\ db.work = boundary
        /\ db \in Db /\ db.work \in Stored /\ db.batched \in Nat
    BY InDb DEF StoreInv, PlanInv, Begin
  <1>2. plan' \in Seq(Written) /\ plan' # <<>> /\ plan'[Len(plan')] \in Targets(boundary)
    BY <1>1, PlansLead
  <1>3. db' \in DbIn(Stored)
    BY <1>1, StoredContents, BeginTransactionIn DEF StoreTypeOK
  <1>4. StoreTypeOK'
    BY <1>1, <1>2, <1>3 DEF StoreTypeOK
  <1>5. CASE db.commitFailed
    <2>1. db' = [db EXCEPT !.ok = FALSE]
      BY <1>1, <1>5 DEF BeginTransaction, Checked
    <2>2. ~db'.ok /\ db'.disk = db.disk
      BY <1>1, <2>1 DEF Db
    <2> QED
      BY <1>1, <1>4, <1>5, <2>2, PersistStep DEF StoreInv, AbortFree
  <1>6. CASE ~db.commitFailed
    <2>1. ~db.inTxn /\ ~db.needsResize /\ (db.open <=> db.batched > 0)
      BY <1>1, <1>6 DEF ScopeInv
    <2>2. /\ db'.ok /\ db'.inTxn /\ db'.open /\ ~db'.commitFailed /\ ~db'.needsResize
          /\ db'.disk = db.disk
      BY <1>1, <1>6, <2>1, BeginTransactionFacts
    <2>3. ScopeInv'
      BY <1>1, <2>2 DEF ScopeInv
    <2>4. PlanInv'
      BY <1>1, <1>2 DEF PlanInv, Outcome
    <2> QED
      BY <1>1, <1>4, <2>2, <2>3, <2>4, PersistStep DEF StoreInv, AbortFree
  <1> QED
    BY <1>5, <1>6

LEMMA WriteStep ==
    ASSUME StoreInv, Write
    PROVE  StoreInv' /\ AStep /\ AbortFree
  <1> DEFINE c == Head(plan)
             h == IF c.hash = db.work.hash THEN db.height ELSE Height[c.hash]
  <1>1. /\ db.ok /\ scope = "open" /\ plan # <<>> /\ scope' = scope /\ boundary' = boundary
        /\ db' = StorageWrite(db, c, h) /\ plan' = Tail(plan)
        /\ StoreTypeOK /\ ScopeInv /\ PlanInv
        /\ db \in Db /\ plan \in Seq(Written)
    BY InDb DEF StoreInv, StoreTypeOK, Write
  <1>2. /\ c \in Written /\ c \in Stored /\ c \in Contents /\ c = plan[1]
        /\ plan' \in Seq(Written) /\ Len(plan) \in Nat \ {0} /\ Len(plan') = Len(plan) - 1
        /\ \A i \in 1 .. Len(plan') : plan'[i] = plan[i + 1]
    BY <1>1, StoredContents DEF Written
  <1>3. h \in Nat \cup {NoHeight}
    BY <1>1, <1>2, ChainAssumption DEF Db, Written
  <1> HIDE DEF c, h
  <1>4. db' = [db EXCEPT !.work = c, !.height = h] /\ db' \in Db
    BY <1>1, <1>2, <1>3, StorageWriteFacts DEF ScopeInv
  <1>5. /\ db'.ok /\ db'.work = c /\ db'.disk = db.disk /\ (db'.open <=> db.open)
        /\ (db'.inTxn <=> db.inTxn) /\ (db'.needsResize <=> db.needsResize)
        /\ (db'.commitFailed <=> db.commitFailed) /\ db'.batched = db.batched
    BY <1>1, <1>4 DEF Db
  <1>6. StoreTypeOK'
    BY <1>1, <1>2, <1>4, <1>5 DEF StoreTypeOK, DbIn
  <1>7. ScopeInv'
    BY <1>1, <1>5 DEF ScopeInv
  <1>8. Outcome' = Outcome
    <2>1. CASE Len(plan) = 1
      <3>1. plan' = <<>>
        BY <1>1, <2>1
      <3> QED
        BY <1>1, <1>2, <1>5, <2>1, <3>1 DEF Outcome
    <2>2. CASE Len(plan) # 1
      <3>1. Len(plan') \in 1 .. Len(plan') /\ plan' # <<>>
        BY <1>2, <2>2
      <3>2. plan'[Len(plan')] = plan[Len(plan)]
        BY <1>2, <3>1
      <3> QED
        BY <1>1, <3>1, <3>2 DEF Outcome
    <2> QED
      BY <2>1, <2>2
  <1>9. PlanInv'
    BY <1>1, <1>8 DEF PlanInv
  <1> QED
    BY <1>1, <1>5, <1>6, <1>7, <1>9, PersistStep DEF StoreInv, AbortFree

LEMMA WriteFailsStep ==
    ASSUME StoreInv, WriteFails
    PROVE  StoreInv' /\ AStep /\ AbortFree
  <1>1. /\ db.ok /\ scope = "open" /\ scope' = "unwinding"
        /\ boundary' = boundary /\ plan' = plan /\ db' = MapFull(db)
        /\ StoreTypeOK /\ ScopeInv /\ db \in Db
    BY InDb DEF StoreInv, WriteFails
  <1>2. db' = [db EXCEPT !.needsResize = TRUE] /\ db' \in Db
    BY <1>1, MapFullFacts DEF ScopeInv
  <1>3. /\ db'.ok /\ db'.work = db.work /\ db'.disk = db.disk /\ (db'.open <=> db.open)
        /\ (db'.inTxn <=> db.inTxn)
        /\ (db'.commitFailed <=> db.commitFailed) /\ db'.batched = db.batched
    BY <1>1, <1>2 DEF Db
  <1>4. StoreTypeOK'
    BY <1>1, <1>2, <1>3 DEF StoreTypeOK, DbIn
  <1>5. ScopeInv' /\ PlanInv'
    BY <1>1, <1>3 DEF ScopeInv, PlanInv
  <1> QED
    BY <1>1, <1>3, <1>4, <1>5, PersistStep DEF StoreInv, AbortFree

LEMMA LogicFailsStep ==
    ASSUME StoreInv, LogicFails
    PROVE  StoreInv' /\ AStep /\ AbortFree
  <1>1. /\ db.ok /\ scope = "open" /\ scope' = "unwinding"
        /\ boundary' = boundary /\ plan' = plan /\ db' = db
    BY DEF LogicFails
  <1>2. StoreTypeOK' /\ ScopeInv' /\ PlanInv'
    BY <1>1 DEF StoreInv, StoreTypeOK, ScopeInv, PlanInv
  <1> QED
    BY <1>1, <1>2, PersistStep DEF StoreInv, AbortFree

LEMMA CommitStep ==
    ASSUME StoreInv, NEW full \in BOOLEAN, Commit(full)
    PROVE  StoreInv' /\ AStep /\ AbortFree
  <1>1. /\ db.ok /\ scope = "open" /\ plan = <<>> /\ plan' = plan
        /\ db' = CommitTransaction(db, full)
        /\ scope' = IF db'.commitFailed THEN "unwinding" ELSE "none"
        /\ boundary' = IF db'.commitFailed THEN boundary ELSE db'.work
        /\ StoreTypeOK /\ ScopeInv /\ PlanInv
        /\ db \in Db /\ db.batched \in Nat /\ db.batchSize \in Nat \ {0}
    BY InDb DEF StoreInv, Commit
  <1>2. /\ db.inTxn /\ db.open /\ ~db.commitFailed /\ ~db.needsResize
        /\ db.work \in Targets(boundary)
    BY <1>1 DEF ScopeInv, PlanInv, Outcome
  <1>3. db' \in DbIn(Stored)
    BY <1>1, StoredContents, CommitTransactionIn DEF StoreTypeOK
  <1>4. StoreTypeOK'
    BY <1>1, <1>3 DEF StoreTypeOK, DbIn
  <1>5. /\ db'.ok /\ ~db'.inTxn /\ db'.batchSize = db.batchSize
        /\ IF db.batched + 1 < db.batchSize
           THEN /\ db'.open /\ ~db'.commitFailed /\ ~db'.needsResize
                /\ db'.work = db.work /\ db'.disk = db.disk
                /\ db'.batched = db.batched + 1
           ELSE IF full
           THEN /\ ~db'.open /\ db'.commitFailed /\ db'.needsResize
                /\ db'.work = db.disk /\ db'.disk = db.disk
           ELSE /\ ~db'.open /\ ~db'.commitFailed /\ ~db'.needsResize
                /\ db'.work = db.work /\ db'.disk = db.work
                /\ db'.batched = 0
    BY <1>1, <1>2, CommitTransactionFacts
  <1>6. ScopeInv'
    BY <1>1, <1>5 DEF ScopeInv
  <1>7. PlanInv'
    BY <1>1, <1>5 DEF PlanInv
  <1>8. AStep
    <2>1. CASE db'.commitFailed
      BY <1>1, <1>5, <2>1, PersistStep
    <2>2. CASE ~db'.commitFailed
      BY <1>1, <1>2, <1>5, <2>2, UpdateStep
    <2> QED
      BY <2>1, <2>2
  <1> QED
    BY <1>4, <1>5, <1>6, <1>7, <1>8 DEF StoreInv, AbortFree

LEMMA UnwindStep ==
    ASSUME StoreInv, Unwind
    PROVE  StoreInv' /\ AStep /\ AbortFree
  <1>1. /\ db.ok /\ scope = "unwinding" /\ scope' = "none" /\ plan' = <<>>
        /\ db' = RollbackTransaction(db) /\ boundary' = db'.work
        /\ StoreTypeOK /\ ScopeInv /\ db \in Db /\ db.batchSize \in Nat \ {0}
    BY InDb DEF StoreInv, Unwind
  <1>2. db.inTxn \/ db.commitFailed
    BY <1>1 DEF ScopeInv
  <1>3. /\ db'.ok /\ ~db'.inTxn /\ ~db'.open /\ ~db'.commitFailed /\ ~db'.needsResize
        /\ db'.work = db.disk /\ db'.disk = db.disk
        /\ db'.batched = 0 /\ db'.batchSize = db.batchSize
    BY <1>1, <1>2, RollbackTransactionFacts
  <1>4. db' \in DbIn(Stored)
    BY <1>1, StoredContents, RollbackTransactionIn DEF StoreTypeOK
  <1>5. StoreTypeOK'
    BY <1>1, <1>4 DEF StoreTypeOK, DbIn
  <1>6. ScopeInv' /\ PlanInv'
    BY <1>1, <1>3 DEF ScopeInv, PlanInv
  <1> QED
    BY <1>1, <1>3, <1>5, <1>6, LoseStep DEF StoreInv, AbortFree

LEMMA ChangeBatchSizeStep ==
    ASSUME StoreInv, NEW n \in BatchSizes, NEW full \in BOOLEAN, ChangeBatchSize(n, full)
    PROVE  StoreInv' /\ AStep /\ AbortFree
  <1>1. /\ db.ok /\ scope = "none" /\ scope' = scope /\ plan' = plan /\ n \in Nat \ {0}
        /\ db' = SetBatchSize(db, n, full) /\ boundary' = db'.work
        /\ StoreTypeOK /\ ScopeInv /\ PlanInv /\ boundary = db.work
        /\ db \in Db /\ db.batched \in Nat /\ db.batchSize \in Nat \ {0} /\ ~db.inTxn
    BY InDb, BlockStoreAssumption DEF StoreInv, PlanInv, ScopeInv, ChangeBatchSize
  <1>2. db' \in DbIn(Stored)
    BY <1>1, StoredContents, SetBatchSizeIn DEF StoreTypeOK
  <1>3. StoreTypeOK' /\ db' \in Db
    BY <1>1, <1>2 DEF StoreTypeOK, DbIn
  <1>4. PlanInv'
    BY <1>1 DEF PlanInv
  <1>5. CASE db.commitFailed
    <2> DEFINE e == [db EXCEPT !.batchSize = n]
    <2>1. /\ e \in Db /\ e.ok /\ e.commitFailed /\ ~e.inTxn
          /\ e.work = db.work /\ e.disk = db.disk /\ (e.open <=> db.open)
      BY <1>1, <1>5 DEF Db
    <2>2. db' = IF e.batched >= n /\ ~e.inTxn THEN Flush(e, full) ELSE e
      BY <1>1, <2>1 DEF SetBatchSize, Checked
    <2> HIDE DEF e
    <2>3. Flush(e, full) = [e EXCEPT !.ok = FALSE]
      BY <2>1 DEF Flush, Checked
    <2>4. db' \in {e, [e EXCEPT !.ok = FALSE]}
      BY <2>2, <2>3
    <2>5. /\ db'.commitFailed /\ ~db'.inTxn
          /\ db'.work = db.work /\ db'.disk = db.disk /\ (db'.open <=> db.open)
      BY <2>1, <2>4 DEF Db
    <2>6. ScopeInv'
      BY <1>1, <1>5, <2>5 DEF ScopeInv
    <2> QED
      BY <1>1, <1>3, <1>4, <1>5, <2>5, <2>6, PersistStep DEF StoreInv, AbortFree
  <1>6. CASE ~db.commitFailed
    <2>1. /\ ~db.inTxn /\ ~db.needsResize /\ (db.open <=> db.batched > 0)
          /\ (~db.open => db.work = db.disk)
      BY <1>1, <1>6 DEF ScopeInv
    <2>2. /\ db'.ok /\ ~db'.inTxn /\ db'.batchSize = n
          /\ IF db.batched < n
             THEN /\ (db'.open <=> db.open) /\ ~db'.commitFailed /\ ~db'.needsResize
                  /\ db'.work = db.work /\ db'.disk = db.disk
                  /\ db'.batched = db.batched
             ELSE IF full
             THEN /\ ~db'.open /\ db'.commitFailed /\ db'.needsResize
                  /\ db'.work = db.disk /\ db'.disk = db.disk
             ELSE /\ ~db'.open /\ ~db'.commitFailed /\ ~db'.needsResize
                  /\ db'.work = db.work /\ db'.disk = db.work
                  /\ db'.batched = 0
      BY <1>1, <1>6, <2>1, SetBatchSizeFacts
    <2>3. ScopeInv'
      BY <1>1, <2>1, <2>2 DEF ScopeInv
    <2>4. AStep
      <3>1. CASE db'.commitFailed
        BY <1>1, <2>2, <3>1, LoseStep
      <3>2. CASE ~db'.commitFailed
        BY <1>1, <2>2, <3>2, PersistStep
      <3> QED
        BY <3>1, <3>2
    <2> QED
      BY <1>3, <1>4, <2>2, <2>3, <2>4 DEF StoreInv, AbortFree
  <1> QED
    BY <1>5, <1>6

LEMMA AbortAndClearStep ==
    ASSUME StoreInv, NEW full \in BOOLEAN, AbortAndClear(full)
    PROVE  StoreInv' /\ AStep /\ AbortFree
  <1> DEFINE t == TryAbortTransaction(db)
  <1>1. /\ db.ok /\ scope = "none" /\ scope' = scope /\ plan' = plan
        /\ db' = StorageClear(t, full) /\ boundary' = db'.work
        /\ StoreTypeOK /\ ScopeInv /\ PlanInv
        /\ db \in Db /\ db.batchSize \in Nat \ {0}
    BY InDb DEF StoreInv, AbortAndClear
  <1>2. /\ t \in Db /\ t.ok /\ ~t.inTxn /\ ~t.open /\ ~t.commitFailed /\ ~t.needsResize
        /\ t.work = db.disk /\ t.disk = db.disk
        /\ t.batched = 0 /\ t.batchSize = db.batchSize
    BY <1>1, TryAbortTransactionFacts DEF ScopeInv
  <1>3. t \in DbIn(Stored)
    BY <1>1, <1>2 DEF StoreTypeOK, DbIn
  <1> HIDE DEF t
  <1>4. db' \in DbIn(Stored)
    BY <1>1, <1>3, StoredContents, EmptyStored, StorageClearIn
  <1>5. StoreTypeOK'
    BY <1>1, <1>4 DEF StoreTypeOK, DbIn
  <1>6. /\ db'.ok /\ ~db'.inTxn /\ ~db'.open /\ ~db'.commitFailed /\ ~db'.needsResize
        /\ db'.batched = 0 /\ db'.batchSize = db.batchSize
        /\ db'.work = db'.disk /\ db'.disk \in {db.disk, EmptyContents}
    BY <1>1, <1>2 DEF StorageClear, Checked, Db
  <1>7. ScopeInv' /\ PlanInv'
    BY <1>1, <1>6 DEF ScopeInv, PlanInv
  <1>8. AStep
    BY <1>1, <1>6, LoseStep, ClearStep
  <1> QED
    BY <1>5, <1>6, <1>7, <1>8 DEF StoreInv, AbortFree

LEMMA RestartStep ==
    ASSUME StoreInv, Restart
    PROVE  StoreInv' /\ AStep /\ AbortFree
  <1>1. /\ db' = OpenDb(db.disk) /\ boundary' = db.disk /\ scope' = "none" /\ plan' = <<>>
        /\ StoreTypeOK /\ db.disk \in Stored
    BY InDb DEF StoreInv, Restart
  <1>2. db' \in DbIn(Stored)
    BY <1>1, StoredContents, OpenDbIn
  <1>3. StoreTypeOK'
    BY <1>1, <1>2 DEF StoreTypeOK
  <1>4. ScopeInv' /\ PlanInv' /\ db'.disk = db.disk /\ db'.ok
    BY <1>1 DEF ScopeInv, PlanInv, OpenDb
  <1> QED
    BY <1>1, <1>3, <1>4, LoseStep DEF StoreInv, AbortFree

LEMMA StoreNextStep ==
    StoreInv /\ [StoreNext]_storeVars => StoreInv' /\ AStep /\ AbortFree
  <1> SUFFICES ASSUME StoreInv, [StoreNext]_storeVars PROVE StoreInv' /\ AStep /\ AbortFree
    OBVIOUS
  <1>1. CASE StoreNext
    BY <1>1, BeginStep, WriteStep, WriteFailsStep, LogicFailsStep, UnwindStep, CommitStep,
       AbortAndClearStep, ChangeBatchSizeStep, RestartStep DEF StoreNext
  <1>2. CASE UNCHANGED storeVars
    <2>1. StoreInv'
      BY <1>2 DEF storeVars, StoreInv, StoreTypeOK, ScopeInv, PlanInv, Outcome
    <2>2. AStep
      BY <1>2 DEF storeVars, AStep, A!aVars
    <2>3. AbortFree
      BY <1>2 DEF storeVars, AbortFree
    <2> QED
      BY <2>1, <2>2, <2>3
  <1> QED
    BY <1>1, <1>2

----------------------------------------------------------------------------
(* The theorems.                                                           *)

\* Whatever the batch sizes and wherever an exception or a crash strikes, the
\* storage has its one transaction open exactly while the manager counts on it
\* (TransactionManager, ActiveTransaction).
THEOREM BatchedTransactions == StoreSpec => []BatchIsOneTransaction
  <1>1. StoreInv => BatchIsOneTransaction
    BY DEF StoreInv, ScopeInv, BatchIsOneTransaction
  <1> QED
    BY <1>1, StoreInitInv, StoreNextStep, PTL DEF StoreSpec

\* Within an update no CHECK of the storage or of the manager fails, whichever of
\* its steps throws (BeginTransaction, CommitTransaction, RollbackTransaction).
THEOREM UpdatesNeverAbort == StoreSpec => [][AbortFree]_storeVars
  BY StoreInitInv, StoreNextStep, PTL DEF StoreSpec

\* The calls of an update implement one indivisible change of the contents:
\* every step of the storage is a step of AtomicBlocks, or none.
THEOREM BlocksAreAtomic == StoreSpec => ChangesByWholeBlocks
  <1>1. StoreInv /\ [StoreNext]_storeVars => StoreInv' /\ [A!ANext]_(A!aVars)
    BY StoreNextStep DEF AStep
  <1> QED
    BY <1>1, StoreInitInv, PTL DEF StoreSpec, ChangesByWholeBlocks, A!ASpec
----------------------------------------------------------------------------
(* MemoryGsp: what a block does to the players is undone.                  *)

\* A player has steps to go while it has a direction, as the CHECKs of the
\* game take for granted.
PlayerState ==
    {p \in [x : Int, y : Int, dir : Direction \cup {NONE}, steps : Nat] :
       p.dir = NONE <=> p.steps = 0}
PlayerMaps == UNION {[D -> PlayerState] : D \in SUBSET Player}

MoveRecord == [name : Player, dir : Direction \cup {NONE}, n : Int]

PlayerUndo == [isNew : BOOLEAN, dir : Direction \cup {NONE}, steps : Nat, changed : BOOLEAN,
               finished : Direction \cup {NONE}]
UndoMaps == UNION {[D -> PlayerUndo] : D \in SUBSET Player}

LEMMA DirectionOffsets ==
    ASSUME NEW d \in Direction
    PROVE  d # NONE /\ GetDirectionOffset(d)[1] \in Int /\ GetDirectionOffset(d)[2] \in Int
  <1>1. d # NONE
    BY DEF Direction, NONE
  <1>2. GetDirectionOffset(d) \in {<<1, 0>>, <<-1, 0>>, <<0, 1>>, <<0, -1>>, <<1, 1>>, <<1, -1>>,
                                   <<-1, 1>>, <<-1, -1>>}
    <2>1. CASE d = "right"
      BY <2>1, Zenon DEF GetDirectionOffset
    <2>2. CASE d = "left"
      BY <2>2, Zenon DEF GetDirectionOffset
    <2>3. CASE d = "up"
      BY <2>3, Zenon DEF GetDirectionOffset
    <2>4. CASE d = "down"
      BY <2>4, Zenon DEF GetDirectionOffset
    <2>5. CASE d = "right-up"
      BY <2>5, Zenon DEF GetDirectionOffset
    <2>6. CASE d = "right-down"
      BY <2>6, Zenon DEF GetDirectionOffset
    <2>7. CASE d = "left-up"
      BY <2>7, Zenon DEF GetDirectionOffset
    <2>8. CASE d = "left-down"
      BY <2>8, Zenon DEF GetDirectionOffset
    <2> QED  BY <2>1, <2>2, <2>3, <2>4, <2>5, <2>6, <2>7, <2>8 DEF Direction
  <1> QED
    BY <1>1, <1>2

\* The step of one player, and its undoing.
LEMMA StepUndone ==
    ASSUME NEW p \in PlayerState
    PROVE  /\ MovePlayer(p) \in PlayerState
           /\ p.dir # NONE /\ p.steps = 1 =>
                \A u : u.finished = p.dir => StepBack(Finished(MovePlayer(p), u)) = p
           /\ ~(p.dir # NONE /\ p.steps = 1) =>
                \A u : u.finished = NONE => StepBack(Finished(MovePlayer(p), u)) = p
  <1>1. /\ p = [x |-> p.x, y |-> p.y, dir |-> p.dir, steps |-> p.steps]
        /\ p.x \in Int /\ p.y \in Int /\ p.steps \in Nat /\ p.dir \in Direction \cup {NONE}
        /\ p.dir = NONE <=> p.steps = 0
    BY DEF PlayerState
  <1>2. CASE p.dir = NONE
    <2>1. MovePlayer(p) = p
      BY <1>2 DEF MovePlayer
    <2>2. \A u : u.finished = NONE => Finished(p, u) = p
      BY DEF Finished
    <2>3. StepBack(p) = p
      BY <1>2 DEF StepBack
    <2> QED  BY <1>2, <2>1, <2>2, <2>3
  <1>3. CASE p.dir # NONE
    <2> DEFINE d == GetDirectionOffset(p.dir)
    <2>1. p.dir \in Direction /\ d[1] \in Int /\ d[2] \in Int /\ p.steps # 0
      BY <1>1, <1>3, DirectionOffsets
    <2> DEFINE e == IF p.steps = 1 THEN NONE ELSE p.dir
               q == [x |-> p.x + d[1], y |-> p.y + d[2], steps |-> p.steps - 1, dir |-> e]
    <2>2. MovePlayer(p) = q
      BY <1>3 DEF MovePlayer
    <2>3. q.x - d[1] = p.x /\ q.y - d[2] = p.y /\ q.steps + 1 = p.steps
      <3> HIDE DEF d
      <3> QED  BY <1>1, <2>1
    <2>4. q \in PlayerState
      <3> HIDE DEF d
      <3>1. q.x \in Int /\ q.y \in Int /\ q.steps \in Nat /\ e \in Direction \cup {NONE}
            /\ (e = NONE <=> p.steps - 1 = 0)
        BY <1>1, <1>3, <2>1
      <3> QED  BY <1>1, <2>1, <3>1 DEF PlayerState
    <2>5. ASSUME NEW r, r.dir = p.dir, r = [x |-> q.x, y |-> q.y, steps |-> q.steps, dir |-> p.dir]
          PROVE  StepBack(r) = p
      <3>1. StepBack(r) = [r EXCEPT !.steps = @ + 1, !.x = @ - d[1], !.y = @ - d[2]]
        BY <1>3, <2>5 DEF StepBack
      <3> HIDE DEF d
      <3>2. StepBack(r) = [x |-> q.x - d[1], y |-> q.y - d[2], steps |-> q.steps + 1, dir |-> p.dir]
        <4> HIDE DEF q
        <4> QED  BY <2>5, <3>1
      <3> HIDE DEF q
      <3> QED  BY <1>1, <2>3, <3>2
    <2>6. CASE p.steps = 1
      <3>1. ASSUME NEW u, u.finished = p.dir
            PROVE  StepBack(Finished(q, u)) = p
        <4>1. Finished(q, u) = [q EXCEPT !.dir = p.dir]
          BY <1>3, <3>1 DEF Finished
        <4>2. Finished(q, u) = [x |-> q.x, y |-> q.y, steps |-> q.steps, dir |-> p.dir]
          BY <4>1
        <4> QED  BY <2>5, <4>2
      <3> HIDE DEF q
      <3> QED  BY <1>3, <2>2, <2>4, <2>6, <3>1
    <2>7. CASE p.steps # 1
      <3>1. ASSUME NEW u, u.finished = NONE
            PROVE  StepBack(Finished(q, u)) = p
        <4>1. Finished(q, u) = q
          BY <3>1 DEF Finished
        <4>2. q = [x |-> q.x, y |-> q.y, steps |-> q.steps, dir |-> p.dir]
          BY <2>7
        <4> QED  BY <2>5, <4>1, <4>2
      <3> HIDE DEF q
      <3> QED  BY <1>3, <2>2, <2>4, <2>7, <3>1
    <2> QED  BY <2>6, <2>7
  <1> QED
    BY <1>2, <1>3

\* The players and the undo data after some moves of a block: who has moved
\* has what is needed to undo it, the others are as before.
Applied(players, x) ==
    /\ x.players \in PlayerMaps /\ x.undo \in UndoMaps
    /\ DOMAIN x.players = DOMAIN players \cup DOMAIN x.undo
    /\ \A n \in DOMAIN x.players \ DOMAIN x.undo : x.players[n] = players[n]
    /\ \A n \in DOMAIN x.undo :
         IF n \in DOMAIN players
         THEN /\ x.players[n].x = players[n].x /\ x.players[n].y = players[n].y
              /\ x.undo[n] = [isNew |-> FALSE, dir |-> players[n].dir, steps |-> players[n].steps,
                              changed |-> TRUE, finished |-> NONE]
         ELSE x.undo[n] = [isNew |-> TRUE, dir |-> NONE, steps |-> 0, changed |-> FALSE,
                           finished |-> NONE]

GameMap == [players : PlayerMaps, undo : UndoMaps]

LEMMA PutInMap ==
    ASSUME NEW f, NEW V, f \in UNION {[D -> V] : D \in SUBSET Player}, NEW k \in Player, NEW v \in V
    PROVE  Put(f, k, v) \in UNION {[D -> V] : D \in SUBSET Player}
  <1>1. PICK D \in SUBSET Player : f \in [D -> V]
    OBVIOUS
  <1>2. Put(f, k, v) \in [D \cup {k} -> V]
    BY <1>1 DEF Put
  <1> QED
    BY <1>1, <1>2

LEMMA MapIs ==
    ASSUME NEW f, NEW V, f \in UNION {[D -> V] : D \in SUBSET Player}
    PROVE  f = [n \in DOMAIN f |-> f[n]] /\ DOMAIN f \subseteq Player /\ \A n \in DOMAIN f : f[n] \in V
  OBVIOUS

LEMMA NoUndoFieldsType == NoUndoFields \in PlayerUndo
  BY DEF NoUndoFields, PlayerUndo

LEMMA UndoOfPlayerIs ==
    ASSUME NEW u, u \in UndoMaps, NEW n
    PROVE  UndoOfPlayer(u, n) \in PlayerUndo
  BY MapIs, NoUndoFieldsType DEF UndoOfPlayer, UndoMaps

\* One move.
LEMMA ApplyMoveIs ==
    ASSUME NEW x \in GameMap, NEW mv \in MoveRecord
    PROVE  /\ ApplyMove(x, mv) \in GameMap
           /\ ~ParseMove(mv) => ApplyMove(x, mv) = x
           /\ ParseMove(mv) =>
                /\ DOMAIN ApplyMove(x, mv).undo = DOMAIN x.undo \cup {mv.name}
                /\ \A players : Applied(players, x) /\ mv.name \notin DOMAIN x.undo =>
                                  Applied(players, ApplyMove(x, mv))
  <1>1. CASE ~ParseMove(mv)
    BY <1>1 DEF ApplyMove
  <1>2. CASE ParseMove(mv)
    <2> DEFINE name == mv.name
               known == name \in DOMAIN x.players
               old == x.players[name]
               u == UndoOfPlayer(x.undo, name)
               p == IF ~known THEN [x |-> 0, y |-> 0, dir |-> mv.dir, steps |-> mv.n]
                    ELSE [old EXCEPT !.dir = mv.dir, !.steps = mv.n]
               v == IF ~known THEN [u EXCEPT !.isNew = TRUE]
                    ELSE [u EXCEPT !.dir = old.dir, !.steps = old.steps, !.changed = TRUE]
               y == [players |-> Put(x.players, name, p), undo |-> Put(x.undo, name, v)]
    <2>1. ApplyMove(x, mv) = y
      BY <1>2 DEF ApplyMove
    <2>2. /\ name \in Player /\ mv.n \in Nat /\ mv.n # 0 /\ mv.dir \in Direction \cup {NONE}
          /\ mv.dir # NONE
      BY <1>2, MemoryGspAssumption DEF MoveRecord, ParseMove
    <2>3. /\ x.players \in PlayerMaps /\ x.undo \in UndoMaps
          /\ x.players \in UNION {[D -> PlayerState] : D \in SUBSET Player}
          /\ x.undo \in UNION {[D -> PlayerUndo] : D \in SUBSET Player}
      BY DEF GameMap, PlayerMaps, UndoMaps
    <2>4. known => old \in PlayerState
      BY <2>3, MapIs
    <2>5. u \in PlayerUndo
      BY <2>3, UndoOfPlayerIs
    <2>6. p \in PlayerState
      <3> HIDE DEF name, known, old
      <3>1. CASE known
        <4>1. p = [old EXCEPT !.dir = mv.dir, !.steps = mv.n]
          BY <3>1
        <4>2. old \in [x : Int, y : Int, dir : Direction \cup {NONE}, steps : Nat]
          BY <2>4, <3>1 DEF PlayerState
        <4>3. p \in [x : Int, y : Int, dir : Direction \cup {NONE}, steps : Nat]
              /\ p.dir = mv.dir /\ p.steps = mv.n
          BY <2>2, <4>1, <4>2
        <4> HIDE DEF p
        <4> QED  BY <2>2, <4>3 DEF PlayerState
      <3>2. CASE ~known
        <4>1. p = [x |-> 0, y |-> 0, dir |-> mv.dir, steps |-> mv.n]
          BY <3>2
        <4> HIDE DEF p
        <4>2. p \in [x : Int, y : Int, dir : Direction \cup {NONE}, steps : Nat]
              /\ p.dir = mv.dir /\ p.steps = mv.n
          BY <2>2, <4>1
        <4> QED  BY <2>2, <4>2 DEF PlayerState
      <3> QED  BY <3>1, <3>2
    <2>7. v \in PlayerUndo
      <3> HIDE DEF u, known, old
      <3> QED  BY <2>4, <2>5 DEF PlayerUndo, PlayerState, v
    <2>8. y.players \in PlayerMaps /\ y.undo \in UndoMaps
      <3> HIDE DEF p, v, name
      <3> QED  BY <2>2, <2>3, <2>6, <2>7, PutInMap DEF PlayerMaps, UndoMaps
    <2>9. /\ DOMAIN y.undo = DOMAIN x.undo \cup {name} /\ y.undo[name] = v
          /\ \A n \in DOMAIN x.undo \ {name} : y.undo[n] = x.undo[n]
          /\ DOMAIN y.players = DOMAIN x.players \cup {name} /\ y.players[name] = p
          /\ \A n \in DOMAIN x.players \ {name} : y.players[n] = x.players[n]
      <3>1. y.players = Put(x.players, name, p) /\ y.undo = Put(x.undo, name, v)
        OBVIOUS
      <3> HIDE DEF p, v, name, y
      <3>2. /\ DOMAIN y.undo = DOMAIN x.undo \cup {name} /\ y.undo[name] = v
            /\ \A n \in DOMAIN x.undo \ {name} : y.undo[n] = x.undo[n]
        <4>1. y.undo = Put(x.undo, name, v)
          BY <3>1
        <4> DEFINE f == x.undo
        <4>2. DOMAIN Put(f, name, v) = DOMAIN f \cup {name} /\ Put(f, name, v)[name] = v
              /\ \A n \in DOMAIN f \ {name} : Put(f, name, v)[n] = f[n]
          BY DEF Put
        <4> QED  BY <4>1, <4>2
      <3>3. /\ DOMAIN y.players = DOMAIN x.players \cup {name} /\ y.players[name] = p
            /\ \A n \in DOMAIN x.players \ {name} : y.players[n] = x.players[n]
        <4>1. y.players = Put(x.players, name, p)
          BY <3>1
        <4> DEFINE f == x.players
        <4>2. DOMAIN Put(f, name, p) = DOMAIN f \cup {name} /\ Put(f, name, p)[name] = p
              /\ \A n \in DOMAIN f \ {name} : Put(f, name, p)[n] = f[n]
          BY DEF Put
        <4> QED  BY <4>1, <4>2
      <3> QED  BY <3>2, <3>3
    <2>10. ASSUME NEW players, Applied(players, x), name \notin DOMAIN x.undo
           PROVE  Applied(players, y)
      <3>1. u = NoUndoFields
        BY <2>10 DEF UndoOfPlayer
      <3>2. known <=> name \in DOMAIN players
        BY <2>10 DEF Applied
      <3>3. known => old = players[name]
        BY <2>10 DEF Applied
      <3>4. CASE known
        <4>1. p.x = old.x /\ p.y = old.y
          <5> HIDE DEF old, name, known
          <5> QED  BY <2>4, <3>4 DEF PlayerState, p
        <4>2. v = [isNew |-> FALSE, dir |-> old.dir, steps |-> old.steps, changed |-> TRUE,
                   finished |-> NONE]
          <5> HIDE DEF old, name, known, u
          <5> QED  BY <3>1, <3>4 DEF NoUndoFields, v
        <4> HIDE DEF p, v, y, name, known, old
        <4> QED
          BY <2>8, <2>9, <2>10, <3>2, <3>3, <3>4, <4>1, <4>2 DEF Applied
      <3>5. CASE ~known
        <4>1. v = [isNew |-> TRUE, dir |-> NONE, steps |-> 0, changed |-> FALSE, finished |-> NONE]
          <5> HIDE DEF old, name, known, u
          <5> QED  BY <3>1, <3>5 DEF NoUndoFields, v
        <4> HIDE DEF p, v, y, name, known, old
        <4> QED
          BY <2>8, <2>9, <2>10, <3>2, <3>5, <4>1 DEF Applied
      <3> QED  BY <3>4, <3>5
    <2>11. y \in GameMap
      <3>1. y = [players |-> y.players, undo |-> y.undo]
        OBVIOUS
      <3> HIDE DEF y
      <3> QED  BY <2>8, <3>1 DEF GameMap
    <2> HIDE DEF y
    <2> QED  BY <1>2, <2>1, <2>9, <2>10, <2>11
  <1> QED
    BY <1>1, <1>2

\* The names that the first i moves of a block moved.
Movers(moves, i) == {moves[j].name : j \in {k \in 1 .. i : ParseMove(moves[k])}}

\* The first loop over a block.
LEMMA MovesApplied ==
    ASSUME OneMovePerName, NEW moves \in BlockMoves, NEW players \in PlayerMaps
    PROVE  \E x \in GameMap : Applied(players, x) /\ MoverForward(players, moves) = StepPlayers(x)
  <1> DEFINE n == Len(moves)
             start == [players |-> players, undo |-> NoPlayers]
             step == [q \in GameMap \X (1 .. n) |-> ApplyMove(q[1], moves[q[2]])]
             Is(f) == f = [i \in 0 .. n |-> IF i = 0 THEN start ELSE ApplyMove(f[i - 1], moves[i])]
             x == CHOOSE f : Is(f)
  <1>1. moves \in Seq(MoveRecord)
    BY MemoryGspAssumption DEF MoveRecord
  <1>2. n \in Nat /\ \A i \in 1 .. n : moves[i] \in MoveRecord
    BY <1>1, LenProperties, ElementOfSeq
  <1>3. start \in GameMap /\ Applied(players, start) /\ DOMAIN start.undo = {}
    <2>1. NoPlayers \in UndoMaps /\ DOMAIN NoPlayers = {}
      <3>1. NoPlayers \in [{} -> PlayerUndo]
        BY DEF NoPlayers
      <3> QED  BY <3>1 DEF UndoMaps, NoPlayers
    <2>2. start.players = players /\ start.undo = NoPlayers
      OBVIOUS
    <2>3. start \in GameMap
      BY <2>1 DEF GameMap
    <2> HIDE DEF start
    <2> QED  BY <2>1, <2>2, <2>3 DEF Applied
  <1>4. step \in [GameMap \X (1 .. n) -> GameMap]
    BY <1>2, ApplyMoveIs
  <1>5. \A q \in GameMap, i \in 1 .. n : step[<<q, i>>] = ApplyMove(q, moves[i])
    OBVIOUS
  <1>6. MoverForward(players, moves) = StepPlayers(x[n])
    BY DEF MoverForward
  <1> HIDE DEF step, start, n
  <1>7. \E f : Taken(f, n, GameMap, start, step)
    BY <1>2, <1>3, <1>4, StepsTaken
  <1>8. PICK f : Taken(f, n, GameMap, start, step)
    BY <1>7
  <1>9. Is(f)
    <2>1. f \in [0 .. n -> GameMap] /\ f[0] = start
          /\ \A i \in 1 .. n : f[i] = step[<<f[i - 1], i>>]
      BY <1>8 DEF Taken
    <2>2. \A i \in 1 .. n : i - 1 \in 0 .. n
      BY <1>2
    <2>3. \A i \in 1 .. n : f[i] = ApplyMove(f[i - 1], moves[i])
      BY <1>5, <2>1, <2>2
    <2>4. \A i \in 0 .. n : i = 0 \/ i \in 1 .. n
      BY <1>2
    <2> QED  BY <2>1, <2>3, <2>4
  <1>10. Is(x)
    <2> HIDE DEF Is
    <2> QED  BY <1>9
  <1> HIDE DEF x
  <1>11. x[0] = start /\ \A i \in 1 .. n : x[i] = ApplyMove(x[i - 1], moves[i])
    <2>1. 0 \in 0 .. n /\ \A i \in 1 .. n : i \in 0 .. n /\ i # 0
      BY <1>2
    <2> QED  BY <1>10, <2>1
  <1> DEFINE R == [i \in 0 .. n |-> {y \in GameMap : Applied(players, y)
                                                     /\ DOMAIN y.undo = Movers(moves, i)}]
  <1>12. \A i \in 0 .. n : \A y : y \in R[i] <=> /\ y \in GameMap /\ Applied(players, y)
                                                /\ DOMAIN y.undo = Movers(moves, i)
    OBVIOUS
  <1> HIDE DEF R
  <1>13. x[0] \in R[0]
    <2>1. 0 \in 0 .. n /\ Movers(moves, 0) = {}
      BY <1>2 DEF Movers
    <2> QED  BY <1>3, <1>11, <1>12, <2>1
  <1>14. \A i \in 1 .. n : x[i - 1] \in R[i - 1] => x[i] \in R[i]
    <2> SUFFICES ASSUME NEW i \in 1 .. n, x[i - 1] \in R[i - 1]
                 PROVE  x[i] \in R[i]
      OBVIOUS
    <2> DEFINE y == x[i - 1]
               mv == moves[i]
    <2>1. i \in 0 .. n /\ i - 1 \in 0 .. n /\ mv \in MoveRecord
          /\ 1 .. i = (1 .. (i - 1)) \cup {i} /\ ~(i \in 1 .. (i - 1)) /\ 1 .. (i - 1) \subseteq 1 .. n
      BY <1>2
    <2>2. y \in GameMap /\ Applied(players, y) /\ DOMAIN y.undo = Movers(moves, i - 1)
      BY <1>12, <2>1
    <2>3. x[i] = ApplyMove(y, mv)
      BY <1>11
    <2>4. CASE ~ParseMove(mv)
      <3>1. Movers(moves, i) = Movers(moves, i - 1)
        BY <2>1, <2>4 DEF Movers
      <3> HIDE DEF y, mv
      <3> QED  BY <1>12, <2>1, <2>2, <2>3, <2>4, <3>1, ApplyMoveIs
    <2>5. CASE ParseMove(mv)
      <3>1. Movers(moves, i) = Movers(moves, i - 1) \cup {mv.name}
        BY <2>1, <2>5 DEF Movers
      <3>2. mv.name \notin Movers(moves, i - 1)
        <4> SUFFICES ASSUME NEW j \in 1 .. (i - 1), ParseMove(moves[j]), mv.name = moves[j].name
                     PROVE  FALSE
          BY DEF Movers
        <4>1. j \in 1 .. n
          BY <2>1
        <4>2. j = i
          BY <2>5, <4>1 DEF OneMovePerName, n
        <4> QED  BY <2>1, <4>2
      <3> HIDE DEF y, mv
      <3> QED  BY <1>12, <2>1, <2>2, <2>3, <2>5, <3>1, <3>2, ApplyMoveIs
    <2> QED  BY <2>4, <2>5
  <1>15. \A i \in 0 .. n : x[i] \in R[i]
    BY <1>2, <1>13, <1>14, StepsKeep
  <1>16. n \in 0 .. n
    BY <1>2
  <1> QED
    BY <1>6, <1>12, <1>15, <1>16

\* A block of the mover game is undone by its undo data.
LEMMA MoverUndone ==
    ASSUME OneMovePerName, NEW moves \in BlockMoves, NEW players \in PlayerMaps
    PROVE  LET y == MoverForward(players, moves)
           IN  /\ y.players \in PlayerMaps
               /\ MoverBackwards(y.players, y.undo) = players
  <1>1. PICK x \in GameMap : Applied(players, x) /\ MoverForward(players, moves) = StepPlayers(x)
    BY MovesApplied
  <1> DEFINE P == x.players
             U == x.undo
             arrive == {n \in DOMAIN P : P[n].dir # NONE /\ P[n].steps = 1}
             Q == [n \in DOMAIN P |-> MovePlayer(P[n])]
             V == [n \in DOMAIN U \cup arrive |->
                     IF n \in arrive THEN [UndoOfPlayer(U, n) EXCEPT !.finished = P[n].dir]
                     ELSE U[n]]
  <1>2. StepPlayers(x).players = Q /\ StepPlayers(x).undo = V
    BY DEF StepPlayers
  <1>3. /\ P = [n \in DOMAIN P |-> P[n]] /\ DOMAIN P \subseteq Player
        /\ \A n \in DOMAIN P : P[n] \in PlayerState
    BY <1>1, MapIs DEF Applied, PlayerMaps
  <1>4. /\ players = [n \in DOMAIN players |-> players[n]] /\ DOMAIN players \subseteq Player
        /\ \A n \in DOMAIN players : players[n] \in PlayerState
    BY MapIs DEF PlayerMaps
  <1>5. Q \in PlayerMaps
    <2>1. Q \in [DOMAIN P -> PlayerState]
      BY <1>3, StepUndone
    <2> QED  BY <1>3, <2>1 DEF PlayerMaps
  <1>6. \A n \in DOMAIN U : U[n] \in PlayerUndo
    BY <1>1, MapIs DEF Applied, UndoMaps
  <1>7. /\ DOMAIN P = DOMAIN players \cup DOMAIN U
        /\ \A n \in DOMAIN P \ DOMAIN U : P[n] = players[n]
        /\ \A n \in DOMAIN U \ DOMAIN players :
             U[n] = [isNew |-> TRUE, dir |-> NONE, steps |-> 0, changed |-> FALSE,
                     finished |-> NONE]
        /\ \A n \in DOMAIN U \cap DOMAIN players :
             /\ P[n].x = players[n].x /\ P[n].y = players[n].y
             /\ U[n] = [isNew |-> FALSE, dir |-> players[n].dir, steps |-> players[n].steps,
                        changed |-> TRUE, finished |-> NONE]
    BY <1>1 DEF Applied
  \* The undo data that is found for a player.
  <1>8. ASSUME NEW n \in DOMAIN P
        PROVE  LET u == UndoOfPlayer(U, n)
                   v == UndoOfPlayer(V, n)
               IN  /\ u \in PlayerUndo
                   /\ v.isNew = u.isNew /\ v.changed = u.changed /\ v.dir = u.dir
                   /\ v.steps = u.steps
                   /\ v.finished = IF n \in arrive THEN P[n].dir ELSE u.finished
                   /\ u = IF n \in DOMAIN U THEN U[n] ELSE NoUndoFields
    <2> DEFINE u == UndoOfPlayer(U, n)
               v == UndoOfPlayer(V, n)
    <2>1. u \in PlayerUndo /\ u = IF n \in DOMAIN U THEN U[n] ELSE NoUndoFields
      BY <1>6, NoUndoFieldsType DEF UndoOfPlayer
    <2> DEFINE Goal == /\ v.isNew = u.isNew /\ v.changed = u.changed /\ v.dir = u.dir
                       /\ v.steps = u.steps
                       /\ v.finished = IF n \in arrive THEN P[n].dir ELSE u.finished
    <2>2. ASSUME n \in arrive PROVE Goal
      <3>1. v = [u EXCEPT !.finished = P[n].dir]
        BY <2>2 DEF UndoOfPlayer
      <3> HIDE DEF u, v, P, arrive
      <3> QED  BY <2>1, <2>2, <3>1 DEF PlayerUndo
    <2>3. ASSUME n \notin arrive PROVE Goal
      <3>1. v = u
        BY <2>3 DEF UndoOfPlayer
      <3> HIDE DEF u, v, P, arrive
      <3> QED  BY <2>3, <3>1
    <2>4. Goal
      BY <2>2, <2>3
    <2> HIDE DEF P, U, V, arrive
    <2> QED  BY <2>1, <2>4
  <1>9. \A n \in DOMAIN P : UndoOfPlayer(V, n).isNew <=> n \notin DOMAIN players
    <2> TAKE n \in DOMAIN P
    <2>1. /\ UndoOfPlayer(V, n).isNew = UndoOfPlayer(U, n).isNew
          /\ UndoOfPlayer(U, n) = IF n \in DOMAIN U THEN U[n] ELSE NoUndoFields
      BY <1>8
    <2> HIDE DEF P, U, V
    <2>2. CASE n \in DOMAIN U
      BY <1>7, <2>1, <2>2
    <2>3. CASE n \notin DOMAIN U
      BY <1>7, <2>1, <2>3 DEF NoUndoFields
    <2> QED  BY <2>2, <2>3
  <1> DEFINE B(n) == Changed(StepBack(Finished(Q[n], UndoOfPlayer(V, n))), UndoOfPlayer(V, n))
  <1>10. MoverBackwards(Q, V) = [n \in {m \in DOMAIN Q : ~UndoOfPlayer(V, m).isNew} |-> B(n)]
    BY DEF MoverBackwards
  <1>11. {m \in DOMAIN Q : ~UndoOfPlayer(V, m).isNew} = DOMAIN players
    <2>1. DOMAIN Q = DOMAIN P
      OBVIOUS
    <2> HIDE DEF Q, V, P
    <2> QED  BY <1>7, <1>9, <2>1
  <1>12. ASSUME NEW n \in DOMAIN players
         PROVE  B(n) = players[n]
    <2> DEFINE u == UndoOfPlayer(U, n)
               v == UndoOfPlayer(V, n)
    <2>1. n \in DOMAIN P /\ Q[n] = MovePlayer(P[n]) /\ P[n] \in PlayerState
      BY <1>3, <1>7
    <2>2. /\ v.changed = u.changed /\ v.dir = u.dir /\ v.steps = u.steps
          /\ v.finished = IF n \in arrive THEN P[n].dir ELSE u.finished
          /\ u = IF n \in DOMAIN U THEN U[n] ELSE NoUndoFields
      BY <1>8, <2>1
    <2>3. u.finished = NONE
      <3> HIDE DEF u, U, P
      <3>1. CASE n \in DOMAIN U
        <4>1. u = U[n] /\ n \in DOMAIN U \cap DOMAIN players
          BY <2>2, <3>1
        <4> QED  BY <1>7, <4>1
      <3>2. CASE n \notin DOMAIN U
        BY <2>2, <3>2 DEF NoUndoFields
      <3> QED  BY <3>1, <3>2
    <2>4. n \in arrive <=> P[n].dir # NONE /\ P[n].steps = 1
      BY <2>1
    <2>5. StepBack(Finished(Q[n], v)) = P[n]
      <3> HIDE DEF v, u, P, Q, arrive
      <3> QED  BY <2>1, <2>2, <2>3, <2>4, StepUndone
    <2>6. CASE n \in DOMAIN U
      <3>1. v.changed /\ v.dir = players[n].dir /\ v.steps = players[n].steps
        <4> HIDE DEF u, v, U, P
        <4>1. u = U[n] /\ n \in DOMAIN U \cap DOMAIN players
          BY <2>2, <2>6
        <4>2. u.changed /\ u.dir = players[n].dir /\ u.steps = players[n].steps
          BY <1>7, <4>1
        <4> QED  BY <2>2, <4>2
      <3>2. P[n].x = players[n].x /\ P[n].y = players[n].y
        BY <1>7, <2>6
      <3>3. players[n] \in PlayerState
        BY <1>4
      <3>4. B(n) = [P[n] EXCEPT !.dir = players[n].dir, !.steps = players[n].steps]
        <4> HIDE DEF v, P, Q
        <4> QED  BY <2>5, <3>1 DEF Changed, v
      <3> HIDE DEF B, P
      <3> QED  BY <2>1, <3>2, <3>3, <3>4 DEF PlayerState
    <2>7. CASE n \notin DOMAIN U
      <3>1. ~v.changed
        <4> HIDE DEF u, v, U, P
        <4>1. u = NoUndoFields
          BY <2>2, <2>7
        <4> QED  BY <2>2, <4>1 DEF NoUndoFields
      <3>2. P[n] = players[n]
        BY <1>7, <2>1, <2>7
      <3>3. B(n) = P[n]
        <4> HIDE DEF v, P, Q
        <4> QED  BY <2>5, <3>1 DEF Changed, v
      <3> QED  BY <3>2, <3>3
    <2> QED  BY <2>6, <2>7
  <1> HIDE DEF B, Q, V
  <1>13. MoverBackwards(Q, V) = players
    BY <1>4, <1>10, <1>11, <1>12
  <1> QED
    BY <1>1, <1>2, <1>5, <1>13

GameStates == [players : PlayerMaps, cached : Seq({"block"} \X Nat)]

\* The same for both kinds of games.
LEMMA LogicUndone ==
    ASSUME OneMovePerName, NEW moves \in BlockMoves, NEW state \in GameStates, NEW h \in Nat,
           NEW k \in {"mover", "caching"}
    PROVE  LET f == LogicForward(k, state, moves, h)
           IN  f.state \in GameStates /\ LogicBackwards(k, f.state, f.undo) = state
  <1>1. /\ state = [players |-> state.players, cached |-> state.cached]
        /\ state.players \in PlayerMaps /\ state.cached \in Seq({"block"} \X Nat)
    BY DEF GameStates
  <1> DEFINE f == LogicForward(k, state, moves, h)
  <1>2. CASE k = "mover"
    <2> DEFINE y == MoverForward(state.players, moves)
    <2>1. f = [state |-> [state EXCEPT !.players = y.players],
               undo |-> [NoGameUndo EXCEPT !.undo = y.undo]]
      BY <1>2 DEF LogicForward
    <2>2. y.players \in PlayerMaps /\ MoverBackwards(y.players, y.undo) = state.players
      BY <1>1, MoverUndone
    <2> HIDE DEF y
    <2>3. f.state = [players |-> y.players, cached |-> state.cached] /\ f.undo.undo = y.undo
      <3>1. f.undo.undo = y.undo
        BY <2>1 DEF NoGameUndo
      <3> QED  BY <1>1, <2>1, <3>1
    <2>4. LogicBackwards(k, f.state, f.undo) =
            [f.state EXCEPT !.players = MoverBackwards(f.state.players, f.undo.undo)]
      BY <1>2 DEF LogicBackwards
    <2> HIDE DEF f
    <2>5. LogicBackwards(k, f.state, f.undo) = [players |-> state.players, cached |-> state.cached]
      BY <2>2, <2>3, <2>4
    <2> QED  BY <1>1, <2>2, <2>3, <2>5 DEF GameStates, f
  <1>3. CASE k = "caching"
    <2> DEFINE c == UpdateCached(state.cached, moves, BlockRngSeed(h))
    <2>1. f = [state |-> [state EXCEPT !.cached = c],
               undo |-> [NoGameUndo EXCEPT !.old = state.cached]]
      BY <1>3 DEF LogicForward
    <2>2. c \in Seq({"block"} \X Nat)
      <3>1. BlockRngSeed(h) \in {"block"} \X Nat
        BY DEF BlockRngSeed
      <3> QED  BY <1>1, <3>1, AppendProperties DEF UpdateCached
    <2> HIDE DEF c
    <2>3. f.state = [players |-> state.players, cached |-> c] /\ f.undo.old = state.cached
      <3>1. f.undo.old = state.cached
        BY <2>1 DEF NoGameUndo
      <3> QED  BY <1>1, <2>1, <3>1
    <2>4. LogicBackwards(k, f.state, f.undo) = [f.state EXCEPT !.cached = f.undo.old]
      BY <1>3 DEF LogicBackwards
    <2> HIDE DEF f
    <2>5. LogicBackwards(k, f.state, f.undo) = [players |-> state.players, cached |-> state.cached]
      BY <2>3, <2>4
    <2> QED  BY <1>1, <2>2, <2>3, <2>5 DEF GameStates, f
  <1> QED
    BY <1>2, <1>3

(***************************************************************************)
(* There is undo data of blocks of the chain only, so that a block that is *)
(* attached gets its own; it leads from the state after its block to the   *)
(* one before.                                                             *)
(***************************************************************************)
MemoryInv ==
    /\ mem = [current |-> mem.current, state |-> mem.state, undo |-> mem.undo]
    /\ mem.state \in GameStates
    /\ kind \in GameKinds
    /\ branch \in Seq(BlockMoves) /\ before \in Seq(GameStates) /\ Len(before) = Len(branch)
    /\ DOMAIN mem.undo \subseteq 1 .. Len(branch)
    /\ BackwardsInverts

\* The state of a GSP that has nothing.
LEMMA NothingInv ==
    ASSUME NEW m, NEW k \in GameKinds,
           m = [current |-> 0, state |-> InitialMoverState, undo |-> [b \in {} |-> NoGameUndo]]
    PROVE  /\ m = [current |-> m.current, state |-> m.state, undo |-> m.undo]
           /\ m.state \in GameStates /\ DOMAIN m.undo = {}
  <1>1. NoPlayers \in PlayerMaps
    <2>1. NoPlayers \in [{} -> PlayerState]
      BY DEF NoPlayers
    <2> QED  BY <2>1 DEF PlayerMaps
  <1>2. <<>> \in Seq({"block"} \X Nat)
    BY EmptySeq
  <1>3. InitialMoverState \in GameStates
    BY <1>1, <1>2 DEF InitialMoverState, GameStates
  <1> QED
    BY <1>3

LEMMA MemoryInitInv == MemoryInit => MemoryInv
  <1> SUFFICES ASSUME MemoryInit PROVE MemoryInv
    OBVIOUS
  <1>1. kind \in GameKinds /\ branch = <<>> /\ before = <<>>
    BY DEF MemoryInit
  <1>2. /\ mem = [current |-> mem.current, state |-> mem.state, undo |-> mem.undo]
        /\ mem.state \in GameStates /\ DOMAIN mem.undo = {}
    BY <1>1, NothingInv DEF MemoryInit
  <1>3. <<>> \in Seq(BlockMoves) /\ <<>> \in Seq(GameStates) /\ Len(<<>>) = 0
    BY EmptySeq
  <1> QED
    BY <1>1, <1>2, <1>3 DEF MemoryInv, BackwardsInverts

LEMMA ClearInv == MemoryInv /\ MemoryClear => MemoryInv'
  <1> SUFFICES ASSUME MemoryInv, MemoryClear PROVE MemoryInv'
    OBVIOUS
  <1>1. kind' = kind /\ kind \in GameKinds /\ branch' = <<>> /\ before' = <<>>
    BY DEF MemoryClear, MemoryInv
  <1>2. /\ mem' = [current |-> mem'.current, state |-> mem'.state, undo |-> mem'.undo]
        /\ mem'.state \in GameStates /\ DOMAIN mem'.undo = {}
    BY <1>1, NothingInv DEF MemoryClear
  <1>3. <<>> \in Seq(BlockMoves) /\ <<>> \in Seq(GameStates) /\ Len(<<>>) = 0
    BY EmptySeq
  <1> QED
    BY <1>1, <1>2, <1>3 DEF MemoryInv, BackwardsInverts

LEMMA MemorySetIs ==
    ASSUME NEW c, NEW t, NEW u, NEW b, NEW s
    PROVE  MemorySet([current |-> c, state |-> t, undo |-> u], b, s) =
             [current |-> b, state |-> s, undo |-> u]
  <1> DEFINE r == [current |-> c, state |-> t, undo |-> u]
             q == [r EXCEPT !.current = b]
  <1>1. q = [current |-> b, state |-> t, undo |-> u]
    OBVIOUS
  <1>2. [q EXCEPT !.state = s] = [current |-> b, state |-> s, undo |-> u]
    <2> HIDE DEF q
    <2> QED  BY <1>1
  <1>3. [r EXCEPT !.current = b, !.state = s] = [q EXCEPT !.state = s]
    OBVIOUS
  <1> QED
    BY <1>2, <1>3 DEF MemorySet

LEMMA AttachMovesInv ==
    ASSUME OneMovePerName, MemoryInv, NEW moves \in BlockMoves, AttachMoves(moves)
    PROVE  MemoryInv'
  <1> DEFINE n == Len(branch)
             h == n + 1
             f == LogicForward(kind, mem.state, moves, h)
             u == mem.undo
             w == Put(u, h, f.undo)
  <1>1. /\ n \in Nat /\ DOMAIN branch = 1 .. n /\ DOMAIN before = 1 .. n
        /\ branch \in Seq(BlockMoves) /\ before \in Seq(GameStates)
        /\ mem.state \in GameStates /\ kind \in {"mover", "caching"} /\ kind \in GameKinds
        /\ DOMAIN u \subseteq 1 .. n /\ Len(before) = n
        /\ mem = [current |-> mem.current, state |-> mem.state, undo |-> u]
    BY LenProperties, MemoryGspAssumption DEF MemoryInv
  <1>2. f.state \in GameStates /\ LogicBackwards(kind, f.state, f.undo) = mem.state
    BY <1>1, LogicUndone
  <1>3. branch' = Append(branch, moves) /\ before' = Append(before, mem.state) /\ kind' = kind
    BY DEF AttachMoves
  <1>4. mem' = MemorySet(MemoryAddUndo(mem, h, f.undo), h, f.state)
    BY DEF AttachMoves
  <1> HIDE DEF f
  <1>5. h \notin DOMAIN u
    BY <1>1
  <1>6. mem' = [current |-> h, state |-> f.state, undo |-> w]
    <2>1. MemoryAddUndo(mem, h, f.undo) = [mem EXCEPT !.undo = w]
      BY <1>5 DEF MemoryAddUndo
    <2> HIDE DEF w, h, u
    <2> QED  BY <1>1, <1>4, <2>1 DEF MemorySet
  <1>7. /\ DOMAIN w = DOMAIN u \cup {h} /\ w[h] = f.undo
        /\ \A i \in DOMAIN u : w[i] = u[i]
    <2> HIDE DEF u, h
    <2> QED  BY <1>5 DEF Put
  <1>8. /\ branch' \in Seq(BlockMoves) /\ Len(branch') = h /\ DOMAIN branch' = 1 .. h
        /\ before' \in Seq(GameStates) /\ Len(before') = h /\ before'[h] = mem.state
        /\ \A i \in 1 .. n : before'[i] = before[i]
    <2>1. /\ branch' \in Seq(BlockMoves) /\ Len(branch') = h
          /\ before' \in Seq(GameStates) /\ Len(before') = h /\ before'[h] = mem.state
          /\ \A i \in 1 .. n : before'[i] = before[i]
      BY <1>1, <1>3, AppendProperties
    <2> HIDE DEF h, n
    <2> QED  BY <2>1, LenProperties
  <1>9. mem'.state = f.state /\ mem'.undo = w
    BY <1>6
  <1>10. ASSUME NEW i \in DOMAIN w
         PROVE  LogicBackwards(kind, IF i + 1 > h THEN f.state ELSE before'[i + 1], w[i]) = before'[i]
    <2>1. CASE i = h
      <3>1. i + 1 > h
        BY <1>1, <2>1
      <3> HIDE DEF h, w
      <3> QED  BY <1>2, <1>7, <1>8, <2>1, <3>1
    <2>2. CASE i \in DOMAIN u
      <3>1. i \in 1 .. n /\ w[i] = u[i] /\ before'[i] = before[i] /\ ~(i + 1 > h)
        BY <1>1, <1>7, <1>8, <2>2
      <3>2. LogicBackwards(kind, StateBefore(i + 1), u[i]) = before[i]
        BY <1>1, <2>2, <3>1 DEF MemoryInv, BackwardsInverts
      <3>3. StateBefore(i + 1) = before'[i + 1]
        <4>1. CASE i = n
          <5>1. i + 1 > Len(branch) /\ i + 1 = h
            BY <1>1, <4>1
          <5> HIDE DEF h
          <5> QED  BY <1>8, <5>1 DEF StateBefore
        <4>2. CASE i # n
          <5>1. ~(i + 1 > Len(branch)) /\ i + 1 \in 1 .. n
            BY <1>1, <3>1, <4>2
          <5> QED  BY <1>8, <5>1 DEF StateBefore
        <4> QED  BY <4>1, <4>2
      <3> HIDE DEF h, u, w
      <3> QED  BY <3>1, <3>2, <3>3
    <2> HIDE DEF w, h, u
    <2> QED  BY <1>7, <2>1, <2>2
  <1>11. BackwardsInverts'
    <2> HIDE DEF w, h
    <2> QED  BY <1>3, <1>8, <1>9, <1>10 DEF BackwardsInverts, StateBefore
  <1>12. DOMAIN w \subseteq 1 .. h
    BY <1>1, <1>7
  <1> HIDE DEF h, w
  <1> QED
    BY <1>1, <1>2, <1>3, <1>6, <1>8, <1>9, <1>11, <1>12 DEF MemoryInv

LEMMA DetachMovesInv ==
    ASSUME MemoryInv, DetachMoves
    PROVE  MemoryInv'
  <1> DEFINE n == Len(branch)
             u == mem.undo
             s == LogicBackwards(kind, mem.state, u[n])
             w == [x \in DOMAIN u \ {n} |-> u[x]]
  <1>1. /\ n \in Nat /\ DOMAIN branch = 1 .. n /\ DOMAIN before = 1 .. n
        /\ branch \in Seq(BlockMoves) /\ before \in Seq(GameStates)
        /\ DOMAIN u \subseteq 1 .. n /\ Len(before) = n
        /\ mem = [current |-> mem.current, state |-> mem.state, undo |-> u]
        /\ \A i \in 1 .. n : before[i] \in GameStates /\ branch[i] \in BlockMoves
    <2>1. /\ branch \in Seq(BlockMoves) /\ before \in Seq(GameStates)
          /\ DOMAIN u \subseteq 1 .. n /\ Len(before) = n
          /\ mem = [current |-> mem.current, state |-> mem.state, undo |-> u]
      BY DEF MemoryInv
    <2> QED  BY <2>1, LenProperties, ElementOfSeq
  <1>2. n \in DOMAIN u /\ n \in 1 .. n
    BY <1>1 DEF DetachMoves
  <1>3. s = before[n] /\ s \in GameStates
    <2>1. LogicBackwards(kind, StateBefore(n + 1), u[n]) = before[n]
      BY <1>1, <1>2 DEF MemoryInv, BackwardsInverts
    <2>2. StateBefore(n + 1) = mem.state
      BY <1>1 DEF StateBefore
    <2> QED  BY <1>1, <1>2, <2>1, <2>2
  <1>4. /\ mem' = MemoryReleaseUndo(MemorySet(mem, n - 1, s), n)
        /\ branch' = Front(branch) /\ before' = Front(before) /\ kind' = kind
    BY DEF DetachMoves
  <1> HIDE DEF s
  <1>5. mem' = [current |-> n - 1, state |-> s, undo |-> w]
    <2>1. MemorySet(mem, n - 1, s) = [current |-> n - 1, state |-> s, undo |-> u]
      <3> DEFINE old == [current |-> mem.current, state |-> mem.state, undo |-> u]
                 z == n - 1
      <3>1. mem = old
        BY <1>1
      <3>2. MemorySet(old, z, s) = [current |-> z, state |-> s, undo |-> u]
        <4> HIDE DEF z, u
        <4> QED  BY MemorySetIs
      <3> HIDE DEF old
      <3> QED  BY <3>1, <3>2
    <2> DEFINE r == [current |-> n - 1, state |-> s, undo |-> u]
    <2>2. r.undo = u
      OBVIOUS
    <2>3. MemoryReleaseUndo(r, n) = [r EXCEPT !.undo = w]
      <3> HIDE DEF r, u, n
      <3> QED  BY <2>2 DEF MemoryReleaseUndo
    <2> HIDE DEF n, u, w
    <2> QED  BY <1>4, <2>1, <2>3
  <1>6. mem'.state = s /\ mem'.undo = w
    BY <1>5
  <1>7. DOMAIN w = DOMAIN u \ {n} /\ \A i \in DOMAIN w : w[i] = u[i]
    OBVIOUS
  <1>8. /\ branch' \in Seq(BlockMoves) /\ Len(branch') = n - 1 /\ DOMAIN branch' = 1 .. (n - 1)
        /\ before' \in Seq(GameStates) /\ Len(before') = n - 1
        /\ \A i \in 1 .. (n - 1) : before'[i] = before[i]
    <2>1. /\ 1 \in Int /\ n - 1 \in Int /\ n - 1 \in Nat
          /\ \A i \in 1 .. (n - 1) : i \in 1 .. n
          /\ (n - 1) - 1 + 1 = n - 1 /\ (~(1 <= n - 1) => n - 1 = 0)
          /\ \A i \in 1 .. (n - 1) : 1 + i - 1 = i
      BY <1>1, <1>2
    <2>2. branch' = SubSeq(branch, 1, n - 1) /\ before' = SubSeq(before, 1, n - 1)
      BY <1>1, <1>4 DEF Front
    <2>3. \A i \in 1 .. (n - 1) : branch[i] \in BlockMoves /\ before[i] \in GameStates
      BY <1>1, <2>1
    <2> DEFINE z == n - 1
    <2>4. branch' = SubSeq(branch, 1, z) /\ before' = SubSeq(before, 1, z) /\ z \in Int /\ z \in Nat
          /\ (\A i \in 1 .. z : branch[i] \in BlockMoves /\ before[i] \in GameStates)
      <3> HIDE DEF n
      <3> QED  BY <2>1, <2>2, <2>3
    <2> HIDE DEF z
    <2>10. z - 1 + 1 = z /\ (~(1 <= z) => z = 0) /\ \A i \in 1 .. z : 1 + i - 1 = i
      BY <2>4
    <2>5. /\ SubSeq(branch, 1, z) \in Seq(BlockMoves)
          /\ Len(SubSeq(branch, 1, z)) = IF 1 <= z THEN z - 1 + 1 ELSE 0
      BY <2>4, SubSeqProperties
    <2>6. /\ SubSeq(before, 1, z) \in Seq(GameStates)
          /\ Len(SubSeq(before, 1, z)) = IF 1 <= z THEN z - 1 + 1 ELSE 0
          /\ \A i \in 1 .. (z - 1 + 1) : SubSeq(before, 1, z)[i] = before[1 + i - 1]
      BY <2>4, SubSeqProperties
    <2>7. branch' \in Seq(BlockMoves) /\ Len(branch') = z
      BY <2>5, <2>4, <2>10
    <2>8. before' \in Seq(GameStates) /\ Len(before') = z /\ \A i \in 1 .. z : before'[i] = before[i]
      BY <2>4, <2>6, <2>10
    <2>9. DOMAIN branch' = 1 .. z
      BY <2>7, LenProperties
    <2> QED  BY <2>7, <2>8, <2>9 DEF z
  <1>9. ASSUME NEW i \in DOMAIN w
        PROVE  LogicBackwards(kind, IF i + 1 > n - 1 THEN s ELSE before'[i + 1], w[i]) = before'[i]
    <2>1. i \in DOMAIN u /\ i \in 1 .. (n - 1) /\ w[i] = u[i] /\ before'[i] = before[i]
          /\ ~(i + 1 > n)
      BY <1>1, <1>7, <1>8
    <2>2. LogicBackwards(kind, StateBefore(i + 1), u[i]) = before[i]
      BY <1>1, <2>1 DEF MemoryInv, BackwardsInverts
    <2>3. StateBefore(i + 1) = before[i + 1]
      BY <2>1 DEF StateBefore
    <2>4. CASE i = n - 1
      <3>1. i + 1 = n /\ i + 1 > n - 1
        <4>1. n \in Int
          BY <1>1
        <4> HIDE DEF n
        <4> QED  BY <2>4, <4>1
      <3> HIDE DEF u, n, w
      <3> QED  BY <1>3, <2>1, <2>2, <2>3, <3>1
    <2>5. CASE i # n - 1
      <3>1. ~(i + 1 > n - 1) /\ before'[i + 1] = before[i + 1]
        BY <1>1, <1>8, <2>1, <2>5
      <3> HIDE DEF u, n, w
      <3> QED  BY <2>1, <2>2, <2>3, <3>1
    <2> QED  BY <2>4, <2>5
  <1>10. BackwardsInverts'
    <2> HIDE DEF w, n
    <2> QED  BY <1>4, <1>6, <1>8, <1>9 DEF BackwardsInverts, StateBefore
  <1>11. DOMAIN w \subseteq 1 .. (n - 1)
    BY <1>1, <1>7
  <1> HIDE DEF w, n
  <1> QED
    BY <1>3, <1>4, <1>5, <1>6, <1>8, <1>10, <1>11 DEF MemoryInv

LEMMA PruneMovesInv ==
    ASSUME MemoryInv, PruneMoves
    PROVE  MemoryInv'
  <1>1. PICK h \in 1 .. (Len(branch) - 1) : mem' = MemoryPrune(mem, h)
    BY DEF PruneMoves
  <1> DEFINE u == mem.undo
             w == [x \in {b \in DOMAIN u : b > h} |-> u[x]]
  <1>2. mem' = [mem EXCEPT !.undo = w]
    BY <1>1 DEF MemoryPrune
  <1>3. DOMAIN w \subseteq DOMAIN u /\ \A i \in DOMAIN w : w[i] = u[i]
    OBVIOUS
  <1> HIDE DEF w
  <1>4. mem' = [current |-> mem.current, state |-> mem.state, undo |-> w]
    BY <1>2 DEF MemoryInv
  <1>5. mem'.state = mem.state /\ mem'.undo = w
    BY <1>4
  <1>6. branch' = branch /\ before' = before /\ kind' = kind
    BY DEF PruneMoves
  <1>7. BackwardsInverts'
    <2>1. ASSUME NEW i \in DOMAIN branch \cap DOMAIN w
          PROVE  LogicBackwards(kind, StateBefore(i + 1), w[i]) = before[i]
      BY <1>3, <2>1 DEF MemoryInv, BackwardsInverts
    <2> QED  BY <1>5, <1>6, <2>1 DEF BackwardsInverts, StateBefore
  <1> QED
    BY <1>3, <1>4, <1>5, <1>6, <1>7 DEF MemoryInv

\* Whatever is attached, detached, pruned and cleared, the undo data that
\* MemoryStorage has of a block leads from the state after it to the one before
\* it, in every field of every player of the mover game, if no block moves a
\* name twice (MoverLogic::ProcessBackwardsInternal), and in a CachingGame.
THEOREM BlocksAreUndone ==
    ASSUME OneMovePerName
    PROVE  MemorySpec => []BackwardsInverts
  <1>1. MemoryInv /\ [MemoryNext]_memoryVars => MemoryInv'
    <2>1. CASE MemoryNext
      BY <2>1, AttachMovesInv, DetachMovesInv, PruneMovesInv, ClearInv DEF MemoryNext
    <2>2. CASE UNCHANGED memoryVars
      BY <2>2 DEF memoryVars, MemoryInv, BackwardsInverts, StateBefore
    <2> QED  BY <2>1, <2>2
  <1>2. MemoryInv => BackwardsInverts
    BY DEF MemoryInv
  <1> QED
    BY <1>1, <1>2, MemoryInitInv, PTL DEF MemorySpec
=============================================================================
