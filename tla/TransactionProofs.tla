------------------------- MODULE TransactionProofs -------------------------
(***************************************************************************)
(* What the operations of the storage and of the transaction manager do to *)
(* a database, for any storage contents: they only ever move contents that *)
(* were there, or that the transaction wrote, between "work" and "disk".   *)
(* So if all of those lie in a set S (the consistent ones, say), the       *)
(* results do too; DbIn(S) says it in one formula.                         *)
(***************************************************************************)
EXTENDS TransactionManager, TLAPS

DbIn(S) == {d \in Db : d.work \in S /\ d.disk \in S}

\* A storage whose cached height and contents are sane is opened as such.
LEMMA OpenDbIn ==
    ASSUME NEW S \in SUBSET Contents, NEW c \in S
    PROVE  /\ OpenDb(c) \in DbIn(S)
           /\ OpenDb(c).ok /\ ~OpenDb(c).inTxn
  BY DEF DbIn, OpenDb, Db, NoHeight

LEMMA CheckedIn ==
    ASSUME NEW S \in SUBSET Contents, NEW d \in DbIn(S), NEW e \in DbIn(S),
           NEW cond \in BOOLEAN
    PROVE  Checked(d, cond, e) \in DbIn(S)
  BY DEF DbIn, Db, Checked

LEMMA StorageBeginIn ==
    ASSUME NEW S \in SUBSET Contents, NEW d \in DbIn(S)
    PROVE  StorageBegin(d) \in DbIn(S)
  BY DEF DbIn, Db, StorageBegin, Checked

LEMMA StorageWriteIn ==
    ASSUME NEW S \in SUBSET Contents, NEW d \in DbIn(S),
           NEW c \in S, NEW h \in Nat \cup {NoHeight}
    PROVE  StorageWrite(d, c, h) \in DbIn(S)
  BY DEF DbIn, Db, StorageWrite, Checked

LEMMA MapFullIn ==
    ASSUME NEW S \in SUBSET Contents, NEW d \in DbIn(S)
    PROVE  MapFull(d) \in DbIn(S)
  BY DEF DbIn, Db, MapFull, Checked

LEMMA StorageCommitIn ==
    ASSUME NEW S \in SUBSET Contents, NEW d \in DbIn(S), NEW full \in BOOLEAN
    PROVE  StorageCommit(d, full) \in DbIn(S)
  BY DEF DbIn, Db, StorageCommit, Checked

LEMMA StorageRollbackIn ==
    ASSUME NEW S \in SUBSET Contents, NEW d \in DbIn(S)
    PROVE  StorageRollback(d) \in DbIn(S)
  BY DEF DbIn, Db, StorageRollback, Checked, NoHeight

LEMMA StorageClearIn ==
    ASSUME NEW S \in SUBSET Contents, NEW d \in DbIn(S), NEW full \in BOOLEAN,
           EmptyContents \in S
    PROVE  StorageClear(d, full) \in DbIn(S)
  BY DEF DbIn, Db, StorageClear, Checked, NoHeight

\* No operation forgets that the process has aborted, and outside of a
\* transaction none is left open.
LEMMA StorageClearIdle ==
    ASSUME NEW d \in Db, NEW full \in BOOLEAN, ~d.inTxn
    PROVE  /\ StorageClear(d, full) \in Db => ~StorageClear(d, full).inTxn
           /\ StorageClear(d, full).ok => d.ok
  BY DEF Db, StorageClear, Checked

LEMMA FlushIn ==
    ASSUME NEW S \in SUBSET Contents, NEW d \in DbIn(S), NEW full \in BOOLEAN
    PROVE  /\ Flush(d, full) \in DbIn(S)
           /\ Flush(d, full).inTxn = d.inTxn
           /\ Flush(d, full).ok => d.ok
  <1>1. StorageCommit(d, full) \in DbIn(S)
    BY StorageCommitIn
  <1>2. /\ StorageCommit(d, full).inTxn = d.inTxn
        /\ StorageCommit(d, full).ok => d.ok
    BY DEF StorageCommit, Checked, DbIn, Db
  <1> QED
    BY <1>1, <1>2 DEF Flush, Checked, DbIn, Db

LEMMA SetBatchSizeIn ==
    ASSUME NEW S \in SUBSET Contents, NEW d \in DbIn(S), NEW full \in BOOLEAN,
           NEW n \in Nat \ {0}
    PROVE  /\ SetBatchSize(d, n, full) \in DbIn(S)
           /\ SetBatchSize(d, n, full).inTxn = d.inTxn
           /\ SetBatchSize(d, n, full).ok => d.ok
  <1> DEFINE e == [d EXCEPT !.batchSize = n]
  <1>1. e \in DbIn(S) /\ e.inTxn = d.inTxn /\ e.ok = d.ok
    BY DEF DbIn, Db
  <1>2. /\ Flush(e, full) \in DbIn(S)
        /\ Flush(e, full).inTxn = d.inTxn
        /\ Flush(e, full).ok => d.ok
    BY <1>1, FlushIn
  <1> HIDE DEF e
  <1>3. SetBatchSize(d, n, full)
          = Checked(d, n >= 1, IF e.batched >= n /\ ~e.inTxn THEN Flush(e, full) ELSE e)
    BY DEF SetBatchSize, e
  <1>4. SetBatchSize(d, n, full) \in {Flush(e, full), e} \/ ~d.ok
    BY <1>3 DEF Checked
  <1>5. ~d.ok => SetBatchSize(d, n, full) = [d EXCEPT !.ok = FALSE]
    BY <1>3 DEF Checked
  <1>6. CASE ~d.ok
    BY <1>5, <1>6 DEF DbIn, Db
  <1> QED
    BY <1>1, <1>2, <1>4, <1>6

LEMMA BeginTransactionIn ==
    ASSUME NEW S \in SUBSET Contents, NEW d \in DbIn(S)
    PROVE  /\ BeginTransaction(d) \in DbIn(S)
           /\ BeginTransaction(d).ok => d.ok /\ BeginTransaction(d).inTxn
  <1> DEFINE e == [d EXCEPT !.inTxn = TRUE]
  <1>1. e \in DbIn(S) /\ e.inTxn
    BY DEF DbIn, Db
  <1>2. StorageBegin(e) \in DbIn(S) /\ StorageBegin(e).inTxn
    BY <1>1, StorageBeginIn DEF StorageBegin, Checked, DbIn, Db
  <1> HIDE DEF e
  <1>3. BeginTransaction(d)
          = Checked(d, ~d.commitFailed /\ ~d.inTxn,
                    IF d.batched = 0 THEN StorageBegin(e) ELSE e)
    BY DEF BeginTransaction, e
  <1> QED
    BY <1>1, <1>2, <1>3 DEF Checked, DbIn, Db

LEMMA CommitTransactionIn ==
    ASSUME NEW S \in SUBSET Contents, NEW d \in DbIn(S), NEW full \in BOOLEAN
    PROVE  /\ CommitTransaction(d, full) \in DbIn(S)
           /\ CommitTransaction(d, full).ok => d.ok /\ ~CommitTransaction(d, full).inTxn
  <1> DEFINE k == d.batched + 1
             e == [d EXCEPT !.inTxn = FALSE, !.batched = k]
  <1>0. k \in Nat
    BY DEF DbIn, Db
  <1>1. e \in DbIn(S) /\ ~e.inTxn
    <2> HIDE DEF k
    <2> QED  BY <1>0 DEF DbIn, Db
  <1>2. Flush(e, full) \in DbIn(S) /\ ~Flush(e, full).inTxn
    <2> HIDE DEF e
    <2> QED  BY <1>1, FlushIn
  <1> HIDE DEF e
  <1>3. CommitTransaction(d, full)
          = Checked(d, ~d.commitFailed /\ d.inTxn,
                    IF e.batched >= e.batchSize THEN Flush(e, full) ELSE e)
    BY DEF CommitTransaction, e
  <1> QED
    BY <1>1, <1>2, <1>3 DEF Checked, DbIn, Db

LEMMA RollbackTransactionIn ==
    ASSUME NEW S \in SUBSET Contents, NEW d \in DbIn(S)
    PROVE  /\ RollbackTransaction(d) \in DbIn(S)
           /\ RollbackTransaction(d).ok => d.ok /\ ~RollbackTransaction(d).inTxn
  BY DEF RollbackTransaction, StorageRollback, Checked, DbIn, Db, NoHeight

LEMMA TryAbortTransactionIn ==
    ASSUME NEW S \in SUBSET Contents, NEW d \in DbIn(S)
    PROVE  /\ TryAbortTransaction(d) \in DbIn(S)
           /\ TryAbortTransaction(d).ok => d.ok /\ ~TryAbortTransaction(d).inTxn
  BY DEF TryAbortTransaction, StorageRollback, Checked, DbIn, Db, NoHeight

\* One ActiveTransaction that writes c, whatever goes wrong: the contents
\* afterwards, read or on disk, are old ones or c, and the scope is closed.
LEMMA ActiveTransactionIn ==
    ASSUME NEW S \in SUBSET Contents, NEW d \in DbIn(S), NEW c \in S,
           NEW h \in Nat \cup {NoHeight}, NEW fault
    PROVE  /\ ActiveTransaction(d, c, h, fault).db \in DbIn(S)
           /\ ActiveTransaction(d, c, h, fault).db.ok =>
                d.ok /\ ~ActiveTransaction(d, c, h, fault).db.inTxn
  <1> DEFINE begun == BeginTransaction(d)
             full  == fault = "commit"
             put   == StorageWrite(begun, c, h)
             done  == CommitTransaction(put, full)
             t     == ActiveTransaction(d, c, h, fault)
  <1>1. begun \in DbIn(S) /\ (begun.ok => d.ok)
    BY BeginTransactionIn
  <1>2. put \in DbIn(S) /\ (put.ok => d.ok)
    BY <1>1, StorageWriteIn DEF StorageWrite, Checked, DbIn, Db
  <1>3. MapFull(begun) \in DbIn(S) /\ (MapFull(begun).ok => d.ok)
    BY <1>1, MapFullIn DEF MapFull, Checked, DbIn, Db
  <1>4. done \in DbIn(S) /\ (done.ok => d.ok /\ ~done.inTxn)
    <2>1. full \in BOOLEAN
      OBVIOUS
    <2> HIDE DEF full, put, begun
    <2> QED
      BY <1>2, <2>1, CommitTransactionIn
  <1>5. t.db \in {RollbackTransaction(begun), RollbackTransaction(MapFull(begun)),
                  RollbackTransaction(done), done}
    BY DEF ActiveTransaction
  <1> DEFINE full0 == MapFull(begun)
  <1> HIDE DEF full0, begun, full, put, done, t
  <1>6. ASSUME NEW x \in {begun, full0, done}
        PROVE  /\ RollbackTransaction(x) \in DbIn(S)
               /\ RollbackTransaction(x).ok => d.ok /\ ~RollbackTransaction(x).inTxn
    <2>1. x \in DbIn(S) /\ (x.ok => d.ok)
      BY <1>1, <1>3, <1>4 DEF full0
    <2> QED
      BY <2>1, RollbackTransactionIn
  <1>7. t.db \in DbIn(S) /\ (t.db.ok => d.ok /\ ~t.db.inTxn)
    BY <1>4, <1>5, <1>6 DEF full0
  <1> QED
    BY <1>7 DEF t

\* An ActiveTransaction that meets no fault has written c.
LEMMA ActiveTransactionWrites ==
    ASSUME NEW S \in SUBSET Contents, NEW d \in DbIn(S), NEW c \in S,
           NEW h \in Nat \cup {NoHeight},
           ActiveTransaction(d, c, h, "none").db.ok
    PROVE  ActiveTransaction(d, c, h, "none").db.work = c
  <1> DEFINE begun == BeginTransaction(d)
             put   == StorageWrite(begun, c, h)
             done  == CommitTransaction(put, FALSE)
             t     == ActiveTransaction(d, c, h, "none")
  <1>1. begun \in DbIn(S) /\ (begun.ok => ~begun.commitFailed)
    <2> DEFINE e == [d EXCEPT !.inTxn = TRUE]
    <2>1. begun \in DbIn(S)
      BY BeginTransactionIn
    <2>2. e \in Db /\ e.commitFailed = d.commitFailed
      BY DEF DbIn, Db
    <2> HIDE DEF e
    <2>3. StorageBegin(e).commitFailed = d.commitFailed
      BY <2>2 DEF StorageBegin, Checked, Db
    <2>4. begun = Checked(d, ~d.commitFailed /\ ~d.inTxn,
                          IF d.batched = 0 THEN StorageBegin(e) ELSE e)
      BY DEF BeginTransaction, e
    <2> HIDE DEF begun
    <2>5. begun.ok => ~begun.commitFailed
      BY <2>2, <2>3, <2>4 DEF Checked, DbIn, Db
    <2> QED
      BY <2>1, <2>5
  <1>2. /\ put \in DbIn(S)
        /\ put.ok => ~put.commitFailed /\ put.work = c
    <2> HIDE DEF begun
    <2> QED
      BY <1>1, StorageWriteIn DEF StorageWrite, Checked, DbIn, Db
  <1>3. /\ done \in DbIn(S)
        /\ done.ok => ~done.commitFailed /\ done.work = c
    <2> HIDE DEF put
    <2>1. done \in DbIn(S)
      BY <1>2, CommitTransactionIn
    <2> DEFINE k == put.batched + 1
               e == [put EXCEPT !.inTxn = FALSE, !.batched = k]
    <2>2. k \in Nat
      BY <1>2 DEF DbIn, Db
    <2> HIDE DEF k
    <2>3. /\ e.ok = put.ok /\ e.commitFailed = put.commitFailed
          /\ e.work = put.work
      BY <1>2, <2>2 DEF DbIn, Db
    <2>4. e \in DbIn(S)
      BY <1>2, <2>2 DEF DbIn, Db
    <2> HIDE DEF e
    <2>5. Flush(e, FALSE).ok => /\ ~Flush(e, FALSE).commitFailed
                                /\ Flush(e, FALSE).work = e.work
      BY <2>4 DEF Flush, StorageCommit, Checked, DbIn, Db
    <2>6. done = Checked(put, ~put.commitFailed /\ put.inTxn,
                         IF e.batched >= e.batchSize THEN Flush(e, FALSE) ELSE e)
      BY DEF CommitTransaction, e, k
    <2> QED
      BY <1>2, <2>1, <2>3, <2>5, <2>6 DEF Checked, DbIn, Db
  <1>4. t.db = IF done.commitFailed THEN RollbackTransaction(done) ELSE done
    BY DEF ActiveTransaction
  <1> HIDE DEF done, t
  <1>5. RollbackTransaction(done).ok => done.ok
    BY <1>3, RollbackTransactionIn
  <1> QED
    BY <1>3, <1>4, <1>5 DEF t

----------------------------------------------------------------------------
(* The operations that find what they check for, field by field.           *)

\* The storage has a transaction open as long as something is batched.
LEMMA BeginTransactionFacts ==
    ASSUME NEW d \in Db, d.ok, ~d.inTxn, ~d.commitFailed, ~d.needsResize,
           d.open <=> d.batched > 0
    PROVE  /\ BeginTransaction(d) \in Db
           /\ BeginTransaction(d).ok /\ BeginTransaction(d).inTxn /\ BeginTransaction(d).open
           /\ ~BeginTransaction(d).commitFailed /\ ~BeginTransaction(d).needsResize
           /\ BeginTransaction(d).work = d.work /\ BeginTransaction(d).disk = d.disk
           /\ BeginTransaction(d).height = d.height
           /\ BeginTransaction(d).batched = d.batched
           /\ BeginTransaction(d).batchSize = d.batchSize
  <1> DEFINE e == [d EXCEPT !.inTxn = TRUE]  s == StorageBegin(e)
             r == BeginTransaction(d)
  <1>1. /\ e \in Db /\ e.inTxn /\ e.ok /\ ~e.commitFailed /\ ~e.needsResize
        /\ (e.open <=> d.open) /\ e.work = d.work /\ e.disk = d.disk
        /\ e.height = d.height /\ e.batched = d.batched /\ e.batchSize = d.batchSize
    BY DEF Db
  <1>2. r = IF d.batched = 0 THEN s ELSE e
    BY DEF BeginTransaction, Checked
  <1> HIDE DEF e, r
  <1>3. d.batched = 0 => s = [e EXCEPT !.open = TRUE]
    BY <1>1 DEF StorageBegin, Checked, Db
  <1>4. d.batched # 0 => e.open
    BY <1>1 DEF Db
  <1> HIDE DEF s
  <1>5. CASE d.batched = 0
    <2>1. r = [e EXCEPT !.open = TRUE]
      BY <1>2, <1>3, <1>5
    <2>2. /\ r \in Db /\ r.ok /\ r.inTxn /\ r.open /\ ~r.commitFailed /\ ~r.needsResize
          /\ r.work = d.work /\ r.disk = d.disk /\ r.height = d.height
          /\ r.batched = d.batched /\ r.batchSize = d.batchSize
      BY <1>1, <2>1 DEF Db
    <2> QED
      BY <2>2 DEF r
  <1>6. CASE d.batched # 0
    BY <1>1, <1>2, <1>4, <1>6 DEF r
  <1> QED
    BY <1>5, <1>6

LEMMA StorageWriteFacts ==
    ASSUME NEW d \in Db, d.ok, d.open, NEW c \in Contents, NEW h \in Nat \cup {NoHeight}
    PROVE  /\ StorageWrite(d, c, h) = [d EXCEPT !.work = c, !.height = h]
           /\ StorageWrite(d, c, h) \in Db
  BY DEF StorageWrite, Checked, Db

LEMMA MapFullFacts ==
    ASSUME NEW d \in Db, d.ok, ~d.needsResize
    PROVE  /\ MapFull(d) = [d EXCEPT !.needsResize = TRUE]
           /\ MapFull(d) \in Db
  BY DEF MapFull, Checked, Db

\* The commit that fills the batch makes it durable, or loses all of it.
LEMMA CommitTransactionFacts ==
    ASSUME NEW d \in Db, d.ok, d.inTxn, d.open, ~d.commitFailed, ~d.needsResize,
           NEW full \in BOOLEAN
    PROVE  LET r == CommitTransaction(d, full)
           IN  /\ r \in Db /\ r.ok /\ ~r.inTxn
               /\ r.batchSize = d.batchSize /\ r.height = d.height
               /\ IF d.batched + 1 < d.batchSize
                  THEN /\ r.open /\ ~r.commitFailed /\ ~r.needsResize
                       /\ r.work = d.work /\ r.disk = d.disk
                       /\ r.batched = d.batched + 1
                  ELSE IF full
                  THEN /\ ~r.open /\ r.commitFailed /\ r.needsResize
                       /\ r.work = d.disk /\ r.disk = d.disk
                  ELSE /\ ~r.open /\ ~r.commitFailed /\ ~r.needsResize
                       /\ r.work = d.work /\ r.disk = d.work
                       /\ r.batched = 0
  <1> DEFINE k == d.batched + 1
             e == [d EXCEPT !.inTxn = FALSE, !.batched = k]
             f == Flush(e, full)
             r == CommitTransaction(d, full)
  <1>1. k \in Nat \ {0} /\ d.batchSize \in Nat \ {0}
    BY DEF Db
  <1> HIDE DEF k
  <1>2. /\ e \in Db /\ ~e.inTxn /\ e.ok /\ e.open /\ ~e.commitFailed /\ ~e.needsResize
        /\ e.work = d.work /\ e.disk = d.disk
        /\ e.height = d.height /\ e.batched = k /\ e.batchSize = d.batchSize
    BY <1>1 DEF Db
  <1>3. r = IF k >= d.batchSize THEN f ELSE e
    BY <1>2 DEF CommitTransaction, Checked, k
  <1> HIDE DEF e, r
  <1>4. f = IF full THEN [StorageCommit(e, TRUE) EXCEPT !.commitFailed = TRUE]
                    ELSE [StorageCommit(e, FALSE) EXCEPT !.batched = 0]
    BY <1>1, <1>2 DEF Flush, Checked
  <1>5. CASE k >= d.batchSize /\ full
    <2> DEFINE c == StorageCommit(e, TRUE)
    <2>1. /\ c \in Db /\ ~c.inTxn /\ c.ok /\ ~c.open /\ c.needsResize
          /\ c.work = d.disk /\ c.disk = d.disk
          /\ c.height = d.height /\ c.batchSize = d.batchSize
      BY <1>2 DEF StorageCommit, Checked, Db
    <2>2. r = [c EXCEPT !.commitFailed = TRUE]
      BY <1>3, <1>4, <1>5
    <2>3. ~(k < d.batchSize)
      BY <1>1, <1>5
    <2> HIDE DEF c, f
    <2>4. /\ r \in Db /\ ~r.inTxn /\ r.ok /\ ~r.open /\ r.needsResize /\ r.commitFailed
          /\ r.work = d.disk /\ r.disk = d.disk
          /\ r.height = d.height /\ r.batchSize = d.batchSize
      BY <2>1, <2>2 DEF Db
    <2> QED
      BY <1>5, <2>3, <2>4 DEF r, k
  <1>6. CASE k >= d.batchSize /\ ~full
    <2> DEFINE c == StorageCommit(e, FALSE)
    <2>1. /\ c \in Db /\ ~c.inTxn /\ c.ok /\ ~c.open /\ ~c.needsResize /\ ~c.commitFailed
          /\ c.work = d.work /\ c.disk = d.work
          /\ c.height = d.height /\ c.batchSize = d.batchSize
      BY <1>2 DEF StorageCommit, Checked, Db
    <2>2. r = [c EXCEPT !.batched = 0]
      BY <1>3, <1>4, <1>6
    <2>3. ~(k < d.batchSize)
      BY <1>1, <1>6
    <2> HIDE DEF c, f
    <2>4. /\ r \in Db /\ ~r.inTxn /\ r.ok /\ ~r.open /\ ~r.needsResize /\ ~r.commitFailed
          /\ r.work = d.work /\ r.disk = d.work /\ r.batched = 0
          /\ r.height = d.height /\ r.batchSize = d.batchSize
      BY <2>1, <2>2 DEF Db
    <2> QED
      BY <1>6, <2>3, <2>4 DEF r, k
  <1>7. CASE k < d.batchSize
    <2>1. r = e
      BY <1>1, <1>3, <1>7
    <2> QED
      BY <1>2, <1>7, <2>1 DEF r, k
  <1> QED
    BY <1>1, <1>5, <1>6, <1>7

LEMMA RollbackTransactionFacts ==
    ASSUME NEW d \in Db, d.ok, d.inTxn \/ d.commitFailed
    PROVE  LET r == RollbackTransaction(d)
           IN  /\ r \in Db /\ r.ok /\ ~r.inTxn /\ ~r.open /\ ~r.commitFailed /\ ~r.needsResize
               /\ r.work = d.disk /\ r.disk = d.disk /\ r.height = NoHeight
               /\ r.batched = 0 /\ r.batchSize = d.batchSize
  BY DEF RollbackTransaction, StorageRollback, Checked, Db, NoHeight

\* Between two updates, whatever is batched is given up.
LEMMA TryAbortTransactionFacts ==
    ASSUME NEW d \in Db, d.ok, d.open => d.inTxn \/ d.commitFailed \/ d.batched > 0,
           d.needsResize => d.inTxn \/ d.commitFailed \/ d.batched > 0,
           ~d.open => d.work = d.disk
    PROVE  LET r == TryAbortTransaction(d)
           IN  /\ r \in Db /\ r.ok /\ ~r.inTxn /\ ~r.open /\ ~r.commitFailed /\ ~r.needsResize
               /\ r.work = d.disk /\ r.disk = d.disk /\ r.height \in {NoHeight, d.height}
               /\ (d.height # r.height => d.open \/ d.commitFailed \/ d.inTxn \/ d.batched > 0)
               /\ r.batched = 0 /\ r.batchSize = d.batchSize
  <1> DEFINE e == IF d.inTxn \/ d.commitFailed \/ d.batched > 0
                  THEN StorageRollback(d) ELSE d
             r == TryAbortTransaction(d)
  <1>1. /\ e \in Db /\ e.ok /\ ~e.open /\ ~e.needsResize
        /\ e.work = d.disk /\ e.disk = d.disk /\ e.height \in {NoHeight, d.height}
        /\ (d.height # e.height => d.open \/ d.commitFailed \/ d.inTxn \/ d.batched > 0)
        /\ e.batchSize = d.batchSize
    BY DEF StorageRollback, Checked, Db, NoHeight
  <1>2. r = [e EXCEPT !.inTxn = FALSE, !.commitFailed = FALSE, !.batched = 0]
    BY DEF TryAbortTransaction, Checked
  <1> HIDE DEF e, r
  <1>3. /\ r \in Db /\ r.ok /\ ~r.inTxn /\ ~r.open /\ ~r.commitFailed /\ ~r.needsResize
        /\ r.work = d.disk /\ r.disk = d.disk /\ r.height = e.height
        /\ r.batched = 0 /\ r.batchSize = d.batchSize
    BY <1>1, <1>2 DEF Db
  <1> QED
    BY <1>1, <1>3 DEF r

\* A new batch size flushes a batch that is too large for it.
LEMMA SetBatchSizeFacts ==
    ASSUME NEW d \in Db, d.ok, ~d.inTxn, ~d.commitFailed, ~d.needsResize,
           d.open <=> d.batched > 0, ~d.open => d.work = d.disk,
           NEW n \in Nat \ {0}, NEW full \in BOOLEAN
    PROVE  LET r == SetBatchSize(d, n, full)
           IN  /\ r \in Db /\ r.ok /\ ~r.inTxn
               /\ r.batchSize = n /\ r.height = d.height
               /\ IF d.batched < n
                  THEN /\ (r.open <=> d.open) /\ ~r.commitFailed /\ ~r.needsResize
                       /\ r.work = d.work /\ r.disk = d.disk
                       /\ r.batched = d.batched
                  ELSE IF full
                  THEN /\ ~r.open /\ r.commitFailed /\ r.needsResize
                       /\ r.work = d.disk /\ r.disk = d.disk
                  ELSE /\ ~r.open /\ ~r.commitFailed /\ ~r.needsResize
                       /\ r.work = d.work /\ r.disk = d.work
                       /\ r.batched = 0
  <1> DEFINE e == [d EXCEPT !.batchSize = n]
             f == Flush(e, full)
             r == SetBatchSize(d, n, full)
  <1>1. d.batched \in Nat
    BY DEF Db
  <1>2. /\ e \in Db /\ ~e.inTxn /\ e.ok /\ (e.open <=> d.open)
        /\ ~e.commitFailed /\ ~e.needsResize
        /\ e.work = d.work /\ e.disk = d.disk
        /\ e.height = d.height /\ e.batched = d.batched /\ e.batchSize = n
    BY DEF Db
  <1>3. r = IF d.batched >= n THEN f ELSE e
    BY <1>2 DEF SetBatchSize, Checked
  <1> HIDE DEF e, r
  <1>4. d.batched >= n =>
          f = IF full THEN [StorageCommit(e, TRUE) EXCEPT !.commitFailed = TRUE]
                      ELSE [StorageCommit(e, FALSE) EXCEPT !.batched = 0]
    BY <1>1, <1>2 DEF Flush, Checked
  <1>5. CASE d.batched >= n /\ full
    <2> DEFINE c == StorageCommit(e, TRUE)
    <2>0. e.open
      BY <1>1, <1>2, <1>5
    <2>1. /\ c \in Db /\ ~c.inTxn /\ c.ok /\ ~c.open /\ c.needsResize
          /\ c.work = d.disk /\ c.disk = d.disk
          /\ c.height = d.height /\ c.batchSize = n
      BY <1>2, <2>0 DEF StorageCommit, Checked, Db
    <2>2. r = [c EXCEPT !.commitFailed = TRUE]
      BY <1>3, <1>4, <1>5
    <2>3. ~(d.batched < n)
      BY <1>1, <1>5
    <2> HIDE DEF c, f
    <2>4. /\ r \in Db /\ ~r.inTxn /\ r.ok /\ ~r.open /\ r.needsResize /\ r.commitFailed
          /\ r.work = d.disk /\ r.disk = d.disk
          /\ r.height = d.height /\ r.batchSize = n
      BY <2>1, <2>2 DEF Db
    <2> QED
      BY <1>5, <2>3, <2>4 DEF r
  <1>6. CASE d.batched >= n /\ ~full
    <2> DEFINE c == StorageCommit(e, FALSE)
    <2>0. e.open
      BY <1>1, <1>2, <1>6
    <2>1. /\ c \in Db /\ ~c.inTxn /\ c.ok /\ ~c.open /\ ~c.needsResize /\ ~c.commitFailed
          /\ c.work = d.work /\ c.disk = d.work
          /\ c.height = d.height /\ c.batchSize = n
      BY <1>2, <2>0 DEF StorageCommit, Checked, Db
    <2>2. r = [c EXCEPT !.batched = 0]
      BY <1>3, <1>4, <1>6
    <2>3. ~(d.batched < n)
      BY <1>1, <1>6
    <2> HIDE DEF c, f
    <2>4. /\ r \in Db /\ ~r.inTxn /\ r.ok /\ ~r.open /\ ~r.needsResize /\ ~r.commitFailed
          /\ r.work = d.work /\ r.disk = d.work /\ r.batched = 0
          /\ r.height = d.height /\ r.batchSize = n
      BY <2>1, <2>2 DEF Db
    <2> QED
      BY <1>6, <2>3, <2>4 DEF r
  <1>7. CASE d.batched < n
    <2>1. r = e
      BY <1>1, <1>3, <1>7
    <2> QED
      BY <1>2, <1>7, <2>1 DEF r
  <1> QED
    BY <1>1, <1>5, <1>6, <1>7

\* An ActiveTransaction whose first CHECK fails does not come back.
LEMMA ActiveTransactionAborts ==
    ASSUME NEW S \in SUBSET Contents, NEW d \in DbIn(S), NEW c \in S,
           NEW h \in Nat \cup {NoHeight}, NEW fault, ~BeginTransaction(d).ok
    PROVE  ~ActiveTransaction(d, c, h, fault).db.ok
  <1> DEFINE begun == BeginTransaction(d)
             full  == fault = "commit"
             put   == StorageWrite(begun, c, h)
             done  == CommitTransaction(put, full)
             lost  == MapFull(begun)
             t     == ActiveTransaction(d, c, h, fault)
  <1>1. begun \in DbIn(S) /\ ~begun.ok
    BY BeginTransactionIn
  <1>2. put \in DbIn(S) /\ ~put.ok
    BY <1>1, StorageWriteIn DEF StorageWrite, Checked, DbIn, Db
  <1>3. lost \in DbIn(S) /\ ~lost.ok
    BY <1>1, MapFullIn DEF MapFull, Checked, DbIn, Db
  <1>4. done \in DbIn(S) /\ ~done.ok
    <2>1. full \in BOOLEAN
      OBVIOUS
    <2> HIDE DEF full, put, begun
    <2> QED
      BY <1>2, <2>1, CommitTransactionIn
  <1>5. t.db \in {RollbackTransaction(begun), RollbackTransaction(lost),
                  RollbackTransaction(done), done}
    BY DEF ActiveTransaction
  <1> HIDE DEF begun, full, put, done, lost, t
  <1>6. ~t.db.ok
    BY <1>1, <1>3, <1>4, <1>5, RollbackTransactionIn
  <1> QED
    BY <1>6 DEF t

\* All or nothing: an ActiveTransaction that began either has written c, perhaps
\* with the whole batch, or has taken the contents back to what is on disk.
LEMMA ActiveTransactionFacts ==
    ASSUME NEW d \in Db, d.ok, ~d.inTxn, ~d.commitFailed, ~d.needsResize,
           d.open <=> d.batched > 0,
           NEW c \in Contents, NEW h \in Nat \cup {NoHeight}, NEW fault
    PROVE  LET t == ActiveTransaction(d, c, h, fault)
               r == t.db
           IN  /\ r \in Db /\ r.ok /\ ~r.inTxn /\ ~r.commitFailed /\ ~r.needsResize
               /\ r.batchSize = d.batchSize
               /\ \/ /\ t.res = "ok" /\ r.work = c /\ r.height = h
                     /\ d.batched + 1 < d.batchSize
                     /\ r.open /\ r.batched = d.batched + 1 /\ r.disk = d.disk
                  \/ /\ t.res = "ok" /\ r.work = c /\ r.height = h
                     /\ ~r.open /\ r.batched = 0 /\ r.disk = c
                  \/ /\ t.res # "ok" /\ ~r.open /\ r.batched = 0
                     /\ r.work = d.disk /\ r.disk = d.disk /\ r.height = NoHeight
  <1> DEFINE begun == BeginTransaction(d)
             full  == fault = "commit"
             put   == StorageWrite(begun, c, h)
             done  == CommitTransaction(put, full)
             lost  == MapFull(begun)
             t     == ActiveTransaction(d, c, h, fault)
  <1>1. /\ begun \in Db /\ begun.ok /\ begun.inTxn /\ begun.open
        /\ ~begun.commitFailed /\ ~begun.needsResize /\ begun.disk = d.disk
        /\ begun.batched = d.batched /\ begun.batchSize = d.batchSize
    BY BeginTransactionFacts
  <1> HIDE DEF begun
  <1>2. /\ put \in Db /\ put.ok /\ put.inTxn /\ put.open
        /\ ~put.commitFailed /\ ~put.needsResize /\ put.disk = d.disk
        /\ put.batched = d.batched /\ put.batchSize = d.batchSize
        /\ put.work = c /\ put.height = h
    <2>1. put \in Db /\ put = [begun EXCEPT !.work = c, !.height = h]
      BY <1>1, StorageWriteFacts
    <2> HIDE DEF put
    <2> QED
      BY <1>1, <2>1 DEF Db
  <1>3. /\ lost \in Db /\ lost.ok /\ lost.inTxn
        /\ lost.disk = d.disk /\ lost.batchSize = d.batchSize
    <2>1. lost \in Db /\ lost = [begun EXCEPT !.needsResize = TRUE]
      BY <1>1, MapFullFacts
    <2> HIDE DEF lost
    <2> QED
      BY <1>1, <2>1 DEF Db
  <1> HIDE DEF put, lost
  <1>4. /\ done \in Db /\ done.ok /\ ~done.inTxn
        /\ done.batchSize = d.batchSize /\ done.height = h
        /\ IF d.batched + 1 < d.batchSize
           THEN /\ done.open /\ ~done.commitFailed /\ ~done.needsResize
                /\ done.work = c /\ done.disk = d.disk
                /\ done.batched = d.batched + 1
           ELSE IF full
           THEN /\ ~done.open /\ done.commitFailed /\ done.needsResize
                /\ done.work = d.disk /\ done.disk = d.disk
           ELSE /\ ~done.open /\ ~done.commitFailed /\ ~done.needsResize
                /\ done.work = c /\ done.disk = c
                /\ done.batched = 0
    <2>1. full \in BOOLEAN
      OBVIOUS
    <2> HIDE DEF full
    <2> QED
      BY <1>2, <2>1, CommitTransactionFacts
  <1>5. \/ t.res # "ok" /\ t.db \in {RollbackTransaction(begun), RollbackTransaction(lost)}
        \/ t.res # "ok" /\ t.db = RollbackTransaction(done) /\ done.commitFailed
        \/ t.res = "ok" /\ t.db = done /\ ~done.commitFailed
    BY DEF ActiveTransaction, begun, put, lost
  <1> HIDE DEF full, done, t
  <1>6. ASSUME NEW x \in Db, x.ok, x.inTxn \/ x.commitFailed,
               x.disk = d.disk, x.batchSize = d.batchSize,
               t.res # "ok", t.db = RollbackTransaction(x)
        PROVE  /\ t.db \in Db /\ t.db.ok /\ ~t.db.inTxn /\ ~t.db.commitFailed
               /\ ~t.db.needsResize /\ t.db.batchSize = d.batchSize
               /\ ~t.db.open /\ t.db.batched = 0
               /\ t.db.work = d.disk /\ t.db.disk = d.disk /\ t.db.height = NoHeight
    BY <1>6, RollbackTransactionFacts
  <1>7. CASE t.res # "ok"
    <2>1. PICK x \in {begun, lost, done} :
             t.db = RollbackTransaction(x) /\ (x = done => done.commitFailed)
      <3>1. CASE t.db = RollbackTransaction(done) /\ done.commitFailed
        BY <3>1
      <3>2. CASE t.db = RollbackTransaction(begun)
        BY <1>1, <1>4, <3>2
      <3>3. CASE t.db = RollbackTransaction(lost)
        BY <1>3, <1>4, <3>3
      <3> QED
        BY <1>5, <1>7, <3>1, <3>2, <3>3
    <2>2. /\ x \in Db /\ x.ok /\ (x.inTxn \/ x.commitFailed)
          /\ x.disk = d.disk /\ x.batchSize = d.batchSize
      BY <1>1, <1>3, <1>4, <2>1
    <2>3. /\ t.db \in Db /\ t.db.ok /\ ~t.db.inTxn /\ ~t.db.commitFailed
          /\ ~t.db.needsResize /\ t.db.batchSize = d.batchSize
          /\ ~t.db.open /\ t.db.batched = 0
          /\ t.db.work = d.disk /\ t.db.disk = d.disk /\ t.db.height = NoHeight
      BY <1>6, <1>7, <2>1, <2>2
    <2> QED
      BY <1>7, <2>3 DEF t
  <1>8. CASE t.res = "ok"
    <2>1. t.db = done /\ ~done.commitFailed
      BY <1>5, <1>8
    <2> QED
      BY <1>4, <1>8, <2>1 DEF t
  <1> QED
    BY <1>7, <1>8
=============================================================================
