--------------------------- MODULE GameSyncProofs ---------------------------
(***************************************************************************)
(* For every block tree, game, batch size, pruning depth and set of faults *)
(* allowed by the assumptions: Game never leaves, in the storage it reads  *)
(* or on disk, contents that a replay from the genesis would not produce.  *)
(***************************************************************************)
EXTENDS GameSync, NumberProofs, TransactionProofs, SequenceTheorems

----------------------------------------------------------------------------
(* The block tree: Ancestors follows its recursive definition, and         *)
(* ancestors lie below.  Both are proved without induction, from the       *)
(* fixpoint that exists in any tree and from the least element of a set of *)
(* heights.                                                                *)

\* The recursion has a solution: all blocks that every set of blocks closed
\* under Parent around b contains.
LEMMA AncestorsEquation ==
    Ancestors = [b \in Block |->
                   {b} \cup IF Parent[b] = NoBlock THEN {} ELSE Ancestors[Parent[b]]]
  <1> DEFINE Closed(S) == \A x \in S : Parent[x] # NoBlock => Parent[x] \in S
             Around(b) == {S \in SUBSET Block : b \in S /\ Closed(S)}
             f == [b \in Block |-> {a \in Block : \A S \in Around(b) : a \in S}]
             next(b) == {b} \cup IF Parent[b] = NoBlock THEN {} ELSE f[Parent[b]]
  <1>1. ASSUME NEW b \in Block
        PROVE  f[b] = next(b)
    <2>1. Parent[b] # NoBlock => Parent[b] \in Block
      BY ChainAssumption
    <2>2. \A c \in Block : f[c] = {a \in Block : \A S \in Around(c) : a \in S}
      OBVIOUS
    <2>3. \A c \in Block : c \in f[c] /\ f[c] \subseteq Block
      BY <2>2
    <2>4. ASSUME NEW c \in Block, NEW x \in f[c], Parent[x] # NoBlock
          PROVE  Parent[x] \in f[c]
      BY <2>2, <2>4, ChainAssumption
    <2>5. next(b) \in Around(b)
      <3>1. CASE Parent[b] = NoBlock
        BY <3>1
      <3>2. CASE Parent[b] # NoBlock
        <4> DEFINE p == Parent[b]  g == f[p]
        <4>1. p \in Block /\ p \in g /\ g \subseteq Block /\ Closed(g)
          BY <2>1, <2>3, <2>4, <3>2
        <4>2. next(b) = {b} \cup g
          BY <3>2
        <4> HIDE DEF g, next
        <4> QED  BY <4>1, <4>2
      <3> QED
        BY <3>1, <3>2
    <2>6. f[b] \subseteq next(b)
      <3> HIDE DEF next
      <3> QED  BY <2>2, <2>5
    <2>7. b \in f[b]
      BY <2>3
    <2>8. Parent[b] # NoBlock => f[Parent[b]] \subseteq f[b]
      <3> SUFFICES ASSUME Parent[b] # NoBlock PROVE f[Parent[b]] \subseteq f[b]
        OBVIOUS
      <3>1. \A S \in Around(b) : S \in Around(Parent[b])
        OBVIOUS
      <3>2. Parent[b] \in Block
        BY <2>1
      <3> HIDE DEF Around
      <3> QED  BY <3>1, <3>2
    <2> HIDE DEF f
    <2> QED
      BY <2>6, <2>7, <2>8
  <1>2. f = [b \in Block |->
               {b} \cup IF Parent[b] = NoBlock THEN {} ELSE f[Parent[b]]]
    <2>1. f = [b \in Block |-> f[b]]
      OBVIOUS
    <2> HIDE DEF f
    <2> QED  BY <1>1, <2>1
  <1> HIDE DEF f
  <1> QED
    BY <1>2 DEF Ancestors

LEMMA AncestorsStep ==
    ASSUME NEW b \in Block
    PROVE  Ancestors[b] = {b} \cup IF Parent[b] = NoBlock THEN {}
                                   ELSE Ancestors[Parent[b]]
  <1> DEFINE A == Ancestors
             next(c) == {c} \cup IF Parent[c] = NoBlock THEN {} ELSE A[Parent[c]]
  <1>1. A = [c \in Block |-> next(c)]
    BY AncestorsEquation
  <1> HIDE DEF A
  <1> DEFINE n(c) == next(c)
  <1> HIDE DEF n
  <1>2. A = [c \in Block |-> n(c)]
    BY <1>1 DEF n
  <1>3. A[b] = n(b)
    BY <1>2
  <1> QED
    BY <1>3 DEF n, A

\* No block is higher than its descendants: a block of least height for which
\* this failed would have a parent for which it fails.
LEMMA AncestorsLower ==
    ASSUME NEW b \in Block, NEW a \in Ancestors[b]
    PROVE  a \in Block /\ Height[a] <= Height[b]
  <1> DEFINE Bad(c) == \E x \in Ancestors[c] : ~(x \in Block /\ Height[x] <= Height[c])
             T == {Height[c] : c \in {d \in Block : Bad(d)}}
  <1>1. SUFFICES ASSUME \E c \in Block : Bad(c) PROVE FALSE
    OBVIOUS
  <1>2. T \in SUBSET Nat /\ T # {}
    BY <1>1, ChainAssumption
  <1>3. PICK h \in T : \A y \in T : h <= y
    <2> HIDE DEF T
    <2> QED  BY <1>2, LeastNumber
  <1>4. PICK c \in Block : Bad(c) /\ Height[c] = h
    BY <1>3
  <1>5. PICK x \in Ancestors[c] : ~(x \in Block /\ Height[x] <= Height[c])
    BY <1>4
  <1>6. Height[c] \in Nat
    BY ChainAssumption
  <1>7. x # c
    BY <1>5, <1>6
  <1>8. Parent[c] # NoBlock /\ x \in Ancestors[Parent[c]]
    BY <1>7, AncestorsStep
  <1>9. /\ Parent[c] \in Block /\ Height[Parent[c]] \in Nat
        /\ Height[c] = Height[Parent[c]] + 1
    BY <1>8, ChainAssumption
  <1>10. Bad(Parent[c])
    <2> DEFINE p == Parent[c]
    <2>1. Height[p] <= Height[c] /\ Height[p] \in Nat
      BY <1>6, <1>9
    <2>2. x \in Block => Height[x] \in Nat
      BY ChainAssumption
    <2> HIDE DEF p
    <2>3. ~(x \in Block /\ Height[x] <= Height[p])
      BY <1>5, <1>6, <2>1, <2>2
    <2> QED
      BY <1>8, <2>3 DEF p
  <1>11. Height[Parent[c]] \in T
    <2> DEFINE p == Parent[c]
    <2>1. p \in Block /\ Bad(p)
      BY <1>9, <1>10
    <2> HIDE DEF p, Bad
    <2>2. Height[p] \in T
      BY <2>1
    <2> QED
      BY <2>2 DEF p
  <1> HIDE DEF T
  <1>12. h <= Height[Parent[c]]
    BY <1>3, <1>11
  <1> QED
    BY <1>4, <1>6, <1>9, <1>12

----------------------------------------------------------------------------
(* Consistent contents.                                                    *)

\* Every block above the genesis that c is the result of can be undone.
Undoable(c) ==
    c.hash # NoBlock =>
        \A b \in Ancestors[c.hash] : Height[b] > GenesisHeight => c.undo[b] # NoUndo

\* The contents a replay produces; pruning takes undo data away.
Consistent == {c \in Contents : Replayed(c) /\ (~Pruning => Undoable(c))}

----------------------------------------------------------------------------
(* Every write of Game leads from consistent contents to consistent ones.  *)

\* A chain as long as the genesis height has a block at that height: below a
\* lowest block without such an ancestor there would be a lower one.
LEMMA GenesisFound ==
    ASSUME NEW b \in Block, Height[b] >= GenesisHeight
    PROVE  /\ AncestorAt(b, GenesisHeight) \in Block
           /\ Height[AncestorAt(b, GenesisHeight)] = GenesisHeight
  <1> DEFINE Found(c) == \E a \in Ancestors[c] : Height[a] = GenesisHeight
             Lost == {c \in Block : Height[c] >= GenesisHeight /\ ~Found(c)}
             T    == {Height[c] : c \in Lost}
  <1>1. Lost = {}
    <2> SUFFICES ASSUME Lost # {} PROVE FALSE
      OBVIOUS
    <2>1. T \in SUBSET Nat /\ T # {}
      <3>1. Lost \subseteq Block
        OBVIOUS
      <3> HIDE DEF Lost
      <3> QED  BY <3>1, ChainAssumption
    <2>2. PICK h \in T : \A y \in T : h <= y
      <3> HIDE DEF T
      <3> QED  BY <2>1, LeastNumber
    <2>3. PICK c \in Lost : Height[c] = h
      BY <2>2
    <2>4. c \in Block /\ Height[c] \in Nat /\ Height[c] >= GenesisHeight /\ ~Found(c)
      BY <2>3, ChainAssumption
    <2>5. c \in Ancestors[c]
      BY <2>4, AncestorsStep
    <2>6. Height[c] > GenesisHeight
      BY <2>4, <2>5, GameAssumption
    <2> DEFINE p == Parent[c]
    <2>7. p \in Block /\ p # NoBlock
      BY <2>4, <2>6, GameAssumption, ChainAssumption
    <2>8. Height[c] = Height[p] + 1 /\ Height[p] \in Nat
      BY <2>4, <2>7, ChainAssumption
    <2>9. Ancestors[p] \subseteq Ancestors[c]
      BY <2>4, <2>7, AncestorsStep
    <2> HIDE DEF p
    <2>10. ~Found(p)
      BY <2>4, <2>9
    <2>11. Height[p] >= GenesisHeight
      BY <2>6, <2>8, GameAssumption
    <2>12. p \in Lost
      BY <2>7, <2>10, <2>11
    <2> HIDE DEF Lost
    <2>13. Height[p] \in T
      BY <2>12
    <2> HIDE DEF T
    <2>14. h <= Height[p]
      BY <2>2, <2>13
    <2> QED
      BY <2>3, <2>4, <2>8, <2>14
  <1>2. \E a \in Ancestors[b] : Height[a] = GenesisHeight
    BY <1>1
  <1>3. /\ AncestorAt(b, GenesisHeight) \in Ancestors[b]
        /\ Height[AncestorAt(b, GenesisHeight)] = GenesisHeight
    BY <1>2 DEF AncestorAt
  <1> QED
    BY <1>3, AncestorsLower

LEMMA EmptyConsistent == EmptyContents \in Consistent
  BY DEF Consistent, Contents, EmptyContents, Replayed, Undoable

LEMMA ReleaseReplayed ==
    ASSUME NEW c \in Contents, Replayed(c), NEW bs
    PROVE  ReleaseUndoData(c, bs) \in Contents /\ Replayed(ReleaseUndoData(c, bs))
  BY DEF Contents, Replayed, ReleaseUndoData

LEMMA ReleaseConsistent ==
    ASSUME NEW c \in Consistent, NEW bs, Pruning
    PROVE  ReleaseUndoData(c, bs) \in Consistent
  BY ReleaseReplayed DEF Consistent

LEMMA GenesisConsistent ==
    ASSUME NEW c \in Consistent, NEW b \in Block, Height[b] = GenesisHeight
    PROVE  WithState(c, b, InitialState) \in Consistent
  <1> DEFINE new == WithState(c, b, InitialState)
  <1>1. InitialState = StateAt[b] /\ StateAt[b] \in GameState
    BY GameAssumption
  <1>2. Height[b] >= GenesisHeight /\ b # NoBlock
    BY ChainAssumption
  <1>3. new \in Contents /\ Replayed(new) /\ new.hash = b
    BY <1>1, <1>2 DEF Consistent, Contents, Replayed, WithState
  <1>4. \A a \in Ancestors[b] : ~(Height[a] > GenesisHeight)
    BY AncestorsLower, ChainAssumption, GameAssumption
  <1> HIDE DEF new
  <1>5. Undoable(new)
    BY <1>3, <1>4 DEF Undoable
  <1>6. new \in Consistent
    BY <1>3, <1>5 DEF Consistent
  <1> QED
    BY <1>6 DEF new

LEMMA AttachConsistent ==
    ASSUME NEW c \in Consistent, NEW b \in Block,
           c.hash # NoBlock, c.hash = Parent[b]
    PROVE  WithState(WithUndo(c, b, UndoFor(c.state, b)), b,
                     ProcessForward(c.state, b)) \in Consistent
  <1>1. /\ Parent[b] \in Block
        /\ c.state = StateAt[Parent[b]]
        /\ Height[Parent[b]] >= GenesisHeight
    BY ChainAssumption DEF Consistent, Contents, Replayed
  <1>2. Height[b] > GenesisHeight
    BY <1>1, ChainAssumption, GameAssumption
  <1>3. /\ ProcessForward(c.state, b) = StateAt[b]
        /\ StateAt[b] \in GameState
        /\ UndoFor(c.state, b) = UndoFor(StateAt[Parent[b]], b)
        /\ UndoFor(c.state, b) \in UndoData
    BY <1>1, <1>2, GameAssumption
  <1>4. b # NoBlock /\ Height[b] >= GenesisHeight
    BY <1>2, ChainAssumption, GameAssumption
  <1> DEFINE new == WithState(WithUndo(c, b, UndoFor(c.state, b)), b,
                              ProcessForward(c.state, b))
  <1>5. new \in Contents /\ Replayed(new)
    BY <1>2, <1>3, <1>4 DEF Consistent, Contents, Replayed, WithState, WithUndo
  <1>6. /\ new.hash = b /\ new.undo[b] # NoUndo
        /\ \A a \in Block \ {b} : new.undo[a] = c.undo[a]
    BY <1>3, StorageAssumption DEF Consistent, Contents, WithState, WithUndo
  <1>7. Ancestors[b] = {b} \cup Ancestors[c.hash]
    BY AncestorsStep
  <1>8. Ancestors[b] \subseteq Block
    BY AncestorsLower
  <1> HIDE DEF new
  <1>9. ~Pruning => Undoable(new)
    BY <1>6, <1>7, <1>8 DEF Consistent, Undoable
  <1>10. new \in Consistent
    BY <1>5, <1>9 DEF Consistent
  <1> QED
    BY <1>10 DEF new

LEMMA DetachConsistent ==
    ASSUME NEW c \in Consistent, NEW b \in Block,
           c.hash = b, c.undo[b] # NoUndo
    PROVE  WithState(ReleaseUndoData(c, {b}), Parent[b],
                     ProcessBackwards(c.state, b, c.undo[b])) \in Consistent
  <1>1. /\ c.state = StateAt[b]
        /\ Height[b] > GenesisHeight
        /\ c.undo[b] = UndoFor(StateAt[Parent[b]], b)
    BY ChainAssumption DEF Consistent, Contents, Replayed
  <1>2. /\ Parent[b] \in Block /\ Parent[b] # NoBlock
        /\ StateAt[Parent[b]] \in GameState
        /\ ProcessBackwards(c.state, b, c.undo[b]) = StateAt[Parent[b]]
    BY <1>1, ChainAssumption, GameAssumption
  <1>3. Height[Parent[b]] >= GenesisHeight
    BY <1>1, <1>2, ChainAssumption, GameAssumption
  <1> DEFINE e == ReleaseUndoData(c, {b})
             p == Parent[b]
             s == StateAt[p]
             new == WithState(e, p, s)
  <1>4. e \in Contents /\ Replayed(e) /\ \A a \in Block \ {b} : e.undo[a] = c.undo[a]
    BY ReleaseReplayed DEF Consistent, Contents, ReleaseUndoData
  <1> HIDE DEF e
  <1>5. new \in Contents /\ Replayed(new) /\ new.hash = p /\ new.undo = e.undo
    BY <1>2, <1>3, <1>4 DEF Contents, Replayed, WithState
  <1>6. Ancestors[b] = {b} \cup Ancestors[p]
    BY <1>2, AncestorsStep
  <1>7. ASSUME NEW a \in Ancestors[p]
        PROVE  a \in Block \ {b}
    <2>1. a \in Block /\ Height[a] <= Height[p]
      BY <1>2, AncestorsLower
    <2>2. Height[b] = Height[p] + 1 /\ Height[p] \in Nat
      BY <1>2, ChainAssumption
    <2> HIDE DEF p
    <2>3. a # b
      BY <2>1, <2>2
    <2> QED
      BY <2>1, <2>3
  <1> HIDE DEF new, p
  <1>8. ~Pruning => Undoable(new)
    BY <1>4, <1>5, <1>6, <1>7, ChainAssumption DEF Consistent, Undoable
  <1>9. new \in Consistent
    BY <1>5, <1>8 DEF Consistent
  <1> QED
    BY <1>2, <1>9 DEF new, e, p

----------------------------------------------------------------------------
(* The node: its messages name blocks, and its tip always has a parent.    *)

NodeIn == {n \in Node : Parent[n.tip] # NoBlock}

LEMMA PublishIn ==
    ASSUME NEW n \in NodeIn, NEW msgs \in Seq(Message)
    PROVE  Publish(n, msgs) \in NodeIn
  <1>1. n.net \o msgs \in Seq(Message)
    BY ConcatProperties DEF NodeIn, Node
  <1> DEFINE q == n.net \o msgs
  <1> HIDE DEF q
  <1>2. Publish(n, msgs) = IF n.open THEN [n EXCEPT !.net = q] ELSE n
    BY DEF Publish, q
  <1> QED
    BY <1>1, <1>2 DEF NodeIn, Node, q

LEMMA NodeMovesIn ==
    ASSUME NEW n \in NodeIn, NEW n2 \in NodeMoves(n)
    PROVE  n2 \in NodeIn
  <1>1. CASE \E b \in Block : Parent[b] = n.tip /\ n2 = NodeAttach(n, b)
    <2>1. PICK b \in Block : Parent[b] = n.tip /\ n2 = NodeAttach(n, b)
      BY <1>1
    <2> DEFINE m == [n EXCEPT !.tip = b]
               s == <<[kind |-> "attach", block |-> b, token |-> "none"]>>
    <2>2. m \in NodeIn
      BY <2>1, ChainAssumption DEF NodeIn, Node
    <2>3. s \in Seq(Message)
      BY DEF Message, Kind
    <2> HIDE DEF m, s
    <2>4. Publish(m, s) \in NodeIn
      BY <2>2, <2>3, PublishIn
    <2> QED
      BY <2>1, <2>4 DEF NodeAttach, m, s
  <1>2. CASE Parent[Parent[n.tip]] # NoBlock /\ n2 = NodeDetach(n)
    <2> DEFINE m == [n EXCEPT !.tip = Parent[n.tip]]
               s == <<[kind |-> "detach", block |-> n.tip, token |-> "none"]>>
    <2>1. n.tip \in Block /\ Parent[n.tip] \in Block
      BY ChainAssumption DEF NodeIn, Node
    <2>2. m \in NodeIn
      BY <1>2, <2>1 DEF NodeIn, Node
    <2>3. s \in Seq(Message)
      BY <2>1 DEF Message, Kind
    <2> HIDE DEF m, s
    <2>4. Publish(m, s) \in NodeIn
      BY <2>2, <2>3, PublishIn
    <2> QED
      BY <1>2, <2>4 DEF NodeDetach, m, s
  <1> QED
    BY <1>1, <1>2 DEF NodeMoves

LEMMA SendUpdatesIn ==
    ASSUME NEW n \in NodeIn, NEW from \in Block, NEW token \in {"current", "old"}
    PROVE  /\ SendUpdates(n, from, token).node \in NodeIn
           /\ SendUpdates(n, from, token).toblock \in Block \cup {NoBlock}
  <1> DEFINE steps == Steps(from, n.tip)
             older == [i \in DOMAIN n.net |->
                         IF token = "current" /\ n.net[i].token = "current"
                         THEN [n.net[i] EXCEPT !.token = "old"] ELSE n.net[i]]
             msgs  == [i \in DOMAIN steps |->
                         [kind |-> steps[i].kind, block |-> steps[i].block,
                          token |-> token]]
             m     == [n EXCEPT !.net = older]
  <1>1. n.tip \in Block /\ n.net \in Seq(Message)
    BY DEF NodeIn, Node
  <1>2. steps \in Seq([kind : Kind, block : Block])
    BY <1>1, StepsAssumption
  <1>3. older \in Seq(Message)
    <2> DEFINE net == n.net
    <2>1. net \in Seq(Message) /\ DOMAIN net = 1 .. Len(net) /\ Len(net) \in Nat
      BY <1>1
    <2>2. ASSUME NEW i \in 1 .. Len(net)
          PROVE  older[i] \in Message
      <3> DEFINE x == net[i]
      <3>1. x \in Message
        BY <2>1
      <3>2. older[i] = IF token = "current" /\ x.token = "current"
                       THEN [x EXCEPT !.token = "old"] ELSE x
        BY <2>1
      <3> HIDE DEF x, older
      <3> QED
        BY <3>1, <3>2 DEF Message
    <2> HIDE DEF net
    <2>3. older = [i \in 1 .. Len(net) |-> older[i]]
      BY <2>1 DEF net
    <2> HIDE DEF older
    <2> QED
      BY <2>1, <2>2, <2>3
  <1>4. msgs \in Seq(Message)
    <2> HIDE DEF steps
    <2>1. DOMAIN steps = 1 .. Len(steps) /\ Len(steps) \in Nat
      BY <1>2
    <2>2. ASSUME NEW i \in 1 .. Len(steps)
          PROVE  msgs[i] \in Message
      <3> DEFINE x == steps[i]
      <3>1. x \in [kind : Kind, block : Block]
        BY <1>2, ElementOfSeq
      <3>2. msgs[i] = [kind |-> x.kind, block |-> x.block, token |-> token]
        BY <2>1
      <3> HIDE DEF x, msgs
      <3> QED
        BY <3>1, <3>2 DEF Message
    <2>3. msgs = [i \in 1 .. Len(steps) |-> msgs[i]]
      BY <2>1
    <2> HIDE DEF msgs
    <2> QED
      BY <2>1, <2>2, <2>3
  <1>5. m \in NodeIn
    <2> HIDE DEF older
    <2> QED  BY <1>3 DEF NodeIn, Node
  <1>6. SendUpdates(n, from, token).node = Publish(m, msgs)
    BY DEF SendUpdates
  <1>7. SendUpdates(n, from, token).toblock
          = IF steps = <<>> THEN from ELSE StepTo(steps[Len(steps)])
    BY DEF SendUpdates
  <1>8. steps # <<>> => StepTo(steps[Len(steps)]) \in Block \cup {NoBlock}
    <2> HIDE DEF steps
    <2>1. ASSUME steps # <<>>
          PROVE  steps[Len(steps)] \in [kind : Kind, block : Block]
      <3>1. Len(steps) \in 1 .. Len(steps)
        BY <1>2, <2>1, EmptySeq, LenProperties
      <3> QED
        BY <1>2, <3>1, ElementOfSeq
    <2> QED
      BY <2>1, ChainAssumption DEF StepTo
  <1> HIDE DEF steps, msgs, m
  <1>9. Publish(m, msgs) \in NodeIn
    BY <1>4, <1>5, PublishIn
  <1> QED
    BY <1>6, <1>7, <1>8, <1>9

----------------------------------------------------------------------------
(* Databases between two handlers, as far as the process has not aborted.  *)

IdleIn == {d \in DbIn(Consistent) : d.ok => ~d.inTxn}

LEMMA ConsistentContents == Consistent \in SUBSET Contents
  BY DEF Consistent

LEMMA OpenIdle ==
    ASSUME NEW c \in Consistent
    PROVE  OpenDb(c) \in IdleIn /\ OpenDb(c).ok
  BY ConsistentContents, OpenDbIn DEF IdleIn

LEMMA CheckedIdle ==
    ASSUME NEW d \in IdleIn, NEW cond \in BOOLEAN
    PROVE  Checked(d, cond, d) \in IdleIn
  BY DEF IdleIn, Checked, DbIn, Db

LEMMA ActiveIdle ==
    ASSUME NEW d \in IdleIn, NEW c \in Consistent,
           NEW h \in Nat \cup {NoHeight}, NEW fault
    PROVE  ActiveTransaction(d, c, h, fault).db \in IdleIn
  BY ConsistentContents, ActiveTransactionIn DEF IdleIn

LEMMA SetBatchIdle ==
    ASSUME NEW d \in IdleIn, NEW n \in Nat \ {0}, NEW full \in BOOLEAN
    PROVE  SetBatchSize(d, n, full) \in IdleIn
  BY ConsistentContents, SetBatchSizeIn DEF IdleIn

LEMMA ClearIdle ==
    ASSUME NEW d \in IdleIn, NEW full \in BOOLEAN
    PROVE  StorageClear(TryAbortTransaction(d), full) \in IdleIn
  <1> DEFINE e == TryAbortTransaction(d)
  <1>1. e \in DbIn(Consistent) /\ (e.ok => ~e.inTxn)
    BY ConsistentContents, TryAbortTransactionIn DEF IdleIn
  <1> HIDE DEF e
  <1>2. StorageClear(e, full) \in DbIn(Consistent)
    BY <1>1, ConsistentContents, EmptyConsistent, StorageClearIn
  <1>3. StorageClear(e, full).ok => ~StorageClear(e, full).inTxn
    BY <1>1 DEF StorageClear, Checked, DbIn, Db
  <1> QED
    BY <1>2, <1>3 DEF IdleIn, e

----------------------------------------------------------------------------
(* The pruning queue.                                                      *)

LEMMA PruneIfTooLongIn ==
    ASSUME NEW d \in IdleIn, NEW q \in Queue, NEW fault, Pruning
    PROVE  /\ PruneIfTooLong(d, q, fault).db \in IdleIn
           /\ PruneIfTooLong(d, q, fault).queue \in Queue
  <1> DEFINE n   == Len(q.hashes) - NBlocks
             out == {q.hashes[i] : i \in 1..n}
             c   == ReleaseUndoData(d.work, out)
             t   == ActiveTransaction(d, c, d.height, fault)
             s   == SubSeq(q.hashes, n + 1, Len(q.hashes))
  <1>1. q.hashes \in Seq(Block) /\ Len(q.hashes) \in Nat /\ n \in Int
    BY NBlocksAssumption DEF Queue
  <1>2. c \in Consistent
    BY ReleaseConsistent DEF IdleIn, DbIn
  <1>3. t.db \in IdleIn
    <2>1. d.height \in Nat \cup {NoHeight}
      BY DEF IdleIn, DbIn, Db
    <2> HIDE DEF c
    <2> QED  BY <1>2, <2>1, ActiveIdle
  <1>4. n > 0 => s \in Seq(Block)
    <2> SUFFICES ASSUME n > 0 PROVE s \in Seq(Block)
      OBVIOUS
    <2>1. n + 1 \in Int /\ Len(q.hashes) \in Int
      BY <1>1
    <2>2. \A i \in n + 1 .. Len(q.hashes) : q.hashes[i] \in Block
      <3> DEFINE k == n
      <3>1. \A i \in k + 1 .. Len(q.hashes) : i \in 1 .. Len(q.hashes)
        <4>1. k \in Int /\ k > 0
          BY <1>1
        <4> HIDE DEF k
        <4> QED  BY <1>1, <4>1
      <3> QED
        BY <1>1, <3>1, ElementOfSeq
    <2> DEFINE hi == Len(q.hashes)
               lo == n + 1
    <2> HIDE DEF hi, lo
    <2>3. SubSeq(q.hashes, lo, hi) \in Seq(Block)
      BY <2>1, <2>2, SubSeqProperties DEF hi, lo
    <2> QED
      BY <2>3 DEF hi, lo
  <1>5. n > 0 => [q EXCEPT !.hashes = s] \in Queue
    <2> HIDE DEF s
    <2> QED  BY <1>4 DEF Queue
  <1>6. PruneIfTooLong(d, q, fault) =
          IF n <= 0 THEN [db |-> d, queue |-> q, res |-> "ok"]
          ELSE [db    |-> t.db,
                queue |-> IF fault = "write" THEN q ELSE [q EXCEPT !.hashes = s],
                res   |-> t.res]
    BY DEF PruneIfTooLong
  <1> HIDE DEF n, t, s
  <1> QED
    BY <1>1, <1>3, <1>5, <1>6

LEMMA QueueAttachBlockIn ==
    ASSUME NEW d \in IdleIn, NEW q \in Queue, NEW b \in Block, NEW fault, Pruning
    PROVE  /\ QueueAttachBlock(d, q, b, fault).db \in IdleIn
           /\ QueueAttachBlock(d, q, b, fault).queue \in Queue
  <1> DEFINE pushed == [q EXCEPT !.hashes = Append(@, b)]
             front  == Height[b] + 1 - Len(pushed.hashes)
             filled == ~q.initialPruningDone /\ Len(pushed.hashes) >= NBlocks
             t      == ActiveTransaction(d, PruneUndoData(d.work, front - 1),
                                         d.height, fault[1])
             kept   == Checked(d, filled => front >= 0, d)
             first  == IF filled /\ front > 0 THEN t
                       ELSE [db |-> kept, res |-> "ok"]
             q2     == [pushed EXCEPT !.initialPruningDone = @ \/ filled]
  <1>1. pushed \in Queue
    <2> DEFINE s == Append(q.hashes, b)
    <2>1. s \in Seq(Block)
      BY AppendProperties DEF Queue
    <2> HIDE DEF s
    <2>2. [q EXCEPT !.hashes = s] \in Queue
      BY <2>1 DEF Queue
    <2> QED
      BY <2>2 DEF s
  <1>2. q2 \in Queue
    <2> DEFINE done == pushed.initialPruningDone \/ filled
    <2>1. done \in BOOLEAN
      OBVIOUS
    <2> HIDE DEF done, pushed
    <2>2. [pushed EXCEPT !.initialPruningDone = done] \in Queue
      BY <1>1, <2>1 DEF Queue
    <2> QED
      BY <2>2 DEF done
  <1>3. t.db \in IdleIn
    <2> DEFINE c == PruneUndoData(d.work, front - 1)
    <2>1. c \in Consistent
      <3> DEFINE bs == {x \in Block : Height[x] <= front - 1}
      <3> HIDE DEF bs
      <3>1. ReleaseUndoData(d.work, bs) \in Consistent
        BY ReleaseConsistent DEF IdleIn, DbIn
      <3> QED
        BY <3>1 DEF PruneUndoData, bs
    <2>2. d.height \in Nat \cup {NoHeight}
      BY DEF IdleIn, DbIn, Db
    <2> HIDE DEF c
    <2>3. ActiveTransaction(d, c, d.height, fault[1]).db \in IdleIn
      BY <2>1, <2>2, ActiveIdle
    <2> QED
      BY <2>3 DEF c
  <1>4. kept \in IdleIn
    <2> DEFINE cond == filled => front >= 0
    <2>1. cond \in BOOLEAN
      OBVIOUS
    <2> HIDE DEF cond
    <2>2. Checked(d, cond, d) \in IdleIn
      BY <2>1, CheckedIdle
    <2> QED
      BY <2>2 DEF cond
  <1>5. first.db \in IdleIn
    <2> HIDE DEF t, kept, filled, front
    <2> QED  BY <1>3, <1>4
  <1>6. QueueAttachBlock(d, q, b, fault) =
          IF first.res # "ok"
          THEN [db |-> first.db, queue |-> pushed, res |-> first.res]
          ELSE PruneIfTooLong(first.db, q2, fault[2])
    BY DEF QueueAttachBlock
  <1> HIDE DEF first, pushed, q2
  <1>7. /\ PruneIfTooLong(first.db, q2, fault[2]).db \in IdleIn
        /\ PruneIfTooLong(first.db, q2, fault[2]).queue \in Queue
    BY <1>2, <1>5, PruneIfTooLongIn
  <1> QED
    BY <1>1, <1>5, <1>6, <1>7

LEMMA QueueDetachBlockIn ==
    ASSUME NEW q \in Queue
    PROVE  QueueDetachBlock(q) \in Queue
  <1> SUFFICES ASSUME q.hashes # <<>>
               PROVE  [q EXCEPT !.hashes = SubSeq(@, 1, Len(@) - 1)] \in Queue
    BY DEF QueueDetachBlock
  <1> DEFINE s == SubSeq(q.hashes, 1, Len(q.hashes) - 1)
  <1>1. q.hashes \in Seq(Block) /\ Len(q.hashes) \in Nat
    BY DEF Queue
  <1>2. \A i \in 1 .. Len(q.hashes) - 1 : q.hashes[i] \in Block
    <2>1. \A i \in 1 .. Len(q.hashes) - 1 : i \in 1 .. Len(q.hashes)
      BY <1>1
    <2> QED
      BY <1>1, <2>1, ElementOfSeq
  <1>3. s \in Seq(Block)
    <2> DEFINE hi == Len(q.hashes) - 1
    <2>1. 1 \in Int /\ hi \in Int
      BY <1>1
    <2> HIDE DEF hi
    <2>2. SubSeq(q.hashes, 1, hi) \in Seq(Block)
      BY <1>2, <2>1, SubSeqProperties DEF hi
    <2> QED
      BY <2>2 DEF hi
  <1> HIDE DEF s
  <1>4. [q EXCEPT !.hashes = s] \in Queue
    BY <1>3 DEF Queue
  <1> QED
    BY <1>4 DEF s

----------------------------------------------------------------------------
(* The handlers.                                                           *)

GameIn == {g \in Game : g.db \in IdleIn}

OutcomeIn(o) == o.game \in GameIn /\ o.node \in NodeIn

LEMMA FreshGameIn ==
    ASSUME NEW c \in Consistent
    PROVE  FreshGame(c) \in GameIn /\ FreshGame(c).db.ok
  <1>1. OpenDb(c) \in IdleIn /\ OpenDb(c).ok
    BY OpenIdle
  <1>2. OpenDb(c) \in Db
    BY <1>1 DEF IdleIn, DbIn
  <1>3. EmptyQueue \in Queue
    BY EmptySeq DEF EmptyQueue, Queue
  <1> QED
    BY <1>1, <1>2, <1>3 DEF FreshGame, GameIn, Game, SyncState

LEMMA SetGameIn ==
    ASSUME NEW g \in GameIn, NEW s \in SyncState, NEW d \in IdleIn
    PROVE  /\ [g EXCEPT !.db = d] \in GameIn
           /\ [g EXCEPT !.state = s] \in GameIn
           /\ [g EXCEPT !.state = s, !.db = d] \in GameIn
  BY DEF GameIn, Game, IdleIn, DbIn

LEMMA OutcomeInIntro ==
    ASSUME NEW g \in GameIn, NEW n \in NodeIn, NEW res
    PROVE  OutcomeIn(Outcome(g, n, res))
  BY DEF OutcomeIn, Outcome

LEMMA SyncFromCurrentStateIn ==
    ASSUME NEW g \in GameIn, NEW n2 \in NodeIn, NEW best, NEW f,
           g.db.work.hash # NoBlock
    PROVE  OutcomeIn(SyncFromCurrentState(g, best, n2, f))
  <1> DEFINE cur     == g.db.work.hash
             full    == At(f, "flush") # "none"
             flushed == SetBatchSize(g.db, 1, full)
             upd     == SendUpdates(n2, cur, "current")
             batch   == SetBatchSize(g.db, BatchSize, FALSE)
             g1      == [g EXCEPT !.state = "AT_TARGET"]
             g2      == [g EXCEPT !.state = "UP_TO_DATE", !.db = flushed]
             g3      == [g EXCEPT !.state = "CATCHING_UP", !.goal = upd.toblock,
                                  !.db = batch]
  <1>1. cur \in Block /\ g.db \in IdleIn
    BY DEF GameIn, IdleIn, DbIn, Consistent, Contents
  <1>2. flushed \in IdleIn
    <2>1. 1 \in Nat \ {0} /\ full \in BOOLEAN
      OBVIOUS
    <2> HIDE DEF full
    <2> QED  BY <1>1, <2>1, SetBatchIdle
  <1>3. batch \in IdleIn
    BY <1>1, GameAssumption, SetBatchIdle
  <1>4. upd.node \in NodeIn /\ upd.toblock \in Block \cup {NoBlock}
    BY <1>1, SendUpdatesIn
  <1>5. g1 \in GameIn
    BY <1>1, SetGameIn DEF SyncState
  <1>6. g2 \in GameIn
    <2> HIDE DEF flushed
    <2> QED  BY <1>2, SetGameIn DEF SyncState
  <1>7. g3 \in GameIn
    <2> HIDE DEF batch, upd
    <2> QED  BY <1>3, <1>4 DEF GameIn, Game, IdleIn, DbIn, SyncState
  <1>8. SyncFromCurrentState(g, best, n2, f) \in
          {Outcome(g1, n2, "ok"),
           Outcome(g2, n2, IF flushed.commitFailed THEN "throw" ELSE "ok"),
           Outcome(g, n2, "throw"),
           Outcome(g3, upd.node, "ok")}
    BY DEF SyncFromCurrentState
  <1> HIDE DEF g1, g2, g3, upd, flushed
  <1> QED
    BY <1>4, <1>5, <1>6, <1>7, <1>8, OutcomeInIntro

LEMMA StoreGenesisIn ==
    ASSUME NEW g \in GameIn, NEW n2 \in NodeIn, NEW f
    PROVE  /\ OutcomeIn(StoreGenesis(g, n2, f))
           /\ LET o == StoreGenesis(g, n2, f)
              IN  o.res = "ok" /\ o.game.db.ok => o.game.db.work.hash # NoBlock
  <1> DEFINE full    == At(f, "clear") # "none"
             cleared == StorageClear(TryAbortTransaction(g.db), full)
             genesis == AncestorAt(n2.tip, GenesisHeight)
             c       == WithState(cleared.work, genesis, InitialState)
             stored  == ActiveTransaction(cleared, c, GenesisHeight, "none").db
             known   == GenesisHash \in {NoBlock, genesis}
             final   == Checked(stored, known, stored)
             o1      == Outcome([g EXCEPT !.db = cleared], n2, "throw")
             o2      == Outcome([g EXCEPT !.state = "OUT_OF_SYNC", !.db = final],
                                n2, "ok")
  <1>1. cleared \in IdleIn /\ cleared.work \in Consistent
    <2>1. full \in BOOLEAN /\ g.db \in IdleIn
      BY DEF GameIn
    <2> HIDE DEF full
    <2>2. cleared \in IdleIn
      BY <2>1, ClearIdle
    <2> HIDE DEF cleared
    <2> QED  BY <2>2 DEF IdleIn, DbIn
  <1>2. OutcomeIn(o1)
    <2> HIDE DEF cleared
    <2> DEFINE g1 == [g EXCEPT !.db = cleared]
    <2>1. g1 \in GameIn
      BY <1>1, SetGameIn DEF SyncState
    <2> HIDE DEF g1
    <2>2. OutcomeIn(Outcome(g1, n2, "throw"))
      BY <2>1, OutcomeInIntro
    <2> QED  BY <2>2 DEF g1
  <1>3. ASSUME ~(Height[n2.tip] < GenesisHeight)
        PROVE  /\ OutcomeIn(o2)
               /\ o2.game.db.ok => o2.game.db.work.hash # NoBlock
    <2>1. genesis \in Block /\ Height[genesis] = GenesisHeight
      <3>1. n2.tip \in Block /\ Height[n2.tip] >= GenesisHeight
        BY <1>3, ChainAssumption, GameAssumption DEF NodeIn, Node
      <3> QED  BY <3>1, GenesisFound
    <2> HIDE DEF genesis, cleared
    <2>2. c \in Consistent /\ c.hash = genesis
      BY <1>1, <2>1, GenesisConsistent DEF WithState, Consistent, Contents
    <2> HIDE DEF c
    <2>3. stored \in IdleIn /\ (stored.ok => stored.work = c)
      BY <1>1, <2>2, GameAssumption, ConsistentContents, ActiveIdle,
         ActiveTransactionWrites DEF IdleIn
    <2> HIDE DEF stored
    <2>4. final \in IdleIn
      <3>1. known \in BOOLEAN
        OBVIOUS
      <3> HIDE DEF known
      <3> QED  BY <2>3, <3>1, CheckedIdle
    <2>5. final.ok => stored.ok /\ final = stored
      BY <2>3 DEF Checked, IdleIn, DbIn, Db
    <2> HIDE DEF final
    <2> DEFINE g2 == [g EXCEPT !.state = "OUT_OF_SYNC", !.db = final]
    <2>6. g2 \in GameIn /\ g2.db = final
      BY <2>4 DEF SyncState, GameIn, Game, IdleIn, DbIn
    <2> HIDE DEF g2
    <2>7. /\ OutcomeIn(Outcome(g2, n2, "ok"))
          /\ Outcome(g2, n2, "ok").game = g2
      BY <2>6, OutcomeInIntro DEF Outcome
    <2>8. final.ok => final.work.hash # NoBlock
      BY <2>1, <2>2, <2>3, <2>5, ChainAssumption
    <2> QED
      BY <2>6, <2>7, <2>8 DEF g2
  <1>4. StoreGenesis(g, n2, f) =
          IF full \/ At(f, "hash") # "none" \/ Height[n2.tip] < GenesisHeight
          THEN o1 ELSE o2
    BY DEF StoreGenesis
  <1>5. o1.res # "ok"
    BY DEF Outcome
  <1> HIDE DEF o1, o2, full
  <1> QED
    BY <1>2, <1>3, <1>4, <1>5

LEMMA ReinitialiseStateIn ==
    ASSUME NEW g0 \in GameIn, NEW n, NEW n2 \in NodeIn, NEW f
    PROVE  OutcomeIn(ReinitialiseState(g0, n, n2, f))
  <1> DEFINE g       == [g0 EXCEPT !.state = "UNKNOWN"]
             g1      == [g EXCEPT !.state = "OUT_OF_SYNC"]
             g2      == [g EXCEPT !.state = "PREGENESIS"]
             genesis == StoreGenesis(g, n2, f)
  <1>1. g \in GameIn
    BY SetGameIn DEF SyncState, GameIn
  <1> HIDE DEF g
  <1>2. g1 \in GameIn /\ g2 \in GameIn /\ g1.db = g.db
    BY <1>1 DEF SyncState, GameIn, Game
  <1>3. OutcomeIn(Outcome(g, n2, "throw")) /\ OutcomeIn(Outcome(g2, n2, "ok"))
    BY <1>1, <1>2, OutcomeInIntro
  <1>4. /\ OutcomeIn(genesis)
        /\ genesis.res = "ok" /\ genesis.game.db.ok
             => genesis.game.db.work.hash # NoBlock
    BY <1>1, StoreGenesisIn
  <1>5. ReinitialiseState(g0, n, n2, f) =
          IF ~g.db.ok \/ At(f, "info") # "none" THEN Outcome(g, n2, "throw")
          ELSE IF g.db.work.hash # NoBlock
          THEN SyncFromCurrentState(g1, n.tip, n2, f)
          ELSE IF Height[n.tip] < GenesisHeight THEN Outcome(g2, n2, "ok")
          ELSE SyncFromGenesis(genesis, n.tip, n2, f)
    BY DEF ReinitialiseState, g
  <1> HIDE DEF g1, g2, genesis
  <1>6. g.db.work.hash # NoBlock => OutcomeIn(SyncFromCurrentState(g1, n.tip, n2, f))
    BY <1>2, SyncFromCurrentStateIn
  <1>7. OutcomeIn(SyncFromGenesis(genesis, n.tip, n2, f))
    BY <1>4, SyncFromCurrentStateIn DEF SyncFromGenesis, OutcomeIn
  <1> QED
    BY <1>3, <1>5, <1>6, <1>7

LEMMA UpdateStateForAttachIn ==
    ASSUME NEW d \in IdleIn, NEW b \in Block, NEW f
    PROVE  UpdateStateForAttach(d, b, f).db \in IdleIn
  <1> DEFINE c     == d.work
             new   == WithState(WithUndo(c, b, UndoFor(c.state, b)), b,
                                ProcessForward(c.state, b))
             stale == c.hash = NoBlock \/ c.hash # Parent[b]
             t     == ActiveTransaction(d, new, Height[b], At(f, "update"))
             keep  == Checked(d, c.hash # NoBlock, d)
  <1>1. keep \in IdleIn
    <2> DEFINE cond == c.hash # NoBlock
    <2>1. cond \in BOOLEAN
      OBVIOUS
    <2> HIDE DEF cond
    <2>2. Checked(d, cond, d) \in IdleIn
      BY <2>1, CheckedIdle
    <2> QED  BY <2>2 DEF cond
  <1>2. ASSUME ~stale PROVE t.db \in IdleIn
    <2>1. c \in Consistent
      BY DEF IdleIn, DbIn
    <2> HIDE DEF c
    <2>2. new \in Consistent
      BY <1>2, <2>1, AttachConsistent
    <2>3. Height[b] \in Nat \cup {NoHeight}
      BY ChainAssumption
    <2> HIDE DEF new
    <2> QED  BY <2>2, <2>3, ActiveIdle
  <1>3. UpdateStateForAttach(d, b, f)
          = IF stale THEN [db |-> keep, res |-> "stale"] ELSE t
    BY DEF UpdateStateForAttach
  <1> HIDE DEF t, keep, stale
  <1> QED
    BY <1>1, <1>2, <1>3

LEMMA UpdateStateForDetachIn ==
    ASSUME NEW d \in IdleIn, NEW b \in Block, NEW f
    PROVE  UpdateStateForDetach(d, b, f).db \in IdleIn
  <1> DEFINE c       == d.work
             full    == At(f, "detachclear") # "none"
             cleared == StorageClear(TryAbortTransaction(d), full)
             old     == WithState(ReleaseUndoData(c, {b}), Parent[b],
                                  ProcessBackwards(c.state, b, c.undo[b]))
             t       == ActiveTransaction(d, old, Height[b] - 1, At(f, "update"))
             keep    == Checked(d, c.hash # NoBlock, d)
             resync  == IF full THEN "retry" ELSE "stale"
  <1>1. keep \in IdleIn
    <2> DEFINE cond == c.hash # NoBlock
    <2>1. cond \in BOOLEAN
      OBVIOUS
    <2> HIDE DEF cond
    <2>2. Checked(d, cond, d) \in IdleIn
      BY <2>1, CheckedIdle
    <2> QED  BY <2>2 DEF cond
  <1>2. cleared \in IdleIn
    <2>1. full \in BOOLEAN
      OBVIOUS
    <2> HIDE DEF full
    <2> QED  BY <2>1, ClearIdle
  <1>3. ASSUME c.hash = b, c.undo[b] # NoUndo PROVE t.db \in IdleIn
    <2>1. c \in Consistent
      BY DEF IdleIn, DbIn
    <2> HIDE DEF c
    <2>2. old \in Consistent
      BY <1>3, <2>1, DetachConsistent
    <2> DEFINE h == Height[b] - 1
    <2>3. h \in Nat \cup {NoHeight}
      BY ChainAssumption DEF NoHeight
    <2> HIDE DEF old, h
    <2>4. ActiveTransaction(d, old, h, At(f, "update")).db \in IdleIn
      BY <2>2, <2>3, ActiveIdle
    <2> QED  BY <2>4 DEF h
  <1>4. UpdateStateForDetach(d, b, f) =
          IF c.hash # b THEN [db |-> keep, res |-> "stale"]
          ELSE IF c.undo[b] = NoUndo THEN [db |-> cleared, res |-> resync]
          ELSE t
    BY DEF UpdateStateForDetach
  <1> HIDE DEF t, keep, cleared, resync
  <1> QED
    BY <1>1, <1>2, <1>3, <1>4

LEMMA HandleByStateIn ==
    ASSUME NEW g \in GameIn, NEW m \in Message, NEW f
    PROVE  HandleByState(g, m, f).db \in IdleIn
  <1>1. g.db \in IdleIn /\ m.block \in Block
    BY DEF GameIn, Message
  <1> DEFINE abort == Checked(g.db, FALSE, g.db)
  <1>2. abort \in IdleIn
    BY <1>1, CheckedIdle
  <1>3. /\ UpdateStateForAttach(g.db, m.block, f).db \in IdleIn
        /\ UpdateStateForDetach(g.db, m.block, f).db \in IdleIn
    BY <1>1, UpdateStateForAttachIn, UpdateStateForDetachIn
  <1>4. HandleByState(g, m, f).db \in
          {g.db, abort, UpdateStateForAttach(g.db, m.block, f).db,
           UpdateStateForDetach(g.db, m.block, f).db}
    BY DEF HandleByState
  <1> QED
    BY <1>1, <1>2, <1>3, <1>4

LEMMA UpdateQueueIn ==
    ASSUME NEW g \in GameIn, NEW upd, upd.db \in IdleIn, NEW m \in Message, NEW f
    PROVE  /\ UpdateQueue(g, upd, m, f).db \in IdleIn
           /\ UpdateQueue(g, upd, m, f).queue \in Queue
  <1>1. g.queue \in Queue /\ m.block \in Block
    BY DEF GameIn, Game, Message
  <1> DEFINE fault == <<At(f, "initial"), At(f, "prune")>>
             q     == QueueAttachBlock(upd.db, g.queue, m.block, fault)
             kept  == [db |-> upd.db, queue |-> g.queue, res |-> upd.res]
             popped == [db |-> upd.db, queue |-> QueueDetachBlock(g.queue),
                        res |-> upd.res]
             failed == [q EXCEPT !.res = upd.res]
  <1>2. \/ UpdateQueue(g, upd, m, f) \in {kept, popped}
        \/ Pruning /\ UpdateQueue(g, upd, m, f) \in {q, failed}
    BY DEF UpdateQueue
  <1> HIDE DEF fault
  <1>3. Pruning => q.db \in IdleIn /\ q.queue \in Queue
    BY <1>1, QueueAttachBlockIn
  <1>4. \E x, y, z : q = [db |-> x, queue |-> y, res |-> z]
    BY DEF QueueAttachBlock, PruneIfTooLong
  <1>5. QueueDetachBlock(g.queue) \in Queue
    BY <1>1, QueueDetachBlockIn
  <1> HIDE DEF q
  <1>6. Pruning => failed.db \in IdleIn /\ failed.queue \in Queue
    BY <1>3, <1>4
  <1>7. kept.db \in IdleIn /\ kept.queue \in Queue
    BY <1>1
  <1>8. popped.db \in IdleIn /\ popped.queue \in Queue
    BY <1>5
  <1> HIDE DEF failed, kept, popped
  <1> QED
    BY <1>2, <1>3, <1>6, <1>7, <1>8

LEMMA FinishBlockIn ==
    ASSUME NEW g \in GameIn, NEW m \in Message, NEW done,
           done.db \in IdleIn, done.queue \in Queue,
           NEW n, NEW n2 \in NodeIn, NEW f
    PROVE  OutcomeIn(FinishBlock(g, m, done, n, n2, f))
  <1> DEFINE s    == IF StepTo(m) = g.target THEN "AT_TARGET" ELSE g.state
             next == [g EXCEPT !.db = done.db, !.queue = done.queue, !.state = s]
  <1>1. FinishBlock(g, m, done, n, n2, f) \in
          {ReinitialiseState(next, n, n2, f), Outcome(next, n2, "ok")}
    BY DEF FinishBlock
  <1>2. s \in SyncState
    BY DEF GameIn, Game, SyncState
  <1> HIDE DEF s
  <1>3. next \in GameIn
    BY <1>2 DEF GameIn, Game, IdleIn, DbIn
  <1> HIDE DEF next
  <1> QED
    BY <1>1, <1>3, OutcomeInIntro, ReinitialiseStateIn

LEMMA HandleInSequenceIn ==
    ASSUME NEW g \in GameIn, NEW m \in Message, NEW n, NEW n2 \in NodeIn, NEW f
    PROVE  OutcomeIn(HandleInSequence(g, m, n, n2, f))
  <1> DEFINE upd    == HandleByState(g, m, f)
             done   == UpdateQueue(g, upd, m, f)
             failed == [g EXCEPT !.db = upd.db]
  <1>1. upd.db \in IdleIn
    BY HandleByStateIn
  <1>2. HandleInSequence(g, m, n, n2, f) \in
          {Outcome(failed, n2, "throw"), FinishBlock(g, m, done, n, n2, f)}
    BY DEF HandleInSequence
  <1> HIDE DEF upd
  <1>3. done.db \in IdleIn /\ done.queue \in Queue
    BY <1>1, UpdateQueueIn
  <1>4. failed \in GameIn
    BY <1>1 DEF GameIn, Game, IdleIn, DbIn
  <1> HIDE DEF done, failed
  <1>5. OutcomeIn(FinishBlock(g, m, done, n, n2, f))
    BY <1>3, FinishBlockIn
  <1> QED
    BY <1>2, <1>4, <1>5, OutcomeInIntro

\* Reinitialising always returns a record that Outcome made.
IsOutcome(o) == \E x, y, z : o = [game |-> x, node |-> y, res |-> z]

LEMMA ReinitialiseStateShape ==
    ASSUME NEW g0, NEW n, NEW n2, NEW f
    PROVE  IsOutcome(ReinitialiseState(g0, n, n2, f))
  <1>1. ASSUME NEW g, NEW best
        PROVE  IsOutcome(SyncFromCurrentState(g, best, n2, f))
    BY DEF IsOutcome, SyncFromCurrentState, Outcome
  <1>2. ASSUME NEW g
        PROVE  IsOutcome(StoreGenesis(g, n2, f))
    BY DEF IsOutcome, StoreGenesis, Outcome
  <1>3. ASSUME NEW g
        PROVE  IsOutcome(SyncFromGenesis(StoreGenesis(g, n2, f), n.tip, n2, f))
    BY <1>1, <1>2 DEF SyncFromGenesis
  <1>4. ASSUME NEW x, NEW y, NEW z PROVE IsOutcome(Outcome(x, y, z))
    BY DEF IsOutcome, Outcome
  <1> QED
    BY <1>1, <1>3, <1>4 DEF ReinitialiseState

LEMMA HandleBlockIn ==
    ASSUME NEW g \in GameIn, NEW m \in Message, NEW gap, NEW n,
           NEW n2 \in NodeIn, NEW f
    PROVE  OutcomeIn(HandleBlock(g, m, gap, n, n2, f))
  <1> DEFINE again == ReinitialiseState(g, n, n2, f)
  <1>1. OutcomeIn(again)
    BY ReinitialiseStateIn
  <1>2. OutcomeIn(ResetQueue(again))
    <2>1. EmptyQueue \in Queue
      BY EmptySeq DEF EmptyQueue, Queue
    <2>2. IsOutcome(again)
      BY ReinitialiseStateShape
    <2> HIDE DEF again
    <2> QED
      BY <1>1, <2>1, <2>2 DEF ResetQueue, OutcomeIn, GameIn, Game, IsOutcome
  <1>3. OutcomeIn(HandleInSequence(g, m, n, n2, f)) /\ OutcomeIn(Outcome(g, n2, "ok"))
    BY HandleInSequenceIn, OutcomeInIntro
  <1>4. HandleBlock(g, m, gap, n, n2, f) \in
          {Outcome(g, n2, "ok"), ResetQueue(again), HandleInSequence(g, m, n, n2, f)}
    BY DEF HandleBlock
  <1> HIDE DEF again
  <1> QED
    BY <1>2, <1>3, <1>4

----------------------------------------------------------------------------
(* The inductive invariant: the type invariant, consistent contents that   *)
(* can be undone, and a tip with a parent, which makes the node's detach   *)
(* and ping well-defined.                                                  *)

IInv ==
    /\ TypeOK
    /\ StateMatchesHash
    /\ ~Pruning => UndoAvailable
    /\ Parent[node.tip] # NoBlock

Used == [moves : Nat, faults : Nat, targets : Nat]

\* The invariant in the form in which the handlers keep it.
RestOK ==
    /\ worker \in {"down", "running", "stopping", "ending"}
    /\ seq \in [Kind -> {"first", "ok", "gap"}]
    /\ conn \in {"boot", "starting", "connecting", "idle"}
    /\ proc \in {"up", "exited", "aborted"}
    /\ used \in Used

Sound == game \in GameIn /\ game.db.ok /\ node \in NodeIn /\ RestOK

LEMMA IInvForm == IInv <=> Sound
  <1>1. ASSUME game \in Game
        PROVE  (/\ StateMatchesHash /\ (~Pruning => UndoAvailable)
                /\ ~game.db.inTxn /\ game.db.ok)
                 <=> (game.db \in IdleIn /\ game.db.ok)
    <2>1. UndoAvailable <=> Undoable(game.db.work) /\ Undoable(game.db.disk)
      BY DEF UndoAvailable, Undoable
    <2> QED
      BY <1>1, <2>1 DEF Game, Db, StateMatchesHash, IdleIn, DbIn, Consistent
  <1> QED
    BY <1>1 DEF IInv, TypeOK, Sound, RestOK, Used, GameIn, NodeIn

LEMMA IInvFormNext == IInv' <=> Sound'
  <1>1. ASSUME game' \in Game
        PROVE  (/\ StateMatchesHash' /\ (~Pruning => UndoAvailable')
                /\ ~game'.db.inTxn /\ game'.db.ok)
                 <=> (game'.db \in IdleIn /\ game'.db.ok)
    <2>1. UndoAvailable' <=> Undoable(game'.db.work) /\ Undoable(game'.db.disk)
      BY DEF UndoAvailable, Undoable
    <2> QED
      BY <1>1, <2>1 DEF Game, Db, StateMatchesHash, IdleIn, DbIn, Consistent
  <1> QED
    BY <1>1 DEF IInv, TypeOK, Sound, RestOK, Used, GameIn, NodeIn

LEMMA InitIInv == Init => IInv
  <1> SUFFICES ASSUME Init PROVE IInv
    OBVIOUS
  <1>1. game \in GameIn /\ game.db.ok
    BY EmptyConsistent, FreshGameIn DEF Init
  <1>2. node \in NodeIn
    BY EmptySeq DEF Init, NodeIn, Node
  <1>3. RestOK
    BY DEF Init, RestOK, Kind, Used
  <1> QED
    BY <1>1, <1>2, <1>3, IInvForm DEF Sound

LEMMA DeafIn ==
    ASSUME NEW n \in NodeIn
    PROVE  Deaf(n) \in NodeIn
  BY EmptySeq DEF Deaf, NodeIn, Node

\* A process that ends leaves consistent contents on disk.
LEMMA ProcessEndsIn ==
    ASSUME NEW how \in {"exited", "aborted"}, NEW c \in Consistent,
           NEW n \in NodeIn,
           ProcessEnds(how, c, n)
    PROVE  /\ game' \in GameIn /\ game'.db.ok /\ node' \in NodeIn
           /\ worker' \in {"down", "running", "stopping", "ending"}
           /\ seq' \in [Kind -> {"first", "ok", "gap"}]
           /\ conn' \in {"boot", "starting", "connecting", "idle"}
           /\ proc' \in {"up", "exited", "aborted"}
  <1>1. game' \in GameIn /\ game'.db.ok
    BY FreshGameIn DEF ProcessEnds
  <1>2. node' \in NodeIn
    BY DeafIn DEF ProcessEnds, Deaf
  <1> QED
    BY <1>1, <1>2 DEF ProcessEnds

LEMMA UsedIn ==
    ASSUME NEW u \in Used, NEW x \in Nat, NEW y \in Nat, NEW z \in Nat
    PROVE  /\ [u EXCEPT !.moves = x] \in Used
           /\ [u EXCEPT !.faults = x] \in Used
           /\ [u EXCEPT !.faults = x, !.moves = y] \in Used
           /\ [u EXCEPT !.targets = z, !.faults = x, !.moves = y] \in Used
  BY DEF Used

LEMMA SpendInNat ==
    ASSUME NEW f, NEW n, NEW n2, SpendIn(f, n, n2), used \in Used
    PROVE  used' \in Used
  <1> DEFINE x == used.faults + IF f = NoFault THEN 0 ELSE 1
             y == used.moves + IF n = n2 THEN 0 ELSE 1
  <1>1. x \in Nat /\ y \in Nat
    BY DEF Used
  <1> HIDE DEF x, y
  <1>2. used' = [used EXCEPT !.faults = x, !.moves = y]
    BY DEF SpendIn, x, y
  <1> QED
    BY <1>1, <1>2, UsedIn

LEMMA SpendNat ==
    ASSUME NEW what \in {"moves", "faults"}, Spend(what, 1), used \in Used
    PROVE  used' \in Used
  <1> DEFINE x == used[what] + 1
  <1>1. x \in Nat
    BY DEF Used
  <1> HIDE DEF x
  <1>2. used' = [used EXCEPT ![what] = x]
    BY DEF Spend, x
  <1> QED
    BY <1>1, <1>2 DEF Used

LEMMA MeanwhileIn ==
    ASSUME NEW n \in NodeIn, NEW n2 \in Meanwhile(n)
    PROVE  n2 \in NodeIn
  BY NodeMovesIn DEF Meanwhile

\* The disk of a handler's outcome, which is what survives an abort.
LEMMA OutcomeDisk ==
    ASSUME NEW o, OutcomeIn(o)
    PROVE  o.game.db.disk \in Consistent
  BY DEF OutcomeIn, GameIn, IdleIn, DbIn

LEMMA OutcomeIdle ==
    ASSUME NEW o, OutcomeIn(o)
    PROVE  o.game \in GameIn /\ o.node \in NodeIn
  BY DEF OutcomeIn

----------------------------------------------------------------------------
(* One lemma per action that runs a handler or ends the process.           *)

LEMMA DeliverSound == Sound /\ Deliver => Sound'
  <1> SUFFICES ASSUME Sound, Deliver PROVE Sound'
    OBVIOUS
  <1> DEFINE m == Head(node.net)
             n == [node EXCEPT !.net = Tail(@)]
  <1>0. PICK f \in Faults, n2 \in Meanwhile(n) :
          \E r \in {HandleBlock(game, m, seq[m.kind] # "ok", n, n2, f)} :
            /\ SpendIn(f, n, n2)
            /\ IF r.game.db.ok
               THEN LET last == r.res = "throw" \/ worker = "stopping"
                    IN  /\ game' = r.game
                        /\ node' = IF last THEN Deaf(r.node) ELSE r.node
                        /\ worker' = IF last THEN "ending" ELSE "running"
                        /\ seq' = [seq EXCEPT ![m.kind] = "ok"]
                        /\ UNCHANGED <<conn, proc>>
               ELSE ProcessEnds("aborted", r.game.db.disk, r.node)
    BY DEF Deliver
  <1>1. PICK r \in {HandleBlock(game, m, seq[m.kind] # "ok", n, n2, f)} :
          /\ SpendIn(f, n, n2)
          /\ IF r.game.db.ok
             THEN LET last == r.res = "throw" \/ worker = "stopping"
                  IN  /\ game' = r.game
                      /\ node' = IF last THEN Deaf(r.node) ELSE r.node
                      /\ worker' = IF last THEN "ending" ELSE "running"
                      /\ seq' = [seq EXCEPT ![m.kind] = "ok"]
                      /\ UNCHANGED <<conn, proc>>
             ELSE ProcessEnds("aborted", r.game.db.disk, r.node)
    BY <1>0
  <1> DEFINE last == r.res = "throw" \/ worker = "stopping"
  <1>2. m \in Message /\ n \in NodeIn
    <2> DEFINE t == Tail(node.net)
    <2>1. m \in Message /\ t \in Seq(Message)
      BY HeadTailProperties DEF Deliver, CanDeliver, Sound, NodeIn, Node
    <2> HIDE DEF t
    <2>2. [node EXCEPT !.net = t] \in NodeIn
      BY <2>1 DEF Sound, NodeIn, Node
    <2> QED
      BY <2>1, <2>2 DEF t
  <1> HIDE DEF m, n
  <1>3. OutcomeIn(r)
    <2> DEFINE gap == seq[m.kind] # "ok"
    <2> HIDE DEF gap
    <2>1. n2 \in NodeIn
      BY <1>0, <1>2, MeanwhileIn
    <2>2. OutcomeIn(HandleBlock(game, m, gap, n, n2, f))
      BY <1>2, <2>1, HandleBlockIn DEF Sound
    <2> QED
      BY <1>1, <2>2 DEF gap
  <1>4. used' \in Used
    BY <1>1, SpendInNat DEF Sound, RestOK
  <1>5. r.game \in GameIn /\ r.node \in NodeIn /\ r.game.db.disk \in Consistent
    BY <1>3, OutcomeIdle, OutcomeDisk
  <1>6. CASE r.game.db.ok
    <2>1. /\ game' = r.game
          /\ node' = IF last THEN Deaf(r.node) ELSE r.node
          /\ worker' = IF last THEN "ending" ELSE "running"
          /\ seq' = [seq EXCEPT ![m.kind] = "ok"]
          /\ UNCHANGED <<conn, proc>>
      BY <1>1, <1>6
    <2>2. node' \in NodeIn
      BY <1>5, <2>1, DeafIn
    <2>3. seq' \in [Kind -> {"first", "ok", "gap"}]
      BY <1>2, <2>1 DEF Sound, RestOK
    <2> QED
      BY <1>4, <1>5, <1>6, <2>1, <2>2, <2>3 DEF Sound, RestOK
  <1>7. CASE ~r.game.db.ok
    <2>1. ProcessEnds("aborted", r.game.db.disk, r.node)
      BY <1>1, <1>7
    <2> QED
      BY <1>4, <1>5, <2>1, ProcessEndsIn DEF Sound, RestOK
  <1> QED
    BY <1>6, <1>7

LEMMA ConnectReinitSound == Sound /\ ConnectReinit => Sound'
  <1> SUFFICES ASSUME Sound, ConnectReinit PROVE Sound'
    OBVIOUS
  <1>0. PICK f \in Faults, n2 \in Meanwhile(node) :
          \E r \in {ReinitialiseState(game, node, n2, f)} :
            /\ SpendIn(f, node, n2)
            /\ IF r.game.db.ok /\ (conn = "starting" => r.res = "ok")
               THEN /\ game' = r.game
                    /\ node' = r.node
                    /\ worker' = IF r.res = "ok" THEN worker ELSE RequestStop(worker)
                    /\ conn' = "idle"
                    /\ UNCHANGED <<seq, proc>>
               ELSE ProcessEnds("aborted", r.game.db.disk, r.node)
    BY DEF ConnectReinit
  <1>1. PICK r \in {ReinitialiseState(game, node, n2, f)} :
          /\ SpendIn(f, node, n2)
          /\ IF r.game.db.ok /\ (conn = "starting" => r.res = "ok")
             THEN /\ game' = r.game
                  /\ node' = r.node
                  /\ worker' = IF r.res = "ok" THEN worker ELSE RequestStop(worker)
                  /\ conn' = "idle"
                  /\ UNCHANGED <<seq, proc>>
             ELSE ProcessEnds("aborted", r.game.db.disk, r.node)
    BY <1>0
  <1> DEFINE goes == r.game.db.ok /\ (conn = "starting" => r.res = "ok")
  <1>2. OutcomeIn(r)
    BY <1>0, <1>1, MeanwhileIn, ReinitialiseStateIn DEF Sound
  <1>3. used' \in Used
    BY <1>1, SpendInNat DEF Sound, RestOK
  <1>4. r.game \in GameIn /\ r.node \in NodeIn /\ r.game.db.disk \in Consistent
    BY <1>2, OutcomeIdle, OutcomeDisk
  <1>5. CASE goes
    <2>1. /\ game' = r.game
          /\ node' = r.node
          /\ worker' = IF r.res = "ok" THEN worker ELSE RequestStop(worker)
          /\ conn' = "idle"
          /\ UNCHANGED <<seq, proc>>
      BY <1>1, <1>5
    <2> QED
      BY <1>3, <1>4, <1>5, <2>1 DEF Sound, RestOK, RequestStop
  <1>6. CASE ~goes
    <2>1. ProcessEnds("aborted", r.game.db.disk, r.node)
      BY <1>1, <1>6
    <2> QED
      BY <1>3, <1>4, <2>1, ProcessEndsIn DEF Sound, RestOK
  <1> QED
    BY <1>5, <1>6

LEMMA SetTargetBlockSound == Sound /\ SetTargetBlock => Sound'
  <1> SUFFICES ASSUME Sound, SetTargetBlock PROVE Sound'
    OBVIOUS
  <1>0. PICK b \in (Target \cup {NoBlock}) \ {game.target},
             f \in Faults, n2 \in Meanwhile(node) :
          \E r \in {LET g == [game EXCEPT !.target = b]
                    IN  IF game.state = "DISCONNECTED" THEN Outcome(g, n2, "ok")
                        ELSE ReinitialiseState(g, node, n2, f)} :
            /\ used' = [used EXCEPT !.targets = @ + 1,
                          !.faults = @ + IF f = NoFault THEN 0 ELSE 1,
                          !.moves  = @ + IF n2 = node THEN 0 ELSE 1]
            /\ IF r.game.db.ok
               THEN /\ game' = r.game
                    /\ node' = r.node
                    /\ UNCHANGED <<worker, seq, conn, proc>>
               ELSE ProcessEnds("aborted", r.game.db.disk, r.node)
    BY DEF SetTargetBlock
  <1>1. PICK r \in {LET g == [game EXCEPT !.target = b]
                    IN  IF game.state = "DISCONNECTED" THEN Outcome(g, n2, "ok")
                        ELSE ReinitialiseState(g, node, n2, f)} :
          /\ used' = [used EXCEPT !.targets = @ + 1,
                        !.faults = @ + IF f = NoFault THEN 0 ELSE 1,
                        !.moves  = @ + IF n2 = node THEN 0 ELSE 1]
          /\ IF r.game.db.ok
             THEN /\ game' = r.game
                  /\ node' = r.node
                  /\ UNCHANGED <<worker, seq, conn, proc>>
             ELSE ProcessEnds("aborted", r.game.db.disk, r.node)
    BY <1>0
  <1> DEFINE g == [game EXCEPT !.target = b]
             x == used.faults + IF f = NoFault THEN 0 ELSE 1
             y == used.moves + IF n2 = node THEN 0 ELSE 1
             z == used.targets + 1
  <1>2. n2 \in NodeIn
    BY <1>1, MeanwhileIn DEF Sound
  <1>3. g \in GameIn
    BY GameAssumption DEF Sound, GameIn, Game
  <1>4. OutcomeIn(r)
    <2>1. r \in {Outcome(g, n2, "ok"), ReinitialiseState(g, node, n2, f)}
      BY <1>1
    <2> HIDE DEF g
    <2> QED
      BY <1>2, <1>3, <2>1, OutcomeInIntro, ReinitialiseStateIn
  <1>5. used' \in Used
    <2>1. x \in Nat /\ y \in Nat /\ z \in Nat
      BY DEF Sound, RestOK, Used
    <2> HIDE DEF x, y, z
    <2>2. used' = [used EXCEPT !.targets = z, !.faults = x, !.moves = y]
      BY <1>1 DEF x, y, z
    <2> QED
      BY <2>1, <2>2, UsedIn DEF Sound, RestOK
  <1>6. IF r.game.db.ok
        THEN /\ game' = r.game
             /\ node' = r.node
             /\ UNCHANGED <<worker, seq, conn, proc>>
        ELSE ProcessEnds("aborted", r.game.db.disk, r.node)
    BY <1>1
  <1>7. r.game \in GameIn /\ r.node \in NodeIn /\ r.game.db.disk \in Consistent
    BY <1>4, OutcomeIdle, OutcomeDisk
  <1>8. CASE r.game.db.ok
    BY <1>5, <1>6, <1>7, <1>8 DEF Sound, RestOK
  <1>9. CASE ~r.game.db.ok
    <2>1. ProcessEnds("aborted", r.game.db.disk, r.node)
      BY <1>6, <1>9
    <2> QED
      BY <1>5, <1>7, <2>1, ProcessEndsIn DEF Sound, RestOK
  <1> QED
    BY <1>8, <1>9

LEMMA ShutdownSound == Sound /\ Shutdown => Sound'
  <1> SUFFICES ASSUME Sound, Shutdown PROVE Sound'
    OBVIOUS
  <1> DEFINE d == Flush(game.db, FALSE)
  <1>1. d.disk \in Consistent /\ game.db.disk \in Consistent
    BY ConsistentContents, FlushIn DEF Sound, GameIn, IdleIn, DbIn
  <1> HIDE DEF d
  <1>2. \/ ProcessEnds("exited", d.disk, node)
        \/ ProcessEnds("aborted", game.db.disk, node)
    BY DEF Shutdown, d
  <1>3. used' \in Used
    BY SpendNat DEF Shutdown, Sound, RestOK
  <1> QED
    BY <1>1, <1>2, <1>3, ProcessEndsIn DEF Sound, RestOK

LEMMA CrashSound == Sound /\ Crash => Sound'
  <1> SUFFICES ASSUME Sound, Crash PROVE Sound'
    OBVIOUS
  <1>1. game.db.disk \in Consistent /\ ProcessEnds("exited", game.db.disk, node)
    BY DEF Crash, Sound, GameIn, IdleIn, DbIn
  <1>2. used' \in Used
    BY SpendNat DEF Crash, Sound, RestOK
  <1> QED
    BY <1>1, <1>2, ProcessEndsIn DEF Sound, RestOK

\* The steps that touch neither the storage nor, except by receiving what was
\* sent, the node's chain.
LEMMA OtherStepsSound ==
    ASSUME Sound,
           \/ NodeMove \/ LoseMessage \/ WorkerStops \/ HasStopped
           \/ ConnectStart \/ Ping \/ ProbeFails \/ GetCustomStateData \/ Restart
    PROVE  Sound'
  <1>1. CASE NodeMove
    <2>1. node' \in NodeIn
      BY <1>1, NodeMovesIn DEF NodeMove, Sound
    <2>2. used' \in Used
      BY <1>1, SpendNat DEF NodeMove, Sound, RestOK
    <2> QED
      BY <1>1, <2>1, <2>2 DEF NodeMove, Sound, RestOK
  <1>2. CASE LoseMessage
    <2> DEFINE t == Tail(node.net)
    <2>1. Head(node.net) \in Message /\ t \in Seq(Message)
      BY <1>2, HeadTailProperties DEF LoseMessage, Sound, NodeIn, Node
    <2> HIDE DEF t
    <2>2. node' = [node EXCEPT !.net = t]
      BY <1>2 DEF LoseMessage, t
    <2>3. node' \in NodeIn
      BY <2>1, <2>2 DEF Sound, NodeIn, Node
    <2>4. used' \in Used
      BY <1>2, SpendNat DEF LoseMessage, Sound, RestOK
    <2>5. seq' \in [Kind -> {"first", "ok", "gap"}]
      BY <1>2, <2>1 DEF LoseMessage, Sound, RestOK
    <2> QED
      BY <1>2, <2>3, <2>4, <2>5 DEF LoseMessage, Sound, RestOK
  <1>3. CASE WorkerStops
    BY <1>3, DeafIn DEF WorkerStops, Sound, RestOK
  <1>4. CASE HasStopped
    <2>1. game' \in GameIn /\ game'.db = game.db
      BY <1>4 DEF HasStopped, Sound, GameIn, Game, SyncState
    <2> QED
      BY <1>4, <2>1 DEF HasStopped, Sound, RestOK
  <1>5. CASE ConnectStart
    <2>1. node' \in NodeIn
      BY <1>5, EmptySeq DEF ConnectStart, Sound, NodeIn, Node
    <2> QED
      BY <1>5, <2>1 DEF ConnectStart, Sound, RestOK
  <1>6. CASE Ping
    <2>1. Parent[node.tip] \in Block
      BY ChainAssumption DEF Sound, NodeIn, Node
    <2>2. node' \in NodeIn
      BY <1>6, <2>1, SendUpdatesIn DEF Ping, Sound
    <2> QED
      BY <1>6, <2>2 DEF Ping, Sound, RestOK
  <1>7. CASE ProbeFails
    <2>1. used' \in Used
      BY <1>7, SpendNat DEF ProbeFails, Sound, RestOK
    <2> QED
      BY <1>7, <2>1 DEF ProbeFails, Sound, RestOK, RequestStop
  <1>8. CASE GetCustomStateData
    <2> DEFINE d == CacheHeight(game.db)
    <2>1. d \in IdleIn /\ d.ok
      BY ChainAssumption
         DEF CacheHeight, Sound, GameIn, IdleIn, DbIn, Db, Consistent, Contents
    <2> HIDE DEF d
    <2>2. game' = [game EXCEPT !.db = d]
      BY <1>8 DEF GetCustomStateData, d
    <2>3. game' \in GameIn /\ game'.db = d
      BY <2>1, <2>2 DEF Sound, GameIn, Game, IdleIn, DbIn
    <2> QED
      BY <1>8, <2>1, <2>3 DEF GetCustomStateData, Sound, RestOK
  <1>9. CASE Restart
    BY <1>9 DEF Restart, Sound, RestOK
  <1> QED
    BY <1>1, <1>2, <1>3, <1>4, <1>5, <1>6, <1>7, <1>8, <1>9

----------------------------------------------------------------------------

LEMMA NextIInv == IInv /\ [Next]_vars => IInv'
  <1> SUFFICES ASSUME Sound, [Next]_vars PROVE Sound'
    BY IInvForm, IInvFormNext
  <1>1. CASE Deliver
    BY <1>1, DeliverSound
  <1>2. CASE ConnectReinit
    BY <1>2, ConnectReinitSound
  <1>3. CASE SetTargetBlock
    BY <1>3, SetTargetBlockSound
  <1>4. CASE Shutdown
    BY <1>4, ShutdownSound
  <1>5. CASE Crash
    BY <1>5, CrashSound
  <1>6. CASE \/ NodeMove \/ LoseMessage \/ WorkerStops \/ HasStopped
             \/ ConnectStart \/ Ping \/ ProbeFails \/ GetCustomStateData \/ Restart
    BY <1>6, OtherStepsSound
  <1>7. CASE UNCHANGED vars
    BY <1>7 DEF vars, Sound, RestOK
  <1> QED
    BY <1>1, <1>2, <1>3, <1>4, <1>5, <1>6, <1>7 DEF Next

\* Every variable keeps its type, and no handler returns inside a transaction.
THEOREM TypeCorrect == Spec => []TypeOK
  <1>1. Spec => []IInv
    BY InitIInv, NextIInv, PTL DEF Spec
  <1>2. IInv => TypeOK
    BY DEF IInv
  <1> QED
    BY <1>1, <1>2, PTL

\* The main result: in every reachable state, whatever attaches, detaches,
\* reorgs, lost or stale notifications, failed commits, resyncs, crashes and
\* restarts led there, the stored game state is the one that replaying the
\* chain up to the stored block gives, in memory and on disk.
THEOREM StorageConsistent == Spec => []StateMatchesHash
  <1>1. Spec => []IInv
    BY InitIInv, NextIInv, PTL DEF Spec
  <1>2. IInv => StateMatchesHash
    BY DEF IInv
  <1> QED
    BY <1>1, <1>2, PTL

\* As long as nothing is pruned, Game can go back from the stored block to the
\* genesis block by block, also after a crash: each block's undo data is
\* written in the transaction that attaches it and removed in the one that
\* detaches it (UpdateStateForAttach, UpdateStateForDetach).
THEOREM BlocksUndoable == Spec /\ ~Pruning => []UndoAvailable
  <1>1. Spec => []IInv
    BY InitIInv, NextIInv, PTL DEF Spec
  <1>2. ASSUME ~Pruning PROVE IInv => UndoAvailable
    BY <1>2 DEF IInv
  <1>3. ASSUME ~Pruning PROVE Spec => []UndoAvailable
    BY <1>1, <1>2, <1>3, PTL
  <1> QED
    BY <1>3

----------------------------------------------------------------------------
(* What the states of Game promise about its storage: the cached height is *)
(* the one of the block, UP_TO_DATE means that nothing waits for a commit, *)
(* and AT_TARGET that the target is reached.                               *)

(***************************************************************************)
(* Between two handlers the storage and the manager agree.  A commit that  *)
(* failed in SetBatchSize is not rolled back: until it is, the cached      *)
(* height says nothing.                                                    *)
(***************************************************************************)
Tidy(d) ==
    /\ d.open <=> (d.batched > 0 /\ ~d.commitFailed)
    /\ ~d.open => d.work = d.disk
    /\ d.needsResize => d.commitFailed
    /\ ~d.commitFailed => d.batched < d.batchSize
    /\ d.work.hash = NoBlock => d.disk.hash = NoBlock
    /\ d.height # NoHeight /\ ~d.commitFailed =>
          d.work.hash # NoBlock /\ d.height = Height[d.work.hash]

TidyIn == {d \in IdleIn : d.ok => Tidy(d)}

\* The state machine and the storage.
Settled(g) ==
    /\ Tidy(g.db)
    /\ g.state = "UP_TO_DATE" => g.db.batchSize = 1
    /\ g.state = "PREGENESIS" => g.db.work.hash = NoBlock
    /\ g.state = "AT_TARGET" /\ g.db.work.hash # NoBlock => g.db.work.hash = g.target

SettledIn == {g \in GameIn : g.db.ok => Settled(g)}

----------------------------------------------------------------------------
(* The storage.                                                            *)

LEMMA TidyDb ==
    ASSUME NEW d \in TidyIn
    PROVE  /\ d \in IdleIn /\ d \in DbIn(Consistent) /\ d \in Db
           /\ d.work \in Consistent /\ d.disk \in Consistent
           /\ d.batched \in Nat /\ d.batchSize \in Nat \ {0}
           /\ d.height \in Nat \cup {NoHeight}
           /\ d.ok => Tidy(d) /\ ~d.inTxn
  BY DEF TidyIn, IdleIn, DbIn, Db

LEMMA OpenTidy ==
    ASSUME NEW c \in Consistent
    PROVE  OpenDb(c) \in TidyIn /\ Tidy(OpenDb(c)) /\ OpenDb(c).batchSize = 1
  <1>1. Tidy(OpenDb(c)) /\ OpenDb(c).batchSize = 1
    BY DEF OpenDb, Tidy, NoHeight
  <1> QED
    BY <1>1, OpenIdle DEF TidyIn

LEMMA CheckedTidy ==
    ASSUME NEW d \in TidyIn, NEW cond \in BOOLEAN
    PROVE  /\ Checked(d, cond, d) \in TidyIn
           /\ Checked(d, cond, d).ok => Checked(d, cond, d) = d /\ cond
  <1>1. Checked(d, cond, d) \in IdleIn
    BY TidyDb, CheckedIdle
  <1>2. Checked(d, cond, d).ok => Checked(d, cond, d) = d /\ cond
    BY TidyDb DEF Checked, Db
  <1> QED
    BY <1>1, <1>2 DEF TidyIn

LEMMA SetBatchTidy ==
    ASSUME NEW d \in TidyIn, NEW n \in Nat \ {0}, NEW full \in BOOLEAN
    PROVE  /\ SetBatchSize(d, n, full) \in TidyIn
           /\ SetBatchSize(d, n, full).ok => SetBatchSize(d, n, full).batchSize = n
  <1> DEFINE r == SetBatchSize(d, n, full)  e == [d EXCEPT !.batchSize = n]
  <1>1. r \in IdleIn
    BY TidyDb, SetBatchIdle
  <1>2. CASE ~d.ok
    <2>1. ~r.ok
      BY <1>2, TidyDb, ConsistentContents, SetBatchSizeIn
    <2> QED
      BY <1>1, <2>1 DEF TidyIn
  <1>3. CASE d.ok /\ d.commitFailed
    <2>0. d \in Db /\ Tidy(d) /\ ~d.inTxn
      BY <1>3, TidyDb
    <2>1. /\ e \in Db /\ e.ok /\ e.commitFailed /\ ~e.inTxn /\ e.batchSize = n
          /\ e.work = d.work /\ e.disk = d.disk /\ (e.open <=> d.open)
          /\ e.batched = d.batched /\ (e.needsResize <=> d.needsResize)
      BY <1>3, <2>0 DEF Db
    <2>2. r = IF e.batched >= n /\ ~e.inTxn THEN Flush(e, full) ELSE e
      BY <1>3, <2>0, <2>1 DEF SetBatchSize, Checked
    <2> HIDE DEF e
    <2>3. Flush(e, full) = [e EXCEPT !.ok = FALSE]
      BY <2>1 DEF Flush, Checked
    <2>4. ~Flush(e, full).ok
      BY <2>1, <2>3 DEF Db
    <2>5. Tidy(e)
      BY <1>3, <2>0, <2>1 DEF Tidy
    <2>6. r.ok => r = e
      BY <2>2, <2>4
    <2> HIDE DEF r
    <2>7. r \in TidyIn /\ (r.ok => r.batchSize = n)
      BY <1>1, <2>1, <2>5, <2>6 DEF TidyIn
    <2> QED
      BY <2>7 DEF r
  <1>4. CASE d.ok /\ ~d.commitFailed
    <2>0. /\ d \in Db /\ Tidy(d) /\ ~d.inTxn /\ ~d.needsResize
          /\ (d.open <=> d.batched > 0) /\ (~d.open => d.work = d.disk)
          /\ d.batched \in Nat
      BY <1>4, TidyDb DEF Tidy
    <2>1. /\ r \in Db /\ r.ok /\ ~r.inTxn
          /\ r.batchSize = n /\ r.height = d.height
          /\ IF d.batched < n
             THEN /\ (r.open <=> d.open) /\ ~r.commitFailed /\ ~r.needsResize
                  /\ r.work = d.work /\ r.disk = d.disk
                  /\ r.batched = d.batched
             ELSE IF full
             THEN /\ ~r.open /\ r.commitFailed /\ r.needsResize
                  /\ r.work = d.disk /\ r.disk = d.disk
             ELSE /\ ~r.open /\ ~r.commitFailed /\ ~r.needsResize
                  /\ r.work = d.work /\ r.disk = d.work
                  /\ r.batched = 0
      BY <1>4, <2>0, SetBatchSizeFacts
    <2> HIDE DEF r
    <2>2. Tidy(r)
      <3>1. CASE d.batched < n
        BY <1>4, <2>0, <2>1, <3>1 DEF Tidy
      <3>2. CASE ~(d.batched < n) /\ full
        BY <1>4, <2>0, <2>1, <3>2 DEF Tidy
      <3>3. CASE ~(d.batched < n) /\ ~full
        <4>1. 0 < n /\ ~(0 > 0)
          OBVIOUS
        <4> QED
          BY <2>0, <2>1, <3>3, <4>1 DEF Tidy
      <3> QED
        BY <3>1, <3>2, <3>3
    <2>3. r \in TidyIn /\ (r.ok => r.batchSize = n)
      BY <1>1, <2>1, <2>2 DEF TidyIn
    <2> QED
      BY <2>3 DEF r
  <1> QED
    BY <1>2, <1>3, <1>4

LEMMA ClearTidy ==
    ASSUME NEW d \in TidyIn, NEW full \in BOOLEAN
    PROVE  LET r == StorageClear(TryAbortTransaction(d), full)
           IN  /\ r \in TidyIn
               /\ r.ok => r.batchSize = d.batchSize
               /\ r.ok => d.ok
  <1> DEFINE t == TryAbortTransaction(d)  r == StorageClear(t, full)
  <1>1. r \in IdleIn
    BY TidyDb, ClearIdle
  <1>2. CASE ~d.ok
    <2>1. t \in Db /\ ~t.ok
      BY <1>2, TidyDb, ConsistentContents, TryAbortTransactionIn DEF DbIn
    <2> HIDE DEF t
    <2>2. ~r.ok
      BY <2>1 DEF StorageClear, Checked, Db
    <2> QED
      BY <1>1, <2>2 DEF TidyIn, t
  <1>3. CASE d.ok
    <2>0. d \in Db /\ Tidy(d) /\ ~d.inTxn /\ d.batched \in Nat /\ d.batchSize \in Nat \ {0}
      BY <1>3, TidyDb
    <2>1. /\ t \in Db /\ t.ok /\ ~t.inTxn /\ ~t.open /\ ~t.commitFailed /\ ~t.needsResize
          /\ t.work = d.disk /\ t.disk = d.disk
          /\ t.batched = 0 /\ t.batchSize = d.batchSize
      BY <1>3, <2>0, TryAbortTransactionFacts DEF Tidy
    <2> HIDE DEF t
    <2>2. /\ r.ok /\ ~r.open /\ ~r.commitFailed /\ ~r.needsResize
          /\ r.work = r.disk /\ r.height = NoHeight
          /\ r.batched = 0 /\ r.batchSize = d.batchSize
      BY <2>1 DEF StorageClear, Checked, Db
    <2> HIDE DEF r
    <2>3. Tidy(r)
      BY <2>0, <2>2 DEF Tidy
    <2>4. r \in TidyIn
      BY <1>1, <2>3 DEF TidyIn
    <2> QED
      BY <1>3, <2>2, <2>4 DEF r, t
  <1> QED
    BY <1>2, <1>3

\* h is the height of the block that c is the state of.
LEMMA ActiveTidy ==
    ASSUME NEW d \in TidyIn, NEW c \in Consistent,
           NEW h \in Nat \cup {NoHeight}, NEW fault,
           d.ok /\ ~d.commitFailed /\ h # NoHeight =>
               c.hash # NoBlock /\ h = Height[c.hash],
           d.ok /\ c.hash = NoBlock => d.work.hash = NoBlock
    PROVE  LET t == ActiveTransaction(d, c, h, fault)
           IN  /\ t.db \in TidyIn
               /\ t.db.ok => d.ok /\ t.db.batchSize = d.batchSize
               /\ t.db.ok /\ t.res = "ok" => t.db.work = c
  <1> DEFINE t == ActiveTransaction(d, c, h, fault)  r == t.db
  <1>1. r \in IdleIn
    BY TidyDb, ActiveIdle
  <1>2. CASE ~d.ok
    <2>1. ~r.ok
      BY <1>2, TidyDb, ConsistentContents, ActiveTransactionIn
    <2> QED
      BY <1>1, <2>1 DEF TidyIn
  <1>3. CASE d.ok /\ d.commitFailed
    <2>1. BeginTransaction(d) = [d EXCEPT !.ok = FALSE]
      BY <1>3 DEF BeginTransaction, Checked
    <2>2. ~BeginTransaction(d).ok
      BY <2>1, TidyDb DEF Db
    <2>3. ~r.ok
      BY <2>2, TidyDb, ConsistentContents, ActiveTransactionAborts
    <2> QED
      BY <1>1, <2>3 DEF TidyIn
  <1>4. CASE d.ok /\ ~d.commitFailed
    <2>0. /\ d \in Db /\ Tidy(d) /\ ~d.inTxn /\ ~d.needsResize
          /\ (d.open <=> d.batched > 0)
          /\ d.batched \in Nat /\ d.batchSize \in Nat \ {0} /\ c \in Contents
      BY <1>4, TidyDb, ConsistentContents DEF Tidy
    <2>1. /\ r \in Db /\ r.ok /\ ~r.inTxn /\ ~r.commitFailed /\ ~r.needsResize
          /\ r.batchSize = d.batchSize
          /\ \/ /\ t.res = "ok" /\ r.work = c /\ r.height = h
                /\ d.batched + 1 < d.batchSize
                /\ r.open /\ r.batched = d.batched + 1 /\ r.disk = d.disk
             \/ /\ t.res = "ok" /\ r.work = c /\ r.height = h
                /\ ~r.open /\ r.batched = 0 /\ r.disk = c
             \/ /\ t.res # "ok" /\ ~r.open /\ r.batched = 0
                /\ r.work = d.disk /\ r.disk = d.disk /\ r.height = NoHeight
      BY <1>4, <2>0, ActiveTransactionFacts
    <2> DEFINE rr == r  res == t.res
    <2>2. /\ rr \in Db /\ rr.ok /\ ~rr.commitFailed /\ ~rr.needsResize
          /\ rr.batchSize = d.batchSize
          /\ \/ /\ res = "ok" /\ rr.work = c /\ rr.height = h
                /\ d.batched + 1 < d.batchSize
                /\ rr.open /\ rr.batched = d.batched + 1 /\ rr.disk = d.disk
             \/ /\ res = "ok" /\ rr.work = c /\ rr.height = h
                /\ ~rr.open /\ rr.batched = 0 /\ rr.disk = c
             \/ /\ res # "ok" /\ ~rr.open /\ rr.batched = 0
                /\ rr.work = d.disk /\ rr.disk = d.disk /\ rr.height = NoHeight
      BY <2>1
    <2> HIDE DEF rr, res
    <2>3. Tidy(rr)
      BY <1>4, <2>0, <2>2 DEF Tidy
    <2>4. rr \in TidyIn
      BY <1>1, <2>3 DEF TidyIn, rr
    <2>5. res = "ok" => rr.work = c
      BY <2>2
    <2> QED
      BY <1>4, <2>2, <2>4, <2>5 DEF rr, res
  <1> QED
    BY <1>2, <1>3, <1>4

----------------------------------------------------------------------------
(* The pruning queue releases undo data and leaves the block.              *)

LEMMA ReleaseTidy ==
    ASSUME NEW d \in TidyIn, NEW bs, NEW fault, Pruning
    PROVE  LET t == ActiveTransaction(d, ReleaseUndoData(d.work, bs), d.height, fault)
           IN  /\ t.db \in TidyIn
               /\ t.db.ok => d.ok /\ t.db.batchSize = d.batchSize
               /\ t.db.ok /\ t.res = "ok" => t.db.work.hash = d.work.hash
  <1> DEFINE c == ReleaseUndoData(d.work, bs)
  <1>1. c \in Consistent /\ c.hash = d.work.hash
    <2>1. d.work \in Consistent
      BY TidyDb
    <2>2. c \in Consistent
      BY <2>1, ReleaseConsistent
    <2>3. c.hash = d.work.hash
      BY <2>1 DEF ReleaseUndoData, Consistent, Contents
    <2> QED
      BY <2>2, <2>3
  <1>2. d.height \in Nat \cup {NoHeight}
    BY TidyDb
  <1> HIDE DEF c
  <1>3. d.ok /\ ~d.commitFailed /\ d.height # NoHeight =>
            c.hash # NoBlock /\ d.height = Height[c.hash]
    BY <1>1, TidyDb DEF Tidy
  <1> DEFINE h == d.height
  <1> HIDE DEF h
  <1>4. LET t == ActiveTransaction(d, c, h, fault)
        IN  /\ t.db \in TidyIn
            /\ t.db.ok => d.ok /\ t.db.batchSize = d.batchSize
            /\ t.db.ok /\ t.res = "ok" => t.db.work = c
    <2>1. d.ok /\ ~d.commitFailed /\ h # NoHeight =>
              c.hash # NoBlock /\ h = Height[c.hash]
      BY <1>3 DEF h
    <2>2. d.ok /\ c.hash = NoBlock => d.work.hash = NoBlock
      BY <1>1
    <2>3. h \in Nat \cup {NoHeight}
      BY <1>2 DEF h
    <2> QED
      BY <1>1, <2>1, <2>2, <2>3, ActiveTidy
  <1> QED
    BY <1>1, <1>4 DEF c, h

LEMMA PruneIfTooLongTidy ==
    ASSUME NEW d \in TidyIn, NEW q, NEW fault, Pruning
    PROVE  LET t == PruneIfTooLong(d, q, fault)
           IN  /\ t.db \in TidyIn
               /\ t.db.ok => d.ok /\ t.db.batchSize = d.batchSize
               /\ t.db.ok /\ t.res = "ok" => t.db.work.hash = d.work.hash
  <1> DEFINE n   == Len(q.hashes) - NBlocks
             out == {q.hashes[i] : i \in 1..n}
             t   == ActiveTransaction(d, ReleaseUndoData(d.work, out), d.height, fault)
             s   == SubSeq(q.hashes, n + 1, Len(q.hashes))
             r   == PruneIfTooLong(d, q, fault)
  <1>1. r = IF n <= 0 THEN [db |-> d, queue |-> q, res |-> "ok"]
            ELSE [db    |-> t.db,
                  queue |-> IF fault = "write" THEN q ELSE [q EXCEPT !.hashes = s],
                  res   |-> t.res]
    BY DEF PruneIfTooLong
  <1>2. /\ t.db \in TidyIn
        /\ t.db.ok => d.ok /\ t.db.batchSize = d.batchSize
        /\ t.db.ok /\ t.res = "ok" => t.db.work.hash = d.work.hash
    <2> HIDE DEF out
    <2> QED  BY ReleaseTidy
  <1> HIDE DEF t, n, s, r
  <1>3. /\ r.db \in TidyIn
        /\ r.db.ok => d.ok /\ r.db.batchSize = d.batchSize
        /\ r.db.ok /\ r.res = "ok" => r.db.work.hash = d.work.hash
    BY <1>1, <1>2
  <1> QED
    BY <1>3 DEF r

LEMMA QueueAttachBlockTidy ==
    ASSUME NEW d \in TidyIn, NEW q, NEW b, NEW fault, Pruning
    PROVE  LET t == QueueAttachBlock(d, q, b, fault)
           IN  /\ t.db \in TidyIn
               /\ t.db.ok => d.ok /\ t.db.batchSize = d.batchSize
               /\ t.db.ok /\ t.res = "ok" => t.db.work.hash = d.work.hash
  <1> DEFINE pushed == [q EXCEPT !.hashes = Append(@, b)]
             front  == Height[b] + 1 - Len(pushed.hashes)
             filled == ~q.initialPruningDone /\ Len(pushed.hashes) >= NBlocks
             bs     == {x \in Block : Height[x] <= front - 1}
             t      == ActiveTransaction(d, ReleaseUndoData(d.work, bs),
                                         d.height, fault[1])
             cond   == filled => front >= 0
             first  == IF filled /\ front > 0 THEN t
                       ELSE [db |-> Checked(d, cond, d), res |-> "ok"]
             q2     == [pushed EXCEPT !.initialPruningDone = @ \/ filled]
             p      == PruneIfTooLong(first.db, q2, fault[2])
             r      == QueueAttachBlock(d, q, b, fault)
  <1>1. r = IF first.res # "ok"
            THEN [db |-> first.db, queue |-> pushed, res |-> first.res]
            ELSE p
    BY DEF QueueAttachBlock, PruneUndoData
  <1>2. /\ t.db \in TidyIn
        /\ t.db.ok => d.ok /\ t.db.batchSize = d.batchSize
        /\ t.db.ok /\ t.res = "ok" => t.db.work.hash = d.work.hash
    <2> HIDE DEF bs
    <2> QED  BY ReleaseTidy
  <1>3. cond \in BOOLEAN
    OBVIOUS
  <1> HIDE DEF t, cond
  <1> DEFINE kept == Checked(d, cond, d)
  <1>4. /\ kept \in TidyIn
        /\ kept.ok => kept = d
    BY <1>3, CheckedTidy
  <1>5. kept.ok => d.ok
    BY <1>4
  <1> HIDE DEF kept, filled, front
  <1>6. /\ first.db \in TidyIn
        /\ first.db.ok => d.ok /\ first.db.batchSize = d.batchSize
        /\ first.db.ok /\ first.res = "ok" => first.db.work.hash = d.work.hash
    BY <1>2, <1>4, <1>5 DEF kept
  <1> HIDE DEF first, q2
  <1>7. /\ p.db \in TidyIn
        /\ p.db.ok => first.db.ok /\ p.db.batchSize = first.db.batchSize
        /\ p.db.ok /\ p.res = "ok" => p.db.work.hash = first.db.work.hash
    BY <1>6, PruneIfTooLongTidy
  <1> HIDE DEF p, r, pushed
  <1>8. /\ r.db \in TidyIn
        /\ r.db.ok => d.ok /\ r.db.batchSize = d.batchSize
        /\ r.db.ok /\ r.res = "ok" => r.db.work.hash = d.work.hash
    BY <1>1, <1>6, <1>7
  <1> QED
    BY <1>8 DEF r

----------------------------------------------------------------------------
(* The updates for a block.                                                *)

\* An update of d that went through leads to the block b.
Updates(u, d, b) ==
    /\ u.db \in TidyIn
    /\ u.db.ok => d.ok /\ u.db.batchSize = d.batchSize
    /\ u.db.ok /\ u.res = "ok" => u.db.work.hash = b

LEMMA UpdateStateForAttachTidy ==
    ASSUME NEW d \in TidyIn, NEW b \in Block, NEW f
    PROVE  Updates(UpdateStateForAttach(d, b, f), d, b)
  <1> DEFINE c     == d.work
             new   == WithState(WithUndo(c, b, UndoFor(c.state, b)), b,
                                ProcessForward(c.state, b))
             stale == c.hash = NoBlock \/ c.hash # Parent[b]
             t     == ActiveTransaction(d, new, Height[b], At(f, "update"))
             cond  == c.hash # NoBlock
             keep  == Checked(d, cond, d)
             u     == UpdateStateForAttach(d, b, f)
  <1>1. u = IF stale THEN [db |-> keep, res |-> "stale"] ELSE t
    BY DEF UpdateStateForAttach
  <1>2. keep \in TidyIn /\ (keep.ok => keep = d)
    <2>1. cond \in BOOLEAN
      OBVIOUS
    <2> HIDE DEF cond
    <2> QED  BY <2>1, CheckedTidy
  <1>3. ASSUME ~stale PROVE Updates(t, d, b)
    <2>1. c \in Consistent
      BY TidyDb
    <2> HIDE DEF c
    <2>2. new \in Consistent
      BY <1>3, <2>1, AttachConsistent
    <2>3. new.hash = b
      BY <2>1 DEF WithState, WithUndo, Consistent, Contents
    <2>4. b # NoBlock /\ Height[b] \in Nat \cup {NoHeight}
      BY ChainAssumption
    <2> HIDE DEF new
    <2>5. /\ t.db \in TidyIn
          /\ t.db.ok => d.ok /\ t.db.batchSize = d.batchSize
          /\ t.db.ok /\ t.res = "ok" => t.db.work = new
      BY <2>2, <2>3, <2>4, ActiveTidy
    <2> QED
      BY <2>3, <2>5 DEF Updates
  <1> HIDE DEF t, keep, stale, u
  <1>4. Updates(u, d, b)
    <2>1. CASE stale
      <3>1. u.db = keep /\ u.res # "ok"
        BY <1>1, <2>1
      <3> QED
        BY <1>2, <3>1 DEF Updates
    <2>2. CASE ~stale
      BY <1>1, <1>3, <2>2
    <2> QED
      BY <2>1, <2>2
  <1> QED
    BY <1>4 DEF u

LEMMA UpdateStateForDetachTidy ==
    ASSUME NEW d \in TidyIn, NEW b \in Block, NEW f
    PROVE  Updates(UpdateStateForDetach(d, b, f), d, Parent[b])
  <1> DEFINE c       == d.work
             full    == At(f, "detachclear") # "none"
             cleared == StorageClear(TryAbortTransaction(d), full)
             old     == WithState(ReleaseUndoData(c, {b}), Parent[b],
                                  ProcessBackwards(c.state, b, c.undo[b]))
             h       == Height[b] - 1
             t       == ActiveTransaction(d, old, h, At(f, "update"))
             cond    == c.hash # NoBlock
             keep    == Checked(d, cond, d)
             resync  == IF full THEN "retry" ELSE "stale"
             u       == UpdateStateForDetach(d, b, f)
  <1>1. u = IF c.hash # b THEN [db |-> keep, res |-> "stale"]
            ELSE IF c.undo[b] = NoUndo THEN [db |-> cleared, res |-> resync]
            ELSE t
    BY DEF UpdateStateForDetach
  <1>2. keep \in TidyIn /\ (keep.ok => keep = d)
    <2>1. cond \in BOOLEAN
      OBVIOUS
    <2> HIDE DEF cond
    <2> QED  BY <2>1, CheckedTidy
  <1>3. /\ cleared \in TidyIn
        /\ cleared.ok => d.ok /\ cleared.batchSize = d.batchSize
    <2>1. full \in BOOLEAN
      OBVIOUS
    <2> HIDE DEF full
    <2> QED  BY <2>1, ClearTidy
  <1>4. ASSUME c.hash = b, c.undo[b] # NoUndo PROVE Updates(t, d, Parent[b])
    <2>1. c \in Consistent
      BY TidyDb
    <2>2. /\ Parent[b] \in Block /\ Parent[b] # NoBlock
          /\ h \in Nat \cup {NoHeight} /\ h = Height[Parent[b]]
      <3>1. Height[b] > GenesisHeight
        BY <1>4, <2>1 DEF Consistent, Replayed
      <3>2. Parent[b] \in Block
        BY <3>1, GameAssumption
      <3> QED
        BY <3>2, ChainAssumption
    <2> HIDE DEF c, h
    <2>3. old \in Consistent
      BY <1>4, <2>1, DetachConsistent
    <2>4. old.hash = Parent[b]
      BY <2>1 DEF WithState, ReleaseUndoData, Consistent, Contents
    <2> HIDE DEF old
    <2>5. /\ t.db \in TidyIn
          /\ t.db.ok => d.ok /\ t.db.batchSize = d.batchSize
          /\ t.db.ok /\ t.res = "ok" => t.db.work = old
      BY <2>2, <2>3, <2>4, ActiveTidy
    <2> QED
      BY <2>4, <2>5 DEF Updates
  <1>5. resync # "ok"
    OBVIOUS
  <1> HIDE DEF t, keep, cleared, resync, u, c
  <1>6. Updates(u, d, Parent[b])
    <2>1. CASE c.hash # b
      <3>1. u.db = keep /\ u.res # "ok"
        BY <1>1, <2>1
      <3> QED
        BY <1>2, <3>1 DEF Updates
    <2>2. CASE c.hash = b /\ c.undo[b] = NoUndo
      <3>1. u.db = cleared /\ u.res # "ok"
        BY <1>1, <1>5, <2>2
      <3> QED
        BY <1>3, <3>1 DEF Updates
    <2>3. CASE c.hash = b /\ c.undo[b] # NoUndo
      BY <1>1, <1>4, <2>3
    <2> QED
      BY <2>1, <2>2, <2>3
  <1> QED
    BY <1>6 DEF u

----------------------------------------------------------------------------
(* Reinitialising settles the game, whatever state it was in before.       *)

LEMMA TidyGame ==
    ASSUME NEW g \in SettledIn
    PROVE  g \in GameIn /\ g.db \in TidyIn
  BY DEF SettledIn, Settled, TidyIn, GameIn

LEMMA SettledIntro ==
    ASSUME NEW g \in GameIn, g.db \in TidyIn,
           g.db.ok /\ g.state = "UP_TO_DATE" => g.db.batchSize = 1,
           g.db.ok /\ g.state = "PREGENESIS" => g.db.work.hash = NoBlock,
           g.db.ok /\ g.state = "AT_TARGET" /\ g.db.work.hash # NoBlock =>
               g.db.work.hash = g.target
    PROVE  g \in SettledIn
  BY DEF SettledIn, Settled, TidyIn

LEMMA SetState ==
    ASSUME NEW g \in GameIn, NEW s \in SyncState
    PROVE  /\ [g EXCEPT !.state = s] \in GameIn
           /\ [g EXCEPT !.state = s].db = g.db
           /\ [g EXCEPT !.state = s].state = s
           /\ [g EXCEPT !.state = s].target = g.target
  BY DEF GameIn, Game

LEMMA SetDb ==
    ASSUME NEW g \in GameIn, NEW d \in TidyIn
    PROVE  /\ [g EXCEPT !.db = d] \in GameIn
           /\ [g EXCEPT !.db = d].db = d
           /\ [g EXCEPT !.db = d].state = g.state
  BY DEF TidyIn, IdleIn, DbIn, GameIn, Game

LEMMA SetStateAndDb ==
    ASSUME NEW g \in GameIn, NEW s \in SyncState, NEW d \in TidyIn
    PROVE  /\ [g EXCEPT !.state = s, !.db = d] \in GameIn
           /\ [g EXCEPT !.state = s, !.db = d].db = d
           /\ [g EXCEPT !.state = s, !.db = d].state = s
  BY DEF TidyIn, IdleIn, DbIn, GameIn, Game

LEMMA SyncFromCurrentStateSettled ==
    ASSUME NEW g \in GameIn, g.db \in TidyIn, g.state \in {"UNKNOWN", "OUT_OF_SYNC"},
           NEW n2 \in NodeIn, NEW best, NEW f,
           g.db.work.hash # NoBlock
    PROVE  SyncFromCurrentState(g, best, n2, f).game \in SettledIn
  <1> DEFINE cur     == g.db.work.hash
             full    == At(f, "flush") # "none"
             flushed == SetBatchSize(g.db, 1, full)
             upd     == SendUpdates(n2, cur, "current")
             batch   == SetBatchSize(g.db, BatchSize, FALSE)
             g1      == [g EXCEPT !.state = "AT_TARGET"]
             g2      == [g EXCEPT !.state = "UP_TO_DATE", !.db = flushed]
             g3      == [g EXCEPT !.state = "CATCHING_UP", !.goal = upd.toblock,
                                  !.db = batch]
             o       == SyncFromCurrentState(g, best, n2, f)
  <1>1. o = IF cur = g.target THEN Outcome(g1, n2, "ok")
            ELSE IF best = cur
            THEN Outcome(g2, n2, IF flushed.commitFailed THEN "throw" ELSE "ok")
            ELSE IF At(f, "updates") # "none" THEN Outcome(g, n2, "throw")
            ELSE Outcome(g3, upd.node, "ok")
    BY DEF SyncFromCurrentState
  <1>2. flushed \in TidyIn /\ (flushed.ok => flushed.batchSize = 1)
    <2>1. 1 \in Nat \ {0} /\ full \in BOOLEAN
      OBVIOUS
    <2> HIDE DEF full
    <2> QED  BY <2>1, SetBatchTidy
  <1>3. batch \in TidyIn
    BY GameAssumption, SetBatchTidy
  <1>4. upd.toblock \in Block \cup {NoBlock}
    BY SendUpdatesIn DEF GameIn, IdleIn, DbIn, Consistent, Contents
  <1>5. cur = g.target => g1 \in SettledIn
    <2>1. g1 \in GameIn /\ g1.db = g.db /\ g1.state = "AT_TARGET" /\ g1.target = g.target
      BY SetState DEF SyncState
    <2> HIDE DEF g1
    <2> QED  BY <2>1, SettledIntro
  <1> HIDE DEF flushed, batch, upd
  <1>6. g2 \in SettledIn
    <2>1. g2 \in GameIn /\ g2.db = flushed /\ g2.state = "UP_TO_DATE"
      BY <1>2, SetStateAndDb DEF SyncState
    <2> HIDE DEF g2
    <2> QED  BY <1>2, <2>1, SettledIntro
  <1>7. g3 \in SettledIn
    <2>1. g3 \in GameIn /\ g3.db = batch /\ g3.state = "CATCHING_UP"
      BY <1>3, <1>4 DEF GameIn, Game, TidyIn, IdleIn, DbIn, SyncState
    <2> HIDE DEF g3
    <2> QED  BY <1>3, <2>1, SettledIntro
  <1>8. g \in SettledIn
    BY SettledIntro
  <1> HIDE DEF g1, g2, g3, o
  <1>9. o.game \in SettledIn
    BY <1>1, <1>5, <1>6, <1>7, <1>8 DEF Outcome
  <1> QED
    BY <1>9 DEF o

LEMMA StoreGenesisSettled ==
    ASSUME NEW g \in GameIn, g.db \in TidyIn, g.state = "UNKNOWN",
           NEW n2 \in NodeIn, NEW f
    PROVE  LET o == StoreGenesis(g, n2, f)
           IN  /\ o.game \in GameIn /\ o.game.db \in TidyIn
               /\ o.game.state \in {"UNKNOWN", "OUT_OF_SYNC"}
  <1> DEFINE full    == At(f, "clear") # "none"
             cleared == StorageClear(TryAbortTransaction(g.db), full)
             genesis == AncestorAt(n2.tip, GenesisHeight)
             c       == WithState(cleared.work, genesis, InitialState)
             stored  == ActiveTransaction(cleared, c, GenesisHeight, "none").db
             known   == GenesisHash \in {NoBlock, genesis}
             final   == Checked(stored, known, stored)
             g1      == [g EXCEPT !.db = cleared]
             g2      == [g EXCEPT !.state = "OUT_OF_SYNC", !.db = final]
             o       == StoreGenesis(g, n2, f)
  <1>1. o = IF full \/ At(f, "hash") # "none" \/ Height[n2.tip] < GenesisHeight
            THEN Outcome(g1, n2, "throw") ELSE Outcome(g2, n2, "ok")
    BY DEF StoreGenesis
  <1>2. cleared \in TidyIn
    <2>1. full \in BOOLEAN
      OBVIOUS
    <2> HIDE DEF full
    <2> QED  BY <2>1, ClearTidy
  <1> HIDE DEF cleared
  <1>3. g1 \in GameIn /\ g1.db = cleared /\ g1.state = "UNKNOWN"
    BY <1>2, SetDb
  <1>4. ASSUME ~(Height[n2.tip] < GenesisHeight)
        PROVE  g2 \in GameIn /\ g2.db \in TidyIn /\ g2.state = "OUT_OF_SYNC"
    <2>1. genesis \in Block /\ Height[genesis] = GenesisHeight
      <3>1. n2.tip \in Block /\ Height[n2.tip] >= GenesisHeight
        BY <1>4, ChainAssumption, GameAssumption DEF NodeIn, Node
      <3> QED  BY <3>1, GenesisFound
    <2> HIDE DEF genesis
    <2>2. c \in Consistent /\ c.hash = genesis
      <3>1. cleared.work \in Consistent
        BY <1>2, TidyDb
      <3> QED
        BY <2>1, <3>1, GenesisConsistent DEF WithState, Consistent, Contents
    <2> HIDE DEF c
    <2>3. stored \in TidyIn
      <3>1. GenesisHeight \in Nat \cup {NoHeight} /\ c.hash # NoBlock
            /\ GenesisHeight = Height[c.hash]
        BY <2>1, <2>2, ChainAssumption, GameAssumption
      <3> QED
        BY <1>2, <2>2, <3>1, ActiveTidy
    <2> HIDE DEF stored
    <2>4. final \in TidyIn
      <3>1. known \in BOOLEAN
        OBVIOUS
      <3> HIDE DEF known
      <3> QED  BY <2>3, <3>1, CheckedTidy
    <2> HIDE DEF final
    <2>5. g2 \in GameIn /\ g2.db = final /\ g2.state = "OUT_OF_SYNC"
      BY <2>4, SetStateAndDb DEF SyncState
    <2> HIDE DEF g2
    <2> QED
      BY <2>4, <2>5
  <1> HIDE DEF g1, g2, o, full
  <1>5. /\ o.game \in GameIn /\ o.game.db \in TidyIn
        /\ o.game.state \in {"UNKNOWN", "OUT_OF_SYNC"}
    BY <1>1, <1>2, <1>3, <1>4 DEF Outcome
  <1> QED
    BY <1>5 DEF o

LEMMA ReinitialiseStateSettled ==
    ASSUME NEW g0 \in GameIn, g0.db \in TidyIn, NEW n, NEW n2 \in NodeIn, NEW f
    PROVE  ReinitialiseState(g0, n, n2, f).game \in SettledIn
  <1> DEFINE g       == [g0 EXCEPT !.state = "UNKNOWN"]
             g1      == [g EXCEPT !.state = "OUT_OF_SYNC"]
             g2      == [g EXCEPT !.state = "PREGENESIS"]
             genesis == StoreGenesis(g, n2, f)
             r       == ReinitialiseState(g0, n, n2, f)
  <1>1. r = IF ~g.db.ok \/ At(f, "info") # "none" THEN Outcome(g, n2, "throw")
            ELSE IF g.db.work.hash # NoBlock
            THEN SyncFromCurrentState(g1, n.tip, n2, f)
            ELSE IF Height[n.tip] < GenesisHeight THEN Outcome(g2, n2, "ok")
            ELSE SyncFromGenesis(genesis, n.tip, n2, f)
    BY DEF ReinitialiseState
  <1>2. g \in GameIn /\ g.db = g0.db /\ g.state = "UNKNOWN"
    BY SetState DEF SyncState
  <1> HIDE DEF g
  <1>3. /\ g1 \in GameIn /\ g1.db = g.db /\ g1.state = "OUT_OF_SYNC"
        /\ g2 \in GameIn /\ g2.db = g.db /\ g2.state = "PREGENESIS"
    BY <1>2, SetState DEF SyncState
  <1> HIDE DEF g1, g2
  <1>4. g \in SettledIn
    BY <1>2, SettledIntro
  <1>5. g.db.work.hash # NoBlock =>
          SyncFromCurrentState(g1, n.tip, n2, f).game \in SettledIn
    BY <1>2, <1>3, SyncFromCurrentStateSettled
  <1>6. g.db.work.hash = NoBlock => g2 \in SettledIn
    BY <1>2, <1>3, SettledIntro
  <1>7. SyncFromGenesis(genesis, n.tip, n2, f).game \in SettledIn
    <2>1. /\ genesis.game \in GameIn /\ genesis.game.db \in TidyIn
          /\ genesis.game.state \in {"UNKNOWN", "OUT_OF_SYNC"}
      BY <1>2, StoreGenesisSettled
    <2>2. genesis.res = "ok" /\ genesis.game.db.ok => genesis.game.db.work.hash # NoBlock
      BY <1>2, StoreGenesisIn
    <2> HIDE DEF genesis
    <2>3. genesis.game \in SettledIn
      BY <2>1, SettledIntro
    <2>4. genesis.res = "ok" /\ genesis.game.db.ok =>
            SyncFromCurrentState(genesis.game, n.tip, n2, f).game \in SettledIn
      BY <2>1, <2>2, SyncFromCurrentStateSettled
    <2> QED
      BY <2>3, <2>4 DEF SyncFromGenesis
  <1> HIDE DEF genesis, r
  <1>8. r.game \in SettledIn
    BY <1>1, <1>4, <1>5, <1>6, <1>7 DEF Outcome
  <1> QED
    BY <1>8 DEF r

----------------------------------------------------------------------------
(* The notification handlers.                                              *)

\* Only the three states that expect blocks survive one.
LEMMA HandleByStateTidy ==
    ASSUME NEW g \in SettledIn, NEW m \in Message, NEW f
    PROVE  LET u == HandleByState(g, m, f)
           IN  /\ u.db \in TidyIn
               /\ u.db.ok => /\ g.db.ok /\ u.db.batchSize = g.db.batchSize
                             /\ g.state \in {"PREGENESIS", "CATCHING_UP", "UP_TO_DATE"}
               /\ g.state = "PREGENESIS" => u.db = g.db /\ u.res \in {"stale", "ok"}
               /\ u.db.ok /\ u.res = "ok" /\ g.state # "PREGENESIS" =>
                      u.db.work.hash = StepTo(m)
  <1> DEFINE abort == [db |-> Checked(g.db, FALSE, g.db), res |-> "ok"]
             wait  == [db  |-> g.db,
                       res |-> IF m.kind = "attach" /\ Height[m.block] >= GenesisHeight
                               THEN "stale" ELSE "ok"]
             att   == UpdateStateForAttach(g.db, m.block, f)
             det   == UpdateStateForDetach(g.db, m.block, f)
             step  == IF m.kind = "attach" THEN att ELSE det
             u     == HandleByState(g, m, f)
  <1>1. /\ g.db \in TidyIn /\ m.block \in Block /\ g.state \in SyncState
        /\ g.db \in Db
    BY TidyGame, TidyDb DEF GameIn, Game, Message
  <1>2. /\ g.state = "PREGENESIS" => u = wait
        /\ g.state \in {"CATCHING_UP", "UP_TO_DATE"} => u = step
        /\ g.state \notin {"PREGENESIS", "CATCHING_UP", "UP_TO_DATE"} => u = abort
    BY <1>1 DEF HandleByState, SyncState
  <1>3. Updates(step, g.db, StepTo(m))
    BY <1>1, UpdateStateForAttachTidy, UpdateStateForDetachTidy DEF StepTo
  <1>4. abort.db \in TidyIn /\ ~abort.db.ok
    <2>1. Checked(g.db, FALSE, g.db) \in TidyIn /\ ~Checked(g.db, FALSE, g.db).ok
      BY <1>1, CheckedTidy
    <2> QED
      BY <2>1
  <1>5. wait.db = g.db /\ wait.res \in {"stale", "ok"}
    OBVIOUS
  <1> HIDE DEF abort, wait, step, u
  <1>6. /\ u.db \in TidyIn
        /\ u.db.ok => /\ g.db.ok /\ u.db.batchSize = g.db.batchSize
                      /\ g.state \in {"PREGENESIS", "CATCHING_UP", "UP_TO_DATE"}
        /\ g.state = "PREGENESIS" => u.db = g.db /\ u.res \in {"stale", "ok"}
        /\ u.db.ok /\ u.res = "ok" /\ g.state # "PREGENESIS" =>
               u.db.work.hash = StepTo(m)
    <2>1. CASE g.state = "PREGENESIS"
      BY <1>1, <1>2, <1>5, <2>1
    <2>2. CASE g.state \in {"CATCHING_UP", "UP_TO_DATE"}
      BY <1>2, <1>3, <2>2 DEF Updates
    <2>3. CASE g.state \notin {"PREGENESIS", "CATCHING_UP", "UP_TO_DATE"}
      BY <1>2, <1>4, <2>3
    <2> QED
      BY <2>1, <2>2, <2>3
  <1> QED
    BY <1>6 DEF u

LEMMA UpdateQueueTidy ==
    ASSUME NEW g \in SettledIn, NEW upd, upd.db \in TidyIn, NEW m \in Message, NEW f
    PROVE  LET done == UpdateQueue(g, upd, m, f)
           IN  /\ done.db \in TidyIn
               /\ done.db.ok => upd.db.ok /\ done.db.batchSize = upd.db.batchSize
               /\ done.db.ok /\ done.res = "ok" =>
                      upd.res = "ok" /\ done.db.work.hash = upd.db.work.hash
  <1> DEFINE fault  == <<At(f, "initial"), At(f, "prune")>>
             q      == QueueAttachBlock(upd.db, g.queue, m.block, fault)
             kept   == [db |-> upd.db, queue |-> g.queue, res |-> upd.res]
             popped == [db |-> upd.db, queue |-> QueueDetachBlock(g.queue),
                        res |-> upd.res]
             failed == [q EXCEPT !.res = upd.res]
             done   == UpdateQueue(g, upd, m, f)
  <1>1. \/ done = kept \/ done = popped
        \/ Pruning /\ done = IF upd.res = "ok" THEN q ELSE failed
    BY DEF UpdateQueue
  <1> HIDE DEF fault
  <1>2. Pruning =>
          /\ q.db \in TidyIn
          /\ q.db.ok => upd.db.ok /\ q.db.batchSize = upd.db.batchSize
          /\ q.db.ok /\ q.res = "ok" => q.db.work.hash = upd.db.work.hash
    BY QueueAttachBlockTidy
  <1>3. \E x, y, z : q = [db |-> x, queue |-> y, res |-> z]
    BY DEF QueueAttachBlock, PruneIfTooLong
  <1> HIDE DEF q
  <1>4. failed.db = q.db /\ failed.res = upd.res
    BY <1>3
  <1>5. /\ kept.db = upd.db /\ kept.res = upd.res
        /\ popped.db = upd.db /\ popped.res = upd.res
    OBVIOUS
  <1> HIDE DEF kept, popped, failed, done
  <1>6. /\ done.db \in TidyIn
        /\ done.db.ok => upd.db.ok /\ done.db.batchSize = upd.db.batchSize
        /\ done.db.ok /\ done.res = "ok" =>
               upd.res = "ok" /\ done.db.work.hash = upd.db.work.hash
    BY <1>1, <1>2, <1>4, <1>5
  <1> QED
    BY <1>6 DEF done

\* A handler goes on without reinitialising only once its update and the
\* queue's went through.
LEMMA HandleInSequenceSettled ==
    ASSUME NEW g \in SettledIn, NEW m \in Message, NEW n, NEW n2 \in NodeIn, NEW f
    PROVE  HandleInSequence(g, m, n, n2, f).game \in SettledIn
  <1> DEFINE upd    == HandleByState(g, m, f)
             done   == UpdateQueue(g, upd, m, f)
             failed == [g EXCEPT !.db = upd.db]
             s      == IF StepTo(m) = g.target THEN "AT_TARGET" ELSE g.state
             next   == [g EXCEPT !.db = done.db, !.queue = done.queue, !.state = s]
             again  == \/ done.res # "ok"
                       \/ g.state = "CATCHING_UP" /\ StepTo(m) = g.goal
             o      == HandleInSequence(g, m, n, n2, f)
  <1>1. o = IF upd.res = "throw" THEN Outcome(failed, n2, "throw")
            ELSE IF again THEN ReinitialiseState(next, n, n2, f)
            ELSE Outcome(next, n2, "ok")
    BY DEF HandleInSequence, FinishBlock
  <1>2. g \in GameIn /\ g.db \in TidyIn
    BY TidyGame
  <1>3. /\ upd.db \in TidyIn
        /\ upd.db.ok => /\ g.db.ok /\ upd.db.batchSize = g.db.batchSize
                        /\ g.state \in {"PREGENESIS", "CATCHING_UP", "UP_TO_DATE"}
        /\ g.state = "PREGENESIS" => upd.db = g.db /\ upd.res \in {"stale", "ok"}
        /\ upd.db.ok /\ upd.res = "ok" /\ g.state # "PREGENESIS" =>
               upd.db.work.hash = StepTo(m)
    BY HandleByStateTidy
  <1>4. /\ g.db.ok /\ g.state = "UP_TO_DATE" => g.db.batchSize = 1
        /\ g.db.ok /\ g.state = "PREGENESIS" => g.db.work.hash = NoBlock
    BY DEF SettledIn, Settled
  <1> HIDE DEF upd
  <1>5. done.db \in TidyIn /\ done.queue \in Queue
    <2>1. upd.db \in IdleIn
      BY <1>3, TidyDb
    <2>2. done.queue \in Queue
      BY <1>2, <2>1, UpdateQueueIn
    <2>3. done.db \in TidyIn
      BY <1>3, UpdateQueueTidy
    <2> QED
      BY <2>2, <2>3
  <1>6. /\ done.db.ok => upd.db.ok /\ done.db.batchSize = upd.db.batchSize
        /\ done.db.ok /\ done.res = "ok" =>
               upd.res = "ok" /\ done.db.work.hash = upd.db.work.hash
    BY <1>3, UpdateQueueTidy
  <1>7. s \in SyncState /\ s \in {"AT_TARGET", g.state}
    BY <1>2 DEF GameIn, Game, SyncState
  <1>8. (s = "AT_TARGET" /\ g.state # "AT_TARGET") => StepTo(m) = g.target
    OBVIOUS
  <1> HIDE DEF done, s
  <1>9. /\ next \in GameIn /\ next.db = done.db /\ next.state = s
        /\ next.target = g.target
    BY <1>2, <1>5, <1>7 DEF GameIn, Game, TidyIn, IdleIn, DbIn
  <1> HIDE DEF next
  <1>10. ReinitialiseState(next, n, n2, f).game \in SettledIn
    BY <1>5, <1>9, ReinitialiseStateSettled
  <1>11. ASSUME upd.res = "throw" PROVE failed \in SettledIn
    <2>1. failed \in GameIn /\ failed.db = upd.db /\ failed.state = g.state
      BY <1>2, <1>3, SetDb
    <2> HIDE DEF failed
    <2>2. upd.db.ok => g.state \in {"CATCHING_UP", "UP_TO_DATE"}
      BY <1>3, <1>11
    <2> QED
      BY <1>3, <1>4, <2>1, <2>2, SettledIntro
  <1>12. ASSUME ~again PROVE next \in SettledIn
    <2>1. done.res = "ok"
      BY <1>12
    <2>2. next.db.ok /\ next.state = "UP_TO_DATE" => next.db.batchSize = 1
      BY <1>3, <1>4, <1>6, <1>7, <1>9
    <2>3. next.db.ok /\ next.state = "PREGENESIS" => next.db.work.hash = NoBlock
      BY <1>3, <1>4, <1>6, <1>7, <1>9, <2>1
    <2>4. next.db.ok /\ next.state = "AT_TARGET" /\ next.db.work.hash # NoBlock =>
              next.db.work.hash = next.target
      BY <1>3, <1>4, <1>6, <1>7, <1>8, <1>9, <2>1
    <2> QED
      BY <1>5, <1>9, <2>2, <2>3, <2>4, SettledIntro
  <1> HIDE DEF failed, again, o
  <1>13. o.game \in SettledIn
    BY <1>1, <1>10, <1>11, <1>12 DEF Outcome
  <1> QED
    BY <1>13 DEF o

LEMMA HandleBlockSettled ==
    ASSUME NEW g \in SettledIn, NEW m \in Message, NEW gap, NEW n,
           NEW n2 \in NodeIn, NEW f
    PROVE  HandleBlock(g, m, gap, n, n2, f).game \in SettledIn
  <1> DEFINE again == ReinitialiseState(g, n, n2, f)
  <1>1. again.game \in SettledIn
    BY TidyGame, ReinitialiseStateSettled
  <1>2. ResetQueue(again).game \in SettledIn
    <2>1. EmptyQueue \in Queue
      BY EmptySeq DEF EmptyQueue, Queue
    <2>2. IsOutcome(again)
      BY ReinitialiseStateShape
    <2> HIDE DEF again
    <2>3. CASE ~(Pruning /\ again.res = "ok")
      BY <1>1, <2>3 DEF ResetQueue
    <2>4. CASE Pruning /\ again.res = "ok"
      <3> DEFINE h == again.game  k == [h EXCEPT !.queue = EmptyQueue]
      <3>1. ResetQueue(again).game = k
        BY <2>2, <2>4 DEF ResetQueue, IsOutcome
      <3>2. h \in SettledIn
        BY <1>1
      <3> HIDE DEF h
      <3>3. /\ k \in GameIn /\ k.db = h.db /\ k.state = h.state
            /\ k.target = h.target
        BY <2>1, <3>2 DEF SettledIn, GameIn, Game
      <3> HIDE DEF k
      <3>4. k \in SettledIn
        BY <3>2, <3>3 DEF SettledIn, Settled
      <3> QED
        BY <3>1, <3>4
    <2> QED
      BY <2>3, <2>4
  <1>3. HandleInSequence(g, m, n, n2, f).game \in SettledIn
    BY HandleInSequenceSettled
  <1>4. HandleBlock(g, m, gap, n, n2, f) \in
          {Outcome(g, n2, "ok"), ResetQueue(again), HandleInSequence(g, m, n, n2, f)}
    BY DEF HandleBlock
  <1> HIDE DEF again
  <1> QED
    BY <1>2, <1>3, <1>4 DEF Outcome

----------------------------------------------------------------------------
(* The steps of the system.                                                *)

LEMMA ProcessEndsSettled ==
    ASSUME NEW how, NEW c \in Consistent, NEW n, ProcessEnds(how, c, n)
    PROVE  game' \in SettledIn
  <1>1. /\ FreshGame(c) \in GameIn /\ FreshGame(c).state = "DISCONNECTED"
        /\ FreshGame(c).db = OpenDb(c)
    BY FreshGameIn DEF FreshGame
  <1>2. OpenDb(c) \in TidyIn
    BY OpenTidy
  <1>3. FreshGame(c) \in SettledIn
    BY <1>1, <1>2, SettledIntro
  <1> QED
    BY <1>3 DEF ProcessEnds

LEMMA DeliverSettled == Sound /\ game \in SettledIn /\ Deliver => game' \in SettledIn
  <1> SUFFICES ASSUME Sound, game \in SettledIn, Deliver PROVE game' \in SettledIn
    OBVIOUS
  <1> DEFINE m == Head(node.net)
             n == [node EXCEPT !.net = Tail(@)]
  <1>0. PICK f \in Faults, n2 \in Meanwhile(n) :
          \E r \in {HandleBlock(game, m, seq[m.kind] # "ok", n, n2, f)} :
            IF r.game.db.ok THEN game' = r.game
            ELSE ProcessEnds("aborted", r.game.db.disk, r.node)
    BY DEF Deliver
  <1> DEFINE gap == seq[m.kind] # "ok"
             r   == HandleBlock(game, m, gap, n, n2, f)
  <1>1. IF r.game.db.ok THEN game' = r.game
        ELSE ProcessEnds("aborted", r.game.db.disk, r.node)
    BY <1>0
  <1>2. m \in Message /\ n \in NodeIn
    <2> DEFINE t == Tail(node.net)
    <2>1. m \in Message /\ t \in Seq(Message)
      BY HeadTailProperties DEF Deliver, CanDeliver, Sound, NodeIn, Node
    <2> HIDE DEF t
    <2>2. [node EXCEPT !.net = t] \in NodeIn
      BY <2>1 DEF Sound, NodeIn, Node
    <2> QED
      BY <2>1, <2>2 DEF t
  <1> HIDE DEF m, n, gap
  <1>3. n2 \in NodeIn
    BY <1>0, <1>2, MeanwhileIn
  <1>4. r.game \in SettledIn /\ OutcomeIn(r)
    BY <1>2, <1>3, TidyGame, HandleBlockSettled, HandleBlockIn
  <1> HIDE DEF r
  <1> QED
    BY <1>1, <1>4, OutcomeDisk, ProcessEndsSettled

LEMMA ConnectReinitSettled ==
    Sound /\ game \in SettledIn /\ ConnectReinit => game' \in SettledIn
  <1> SUFFICES ASSUME Sound, game \in SettledIn, ConnectReinit
               PROVE  game' \in SettledIn
    OBVIOUS
  <1>0. PICK f \in Faults, n2 \in Meanwhile(node) :
          \E r \in {ReinitialiseState(game, node, n2, f)} :
            \/ game' = r.game
            \/ ProcessEnds("aborted", r.game.db.disk, r.node)
    BY DEF ConnectReinit
  <1> DEFINE r == ReinitialiseState(game, node, n2, f)
  <1>1. game' = r.game \/ ProcessEnds("aborted", r.game.db.disk, r.node)
    BY <1>0
  <1>2. n2 \in NodeIn
    BY <1>0, MeanwhileIn DEF Sound
  <1>3. r.game \in SettledIn /\ OutcomeIn(r)
    BY <1>2, TidyGame, ReinitialiseStateSettled, ReinitialiseStateIn
  <1> HIDE DEF r
  <1> QED
    BY <1>1, <1>3, OutcomeDisk, ProcessEndsSettled

LEMMA SetTargetBlockSettled ==
    Sound /\ game \in SettledIn /\ SetTargetBlock => game' \in SettledIn
  <1> SUFFICES ASSUME Sound, game \in SettledIn, SetTargetBlock
               PROVE  game' \in SettledIn
    OBVIOUS
  <1>0. PICK b \in (Target \cup {NoBlock}) \ {game.target},
             f \in Faults, n2 \in Meanwhile(node) :
          \E r \in {LET g == [game EXCEPT !.target = b]
                    IN  IF game.state = "DISCONNECTED" THEN Outcome(g, n2, "ok")
                        ELSE ReinitialiseState(g, node, n2, f)} :
            IF r.game.db.ok THEN game' = r.game
            ELSE ProcessEnds("aborted", r.game.db.disk, r.node)
    BY DEF SetTargetBlock
  <1> DEFINE g == [game EXCEPT !.target = b]
             r == IF game.state = "DISCONNECTED" THEN Outcome(g, n2, "ok")
                  ELSE ReinitialiseState(g, node, n2, f)
  <1>1. IF r.game.db.ok THEN game' = r.game
        ELSE ProcessEnds("aborted", r.game.db.disk, r.node)
    BY <1>0
  <1>2. n2 \in NodeIn
    BY <1>0, MeanwhileIn DEF Sound
  <1>3. g \in GameIn /\ g.db = game.db /\ g.state = game.state
    BY GameAssumption DEF Sound, GameIn, Game
  <1> HIDE DEF g
  <1>4. g.db \in TidyIn
    BY <1>3, TidyGame
  <1>5. game.state = "DISCONNECTED" => g \in SettledIn
    BY <1>3, <1>4, SettledIntro
  <1>6. /\ ReinitialiseState(g, node, n2, f).game \in SettledIn
        /\ OutcomeIn(ReinitialiseState(g, node, n2, f))
    BY <1>2, <1>3, <1>4, ReinitialiseStateSettled, ReinitialiseStateIn
  <1>7. OutcomeIn(Outcome(g, n2, "ok")) /\ Outcome(g, n2, "ok").game = g
    BY <1>2, <1>3, OutcomeInIntro DEF Outcome
  <1>8. r.game \in SettledIn /\ OutcomeIn(r)
    BY <1>5, <1>6, <1>7
  <1> HIDE DEF r
  <1> QED
    BY <1>1, <1>8, OutcomeDisk, ProcessEndsSettled

LEMMA NextSettled ==
    Sound /\ game \in SettledIn /\ [Next]_vars => game' \in SettledIn
  <1> SUFFICES ASSUME Sound, game \in SettledIn, [Next]_vars
               PROVE  game' \in SettledIn
    OBVIOUS
  <1>1. CASE Deliver
    BY <1>1, DeliverSettled
  <1>2. CASE ConnectReinit
    BY <1>2, ConnectReinitSettled
  <1>3. CASE SetTargetBlock
    BY <1>3, SetTargetBlockSettled
  <1>4. CASE Shutdown \/ Crash
    <2> DEFINE d == Flush(game.db, FALSE)
    <2>1. d.disk \in Consistent /\ game.db.disk \in Consistent
      BY ConsistentContents, FlushIn DEF Sound, GameIn, IdleIn, DbIn
    <2> HIDE DEF d
    <2>2. \/ ProcessEnds("exited", d.disk, node)
          \/ ProcessEnds("aborted", game.db.disk, node)
          \/ ProcessEnds("exited", game.db.disk, node)
      BY <1>4 DEF Shutdown, Crash, d
    <2> QED
      BY <2>1, <2>2, ProcessEndsSettled
  <1>5. CASE HasStopped
    <2>1. game' \in GameIn /\ game'.db = game.db /\ game'.state = "DISCONNECTED"
      BY <1>5 DEF HasStopped, Sound, GameIn, Game, SyncState
    <2> QED
      BY <2>1, TidyGame, SettledIntro
  <1>6. CASE GetCustomStateData
    <2> DEFINE d == CacheHeight(game.db)
    <2>1. game.db \in TidyIn /\ game.db.ok
      BY TidyGame DEF Sound
    <2>2. d \in TidyIn /\ d.work = game.db.work /\ d.batchSize = game.db.batchSize
      <3>1. CASE d = game.db
        BY <2>1, <3>1
      <3>2. CASE /\ game.db.work.hash # NoBlock
                 /\ d = [game.db EXCEPT !.height = Height[game.db.work.hash]]
        <4> DEFINE e == game.db
        <4>1. e \in Db /\ e.work \in Consistent /\ e.disk \in Consistent /\ ~e.inTxn
          BY <2>1, TidyDb
        <4>2. e.work.hash \in Block /\ Height[e.work.hash] \in Nat
          BY <3>2, <4>1, ChainAssumption DEF Consistent, Contents
        <4>3. /\ d \in Db /\ d.ok = e.ok /\ d.inTxn = e.inTxn /\ d.open = e.open
              /\ d.work = e.work /\ d.disk = e.disk
              /\ d.needsResize = e.needsResize /\ d.commitFailed = e.commitFailed
              /\ d.batched = e.batched /\ d.batchSize = e.batchSize
              /\ d.height = Height[e.work.hash]
          BY <3>2, <4>1, <4>2 DEF Db
        <4>4. Tidy(e)
          BY <2>1, TidyDb
        <4> HIDE DEF d, e
        <4>5. Tidy(d)
          BY <3>2, <4>3, <4>4 DEF Tidy, e
        <4>6. d \in IdleIn
          BY <4>1, <4>3 DEF IdleIn, DbIn
        <4> QED
          BY <4>3, <4>5, <4>6 DEF TidyIn, e
      <3> QED
        BY <3>1, <3>2 DEF CacheHeight
    <2> HIDE DEF d
    <2>3. game' = [game EXCEPT !.db = d]
      BY <1>6 DEF GetCustomStateData, d
    <2>4. /\ game' \in GameIn /\ game'.db = d /\ game'.state = game.state
          /\ game'.target = game.target
      BY <2>2, <2>3 DEF Sound, GameIn, Game, TidyIn, IdleIn, DbIn
    <2> QED
      BY <2>1, <2>2, <2>4, SettledIntro DEF SettledIn, Settled
  <1>7. CASE \/ NodeMove \/ LoseMessage \/ WorkerStops \/ ConnectStart
             \/ Ping \/ ProbeFails \/ Restart
    BY <1>7 DEF NodeMove, LoseMessage, WorkerStops, ConnectStart, Ping, ProbeFails,
                Restart
  <1>8. CASE UNCHANGED vars
    BY <1>8 DEF vars
  <1> QED
    BY <1>1, <1>2, <1>3, <1>4, <1>5, <1>6, <1>7, <1>8 DEF Next

LEMMA SpecSettled == Spec => [](Sound /\ game \in SettledIn)
  <1>1. Init => Sound /\ game \in SettledIn
    <2> SUFFICES ASSUME Init PROVE Sound /\ game \in SettledIn
      OBVIOUS
    <2>1. Sound
      BY InitIInv, IInvForm
    <2> DEFINE g == FreshGame(EmptyContents)
    <2>2. g \in GameIn /\ g.state = "DISCONNECTED" /\ g.db = OpenDb(EmptyContents)
      BY EmptyConsistent, FreshGameIn DEF FreshGame
    <2> HIDE DEF g
    <2>3. g \in SettledIn
      BY <2>2, EmptyConsistent, OpenTidy, SettledIntro
    <2> QED
      BY <2>1, <2>3 DEF Init, g
  <1>2. Sound /\ game \in SettledIn /\ [Next]_vars => (Sound /\ game \in SettledIn)'
    BY NextIInv, IInvForm, IInvFormNext, NextSettled
  <1> QED
    BY <1>1, <1>2, PTL DEF Spec

----------------------------------------------------------------------------

\* The height that Game reports with the state is the height of its block,
\* through rollbacks, clears, failed commits and restarts.
THEOREM HeightsCorrect == Spec => []CachedHeightMatches
  <1>1. Sound /\ game \in SettledIn => CachedHeightMatches
    BY DEF Sound, SettledIn, Settled, Tidy, CachedHeightMatches
  <1> QED
    BY <1>1, SpecSettled, PTL

\* UP_TO_DATE is reported only once everything is committed: batchSize is 1
\* by then, so no transaction is left waiting for others.
THEOREM UpToDateDurable == Spec => []UpToDateIsDurable
  <1>1. Sound /\ game \in SettledIn => UpToDateIsDurable
    <2> SUFFICES ASSUME Sound, game \in SettledIn, game.state = "UP_TO_DATE"
                 PROVE  game.db.work = game.db.disk
      BY DEF UpToDateIsDurable
    <2>1. /\ game.db.batchSize = 1 /\ game.db.batched \in Nat
          /\ game.db.open <=> (game.db.batched > 0 /\ ~game.db.commitFailed)
          /\ ~game.db.open => game.db.work = game.db.disk
          /\ ~game.db.commitFailed => game.db.batched < game.db.batchSize
      BY TidyGame, TidyDb DEF Sound, SettledIn, Settled, Tidy
    <2> QED
      BY <2>1
  <1> QED
    BY <1>1, SpecSettled, PTL

\* AT_TARGET is never reported with the state of another block, although the
\* handlers set it before they know whether their update went through.
THEOREM AtTargetSynced == Spec => []AtTargetMeansSynced
  <1>1. Sound /\ game \in SettledIn => AtTargetMeansSynced
    BY DEF Sound, SettledIn, Settled, AtTargetMeansSynced
  <1> QED
    BY <1>1, SpecSettled, PTL

----------------------------------------------------------------------------

(***************************************************************************)
(* A request for updates on its way to the goal: the message that ends it  *)
(* is still to come, or there was none, because the node was at the goal.  *)
(***************************************************************************)
Coming(n, goal) ==
    \E i \in DOMAIN n.net : n.net[i].token = "current" /\ StepTo(n.net[i]) = goal

NoneCurrent(n) == \A i \in DOMAIN n.net : n.net[i].token # "current"

OnItsWay(g, n) ==
    g.state = "CATCHING_UP" =>
        Coming(n, g.goal) \/ (g.db.work.hash = g.goal /\ NoneCurrent(n))

CatchUpInv ==
    worker = "running" =>
        node.open /\ ((\A k \in Kind : seq[k] # "gap") => OnItsWay(game, node))

\* What the node has sent stays, and what it adds is not of the current request.
Continues(n, n2) ==
    /\ n2.open = n.open
    /\ \A goal : Coming(n, goal) => Coming(n2, goal)
    /\ NoneCurrent(n) => NoneCurrent(n2)

\* What is published after a sequence of messages.
LEMMA MessagesJoined ==
    ASSUME NEW s \in Seq(Message), NEW u \in Seq(Message)
    PROVE  /\ s \o u \in Seq(Message) /\ Len(s \o u) = Len(s) + Len(u)
           /\ \A i \in 1 .. Len(s) + Len(u) :
                (s \o u)[i] = IF i <= Len(s) THEN s[i] ELSE u[i - Len(s)]
  BY ConcatProperties, Zenon

LEMMA PublishContinues ==
    ASSUME NEW n \in NodeIn, NEW b \in Block, NEW x \in Message, x.token # "current"
    PROVE  Continues(n, Publish([n EXCEPT !.tip = b], <<x>>))
  <1> DEFINE m == [n EXCEPT !.tip = b]  s == <<x>>  net == n.net
             q == net \o s
             p == Publish(m, s)
  <1>1. net \in Seq(Message) /\ n.open \in BOOLEAN
    BY DEF NodeIn, Node
  <1>2. m.net = net /\ m.open = n.open
    BY DEF NodeIn, Node
  <1>3. s \in Seq(Message) /\ Len(s) = 1 /\ s[1] = x
    OBVIOUS
  <1> HIDE DEF s, net
  <1>4. /\ q \in Seq(Message) /\ Len(q) = Len(net) + 1 /\ DOMAIN q = 1 .. (Len(net) + 1)
        /\ Len(net) \in Nat /\ DOMAIN net = 1 .. Len(net)
        /\ \A i \in 1 .. Len(net) : q[i] = net[i]
        /\ q[Len(net) + 1] = x
    <2>1. /\ q \in Seq(Message) /\ Len(q) = Len(net) + Len(s)
          /\ \A i \in 1 .. Len(net) + Len(s) :
               q[i] = IF i <= Len(net) THEN net[i] ELSE s[i - Len(net)]
      BY <1>1, <1>3, MessagesJoined, Zenon
    <2>2. /\ Len(q) = Len(net) + 1
          /\ \A i \in 1 .. Len(q) : q[i] = IF i <= Len(net) THEN net[i] ELSE s[i - Len(net)]
      BY <1>3, <2>1
    <2>3. Len(net) \in Nat /\ DOMAIN net = 1 .. Len(net) /\ DOMAIN q = 1 .. Len(q)
      BY <1>1, <2>1
    <2>4. Len(net) + 1 \in 1 .. Len(q) /\ ~(Len(net) + 1 <= Len(net)) /\ Len(net) + 1 - Len(net) = 1
      BY <2>2, <2>3
    <2>5. q[Len(net) + 1] = x
      BY <1>3, <2>2, <2>4
    <2>6. \A i \in 1 .. Len(net) : q[i] = net[i]
      BY <2>1, <2>2, <2>3
    <2> QED  BY <2>1, <2>2, <2>3, <2>5, <2>6
  <1> HIDE DEF q
  <1>5. p = IF m.open THEN [m EXCEPT !.net = q] ELSE m
    BY <1>2 DEF Publish, q
  <1>6. p.open = n.open /\ p.net \in {net, q}
    BY <1>2, <1>5 DEF NodeIn, Node
  <1> HIDE DEF p, m
  <1>7. \A i \in DOMAIN net : i \in DOMAIN q /\ q[i] = net[i]
    BY <1>4
  <1>8. \A i \in DOMAIN q : i \in DOMAIN net \/ i = Len(net) + 1
    BY <1>4
  <1>9. \A goal : Coming(n, goal) => Coming(p, goal)
    BY <1>6, <1>7 DEF Coming, net
  <1>10. NoneCurrent(n) => NoneCurrent(p)
    BY <1>4, <1>6, <1>7, <1>8 DEF NoneCurrent, net
  <1>11. Continues(n, p)
    BY <1>6, <1>9, <1>10 DEF Continues
  <1> QED
    BY <1>11 DEF p, m, s

LEMMA MeanwhileContinues ==
    ASSUME NEW n \in NodeIn, NEW n2 \in {n} \cup NodeMoves(n)
    PROVE  Continues(n, n2)
  <1>1. CASE n2 = n
    BY <1>1 DEF Continues
  <1>2. CASE \E b \in Block : n2 = NodeAttach(n, b)
    <2>1. PICK b \in Block : n2 = NodeAttach(n, b)
      BY <1>2
    <2> DEFINE x == [kind |-> "attach", block |-> b, token |-> "none"]
    <2>2. x \in Message /\ x.token # "current"
      BY DEF Message, Kind
    <2>3. n2 = Publish([n EXCEPT !.tip = b], <<x>>)
      BY <2>1 DEF NodeAttach
    <2> HIDE DEF x
    <2> QED  BY <2>2, <2>3, PublishContinues
  <1>3. CASE n2 = NodeDetach(n)
    <2> DEFINE x == [kind |-> "detach", block |-> n.tip, token |-> "none"]
               b == Parent[n.tip]
    <2>1. n.tip \in Block /\ b \in Block
      BY ChainAssumption DEF NodeIn, Node
    <2>2. x \in Message /\ x.token # "current"
      BY <2>1 DEF Message, Kind
    <2>3. n2 = Publish([n EXCEPT !.tip = b], <<x>>)
      BY <1>3 DEF NodeDetach
    <2> HIDE DEF x, b
    <2> QED  BY <2>1, <2>2, <2>3, PublishContinues
  <1> QED
    BY <1>1, <1>2, <1>3 DEF NodeMoves

\* A request ends with the message that leads to the goal it returns.
LEMMA SendUpdatesComing ==
    ASSUME NEW n \in NodeIn, NEW from \in Block
    PROVE  LET u == SendUpdates(n, from, "current")
           IN  /\ u.node.open = n.open
               /\ n.open => \/ Coming(u.node, u.toblock)
                            \/ u.toblock = from /\ NoneCurrent(u.node)
  <1> DEFINE steps == Steps(from, n.tip)
             net   == n.net
             older == [i \in DOMAIN net |->
                         IF net[i].token = "current"
                         THEN [net[i] EXCEPT !.token = "old"] ELSE net[i]]
             msgs  == [i \in DOMAIN steps |->
                         [kind |-> steps[i].kind, block |-> steps[i].block,
                          token |-> "current"]]
             m     == [n EXCEPT !.net = older]
             u     == SendUpdates(n, from, "current")
             q     == older \o msgs
  <1>1. n.tip \in Block /\ net \in Seq(Message) /\ n.open \in BOOLEAN
    BY DEF NodeIn, Node
  <1>2. steps \in Seq([kind : Kind, block : Block])
    BY <1>1, StepsAssumption
  <1>3. /\ u.node = Publish(m, msgs)
        /\ u.toblock = IF steps = <<>> THEN from ELSE StepTo(steps[Len(steps)])
    BY DEF SendUpdates
  <1> HIDE DEF steps, net
  <1>4. /\ older \in Seq(Message) /\ Len(older) = Len(net) /\ Len(net) \in Nat
        /\ \A i \in 1 .. Len(net) : older[i].token # "current"
    <2>1. DOMAIN net = 1 .. Len(net) /\ Len(net) \in Nat
      BY <1>1
    <2>2. ASSUME NEW i \in 1 .. Len(net)
          PROVE  older[i] \in Message /\ older[i].token # "current"
      <3> DEFINE x == net[i]
      <3>1. x \in Message
        BY <1>1, ElementOfSeq
      <3>2. older[i] = IF x.token = "current" THEN [x EXCEPT !.token = "old"] ELSE x
        BY <2>1
      <3> HIDE DEF x, older
      <3> QED  BY <3>1, <3>2 DEF Message
    <2>3. older = [i \in 1 .. Len(net) |-> older[i]]
      BY <2>1
    <2> HIDE DEF older
    <2>4. older \in [1 .. Len(net) -> Message]
      BY <2>2, <2>3
    <2> QED  BY <2>1, <2>2, <2>4, FunctionIsSequence
  <1>5. /\ msgs \in Seq(Message) /\ Len(msgs) = Len(steps) /\ Len(steps) \in Nat
        /\ \A i \in 1 .. Len(steps) : msgs[i].token = "current" /\ StepTo(msgs[i]) = StepTo(steps[i])
    <2>1. DOMAIN steps = 1 .. Len(steps) /\ Len(steps) \in Nat
      BY <1>2
    <2>2. ASSUME NEW i \in 1 .. Len(steps)
          PROVE  /\ msgs[i] \in Message /\ msgs[i].token = "current"
                 /\ StepTo(msgs[i]) = StepTo(steps[i])
      <3> DEFINE x == steps[i]
      <3>1. x \in [kind : Kind, block : Block]
        BY <1>2, ElementOfSeq
      <3>2. msgs[i] = [kind |-> x.kind, block |-> x.block, token |-> "current"]
        BY <2>1
      <3> HIDE DEF msgs
      <3>3. msgs[i] \in Message /\ msgs[i].kind = x.kind /\ msgs[i].block = x.block
            /\ msgs[i].token = "current"
        <4> HIDE DEF x
        <4> QED  BY <3>1, <3>2 DEF Message
      <3> QED  BY <3>3 DEF StepTo
    <2>3. msgs = [i \in 1 .. Len(steps) |-> msgs[i]]
      BY <2>1
    <2> HIDE DEF msgs
    <2>4. msgs \in [1 .. Len(steps) -> Message]
      BY <2>2, <2>3
    <2> QED  BY <2>1, <2>2, <2>4, FunctionIsSequence
  <1> HIDE DEF older, msgs
  <1>6. m.open = n.open /\ m.net = older
    BY DEF NodeIn, Node
  <1>7. /\ u.node.open = n.open
        /\ n.open => u.node.net = q
    <2>1. Publish(m, msgs) = IF m.open THEN [m EXCEPT !.net = q] ELSE m
      BY <1>6 DEF Publish
    <2>2. m = [tip |-> m.tip, net |-> m.net, open |-> m.open]
      BY DEF NodeIn, Node
    <2> HIDE DEF m, q, u
    <2> QED  BY <1>3, <1>6, <2>1, <2>2
  <1>8. /\ Len(q) = Len(net) + Len(steps) /\ DOMAIN q = 1 .. Len(q)
        /\ \A i \in 1 .. Len(net) + Len(steps) :
             q[i] = IF i <= Len(net) THEN older[i] ELSE msgs[i - Len(net)]
    <2>1. /\ q \in Seq(Message) /\ Len(q) = Len(older) + Len(msgs)
          /\ \A i \in 1 .. Len(older) + Len(msgs) :
               q[i] = IF i <= Len(older) THEN older[i] ELSE msgs[i - Len(older)]
      BY <1>4, <1>5, MessagesJoined, Zenon
    <2> HIDE DEF q
    <2>2. DOMAIN q = 1 .. Len(q)
      BY <2>1
    <2> QED  BY <1>4, <1>5, <2>1, <2>2
  <1> HIDE DEF q, m, u
  <1>9. CASE steps = <<>>
    <2>1. Len(steps) = 0
      BY <1>9, EmptySeq
    <2>2. \A i \in DOMAIN q : i \in 1 .. Len(net) /\ q[i] = older[i]
      BY <1>4, <1>8, <2>1
    <2>3. n.open => NoneCurrent(u.node)
      BY <1>4, <1>7, <2>2 DEF NoneCurrent
    <2> QED  BY <1>3, <1>7, <1>9, <2>3 DEF u
  <1>10. CASE steps # <<>>
    <2> DEFINE k == Len(steps)  i == Len(net) + k
    <2>1. k \in 1 .. k
      BY <1>2, <1>10, EmptySeq, LenProperties
    <2>2. i \in 1 .. (Len(net) + k) /\ ~(i <= Len(net)) /\ i - Len(net) = k
      BY <1>4, <1>5, <2>1
    <2>3. i \in DOMAIN q /\ q[i] = msgs[k]
      BY <1>8, <2>2
    <2>4. msgs[k].token = "current" /\ StepTo(msgs[k]) = u.toblock
      BY <1>3, <1>5, <1>10, <2>1
    <2> HIDE DEF i
    <2>5. n.open => Coming(u.node, u.toblock)
      BY <1>7, <2>3, <2>4 DEF Coming
    <2> QED  BY <1>7, <2>5 DEF u
  <1> QED
    BY <1>9, <1>10

----------------------------------------------------------------------------
(* A request for updates, through the handlers.                            *)

\* An outcome that goes on with the connection of the node n, and in which a
\* request that is under way will be completed.
Underway(o, n) ==
    /\ o.node.open = n.open
    /\ n.open => OnItsWay(o.game, o.node)

LEMMA OtherStateUnderway ==
    ASSUME NEW g, g.state # "CATCHING_UP", NEW n, NEW res
    PROVE  Underway(Outcome(g, n, res), n)
  BY DEF Underway, Outcome, OnItsWay

LEMMA SetBatchKeepsWork ==
    ASSUME NEW d \in Db, NEW n
    PROVE  SetBatchSize(d, n, FALSE).work = d.work
  <1> DEFINE e == [d EXCEPT !.batchSize = n]
             c == StorageCommit(e, FALSE)
             k == Flush(e, FALSE)
  <1>1. e.work = d.work /\ [e EXCEPT !.ok = FALSE].work = d.work
        /\ [d EXCEPT !.ok = FALSE].work = d.work
    BY DEF Db
  <1>2. c \in {[e EXCEPT !.open = FALSE, !.disk = e.work], [e EXCEPT !.ok = FALSE]}
    BY DEF StorageCommit, Checked
  <1>3. c.work = d.work /\ [c EXCEPT !.batched = 0].work = c.work
    BY <1>2 DEF Db
  <1>4. k \in {e, [c EXCEPT !.batched = 0], [e EXCEPT !.ok = FALSE]}
    BY DEF Flush, Checked
  <1>5. k.work = d.work
    BY <1>1, <1>3, <1>4
  <1>6. SetBatchSize(d, n, FALSE) \in {k, e, [d EXCEPT !.ok = FALSE]}
    BY DEF SetBatchSize, Checked
  <1> HIDE DEF k, e
  <1> QED
    BY <1>1, <1>5, <1>6

LEMMA SyncFromCurrentStateUnderway ==
    ASSUME NEW g \in GameIn, g.state # "CATCHING_UP", NEW n2 \in NodeIn, NEW best, NEW f,
           g.db.work.hash # NoBlock
    PROVE  Underway(SyncFromCurrentState(g, best, n2, f), n2)
  <1> DEFINE cur     == g.db.work.hash
             flushed == SetBatchSize(g.db, 1, At(f, "flush") # "none")
             upd     == SendUpdates(n2, cur, "current")
             batch   == SetBatchSize(g.db, BatchSize, FALSE)
             g1      == [g EXCEPT !.state = "AT_TARGET"]
             g2      == [g EXCEPT !.state = "UP_TO_DATE", !.db = flushed]
             g3      == [g EXCEPT !.state = "CATCHING_UP", !.goal = upd.toblock,
                                  !.db = batch]
  <1>1. cur \in Block /\ g.db \in Db
    BY DEF GameIn, Game, IdleIn, DbIn, Consistent, Contents
  <1>2. batch.work = g.db.work
    BY <1>1, SetBatchKeepsWork
  <1>3. /\ upd.node.open = n2.open
        /\ n2.open => \/ Coming(upd.node, upd.toblock)
                      \/ upd.toblock = cur /\ NoneCurrent(upd.node)
    BY <1>1, SendUpdatesComing
  <1>4. SyncFromCurrentState(g, best, n2, f) \in
          {Outcome(g1, n2, "ok"),
           Outcome(g2, n2, IF flushed.commitFailed THEN "throw" ELSE "ok"),
           Outcome(g, n2, "throw"),
           Outcome(g3, upd.node, "ok")}
    BY DEF SyncFromCurrentState
  <1>5. g1.state # "CATCHING_UP"
    BY DEF GameIn, Game
  <1> HIDE DEF flushed, batch, upd
  <1>6. g2.state # "CATCHING_UP"
    BY DEF GameIn, Game
  <1>7. g3.goal = upd.toblock /\ g3.db = batch
    BY DEF GameIn, Game
  <1> HIDE DEF g1, g2, g3
  <1>8. n2.open => OnItsWay(g3, upd.node)
    BY <1>2, <1>3, <1>7 DEF OnItsWay
  <1>9. Underway(Outcome(g3, upd.node, "ok"), n2)
    BY <1>3, <1>8 DEF Underway, Outcome
  <1> QED
    BY <1>4, <1>5, <1>6, <1>9, OtherStateUnderway

LEMMA ReinitialiseStateUnderway ==
    ASSUME NEW g0 \in GameIn, NEW n, NEW n2 \in NodeIn, NEW f
    PROVE  Underway(ReinitialiseState(g0, n, n2, f), n2)
  <1> DEFINE g       == [g0 EXCEPT !.state = "UNKNOWN"]
             g1      == [g EXCEPT !.state = "OUT_OF_SYNC"]
             g2      == [g EXCEPT !.state = "PREGENESIS"]
             genesis == StoreGenesis(g, n2, f)
  <1>1. g \in GameIn /\ g.state = "UNKNOWN"
    BY SetState DEF SyncState
  <1> HIDE DEF g
  <1>2. g1 \in GameIn /\ g1.db = g.db /\ g1.state # "CATCHING_UP" /\ g2.state # "CATCHING_UP"
    BY <1>1 DEF SyncState, GameIn, Game
  <1>3. /\ Underway(Outcome(g, n2, "throw"), n2)
        /\ Underway(Outcome(g2, n2, "ok"), n2)
    BY <1>1, <1>2, OtherStateUnderway
  <1>4. /\ genesis.game \in GameIn
        /\ genesis.res = "ok" /\ genesis.game.db.ok => genesis.game.db.work.hash # NoBlock
    BY <1>1, StoreGenesisIn DEF OutcomeIn
  <1>5. genesis.node = n2 /\ genesis.game.state # "CATCHING_UP"
    <2>1. ASSUME NEW d
          PROVE  /\ [g EXCEPT !.db = d].state # "CATCHING_UP"
                 /\ [g EXCEPT !.state = "OUT_OF_SYNC", !.db = d].state # "CATCHING_UP"
      BY <1>1 DEF GameIn, Game
    <2>2. \E d : genesis \in {Outcome([g EXCEPT !.db = d], n2, "throw"),
                              Outcome([g EXCEPT !.state = "OUT_OF_SYNC", !.db = d], n2, "ok")}
      BY DEF StoreGenesis
    <2>3. PICK d : genesis \in {Outcome([g EXCEPT !.db = d], n2, "throw"),
                               Outcome([g EXCEPT !.state = "OUT_OF_SYNC", !.db = d], n2, "ok")}
      BY <2>2
    <2> DEFINE x == [g EXCEPT !.db = d]  y == [g EXCEPT !.state = "OUT_OF_SYNC", !.db = d]
    <2>4. x.state # "CATCHING_UP" /\ y.state # "CATCHING_UP"
      BY <2>1
    <2> HIDE DEF genesis, x, y
    <2>5. genesis = Outcome(x, n2, "throw") \/ genesis = Outcome(y, n2, "ok")
      BY <2>3 DEF x, y
    <2> QED  BY <2>4, <2>5 DEF Outcome
  <1>6. ReinitialiseState(g0, n, n2, f) =
          IF ~g.db.ok \/ At(f, "info") # "none" THEN Outcome(g, n2, "throw")
          ELSE IF g.db.work.hash # NoBlock
          THEN SyncFromCurrentState(g1, n.tip, n2, f)
          ELSE IF Height[n.tip] < GenesisHeight THEN Outcome(g2, n2, "ok")
          ELSE SyncFromGenesis(genesis, n.tip, n2, f)
    BY DEF ReinitialiseState, g
  <1> HIDE DEF g1, g2, genesis
  <1>7. g.db.work.hash # NoBlock => Underway(SyncFromCurrentState(g1, n.tip, n2, f), n2)
    BY <1>2, SyncFromCurrentStateUnderway
  <1>8. Underway(SyncFromGenesis(genesis, n.tip, n2, f), n2)
    <2>1. CASE genesis.res # "ok" \/ ~genesis.game.db.ok
      BY <1>5, <2>1 DEF SyncFromGenesis, Underway, OnItsWay
    <2>2. CASE ~(genesis.res # "ok" \/ ~genesis.game.db.ok)
      BY <1>4, <1>5, <2>2, SyncFromCurrentStateUnderway DEF SyncFromGenesis
    <2> QED  BY <2>1, <2>2
  <1> QED
    BY <1>3, <1>6, <1>7, <1>8

(***************************************************************************)
(* A notification that ends the request makes the handler reinitialise;    *)
(* one that does not leaves the last message where it is.                  *)
(***************************************************************************)
LEMMA HandleInSequenceUnderway ==
    ASSUME NEW g \in GameIn, NEW m \in Message, NEW n, NEW n2 \in NodeIn, NEW f
    PROVE  LET o == HandleInSequence(g, m, n, n2, f)
           IN  /\ o.node.open = n2.open
               /\ (g.state = "CATCHING_UP" => StepTo(m) = g.goal \/ Coming(n2, g.goal))
                    => o.res = "throw" \/ Underway(o, n2)
  <1> DEFINE upd    == HandleByState(g, m, f)
             done   == UpdateQueue(g, upd, m, f)
             failed == [g EXCEPT !.db = upd.db]
             s      == IF StepTo(m) = g.target THEN "AT_TARGET" ELSE g.state
             next   == [g EXCEPT !.db = done.db, !.queue = done.queue, !.state = s]
             again  == \/ done.res # "ok"
                       \/ g.state = "CATCHING_UP" /\ StepTo(m) = g.goal
             o      == HandleInSequence(g, m, n, n2, f)
  <1>1. o = IF upd.res = "throw" THEN Outcome(failed, n2, "throw")
            ELSE IF again THEN ReinitialiseState(next, n, n2, f)
            ELSE Outcome(next, n2, "ok")
    BY DEF HandleInSequence, FinishBlock
  <1>2. upd.db \in IdleIn
    BY HandleByStateIn
  <1> HIDE DEF upd
  <1>3. done.db \in IdleIn /\ done.queue \in Queue
    BY <1>2, UpdateQueueIn
  <1>4. s \in SyncState /\ s \in {"AT_TARGET", g.state}
    BY DEF GameIn, Game, SyncState
  <1> HIDE DEF done, s
  <1>5. next \in GameIn /\ next.state = s /\ next.goal = g.goal
    BY <1>3, <1>4 DEF GameIn, Game, IdleIn, DbIn
  <1> HIDE DEF next
  <1>6. Underway(ReinitialiseState(next, n, n2, f), n2)
    BY <1>5, ReinitialiseStateUnderway
  <1> DEFINE due == g.state = "CATCHING_UP" => StepTo(m) = g.goal \/ Coming(n2, g.goal)
  <1>7. ASSUME ~again, due PROVE OnItsWay(next, n2)
    BY <1>4, <1>5, <1>7 DEF OnItsWay
  <1>8. /\ Outcome(failed, n2, "throw").node.open = n2.open
        /\ Outcome(failed, n2, "throw").res = "throw"
    BY DEF Outcome
  <1>9. /\ Outcome(next, n2, "ok").node.open = n2.open
        /\ ~again /\ due => Underway(Outcome(next, n2, "ok"), n2)
    BY <1>7 DEF Underway, Outcome
  <1> HIDE DEF failed, again, o, due
  <1>10. o.node.open = n2.open /\ (due => o.res = "throw" \/ Underway(o, n2))
    BY <1>1, <1>6, <1>8, <1>9 DEF Underway
  <1> QED
    BY <1>10 DEF o, due

\* The request of g will be completed by the messages m and, after it, of n.
Due(g, m, n) ==
    g.state = "CATCHING_UP" =>
        \/ m.token = "current" /\ StepTo(m) = g.goal
        \/ Coming(n, g.goal)
        \/ g.db.work.hash = g.goal /\ m.token # "current" /\ NoneCurrent(n)

LEMMA HandleBlockUnderway ==
    ASSUME NEW g \in GameIn, NEW m \in Message, NEW gap \in BOOLEAN, NEW n, NEW n2 \in NodeIn,
           NEW f
    PROVE  LET r == HandleBlock(g, m, gap, n, n2, f)
           IN  r.node.open = n2.open /\ (gap \/ Due(g, m, n2) => r.res = "throw" \/ Underway(r, n2))
  <1> DEFINE again == ReinitialiseState(g, n, n2, f)
             r     == HandleBlock(g, m, gap, n, n2, f)
  <1>1. CASE g.state = "AT_TARGET"
    <2>1. r = Outcome(g, n2, "ok")
      BY <1>1 DEF HandleBlock
    <2> QED  BY <1>1, <2>1, OtherStateUnderway DEF Underway
  <1>2. CASE g.state # "AT_TARGET" /\ gap
    <2>1. r = ResetQueue(again)
      BY <1>2 DEF HandleBlock
    <2>2. Underway(again, n2) /\ IsOutcome(again) /\ again.game \in GameIn
      BY ReinitialiseStateUnderway, ReinitialiseStateShape, ReinitialiseStateIn DEF OutcomeIn
    <2> HIDE DEF again
    <2>3. CASE ~(Pruning /\ again.res = "ok")
      BY <2>1, <2>2, <2>3 DEF ResetQueue, Underway
    <2>4. CASE Pruning /\ again.res = "ok"
      <3> DEFINE h == again.game  k == [h EXCEPT !.queue = EmptyQueue]
      <3>1. ResetQueue(again).game = k /\ ResetQueue(again).node = again.node
            /\ ResetQueue(again).res = again.res
        BY <2>2, <2>4 DEF ResetQueue, IsOutcome
      <3>2. h \in GameIn
        BY <2>2
      <3> HIDE DEF h
      <3>3. k.db = h.db /\ k.state = h.state /\ k.goal = h.goal
        BY <3>2 DEF GameIn, Game
      <3> HIDE DEF k
      <3>4. n2.open => OnItsWay(k, again.node)
        BY <2>2, <2>4, <3>3 DEF Underway, OnItsWay, h
      <3> QED
        BY <2>1, <2>2, <3>1, <3>4 DEF Underway
    <2> QED  BY <2>3, <2>4
  <1>3. CASE g.state # "AT_TARGET" /\ ~gap /\ ~IsReqtokenRelevant(g, m)
    <2>1. r = Outcome(g, n2, "ok")
      BY <1>3 DEF HandleBlock
    <2>2. Due(g, m, n2) => OnItsWay(g, n2)
      BY <1>3 DEF OnItsWay, Due, IsReqtokenRelevant
    <2> QED  BY <1>3, <2>1, <2>2 DEF Underway, Outcome
  <1>4. CASE g.state # "AT_TARGET" /\ ~gap /\ IsReqtokenRelevant(g, m)
    <2>1. r = HandleInSequence(g, m, n, n2, f)
      BY <1>4 DEF HandleBlock
    <2>2. Due(g, m, n2) =>
            (g.state = "CATCHING_UP" => StepTo(m) = g.goal \/ Coming(n2, g.goal))
      BY <1>4 DEF Due, IsReqtokenRelevant
    <2> QED  BY <1>4, <2>1, <2>2, HandleInSequenceUnderway
  <1> QED
    BY <1>1, <1>2, <1>3, <1>4
----------------------------------------------------------------------------
(* The steps of the system keep a request under way.                       *)

\* A process that ends has no worker.
LEMMA ProcessEndsCatchUp ==
    ASSUME NEW how, NEW c, NEW n, ProcessEnds(how, c, n)
    PROVE  CatchUpInv'
  BY DEF ProcessEnds, CatchUpInv

LEMMA DeliverCatchUp == Sound /\ CatchUpInv /\ Deliver => CatchUpInv'
  <1> SUFFICES ASSUME Sound, CatchUpInv, Deliver PROVE CatchUpInv'
    OBVIOUS
  <1> DEFINE net == node.net
             m   == Head(net)
             t   == Tail(net)
             n   == [node EXCEPT !.net = t]
             gap == seq[m.kind] # "ok"
  <1>0. PICK f \in Faults, n2 \in Meanwhile(n) :
          \E r \in {HandleBlock(game, m, gap, n, n2, f)} :
            IF r.game.db.ok
            THEN LET last == r.res = "throw" \/ worker = "stopping"
                 IN  /\ game' = r.game
                     /\ node' = IF last THEN Deaf(r.node) ELSE r.node
                     /\ worker' = IF last THEN "ending" ELSE "running"
                     /\ seq' = [seq EXCEPT ![m.kind] = "ok"]
            ELSE ProcessEnds("aborted", r.game.db.disk, r.node)
    BY DEF Deliver
  <1> DEFINE r    == HandleBlock(game, m, gap, n, n2, f)
             last == r.res = "throw" \/ worker = "stopping"
  <1>1. IF r.game.db.ok
        THEN /\ game' = r.game
             /\ node' = IF last THEN Deaf(r.node) ELSE r.node
             /\ worker' = IF last THEN "ending" ELSE "running"
             /\ seq' = [seq EXCEPT ![m.kind] = "ok"]
        ELSE ProcessEnds("aborted", r.game.db.disk, r.node)
    BY <1>0
  <1>2. /\ net \in Seq(Message) /\ net # <<>> /\ worker \in {"running", "stopping"}
        /\ m \in Message /\ t \in Seq(Message) /\ Len(t) = Len(net) - 1
        /\ \A i \in 1 .. Len(t) : t[i] = net[i + 1]
    BY HeadTailProperties DEF Deliver, CanDeliver, Sound, NodeIn, Node
  <1>3. /\ Len(net) \in Nat /\ Len(t) \in Nat /\ DOMAIN net = 1 .. Len(net)
        /\ DOMAIN t = 1 .. Len(t) /\ m = net[1] /\ 1 \in DOMAIN net
    <2>1. Len(net) \in Nat /\ Len(t) \in Nat /\ DOMAIN net = 1 .. Len(net) /\ DOMAIN t = 1 .. Len(t)
      BY <1>2, LenProperties
    <2>2. m = net[1]
      BY <1>2
    <2> QED  BY <1>2, <2>1, <2>2
  <1> HIDE DEF t, m, net
  <1>4. n \in NodeIn /\ n.net = t /\ n.open = node.open
    BY <1>2 DEF Sound, NodeIn, Node
  <1> HIDE DEF n
  <1>5. n2 \in NodeIn /\ Continues(n, n2)
    BY <1>0, <1>4, MeanwhileIn, MeanwhileContinues DEF Meanwhile
  <1>6. \A i \in DOMAIN net : i = 1 \/ (i - 1 \in DOMAIN t /\ t[i - 1] = net[i])
    BY <1>2, <1>3
  <1>7. \A i \in DOMAIN t : i + 1 \in DOMAIN net /\ t[i] = net[i + 1]
    BY <1>2, <1>3
  <1>8. ASSUME NEW goal, Coming(node, goal)
        PROVE  (m.token = "current" /\ StepTo(m) = goal) \/ Coming(n2, goal)
    <2>1. PICK i \in DOMAIN net : net[i].token = "current" /\ StepTo(net[i]) = goal
      BY <1>8 DEF Coming, net
    <2>2. CASE i = 1
      BY <1>3, <2>1, <2>2
    <2>3. CASE i - 1 \in DOMAIN t /\ t[i - 1] = net[i]
      <3>1. Coming(n, goal)
        BY <1>4, <2>1, <2>3 DEF Coming
      <3> QED  BY <1>5, <3>1 DEF Continues
    <2> QED  BY <1>6, <2>2, <2>3
  <1>9. NoneCurrent(node) => m.token # "current" /\ NoneCurrent(n2)
    BY <1>3, <1>4, <1>5, <1>7 DEF NoneCurrent, Continues, net
  <1>10. SUFFICES ASSUME r.game.db.ok, ~last
                  PROVE  CatchUpInv'
    <2>1. CASE ~r.game.db.ok
      BY <1>1, <2>1, ProcessEndsCatchUp
    <2>2. CASE r.game.db.ok /\ last
      BY <1>1, <2>2 DEF CatchUpInv
    <2> QED  BY <1>10, <2>1, <2>2
  <1>11. /\ game' = r.game /\ node' = r.node /\ seq' = [seq EXCEPT ![m.kind] = "ok"]
         /\ r.res # "throw" /\ worker = "running"
    BY <1>1, <1>2, <1>10
  <1>12. n2.open
    BY <1>4, <1>5, <1>11 DEF CatchUpInv, Continues
  <1>13. ASSUME \A k \in Kind : seq'[k] # "gap", ~gap
         PROVE  Due(game, m, n2)
    <2>1. \A k \in Kind : seq[k] # "gap"
      BY <1>2, <1>11, <1>13 DEF Sound, RestOK, gap
    <2>2. OnItsWay(game, node)
      BY <1>11, <2>1 DEF CatchUpInv
    <2> QED
      BY <1>8, <1>9, <2>2 DEF OnItsWay, Due
  <1>14. gap \in BOOLEAN
    OBVIOUS
  <1> HIDE DEF gap
  <1>15. /\ r.node.open = n2.open
         /\ gap \/ Due(game, m, n2) => r.res = "throw" \/ Underway(r, n2)
    BY <1>2, <1>5, <1>14, HandleBlockUnderway DEF Sound
  <1> HIDE DEF r
  <1> QED
    BY <1>11, <1>12, <1>13, <1>15 DEF CatchUpInv, Underway

LEMMA ConnectReinitCatchUp == Sound /\ CatchUpInv /\ ConnectReinit => CatchUpInv'
  <1> SUFFICES ASSUME Sound, CatchUpInv, ConnectReinit PROVE CatchUpInv'
    OBVIOUS
  <1>0. PICK f \in Faults, n2 \in Meanwhile(node) :
          \E r \in {ReinitialiseState(game, node, n2, f)} :
            \/ /\ game' = r.game /\ node' = r.node /\ seq' = seq
               /\ worker' = IF r.res = "ok" THEN worker ELSE RequestStop(worker)
            \/ ProcessEnds("aborted", r.game.db.disk, r.node)
    BY DEF ConnectReinit
  <1> DEFINE r == ReinitialiseState(game, node, n2, f)
  <1>1. \/ /\ game' = r.game /\ node' = r.node /\ seq' = seq
           /\ worker' = IF r.res = "ok" THEN worker ELSE RequestStop(worker)
        \/ ProcessEnds("aborted", r.game.db.disk, r.node)
    BY <1>0
  <1>2. n2 \in NodeIn /\ Continues(node, n2)
    BY <1>0, MeanwhileIn, MeanwhileContinues DEF Sound, Meanwhile
  <1>3. Underway(r, n2)
    BY <1>2, ReinitialiseStateUnderway DEF Sound
  <1> HIDE DEF r
  <1>4. CASE ProcessEnds("aborted", r.game.db.disk, r.node)
    BY <1>4, ProcessEndsCatchUp
  <1>5. CASE /\ game' = r.game /\ node' = r.node /\ seq' = seq
             /\ worker' = IF r.res = "ok" THEN worker ELSE RequestStop(worker)
    <2>1. worker' = "running" => worker = "running" /\ r.res = "ok"
      BY <1>5 DEF RequestStop
    <2> QED
      BY <1>2, <1>3, <1>5, <2>1 DEF CatchUpInv, Continues, Underway
  <1> QED
    BY <1>1, <1>4, <1>5

LEMMA SetTargetBlockCatchUp == Sound /\ CatchUpInv /\ SetTargetBlock => CatchUpInv'
  <1> SUFFICES ASSUME Sound, CatchUpInv, SetTargetBlock PROVE CatchUpInv'
    OBVIOUS
  <1>0. PICK b \in (Target \cup {NoBlock}) \ {game.target},
             f \in Faults, n2 \in Meanwhile(node) :
          \E r \in {LET g == [game EXCEPT !.target = b]
                    IN  IF game.state = "DISCONNECTED" THEN Outcome(g, n2, "ok")
                        ELSE ReinitialiseState(g, node, n2, f)} :
            IF r.game.db.ok
            THEN game' = r.game /\ node' = r.node /\ UNCHANGED <<worker, seq>>
            ELSE ProcessEnds("aborted", r.game.db.disk, r.node)
    BY DEF SetTargetBlock
  <1> DEFINE g == [game EXCEPT !.target = b]
             r == IF game.state = "DISCONNECTED" THEN Outcome(g, n2, "ok")
                  ELSE ReinitialiseState(g, node, n2, f)
  <1>1. IF r.game.db.ok
        THEN game' = r.game /\ node' = r.node /\ UNCHANGED <<worker, seq>>
        ELSE ProcessEnds("aborted", r.game.db.disk, r.node)
    BY <1>0
  <1>2. n2 \in NodeIn /\ Continues(node, n2)
    BY <1>0, MeanwhileIn, MeanwhileContinues DEF Sound, Meanwhile
  <1>3. g \in GameIn /\ g.state = game.state
    BY GameAssumption DEF Sound, GameIn, Game
  <1> HIDE DEF g
  <1>4. Underway(ReinitialiseState(g, node, n2, f), n2)
    BY <1>2, <1>3, ReinitialiseStateUnderway
  <1>5. game.state = "DISCONNECTED" => Underway(Outcome(g, n2, "ok"), n2)
    BY <1>3, OtherStateUnderway
  <1>6. Underway(r, n2)
    BY <1>4, <1>5
  <1> HIDE DEF r
  <1>8. CASE r.game.db.ok
    BY <1>1, <1>2, <1>6, <1>8 DEF CatchUpInv, Continues, Underway
  <1>9. CASE ~r.game.db.ok
    BY <1>1, <1>9, ProcessEndsCatchUp
  <1> QED
    BY <1>8, <1>9
LEMMA PingContinues ==
    ASSUME NEW n \in NodeIn
    PROVE  Continues(n, SendUpdates(n, Parent[n.tip], "old").node)
  <1> DEFINE from == Parent[n.tip]
             steps == Steps(from, n.tip)
             net == n.net
             older == [i \in DOMAIN net |->
                         IF "old" = "current" /\ net[i].token = "current"
                         THEN [net[i] EXCEPT !.token = "old"] ELSE net[i]]
             msgs == [i \in DOMAIN steps |->
                        [kind |-> steps[i].kind, block |-> steps[i].block, token |-> "old"]]
             m == [n EXCEPT !.net = older]
             u == SendUpdates(n, from, "old").node
             q == net \o msgs
  <1>1. n.tip \in Block /\ from \in Block /\ net \in Seq(Message)
    BY ChainAssumption DEF NodeIn, Node
  <1>2. steps \in Seq([kind : Kind, block : Block])
    BY <1>1, StepsAssumption
  <1>3. u = Publish(m, msgs)
    BY DEF SendUpdates
  <1> HIDE DEF steps
  <1>4. older = net
    <2>1. older = [i \in DOMAIN net |-> net[i]]
      OBVIOUS
    <2> HIDE DEF net, older
    <2>2. net = [i \in DOMAIN net |-> net[i]]
      BY <1>1
    <2> QED  BY <2>1, <2>2
  <1> HIDE DEF older
  <1>5. m = n
    BY <1>4 DEF NodeIn, Node
  <1>6. /\ msgs \in Seq(Message) /\ Len(msgs) = Len(steps) /\ Len(steps) \in Nat
        /\ \A i \in 1 .. Len(msgs) : msgs[i].token # "current"
    <2>1. DOMAIN steps = 1 .. Len(steps) /\ Len(steps) \in Nat
      BY <1>2
    <2>2. ASSUME NEW i \in 1 .. Len(steps)
          PROVE  msgs[i] \in Message /\ msgs[i].token # "current"
      <3> DEFINE x == steps[i]
      <3>1. x \in [kind : Kind, block : Block]
        BY <1>2, ElementOfSeq
      <3>2. msgs[i] = [kind |-> x.kind, block |-> x.block, token |-> "old"]
        BY <2>1
      <3> HIDE DEF msgs, x
      <3> QED  BY <3>1, <3>2 DEF Message
    <2>3. msgs = [i \in 1 .. Len(steps) |-> msgs[i]]
      BY <2>1
    <2> HIDE DEF msgs
    <2>4. msgs \in [1 .. Len(steps) -> Message]
      BY <2>2, <2>3
    <2>5. msgs \in Seq(Message) /\ Len(msgs) = Len(steps)
      BY <2>1, <2>4, FunctionIsSequence
    <2> QED  BY <2>1, <2>2, <2>5
  <1> HIDE DEF msgs, m, net
  <1>7. /\ q \in Seq(Message) /\ Len(q) = Len(net) + Len(msgs)
        /\ \A i \in 1 .. Len(net) + Len(msgs) :
             q[i] = IF i <= Len(net) THEN net[i] ELSE msgs[i - Len(net)]
    BY <1>1, <1>6, MessagesJoined, Zenon
  <1> HIDE DEF q
  <1>8. /\ DOMAIN q = 1 .. Len(q) /\ DOMAIN net = 1 .. Len(net)
        /\ Len(net) \in Nat /\ Len(msgs) \in Nat
    BY <1>1, <1>6, <1>7, LenProperties
  <1>9. \A i \in DOMAIN net : i \in DOMAIN q /\ q[i] = net[i]
    BY <1>7, <1>8
  <1>10. ASSUME NEW i \in DOMAIN q, i \notin DOMAIN net
         PROVE  q[i].token # "current"
    <2>1. i - Len(net) \in 1 .. Len(msgs) /\ ~(i <= Len(net)) /\ i \in 1 .. Len(net) + Len(msgs)
      BY <1>7, <1>8, <1>10
    <2> QED  BY <1>6, <1>7, <2>1
  <1>11. u = IF n.open THEN [n EXCEPT !.net = q] ELSE n
    BY <1>3, <1>5 DEF Publish, q, net
  <1>12. u.open = n.open /\ u.net \in {net, q}
    <2> HIDE DEF u
    <2> QED  BY <1>11 DEF NodeIn, Node, net
  <1> HIDE DEF u
  <1>13. \A goal : Coming(n, goal) => Coming(u, goal)
    BY <1>9, <1>12 DEF Coming, net
  <1>14. NoneCurrent(n) => NoneCurrent(u)
    BY <1>9, <1>10, <1>12 DEF NoneCurrent, net
  <1>15. Continues(n, u)
    BY <1>12, <1>13, <1>14 DEF Continues
  <1> QED
    BY <1>15 DEF u, from

\* A step of which the handlers know nothing.
LEMMA ContinuesCatchUp ==
    ASSUME CatchUpInv, Continues(node, node'), worker' = "running" => worker = "running",
           seq' = seq, game'.state = game.state, game'.goal = game.goal,
           game'.db.work = game.db.work
    PROVE  CatchUpInv'
  <1>1. Coming(node, game.goal) => Coming(node', game'.goal)
    BY DEF Continues
  <1>2. NoneCurrent(node) => NoneCurrent(node')
    BY DEF Continues
  <1>3. OnItsWay(game, node) => OnItsWay(game', node')
    BY <1>1, <1>2 DEF OnItsWay
  <1> QED
    BY <1>3 DEF CatchUpInv, Continues

LEMMA NextCatchUp == Sound /\ CatchUpInv /\ [Next]_vars => CatchUpInv'
  <1> SUFFICES ASSUME Sound, CatchUpInv, [Next]_vars PROVE CatchUpInv'
    OBVIOUS
  <1>0. Continues(node, node)
    BY DEF Continues
  <1>1. CASE Deliver
    BY <1>1, DeliverCatchUp
  <1>2. CASE ConnectReinit
    BY <1>2, ConnectReinitCatchUp
  <1>3. CASE SetTargetBlock
    BY <1>3, SetTargetBlockCatchUp
  <1>4. CASE Shutdown \/ Crash
    BY <1>4, ProcessEndsCatchUp DEF Shutdown, Crash
  <1>5. CASE WorkerStops \/ HasStopped
    BY <1>5 DEF WorkerStops, HasStopped, CatchUpInv
  <1>6. CASE NodeMove
    <2>1. Continues(node, node')
      BY <1>6, MeanwhileContinues DEF NodeMove, Sound
    <2> QED
      BY <1>6, <2>1, ContinuesCatchUp DEF NodeMove
  <1>7. CASE LoseMessage
    <2> DEFINE k == Head(node.net).kind
    <2>1. Head(node.net) \in Message
      BY <1>7, HeadTailProperties DEF LoseMessage, Sound, NodeIn, Node
    <2>2. k \in Kind
      BY <2>1 DEF Message
    <2> HIDE DEF k
    <2>3. seq' = [seq EXCEPT ![k] = "gap"] /\ worker' = worker
      BY <1>7 DEF LoseMessage, k
    <2>4. seq'[k] = "gap"
      BY <2>2, <2>3 DEF Sound, RestOK
    <2>5. node'.open = node.open
      BY <1>7 DEF LoseMessage, Sound, NodeIn, Node
    <2> QED
      BY <2>2, <2>3, <2>4, <2>5 DEF CatchUpInv
  <1>8. CASE ConnectStart
    <2>1. node'.open
      BY <1>8 DEF ConnectStart, Sound, NodeIn, Node
    <2> QED
      BY <1>8, <2>1 DEF ConnectStart, CatchUpInv, OnItsWay
  <1>9. CASE Ping
    <2>1. Continues(node, node')
      BY <1>9, PingContinues DEF Ping, Sound
    <2> QED
      BY <1>9, <2>1, ContinuesCatchUp DEF Ping
  <1>10. CASE ProbeFails
    BY <1>10 DEF ProbeFails, RequestStop, CatchUpInv
  <1>11. CASE GetCustomStateData
    <2> DEFINE d == CacheHeight(game.db)
    <2>1. d.work = game.db.work
      BY DEF CacheHeight, Sound, GameIn, Game, Db
    <2> HIDE DEF d
    <2>2. game' = [game EXCEPT !.db = d] /\ UNCHANGED <<node, worker, seq>>
      BY <1>11 DEF GetCustomStateData, d
    <2>3. game'.state = game.state /\ game'.goal = game.goal /\ game'.db = d
      BY <2>2 DEF Sound, GameIn, Game
    <2> QED
      BY <1>0, <2>1, <2>2, <2>3, ContinuesCatchUp
  <1>12. CASE Restart
    BY <1>0, <1>12, ContinuesCatchUp DEF Restart
  <1>13. CASE UNCHANGED vars
    BY <1>0, <1>13, ContinuesCatchUp DEF vars
  <1> QED
    BY <1>1, <1>2, <1>3, <1>4, <1>5, <1>6, <1>7, <1>8, <1>9, <1>10, <1>11, <1>12, <1>13 DEF Next

\* While Game catches up over a running connection and no notification was
\* missed, the last message of the request for updates that it waits for is
\* still to come, through reorgs, pings, changes of the target and
\* reconnections: it cannot wait for a goal that nothing leads to.
THEOREM RequestsComplete == Spec => []CatchUpCompletes
  <1>1. Init => CatchUpInv
    BY DEF Init, CatchUpInv
  <1>2. Sound /\ CatchUpInv /\ [Next]_vars => CatchUpInv'
    BY NextCatchUp
  <1>3. CatchUpInv => CatchUpCompletes
    BY DEF CatchUpInv, CatchUpCompletes, OnItsWay, Coming
  <1> QED
    BY <1>1, <1>2, <1>3, SpecSettled, PTL DEF Spec
=============================================================================
