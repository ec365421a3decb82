---------------------------- MODULE SQLiteProofs ----------------------------
(***************************************************************************)
(* The SQLite storage under a game, for any block tree, game rules, sets   *)
(* of moves and number of readers: the tables are those of a replay of the *)
(* chain, no CHECK fails, and replies are of the block they name.          *)
(***************************************************************************)
EXTENDS SQLiteGsp, NumberProofs, TLAPS

----------------------------------------------------------------------------
(* The replay of a chain follows its recursive definition: the recursion   *)
(* has one solution up to each height, and these fit together.             *)

Below(n) == {b \in Block : Height[b] <= n}

Replayed(moves, f, b) ==
    IF b = FirstBlock \/ Parent[b] = NoBlock THEN EmptyRows
    ELSE UpdateState(f[Parent[b]], moves[b])

Solves(moves, f, n) == f = [b \in Below(n) |-> Replayed(moves, f, b)]

LEMMA ParentBelow ==
    ASSUME NEW b \in Block, Parent[b] # NoBlock
    PROVE  /\ Parent[b] \in Block /\ Height[b] \in Nat /\ Height[Parent[b]] \in Nat
           /\ Height[b] = Height[Parent[b]] + 1
  BY ChainAssumption

LEMMA SolutionValue ==
    ASSUME NEW moves, NEW f, NEW n, Solves(moves, f, n), NEW b \in Below(n)
    PROVE  f[b] = Replayed(moves, f, b)
  <1> DEFINE v(x) == Replayed(moves, f, x)
  <1>1. f = [x \in Below(n) |-> v(x)]
    BY DEF Solves
  <1> HIDE DEF v
  <1>2. f[b] = v(b)
    BY <1>1
  <1> QED
    BY <1>2 DEF v

LEMMA SolutionExists ==
    ASSUME NEW moves, NEW n \in Nat
    PROVE  \E f : Solves(moves, f, n)
  <1> DEFINE Bad == {k \in Nat : ~\E f : Solves(moves, f, k)}
  <1>1. SUFFICES ASSUME Bad # {} PROVE FALSE
    OBVIOUS
  <1>2. PICK k \in Bad : \A j \in Bad : k <= j
    <2>1. Bad \in SUBSET Nat
      OBVIOUS
    <2> HIDE DEF Bad
    <2> QED  BY <1>1, <2>1, LeastNumber
  <1>3. k \in Nat
    BY <1>2
  <1>4. \E f : k # 0 => Solves(moves, f, k - 1)
    <2>1. CASE k = 0
      BY <2>1
    <2>2. CASE k # 0
      <3>1. k - 1 \in Nat /\ ~(k <= k - 1)
        BY <1>3, <2>2
      <3>2. k - 1 \notin Bad
        BY <1>2, <3>1
      <3>3. \E f : Solves(moves, f, k - 1)
        BY <3>1, <3>2
      <3> QED  BY <3>3
    <2> QED  BY <2>1, <2>2
  <1>5. PICK f : k # 0 => Solves(moves, f, k - 1)
    BY <1>4
  <1> DEFINE v(x) == Replayed(moves, f, x)
             g == [x \in Below(k) |-> v(x)]
  <1>6. ASSUME NEW b \in Below(k)
        PROVE  Replayed(moves, f, b) = Replayed(moves, g, b)
    <2>1. CASE b = FirstBlock \/ Parent[b] = NoBlock
      BY <2>1 DEF Replayed
    <2>2. CASE b # FirstBlock /\ Parent[b] # NoBlock
      <3> DEFINE p == Parent[b]
      <3>1. p \in Block /\ Height[p] \in Nat /\ Height[b] = Height[p] + 1 /\ Height[b] <= k
        BY <2>2, ParentBelow DEF Below
      <3>2. k # 0 /\ Height[p] <= k - 1 /\ Height[p] <= k
        BY <1>3, <3>1
      <3>3. p \in Below(k - 1) /\ p \in Below(k)
        BY <3>1, <3>2 DEF Below
      <3>4. f[p] = v(p)
        BY <1>5, <3>2, <3>3, SolutionValue
      <3> HIDE DEF v
      <3>5. g[p] = v(p)
        BY <3>3
      <3>6. f[Parent[b]] = g[Parent[b]]
        BY <3>4, <3>5
      <3> HIDE DEF g
      <3> QED  BY <3>6 DEF Replayed
    <2> QED  BY <2>1, <2>2
  <1>7. Solves(moves, g, k)
    <2>1. g = [x \in Below(k) |-> v(x)]
      OBVIOUS
    <2> DEFINE w(x) == Replayed(moves, g, x)
    <2>2. \A x \in Below(k) : v(x) = w(x)
      BY <1>6
    <2> HIDE DEF g, v, w
    <2>3. g = [x \in Below(k) |-> w(x)]
      BY <2>1, <2>2
    <2> QED  BY <2>3 DEF Solves, w
  <1> HIDE DEF g
  <1> QED
    BY <1>2, <1>7

LEMMA SolutionUnique ==
    ASSUME NEW moves, NEW f, NEW g, NEW n, NEW k, Solves(moves, f, n), Solves(moves, g, k),
           n \in Nat, k \in Nat, NEW b \in Below(n), b \in Below(k)
    PROVE  f[b] = g[b]
  <1> DEFINE Bad == {x \in Below(n) : x \in Below(k) /\ f[x] # g[x]}
             T == {Height[x] : x \in Bad}
  <1>1. SUFFICES ASSUME Bad # {} PROVE FALSE
    OBVIOUS
  <1>2. T \in SUBSET Nat /\ T # {}
    BY <1>1, ChainAssumption DEF Below
  <1>3. PICK h \in T : \A j \in T : h <= j
    <2> HIDE DEF T
    <2> QED  BY <1>2, LeastNumber
  <1>4. PICK c \in Bad : Height[c] = h
    BY <1>3
  <1>5. c \in Block /\ c \in Below(n) /\ c \in Below(k) /\ f[c] # g[c] /\ Height[c] \in Nat
        /\ Height[c] <= n /\ Height[c] <= k
    BY <1>4, ChainAssumption DEF Below
  <1>6. f[c] = Replayed(moves, f, c) /\ g[c] = Replayed(moves, g, c)
    BY <1>5, SolutionValue
  <1>7. Parent[c] # NoBlock /\ f[Parent[c]] # g[Parent[c]]
    BY <1>5, <1>6 DEF Replayed
  <1> DEFINE p == Parent[c]
  <1>8. p \in Block /\ Height[p] \in Nat /\ Height[c] = Height[p] + 1
    BY <1>5, <1>7, ParentBelow
  <1>9. Height[p] <= n /\ Height[p] <= k /\ ~(h <= Height[p])
    BY <1>4, <1>5, <1>8
  <1>10. p \in Bad
    BY <1>7, <1>8, <1>9 DEF Below
  <1> HIDE DEF p, Bad
  <1>11. Height[p] \in T
    BY <1>10
  <1> QED
    BY <1>3, <1>9, <1>11

LEMMA ReplayEquation ==
    ASSUME NEW moves, NEW b \in Block
    PROVE  Replay(moves)[b] = Replayed(moves, Replay(moves), b)
  <1> DEFINE sol(n) == CHOOSE f : Solves(moves, f, n)
             v(x) == sol(Height[x])[x]
             F == [x \in Block |-> v(x)]
             w(x) == Replayed(moves, F, x)
  <1>1. ASSUME NEW x \in Block
        PROVE  /\ Solves(moves, sol(Height[x]), Height[x]) /\ x \in Below(Height[x])
               /\ Height[x] \in Nat
    <2>1. Height[x] \in Nat
      BY ChainAssumption
    <2>2. \E f : Solves(moves, f, Height[x])
      BY <2>1, SolutionExists
    <2> QED  BY <2>1, <2>2 DEF Below
  <1>2. ASSUME NEW x \in Block
        PROVE  v(x) = w(x)
    <2> DEFINE f == sol(Height[x])
    <2>1. Solves(moves, f, Height[x]) /\ x \in Below(Height[x]) /\ Height[x] \in Nat
      BY <1>1
    <2>2. v(x) = Replayed(moves, f, x)
      <3> HIDE DEF f
      <3>1. f[x] = Replayed(moves, f, x)
        BY <2>1, SolutionValue
      <3> QED  BY <3>1 DEF f
    <2>3. CASE x = FirstBlock \/ Parent[x] = NoBlock
      BY <2>2, <2>3 DEF Replayed
    <2>4. CASE x # FirstBlock /\ Parent[x] # NoBlock
      <3> DEFINE p == Parent[x]
                 g == sol(Height[p])
      <3>1. p \in Block /\ Height[p] \in Nat /\ Height[x] = Height[p] + 1
        BY <2>4, ParentBelow
      <3>2. Solves(moves, g, Height[p]) /\ p \in Below(Height[p])
        BY <1>1, <3>1
      <3>3. p \in Below(Height[x])
        <4>1. Height[p] <= Height[x]
          BY <3>1
        <4> QED  BY <3>1, <4>1 DEF Below
      <3>4. F[p] = v(p)
        <4> HIDE DEF v, p
        <4> QED  BY <3>1
      <3>5. v(p) = g[p]
        OBVIOUS
      <3>6. g[p] = f[p]
        <4> HIDE DEF f, g, p
        <4> QED  BY <2>1, <3>1, <3>2, <3>3, SolutionUnique
      <3>7. F[Parent[x]] = f[Parent[x]]
        BY <3>4, <3>5, <3>6
      <3> HIDE DEF F, f
      <3> QED  BY <2>2, <3>7 DEF Replayed
    <2> QED  BY <2>3, <2>4
  <1>3. F = [x \in Block |-> w(x)]
    <2>1. F = [x \in Block |-> v(x)]
      OBVIOUS
    <2> HIDE DEF F, v, w
    <2> QED  BY <1>2, <2>1
  <1> DEFINE R == Replay(moves)
             u(x) == Replayed(moves, R, x)
  <1>4. R = [x \in Block |-> u(x)]
    <2>1. F = [x \in Block |-> IF x = FirstBlock \/ Parent[x] = NoBlock THEN EmptyRows
                               ELSE UpdateState(F[Parent[x]], moves[x])]
      <3> HIDE DEF F
      <3> QED  BY <1>3 DEF Replayed
    <2> HIDE DEF F
    <2> QED  BY <2>1 DEF Replay, Replayed
  <1> HIDE DEF R, u
  <1>5. R[b] = u(b)
    BY <1>4
  <1> QED
    BY <1>5 DEF R, u

----------------------------------------------------------------------------
(* Rows and changesets.                                                    *)

IsRows(r) == r = [k \in GameRows |-> r[k]]

LEMMA UpdateStateRows ==
    ASSUME NEW rows, NEW moves
    PROVE  IsRows(UpdateState(rows, moves))
  <1> DEFINE new == [k \in GameRows |-> IF k = AutoIdRow THEN rows[k]
                                        ELSE ProcessAll([x \in NFRows |-> rows[x]], moves)[k]]
             n == IdsTaken(moves)
  <1>1. UpdateState(rows, moves) = SyncIds(new, n)
    BY DEF UpdateState
  <1>2. DOMAIN new = GameRows /\ IsRows(new)
    BY DEF IsRows
  <1> HIDE DEF new, n
  <1>3. IsRows(SyncIds(new, n))
    BY <1>2 DEF SyncIds, IsRows
  <1> QED
    BY <1>1, <1>3

LEMMA ReplayRows ==
    ASSUME NEW moves, NEW b \in Block
    PROVE  IsRows(Replay(moves)[b])
  <1>1. IsRows(EmptyRows)
    BY DEF EmptyRows, IsRows
  <1> QED
    BY <1>1, ReplayEquation, UpdateStateRows DEF Replayed

\* The inverse of a changeset leads back, and meets what it was recorded on.
LEMMA ChangesetInverts ==
    ASSUME NEW old, NEW new, IsRows(old), IsRows(new)
    PROVE  /\ Conflicts(new, ExtractChangeset(old, new)) = {}
           /\ ApplyInverted(new, ExtractChangeset(old, new)) = old
  <1> DEFINE changes == ExtractChangeset(old, new)
             v(k) == IF \E c \in changes : c.key = k
                     THEN (CHOOSE c \in changes : c.key = k).old ELSE new[k]
  <1>1. \A c \in changes : c.key \in GameRows /\ c.new = new[c.key] /\ c.old = old[c.key]
    BY DEF ExtractChangeset
  <1>2. Conflicts(new, changes) = {}
    <2> HIDE DEF changes
    <2> QED  BY <1>1 DEF Conflicts
  <1>3. ASSUME NEW k \in GameRows, old[k] # new[k]
        PROVE  \E c \in changes : c.key = k
    <2>1. [key |-> k, old |-> old[k], new |-> new[k]] \in changes
      BY <1>3 DEF ExtractChangeset
    <2> QED  BY <2>1
  <1> HIDE DEF changes
  <1>4. ASSUME NEW k \in GameRows
        PROVE  v(k) = old[k]
    <2>1. CASE \E c \in changes : c.key = k
      <3>1. (CHOOSE c \in changes : c.key = k) \in changes
            /\ (CHOOSE c \in changes : c.key = k).key = k
        BY <2>1
      <3> QED  BY <1>1, <2>1, <3>1
    <2>2. CASE ~\E c \in changes : c.key = k
      BY <1>3, <2>2
    <2> QED  BY <2>1, <2>2
  <1>5. ApplyInverted(new, changes) = [k \in GameRows |-> v(k)]
    BY DEF ApplyInverted
  <1> HIDE DEF v
  <1>6. ApplyInverted(new, changes) = old
    BY <1>4, <1>5 DEF IsRows
  <1> QED
    BY <1>2, <1>6 DEF changes

----------------------------------------------------------------------------
(* The contents of a database.                                             *)

\* A block that the game can be at: the first one or one above it.
AtOrAbove(b) == b \in Block /\ (b = FirstBlock \/ Height[b] > Height[FirstBlock])

Undo(moves, b) == ExtractChangeset(Replay(moves)[Parent[b]], Replay(moves)[b])
Hash(moves, b) == Compute(Replay(moves)[b])

Keyword == {Initial, NoKeyword} \cup {BlockKeyword(b) : b \in Block}

Contents(moves) ==
    [hash   : Block \cup {NoBlock},
     state  : Keyword,
     undo   : [Block -> {NoUndoRow} \cup {Undo(moves, b) : b \in Block}],
     inited : BOOLEAN,
     rows   : {EmptyRows} \cup {Replay(moves)[b] : b \in Block},
     hashes : [Block -> {NoUndoRow} \cup {Hash(moves, b) : b \in Block}]]

\* Undo data is the changeset from the parent, a hash that of the block.
TablesOK(moves, c) ==
    /\ \A b \in Block : c.undo[b] # NoUndoRow =>
          b # FirstBlock /\ AtOrAbove(Parent[b]) /\ c.undo[b] = Undo(moves, b)
    /\ \A b \in Block : c.hashes[b] \in {NoUndoRow, Hash(moves, b)}

\* The rows are those of the block that the database says it is at.
AtBlock(moves, c) ==
    IF c.hash = NoBlock THEN c.rows = EmptyRows
    ELSE /\ AtOrAbove(c.hash) /\ c.inited /\ c.rows = Replay(moves)[c.hash]
         /\ CheckCurrentState(c, c.state, FirstBlock)

Good(moves) == {c \in Contents(moves) : TablesOK(moves, c) /\ AtBlock(moves, c)}

\* The undo data, the rows, and the block with its keyword, when b is attached.
Attached(moves, c, b) ==
    [hash |-> b, state |-> BlockKeyword(b), undo |-> [c.undo EXCEPT ![b] = Undo(moves, b)],
     inited |-> c.inited, rows |-> Replay(moves)[b], hashes |-> c.hashes]

LEMMA AboveParent ==
    ASSUME NEW b \in Block, AtOrAbove(Parent[b])
    PROVE  /\ b # FirstBlock /\ AtOrAbove(b) /\ Parent[b] # NoBlock
           /\ \A moves : Replay(moves)[b] = UpdateState(Replay(moves)[Parent[b]], moves[b])
  <1>1. Parent[b] \in Block /\ Parent[b] # NoBlock /\ FirstBlock \in Block
    BY ChainAssumption, SqlAssumption DEF AtOrAbove
  <1>2. /\ Height[b] \in Nat /\ Height[Parent[b]] \in Nat /\ Height[FirstBlock] \in Nat
        /\ Height[b] = Height[Parent[b]] + 1
    BY <1>1, ChainAssumption
  <1>3. Height[b] > Height[FirstBlock]
    BY <1>2 DEF AtOrAbove
  <1>4. b # FirstBlock
    BY <1>2, <1>3
  <1> QED
    BY <1>1, <1>3, <1>4, ReplayEquation DEF AtOrAbove, Replayed

LEMMA AttachedGood ==
    ASSUME NEW moves, NEW c \in Good(moves), NEW b \in Block, c.hash # NoBlock, c.hash = Parent[b]
    PROVE  Attached(moves, c, b) \in Good(moves) /\ Attached(moves, c, b).hash # NoBlock
  <1> DEFINE a == Attached(moves, c, b)
             u == Undo(moves, b)
  <1>1. AtOrAbove(Parent[b]) /\ c.inited /\ c \in Contents(moves) /\ TablesOK(moves, c)
    BY DEF Good, AtBlock
  <1>2. b # FirstBlock /\ AtOrAbove(b) /\ b # NoBlock
    BY <1>1, AboveParent, ChainAssumption
  <1>3. /\ a.hash = b /\ a.state = BlockKeyword(b) /\ a.undo = [c.undo EXCEPT ![b] = u]
        /\ a.inited = c.inited /\ a.rows = Replay(moves)[b] /\ a.hashes = c.hashes
    BY DEF Attached
  <1>4. u \in {Undo(moves, x) : x \in Block}
    OBVIOUS
  <1> HIDE DEF u
  <1>5. a \in Contents(moves)
    <2>1. /\ c.undo \in [Block -> {NoUndoRow} \cup {Undo(moves, x) : x \in Block}]
          /\ c.hashes \in [Block -> {NoUndoRow} \cup {Hash(moves, x) : x \in Block}]
          /\ c.inited \in BOOLEAN
      BY <1>1 DEF Contents
    <2>2. [c.undo EXCEPT ![b] = u] \in [Block -> {NoUndoRow} \cup {Undo(moves, x) : x \in Block}]
      BY <1>4, <2>1
    <2>3. BlockKeyword(b) \in Keyword
      BY DEF Keyword
    <2>4. Replay(moves)[b] \in {EmptyRows} \cup {Replay(moves)[x] : x \in Block}
      OBVIOUS
    <2>5. a = [hash |-> b, state |-> BlockKeyword(b), undo |-> [c.undo EXCEPT ![b] = u],
               inited |-> c.inited, rows |-> Replay(moves)[b], hashes |-> c.hashes]
      BY DEF Attached, u
    <2> DEFINE U == [c.undo EXCEPT ![b] = u]
               rb == Replay(moves)[b]
               kb == BlockKeyword(b)
    <2> HIDE DEF U, rb, kb
    <2> QED  BY <2>1, <2>2, <2>3, <2>4, <2>5 DEF Contents, U, rb, kb
  <1>6. TablesOK(moves, a)
    <2>1. \A x \in Block : a.undo[x] = IF x = b THEN u ELSE c.undo[x]
      BY <1>1, <1>3 DEF Contents
    <2> QED
      BY <1>1, <1>2, <1>3, <2>1 DEF TablesOK, u
  <1>7. AtBlock(moves, a)
    BY <1>1, <1>2, <1>3 DEF AtBlock, CheckCurrentState, BlockKeyword, Initial
  <1> QED
    BY <1>2, <1>3, <1>5, <1>6, <1>7 DEF Good

\* A database at a block, from its parts.
LEMMA GoodAt ==
    ASSUME NEW moves, NEW h, AtOrAbove(h), NEW state,
           state = BlockKeyword(h) \/ (state = Initial /\ h = FirstBlock),
           NEW undo \in [Block -> {NoUndoRow} \cup {Undo(moves, x) : x \in Block}],
           NEW hashes \in [Block -> {NoUndoRow} \cup {Hash(moves, x) : x \in Block}],
           \A b \in Block : undo[b] # NoUndoRow =>
              b # FirstBlock /\ AtOrAbove(Parent[b]) /\ undo[b] = Undo(moves, b),
           \A b \in Block : hashes[b] \in {NoUndoRow, Hash(moves, b)},
           NEW rows, rows = Replay(moves)[h]
    PROVE  [hash |-> h, state |-> state, undo |-> undo, inited |-> TRUE, rows |-> rows,
            hashes |-> hashes] \in Good(moves)
  <1> DEFINE yes == TRUE
             c == [hash |-> h, state |-> state, undo |-> undo, inited |-> yes, rows |-> rows,
                   hashes |-> hashes]
  <1>1. h \in Block /\ h # NoBlock /\ yes \in BOOLEAN /\ yes
    BY ChainAssumption DEF AtOrAbove
  <1>2. state \in Keyword
    BY <1>1 DEF Keyword
  <1>3. rows \in {EmptyRows} \cup {Replay(moves)[b] : b \in Block}
    BY <1>1
  <1> HIDE DEF yes
  <1>4. c \in Contents(moves)
    BY <1>1, <1>2, <1>3 DEF Contents
  <1>5. /\ c.hash = h /\ c.state = state /\ c.undo = undo /\ c.inited = yes /\ c.rows = rows
        /\ c.hashes = hashes
    OBVIOUS
  <1> HIDE DEF c
  <1>6. TablesOK(moves, c)
    BY <1>5 DEF TablesOK
  <1>7. AtBlock(moves, c)
    BY <1>1, <1>5 DEF AtBlock, CheckCurrentState, BlockKeyword, Initial
  <1>8. c \in Good(moves)
    BY <1>4, <1>6, <1>7 DEF Good
  <1> QED
    BY <1>8 DEF c, yes

LEMMA GoodParts ==
    ASSUME NEW moves, NEW c \in Good(moves)
    PROVE  /\ c = [hash |-> c.hash, state |-> c.state, undo |-> c.undo, inited |-> c.inited,
                   rows |-> c.rows, hashes |-> c.hashes]
           /\ c.undo \in [Block -> {NoUndoRow} \cup {Undo(moves, x) : x \in Block}]
           /\ c.hashes \in [Block -> {NoUndoRow} \cup {Hash(moves, x) : x \in Block}]
           /\ \A b \in Block : c.undo[b] # NoUndoRow =>
                 b # FirstBlock /\ AtOrAbove(Parent[b]) /\ c.undo[b] = Undo(moves, b)
           /\ \A b \in Block : c.hashes[b] \in {NoUndoRow, Hash(moves, b)}
           /\ c.inited \in BOOLEAN /\ c.hash \in Block \cup {NoBlock}
           /\ c.hash = NoBlock => c.rows = EmptyRows
           /\ c.hash # NoBlock =>
                 /\ AtOrAbove(c.hash) /\ c.inited /\ c.rows = Replay(moves)[c.hash]
                 /\ c.state = BlockKeyword(c.hash) \/ (c.state = Initial /\ c.hash = FirstBlock)
                 /\ CheckCurrentState(c, c.state, FirstBlock)
  <1>1. c \in Contents(moves) /\ TablesOK(moves, c) /\ AtBlock(moves, c)
    BY DEF Good
  <1>2. c = [hash |-> c.hash, state |-> c.state, undo |-> c.undo, inited |-> c.inited,
             rows |-> c.rows, hashes |-> c.hashes]
    BY <1>1 DEF Contents
  <1>3. /\ c.undo \in [Block -> {NoUndoRow} \cup {Undo(moves, x) : x \in Block}]
        /\ c.hashes \in [Block -> {NoUndoRow} \cup {Hash(moves, x) : x \in Block}]
        /\ c.inited \in BOOLEAN /\ c.hash \in Block \cup {NoBlock}
    BY <1>1 DEF Contents
  <1>4. c.hash # NoBlock =>
          c.state = BlockKeyword(c.hash) \/ (c.state = Initial /\ c.hash = FirstBlock)
    BY <1>1 DEF AtBlock, CheckCurrentState
  <1> QED
    BY <1>1, <1>2, <1>3, <1>4 DEF TablesOK, AtBlock

Detached(moves, c, b) ==
    [hash |-> Parent[b], state |-> BlockKeyword(Parent[b]),
     undo |-> [c.undo EXCEPT ![b] = NoUndoRow],
     inited |-> TRUE, rows |-> Replay(moves)[Parent[b]], hashes |-> c.hashes]

LEMMA DetachedGood ==
    ASSUME NEW moves, NEW c \in Good(moves), NEW b \in Block, c.hash = b, c.undo[b] # NoUndoRow
    PROVE  /\ Detached(moves, c, b) \in Good(moves) /\ Parent[b] # NoBlock
           /\ c.inited /\ c.rows = Replay(moves)[b]
           /\ Conflicts(c.rows, c.undo[b]) = {}
           /\ ApplyInverted(c.rows, c.undo[b]) = Replay(moves)[Parent[b]]
  <1> DEFINE u == [c.undo EXCEPT ![b] = NoUndoRow]
             h == Parent[b]
             r == Replay(moves)[h]
             s == BlockKeyword(h)
             hs == c.hashes
  <1>1. AtOrAbove(h) /\ c.undo[b] = Undo(moves, b) /\ b # NoBlock
    BY GoodParts, ChainAssumption
  <1>2. h \in Block /\ h # NoBlock
    BY <1>1, ChainAssumption DEF AtOrAbove
  <1>3. c.inited /\ c.rows = Replay(moves)[b]
    BY <1>1, GoodParts
  <1>4. /\ Conflicts(c.rows, c.undo[b]) = {}
        /\ ApplyInverted(c.rows, c.undo[b]) = Replay(moves)[Parent[b]]
    <2> DEFINE old == Replay(moves)[Parent[b]]
               new == Replay(moves)[b]
    <2>1. IsRows(old) /\ IsRows(new)
      BY <1>2, ReplayRows
    <2>2. c.undo[b] = ExtractChangeset(old, new) /\ c.rows = new
      BY <1>1, <1>3 DEF Undo
    <2> HIDE DEF old, new
    <2>3. Conflicts(c.rows, c.undo[b]) = {} /\ ApplyInverted(c.rows, c.undo[b]) = old
      BY <2>1, <2>2, ChangesetInverts
    <2> QED  BY <2>3 DEF old
  <1>5. u \in [Block -> {NoUndoRow} \cup {Undo(moves, x) : x \in Block}]
    BY GoodParts
  <1>6. \A x \in Block : u[x] # NoUndoRow =>
           x # FirstBlock /\ AtOrAbove(Parent[x]) /\ u[x] = Undo(moves, x)
    BY GoodParts
  <1>7. /\ hs \in [Block -> {NoUndoRow} \cup {Hash(moves, x) : x \in Block}]
        /\ \A x \in Block : hs[x] \in {NoUndoRow, Hash(moves, x)}
    BY GoodParts
  <1>8. [hash |-> h, state |-> s, undo |-> u, inited |-> TRUE, rows |-> r, hashes |-> hs]
          \in Good(moves)
    <2>1. s = BlockKeyword(h) /\ r = Replay(moves)[h]
      OBVIOUS
    <2> HIDE DEF u, h, r, s, hs
    <2> QED  BY <1>1, <1>5, <1>6, <1>7, <2>1, GoodAt
  <1> QED
    BY <1>2, <1>3, <1>4, <1>8 DEF Detached

\* A change of the undo data or the hashes only.
LEMMA SideTablesGood ==
    ASSUME NEW moves, NEW c \in Good(moves),
           NEW undo \in [Block -> {NoUndoRow} \cup {Undo(moves, x) : x \in Block}],
           NEW hashes \in [Block -> {NoUndoRow} \cup {Hash(moves, x) : x \in Block}],
           \A b \in Block : undo[b] \in {NoUndoRow, c.undo[b]},
           \A b \in Block : hashes[b] \in {NoUndoRow, Hash(moves, b)},
           NEW n, n = [hash |-> c.hash, state |-> c.state, undo |-> undo, inited |-> c.inited,
                       rows |-> c.rows, hashes |-> hashes]
    PROVE  n \in Good(moves) /\ n.hash = c.hash
  <1>1. c \in Contents(moves) /\ TablesOK(moves, c) /\ AtBlock(moves, c)
    BY DEF Good
  <1>2. /\ n \in Contents(moves) /\ n.hash = c.hash /\ n.state = c.state /\ n.undo = undo
        /\ n.inited = c.inited /\ n.rows = c.rows /\ n.hashes = hashes
    BY <1>1 DEF Contents
  <1>3. TablesOK(moves, n)
    BY <1>1, <1>2 DEF TablesOK
  <1>4. AtBlock(moves, n)
    BY <1>1, <1>2 DEF AtBlock, CheckCurrentState
  <1> QED
    BY <1>2, <1>3, <1>4 DEF Good

Pruned(c, height) ==
    [c EXCEPT !.undo = [b \in Block |-> IF Height[b] <= height THEN NoUndoRow ELSE c.undo[b]]]

LEMMA PrunedGood ==
    ASSUME NEW moves, NEW c \in Good(moves), NEW height
    PROVE  Pruned(c, height) \in Good(moves) /\ Pruned(c, height).hash = c.hash
  <1> DEFINE v(b) == IF Height[b] <= height THEN NoUndoRow ELSE c.undo[b]
             undo == [b \in Block |-> v(b)]
             hashes == c.hashes
             n == Pruned(c, height)
  <1>1. undo \in [Block -> {NoUndoRow} \cup {Undo(moves, x) : x \in Block}]
        /\ \A b \in Block : undo[b] \in {NoUndoRow, c.undo[b]}
    BY GoodParts
  <1>2. hashes \in [Block -> {NoUndoRow} \cup {Hash(moves, x) : x \in Block}]
        /\ \A b \in Block : hashes[b] \in {NoUndoRow, Hash(moves, b)}
    BY GoodParts
  <1>3. n = [c EXCEPT !.undo = undo]
    BY DEF Pruned
  <1>4. n = [hash |-> c.hash, state |-> c.state, undo |-> undo, inited |-> c.inited,
             rows |-> c.rows, hashes |-> hashes]
    <2>1. c \in Contents(moves)
      BY DEF Good
    <2> HIDE DEF undo, n
    <2> QED  BY <1>3, <2>1 DEF Contents
  <1> HIDE DEF hashes, undo, n
  <1>5. n \in Good(moves) /\ n.hash = c.hash
    BY <1>1, <1>2, <1>4, SideTablesGood
  <1> QED
    BY <1>5 DEF n

LEMMA HashedGood ==
    ASSUME NEW moves, NEW c \in Good(moves), c.hash # NoBlock,
           NEW n, n = [c EXCEPT !.hashes[c.hash] = Compute(c.rows)]
    PROVE  /\ n \in Good(moves) /\ n.hash = c.hash
           /\ c.hashes[c.hash] \in {NoUndoRow, Compute(c.rows)}
  <1> DEFINE undo == c.undo
             hash == Compute(c.rows)
             hashes == [c.hashes EXCEPT ![c.hash] = hash]
  <1>1. undo \in [Block -> {NoUndoRow} \cup {Undo(moves, x) : x \in Block}]
        /\ \A b \in Block : undo[b] \in {NoUndoRow, c.undo[b]}
    BY GoodParts
  <1>2. hash = Hash(moves, c.hash) /\ c.hash \in Block
    BY GoodParts DEF Hash
  <1>3. hashes \in [Block -> {NoUndoRow} \cup {Hash(moves, x) : x \in Block}]
        /\ \A b \in Block : hashes[b] \in {NoUndoRow, Hash(moves, b)}
    <2> HIDE DEF hash
    <2> QED  BY <1>2, GoodParts
  <1>4. n = [hash |-> c.hash, state |-> c.state, undo |-> undo, inited |-> c.inited,
             rows |-> c.rows, hashes |-> hashes]
    <2>1. c \in Contents(moves)
      BY DEF Good
    <2>2. n = [c EXCEPT !.hashes = hashes]
      OBVIOUS
    <2> HIDE DEF hashes
    <2> QED  BY <2>1, <2>2 DEF Contents
  <1>5. c.hashes[c.hash] \in {NoUndoRow, hash}
    BY <1>2, GoodParts
  <1> HIDE DEF undo, hashes
  <1> QED
    BY <1>1, <1>3, <1>4, <1>5, SideTablesGood

LEMMA NewGood ==
    ASSUME NEW moves
    PROVE  /\ SetupSchema(EmptyRows) \in Good(moves)
           /\ SetupSchema(EmptyRows).hash = NoBlock
  <1> DEFINE c == SetupSchema(EmptyRows)
             none == [b \in Block |-> NoUndoRow]
             no == FALSE
  <1>1. c = [hash |-> NoBlock, state |-> NoKeyword, undo |-> none,
             inited |-> no, rows |-> EmptyRows, hashes |-> none]
    BY DEF SetupSchema
  <1>2. /\ none \in [Block -> {NoUndoRow} \cup {Undo(moves, x) : x \in Block}]
        /\ none \in [Block -> {NoUndoRow} \cup {Hash(moves, x) : x \in Block}]
        /\ NoKeyword \in Keyword /\ no \in BOOLEAN
        /\ \A b \in Block : none[b] = NoUndoRow
    BY DEF Keyword
  <1>3. EmptyRows \in {EmptyRows} \cup {Replay(moves)[b] : b \in Block}
    OBVIOUS
  <1> HIDE DEF none, no, c
  <1>4. c \in Contents(moves) /\ c.hash = NoBlock /\ c.rows = EmptyRows
        /\ c.undo = none /\ c.hashes = none
    BY <1>1, <1>2, <1>3 DEF Contents
  <1>5. TablesOK(moves, c) /\ AtBlock(moves, c)
    BY <1>2, <1>4 DEF TablesOK, AtBlock
  <1> QED
    BY <1>4, <1>5 DEF Good, c

LEMMA InitialisedGood ==
    ASSUME NEW moves, NEW c \in Good(moves), c.hash = NoBlock,
           NEW n, n = [c EXCEPT !.inited = TRUE]
    PROVE  n \in Good(moves) /\ n.hash = NoBlock /\ n.inited
  <1> DEFINE yes == TRUE
  <1>1. yes \in BOOLEAN /\ yes /\ c \in Contents(moves) /\ TablesOK(moves, c) /\ AtBlock(moves, c)
    BY DEF Good
  <1>2. n = [c EXCEPT !.inited = yes]
    OBVIOUS
  <1> HIDE DEF yes
  <1>3. /\ n \in Contents(moves) /\ n.hash = c.hash /\ n.undo = c.undo
        /\ n.inited = yes /\ n.rows = c.rows /\ n.hashes = c.hashes
    BY <1>1, <1>2 DEF Contents
  <1>4. TablesOK(moves, n) /\ AtBlock(moves, n)
    BY <1>1, <1>3 DEF TablesOK, AtBlock
  <1> QED
    BY <1>1, <1>3, <1>4 DEF Good

LEMMA GenesisGood ==
    ASSUME NEW moves, NEW c \in Good(moves), c.hash = NoBlock, c.inited,
           NEW n, n = [c EXCEPT !.hash = FirstBlock, !.state = Initial]
    PROVE  n \in Good(moves) /\ n.hash # NoBlock
  <1>1. FirstBlock \in Block /\ FirstBlock # NoBlock /\ AtOrAbove(FirstBlock)
    BY SqlAssumption, ChainAssumption DEF AtOrAbove
  <1>2. Replay(moves)[FirstBlock] = EmptyRows
    BY <1>1, ReplayEquation DEF Replayed
  <1>3. c \in Contents(moves) /\ TablesOK(moves, c) /\ AtBlock(moves, c) /\ Initial \in Keyword
    BY DEF Good, Keyword
  <1>4. /\ n \in Contents(moves) /\ n.hash = FirstBlock /\ n.state = Initial /\ n.undo = c.undo
        /\ n.inited = c.inited /\ n.rows = c.rows /\ n.hashes = c.hashes
    BY <1>1, <1>3 DEF Contents
  <1>5. TablesOK(moves, n)
    BY <1>3, <1>4 DEF TablesOK
  <1>6. AtBlock(moves, n)
    BY <1>1, <1>2, <1>3, <1>4 DEF AtBlock, CheckCurrentState
  <1> QED
    BY <1>1, <1>4, <1>5, <1>6 DEF Good

----------------------------------------------------------------------------
(* The operators of the storage on a storage that is given by its parts,   *)
(* inside of a transaction.                                                *)

Sq(f, w, s, l, t, n) ==
    [file |-> f, work |-> w, stack |-> s, wal |-> l, started |-> t, snapshots |-> n,
     abort |-> "none"]

LEMMA SqParts ==
    ASSUME NEW f, NEW w, NEW s, NEW l, NEW t, NEW n
    PROVE  /\ Sq(f, w, s, l, t, n).file = f /\ Sq(f, w, s, l, t, n).work = w
           /\ Sq(f, w, s, l, t, n).stack = s /\ Sq(f, w, s, l, t, n).wal = l
           /\ Sq(f, w, s, l, t, n).started = t /\ Sq(f, w, s, l, t, n).snapshots = n
           /\ Sq(f, w, s, l, t, n).abort = "none"
  BY DEF Sq

LEMMA StackTop ==
    ASSUME NEW S, NEW s \in Seq(S), NEW x
    PROVE  /\ Front(Append(s, x)) = s /\ Append(s, x) # <<>> /\ Last(Append(s, x)) = x
           /\ Len(Append(s, x)) = 1 <=> s = <<>>
  <1> DEFINE T == S \cup {x}
             a == Append(s, x)
  <1>1. s \in Seq(T)
    BY SeqDef
  <1>2. a \in Seq(T) /\ Len(a) = Len(s) + 1 /\ \A i \in 1 .. Len(s) : a[i] = s[i]
        /\ Len(s) \in Nat /\ a[Len(s) + 1] = x
    BY <1>1
  <1>3. Front(a) = SubSeq(a, 1, Len(a) - 1)
    BY DEF Front
  <1>4. Len(a) - 1 = Len(s)
    BY <1>2
  <1> HIDE DEF a
  <1>5. SubSeq(a, 1, Len(s)) = s
    BY <1>1, <1>2
  <1> QED
    BY <1>1, <1>2, <1>3, <1>4, <1>5 DEF Last, a

LEMMA SqlExecuteIn ==
    ASSUME NEW f, NEW w, NEW s, NEW l, NEW t, NEW n, s # <<>>, NEW v
    PROVE  SqlExecute(Sq(f, w, s, l, t, n), v) = Sq(f, v, s, l, t, n)
  <1> DEFINE q == Sq(f, w, s, l, t, n)
  <1>1. SqlExecute(q, v) = [q EXCEPT !.work = v, !.file = q.file]
    <2>1. q.stack = s
      BY SqParts
    <2> HIDE DEF q
    <2> QED  BY <2>1 DEF SqlExecute
  <1> QED
    BY <1>1 DEF Sq

LEMMA SqlExecuteOut ==
    ASSUME NEW f, NEW w, NEW s, NEW l, NEW t, NEW n, s = <<>>, NEW v
    PROVE  SqlExecute(Sq(f, w, s, l, t, n), v) = Sq(v, v, s, l, t, n)
  <1> DEFINE q == Sq(f, w, s, l, t, n)
  <1>1. SqlExecute(q, v) = [q EXCEPT !.work = v, !.file = v]
    <2>1. q.stack = s
      BY SqParts
    <2> HIDE DEF q
    <2> QED  BY <2>1 DEF SqlExecute
  <1> QED
    BY <1>1 DEF Sq

LEMMA SqlSavepointTop ==
    ASSUME NEW f, NEW w, NEW s, NEW l, NEW t, NEW n
    PROVE  SqlSavepoint(Sq(f, w, s, l, t, n)) = Sq(f, w, Append(s, w), l, t, n)
  <1> DEFINE q == Sq(f, w, s, l, t, n)
             a == Append(s, w)
  <1>1. SqlSavepoint(q) = [q EXCEPT !.stack = a]
    <2>1. q.stack = s /\ q.work = w
      BY SqParts
    <2> HIDE DEF q
    <2> QED  BY <2>1 DEF SqlSavepoint
  <1> HIDE DEF a
  <1>2. SqlSavepoint(q) = Sq(f, w, a, l, t, n)
    BY <1>1 DEF Sq
  <1> QED
    BY <1>2 DEF a

\* A RELEASE commits when its savepoint is the outermost one.
LEMMA SqlReleaseTop ==
    ASSUME NEW f, NEW w, NEW S, NEW s \in Seq(S), NEW l, NEW t, NEW n, NEW x
    PROVE  SqlRelease(Sq(f, w, Append(s, x), l, t, n))
             = Sq(IF s = <<>> THEN w ELSE f, w, s, l, t, n)
  <1> DEFINE a == Append(s, x)
             q == Sq(f, w, a, l, t, n)
  <1>1. Front(a) = s /\ a # <<>> /\ (Len(a) = 1 <=> s = <<>>)
    BY StackTop
  <1> HIDE DEF a
  <1>2. /\ q.abort = "none" /\ q.stack = a /\ q.work = w /\ q.file = f
    BY SqParts
  <1>3. SqlRelease(q) = [q EXCEPT !.stack = Front(q.stack),
                                  !.file = IF Len(q.stack) = 1 THEN q.work ELSE @]
    BY <1>1, <1>2 DEF SqlRelease, SqChecked
  <1>4. s # <<>> => SqlRelease(q) = Sq(f, w, s, l, t, n)
    BY <1>1, <1>3 DEF Sq
  <1>5. s = <<>> => SqlRelease(q) = Sq(w, w, s, l, t, n)
    BY <1>1, <1>3 DEF Sq
  <1> QED
    BY <1>4, <1>5 DEF a

\* A write in a savepoint of its own, which commits it outside of any other.
LEMMA SavepointWrite ==
    ASSUME NEW f, NEW w, NEW S, NEW s \in Seq(S), NEW l, NEW t, NEW n, NEW v
    PROVE  SqlRelease(SqlExecute(SqlSavepoint(Sq(f, w, s, l, t, n)), v))
             = Sq(IF s = <<>> THEN v ELSE f, v, s, l, t, n)
  <1> DEFINE a == Append(s, w)
  <1>1. a # <<>>
    BY StackTop
  <1>2. SqlSavepoint(Sq(f, w, s, l, t, n)) = Sq(f, w, a, l, t, n)
    BY SqlSavepointTop
  <1>3. SqlExecute(Sq(f, w, a, l, t, n), v) = Sq(f, v, a, l, t, n)
    <2> HIDE DEF a
    <2> QED  BY <1>1, SqlExecuteIn
  <1>4. SqlRelease(Sq(f, v, a, l, t, n)) = Sq(IF s = <<>> THEN v ELSE f, v, s, l, t, n)
    BY SqlReleaseTop
  <1> QED
    BY <1>2, <1>3, <1>4

\* Named, as the provers take literals for formulas.
Yes == TRUE
No == FALSE

\* The same with a transaction started, and so with a savepoint.
Open(f, w, s, l, n) ==
    [file |-> f, work |-> w, stack |-> s, wal |-> l, started |-> Yes, snapshots |-> n,
     abort |-> "none"]

LEMMA OpenParts ==
    ASSUME NEW f, NEW w, NEW s, NEW l, NEW n
    PROVE  /\ Open(f, w, s, l, n).file = f /\ Open(f, w, s, l, n).work = w
           /\ Open(f, w, s, l, n).stack = s /\ Open(f, w, s, l, n).wal = l
           /\ Open(f, w, s, l, n).started /\ Open(f, w, s, l, n).snapshots = n
           /\ Open(f, w, s, l, n).abort = "none"
  BY DEF Open, Yes

Closed(f, w, s, l, n) ==
    [file |-> f, work |-> w, stack |-> s, wal |-> l, started |-> No, snapshots |-> n,
     abort |-> "none"]

LEMMA ClosedParts ==
    ASSUME NEW f, NEW w, NEW s, NEW l, NEW n
    PROVE  /\ Closed(f, w, s, l, n).file = f /\ Closed(f, w, s, l, n).work = w
           /\ Closed(f, w, s, l, n).stack = s /\ Closed(f, w, s, l, n).wal = l
           /\ ~Closed(f, w, s, l, n).started /\ Closed(f, w, s, l, n).snapshots = n
           /\ Closed(f, w, s, l, n).abort = "none"
  BY DEF Closed, No

NestedWrite(q, v) == SqlRelease(SqlExecute(SqlSavepoint(q), v))

LEMMA OpenExecute ==
    ASSUME NEW f, NEW w, NEW s, s # <<>>, NEW l, NEW n, NEW v
    PROVE  SqlExecute(Open(f, w, s, l, n), v) = Open(f, v, s, l, n)
  <1> DEFINE t == Yes
  <1>1. Open(f, w, s, l, n) = Sq(f, w, s, l, t, n) /\ Open(f, v, s, l, n) = Sq(f, v, s, l, t, n)
    BY DEF Open, Sq
  <1> HIDE DEF t
  <1>2. SqlExecute(Sq(f, w, s, l, t, n), v) = Sq(f, v, s, l, t, n)
    BY SqlExecuteIn
  <1> QED
    BY <1>1, <1>2

LEMMA OpenNestedWrite ==
    ASSUME NEW f, NEW w, NEW S, NEW s \in Seq(S), s # <<>>, NEW l, NEW n, NEW v
    PROVE  NestedWrite(Open(f, w, s, l, n), v) = Open(f, v, s, l, n)
  <1> DEFINE t == Yes
  <1>1. Open(f, w, s, l, n) = Sq(f, w, s, l, t, n) /\ Open(f, v, s, l, n) = Sq(f, v, s, l, t, n)
    BY DEF Open, Sq
  <1> HIDE DEF t
  <1>2. SqlRelease(SqlExecute(SqlSavepoint(Sq(f, w, s, l, t, n)), v)) = Sq(f, v, s, l, t, n)
    BY SavepointWrite
  <1> QED
    BY <1>1, <1>2 DEF NestedWrite

WithBlock(c, h, k) == [c EXCEPT !.hash = h, !.state = k]
WithUndo(c, b, u) == [c EXCEPT !.undo[b] = u]

LEMMA SetCurrentGameStateIn ==
    ASSUME NEW f, NEW w, NEW S, NEW s \in Seq(S), s # <<>>, NEW l, NEW n, NEW h, NEW k
    PROVE  SetCurrentGameState(Open(f, w, s, l, n), h, k)
             = Open(f, WithBlock(w, h, k), s, l, n)
  <1> DEFINE q == Open(f, w, s, l, n)
             v == WithBlock(w, h, k)
  <1>1. q.abort = "none" /\ q.started /\ q.work = w
    BY OpenParts
  <1>2. SetCurrentGameState(q, h, k) = NestedWrite(q, v)
    <2> HIDE DEF q
    <2> QED  BY <1>1 DEF SetCurrentGameState, SqChecked, NestedWrite, WithBlock
  <1>3. NestedWrite(q, v) = Open(f, v, s, l, n)
    <2> HIDE DEF v
    <2> QED  BY OpenNestedWrite
  <1> QED
    BY <1>2, <1>3

LEMMA AddUndoDataIn ==
    ASSUME NEW f, NEW w, NEW s, s # <<>>, NEW l, NEW n, NEW b, NEW u
    PROVE  AddUndoData(Open(f, w, s, l, n), b, u) = Open(f, WithUndo(w, b, u), s, l, n)
  <1> DEFINE q == Open(f, w, s, l, n)
             v == WithUndo(w, b, u)
  <1>1. q.abort = "none" /\ q.started /\ q.work = w
    BY OpenParts
  <1>2. AddUndoData(q, b, u) = SqlExecute(q, v)
    <2> HIDE DEF q
    <2> QED  BY <1>1 DEF AddUndoData, SqChecked, WithUndo
  <1>3. SqlExecute(q, v) = Open(f, v, s, l, n)
    <2> HIDE DEF v
    <2> QED  BY OpenExecute
  <1> QED
    BY <1>2, <1>3

LEMMA ReleaseUndoDataIn ==
    ASSUME NEW f, NEW w, NEW s, s # <<>>, NEW l, NEW n, NEW b
    PROVE  SqReleaseUndoData(Open(f, w, s, l, n), b)
             = Open(f, WithUndo(w, b, NoUndoRow), s, l, n)
  <1> DEFINE q == Open(f, w, s, l, n)
             v == WithUndo(w, b, NoUndoRow)
  <1>1. q.abort = "none" /\ q.started /\ q.work = w
    BY OpenParts
  <1>2. SqReleaseUndoData(q, b) = SqlExecute(q, v)
    <2> HIDE DEF q
    <2> QED  BY <1>1 DEF SqReleaseUndoData, SqChecked, WithUndo
  <1>3. SqlExecute(q, v) = Open(f, v, s, l, n)
    <2> HIDE DEF v
    <2> QED  BY OpenExecute
  <1> QED
    BY <1>2, <1>3

LEMMA PruneIn ==
    ASSUME NEW f, NEW w, NEW S, NEW s \in Seq(S), s # <<>>, NEW l, NEW n, NEW height
    PROVE  SqPruneUndoData(Open(f, w, s, l, n), height) = Open(f, Pruned(w, height), s, l, n)
  <1> DEFINE q == Open(f, w, s, l, n)
             v == Pruned(w, height)
  <1>1. q.abort = "none" /\ q.started /\ q.work = w
    BY OpenParts
  <1>2. SqPruneUndoData(q, height) = SqlExecute(q, v)
    <2> HIDE DEF q
    <2> QED  BY <1>1 DEF SqPruneUndoData, SqChecked, Pruned
  <1>3. SqlExecute(q, v) = Open(f, v, s, l, n)
    <2> HIDE DEF v
    <2> QED  BY OpenExecute
  <1> QED
    BY <1>2, <1>3

----------------------------------------------------------------------------
(* The storage, all of whose contents are good.                            *)

SqStorage(moves) ==
    [file : Good(moves), work : Good(moves), stack : Seq(Good(moves)), wal : BOOLEAN,
     started : BOOLEAN, snapshots : Nat, abort : {"none", "checkpoint"}]

\* An open transaction has a savepoint.
StorageOK(moves, q) == q \in SqStorage(moves) /\ (q.started => q.stack # <<>>)

LEMMA SqOf ==
    ASSUME NEW moves, NEW q \in SqStorage(moves), q.abort = "none"
    PROVE  /\ q = Sq(q.file, q.work, q.stack, q.wal, q.started, q.snapshots)
           /\ q.started => q = Open(q.file, q.work, q.stack, q.wal, q.snapshots)
           /\ ~q.started => q = Closed(q.file, q.work, q.stack, q.wal, q.snapshots)
  <1>1. q = Sq(q.file, q.work, q.stack, q.wal, q.started, q.snapshots) /\ q.started \in BOOLEAN
    BY DEF SqStorage, Sq
  <1>2. q.started => q.started = Yes
    BY <1>1 DEF Yes
  <1>3. ~q.started => q.started = No
    BY <1>1 DEF No
  <1> QED
    BY <1>1, <1>2, <1>3 DEF Sq, Open, Closed

LEMMA SqIsStorage ==
    ASSUME NEW moves, NEW f \in Good(moves), NEW w \in Good(moves), NEW s \in Seq(Good(moves)),
           NEW l \in BOOLEAN, NEW t \in BOOLEAN, NEW n \in Nat
    PROVE  Sq(f, w, s, l, t, n) \in SqStorage(moves)
  BY DEF SqStorage, Sq

LEMMA EnsureCurrentStateHolds ==
    ASSUME NEW moves, NEW q, q.work \in Good(moves), q.work.hash # NoBlock
    PROVE  EnsureCurrentState(q, q.work.state, FirstBlock) = q
  <1>1. CheckCurrentState(q.work, q.work.state, FirstBlock) /\ q.work.inited
    BY GoodParts
  <1> QED
    BY <1>1 DEF EnsureCurrentState, SqChecked

LEMMA OpenIsStorage ==
    ASSUME NEW moves, NEW f \in Good(moves), NEW w \in Good(moves), NEW s \in Seq(Good(moves)),
           NEW l \in BOOLEAN, NEW n \in Nat, s # <<>>
    PROVE  StorageOK(moves, Open(f, w, s, l, n))
  <1> DEFINE t == Yes
  <1>1. Open(f, w, s, l, n) = Sq(f, w, s, l, t, n) /\ t \in BOOLEAN
    BY DEF Open, Sq, Yes
  <1> HIDE DEF t
  <1>2. Open(f, w, s, l, n) \in SqStorage(moves)
    BY <1>1, SqIsStorage
  <1> QED
    BY <1>2, OpenParts DEF StorageOK

\* ProcessForward and the writes of Game: the block is attached.
LEMMA ForwardAttaches ==
    ASSUME NEW moves, NEW f, NEW c \in Good(moves), NEW S, NEW s \in Seq(S), s # <<>>, NEW l, NEW n,
           NEW b \in Block, c.hash # NoBlock, c.hash = Parent[b]
    PROVE  Forward(Open(f, c, s, l, n), b, moves[b], FirstBlock)
             = Open(f, Attached(moves, c, b), s, l, n)
  <1> DEFINE q == Open(f, c, s, l, n)
             rows == Replay(moves)[b]
             undo == Undo(moves, b)
             k == BlockKeyword(b)
             w1 == [c EXCEPT !.rows = rows]
             w2 == WithUndo(w1, b, undo)
             w3 == WithBlock(w2, b, k)
  <1>1. q.work = c
    BY OpenParts
  <1>2. EnsureCurrentState(q, c.state, FirstBlock) = q
    <2> HIDE DEF q
    <2> QED  BY <1>1, EnsureCurrentStateHolds
  <1>3. AtOrAbove(Parent[b]) /\ c.rows = Replay(moves)[Parent[b]]
    BY GoodParts
  <1>4. rows = UpdateState(c.rows, moves[b])
    BY <1>3, AboveParent
  <1>5. undo = ExtractChangeset(c.rows, rows)
    BY <1>3 DEF Undo
  <1>7. SqlExecute(q, w1) = Open(f, w1, s, l, n)
    <2> HIDE DEF w1
    <2> QED  BY OpenExecute
  <1>8. AddUndoData(Open(f, w1, s, l, n), b, undo) = Open(f, w2, s, l, n)
    <2> HIDE DEF w1, undo
    <2> QED  BY AddUndoDataIn
  <1>9. SetCurrentGameState(Open(f, w2, s, l, n), b, k) = Open(f, w3, s, l, n)
    <2> HIDE DEF w2, k
    <2> QED  BY SetCurrentGameStateIn
  <1>10. Forward(q, b, moves[b], FirstBlock) = Open(f, w3, s, l, n)
    <2>1. Forward(q, b, moves[b], FirstBlock)
            = SetCurrentGameState(AddUndoData(SqlExecute(q, w1), b, undo), b, k)
      <3> HIDE DEF q
      <3> QED  BY <1>1, <1>2, <1>4, <1>5 DEF Forward
    <2> HIDE DEF w1, w2, w3, undo, k
    <2> QED  BY <1>7, <1>8, <1>9, <2>1
  <1>11. w3 = Attached(moves, c, b)
    <2> DEFINE u == [c.undo EXCEPT ![b] = undo]
    <2> HIDE DEF rows, undo, k
    <2>1. c = [hash |-> c.hash, state |-> c.state, undo |-> c.undo, inited |-> c.inited,
               rows |-> c.rows, hashes |-> c.hashes]
      BY GoodParts
    <2>2. w1 = [hash |-> c.hash, state |-> c.state, undo |-> c.undo, inited |-> c.inited,
                rows |-> rows, hashes |-> c.hashes]
      BY <2>1
    <2>3. w2 = [w1 EXCEPT !.undo = u]
      <3>1. w1.undo = c.undo
        BY <2>2
      <3> HIDE DEF w1
      <3> QED  BY <3>1 DEF WithUndo
    <2> HIDE DEF u, w1, w2
    <2>4. w2 = [hash |-> c.hash, state |-> c.state, undo |-> u, inited |-> c.inited,
                rows |-> rows, hashes |-> c.hashes]
      BY <2>2, <2>3
    <2>5. w3 = [hash |-> b, state |-> k, undo |-> u, inited |-> c.inited,
                rows |-> rows, hashes |-> c.hashes]
      <3> DEFINE v == [w2 EXCEPT !.hash = b]
      <3>1. v = [hash |-> b, state |-> c.state, undo |-> u, inited |-> c.inited,
                 rows |-> rows, hashes |-> c.hashes]
        BY <2>4
      <3>2. w3 = [v EXCEPT !.state = k]
        BY DEF WithBlock
      <3> HIDE DEF v, w3
      <3> QED  BY <3>1, <3>2
    <2> HIDE DEF w3
    <2> QED  BY <2>5 DEF u, rows, undo, k, Attached
  <1> HIDE DEF w3
  <1> QED
    BY <1>10, <1>11

\* ProcessBackwards and the writes of Game: the block is detached, without
\* any conflict.
LEMMA BackwardDetaches ==
    ASSUME NEW moves, NEW f, NEW c \in Good(moves), NEW S, NEW s \in Seq(S), s # <<>>, NEW l, NEW n,
           NEW b \in Block, c.hash = b, c.undo[b] # NoUndoRow
    PROVE  Backward(Open(f, c, s, l, n), b, FirstBlock)
             = Open(f, Detached(moves, c, b), s, l, n)
  <1> DEFINE q == Open(f, c, s, l, n)
             p == Parent[b]
             rows == Replay(moves)[p]
             k == BlockKeyword(p)
             w1 == [c EXCEPT !.rows = rows]
             w2 == WithBlock(w1, p, k)
             w3 == WithUndo(w2, b, NoUndoRow)
  <1>1. q.work = c /\ q.abort = "none" /\ c.hash # NoBlock
    BY OpenParts, ChainAssumption
  <1>2. EnsureCurrentState(q, c.state, FirstBlock) = q
    <2> HIDE DEF q
    <2> QED  BY <1>1, EnsureCurrentStateHolds
  <1>3. /\ c.inited /\ Conflicts(c.rows, c.undo[b]) = {}
        /\ ApplyInverted(c.rows, c.undo[b]) = rows
    <2>1. c.inited
      BY DetachedGood
    <2>2. Conflicts(c.rows, c.undo[b]) = {}
      BY DetachedGood
    <2>3. ApplyInverted(c.rows, c.undo[b]) = Replay(moves)[Parent[b]]
      BY DetachedGood
    <2> QED  BY <2>1, <2>2, <2>3
  <1>4. SqlExecute(q, w1) = Open(f, w1, s, l, n)
    <2> HIDE DEF w1
    <2> QED  BY OpenExecute
  <1>5. SetCurrentGameState(Open(f, w1, s, l, n), p, k) = Open(f, w2, s, l, n)
    <2> HIDE DEF w1, k, p
    <2> QED  BY SetCurrentGameStateIn
  <1>6. SqReleaseUndoData(Open(f, w2, s, l, n), b) = Open(f, w3, s, l, n)
    <2> HIDE DEF w2
    <2> QED  BY ReleaseUndoDataIn
  <1>7. Backward(q, b, FirstBlock) = Open(f, w3, s, l, n)
    <2>1. Backward(q, b, FirstBlock)
            = SqReleaseUndoData(SetCurrentGameState(SqlExecute(q, w1), p, k), b)
      <3> HIDE DEF q
      <3> QED  BY <1>1, <1>2, <1>3 DEF Backward, SqChecked
    <2> HIDE DEF w1, w2, w3, k, p
    <2> QED  BY <1>4, <1>5, <1>6, <2>1
  <1>8. w3 = Detached(moves, c, b)
    <2> DEFINE u == [c.undo EXCEPT ![b] = NoUndoRow]
               v == [w1 EXCEPT !.hash = p]
               t == TRUE
    <2> HIDE DEF rows, k, p
    <2>1. c = [hash |-> c.hash, state |-> c.state, undo |-> c.undo, inited |-> c.inited,
               rows |-> c.rows, hashes |-> c.hashes]
      BY GoodParts
    <2>2. w1 = [hash |-> c.hash, state |-> c.state, undo |-> c.undo, inited |-> c.inited,
                rows |-> rows, hashes |-> c.hashes]
      BY <2>1
    <2>3. w2 = [v EXCEPT !.state = k]
      BY DEF WithBlock
    <2> HIDE DEF w1, w2
    <2>4. v = [hash |-> p, state |-> c.state, undo |-> c.undo, inited |-> c.inited,
               rows |-> rows, hashes |-> c.hashes]
      BY <2>2
    <2> HIDE DEF v
    <2>5. w2 = [hash |-> p, state |-> k, undo |-> c.undo, inited |-> c.inited,
                rows |-> rows, hashes |-> c.hashes]
      BY <2>3, <2>4
    <2>6. w3 = [w2 EXCEPT !.undo = u]
      <3>1. w2.undo = c.undo
        BY <2>5
      <3> QED  BY <3>1 DEF WithUndo
    <2> HIDE DEF u, w3
    <2>7. w3 = [hash |-> p, state |-> k, undo |-> u, inited |-> c.inited,
                rows |-> rows, hashes |-> c.hashes]
      BY <2>5, <2>6
    <2>8. c.inited = t
      <3>1. c.inited \in BOOLEAN
        BY GoodParts
      <3> QED  BY <1>3, <3>1
    <2> HIDE DEF t
    <2>9. w3 = [hash |-> p, state |-> k, undo |-> u, inited |-> t,
                rows |-> rows, hashes |-> c.hashes]
      BY <2>7, <2>8
    <2> QED  BY <2>9 DEF u, rows, k, p, t, Detached
  <1> HIDE DEF w3
  <1> QED
    BY <1>7, <1>8

----------------------------------------------------------------------------
(* Transactions.                                                           *)

LEMMA ClosedIsStorage ==
    ASSUME NEW moves, NEW f \in Good(moves), NEW w \in Good(moves), NEW s \in Seq(Good(moves)),
           NEW l \in BOOLEAN, NEW n \in Nat
    PROVE  StorageOK(moves, Closed(f, w, s, l, n))
  <1> DEFINE t == No
  <1>1. Closed(f, w, s, l, n) = Sq(f, w, s, l, t, n) /\ t \in BOOLEAN
    BY DEF Closed, Sq, No
  <1> HIDE DEF t
  <1>2. Closed(f, w, s, l, n) \in SqStorage(moves)
    BY <1>1, SqIsStorage
  <1> QED
    BY <1>2, ClosedParts DEF StorageOK

LEMMA BeginOpens ==
    ASSUME NEW moves, NEW q, StorageOK(moves, q), q.abort = "none"
    PROVE  \E s \in Seq(Good(moves)) :
              s # <<>> /\ Begun(q) = Open(q.file, q.work, s, q.wal, q.snapshots)
  <1>1. /\ q \in SqStorage(moves) /\ q.work \in Good(moves) /\ q.stack \in Seq(Good(moves))
        /\ q.started \in BOOLEAN /\ q.started => q.stack # <<>>
    BY DEF StorageOK, SqStorage
  <1>2. CASE q.started
    <2>1. Begun(q) = q
      BY <1>2 DEF Begun
    <2>2. q = Open(q.file, q.work, q.stack, q.wal, q.snapshots)
      BY <1>1, <1>2, SqOf
    <2> QED  BY <1>1, <1>2, <2>1, <2>2
  <1>3. CASE ~q.started
    <2> DEFINE a == Append(q.stack, q.work)
               p == [q EXCEPT !.started = Yes]
    <2>1. a \in Seq(Good(moves)) /\ a # <<>>
      BY <1>1, StackTop
    <2>2. Begun(q) = SqlSavepoint(p)
      BY <1>3 DEF Begun, SqBeginTransaction, SqChecked, Yes
    <2>3. p = Open(q.file, q.work, q.stack, q.wal, q.snapshots)
      BY <1>1 DEF SqStorage, Open
    <2>4. p.stack = q.stack /\ p.work = q.work
      BY <2>3, OpenParts
    <2>5. SqlSavepoint(p) = [p EXCEPT !.stack = a]
      <3> HIDE DEF p
      <3> QED  BY <2>4 DEF SqlSavepoint
    <2> HIDE DEF a, p
    <2>6. [p EXCEPT !.stack = a] = Open(q.file, q.work, a, q.wal, q.snapshots)
      BY <2>3 DEF Open
    <2> QED  BY <2>1, <2>2, <2>5, <2>6
  <1> QED
    BY <1>1, <1>2, <1>3

LEMMA StackFront ==
    ASSUME NEW S, NEW s \in Seq(S), s # <<>>
    PROVE  Front(s) \in Seq(S) /\ Last(s) \in S
  BY DEF Front, Last

LEMMA CommitCloses ==
    ASSUME NEW moves, NEW f \in Good(moves), NEW w \in Good(moves), NEW s \in Seq(Good(moves)),
           s # <<>>, NEW l, NEW n
    PROVE  \E g \in {f, w} : SqCommitTransaction(Open(f, w, s, l, n)) = Closed(g, w, Front(s), l, n)
  <1> DEFINE q == Open(f, w, s, l, n)
             g == IF Len(s) = 1 THEN w ELSE f
             r == Front(s)
             p == Open(g, w, r, l, n)
  <1>1. q.abort = "none" /\ q.stack = s /\ q.work = w /\ q.file = f /\ q.started
    BY OpenParts
  <1>2. SqlRelease(q) = [q EXCEPT !.stack = r, !.file = g]
    <2> HIDE DEF q
    <2> QED  BY <1>1 DEF SqlRelease, SqChecked
  <1>3. [q EXCEPT !.stack = r, !.file = g] = p
    <2> DEFINE m == [q EXCEPT !.stack = r]
    <2> HIDE DEF g, r
    <2>1. [q EXCEPT !.stack = r, !.file = g] = [m EXCEPT !.file = g]
      <3> HIDE DEF q
      <3> QED  OBVIOUS
    <2>2. m = Open(f, w, r, l, n)
      BY DEF Open
    <2> HIDE DEF m
    <2>3. [m EXCEPT !.file = g] = p
      BY <2>2 DEF Open
    <2> QED  BY <2>1, <2>3
  <1>4. p.abort = "none"
    BY OpenParts
  <1>5. SqCommitTransaction(q) = [p EXCEPT !.started = No]
    <2> HIDE DEF p, q
    <2> QED  BY <1>1, <1>2, <1>3, <1>4 DEF SqCommitTransaction, SqChecked, No
  <1>6. [p EXCEPT !.started = No] = Closed(g, w, r, l, n)
    <2> HIDE DEF g, r
    <2> QED  BY DEF Open, Closed
  <1>7. g \in {f, w}
    OBVIOUS
  <1> HIDE DEF p, g
  <1> QED
    BY <1>5, <1>6, <1>7

LEMMA RollbackCloses ==
    ASSUME NEW f, NEW w, NEW s, s # <<>>, NEW l, NEW n
    PROVE  SqRollbackTransaction(Open(f, w, s, l, n)) = Closed(f, Last(s), s, l, n)
  <1> DEFINE q == Open(f, w, s, l, n)
             v == Last(s)
             p == Open(f, v, s, l, n)
  <1>1. q.abort = "none" /\ q.stack = s /\ q.started
    BY OpenParts
  <1>2. SqlRollbackTo(q) = [q EXCEPT !.work = v]
    <2> HIDE DEF q
    <2> QED  BY <1>1 DEF SqlRollbackTo, SqChecked
  <1>3. [q EXCEPT !.work = v] = p
    <2> HIDE DEF v
    <2> QED  BY DEF Open
  <1>4. p.abort = "none"
    BY OpenParts
  <1>5. SqRollbackTransaction(q) = [p EXCEPT !.started = No]
    <2> HIDE DEF p, q
    <2> QED  BY <1>1, <1>2, <1>3, <1>4 DEF SqRollbackTransaction, SqChecked, No
  <1>6. [p EXCEPT !.started = No] = Closed(f, v, s, l, n)
    <2> HIDE DEF v
    <2> QED  BY DEF Open, Closed
  <1> HIDE DEF p
  <1> QED
    BY <1>5, <1>6

----------------------------------------------------------------------------
(* The processors, the initialisation and the end of a transaction.        *)

LEMMA ProcessKeeps ==
    ASSUME NEW moves, NEW f \in Good(moves), NEW w \in Good(moves), NEW s \in Seq(Good(moves)),
           NEW l, NEW t, NEW n, w.hash # NoBlock
    PROVE  \E g \in Good(moves), v \in Good(moves) :
              v.hash = w.hash /\ Process(Sq(f, w, s, l, t, n), w.hash) = Sq(g, v, s, l, t, n)
  <1> DEFINE q == Sq(f, w, s, l, t, n)
             v == [w EXCEPT !.hashes[w.hash] = Compute(w.rows)]
             p == SqlSavepoint(q)
             g == IF s = <<>> THEN v ELSE f
  <1>1. CASE ~ShouldRun(Height[w.hash])
    <2>1. Process(q, w.hash) = q
      BY <1>1 DEF Process
    <2> QED  BY <2>1
  <1>2. CASE ShouldRun(Height[w.hash])
    <2>1. v \in Good(moves) /\ v.hash = w.hash
          /\ w.hashes[w.hash] \in {NoUndoRow, Compute(w.rows)}
      <3> HIDE DEF v
      <3>1. v = [w EXCEPT !.hashes[w.hash] = Compute(w.rows)]
        BY DEF v
      <3> QED  BY <3>1, HashedGood
    <2>2. p.work = w /\ p.abort = "none" /\ q.work = w
      BY SqlSavepointTop, SqParts
    <2>3. Store(p, w.hash, Compute(w.rows)) = SqlExecute(p, v)
      <3> HIDE DEF p
      <3> QED  BY <2>1, <2>2 DEF Store, SqChecked
    <2>4. Process(q, w.hash) = SqlRelease(SqlExecute(p, v))
      <3> HIDE DEF v
      <3> QED  BY <1>2, <2>2, <2>3 DEF Process
    <2> HIDE DEF v
    <2>5. SqlRelease(SqlExecute(p, v)) = Sq(g, v, s, l, t, n)
      BY SavepointWrite
    <2>6. g \in Good(moves)
      BY <2>1
    <2> HIDE DEF g, p
    <2> QED  BY <2>1, <2>4, <2>5, <2>6
  <1> QED
    BY <1>1, <1>2

LEMMA InitialiseKeeps ==
    ASSUME NEW moves, NEW f \in Good(moves), NEW w \in Good(moves), NEW s \in Seq(Good(moves)),
           NEW l, NEW t, NEW n, w.hash = NoBlock
    PROVE  \E g \in Good(moves), v \in Good(moves) :
              v.hash = NoBlock /\ v.inited /\ InitialiseGame(Sq(f, w, s, l, t, n)) = Sq(g, v, s, l, t, n)
  <1> DEFINE q == Sq(f, w, s, l, t, n)
             v == [w EXCEPT !.inited = TRUE]
             g == IF s = <<>> THEN v ELSE f
  <1>1. q.work = w
    BY SqParts
  <1>2. CASE w.inited
    <2>1. InitialiseGame(q) = q
      <3> HIDE DEF q
      <3> QED  BY <1>1, <1>2 DEF InitialiseGame
    <2> QED  BY <1>2, <2>1
  <1>3. CASE ~w.inited
    <2>1. v \in Good(moves) /\ v.hash = NoBlock /\ v.inited
      <3> HIDE DEF v
      <3>1. v = [w EXCEPT !.inited = TRUE]
        BY DEF v
      <3> QED  BY <3>1, InitialisedGood
    <2>2. InitialiseGame(q) = SqlRelease(SqlExecute(SqlSavepoint(q), v))
      <3> HIDE DEF q
      <3> QED  BY <1>1, <1>3 DEF InitialiseGame
    <2> HIDE DEF v
    <2>3. SqlRelease(SqlExecute(SqlSavepoint(q), v)) = Sq(g, v, s, l, t, n)
      BY SavepointWrite
    <2>4. g \in Good(moves)
      BY <2>1
    <2> HIDE DEF g, q
    <2> QED  BY <2>1, <2>2, <2>3, <2>4 DEF q
  <1> QED
    BY <1>2, <1>3

Finished(q, flush) == IF flush THEN SqCommitTransaction(q) ELSE q

\* What the end of a transaction leaves, committed or kept open.
LEMMA FinishedOK ==
    ASSUME NEW moves, NEW f \in Good(moves), NEW w \in Good(moves), NEW s \in Seq(Good(moves)),
           s # <<>>, NEW l \in BOOLEAN, NEW n \in Nat, NEW flush
    PROVE  /\ StorageOK(moves, Finished(Open(f, w, s, l, n), flush))
           /\ Finished(Open(f, w, s, l, n), flush).work = w
           /\ Finished(Open(f, w, s, l, n), flush).snapshots = n
           /\ Finished(Open(f, w, s, l, n), flush).abort = "none"
  <1> DEFINE q == Open(f, w, s, l, n)
             r == Front(s)
  <1>1. CASE flush
    <2>1. PICK g \in {f, w} : SqCommitTransaction(q) = Closed(g, w, r, l, n)
      BY CommitCloses
    <2>2. Finished(q, flush) = Closed(g, w, r, l, n)
      BY <1>1, <2>1 DEF Finished
    <2>3. r \in Seq(Good(moves)) /\ g \in Good(moves)
      BY StackFront
    <2> HIDE DEF r
    <2>4. StorageOK(moves, Closed(g, w, r, l, n))
      BY <2>3, ClosedIsStorage
    <2> QED  BY <2>2, <2>4, ClosedParts
  <1>2. CASE ~flush
    <2>1. Finished(q, flush) = q
      BY <1>2 DEF Finished
    <2> QED  BY <2>1, OpenIsStorage, OpenParts
  <1> QED
    BY <1>1, <1>2

----------------------------------------------------------------------------
(* The inductive invariant.                                                *)

Call(moves) == [phase : {"none", "reading", "reply"}, block : Block \cup {NoBlock},
                rows : {EmptyRows} \cup {Replay(moves)[b] : b \in Block}]

Reading(cs) == {r \in Reader : cs[r].phase = "reading"}

\* Every call has the rows of the block it names, and holds its snapshot.
CallsOK(moves, n, cs) ==
    /\ cs \in [Reader -> Call(moves)]
    /\ \A r \in Reader : cs[r].phase # "none" =>
          cs[r].block \in Block /\ cs[r].rows = Replay(moves)[cs[r].block]
    /\ n = Cardinality(Reading(cs))

\* What a handler relies on from its earlier steps.
StageOK(q, st) ==
    /\ st \in {"idle", "checkpoint", "prune checkpoint", "committed", "clear", "initialise",
               "genesis"}
    /\ st \in {"checkpoint", "prune checkpoint", "committed"} => q.work.hash # NoBlock
    /\ st = "clear" => ~q.started
    /\ st \in {"initialise", "genesis"} => q.work.hash = NoBlock
    /\ st = "genesis" => q.work.inited

SqlInv ==
    /\ StorageOK(blockMoves, sq)
    /\ StageOK(sq, stage)
    /\ CallsOK(blockMoves, sq.snapshots, calls)

LEMMA SqlInvParts ==
    ASSUME SqlInv
    PROVE  /\ sq \in SqStorage(blockMoves)
           /\ sq.file \in Good(blockMoves) /\ sq.work \in Good(blockMoves)
           /\ sq.stack \in Seq(Good(blockMoves)) /\ sq.wal \in BOOLEAN /\ sq.snapshots \in Nat
           /\ sq.started \in BOOLEAN /\ (sq.started => sq.stack # <<>>)
  BY DEF SqlInv, StorageOK, SqStorage

\* The part that an action shares with the others: it leaves the calls alone.
LEMMA KeepsCalls ==
    ASSUME SqlInv, UNCHANGED <<calls, blockMoves>>, StorageOK(blockMoves, sq'),
           sq'.snapshots = sq.snapshots, StageOK(sq', stage')
    PROVE  SqlInv'
  BY DEF SqlInv

LEMMA NewDatabase ==
    ASSUME NEW moves, NEW c \in Good(moves), NEW l \in BOOLEAN
    PROVE  /\ StorageOK(moves, OpenDatabase(c, l)) /\ OpenDatabase(c, l).snapshots = 0
           /\ OpenDatabase(c, l).abort = "none" /\ ~OpenDatabase(c, l).started
           /\ OpenDatabase(c, l).work = c
  <1> DEFINE s == << >>
             n == 0
  <1>1. s \in Seq(Good(moves)) /\ n \in Nat
    OBVIOUS
  <1>2. OpenDatabase(c, l) = Closed(c, c, s, l, n)
    BY DEF OpenDatabase, Closed, No
  <1>3. n = 0
    OBVIOUS
  <1> HIDE DEF s, n
  <1> QED
    BY <1>1, <1>2, <1>3, ClosedIsStorage, ClosedParts

LEMMA NoCalls ==
    ASSUME NEW moves
    PROVE  CallsOK(moves, 0, [r \in Reader |-> NoCall])
  <1> DEFINE cs == [r \in Reader |-> NoCall]
  <1>1. NoCall \in Call(moves) /\ NoCall.phase = "none"
    BY DEF NoCall, Call
  <1>2. cs \in [Reader -> Call(moves)] /\ \A r \in Reader : cs[r].phase = "none"
    BY <1>1
  <1> HIDE DEF cs
  <1>3. Reading(cs) = {}
    BY <1>2 DEF Reading
  <1>4. Cardinality(Reading(cs)) = 0
    BY <1>3, FS_EmptySet
  <1>5. CallsOK(moves, 0, cs)
    BY <1>2, <1>4 DEF CallsOK
  <1> QED
    BY <1>5 DEF cs

LEMMA SqlInitInv == SqlInit => SqlInv
  <1> SUFFICES ASSUME SqlInit PROVE SqlInv
    OBVIOUS
  <1> DEFINE c == SetupSchema(EmptyRows)
  <1>1. PICK g \in Games : sq = OpenDatabase(c, g.wal)
    BY DEF SqlInit
  <1>2. c \in Good(blockMoves) /\ g.wal \in BOOLEAN
    BY NewGood, SqlAssumption
  <1> HIDE DEF c
  <1>3. StorageOK(blockMoves, sq) /\ sq.snapshots = 0
    BY <1>1, <1>2, NewDatabase
  <1>4. StageOK(sq, stage)
    BY DEF SqlInit, StageOK
  <1>5. CallsOK(blockMoves, 0, calls)
    BY NoCalls DEF SqlInit
  <1> QED
    BY <1>3, <1>4, <1>5 DEF SqlInv

\* A transaction that ends with contents at a block.
LEMMA FinishKeeps ==
    ASSUME SqlInv, UNCHANGED <<calls, blockMoves>>, NEW w \in Good(blockMoves), w.hash # NoBlock,
           NEW s \in Seq(Good(blockMoves)), s # <<>>, NEW flush, NEW due,
           Finish(Open(sq.file, w, s, sq.wal, sq.snapshots), flush, due)
    PROVE  SqlInv'
  <1> DEFINE f == sq.file
             l == sq.wal
             n == sq.snapshots
  <1>1. f \in Good(blockMoves) /\ l \in BOOLEAN /\ n \in Nat
    BY SqlInvParts
  <1>2. sq' = Finished(Open(f, w, s, l, n), flush) /\ stage' \in {"checkpoint", "committed"}
    BY DEF Finish, Finished
  <1>3. n = sq.snapshots
    OBVIOUS
  <1> HIDE DEF f, l, n
  <1>4. StorageOK(blockMoves, sq') /\ sq'.work = w /\ sq'.snapshots = n
    BY <1>1, <1>2, FinishedOK
  <1>5. StageOK(sq', stage')
    BY <1>2, <1>4 DEF StageOK
  <1> QED
    BY <1>3, <1>4, <1>5, KeepsCalls

LEMMA AttachKeeps ==
    ASSUME SqlInv, NEW b \in Block, NEW flush, NEW due, Attach(b, flush, due)
    PROVE  SqlInv'
  <1> DEFINE f == sq.file
             c == sq.work
             l == sq.wal
             n == sq.snapshots
  <1>1. StorageOK(blockMoves, sq) /\ sq.abort = "none" /\ c \in Good(blockMoves)
        /\ c.hash # NoBlock /\ c.hash = Parent[b]
    BY SqlInvParts DEF SqlInv, Attach, Idle
  <1>2. PICK s \in Seq(Good(blockMoves)) : s # <<>> /\ Begun(sq) = Open(f, c, s, l, n)
    BY <1>1, BeginOpens
  <1>3. Finish(Forward(Begun(sq), b, blockMoves[b], FirstBlock), flush, due)
        /\ UNCHANGED <<calls, blockMoves>>
    BY DEF Attach
  <1> DEFINE w == Attached(blockMoves, c, b)
  <1>4. w \in Good(blockMoves) /\ w.hash # NoBlock
    <2> HIDE DEF c
    <2> QED  BY <1>1, AttachedGood
  <1>5. Forward(Open(f, c, s, l, n), b, blockMoves[b], FirstBlock) = Open(f, w, s, l, n)
    <2> HIDE DEF f, c, l, n
    <2> QED  BY <1>1, <1>2, ForwardAttaches
  <1>6. Finish(Open(f, w, s, l, n), flush, due)
    BY <1>2, <1>3, <1>5
  <1> HIDE DEF w
  <1> QED
    BY <1>2, <1>3, <1>4, <1>6, FinishKeeps

LEMMA DetachKeeps ==
    ASSUME SqlInv, NEW b \in Block, NEW flush, NEW due, Detach(b, flush, due)
    PROVE  SqlInv'
  <1> DEFINE f == sq.file
             c == sq.work
             l == sq.wal
             n == sq.snapshots
  <1>1. StorageOK(blockMoves, sq) /\ sq.abort = "none" /\ c \in Good(blockMoves)
        /\ c.hash = b /\ c.undo[b] # NoUndoRow
    BY SqlInvParts DEF SqlInv, Detach, Idle
  <1>2. PICK s \in Seq(Good(blockMoves)) : s # <<>> /\ Begun(sq) = Open(f, c, s, l, n)
    BY <1>1, BeginOpens
  <1>3. Finish(Backward(Begun(sq), b, FirstBlock), flush, due) /\ UNCHANGED <<calls, blockMoves>>
    BY DEF Detach
  <1> DEFINE w == Detached(blockMoves, c, b)
  <1>4. w \in Good(blockMoves) /\ w.hash # NoBlock
    <2>1. w \in Good(blockMoves) /\ Parent[b] # NoBlock
      <3> HIDE DEF c
      <3> QED  BY <1>1, DetachedGood
    <2>2. w.hash = Parent[b]
      BY DEF Detached
    <2> QED  BY <2>1, <2>2
  <1>5. Backward(Open(f, c, s, l, n), b, FirstBlock) = Open(f, w, s, l, n)
    <2> HIDE DEF f, c, l, n
    <2> QED  BY <1>1, <1>2, BackwardDetaches
  <1>6. Finish(Open(f, w, s, l, n), flush, due)
    BY <1>2, <1>3, <1>5
  <1> HIDE DEF w
  <1> QED
    BY <1>2, <1>3, <1>4, <1>6, FinishKeeps

\* A rollback goes back to contents that were good when they were saved.
LEMMA RollbackOK ==
    ASSUME NEW moves, NEW f \in Good(moves), NEW w, NEW s \in Seq(Good(moves)), s # <<>>,
           NEW l \in BOOLEAN, NEW n \in Nat, NEW r,
           r = SqRollbackTransaction(Open(f, w, s, l, n))
    PROVE  StorageOK(moves, r) /\ r.snapshots = n /\ ~r.started
  <1> DEFINE v == Last(s)
  <1>1. v \in Good(moves)
    BY StackFront
  <1>2. r = Closed(f, v, s, l, n)
    BY RollbackCloses
  <1> HIDE DEF v
  <1>3. StorageOK(moves, Closed(f, v, s, l, n))
    BY <1>1, ClosedIsStorage
  <1> QED
    BY <1>2, <1>3, ClosedParts

LEMMA AttachThrowsKeeps ==
    ASSUME SqlInv, NEW b \in Block, AttachThrows(b)
    PROVE  SqlInv'
  <1> DEFINE f == sq.file
             c == sq.work
             l == sq.wal
             n == sq.snapshots
             v == [c EXCEPT !.rows = UpdateState(c.rows, blockMoves[b])]
  <1>1. StorageOK(blockMoves, sq) /\ sq.abort = "none" /\ stage = "idle" /\ stage' = stage
        /\ UNCHANGED <<calls, blockMoves>>
    BY DEF SqlInv, AttachThrows, Idle
  <1>2. f \in Good(blockMoves) /\ l \in BOOLEAN /\ n \in Nat /\ n = sq.snapshots
    BY SqlInvParts
  <1>3. PICK s \in Seq(Good(blockMoves)) : s # <<>> /\ Begun(sq) = Open(f, c, s, l, n)
    BY <1>1, BeginOpens
  <1> DEFINE q == Open(f, c, s, l, n)
  <1>4. q.work = c
    BY OpenParts
  <1>5. sq' = SqRollbackTransaction(SqlExecute(q, v))
    <2> HIDE DEF q, c
    <2> QED  BY <1>3, <1>4 DEF AttachThrows, q
  <1>6. SqlExecute(q, v) = Open(f, v, s, l, n)
    <2> HIDE DEF v, c, f, l, n
    <2> QED  BY <1>3, OpenExecute
  <1>7. sq' = SqRollbackTransaction(Open(f, v, s, l, n))
    BY <1>5, <1>6
  <1> HIDE DEF f, c, l, n, v, q
  <1>8. StorageOK(blockMoves, sq') /\ sq'.snapshots = n
    BY <1>2, <1>3, <1>7, RollbackOK
  <1>9. StageOK(sq', stage')
    BY <1>1 DEF StageOK
  <1> QED
    BY <1>1, <1>2, <1>8, <1>9, KeepsCalls

LEMMA PruneKeeps ==
    ASSUME SqlInv, NEW flush, NEW due, Prune(flush, due)
    PROVE  SqlInv'
  <1> DEFINE f == sq.file
             c == sq.work
             l == sq.wal
             n == sq.snapshots
             h == Height[c.hash] - 1
             w == Pruned(c, h)
  <1>1. StorageOK(blockMoves, sq) /\ sq.abort = "none" /\ stage = "idle" /\ c.hash # NoBlock
        /\ UNCHANGED <<calls, blockMoves>>
    BY DEF SqlInv, Prune, Idle
  <1>2. f \in Good(blockMoves) /\ l \in BOOLEAN /\ n \in Nat /\ n = sq.snapshots
        /\ c \in Good(blockMoves)
    BY SqlInvParts
  <1>3. PICK s \in Seq(Good(blockMoves)) : s # <<>> /\ Begun(sq) = Open(f, c, s, l, n)
    BY <1>1, BeginOpens
  <1>4. sq' = Finished(SqPruneUndoData(Begun(sq), h), flush)
        /\ stage' \in {"idle", "prune checkpoint"}
    BY <1>1 DEF Prune, Finished
  <1> HIDE DEF h
  <1>5. w \in Good(blockMoves) /\ w.hash = c.hash
    <2> HIDE DEF c
    <2> QED  BY <1>2, PrunedGood
  <1>6. SqPruneUndoData(Open(f, c, s, l, n), h) = Open(f, w, s, l, n)
    <2> HIDE DEF f, c, l, n
    <2> QED  BY <1>3, PruneIn
  <1>7. sq' = Finished(Open(f, w, s, l, n), flush)
    BY <1>3, <1>4, <1>6
  <1> HIDE DEF f, l, n, w
  <1>8. StorageOK(blockMoves, sq') /\ sq'.work = w /\ sq'.snapshots = n
    BY <1>2, <1>3, <1>5, <1>7, FinishedOK
  <1>9. StageOK(sq', stage')
    BY <1>1, <1>4, <1>5, <1>8 DEF StageOK
  <1> QED
    BY <1>1, <1>2, <1>8, <1>9, KeepsCalls

\* A checkpoint inside of a savepoint aborts, and changes nothing else.
LEMMA CheckpointKeeps ==
    ASSUME SqlInv, Checkpoint
    PROVE  SqlInv'
  <1> DEFINE why == "checkpoint"
  <1>1. sq \in SqStorage(blockMoves) /\ sq.abort = "none" /\ UNCHANGED <<calls, blockMoves>>
        /\ stage \in {"checkpoint", "prune checkpoint"} /\ stage' \in {"committed", "idle"}
    BY SqlInvParts DEF Checkpoint
  <1>2. sq' \in {sq, [sq EXCEPT !.abort = why]}
    BY DEF Checkpoint, WalCheckpoint, SqChecked
  <1>3. why \in {"none", "checkpoint"}
    OBVIOUS
  <1> HIDE DEF why
  <1>4. /\ sq' \in SqStorage(blockMoves) /\ sq'.work = sq.work /\ sq'.stack = sq.stack
        /\ sq'.started = sq.started /\ sq'.snapshots = sq.snapshots
    BY <1>1, <1>2, <1>3 DEF SqStorage
  <1>5. StorageOK(blockMoves, sq')
    BY <1>4, SqlInvParts DEF StorageOK
  <1>6. StageOK(sq', stage')
    BY <1>1, <1>4 DEF SqlInv, StageOK
  <1> QED
    BY <1>1, <1>4, <1>5, <1>6, KeepsCalls

LEMMA UpdatedKeeps ==
    ASSUME SqlInv, Updated
    PROVE  SqlInv'
  <1> DEFINE f == sq.file
             c == sq.work
             s == sq.stack
             l == sq.wal
             t == sq.started
             n == sq.snapshots
  <1>1. sq \in SqStorage(blockMoves) /\ sq.abort = "none" /\ UNCHANGED <<calls, blockMoves>>
        /\ stage' = "idle" /\ c.hash # NoBlock
    BY SqlInvParts DEF SqlInv, StageOK, Updated
  <1>2. /\ f \in Good(blockMoves) /\ c \in Good(blockMoves) /\ s \in Seq(Good(blockMoves))
        /\ l \in BOOLEAN /\ t \in BOOLEAN /\ n \in Nat /\ n = sq.snapshots
        /\ (t => s # <<>>)
    BY SqlInvParts
  <1>3. EnsureCurrentState(sq, c.state, FirstBlock) = sq
    BY <1>1, <1>2, EnsureCurrentStateHolds
  <1>4. sq' = Process(sq, c.hash)
    BY <1>1, <1>3 DEF Updated, GameStateUpdated
  <1>5. sq = Sq(f, c, s, l, t, n)
    BY <1>1, SqOf
  <1> HIDE DEF f, c, s, l, t, n
  <1>6. PICK g \in Good(blockMoves), v \in Good(blockMoves) :
            v.hash = c.hash /\ Process(Sq(f, c, s, l, t, n), c.hash) = Sq(g, v, s, l, t, n)
    BY <1>1, <1>2, ProcessKeeps
  <1>7. sq' = Sq(g, v, s, l, t, n)
    BY <1>4, <1>5, <1>6
  <1>8. sq' \in SqStorage(blockMoves)
    BY <1>2, <1>7, SqIsStorage
  <1>9. sq'.started = t /\ sq'.stack = s /\ sq'.snapshots = n
    BY <1>7, SqParts
  <1>10. StorageOK(blockMoves, sq')
    BY <1>2, <1>8, <1>9 DEF StorageOK
  <1>11. StageOK(sq', stage')
    BY <1>1 DEF StageOK
  <1> QED
    BY <1>1, <1>2, <1>9, <1>10, <1>11, KeepsCalls

LEMMA ResyncKeeps ==
    ASSUME SqlInv, Resync
    PROVE  SqlInv'
  <1> DEFINE f == sq.file
             c == sq.work
             s == sq.stack
             l == sq.wal
             n == sq.snapshots
  <1>1. sq \in SqStorage(blockMoves) /\ sq.abort = "none" /\ UNCHANGED <<calls, blockMoves>>
        /\ stage' = "clear" /\ StorageOK(blockMoves, sq)
    BY SqlInvParts DEF SqlInv, Resync, Idle
  <1>2. /\ f \in Good(blockMoves) /\ s \in Seq(Good(blockMoves)) /\ l \in BOOLEAN
        /\ n \in Nat /\ n = sq.snapshots
    BY SqlInvParts
  <1>3. StorageOK(blockMoves, sq') /\ sq'.snapshots = sq.snapshots /\ ~sq'.started
    <2>1. CASE sq.started
      <3>1. sq = Open(f, c, s, l, n) /\ s # <<>>
        BY <1>1, <2>1, SqOf, SqlInvParts
      <3>2. sq' = SqRollbackTransaction(sq)
        BY <2>1 DEF Resync, Aborted
      <3> HIDE DEF f, c, s, l, n
      <3> QED  BY <1>2, <3>1, <3>2, RollbackOK
    <2>2. CASE ~sq.started
      BY <1>1, <2>2 DEF Resync, Aborted
    <2> QED  BY <2>1, <2>2
  <1>4. StageOK(sq', stage')
    BY <1>1, <1>3 DEF StageOK
  <1> QED
    BY <1>1, <1>3, <1>4, KeepsCalls

LEMMA ClearStorageKeeps ==
    ASSUME SqlInv, ClearStorage
    PROVE  SqlInv'
  <1> DEFINE c == SetupSchema(EmptyRows)
             l == sq.wal
             d == OpenDatabase(c, l)
  <1>1. /\ sq.abort = "none" /\ UNCHANGED <<calls, blockMoves>> /\ stage' = "initialise"
        /\ ~sq.started /\ sq.started \in BOOLEAN /\ sq.snapshots = 0 /\ l \in BOOLEAN
    BY SqlInvParts DEF SqlInv, StageOK, ClearStorage, NoSnapshots
  <1>2. c \in Good(blockMoves) /\ c.hash = NoBlock
    BY NewGood
  <1> HIDE DEF c, l
  <1>3. StorageOK(blockMoves, d) /\ d.snapshots = 0 /\ d.abort = "none" /\ ~d.started /\ d.work = c
    BY <1>1, <1>2, NewDatabase
  <1>4. sq' = [d EXCEPT !.started = sq.started, !.abort = sq.abort]
    BY DEF ClearStorage, SqClear, c, l
  <1> HIDE DEF d
  <1>5. sq' = d
    <2> DEFINE t == sq.started
               a == sq.abort
    <2>1. d \in SqStorage(blockMoves) /\ d.started \in BOOLEAN
      BY <1>3 DEF StorageOK, SqStorage
    <2>2. t = d.started /\ a = d.abort
      BY <1>1, <1>3, <2>1
    <2>3. sq' = [d EXCEPT !.started = t, !.abort = a]
      BY <1>4
    <2> HIDE DEF t, a
    <2> QED  BY <2>1, <2>2, <2>3 DEF SqStorage
  <1>6. StageOK(sq', stage')
    BY <1>1, <1>2, <1>3, <1>5 DEF StageOK
  <1> QED
    BY <1>1, <1>3, <1>5, <1>6, KeepsCalls

LEMMA GetInitialStateKeeps ==
    ASSUME SqlInv, GetInitialState
    PROVE  SqlInv'
  <1> DEFINE f == sq.file
             c == sq.work
             s == sq.stack
             l == sq.wal
             t == sq.started
             n == sq.snapshots
  <1>1. sq \in SqStorage(blockMoves) /\ sq.abort = "none" /\ UNCHANGED <<calls, blockMoves>>
        /\ stage' = "genesis" /\ c.hash = NoBlock /\ sq' = InitialiseGame(sq)
    BY SqlInvParts DEF SqlInv, StageOK, GetInitialState
  <1>2. /\ f \in Good(blockMoves) /\ c \in Good(blockMoves) /\ s \in Seq(Good(blockMoves))
        /\ l \in BOOLEAN /\ t \in BOOLEAN /\ n \in Nat /\ n = sq.snapshots
        /\ (t => s # <<>>)
    BY SqlInvParts
  <1>3. sq = Sq(f, c, s, l, t, n)
    BY <1>1, SqOf
  <1> HIDE DEF f, c, s, l, t, n
  <1>4. PICK g \in Good(blockMoves), v \in Good(blockMoves) :
            /\ v.hash = NoBlock /\ v.inited
            /\ InitialiseGame(Sq(f, c, s, l, t, n)) = Sq(g, v, s, l, t, n)
    BY <1>1, <1>2, InitialiseKeeps
  <1>5. sq' = Sq(g, v, s, l, t, n)
    BY <1>1, <1>3, <1>4
  <1>6. sq' \in SqStorage(blockMoves)
    BY <1>2, <1>5, SqIsStorage
  <1>7. sq'.started = t /\ sq'.stack = s /\ sq'.snapshots = n /\ sq'.work = v
    BY <1>5, SqParts
  <1>8. StorageOK(blockMoves, sq')
    BY <1>2, <1>6, <1>7 DEF StorageOK
  <1>9. StageOK(sq', stage')
    BY <1>1, <1>4, <1>7 DEF StageOK
  <1> QED
    BY <1>1, <1>2, <1>7, <1>8, <1>9, KeepsCalls

LEMMA StoreGenesisKeeps ==
    ASSUME SqlInv, NEW flush, NEW due, StoreGenesis(flush, due)
    PROVE  SqlInv'
  <1> DEFINE f == sq.file
             c == sq.work
             l == sq.wal
             n == sq.snapshots
             w == WithBlock(c, FirstBlock, Initial)
  <1>1. StorageOK(blockMoves, sq) /\ sq.abort = "none" /\ c \in Good(blockMoves)
        /\ c.hash = NoBlock /\ c.inited
    BY SqlInvParts DEF SqlInv, StageOK, StoreGenesis
  <1>2. PICK s \in Seq(Good(blockMoves)) : s # <<>> /\ Begun(sq) = Open(f, c, s, l, n)
    BY <1>1, BeginOpens
  <1>3. Finish(SetCurrentGameState(Begun(sq), FirstBlock, Initial), flush, due)
        /\ UNCHANGED <<calls, blockMoves>>
    BY DEF StoreGenesis
  <1>4. w \in Good(blockMoves) /\ w.hash # NoBlock
    <2>1. w = [c EXCEPT !.hash = FirstBlock, !.state = Initial]
      BY DEF WithBlock
    <2> HIDE DEF c, w
    <2> QED  BY <1>1, <2>1, GenesisGood
  <1>5. SetCurrentGameState(Open(f, c, s, l, n), FirstBlock, Initial) = Open(f, w, s, l, n)
    <2> HIDE DEF f, c, l, n
    <2> QED  BY <1>2, SetCurrentGameStateIn
  <1>6. Finish(Open(f, w, s, l, n), flush, due)
    BY <1>2, <1>3, <1>5
  <1> HIDE DEF w
  <1> QED
    BY <1>2, <1>3, <1>4, <1>6, FinishKeeps

\* A snapshot for the keyword of the current state is of the current block.
LEMMA SnapshotIsCurrent ==
    ASSUME NEW moves, NEW c \in Good(moves), NEW f \in Good(moves), c.hash # NoBlock,
           CheckCurrentState(f, c.state, FirstBlock)
    PROVE  f.hash = c.hash /\ f.rows = Replay(moves)[c.hash]
  <1>1. c.state = BlockKeyword(c.hash) \/ (c.state = Initial /\ c.hash = FirstBlock)
    BY GoodParts
  <1>2. f.hash # NoBlock /\ f.rows = Replay(moves)[f.hash]
    BY GoodParts DEF CheckCurrentState
  <1>3. f.hash = c.hash
    BY <1>1 DEF CheckCurrentState, BlockKeyword, Initial
  <1> QED
    BY <1>2, <1>3

LEMMA ReadStartKeeps ==
    ASSUME SqlInv, NEW r \in Reader, ReadStart(r)
    PROVE  SqlInv'
  <1> DEFINE c == sq.work
             f == sq.file
             snap == SnapshotFits(c.state)
             ph == IF snap THEN "reading" ELSE "reply"
             rows == IF snap THEN f.rows ELSE c.rows
             call == [phase |-> ph, block |-> c.hash, rows |-> rows]
  <1>1. /\ sq \in SqStorage(blockMoves) /\ StorageOK(blockMoves, sq)
        /\ sq.abort = "none" /\ UNCHANGED <<stage, blockMoves>> /\ stage = "idle"
        /\ c \in Good(blockMoves) /\ f \in Good(blockMoves) /\ c.hash # NoBlock
        /\ calls[r].phase = "none" /\ CallsOK(blockMoves, sq.snapshots, calls)
        /\ sq.snapshots \in Nat
    BY SqlInvParts DEF SqlInv, ReadStart, Idle
  <1>2. /\ calls' = [calls EXCEPT ![r] = call]
        /\ sq' = IF snap THEN GetSnapshot(sq) ELSE EnsureCurrentState(sq, c.state, FirstBlock)
    BY DEF ReadStart
  <1>3. c.hash \in Block /\ c.rows = Replay(blockMoves)[c.hash]
    BY <1>1, GoodParts
  <1>4. rows = Replay(blockMoves)[c.hash]
    <2>1. CASE snap
      <3>1. CheckCurrentState(f, c.state, FirstBlock)
        BY <2>1 DEF SnapshotFits
      <3>2. f.rows = Replay(blockMoves)[c.hash]
        <4> HIDE DEF f, c
        <4> QED  BY <1>1, <3>1, SnapshotIsCurrent
      <3> QED  BY <2>1, <3>2
    <2>2. CASE ~snap
      BY <1>3, <2>2
    <2> QED  BY <2>1, <2>2
  <1> HIDE DEF rows
  <1>5. ph \in {"reading", "reply"} /\ (ph = "reading" <=> snap)
    OBVIOUS
  <1> HIDE DEF snap, ph
  <1>6. call \in Call(blockMoves) /\ call.phase = ph /\ call.block = c.hash /\ call.rows = rows
    BY <1>3, <1>4, <1>5 DEF Call
  <1> HIDE DEF call
  <1>7. /\ calls \in [Reader -> Call(blockMoves)]
        /\ \A x \in Reader : calls[x].phase # "none" =>
              calls[x].block \in Block /\ calls[x].rows = Replay(blockMoves)[calls[x].block]
        /\ sq.snapshots = Cardinality(Reading(calls))
    BY <1>1 DEF CallsOK
  <1>8. calls' \in [Reader -> Call(blockMoves)]
        /\ \A x \in Reader : calls'[x] = IF x = r THEN call ELSE calls[x]
    BY <1>2, <1>6, <1>7
  <1>9. \A x \in Reader : calls'[x].phase # "none" =>
           calls'[x].block \in Block /\ calls'[x].rows = Replay(blockMoves)[calls'[x].block]
    BY <1>3, <1>4, <1>6, <1>7, <1>8
  <1>10. IsFiniteSet(Reading(calls)) /\ r \notin Reading(calls)
    BY <1>1, SqlAssumption, FS_Subset DEF Reading
  <1>11. CASE snap
    <2> DEFINE n == sq.snapshots + 1
    <2>1. sq' = [sq EXCEPT !.snapshots = n] /\ n \in Nat /\ n = sq.snapshots + 1
      BY <1>1, <1>2, <1>11 DEF GetSnapshot
    <2> HIDE DEF n
    <2>2. /\ sq' \in SqStorage(blockMoves) /\ sq'.snapshots = n /\ sq'.stack = sq.stack
          /\ sq'.started = sq.started
      BY <1>1, <2>1 DEF SqStorage
    <2>3. StorageOK(blockMoves, sq')
      BY <1>1, <2>2 DEF StorageOK
    <2>4. Reading(calls') = Reading(calls) \cup {r}
      BY <1>5, <1>6, <1>8, <1>11 DEF Reading
    <2>5. n = Cardinality(Reading(calls'))
      BY <1>7, <1>10, <2>1, <2>4, FS_AddElement
    <2>6. StageOK(sq', stage')
      BY <1>1 DEF StageOK
    <2>7. CallsOK(blockMoves', sq'.snapshots, calls')
      BY <1>1, <1>8, <1>9, <2>2, <2>5 DEF CallsOK
    <2> QED  BY <1>1, <2>3, <2>6, <2>7 DEF SqlInv
  <1>12. CASE ~snap
    <2>1. sq' = sq
      BY <1>1, <1>2, <1>12, EnsureCurrentStateHolds
    <2>2. Reading(calls') = Reading(calls)
      BY <1>1, <1>5, <1>6, <1>8, <1>12 DEF Reading
    <2>3. StageOK(sq', stage')
      BY <1>1 DEF StageOK
    <2>4. CallsOK(blockMoves', sq'.snapshots, calls')
      BY <1>1, <1>7, <1>8, <1>9, <2>1, <2>2 DEF CallsOK
    <2> QED  BY <1>1, <2>1, <2>3, <2>4 DEF SqlInv
  <1> QED
    BY <1>11, <1>12

LEMMA ReadFinishKeeps ==
    ASSUME SqlInv, NEW r \in Reader, ReadFinish(r)
    PROVE  SqlInv'
  <1>1. /\ sq \in SqStorage(blockMoves) /\ StorageOK(blockMoves, sq)
        /\ sq.abort = "none" /\ UNCHANGED <<stage, blockMoves>> /\ StageOK(sq, stage)
        /\ calls[r].phase # "none" /\ CallsOK(blockMoves, sq.snapshots, calls)
        /\ sq.snapshots \in Nat
    BY SqlInvParts DEF SqlInv, ReadFinish
  <1>2. /\ calls' = [calls EXCEPT ![r] = NoCall]
        /\ sq' = IF calls[r].phase = "reading" THEN UnrefSnapshot(sq) ELSE sq
    BY DEF ReadFinish
  <1>3. NoCall \in Call(blockMoves) /\ NoCall.phase = "none"
    BY DEF NoCall, Call
  <1>4. /\ calls \in [Reader -> Call(blockMoves)]
        /\ \A x \in Reader : calls[x].phase # "none" =>
              calls[x].block \in Block /\ calls[x].rows = Replay(blockMoves)[calls[x].block]
        /\ sq.snapshots = Cardinality(Reading(calls))
    BY <1>1 DEF CallsOK
  <1>5. calls' \in [Reader -> Call(blockMoves)]
        /\ \A x \in Reader : calls'[x] = IF x = r THEN NoCall ELSE calls[x]
    BY <1>2, <1>3, <1>4
  <1>6. \A x \in Reader : calls'[x].phase # "none" =>
           calls'[x].block \in Block /\ calls'[x].rows = Replay(blockMoves)[calls'[x].block]
    BY <1>3, <1>4, <1>5
  <1>7. IsFiniteSet(Reading(calls))
    BY SqlAssumption, FS_Subset DEF Reading
  <1>8. CASE calls[r].phase = "reading"
    <2> DEFINE n == sq.snapshots - 1
    <2>1. r \in Reading(calls)
      BY <1>8 DEF Reading
    <2>2. Reading(calls') = Reading(calls) \ {r}
      BY <1>3, <1>5 DEF Reading
    <2>3. /\ Cardinality(Reading(calls')) = n
          /\ Cardinality(Reading(calls')) \in Nat
      BY <1>4, <1>7, <2>1, <2>2, FS_RemoveElement, FS_CardinalityType
    <2>4. sq.snapshots > 0 /\ n \in Nat
      BY <1>1, <2>3
    <2>5. sq' = [sq EXCEPT !.snapshots = n]
      BY <1>1, <1>2, <1>8, <2>4 DEF UnrefSnapshot, SqChecked
    <2> HIDE DEF n
    <2>6. /\ sq' \in SqStorage(blockMoves) /\ sq'.snapshots = n /\ sq'.stack = sq.stack
          /\ sq'.started = sq.started /\ sq'.work = sq.work
      BY <1>1, <2>4, <2>5 DEF SqStorage
    <2>7. StorageOK(blockMoves, sq')
      BY <1>1, <2>6 DEF StorageOK
    <2>8. StageOK(sq', stage')
      BY <1>1, <2>6 DEF StageOK
    <2>9. CallsOK(blockMoves', sq'.snapshots, calls')
      BY <1>1, <1>5, <1>6, <2>3, <2>6 DEF CallsOK
    <2> QED  BY <1>1, <2>7, <2>8, <2>9 DEF SqlInv
  <1>9. CASE calls[r].phase # "reading"
    <2>1. sq' = sq
      BY <1>2, <1>9
    <2>2. Reading(calls') = Reading(calls)
      BY <1>3, <1>5, <1>9 DEF Reading
    <2>3. CallsOK(blockMoves', sq'.snapshots, calls')
      BY <1>1, <1>4, <1>5, <1>6, <2>1, <2>2 DEF CallsOK
    <2> QED  BY <1>1, <2>1, <2>3 DEF SqlInv
  <1> QED
    BY <1>8, <1>9

LEMMA SqlRestartKeeps ==
    ASSUME SqlInv, SqlRestart
    PROVE  SqlInv'
  <1> DEFINE f == sq.file
             l == sq.wal
  <1>1. f \in Good(blockMoves) /\ l \in BOOLEAN /\ UNCHANGED blockMoves /\ stage' = "idle"
        /\ sq' = OpenDatabase(f, l) /\ calls' = [r \in Reader |-> NoCall]
    BY SqlInvParts DEF SqlRestart
  <1> HIDE DEF f, l
  <1>2. StorageOK(blockMoves, sq') /\ sq'.snapshots = 0
    BY <1>1, NewDatabase
  <1>3. StageOK(sq', stage')
    BY <1>1 DEF StageOK
  <1>4. CallsOK(blockMoves, 0, calls')
    BY <1>1, NoCalls
  <1> QED
    BY <1>1, <1>2, <1>3, <1>4 DEF SqlInv

LEMMA SqlNextInv == SqlInv /\ [SqlNext]_sqlVars => SqlInv'
  <1> SUFFICES ASSUME SqlInv, [SqlNext]_sqlVars PROVE SqlInv'
    OBVIOUS
  <1>1. ASSUME NEW flush \in BOOLEAN, NEW due \in BOOLEAN, NEW b \in Block, Attach(b, flush, due)
        PROVE  SqlInv'
    BY <1>1, AttachKeeps
  <1>2. ASSUME NEW flush \in BOOLEAN, NEW due \in BOOLEAN, NEW b \in Block, Detach(b, flush, due)
        PROVE  SqlInv'
    BY <1>2, DetachKeeps
  <1>3. ASSUME NEW flush \in BOOLEAN, NEW due \in BOOLEAN, Prune(flush, due)
        PROVE  SqlInv'
    BY <1>3, PruneKeeps
  <1>4. ASSUME NEW flush \in BOOLEAN, NEW due \in BOOLEAN, StoreGenesis(flush, due)
        PROVE  SqlInv'
    BY <1>4, StoreGenesisKeeps
  <1>5. ASSUME NEW b \in Block, AttachThrows(b) PROVE SqlInv'
    BY <1>5, AttachThrowsKeeps
  <1>6. CASE Resync
    BY <1>6, ResyncKeeps
  <1>7. CASE Checkpoint
    BY <1>7, CheckpointKeeps
  <1>8. CASE Updated
    BY <1>8, UpdatedKeeps
  <1>9. CASE ClearStorage
    BY <1>9, ClearStorageKeeps
  <1>10. CASE GetInitialState
    BY <1>10, GetInitialStateKeeps
  <1>11. ASSUME NEW r \in Reader, ReadStart(r) PROVE SqlInv'
    BY <1>11, ReadStartKeeps
  <1>12. ASSUME NEW r \in Reader, ReadFinish(r) PROVE SqlInv'
    BY <1>12, ReadFinishKeeps
  <1>13. CASE SqlRestart
    BY <1>13, SqlRestartKeeps
  <1>14. CASE UNCHANGED sqlVars
    BY <1>14 DEF SqlInv, StorageOK, StageOK, CallsOK, Reading, sqlVars
  <1>15. CASE GameStep
    BY <1>1, <1>2, <1>3, <1>4, <1>5, <1>6, <1>15 DEF GameStep
  <1>16. CASE Continue
    BY <1>7, <1>8, <1>9, <1>10, <1>16 DEF Continue
  <1> QED
    BY <1>11, <1>12, <1>13, <1>14, <1>15, <1>16 DEF SqlNext

\* The invariant holds always.
THEOREM SqlInvariant == SqlSpec => []SqlInv
  BY SqlInitInv, SqlNextInv, PTL DEF SqlSpec

----------------------------------------------------------------------------
(* The properties.                                                         *)

\* For every block tree, rules, choice of moves, number of readers and bound on
\* exceptions: after any attaches, detaches by inverted changesets, rollbacks,
\* prunings, restarts and starts from scratch, the game's tables, as seen and as
\* committed, are those that a replay of the chain up to the current block gives
\* (SQLiteGame::ProcessForwardInternal and ProcessBackwardsInternal).
THEOREM RowsAreReplayed == SqlSpec => []RowsMatchBlock
  <1>1. SqlInv => RowsMatchBlock
    <2> SUFFICES ASSUME SqlInv PROVE RowsMatchBlock
      OBVIOUS
    <2>1. \A c \in {sq.work, sq.file} : c \in Good(blockMoves)
      BY SqlInvParts
    <2> QED  BY <2>1, GoodParts DEF RowsMatchBlock
  <1> QED
    BY <1>1, SqlInvariant, PTL

\* No CHECK of SQLiteStorage, SQLiteGame or the processors fails, other than the
\* checkpoint's: transactions are not nested or missing, the state keyword is the
\* current one, an inverted changeset has no conflicts, a hash that is computed
\* again is the same, and no snapshot is given back twice.
THEOREM SqlChecksHold == SqlSpec => []SqlNoAbort
  <1>1. SqlInv => SqlNoAbort
    BY SqlInvParts DEF SqlNoAbort, SqStorage
  <1> QED
    BY <1>1, SqlInvariant, PTL

\* Every reply of GetCustomStateData is the state of the block it names, although
\* it is read without the mutex while blocks come and go, and the storage counts
\* exactly the snapshots in use, which Clear and the checkpoint wait for.
THEOREM RepliesAreOfTheirBlock == SqlSpec => []AnswersMatchBlock
  <1>1. SqlInv => AnswersMatchBlock
    <2> SUFFICES ASSUME SqlInv PROVE AnswersMatchBlock
      OBVIOUS
    <2>1. CallsOK(blockMoves, sq.snapshots, calls)
      BY DEF SqlInv
    <2> QED  BY <2>1 DEF CallsOK, Reading, AnswersMatchBlock
  <1> QED
    BY <1>1, SqlInvariant, PTL
=============================================================================
