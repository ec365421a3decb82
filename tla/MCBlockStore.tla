---------------------------- MODULE MCBlockStore ----------------------------
(***************************************************************************)
(* The two storages, one of them in each behaviour: LMDB under the         *)
(* transaction manager, and an SQLite GSP with the non-fungible game.      *)
(* Four blocks g0 - a0 - c0 and g0 - b0, a state per block, batches of up  *)
(* to 3.  The moves mint, send and burn, more than there is and nothing    *)
(* at all, twice the same asset, and with bad amounts and names.           *)
(***************************************************************************)
EXTENDS BlockStore, SQLiteGsp, TLC

CONSTANTS g0, a0, b0, c0, u1, u2

MCParent == (g0 :> NoBlock) @@ (a0 :> g0) @@ (b0 :> g0) @@ (c0 :> a0)
MCHeight == (g0 :> 1) @@ (a0 :> 2) @@ (b0 :> 2) @@ (c0 :> 3)
MCStateAt == [x \in Block |-> <<"state", x>>]
MCUndoOf == [x \in Block |-> <<"undo", x>>]
MCGameState == {MCStateAt[x] : x \in Block}
MCUndoData == {MCUndoOf[x] : x \in Block}

MintOp(a, n) == [op |-> "m", a |-> a, n |-> n, d |-> 9]
SendOp(a, n, r) == [op |-> "t", a |-> a, n |-> n, r |-> r]
BurnOp(a, n) == [op |-> "b", a |-> a, n |-> n]
Bad == [op |-> "bad"]
By(u, ops) == [name |-> u, ops |-> ops]
Gold == <<u1, "gold">>
MCMoves1 ==
    (g0 :> <<>>) @@ (a0 :> <<By(u1, <<MintOp("gold", 2), SendOp(Gold, 1, u2)>>)>>)
    @@ (b0 :> <<By(u1, <<MintOp("gold", 1), MintOp("gold", 2), Bad>>), By(u2, <<SendOp(Gold, 1, u1)>>)>>)
    @@ (c0 :> <<By(u2, <<SendOp(Gold, 1, u1)>>), By(u1, <<SendOp(Gold, 2, u1), BurnOp(Gold, 1), BurnOp(Gold, 2)>>)>>)
MCMoves2 ==
    (g0 :> <<>>) @@ (a0 :> <<By(u1, <<MintOp("gold", 2)>>)>>)
    @@ (b0 :> <<By(u1, <<MintOp("gold", 3), MintOp("", 0)>>), By(u2, <<MintOp("gold", 0)>>)>>)
    @@ (c0 :> <<By(u1, <<BurnOp(Gold, 2), MintOp("gold", 1), SendOp(Gold, 0, u2), SendOp(Gold, -1, u2)>>)>>)
MCGames == {[moves |-> MCMoves1, wal |-> TRUE], [moves |-> MCMoves2, wal |-> FALSE],
              [moves |-> MCMoves2, wal |-> TRUE]}
MCIdsTaken(moves) == Len(SelectSeq(moves, LAMBDA m : Head(m.ops).op = "m"))

----------------------------------------------------------------------------
VARIABLE part       \* which storage this behaviour is of

StoragesInit ==
    /\ StoreInit /\ SqlInit
    /\ part \in {"lmdb", "sqlite"}
    /\ part = "lmdb" => sq.wal /\ blockMoves = MCMoves1

LmdbNext == part = "lmdb" /\ StoreNext /\ UNCHANGED <<sqlVars, part>>
SqliteNext == part = "sqlite" /\ SqlNext /\ UNCHANGED <<storeVars, part>>
StoragesNext == LmdbNext \/ SqliteNext

StoragesSpec ==
    StoragesInit /\ [][StoragesNext]_<<storeVars, sqlVars, part>> /\ SqlFairness
=============================================================================
