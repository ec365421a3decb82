----------------------------- MODULE NonFungible -----------------------------
(***************************************************************************)
(* The non-fungible game: users mint assets, transfer and burn them.  Its  *)
(* database is a function from the rows' primary keys to their values.     *)
(* MoveParser checks a move; what it does with a valid operation is up to  *)
(* its subclass: MoveProcessor changes the database, PendingStateUpdater   *)
(* an overlay of pending values over it.                                   *)
(*                                                                         *)
(* A JSON operation is a record; op.op is "bad" for what is no object with *)
(* one of the three members of the right shape, op.n an arbitrary integer, *)
(* op.a may be an asset with an invalid name.                              *)
(***************************************************************************)
EXTENDS Integers, FiniteSets, SequencesExt

CONSTANTS
    User,
    AssetName,      \* the valid names of assets
    MaxAmount,
    NoRow           \* the value of a row that is not in the database

ASSUME NonFungibleAssumption ==
    /\ MaxAmount \in Nat
    /\ NoRow \notin Nat

\* An asset is named after its minter.
Asset == User \X AssetName
GetMinter(a) == a[1]

\* AmountFromJson, Asset::IsValidName and Asset::FromJson: what they accept.
AmountValid(n) == n >= 0 /\ n <= MaxAmount
IsValidName(nm) == nm \in AssetName
AssetFromJson(val) == val \in Asset

\* The tables: an asset's data, and a user's balance of an asset.
AssetRow(a) == <<"assets", a>>
BalanceRow(u, a) == <<"balances", u, a>>
NFRows == {AssetRow(a) : a \in Asset} \cup {BalanceRow(u, a) : u \in User, a \in Asset}

\* SetupDatabaseSchema and InitialiseState leave all tables empty.
NFInitialState == [k \in NFRows |-> NoRow]

----------------------------------------------------------------------------
(* MoveParser: whether an operation is valid, given what the subclass      *)
(* knows: whether the asset exists, and the sender's balance of it.        *)

HandleMint(op, exists) == IsValidName(op.a) /\ AmountValid(op.n) /\ ~exists

OwnsEnough(n, balance) == AmountValid(n) /\ n > 0 /\ n <= balance

HandleTransfer(op, balance) == AssetFromJson(op.a) /\ OwnsEnough(op.n, balance)

HandleBurn(op, balance) == AssetFromJson(op.a) /\ OwnsEnough(op.n, balance)

HandleOperation(op, exists, balance) ==
    \/ op.op = "m" /\ HandleMint(op, exists)
    \/ op.op = "t" /\ HandleTransfer(op, balance)
    \/ op.op = "b" /\ HandleBurn(op, balance)

----------------------------------------------------------------------------
(* MoveProcessor: the state is the database.                               *)

DbAssetExists(db, a) == db[AssetRow(a)] # NoRow

GetDbBalance(db, a, u) == IF db[BalanceRow(u, a)] = NoRow THEN 0 ELSE db[BalanceRow(u, a)]

\* Mutant: a balance of zero stays in the table.
UpdateBalanceKeepsZero(db, a, u, num) ==
    [db EXCEPT ![BalanceRow(u, a)] = GetDbBalance(db, a, u) + num]

UpdateBalance(db, a, u, num) ==
    LET new == GetDbBalance(db, a, u) + num
    IN  [db EXCEPT ![BalanceRow(u, a)] = IF new = 0 THEN NoRow ELSE new]

ProcessMint(db, a, supply, data) ==
    LET d == [db EXCEPT ![AssetRow(a)] = data]
    IN  IF supply > 0 THEN UpdateBalance(d, a, GetMinter(a), supply) ELSE d

ProcessTransfer(db, a, num, sender, recipient) ==
    UpdateBalance(UpdateBalance(db, a, sender, -num), a, recipient, num)

ProcessBurn(db, a, num, sender) == UpdateBalance(db, a, sender, -num)

ProcessOperation(db, name, op) ==
    CASE ~HandleOperation(op, DbAssetExists(db, <<name, op.a>>), GetDbBalance(db, op.a, name)) -> db
      [] op.op = "m" -> ProcessMint(db, <<name, op.a>>, op.n, op.d)
      [] op.op = "t" -> ProcessTransfer(db, op.a, op.n, name, op.r)
      [] op.op = "b" -> ProcessBurn(db, op.a, op.n, name)

\* A move is one operation or an array of them, each on top of the one before.
ProcessOne(db, mv) == FoldLeft(LAMBDA d, op : ProcessOperation(d, mv.name, op), db, mv.ops)

\* NonFungibleLogic::UpdateState with the moves of a block.
ProcessAll(db, moves) == FoldLeft(ProcessOne, db, moves)

----------------------------------------------------------------------------
(* PendingState and PendingStateUpdater: pending values, keyed like the    *)
(* rows, hide those of the confirmed state db.                             *)

ClearPending(db) == [db |-> db, assets |-> <<>>, balances |-> <<>>]

IsNewAsset(p, a) == a \in DOMAIN p.assets
AddAsset(p, a, data) ==
    [p EXCEPT !.assets = [x \in DOMAIN p.assets \cup {a} |-> IF x = a THEN data ELSE p.assets[x]]]
HasPendingBalance(p, a, u) == <<u, a>> \in DOMAIN p.balances
SetBalance(p, a, u, n) ==
    [p EXCEPT !.balances = [x \in DOMAIN p.balances \cup {<<u, a>>} |->
                               IF x = <<u, a>> THEN n ELSE p.balances[x]]]

\* Mutant: only assets of the confirmed state count as existing.
PendingAssetExistsDb(p, a) == DbAssetExists(p.db, a)
PendingAssetExists(p, a) == IsNewAsset(p, a) \/ DbAssetExists(p.db, a)

PendingBalance(p, a, u) ==
    IF HasPendingBalance(p, a, u) THEN p.balances[<<u, a>>] ELSE GetDbBalance(p.db, a, u)

PendingUpdateBalance(p, a, u, num) == SetBalance(p, a, u, PendingBalance(p, a, u) + num)

PendingMint(p, a, supply, data) ==
    LET q == AddAsset(p, a, data)
    IN  IF supply > 0 THEN PendingUpdateBalance(q, a, GetMinter(a), supply) ELSE q

PendingTransfer(p, a, num, sender, recipient) ==
    PendingUpdateBalance(PendingUpdateBalance(p, a, sender, -num), a, recipient, num)

PendingBurn(p, a, num, sender) == PendingUpdateBalance(p, a, sender, -num)

PendingOperation(p, name, op) ==
    CASE ~HandleOperation(op, PendingAssetExists(p, <<name, op.a>>), PendingBalance(p, op.a, name)) -> p
      [] op.op = "m" -> PendingMint(p, <<name, op.a>>, op.n, op.d)
      [] op.op = "t" -> PendingTransfer(p, op.a, op.n, name, op.r)
      [] op.op = "b" -> PendingBurn(p, op.a, op.n, name)

NFAddPendingMove(p, mv) == FoldLeft(LAMBDA q, op : PendingOperation(q, mv.name, op), p, mv.ops)

\* PendingState::ToJson: the new assets, and per user the changed balances.
PendingToJson(p) ==
    [assets   |-> {<<a, p.assets[a]>> : a \in DOMAIN p.assets},
     balances |-> [u \in {x[1] : x \in DOMAIN p.balances} |->
                      {<<x[2], p.balances[x]>> : x \in {y \in DOMAIN p.balances : y[1] = u}}]]

----------------------------------------------------------------------------
(* StateJsonExtractor: what the RPC calls return.                          *)

ListAssets(db) == {a \in Asset : DbAssetExists(db, a)}

GetUserBalances(db, u) ==
    {<<a, db[BalanceRow(u, a)]>> : a \in {x \in Asset : db[BalanceRow(u, x)] # NoRow}}

GetAssetDetails(db, a) ==
    LET owners == {u \in User : db[BalanceRow(u, a)] # NoRow}
    IN  [data     |-> db[AssetRow(a)],
         balances |-> [u \in owners |-> db[BalanceRow(u, a)]],
         supply   |-> FoldFunction(+, 0, [u \in owners |-> db[BalanceRow(u, a)]])]

FullState(db) == [a \in ListAssets(db) |-> GetAssetDetails(db, a)]

\* Every balance is that of an existing asset, positive, and within the limit
\* of the CHECKs of UpdateBalance and GetAssetDetails.
NFConsistent(db) ==
    /\ \A u \in User, a \in Asset :
          db[BalanceRow(u, a)] # NoRow =>
             DbAssetExists(db, a) /\ db[BalanceRow(u, a)] \in 1..MaxAmount
    /\ \A a \in Asset : GetAssetDetails(db, a).supply <= MaxAmount

\* The pending state of all moves over db says what the block with them gives.
PendingAgrees(db, moves) ==
    LET p == FoldLeft(NFAddPendingMove, ClearPending(db), moves)
        q == ProcessAll(db, moves)
        j == PendingToJson(p)
    IN  /\ \A a \in Asset : /\ PendingAssetExists(p, a) = DbAssetExists(q, a)
                             /\ IsNewAsset(p, a) => p.assets[a] = q[AssetRow(a)]
        /\ \A u \in User, a \in Asset :
              /\ PendingBalance(p, a, u) = GetDbBalance(q, a, u)
              /\ GetDbBalance(q, a, u) # GetDbBalance(db, a, u) =>
                    <<a, GetDbBalance(q, a, u)>> \in j.balances[u]
=============================================================================
