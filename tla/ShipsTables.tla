---------------------------- MODULE ShipsTables ----------------------------
(***************************************************************************)
(* The database of the ships GSP with several channels: the channels table *)
(* of the library, written back by the handles on its rows, the game's     *)
(* table channel_extradata beside it, the statistics, and the pending      *)
(* state that is derived from the confirmed one.  (ShipsLogic follows one  *)
(* channel with its proofs; here a proof is the turn count of its board    *)
(* and whether it is valid for the channel, and boards with the same count *)
(* are the same.)                                                          *)
(*                                                                         *)
(* db is a record of                                                       *)
(*   channels  id -> [names, count, dispute], dispute 0 for none           *)
(*   extra     id -> [created, participants]                               *)
(*   won, lost the rows of game_stats                                      *)
(*   failed    a CHECK failed                                              *)
(***************************************************************************)
EXTENDS Integers, Sequences, FiniteSets, FiniteSetsExt, SequencesExt

CONSTANTS
    Name,
    ChannelId,              \* IDs of the moves that create channels
    FinalTurn,              \* the turn count at which a board has a winner
    Unsigned,               \* 2^w for the width w of the code's unsigned
    DISPUTE_BLOCKS, CHANNEL_TIMEOUT_BLOCKS,
    MovesOfBlock,           \* the sequences of moves a block may have
    PendingOffers,          \* the moves that may be pending
    LastHeight, MaxPending  \* bounds

\* What is in the JSON of a move, and its ID.
ChainMove == [kind : {"create", "join", "abort", "loss", "dispute", "resolution", "several"},
              name : Name, id : ChannelId, count : Nat, valid : BOOLEAN]

\* IDs of moves are unique, and heights are numbers of the code's unsigned.
ASSUME TablesAssumption ==
    /\ {DISPUTE_BLOCKS, CHANNEL_TIMEOUT_BLOCKS, LastHeight, Unsigned} \subseteq Nat
    /\ LastHeight < Unsigned /\ DISPUTE_BLOCKS < Unsigned
    /\ MovesOfBlock \subseteq Seq(ChainMove) /\ PendingOffers \subseteq ChainMove
    /\ \A moves \in MovesOfBlock : \A i, j \in 1 .. Len(moves) :
          moves[i].kind = "create" /\ moves[j].kind = "create" /\ moves[i].id = moves[j].id => i = j

VARIABLES
    db,
    height,
    created,                \* IDs of create moves in the chain; they are unique
    pending,                \* ShipsPending: create, join, abort, channels
    offered                 \* history: the proofs pending moves came with

tablesVars == <<db, height, created, pending, offered>>

Without(f, ids) == [i \in DOMAIN f \ ids |-> f[i]]
With(f, id, row) == [i \in DOMAIN f \cup {id} |-> IF i = id THEN row ELSE f[i]]

EmptyTables ==
    [channels |-> <<>>, extra |-> <<>>, won |-> [n \in Name |-> 0],
     lost |-> [n \in Name |-> 0], failed |-> FALSE]

CheckThat(d, ok) == IF ok THEN d ELSE [d EXCEPT !.failed = TRUE]

----------------------------------------------------------------------------
(* Handles.  A changed one writes its row when it is destructed, whether   *)
(* the row is still there or not.                                          *)

GetById(d, id) == [id |-> id, row |-> d.channels[id], dirty |-> FALSE]

SetRow(h, row) == [h EXCEPT !.row = row, !.dirty = TRUE]

Destructed(d, h) ==
    IF h.dirty THEN [d EXCEPT !.channels = With(@, h.id, h.row)] ELSE d

DeleteChannels(d, ids) ==
    [d EXCEPT !.channels = Without(@, ids), !.extra = Without(@, ids)]

DeleteChannelById(d, id) == DeleteChannels(d, {id})

----------------------------------------------------------------------------
(* The board, with the players in turn.                                    *)

ParsedTurnCount(row) == IF Len(row.names) = 2 THEN row.count ELSE 0
HasTurn(count) == count # FinalTurn
PlayerInTurn(row) == row.names[(row.count % 2) + 1]
Opponent(row, n) == CHOOSE other \in Range(row.names) : other # n

UpdateStats(d, row, winner) ==
    [d EXCEPT !.won[winner] = @ + 1, !.lost[Opponent(row, winner)] = @ + 1]

\* Mutant: the handle is still there when the row is deleted.
CloseWonHandleLeft(d, h, winner) ==
    Destructed(DeleteChannelById(UpdateStats(d, h.row, winner), h.id), h)

\* UpdateStats, h.reset and DeleteChannelById, in this order.
CloseWon(d, h, winner) ==
    DeleteChannelById(Destructed(UpdateStats(d, h.row, winner), h), h.id)

----------------------------------------------------------------------------
(* The moves.  What their parsing requires is in the definitions named     *)
(* for it, which the pending moves share; a move with several actions has  *)
(* the kind "several", and nothing handles it.                             *)

IsChannel(d, mv) == mv.id \in DOMAIN d.channels

ParseJoinChannelMove(d, mv) ==
    /\ mv.kind = "join" /\ IsChannel(d, mv)
    /\ Len(d.channels[mv.id].names) = 1
    /\ d.channels[mv.id].names[1] # mv.name

ParseAbortChannelMove(d, mv) ==
    /\ mv.kind = "abort" /\ IsChannel(d, mv)
    /\ d.channels[mv.id].names = <<mv.name>>

ParseDisputeResolutionMove(d, mv) ==
    mv.kind \in {"dispute", "resolution"} /\ IsChannel(d, mv)

HandleCreateChannel(d, mv, h) ==
    LET new == SetRow([id |-> mv.id, row |-> <<>>, dirty |-> TRUE],
                      [names |-> <<mv.name>>, count |-> 0, dispute |-> 0])
        more == [d EXCEPT !.extra = With(@, mv.id, [created |-> h, participants |-> 1])]
    IN  IF mv.kind # "create" THEN d
        ELSE CheckThat(Destructed(more, new), ~ IsChannel(d, mv))

\* Reinitialise.
HandleJoinChannel(d, mv) ==
    LET old == GetById(d, mv.id)
        new == SetRow(old, [old.row EXCEPT !.names = Append(@, mv.name), !.count = 0])
    IN  IF ~ ParseJoinChannelMove(d, mv) THEN d
        ELSE Destructed([d EXCEPT !.extra[mv.id].participants = 2], new)

HandleAbortChannel(d, mv) ==
    IF ParseAbortChannelMove(d, mv) THEN DeleteChannelById(d, mv.id) ELSE d

\* mv.valid: the move names the channel's reinitialisation.
HandleDeclareLoss(d, mv) ==
    IF /\ mv.kind = "loss" /\ IsChannel(d, mv) /\ mv.valid
       /\ Len(d.channels[mv.id].names) = 2
       /\ mv.name \in Range(d.channels[mv.id].names)
      THEN CloseWon(d, GetById(d, mv.id), Opponent(d.channels[mv.id], mv.name))
      ELSE d

ProcessDispute(row, mv, h) ==
    IF /\ mv.valid /\ HasTurn(mv.count)
       /\ mv.count > row.count \/ (mv.count = row.count /\ row.dispute = 0)
      THEN {[row EXCEPT !.count = mv.count, !.dispute = h]}
      ELSE {}

ProcessResolution(row, mv) ==
    IF mv.valid /\ mv.count > row.count
      THEN {[row EXCEPT !.count = mv.count, !.dispute = 0]}
      ELSE {}

\* A board with a winner, who is the one not in turn, closes the channel.
HandleDisputeResolution(d, mv, h) ==
    LET hdl == GetById(d, mv.id)
        new == IF mv.kind = "dispute" THEN ProcessDispute(hdl.row, mv, h)
                                      ELSE ProcessResolution(hdl.row, mv)
        done(row) == IF HasTurn(row.count)
                       THEN Destructed(d, SetRow(hdl, row))
                       ELSE CloseWon(d, SetRow(hdl, row), Opponent(row, PlayerInTurn(row)))
    IN  IF \/ ~ ParseDisputeResolutionMove(d, mv)
           \/ Len(hdl.row.names) # 2
           \/ new = {}
          THEN d
          ELSE done(CHOOSE row \in new : TRUE)

HandleMove(d, mv, h) ==
    HandleDisputeResolution(
        HandleDeclareLoss(
            HandleAbortChannel(
                HandleJoinChannel(HandleCreateChannel(d, mv, h), mv), mv), mv), mv, h)

----------------------------------------------------------------------------
(* The end of a block                                                      *)

QueryForDisputeHeight(d, h) ==
    {id \in DOMAIN d.channels : d.channels[id].dispute \in 1..h}

\* A channel whose dispute has expired is won by the one not in turn.
ExpireDispute(d, id) ==
    LET row == d.channels[id]
    IN  CloseWon(CheckThat(d, Len(row.names) = 2 /\ HasTurn(row.count)), GetById(d, id),
                 Opponent(row, PlayerInTurn(row)))

\* The subtraction is of unsigned numbers.
ProcessExpiredDisputes(d, h) ==
    LET ids == SetToSeq(QueryForDisputeHeight(d, (h - DISPUTE_BLOCKS) % Unsigned))
        x[i \in 0 .. Len(ids)] == IF i = 0 THEN d ELSE ExpireDispute(x[i - 1], ids[i])
    IN  x[Len(ids)]

TimeOutChannels(d, h) ==
    LET old == {id \in DOMAIN d.extra :
                  /\ d.extra[id].participants < 2
                  /\ d.extra[id].created <= h - CHANNEL_TIMEOUT_BLOCKS}
        fine == \A id \in old : d.extra[id] = [created |-> h - CHANNEL_TIMEOUT_BLOCKS,
                                               participants |-> 1]
    IN  IF h < CHANNEL_TIMEOUT_BLOCKS THEN d
        ELSE DeleteChannels(CheckThat(d, fine), old)

HandleMoves(d, moves, h) ==
    LET x[i \in 0 .. Len(moves)] == IF i = 0 THEN d ELSE HandleMove(x[i - 1], moves[i], h)
    IN  x[Len(moves)]

UpdateState(d, moves, h) ==
    TimeOutChannels(ProcessExpiredDisputes(HandleMoves(d, moves, h), h), h)

----------------------------------------------------------------------------
(* Pending moves.                                                          *)

NothingPending == [create |-> {}, join |-> {}, abort |-> {}, channels |-> <<>>]

Entry(mv) == [name |-> mv.name, id |-> mv.id]

\* Mutant: a pending proof is only compared with the confirmed state.
AddPendingStateProofAnyBetter(p, row, mv) ==
    IF mv.valid /\ mv.count > ParsedTurnCount(row)
      THEN [p EXCEPT !.channels = With(@, mv.id, mv.count)]
      ELSE p

AddPendingStateProof(p, row, mv) ==
    LET provenCnt == IF Len(row.names) = 2 THEN mv.count ELSE 0
        before == IF mv.id \in DOMAIN p.channels THEN p.channels[mv.id]
                                                 ELSE ParsedTurnCount(row)
    IN  IF mv.valid /\ provenCnt > before
          THEN [p EXCEPT !.channels = With(@, mv.id, provenCnt)]
          ELSE p

AddPendingMoveUnsafe(p, d, mv) ==
    CASE mv.kind = "create" -> [p EXCEPT !.create = @ \cup {Entry(mv)}]
      [] ParseJoinChannelMove(d, mv) -> [p EXCEPT !.join = @ \cup {Entry(mv)}]
      [] ParseAbortChannelMove(d, mv) -> [p EXCEPT !.abort = @ \cup {mv.id}]
      [] ParseDisputeResolutionMove(d, mv) -> AddPendingStateProof(p, d.channels[mv.id], mv)
      [] OTHER -> p

----------------------------------------------------------------------------
(* The specification                                                       *)

TablesInit ==
    /\ db = EmptyTables
    /\ height = 0
    /\ created = {}
    /\ pending = NothingPending /\ offered = {}

Creates(moves) == {mv.id : mv \in {m \in Range(moves) : m.kind = "create"}}

(***************************************************************************)
(* A block: the new state is confirmed, then the pending moves are cleared *)
(* and offered anew as far as they are still in the mempool.               *)
(***************************************************************************)
AttachBlock(moves) ==
    /\ height < LastHeight /\ ~ db.failed
    /\ Creates(moves) \cap created = {}
    /\ height' = height + 1
    /\ db' = UpdateState(db, moves, height')
    /\ created' = created \cup Creates(moves)
    /\ pending' = NothingPending /\ offered' = {}

AddPendingMove(mv) ==
    /\ Cardinality(offered) < MaxPending
    /\ mv.kind = "create" => mv.id \notin created
    /\ pending' = AddPendingMoveUnsafe(pending, db, mv)
    /\ offered' = offered \cup {mv}
    /\ UNCHANGED <<db, height, created>>

TablesNext ==
    \/ \E moves \in MovesOfBlock : AttachBlock(moves)
    \/ \E mv \in PendingOffers : AddPendingMove(mv)

TablesSpec == TablesInit /\ [][TablesNext]_tablesVars

----------------------------------------------------------------------------
(* Properties.                                                             *)

\* The sum of the numbers in a column, as the set of the games it counts.
Counted(f) == UNION {{n} \X (1 .. f[n]) : n \in Name}
Total(f) == Cardinality(Counted(f))

\* The two tables of the ships database stay in step, although one is written
\* when a handle goes out of scope and the other by statements of its own: the
\* same channels, with as many participants; a channel in dispute has what
\* ProcessExpiredDisputes takes for granted and is closed in time (below
\* DISPUTE_BLOCKS, where the subtraction wraps around, with the block of the
\* dispute); a channel that counted in the statistics is gone, and counted for
\* one winner and one loser; no CHECK of UpdateState fails.
TablesAgree ==
    /\ ~ db.failed
    /\ DOMAIN db.channels = DOMAIN db.extra
    /\ \A id \in DOMAIN db.channels :
         LET row == db.channels[id]
         IN  /\ Len(row.names) = db.extra[id].participants
             /\ row.dispute # 0 => /\ Len(row.names) = 2 /\ HasTurn(row.count)
                                   /\ height - row.dispute < DISPUTE_BLOCKS
                                   /\ height >= DISPUTE_BLOCKS
             /\ Len(row.names) = 1 => height - db.extra[id].created < CHANNEL_TIMEOUT_BLOCKS
    /\ Total(db.won) = Total(db.lost)
    /\ Total(db.won) <= Cardinality(created \ DOMAIN db.channels)

\* The pending state of a channel is the best one that some pending dispute or
\* resolution proves, and there is one only if that is ahead of the confirmed
\* state; pending joins and aborts are of channels that are still waiting for
\* their second player.
PendingIsBest ==
    LET ahead(id) == {mv.count : mv \in
                        {m \in offered : /\ m.kind \in {"dispute", "resolution"}
                                         /\ m.id = id /\ m.valid
                                         /\ Len(db.channels[id].names) = 2
                                         /\ m.count > db.channels[id].count}}
        waiting == {id \in DOMAIN db.channels : Len(db.channels[id].names) = 1}
    IN  /\ DOMAIN pending.channels = {id \in DOMAIN db.channels : ahead(id) # {}}
        /\ \A id \in DOMAIN pending.channels : pending.channels[id] = Max(ahead(id))
        /\ \A e \in pending.join : e.id \in waiting
        /\ pending.abort \subseteq waiting
=============================================================================
