---------------------------- MODULE ShipsChannel -----------------------------
(***************************************************************************)
(* ShipsChannel: the private data of an honest player and its automatic    *)
(* moves, driven by the RPC calls of its user, by a peer that makes any    *)
(* valid move, and by a chain on which the channel may be reinitialised    *)
(* (another second player joins) and go back to an earlier                 *)
(* reinitialisation.  The channel manager is abstracted to what Channel    *)
(* shows of it: it keeps the latest board of each reinitialisation, and    *)
(* takes a board only if its turn count is larger.                         *)
(***************************************************************************)
EXTENDS ShipsBoard

CONSTANTS
    Reinit,
    Positions,          \* what the user may set, valid or not
    PeerPositions,      \* what the peer may commit to
    MaxShots,           \* bound on the shots in all games, less with reorgs
    MaxReorgs           \* bound on the changes of the reinitialisation

ASSUME ShipsChannelAssumption ==
    /\ Reinit # {}
    /\ Positions \subseteq SUBSET Cells /\ PeerPositions \subseteq SUBSET Cells
    /\ MaxShots \in Nat /\ MaxReorgs \in Nat

\* On the real board no valid position has all ships in its upper half, so
\* that the reveal of one is always seen in the turn count.
ASSUME ValidPositionsCount ==
    \A g \in SUBSET Cells : VerifyPositionOfShips(g) => g \cap IntCells # {}

VARIABLES
    boards,     \* the latest board per reinitialisation
    own,        \* the player: [index, position, seed0, close: the loss
                \* declaration last sent, abort]
    rpc,        \* positions that calls of setposition are about to set
    chain       \* [reinit, closed, mempool: pending declarations, reorgs]

shipsVars == <<boards, own, rpc, chain>>

NoPosition == {}
NoReinit == "none"
Board == boards[chain.reinit]

ShipsInit ==
    /\ boards = [r \in Reinit |-> InitialBoardState]
    /\ \E i \in {0, 1} : own = [index |-> i, position |-> NoPosition, seed0 |-> 0,
                                close |-> NoReinit, abort |-> "none"]
    /\ rpc = {}
    /\ chain = [reinit |-> CHOOSE r \in Reinit : TRUE, closed |-> FALSE, mempool |-> {},
                reorgs |-> 0]

Shots(bs) == MapThenSumSet(LAMBDA r : ShotCount(bs[r]), Reinit)

----------------------------------------------------------------------------
(* The automatic moves.                                                    *)

IsPositionSet(o) == o.position # NoPosition

\* There is one salt, drawn with the position.
GetPositionRevealMove(o) == [kind |-> "reveal", pos |-> o.position, salt |-> 0]
CommitMove(o, seedHash, seed) ==
    [kind |-> "commit", hashOk |-> TRUE, hash |-> [pos |-> o.position, salt |-> 0],
     seedHash |-> seedHash, seed |-> seed]

\* The move and the seed kept, given what is drawn; none if there is no move.
InternalAutoMove(o, b, rnd) ==
    CASE GetPhase(b) = "first commitment" /\ IsPositionSet(o) ->
            {[mv |-> CommitMove(o, rnd, None), seed0 |-> rnd]}
      [] GetPhase(b) = "second commitment" /\ IsPositionSet(o) ->
            {[mv |-> CommitMove(o, None, rnd), seed0 |-> o.seed0]}
      [] GetPhase(b) = "first reveal seed" ->
            {[mv |-> [kind |-> "seed", seed |-> o.seed0], seed0 |-> o.seed0]}
      [] GetPhase(b) = "shoot" /\ CountOnes(b.known[2 - o.index].hits) >= TotalShipCells ->
            {[mv |-> GetPositionRevealMove(o), seed0 |-> o.seed0]}
      [] GetPhase(b) = "answer" ->
            {[mv |-> [kind |-> "reply", reply |-> IF b.shot \in o.position THEN "hit" ELSE "miss"],
              seed0 |-> o.seed0]}
      [] GetPhase(b) = "second reveal position" ->
            {[mv |-> GetPositionRevealMove(o), seed0 |-> o.seed0]}
      [] OTHER -> {}

\* One turn of the loop of ProcessAutoMoves on the pair x of player and board.
\* A move that cannot be applied or is not an update aborts.
AutoTurn(x, rnd) ==
    LET found == IF x.own.abort = "none" /\ x.board.turn = x.own.index
                 THEN InternalAutoMove(x.own, x.board, rnd) ELSE {}
    IN  IF found = {} THEN x
        ELSE LET a    == CHOOSE a \in found : TRUE
                 next == {n \in ApplyMoveProto(x.board, a.mv) : TurnCount(n) > TurnCount(x.board)}
             IN  IF next = {} THEN [x EXCEPT !.own.abort = "automove"]
                 ELSE [own |-> [x.own EXCEPT !.seed0 = a.seed0],
                       board |-> CHOOSE n \in next : TRUE]

\* Mutant: a loss is declared once only.
DeclaresOnce(o, pool) == o.close = NoReinit
Declares(o, pool) == o.close = NoReinit \/ o.close \notin pool

\* ProcessStateUpdate with a new board on c.reinit: automatic moves, of which
\* no more than two come in a row (a miss, then the reveal), and then
\* MaybeOnChainMove.
StateUpdate(o, b, c, rnd) ==
    \E x \in {AutoTurn([own |-> o, board |-> b], rnd)} :
    \E y \in {AutoTurn(x, rnd)} :
       LET lost == y.board.winner = 1 - o.index /\ Declares(y.own, c.mempool)
       IN  /\ boards' = [boards EXCEPT ![c.reinit] = y.board]
           /\ own' = IF lost THEN [y.own EXCEPT !.close = c.reinit] ELSE y.own
           /\ chain' = IF lost THEN [c EXCEPT !.mempool = @ \cup {c.reinit}] ELSE c

Running == own.abort = "none" /\ ~chain.closed

----------------------------------------------------------------------------
(* RPC calls.                                                              *)

\* setposition looks whether a position is set, and parses, before it locks.
\* Calls run on several threads; those of one position are taken as one.
SetPositionCheck(pos) ==
    /\ own.abort = "none" /\ pos \notin rpc /\ ~IsPositionSet(own)
    /\ VerifyPositionOfShips(pos)
    /\ rpc' = rpc \cup {pos}
    /\ UNCHANGED <<boards, own, chain>>

\* Mutant: the position is replaced.
SetPositionAgain(o, pos) == [o EXCEPT !.position = pos]

SetPosition(o, pos) ==
    IF IsPositionSet(o) THEN [o EXCEPT !.abort = "position"] ELSE [o EXCEPT !.position = pos]

\* With the lock: SetPosition and TriggerAutoMoves.
SetPositionLocked(pos, rnd) ==
    /\ own.abort = "none" /\ pos \in rpc
    /\ rpc' = rpc \ {pos}
    /\ LET o == SetPosition(own, pos)
       IN  IF chain.closed THEN own' = o /\ UNCHANGED <<boards, chain>>
           ELSE StateUpdate(o, Board, chain, rnd)

\* A move of the user, refused if it is invalid.
LocalMove(mv, rnd) ==
    /\ Running /\ Board.turn = own.index
    /\ \E b \in ApplyMoveProto(Board, mv) :
          /\ Shots([boards EXCEPT ![chain.reinit] = b]) <= MaxShots - chain.reorgs
          /\ StateUpdate(own, b, chain, rnd)
    /\ UNCHANGED rpc

Shoot(cell, rnd) == LocalMove([kind |-> "shot", location |-> cell], rnd)
RevealPosition(rnd) == IsPositionSet(own) /\ LocalMove(GetPositionRevealMove(own), rnd)

----------------------------------------------------------------------------
(* The peer and the chain.                                                 *)

PeerMoves ==
    [kind : {"commit"}, hashOk : BOOLEAN, hash : [pos : PeerPositions, salt : {1}],
     seedHash : {None, 0}, seed : {None, 0, 1}]
    \cup [kind : {"seed"}, seed : {0, 1}]
    \cup [kind : {"shot"}, location : Cells \cup {-1, Side * Side}]
    \cup [kind : {"reply"}, reply : {"hit", "miss", "other"}]
    \cup [kind : {"reveal"}, pos : PeerPositions, salt : {1}]
    \cup {[kind |-> "unknown"]}

\* A board arrives off-chain and is newer than the one known.
PeerMove(mv, rnd) ==
    /\ Running /\ Board.turn = 1 - own.index
    /\ \E b \in ApplyMoveProto(Board, mv) :
          /\ TurnCount(b) > TurnCount(Board)
          /\ Shots([boards EXCEPT ![chain.reinit] = b]) <= MaxShots - chain.reorgs
          /\ StateUpdate(own, b, chain, rnd)
    /\ UNCHANGED rpc

\* A block confirms a loss declaration, which is invalid if it is of another
\* reinitialisation; else the channel is closed.
Confirm(r, rnd) ==
    /\ Running /\ r \in chain.mempool
    /\ LET c == [chain EXCEPT !.mempool = @ \ {r}]
       IN  IF r = chain.reinit
           THEN chain' = [c EXCEPT !.closed = TRUE] /\ UNCHANGED <<boards, own>>
           ELSE StateUpdate(own, Board, c, rnd)
    /\ UNCHANGED rpc

\* A reorg to a chain with another reinitialisation.
Reorg(r, rnd) ==
    /\ Running /\ r # chain.reinit /\ chain.reorgs < MaxReorgs
    /\ StateUpdate(own, boards[r], [chain EXCEPT !.reinit = r, !.reorgs = @ + 1], rnd)
    /\ UNCHANGED rpc

\* A block that says nothing new.
NewBlock(rnd) ==
    /\ Running
    /\ StateUpdate(own, Board, chain, rnd)
    /\ UNCHANGED rpc

ShipsNext ==
    \E rnd \in {0, 1} :
       \/ \E pos \in rpc : SetPositionLocked(pos, rnd)
       \/ \E cell \in Cells : Shoot(cell, rnd)
       \/ RevealPosition(rnd)
       \/ \E mv \in PeerMoves : PeerMove(mv, rnd)
       \/ \E r \in Reinit : Confirm(r, rnd) \/ Reorg(r, rnd)
       \/ NewBlock(rnd)
       \/ \E pos \in Positions : SetPositionCheck(pos)

\* Blocks are mined, and what is in the mempool is confirmed.
ShipsFairness ==
    /\ WF_shipsVars(\E rnd \in {0, 1} : NewBlock(rnd))
    /\ WF_shipsVars(\E rnd \in {0, 1}, r \in Reinit : Confirm(r, rnd))

ShipsSpec == ShipsInit /\ [][ShipsNext]_shipsVars /\ ShipsFairness

----------------------------------------------------------------------------
(* Properties.                                                             *)

\* The board is valid, and every move that is valid on it raises the turn
\* count, on which freshness depends.  The exception is the reveal of a
\* position that is zero as an int, which no valid position is.
BoardsInOrder ==
    /\ IsValid(Board)
    /\ Board.turn # None =>
          \A mv \in PeerMoves : \A b \in ApplyMoveProto(Board, mv) :
             /\ IsValid(b)
             /\ \/ TurnCount(b) > TurnCount(Board)
                \/ mv.kind = "reveal" /\ mv.pos \cap IntCells = {}

\* The peer wins only with a valid position that agrees with all its answers,
\* and only if it sank all ships of an honest player, or that player revealed
\* before sinking the peer's: no lie pays.
HonestNotCheated ==
    \A r \in Reinit :
       LET b == boards[r]  me == own.index + 1  peer == 2 - own.index
       IN  b.winner = 1 - own.index =>
             /\ VerifyPositionOfShips(b.positions[peer])
             /\ b.positions[peer] \cap b.known[peer].guessed = b.known[peer].hits
             /\ \/ own.position \subseteq b.known[me].hits
                \/ b.positions[me] = own.position
                   /\ ~(b.positions[peer] \subseteq b.known[peer].hits)

\* An automatic move is always valid (the position it commits to and reveals
\* is one and the same, although setposition checks that none is set before it
\* has the lock), except that the seed drawn for another reinitialisation may
\* be revealed.
AutoMovesApply ==
    own.abort = "automove" =>
       /\ GetPhase(Board) = "first reveal seed" /\ Board.turn = own.index
       /\ Board.seedHash0 # own.seed0

\* A lost game is closed on chain, unless a reorg leads to one that is not
\* lost, even if the declaration of another reinitialisation has been sent
\* before and is still pending.
LossDeclared ==
    LET lost == Board.winner = 1 - own.index
    IN  lost ~> (chain.closed \/ ~lost \/ own.abort # "none")
=============================================================================
