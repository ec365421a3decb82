------------------------------ MODULE MemoryGsp ------------------------------
(***************************************************************************)
(* A GSP with MemoryStorage and one of two games: the mover game with its  *)
(* own undo data, and a CachingGame, whose undo data is the state before   *)
(* the block.  GameLogic gives both a random number generator seeded by    *)
(* the block.  Blocks are numbered by the branch and their height; the     *)
(* moves of each branch are chosen as it grows.                            *)
(***************************************************************************)
EXTENDS Mover

CONSTANTS
    GameKinds,          \* "mover", "caching"
    BlockMoves,         \* the sequences of moves that a block may have
    MaxHeight,          \* bound on the height
    MaxDetaches         \* bound on the reorgs

ASSUME MemoryGspAssumption ==
    /\ GameKinds \subseteq {"mover", "caching"}
    /\ BlockMoves \subseteq Seq([name : Player, dir : Direction \cup {NONE}, n : Int])
    /\ MaxSteps \in Nat /\ MaxHeight \in Nat /\ MaxDetaches \in Nat

VARIABLES
    mem,        \* MemoryStorage: [current, state, undo]
    kind,       \* the game
    branch,     \* the moves of the blocks of the chain
    before,     \* the states before each of those blocks, for the properties
    detaches

memoryVars == <<mem, kind, branch, before, detaches>>

----------------------------------------------------------------------------
(* GameLogic and CachingGame.                                              *)

\* A block's seed, the same one when it is attached and detached.
BlockRngSeed(height) == <<"block", height>>

\* The caching game keeps the random numbers of all blocks with moves.
UpdateCached(state, moves, seed) == IF moves = <<>> THEN state ELSE Append(state, seed)

NoGameUndo == [undo |-> NoPlayers, old |-> <<>>]

LogicForward(k, state, moves, height) ==
    IF k = "mover"
    THEN LET x == MoverForward(state.players, moves)
         IN  [state |-> [state EXCEPT !.players = x.players],
              undo |-> [NoGameUndo EXCEPT !.undo = x.undo]]
    ELSE [state |-> [state EXCEPT !.cached = UpdateCached(@, moves, BlockRngSeed(height))],
          undo |-> [NoGameUndo EXCEPT !.old = state.cached]]

LogicBackwards(k, state, undo) ==
    IF k = "mover" THEN [state EXCEPT !.players = MoverBackwards(@, undo.undo)]
    ELSE [state EXCEPT !.cached = undo.old]

InitialMoverState == [players |-> NoPlayers, cached |-> <<>>]

----------------------------------------------------------------------------
(* MemoryStorage, whose undo data is a map from blocks.                    *)

MemoryInit ==
    /\ mem = [current |-> 0, state |-> InitialMoverState, undo |-> [b \in {} |-> NoGameUndo]]
    /\ kind \in GameKinds
    /\ branch = <<>>
    /\ before = <<>>
    /\ detaches = 0

\* A block that is known already keeps its undo data (emplace).
MemoryAddUndo(m, b, undo) == IF b \in DOMAIN m.undo THEN m ELSE [m EXCEPT !.undo = Put(@, b, undo)]
MemorySet(m, b, state) == [m EXCEPT !.current = b, !.state = state]
MemoryReleaseUndo(m, b) == [m EXCEPT !.undo = [x \in DOMAIN m.undo \ {b} |-> m.undo[x]]]
MemoryPrune(m, height) ==
    [m EXCEPT !.undo = [x \in {b \in DOMAIN m.undo : b > height} |-> m.undo[x]]]

\* UpdateStateForAttach within a transaction.
AttachMoves(moves) ==
    /\ Len(branch) < MaxHeight
    /\ LET h == Len(branch) + 1
           f == LogicForward(kind, mem.state, moves, h)
       IN  mem' = MemorySet(MemoryAddUndo(mem, h, f.undo), h, f.state)
    /\ branch' = Append(branch, moves)
    /\ before' = Append(before, mem.state)
    /\ UNCHANGED <<kind, detaches>>

DetachMoves ==
    /\ branch # <<>> /\ detaches < MaxDetaches
    /\ Len(branch) \in DOMAIN mem.undo
    /\ LET h == Len(branch)
       IN  mem' = MemoryReleaseUndo(MemorySet(mem, h - 1, LogicBackwards(kind, mem.state, mem.undo[h])),
                                    h)
    /\ branch' = Front(branch)
    /\ before' = Front(before)
    /\ detaches' = detaches + 1
    /\ UNCHANGED kind

\* PruneStates up to a height below the current one.
PruneMoves ==
    /\ \E h \in 1..(Len(branch) - 1) :
          mem' = MemoryPrune(mem, h) /\ mem' # mem
    /\ UNCHANGED <<kind, branch, before, detaches>>

\* A restart of the process, or a clear: all is lost.
MemoryClear ==
    /\ branch # <<>>
    /\ mem' = [current |-> 0, state |-> InitialMoverState, undo |-> [b \in {} |-> NoGameUndo]]
    /\ branch' = <<>> /\ before' = <<>>
    /\ UNCHANGED <<kind, detaches>>

MemoryNext ==
    \/ \E moves \in BlockMoves : AttachMoves(moves)
    \/ DetachMoves
    \/ PruneMoves
    \/ MemoryClear

MemorySpec == MemoryInit /\ [][MemoryNext]_memoryVars

----------------------------------------------------------------------------
(* Properties.                                                             *)

\* A block moves every name at most once.
OneMovePerName ==
    \A moves \in BlockMoves : \A i, j \in 1 .. Len(moves) :
       ParseMove(moves[i]) /\ ParseMove(moves[j]) /\ moves[i].name = moves[j].name => i = j

StateBefore(h) == IF h > Len(branch) THEN mem.state ELSE before[h]

\* Undoing a block gives the state before it, in every field of every player.
\* gamelogic.hpp says that ProcessBackwards is to compute the previous game
\* state; it does so if OneMovePerName: when a player moves twice in a block, the
\* undo data is overwritten with what the first move set.
BackwardsInverts ==
    \A h \in DOMAIN branch \cap DOMAIN mem.undo :
       LogicBackwards(kind, StateBefore(h + 1), mem.undo[h]) = before[h]

\* A pending move that is confirmed in the next block, and not replaced by
\* another one, leads where the pending state says.
PendingTargetReached ==
    kind = "mover" =>
    \A moves \in BlockMoves : Len(moves) = 1 =>
       LET mv  == moves[1]
           pen == MoverAddPending(NoPlayers, mem.state.players, mv)
           end == FoldLeft(LAMBDA players, i : MoverForward(players, IF i = 1 THEN moves ELSE <<>>).players,
                           mem.state.players, [i \in 1..(IF mv.n > 0 THEN mv.n ELSE 0) |-> i])
       IN  mv.name \in DOMAIN pen =>
              /\ end[mv.name].x = pen[mv.name].x /\ end[mv.name].y = pen[mv.name].y
              /\ end[mv.name].dir = NONE
=============================================================================
