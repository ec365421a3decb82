---------------------------- MODULE AtomicBlocks ----------------------------
(***************************************************************************)
(* What the batched transactions promise: contents change by whole blocks. *)
(* "current" is what the game sees between two updates; "durable", what a  *)
(* restart will find, is always a "current" of the past.                   *)
(***************************************************************************)
EXTENDS Storage

CONSTANTS GenesisHeight,
          StateAt,          \* [Block -> GameState]
          UndoOf            \* [Block -> UndoData]

VARIABLES current, durable

aVars == <<current, durable>>

AInit == current = EmptyContents /\ durable = EmptyContents

\* An update is seen at once, and made durable now or later.
Update(c) ==
    /\ current' = c
    /\ durable' \in {durable, c}

Genesis(b) ==
    /\ current = EmptyContents
    /\ Height[b] = GenesisHeight
    /\ Update(WithState(current, b, StateAt[b]))

Attach(b) ==
    /\ current.hash # NoBlock /\ current.hash = Parent[b]
    /\ Update(WithState(WithUndo(current, b, UndoOf[b]), b, StateAt[b]))

Detach(b) ==
    /\ current.hash = b
    /\ current.undo[b] # NoUndo
    /\ Update(WithState(ReleaseUndoData(current, {b}), Parent[b], StateAt[Parent[b]]))

Persist == durable' = current /\ UNCHANGED current

\* A failed commit, an exception or a crash takes everything not durable away.
Lose == current' = durable /\ UNCHANGED durable

Clear == current' = EmptyContents /\ durable' = EmptyContents

ANext ==
    \/ \E b \in Block : Genesis(b) \/ Attach(b) \/ Detach(b)
    \/ Persist \/ Lose \/ Clear

ASpec == AInit /\ [][ANext]_aVars
=============================================================================
