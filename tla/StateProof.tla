---------------------------- MODULE StateProof ----------------------------
(***************************************************************************)
(* State proofs: how a player convinces the chain, or another player, that *)
(* a board state of a channel was agreed on.                               *)
(*                                                                         *)
(* A proof is a non-empty path of board states, each with the signatures   *)
(* made on it: the first is the code's initial_state, each further one a   *)
(* transition with the move that leads to it.  A signature covers the      *)
(* reinitialisation, so all of a proof's are taken to be made under one,   *)
(* and under another one they recover to nobody.                           *)
(*                                                                         *)
(* The board rules are the game's; a participant is named by its name      *)
(* where the code has an index.  Board states are parsed ones.             *)
(***************************************************************************)
EXTENDS Integers, Sequences, FiniteSets

CONSTANTS
    Player, NoTurn,
    Board, NoBoard,         \* valid board states; no such state
    Move, NoMove,
    Reinit,                 \* reinitialisation IDs
    Participants(_),        \* the players in the metadata of a reinitialisation
    ReinitState(_),         \* the board state it starts from
    WhoseTurn(_), TurnCount(_), ApplyMove(_, _)

(***************************************************************************)
(* What BoardRules promises: TurnCount "should increase with turns made in *)
(* the game", and it is a player's turn when a move can be applied.        *)
(***************************************************************************)
ASSUME BoardAssumption ==
    /\ NoTurn \notin Player /\ NoBoard \notin Board /\ NoMove \notin Move
    /\ \A r \in Reinit : Participants(r) \subseteq Player /\ ReinitState(r) \in Board
    /\ \A b \in Board : WhoseTurn(b) \in Player \cup {NoTurn} /\ TurnCount(b) \in Nat
    /\ \A b \in Board, mv \in Move :
         /\ ApplyMove(b, mv) \in Board \cup {NoBoard}
         /\ ApplyMove(b, mv) # NoBoard => TurnCount(ApplyMove(b, mv)) > TurnCount(b)

\* A board state in a proof: the move that led to it, and who signed it.
Signed == [move : Move \cup {NoMove}, data : Board, sigs : SUBSET Player]

Proof == [under : Reinit, path : Seq(Signed) \ {<<>>}]

\* initial_state without transitions or signatures (StateProofFromReinit).
StateProofFromReinit(r) ==
    [under |-> r,
     path  |-> <<[move |-> NoMove, data |-> ReinitState(r), sigs |-> {}]>>]

UnverifiedProofEndState(p) == p.path[Len(p.path)].data

ProofCount(p) == TurnCount(UnverifiedProofEndState(p))

(***************************************************************************)
(* The participants whose valid signature the i-th state of the proof      *)
(* carries, seen under reinitialisation r.                                 *)
(***************************************************************************)
VerifyParticipantSignatures(r, p, i) ==
    IF p.under = r THEN p.path[i].sigs \cap Participants(r) ELSE {}

\* Every step is a valid move of the player whose turn it was, who signed it.
VerifyStateTransition(r, p, i) ==
    LET old == p.path[i - 1].data
    IN  /\ WhoseTurn(old) # NoTurn
        /\ ApplyMove(old, p.path[i].move) = p.path[i].data
        /\ WhoseTurn(old) \in VerifyParticipantSignatures(r, p, i)

\* Mutant: one player's signatures will do.
VerifyStateProofOneSigner(r, p) ==
    /\ \A i \in 2..Len(p.path) : VerifyStateTransition(r, p, i)
    /\ \/ p.path[1].data = ReinitState(r)
       \/ \E i \in 1..Len(p.path) : VerifyParticipantSignatures(r, p, i) # {}

(***************************************************************************)
(* The proof starts from the reinit state, or all players signed something *)
(* on the way.                                                             *)
(***************************************************************************)
VerifyStateProof(r, p) ==
    /\ \A i \in 2..Len(p.path) : VerifyStateTransition(r, p, i)
    /\ \/ p.path[1].data = ReinitState(r)
       \/ \A pl \in Participants(r) :
            \E i \in 1..Len(p.path) : pl \in VerifyParticipantSignatures(r, p, i)

(***************************************************************************)
(* The shortest tail of the path that has a signature of everybody is      *)
(* kept, the whole path if there is none.                                  *)
(***************************************************************************)
Covers(r, p, from) ==
    \A pl \in Participants(r) :
        \E i \in from..Len(p.path) : pl \in VerifyParticipantSignatures(r, p, i)

\* Mutant: one state too few is kept.
MinimalStartTooLate(r, p) ==
    LET full == {i \in 1..Len(p.path) : Covers(r, p, i)}
    IN  IF full = {} THEN 1
        ELSE CHOOSE i \in 2..(Len(p.path) + 1) :
               i - 1 \in full /\ \A j \in i..Len(p.path) : j \notin full

MinimalStart(r, p) ==
    IF \E i \in 1..Len(p.path) : Covers(r, p, i)
      THEN CHOOSE i \in 1..Len(p.path) :
             Covers(r, p, i) /\ \A j \in (i + 1)..Len(p.path) : ~ Covers(r, p, j)
      ELSE 1

TrimTo(p, from) ==
    [p EXCEPT !.path = [i \in 1..(Len(p.path) - from + 1) |->
                         IF i = 1 THEN [p.path[from] EXCEPT !.move = NoMove]
                                  ELSE p.path[from + i - 1]]]

\* p under r, with the signatures that are worth nothing there dropped.
Rebased(r, p) ==
    [under |-> r,
     path  |-> [i \in 1..Len(p.path) |->
                 [p.path[i] EXCEPT !.sigs = VerifyParticipantSignatures(r, p, i)]]]

\* p with the signer's move added, not yet trimmed.
WithMove(signer, r, p, mv) ==
    [Rebased(r, p) EXCEPT !.path =
       Append(@, [move |-> mv,
                  data |-> ApplyMove(UnverifiedProofEndState(p), mv),
                  sigs |-> {signer}])]

\* The extended proof, or {} where the code returns false.
ExtendStateProof(signer, r, p, mv) ==
    LET end == UnverifiedProofEndState(p)
        new == WithMove(signer, r, p, mv)
    IN  IF \/ WhoseTurn(end) # signer       \* nobody's turn, or another address
           \/ ApplyMove(end, mv) = NoBoard
          THEN {}
          ELSE {TrimTo(new, MinimalStart(r, new))}
=============================================================================
