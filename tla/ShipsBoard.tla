----------------------------- MODULE ShipsBoard ------------------------------
(***************************************************************************)
(* ShipsBoardState: the state of a ships game in a channel and the moves.  *)
(* A hash is the record of what was hashed.  Moves map a board to the set  *)
(* of the next board, empty if the move is invalid.                        *)
(***************************************************************************)
EXTENDS ShipsGrid

CONSTANT IntCells       \* the cells whose bits are kept in a C++ int

None == -1              \* an optional field that is not set
ClearedHash == [pos |-> {}, salt |-> None]

InitialBoardState ==
    [turn |-> 0, hashes |-> <<>>, seedHash0 |-> None, seed1 |-> None, known |-> <<>>,
     shot |-> None, positions |-> <<>>, winner |-> None]

\* The seeds' first random bit.
FirstPlayer(seed0, seed1) == (seed0 + seed1) % 2

GetPhase(b) ==
    CASE b.winner # None -> "finished"
      [] b.winner = None /\ b.hashes = <<>> -> "first commitment"
      [] b.winner = None /\ Len(b.hashes) = 1 -> "second commitment"
      [] b.winner = None /\ Len(b.hashes) = 2 /\ b.known = <<>> -> "first reveal seed"
      [] b.winner = None /\ Len(b.known) = 2 /\ Len(b.positions) = 2 -> "second reveal position"
      [] b.winner = None /\ Len(b.known) = 2 /\ b.positions = <<>> ->
            IF b.shot # None THEN "answer" ELSE "shoot"
      [] OTHER -> "invalid"

IsValid(b) ==
    LET phase == GetPhase(b)
    IN  CASE phase = "invalid" -> FALSE
          [] phase = "finished" -> b.turn = None
          [] phase \in {"first commitment", "first reveal seed"} -> b.turn = 0
          [] phase = "second commitment" -> b.turn = 1
          [] phase \in {"shoot", "answer"} -> b.turn \in {0, 1}
          [] phase = "second reveal position" ->
                /\ b.turn \in {0, 1}
                /\ b.positions[b.turn + 1] = {} /\ b.positions[2 - b.turn] # {}

ShotCount(b) ==
    IF b.known = <<>> THEN 0 ELSE CountOnes(b.known[1].guessed) + CountOnes(b.known[2].guessed)

\* Mutant: a shot counts once, with the reply.
TurnCountOfShots(b) ==
    LET shots == ShotCount(b)
    IN  CASE GetPhase(b) = "first commitment" -> 1
          [] GetPhase(b) = "second commitment" -> 2
          [] GetPhase(b) = "first reveal seed" -> 3
          [] OTHER -> 4 + 2 * shots + Cardinality({i \in DOMAIN b.positions : b.positions[i] # {}})

\* Revealed positions are looked at as an int.
TurnCount(b) ==
    LET shots == ShotCount(b)
        open  == IF b.shot # None THEN 1 ELSE 0
    IN  CASE GetPhase(b) = "first commitment" -> 1
          [] GetPhase(b) = "second commitment" -> 2
          [] GetPhase(b) = "first reveal seed" -> 3
          [] OTHER -> 4 + 2 * shots - open
                      + Cardinality({i \in DOMAIN b.positions : b.positions[i] \cap IntCells # {}})

----------------------------------------------------------------------------
(* Moves.  Players are 0 and 1, at 1 and 2 of the sequences.               *)

ApplyPositionCommitment(b, mv) ==
    CASE ~mv.hashOk -> {}
      [] mv.hashOk /\ GetPhase(b) = "first commitment" /\ mv.seedHash # None /\ mv.seed = None ->
            {[b EXCEPT !.turn = 1, !.hashes = Append(@, mv.hash), !.seedHash0 = mv.seedHash]}
      [] mv.hashOk /\ GetPhase(b) = "second commitment" /\ mv.seedHash = None ->
            {[b EXCEPT !.turn = 0, !.hashes = Append(@, mv.hash), !.seed1 = mv.seed]}
      [] OTHER -> {}

ApplySeedReveal(b, mv) ==
    IF GetPhase(b) = "first reveal seed" /\ mv.seed = b.seedHash0
    THEN {[b EXCEPT !.turn = FirstPlayer(mv.seed, IF b.seed1 = None THEN 0 ELSE b.seed1),
                    !.seedHash0 = None, !.seed1 = None,
                    !.known = <<[guessed |-> {}, hits |-> {}], [guessed |-> {}, hits |-> {}]>>]}
    ELSE {}

ApplyShot(b, mv) ==
    LET other == 1 - b.turn
    IN  IF /\ GetPhase(b) = "shoot" /\ IsOnBoard(Coord(mv.location))
           /\ mv.location \notin b.known[other + 1].guessed
        THEN {[b EXCEPT !.turn = other, !.shot = mv.location,
                        !.known[other + 1].guessed = @ \cup {mv.location}]}
        ELSE {}

\* After a hit the shooter goes on, after a miss the one who replied.
ApplyReply(b, mv) ==
    CASE GetPhase(b) # "answer" -> {}
      [] GetPhase(b) = "answer" /\ mv.reply = "hit" ->
            IF b.shot \in b.known[b.turn + 1].hits THEN {}
            ELSE {[b EXCEPT !.shot = None, !.known[b.turn + 1].hits = @ \cup {b.shot},
                            !.turn = 1 - @]}
      [] GetPhase(b) = "answer" /\ mv.reply = "miss" -> {[b EXCEPT !.shot = None]}
      [] OTHER -> {}

\* Mutant: the answers that were given are not compared with the position.
WinnerOfRevealTrusting(b, pos) ==
    LET other == 2 - b.turn
    IN  CASE ~VerifyPositionOfShips(pos) -> 1 - b.turn
          [] OTHER -> IF \/ GetPhase(b) = "second reveal position"
                         \/ CountOnes(b.known[other].hits) >= TotalShipCells
                      THEN b.turn ELSE None

\* Who wins with this reveal, None if the other player reveals next.
WinnerOfReveal(b, pos) ==
    LET me == b.turn + 1  other == 2 - b.turn
    IN  CASE \/ ~VerifyPositionOfShips(pos)
             \/ ~VerifyPositionForAnswers(pos, b.known[me].guessed, b.known[me].hits) ->
                1 - b.turn
          [] OTHER -> IF \/ GetPhase(b) = "second reveal position"
                         \/ CountOnes(b.known[other].hits) >= TotalShipCells
                      THEN b.turn ELSE None

ApplyPositionReveal(b, mv) ==
    LET me     == b.turn + 1
        placed == [(IF b.positions = <<>> THEN <<{}, {}>> ELSE b.positions) EXCEPT ![me] = mv.pos]
        winner == WinnerOfReveal(b, mv.pos)
    IN  IF \/ GetPhase(b) \notin {"shoot", "answer", "second reveal position"}
           \/ b.hashes[me] # [pos |-> mv.pos, salt |-> mv.salt]
           \/ VerifyPositionOfShips(mv.pos) /\ ~(b.known[me].hits \subseteq b.known[me].guessed)
        THEN {}
        ELSE IF winner # None
        THEN {[b EXCEPT !.positions = placed, !.winner = winner, !.turn = None,
                        !.hashes = <<ClearedHash, ClearedHash>>]}
        ELSE {[b EXCEPT !.positions = placed, !.turn = 1 - @, !.hashes[me] = ClearedHash]}

ApplyMoveProto(b, mv) ==
    CASE mv.kind = "commit" -> ApplyPositionCommitment(b, mv)
      [] mv.kind = "seed" -> ApplySeedReveal(b, mv)
      [] mv.kind = "shot" -> ApplyShot(b, mv)
      [] mv.kind = "reply" -> ApplyReply(b, mv)
      [] mv.kind = "reveal" -> ApplyPositionReveal(b, mv)
      [] OTHER -> {}
=============================================================================
