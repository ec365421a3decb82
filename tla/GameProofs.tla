----------------------------- MODULE GameProofs -----------------------------
(***************************************************************************)
(* The games, for boards of any size, any fleet and any number of          *)
(* reinitialisations: an honest player of ships is not cheated, its        *)
(* automatic moves are valid, and the turn count tells which board is      *)
(* newer (ShipsChannel); and for any number of channels, players and       *)
(* blocks: the tables of the ships GSP stay in step, and its pending state *)
(* is the best one that is known (ShipsTables).                            *)
(***************************************************************************)
EXTENDS ShipsChannel, ShipsTables, NumberProofs, FunctionTheorems

----------------------------------------------------------------------------
(* The boards that occur, by phase.                                        *)

Player == {0, 1}
Grid == SUBSET Cells
Sight == [guessed : Grid, hits : Grid]
Hash == [pos : Grid, salt : {None, 0, 1}]

BoardType ==
    [turn : Player \cup {None}, hashes : Seq(Hash), seedHash0 : Player \cup {None},
     seed1 : Player \cup {None}, known : {<<>>} \cup [1 .. 2 -> Sight],
     shot : Cells \cup {None}, positions : {<<>>} \cup [1 .. 2 -> Grid],
     winner : Player \cup {None}]

Unplayed(b) ==
    b.known = <<>> /\ b.positions = <<>> /\ b.shot = None /\ b.winner = None

\* n players have sent the hash of their positions.
Committing(b, n) ==
    Unplayed(b) /\ Len(b.hashes) = n /\ b.turn = n /\ (n = 1 => b.seedHash0 # None)

Seeding(b) == Unplayed(b) /\ Len(b.hashes) = 2 /\ b.turn = 0 /\ b.seedHash0 # None

Sighted(b) ==
    /\ b.known \in [1 .. 2 -> Sight]
    /\ \A i \in 1 .. 2 : b.known[i].hits \subseteq b.known[i].guessed

Playing(b) ==
    /\ Sighted(b) /\ Len(b.hashes) = 2 /\ b.turn \in Player
    /\ b.positions = <<>> /\ b.winner = None
    /\ b.shot # None => b.shot \in b.known[b.turn + 1].guessed \ b.known[b.turn + 1].hits

Revealing(b) ==
    /\ Sighted(b) /\ Len(b.hashes) = 2 /\ b.turn \in Player
    /\ b.positions \in [1 .. 2 -> Grid] /\ b.winner = None
    /\ b.positions[b.turn + 1] = {} /\ b.positions[2 - b.turn] # {}

Over(b) ==
    /\ Sighted(b) /\ Len(b.hashes) = 2 /\ b.turn = None
    /\ b.positions \in [1 .. 2 -> Grid] /\ b.winner \in Player

BoardOK(b) ==
    /\ b \in BoardType
    /\ \/ Committing(b, 0) \/ Committing(b, 1) \/ Seeding(b)
       \/ Playing(b) \/ Revealing(b) \/ Over(b)

LEMMA LenTwo ==
    ASSUME NEW S, NEW f \in [1 .. 2 -> S]
    PROVE  Len(f) = 2 /\ f # <<>>
  BY FunctionIsSequence

LEMMA PhaseOf ==
    ASSUME NEW b \in BoardType
    PROVE  /\ Committing(b, 0) => GetPhase(b) = "first commitment"
           /\ Committing(b, 1) => GetPhase(b) = "second commitment"
           /\ Seeding(b) => GetPhase(b) = "first reveal seed"
           /\ Playing(b) => GetPhase(b) = IF b.shot # None THEN "answer" ELSE "shoot"
           /\ Revealing(b) => GetPhase(b) = "second reveal position"
           /\ Over(b) => GetPhase(b) = "finished"
  <1>1. /\ b.hashes \in Seq(Hash) /\ (b.hashes = <<>> <=> Len(b.hashes) = 0)
        /\ b.known \in [1 .. 2 -> Sight] => Len(b.known) = 2 /\ b.known # <<>>
        /\ b.positions \in [1 .. 2 -> Grid] => Len(b.positions) = 2 /\ b.positions # <<>>
    BY LenTwo, EmptySeq DEF BoardType
  <1>2. Committing(b, 0) => GetPhase(b) = "first commitment"
    BY <1>1 DEF Committing, Unplayed, GetPhase
  <1>3. Committing(b, 1) => GetPhase(b) = "second commitment"
    BY <1>1 DEF Committing, Unplayed, GetPhase
  <1>4. Seeding(b) => GetPhase(b) = "first reveal seed"
    BY <1>1 DEF Seeding, Unplayed, GetPhase
  <1>5. Playing(b) => GetPhase(b) = IF b.shot # None THEN "answer" ELSE "shoot"
    <2> HAVE Playing(b)
    <2>1. /\ ~(b.winner # None) /\ b.hashes # <<>> /\ Len(b.hashes) # 1 /\ Len(b.positions) # 2
          /\ b.known # <<>> /\ Len(b.known) = 2 /\ b.positions = <<>> /\ b.winner = None
      BY <1>1, EmptySeq DEF Playing, Sighted
    <2> QED  BY <2>1 DEF GetPhase
  <1>6. Revealing(b) => GetPhase(b) = "second reveal position"
    BY <1>1 DEF Revealing, Sighted, GetPhase
  <1>7. Over(b) => GetPhase(b) = "finished"
    BY <1>1 DEF Over, GetPhase, None, Player
  <1> QED  BY <1>2, <1>3, <1>4, <1>5, <1>6, <1>7

----------------------------------------------------------------------------
(* The moves.                                                              *)

CommitMoves == [kind : {"commit"}, hashOk : BOOLEAN, hash : Hash,
                seedHash : Player \cup {None}, seed : Player \cup {None}]
SeedMoves == [kind : {"seed"}, seed : Player]
ShotMoves == [kind : {"shot"}, location : Int]
ReplyMoves == [kind : {"reply"}, reply : {"hit", "miss", "other"}]
RevealMoves == [kind : {"reveal"}, pos : Grid, salt : {None, 0, 1}]
Moves == CommitMoves \cup SeedMoves \cup ShotMoves \cup ReplyMoves \cup RevealMoves
         \cup {[kind |-> "unknown"]}

LEMMA SizesOfMoves ==
    /\ Side \in Nat /\ Side > 0 /\ Side * Side \in Nat /\ None \notin Cells
    /\ IsFiniteSet(Cells)
    /\ \A g \in Grid : IsFiniteSet(g) /\ Cardinality(g) \in Nat
  <1>1. Side \in Nat /\ Side > 0 /\ Side * Side \in Nat
    BY GridAssumption
  <1>2. None \notin Cells
    BY <1>1 DEF None, Cells
  <1>3. IsFiniteSet(Cells)
    BY <1>1, FS_Interval DEF Cells
  <1>4. \A g \in Grid : IsFiniteSet(g) /\ Cardinality(g) \in Nat
    BY <1>3, FS_Subset, FS_CardinalityType DEF Grid
  <1> QED  BY <1>1, <1>2, <1>3, <1>4

LEMMA OnBoardCell ==
    ASSUME NEW ind \in Int, IsOnBoard(Coord(ind))
    PROVE  ind \in Cells
  <1> DEFINE q == ind \div Side
             r == ind % Side
  <1>1. Side \in Nat /\ Side > 0
    BY GridAssumption
  <1>2. q \in 0 .. (Side - 1) /\ r \in 0 .. (Side - 1)
    BY DEF IsOnBoard, Coord
  <1>3. ind = Side * q + r
    BY <1>1
  <1> HIDE DEF q, r
  <1>4. q * Side <= (Side - 1) * Side
    BY <1>1, <1>2
  <1>5. ind >= 0 /\ ind <= Side * Side - 1
    BY <1>1, <1>2, <1>3, <1>4
  <1> QED  BY <1>5 DEF Cells

LEMMA CommitStep ==
    ASSUME NEW b, BoardOK(b), NEW mv \in CommitMoves, NEW n \in ApplyMoveProto(b, mv)
    PROVE  /\ BoardOK(n)
           /\ \/ /\ Committing(b, 0) /\ Committing(n, 1) /\ mv.seedHash = n.seedHash0
                 /\ n.hashes = Append(b.hashes, mv.hash)
              \/ /\ Committing(b, 1) /\ Seeding(n)
                 /\ n.hashes = Append(b.hashes, mv.hash)
  <1>1. n \in ApplyPositionCommitment(b, mv)
    BY DEF ApplyMoveProto, CommitMoves
  <1>2. \/ /\ GetPhase(b) = "first commitment" /\ mv.seedHash # None
           /\ n = [b EXCEPT !.turn = 1, !.hashes = Append(@, mv.hash), !.seedHash0 = mv.seedHash]
        \/ /\ GetPhase(b) = "second commitment"
           /\ n = [b EXCEPT !.turn = 0, !.hashes = Append(@, mv.hash), !.seed1 = mv.seed]
    BY <1>1 DEF ApplyPositionCommitment
  <1>3. b \in BoardType /\ b.hashes \in Seq(Hash) /\ mv.hash \in Hash
    BY DEF BoardOK, BoardType, CommitMoves
  <1>4. /\ Append(b.hashes, mv.hash) \in Seq(Hash)
        /\ Len(Append(b.hashes, mv.hash)) = Len(b.hashes) + 1
    BY <1>3, AppendProperties
  <1>5. CASE GetPhase(b) = "first commitment"
    <2>1. Committing(b, 0)
      BY <1>3, <1>5, PhaseOf DEF BoardOK
    <2>2. /\ n = [b EXCEPT !.turn = 1, !.hashes = Append(@, mv.hash), !.seedHash0 = mv.seedHash]
          /\ mv.seedHash # None
      BY <1>2, <1>5
    <2>3. n \in BoardType
      BY <1>3, <1>4, <2>2 DEF BoardType, CommitMoves, Player
    <2>4. Committing(n, 1)
      BY <1>3, <1>4, <2>1, <2>2 DEF Committing, Unplayed, BoardType
    <2> QED  BY <1>3, <2>1, <2>2, <2>3, <2>4 DEF BoardOK, BoardType
  <1>6. CASE GetPhase(b) = "second commitment"
    <2>1. Committing(b, 1)
      BY <1>3, <1>6, PhaseOf DEF BoardOK
    <2>2. n = [b EXCEPT !.turn = 0, !.hashes = Append(@, mv.hash), !.seed1 = mv.seed]
      BY <1>2, <1>6
    <2>3. n \in BoardType
      BY <1>3, <1>4, <2>2 DEF BoardType, CommitMoves, Player
    <2>4. Seeding(n)
      BY <1>3, <1>4, <2>1, <2>2 DEF Committing, Seeding, Unplayed, BoardType
    <2> QED  BY <1>3, <2>1, <2>2, <2>3, <2>4 DEF BoardOK, BoardType
  <1> QED  BY <1>2, <1>5, <1>6

NoShots == [guessed |-> {}, hits |-> {}]

LEMMA SeedStep ==
    ASSUME NEW b, BoardOK(b), NEW mv \in SeedMoves, NEW n \in ApplyMoveProto(b, mv)
    PROVE  /\ BoardOK(n) /\ Seeding(b) /\ Playing(n) /\ mv.seed = b.seedHash0
           /\ n.shot = None /\ n.known = <<NoShots, NoShots>> /\ n.hashes = b.hashes
  <1>1. n \in ApplySeedReveal(b, mv)
    BY DEF ApplyMoveProto, SeedMoves
  <1> DEFINE t == FirstPlayer(mv.seed, IF b.seed1 = None THEN 0 ELSE b.seed1)
  <1>2. /\ GetPhase(b) = "first reveal seed" /\ mv.seed = b.seedHash0
        /\ n = [b EXCEPT !.turn = t, !.seedHash0 = None, !.seed1 = None,
                         !.known = <<NoShots, NoShots>>]
    BY <1>1 DEF ApplySeedReveal, NoShots
  <1>3. b \in BoardType
    BY DEF BoardOK
  <1>4. Seeding(b)
    BY <1>2, <1>3, PhaseOf DEF BoardOK
  <1>5. t \in Player
    BY <1>3 DEF FirstPlayer, BoardType, SeedMoves, Player, None
  <1> HIDE DEF t
  <1>6. <<NoShots, NoShots>> \in [1 .. 2 -> Sight]
    BY DEF NoShots, Sight, Grid
  <1>7. n \in BoardType
    BY <1>2, <1>3, <1>5, <1>6 DEF BoardType
  <1>8. Playing(n)
    <2>1. /\ n.known = <<NoShots, NoShots>> /\ n.turn = t /\ n.hashes = b.hashes
          /\ n.positions = <<>> /\ n.winner = None /\ n.shot = None
      BY <1>2, <1>3, <1>4 DEF Seeding, Unplayed, BoardType
    <2>2. \A i \in 1 .. 2 : n.known[i] = NoShots
      BY <2>1
    <2>3. Sighted(n)
      BY <1>6, <2>1, <2>2 DEF Sighted, NoShots
    <2> QED  BY <1>4, <1>5, <2>1, <2>3 DEF Playing, Seeding
  <1> QED  BY <1>2, <1>3, <1>4, <1>7, <1>8 DEF BoardOK, Seeding, Unplayed, BoardType

\* A shot, and the reply to it, at the place i of the board.
Shooting(b, n, i, cell) ==
    /\ Playing(b) /\ b.shot = None /\ Playing(n) /\ n.shot = cell
    /\ cell \in Cells /\ cell \notin b.known[i].guessed
    /\ i = 2 - b.turn /\ n.turn = 1 - b.turn
    /\ n.known = [b.known EXCEPT ![i] = [guessed |-> b.known[i].guessed \cup {cell},
                                         hits |-> b.known[i].hits]]
    /\ n.hashes = b.hashes

Replying(b, n, i, hit) ==
    /\ Playing(b) /\ b.shot # None /\ Playing(n) /\ n.shot = None
    /\ i = b.turn + 1 /\ n.turn = IF hit THEN 1 - b.turn ELSE b.turn
    /\ n.known = [b.known EXCEPT ![i] =
                    [guessed |-> b.known[i].guessed,
                     hits |-> IF hit THEN b.known[i].hits \cup {b.shot} ELSE b.known[i].hits]]
    /\ n.hashes = b.hashes

LEMMA ShotStep ==
    ASSUME NEW b, BoardOK(b), NEW mv \in ShotMoves, NEW n \in ApplyMoveProto(b, mv)
    PROVE  BoardOK(n) /\ Shooting(b, n, 2 - b.turn, mv.location)
  <1>1. n \in ApplyShot(b, mv)
    BY DEF ApplyMoveProto, ShotMoves
  <1> DEFINE other == 1 - b.turn
             i == other + 1
             cell == mv.location
             e == [b EXCEPT !.turn = other, !.shot = cell,
                            !.known[i].guessed = @ \cup {cell}]
  <1>2. /\ GetPhase(b) = "shoot" /\ IsOnBoard(Coord(cell)) /\ cell \notin b.known[i].guessed
        /\ n = e
    BY <1>1 DEF ApplyShot
  <1>3. b \in BoardType
    BY DEF BoardOK
  <1>4. Playing(b) /\ b.shot = None
    BY <1>2, <1>3, PhaseOf DEF BoardOK
  <1>5. cell \in Cells
    BY <1>2, OnBoardCell DEF ShotMoves
  <1>6. b.turn \in Player /\ other \in Player /\ i \in 1 .. 2 /\ i = 2 - b.turn
    BY <1>4 DEF Playing, Player
  <1>7. b.known \in [1 .. 2 -> Sight] /\ b.known[i] \in Sight
    BY <1>4, <1>6 DEF Playing, Sighted
  <1> DEFINE k == [b.known EXCEPT ![i] = [guessed |-> b.known[i].guessed \cup {cell},
                                          hits |-> b.known[i].hits]]
  <1>8. /\ n.turn = other /\ n.shot = cell /\ n.hashes = b.hashes /\ n.positions = b.positions
        /\ n.winner = b.winner /\ n.known = k /\ n.seedHash0 = b.seedHash0 /\ n.seed1 = b.seed1
    <2>1. /\ n.turn = other /\ n.shot = cell /\ n.hashes = b.hashes /\ n.positions = b.positions
          /\ n.winner = b.winner /\ n.seedHash0 = b.seedHash0 /\ n.seed1 = b.seed1
          /\ n.known = [b.known EXCEPT ![i].guessed = @ \cup {cell}]
      BY <1>2, <1>3 DEF BoardType
    <2>2. [b.known EXCEPT ![i].guessed = @ \cup {cell}] = k
      BY <1>6, <1>7 DEF Sight
    <2> QED  BY <2>1, <2>2
  <1>9. k \in [1 .. 2 -> Sight] /\ \A j \in 1 .. 2 : k[j].hits \subseteq k[j].guessed
    BY <1>4, <1>5, <1>6, <1>7 DEF Playing, Sighted, Sight, Grid
  <1>10. cell \in k[n.turn + 1].guessed \ k[n.turn + 1].hits
    BY <1>2, <1>4, <1>6, <1>7, <1>8 DEF Playing, Sighted, Sight
  <1>11. n \in BoardType
    <2>1. k \in {<<>>} \cup [1 .. 2 -> Sight] /\ other \in Player \cup {None}
      BY <1>6, <1>9
    <2> HIDE DEF k, i, other
    <2>2. n = [[b EXCEPT !.turn = other, !.shot = cell] EXCEPT !.known = k]
      BY <1>2, <1>3, <1>8 DEF BoardType
    <2> QED  BY <1>3, <1>5, <2>1, <2>2 DEF BoardType
  <1> HIDE DEF k
  <1>12. Playing(n)
    BY <1>4, <1>6, <1>8, <1>9, <1>10 DEF Playing, Sighted
  <1> QED
    BY <1>2, <1>4, <1>5, <1>6, <1>8, <1>11, <1>12 DEF Shooting, BoardOK, k

LEMMA ReplyStep ==
    ASSUME NEW b, BoardOK(b), NEW mv \in ReplyMoves, NEW n \in ApplyMoveProto(b, mv)
    PROVE  BoardOK(n) /\ mv.reply \in {"hit", "miss"} /\ Replying(b, n, b.turn + 1, mv.reply = "hit")
  <1>1. n \in ApplyReply(b, mv)
    BY DEF ApplyMoveProto, ReplyMoves
  <1> DEFINE i == b.turn + 1
             hit == mv.reply = "hit"
  <1>2. /\ GetPhase(b) = "answer" /\ mv.reply \in {"hit", "miss"}
        /\ \/ /\ mv.reply = "hit" /\ b.shot \notin b.known[i].hits
              /\ n = [b EXCEPT !.shot = None, !.known[i].hits = @ \cup {b.shot}, !.turn = 1 - @]
           \/ /\ mv.reply = "miss"
              /\ n = [b EXCEPT !.shot = None]
    BY <1>1 DEF ApplyReply
  <1>3. b \in BoardType
    BY DEF BoardOK
  <1>4. Playing(b) /\ b.shot # None
    BY <1>2, <1>3, PhaseOf DEF BoardOK
  <1>5. b.turn \in Player /\ 1 - b.turn \in Player /\ i \in 1 .. 2 /\ b.shot \in Cells
    BY <1>3, <1>4 DEF Playing, Player, BoardType
  <1>6. b.known \in [1 .. 2 -> Sight] /\ b.known[i] \in Sight
    BY <1>4, <1>5 DEF Playing, Sighted
  <1> DEFINE h == IF hit THEN b.known[i].hits \cup {b.shot} ELSE b.known[i].hits
             k == [b.known EXCEPT ![i] = [guessed |-> b.known[i].guessed, hits |-> h]]
             t == IF hit THEN 1 - b.turn ELSE b.turn
  <1>7. /\ n.turn = t /\ n.shot = None /\ n.hashes = b.hashes /\ n.positions = b.positions
        /\ n.winner = b.winner /\ n.known = k
    <2>1. CASE mv.reply = "hit"
      <3>1. n = [b EXCEPT !.shot = None, !.known[i].hits = @ \cup {b.shot}, !.turn = 1 - @]
        BY <1>2, <2>1
      <3>2. /\ n.turn = 1 - b.turn /\ n.shot = None /\ n.hashes = b.hashes
            /\ n.positions = b.positions /\ n.winner = b.winner
            /\ n.known = [b.known EXCEPT ![i].hits = @ \cup {b.shot}]
        BY <1>3, <3>1 DEF BoardType
      <3>3. [b.known EXCEPT ![i].hits = @ \cup {b.shot}] = k
        BY <1>5, <1>6, <2>1 DEF Sight
      <3> QED  BY <2>1, <3>2, <3>3
    <2>2. CASE mv.reply = "miss"
      <3>1. n = [b EXCEPT !.shot = None] /\ ~hit
        BY <1>2, <2>2
      <3>2. /\ n.turn = b.turn /\ n.shot = None /\ n.hashes = b.hashes
            /\ n.positions = b.positions /\ n.winner = b.winner /\ n.known = b.known
        BY <1>3, <3>1 DEF BoardType
      <3>3. b.known = k
        BY <1>5, <1>6, <3>1 DEF Sight
      <3> QED  BY <3>1, <3>2, <3>3
    <2> QED  BY <1>2, <2>1, <2>2
  <1>8. k \in [1 .. 2 -> Sight] /\ \A j \in 1 .. 2 : k[j].hits \subseteq k[j].guessed
    BY <1>4, <1>5, <1>6 DEF Playing, Sighted, Sight, Grid
  <1>9. t \in Player
    BY <1>5
  <1>10. n \in BoardType
    <2> HIDE DEF k, t, i
    <2>1. n = [[b EXCEPT !.shot = None, !.turn = t] EXCEPT !.known = k]
      BY <1>2, <1>3, <1>7 DEF BoardType
    <2> QED  BY <1>3, <1>8, <1>9, <2>1 DEF BoardType
  <1> HIDE DEF k, t
  <1>11. Playing(n)
    BY <1>4, <1>5, <1>7, <1>8, <1>9 DEF Playing, Sighted
  <1> QED
    BY <1>2, <1>4, <1>7, <1>10, <1>11 DEF Replying, BoardOK, k, t

\* The positions that are known before a reveal.
Placed(b) == IF b.positions = <<>> THEN <<{}, {}>> ELSE b.positions

\* The position fits the rules and the answers of player t.
PositionFits(b, t, pos) ==
    VerifyPositionOfShips(pos) /\ pos \cap b.known[t + 1].guessed = b.known[t + 1].hits

Sunk(b, t) == CountOnes(b.known[t + 1].hits) >= TotalShipCells

\* Player t reveals pos on b.
RevealDone(b, n, pos) ==
    /\ n.known = b.known /\ n.shot = b.shot
    /\ n.positions = [Placed(b) EXCEPT ![b.turn + 1] = pos]
    /\ \/ /\ Playing(b) /\ Revealing(n) /\ n.turn = 1 - b.turn
          /\ n.hashes = [b.hashes EXCEPT ![b.turn + 1] = ClearedHash]
          /\ PositionFits(b, b.turn, pos) /\ ~Sunk(b, 1 - b.turn)
       \/ /\ Over(n) /\ n.winner = 1 - b.turn /\ ~PositionFits(b, b.turn, pos)
       \/ /\ Over(n) /\ n.winner = b.turn /\ PositionFits(b, b.turn, pos)
          /\ Revealing(b) \/ Sunk(b, 1 - b.turn)

LEMMA RevealStep ==
    ASSUME NEW b, BoardOK(b), NEW mv \in RevealMoves, NEW n \in ApplyMoveProto(b, mv)
    PROVE  /\ BoardOK(n) /\ (Playing(b) \/ Revealing(b))
           /\ b.hashes[b.turn + 1] = [pos |-> mv.pos, salt |-> mv.salt]
           /\ RevealDone(b, n, mv.pos)
  <1>1. n \in ApplyPositionReveal(b, mv)
    BY DEF ApplyMoveProto, RevealMoves
  <1> DEFINE me == b.turn + 1
             pos == mv.pos
             placed == [Placed(b) EXCEPT ![me] = pos]
             w == WinnerOfReveal(b, pos)
             open == [b EXCEPT !.positions = placed, !.turn = 1 - @, !.hashes[me] = ClearedHash]
             done == [b EXCEPT !.positions = placed, !.winner = w, !.turn = None,
                               !.hashes = <<ClearedHash, ClearedHash>>]
  <1>2. /\ GetPhase(b) \in {"shoot", "answer", "second reveal position"}
        /\ b.hashes[me] = [pos |-> pos, salt |-> mv.salt]
        /\ w # None => n = done
        /\ w = None => n = open
    BY <1>1 DEF ApplyPositionReveal, Placed
  <1>3. b \in BoardType /\ pos \in Grid
    BY DEF BoardOK, RevealMoves
  <1>4. Playing(b) \/ Revealing(b)
    <2>1. /\ "first commitment" \notin {"shoot", "answer", "second reveal position"}
          /\ "second commitment" \notin {"shoot", "answer", "second reveal position"}
          /\ "first reveal seed" \notin {"shoot", "answer", "second reveal position"}
          /\ "finished" \notin {"shoot", "answer", "second reveal position"}
      OBVIOUS
    <2> QED  BY <1>2, <1>3, <2>1, PhaseOf DEF BoardOK
  <1>5. /\ b.turn \in Player /\ 1 - b.turn \in Player /\ me \in 1 .. 2 /\ Sighted(b)
        /\ Len(b.hashes) = 2 /\ b.winner = None /\ 2 - b.turn = (1 - b.turn) + 1
    BY <1>4 DEF Playing, Revealing, Player
  <1>6. /\ ~PositionFits(b, b.turn, pos) => w = 1 - b.turn
        /\ PositionFits(b, b.turn, pos) =>
              w = IF GetPhase(b) = "second reveal position" \/ Sunk(b, 1 - b.turn)
                  THEN b.turn ELSE None
    <2>1. Sunk(b, 1 - b.turn) <=> CountOnes(b.known[2 - b.turn].hits) >= TotalShipCells
      BY <1>5 DEF Sunk
    <2>2. /\ ~PositionFits(b, b.turn, pos) <=>
              (~VerifyPositionOfShips(pos)
               \/ ~VerifyPositionForAnswers(pos, b.known[me].guessed, b.known[me].hits))
      BY DEF PositionFits, VerifyPositionForAnswers
    <2> QED  BY <2>1, <2>2 DEF WinnerOfReveal
  <1>7. GetPhase(b) = "second reveal position" <=> Revealing(b)
    BY <1>3, <1>4, PhaseOf
  <1>8. Placed(b) \in [1 .. 2 -> Grid] /\ placed \in [1 .. 2 -> Grid]
    BY <1>3, <1>5 DEF Placed, BoardType, Grid
  <1>9. ClearedHash \in Hash
    BY DEF ClearedHash, Hash, Grid, None
  <1> HIDE DEF w
  <1>10. CASE w = None
    <2>1. n = open
      BY <1>2, <1>10
    <2>2. PositionFits(b, b.turn, pos) /\ ~Revealing(b) /\ ~Sunk(b, 1 - b.turn)
      <3>1. b.turn # None /\ 1 - b.turn # None
        BY <1>5 DEF Player, None
      <3> QED  BY <3>1, <1>6, <1>7, <1>10
    <2>3. Playing(b) /\ Placed(b) = <<{}, {}>>
      BY <1>4, <2>2 DEF Playing, Placed
    <2>4. pos # {}
      BY <1>3, <2>2, ValidPositionsCount DEF PositionFits, Grid
    <2> DEFINE hs == [b.hashes EXCEPT ![me] = ClearedHash]
    <2>5. hs \in Seq(Hash) /\ Len(hs) = 2
      <3>1. b.hashes \in Seq(Hash)
        BY <1>3 DEF BoardType
      <3>2. b.hashes \in [1 .. 2 -> Hash]
        BY <1>5, <3>1, LenProperties
      <3>3. hs \in [1 .. 2 -> Hash]
        BY <1>5, <1>9, <3>2
      <3> HIDE DEF hs
      <3> QED  BY <3>3, FunctionIsSequence
    <2>6. /\ n.turn = 1 - b.turn /\ n.hashes = hs /\ n.positions = placed
          /\ n.winner = b.winner /\ n.known = b.known /\ n.shot = b.shot
      BY <1>3, <2>1 DEF BoardType
    <2> HIDE DEF placed, hs
    <2>7. n \in BoardType
      <3>1. n = [b EXCEPT !.positions = placed, !.turn = 1 - b.turn, !.hashes = hs]
        BY <1>3, <2>1 DEF BoardType, hs
      <3> QED  BY <1>3, <1>5, <1>8, <2>5, <3>1 DEF BoardType
    <2>8. placed[n.turn + 1] = {} /\ placed[2 - n.turn] = pos
      <3>1. placed = [<<{}, {}>> EXCEPT ![me] = pos]
        BY <2>3 DEF placed
      <3>2. CASE b.turn = 0
        <4>1. me = 1 /\ n.turn + 1 = 2 /\ 2 - n.turn = 1
          BY <2>6, <3>2
        <4> HIDE DEF me
        <4> QED  BY <3>1, <4>1
      <3>3. CASE b.turn = 1
        <4>1. me = 2 /\ n.turn + 1 = 1 /\ 2 - n.turn = 2
          BY <2>6, <3>3
        <4> HIDE DEF me
        <4> QED  BY <3>1, <4>1
      <3> QED  BY <1>5, <3>2, <3>3 DEF Player
    <2>9. Revealing(n)
      BY <1>5, <1>8, <2>4, <2>5, <2>6, <2>8 DEF Revealing, Sighted
    <2> QED
      BY <1>2, <1>4, <2>2, <2>3, <2>6, <2>7, <2>9 DEF BoardOK, RevealDone, placed, hs
  <1>11. CASE w # None
    <2>1. n = done /\ w \in Player
      BY <1>2, <1>5, <1>6, <1>11 DEF Player
    <2> DEFINE hs == <<ClearedHash, ClearedHash>>
    <2>2. hs \in Seq(Hash) /\ Len(hs) = 2
      BY <1>9
    <2>3. /\ n.turn = None /\ n.hashes = hs /\ n.positions = placed
          /\ n.winner = w /\ n.known = b.known /\ n.shot = b.shot
      BY <1>3, <2>1 DEF BoardType
    <2> HIDE DEF placed, hs
    <2>4. n \in BoardType
      BY <1>3, <1>8, <2>1, <2>2 DEF BoardType, hs
    <2>5. Over(n)
      BY <1>5, <1>8, <2>1, <2>2, <2>3 DEF Over, Sighted
    <2>6. b.turn # 1 - b.turn
      BY <1>5 DEF Player
    <2>7. \/ w = 1 - b.turn /\ ~PositionFits(b, b.turn, pos)
          \/ /\ w = b.turn /\ PositionFits(b, b.turn, pos)
             /\ Revealing(b) \/ Sunk(b, 1 - b.turn)
      BY <1>6, <1>7, <1>11
    <2> QED
      BY <1>2, <1>4, <2>3, <2>4, <2>5, <2>7 DEF BoardOK, RevealDone, placed
  <1> QED  BY <1>10, <1>11

LEMMA ValidBoard ==
    ASSUME NEW b, BoardOK(b)
    PROVE  IsValid(b)
  <1>1. b \in BoardType
    BY DEF BoardOK
  <1>2. CASE Committing(b, 0)
    BY <1>1, <1>2, PhaseOf DEF IsValid, Committing
  <1>3. CASE Committing(b, 1)
    BY <1>1, <1>3, PhaseOf DEF IsValid, Committing
  <1>4. CASE Seeding(b)
    BY <1>1, <1>4, PhaseOf DEF IsValid, Seeding
  <1>5. CASE Playing(b)
    BY <1>1, <1>5, PhaseOf DEF IsValid, Playing, Player
  <1>6. CASE Revealing(b)
    BY <1>1, <1>6, PhaseOf DEF IsValid, Revealing, Player
  <1>7. CASE Over(b)
    BY <1>1, <1>7, PhaseOf DEF IsValid, Over
  <1> QED  BY <1>2, <1>3, <1>4, <1>5, <1>6, <1>7 DEF BoardOK

----------------------------------------------------------------------------
(* The turn count.                                                         *)

Open(b) == IF b.shot # None THEN 1 ELSE 0
ShownAt(b) == {i \in DOMAIN b.positions : b.positions[i] \cap IntCells # {}}

LEMMA CountOf ==
    ASSUME NEW b, BoardOK(b)
    PROVE  /\ Committing(b, 0) => TurnCount(b) = 1
           /\ Committing(b, 1) => TurnCount(b) = 2
           /\ Seeding(b) => TurnCount(b) = 3
           /\ Playing(b) \/ Revealing(b) \/ Over(b) =>
                TurnCount(b) = 4 + 2 * ShotCount(b) - Open(b) + Cardinality(ShownAt(b))
  <1>1. b \in BoardType
    BY DEF BoardOK
  <1>2. /\ Committing(b, 0) => TurnCount(b) = 1
        /\ Committing(b, 1) => TurnCount(b) = 2
        /\ Seeding(b) => TurnCount(b) = 3
    BY <1>1, PhaseOf DEF TurnCount
  <1>3. ASSUME Playing(b) \/ Revealing(b) \/ Over(b)
        PROVE  TurnCount(b) = 4 + 2 * ShotCount(b) - Open(b) + Cardinality(ShownAt(b))
    <2>1. GetPhase(b) \in {"shoot", "answer", "second reveal position", "finished"}
      BY <1>1, <1>3, PhaseOf
    <2>2. GetPhase(b) \notin {"first commitment", "second commitment", "first reveal seed"}
      BY <2>1
    <2> QED  BY <2>2 DEF TurnCount, Open, ShownAt
  <1> QED  BY <1>2, <1>3

LEMMA ShotCountOf ==
    ASSUME NEW b, Sighted(b)
    PROVE  /\ ShotCount(b) = Cardinality(b.known[1].guessed) + Cardinality(b.known[2].guessed)
           /\ ShotCount(b) \in Nat
           /\ \A i \in 1 .. 2 : /\ IsFiniteSet(b.known[i].guessed)
                                /\ Cardinality(b.known[i].guessed) \in Nat
  <1>1. b.known # <<>>
    BY LenTwo DEF Sighted
  <1>2. \A i \in 1 .. 2 : b.known[i].guessed \in Grid
    BY DEF Sighted, Sight
  <1>3. \A i \in 1 .. 2 : /\ IsFiniteSet(b.known[i].guessed)
                          /\ Cardinality(b.known[i].guessed) \in Nat
    BY <1>2, SizesOfMoves
  <1>4. ShotCount(b) = Cardinality(b.known[1].guessed) + Cardinality(b.known[2].guessed)
    BY <1>1 DEF ShotCount, CountOnes
  <1> QED  BY <1>3, <1>4

LEMMA ShownOf ==
    ASSUME NEW b, BoardOK(b)
    PROVE  /\ IsFiniteSet(ShownAt(b)) /\ Cardinality(ShownAt(b)) \in Nat
           /\ ShownAt(b) \subseteq 1 .. 2
           /\ b.positions = <<>> => Cardinality(ShownAt(b)) = 0 /\ ShownAt(b) = {}
  <1>1. b.positions = <<>> \/ b.positions \in [1 .. 2 -> Grid]
    BY DEF BoardOK, BoardType
  <1>2. DOMAIN b.positions \subseteq 1 .. 2
    BY <1>1
  <1>3. IsFiniteSet(1 .. 2)
    <2>1. 1 \in Int /\ 2 \in Int
      OBVIOUS
    <2> QED  BY <2>1, FS_Interval, Zenon
  <1>4. ShownAt(b) \subseteq 1 .. 2
    BY <1>2, Zenon DEF ShownAt
  <1>5. IsFiniteSet(ShownAt(b)) /\ Cardinality(ShownAt(b)) \in Nat
    BY <1>3, <1>4, FS_Subset, FS_CardinalityType
  <1>6. ASSUME b.positions = <<>> PROVE ShownAt(b) = {}
    BY <1>6 DEF ShownAt
  <1> QED  BY <1>4, <1>5, <1>6, FS_EmptySet

LEMMA ShootingCounts ==
    ASSUME NEW b, BoardOK(b), NEW n, BoardOK(n), NEW i, NEW cell, Shooting(b, n, i, cell)
    PROVE  TurnCount(n) = TurnCount(b) + 1
  <1>1. /\ Playing(b) /\ Playing(n) /\ Sighted(b) /\ Sighted(n) /\ b.shot = None
        /\ n.shot = cell /\ cell # None /\ b.positions = <<>> /\ n.positions = <<>>
        /\ b.turn \in Player /\ i = 2 - b.turn /\ cell \notin b.known[i].guessed
    BY SizesOfMoves DEF Shooting, Playing
  <1>2. i \in 1 .. 2
    BY <1>1 DEF Player
  <1>3. \A j \in 1 .. 2 : n.known[j].guessed = IF j = i THEN b.known[j].guessed \cup {cell}
                                              ELSE b.known[j].guessed
    <2> DEFINE seen == [guessed |-> b.known[i].guessed \cup {cell}, hits |-> b.known[i].hits]
    <2>1. n.known = [b.known EXCEPT ![i] = seen] /\ DOMAIN b.known = 1 .. 2
      BY <1>1 DEF Shooting, Sighted
    <2>2. seen.guessed = b.known[i].guessed \cup {cell}
      OBVIOUS
    <2> HIDE DEF seen
    <2>3. ASSUME NEW j \in 1 .. 2
          PROVE  n.known[j] = IF j = i THEN seen ELSE b.known[j]
      BY <2>1
    <2> QED  BY <2>2, <2>3
  <1>4. Cardinality(n.known[i].guessed) = Cardinality(b.known[i].guessed) + 1
    <2> DEFINE g == b.known[i].guessed
    <2>1. n.known[i].guessed = g \cup {cell} /\ cell \notin g
      BY <1>1, <1>2, <1>3
    <2>2. IsFiniteSet(g)
      BY <1>1, <1>2, ShotCountOf
    <2> HIDE DEF g
    <2>3. Cardinality(g \cup {cell}) = Cardinality(g) + 1
      BY <2>1, <2>2, FS_AddElement
    <2> QED  BY <2>1, <2>3 DEF g
  <1>5. /\ ShotCount(b) \in Nat
        /\ \A j \in 1 .. 2 : Cardinality(b.known[j].guessed) \in Nat
        /\ ShotCount(b) = Cardinality(b.known[1].guessed) + Cardinality(b.known[2].guessed)
        /\ ShotCount(n) = Cardinality(n.known[1].guessed) + Cardinality(n.known[2].guessed)
    BY <1>1, ShotCountOf
  <1>6. ShotCount(n) = ShotCount(b) + 1
    BY <1>2, <1>3, <1>4, <1>5
  <1>7. Open(b) = 0 /\ Open(n) = 1
    BY <1>1 DEF Open
  <1>8. /\ TurnCount(b) = 4 + 2 * ShotCount(b) - 0 + 0
        /\ TurnCount(n) = 4 + 2 * ShotCount(n) - 1 + 0
    BY <1>1, <1>7, CountOf, ShownOf
  <1> QED  BY <1>5, <1>6, <1>8

LEMMA ReplyingCounts ==
    ASSUME NEW b, BoardOK(b), NEW n, BoardOK(n), NEW i, NEW hit \in BOOLEAN, Replying(b, n, i, hit)
    PROVE  TurnCount(n) = TurnCount(b) + 1
  <1>1. /\ Playing(b) /\ Playing(n) /\ Sighted(b) /\ Sighted(n) /\ b.shot # None
        /\ n.shot = None /\ b.positions = <<>> /\ n.positions = <<>>
        /\ b.turn \in Player /\ i = b.turn + 1
    BY DEF Replying, Playing
  <1>2. i \in 1 .. 2
    BY <1>1 DEF Player
  <1>3. \A j \in 1 .. 2 : n.known[j].guessed = b.known[j].guessed
    BY <1>1, <1>2 DEF Replying, Sighted
  <1>4. ShotCount(n) = ShotCount(b) /\ ShotCount(b) \in Nat
    BY <1>1, <1>3, ShotCountOf
  <1>5. Open(b) = 1 /\ Open(n) = 0
    BY <1>1 DEF Open
  <1>6. /\ TurnCount(b) = 4 + 2 * ShotCount(b) - 1 + 0
        /\ TurnCount(n) = 4 + 2 * ShotCount(n) - 0 + 0
    BY <1>1, <1>5, CountOf, ShownOf
  <1> QED  BY <1>4, <1>6

LEMMA RevealCounts ==
    ASSUME NEW b, BoardOK(b), NEW n, BoardOK(n), NEW pos \in Grid, Playing(b) \/ Revealing(b),
           RevealDone(b, n, pos), pos \cap IntCells # {}
    PROVE  TurnCount(n) = TurnCount(b) + 1
  <1> DEFINE me == b.turn + 1
  <1>1. /\ Sighted(b) /\ Sighted(n) /\ b.turn \in Player /\ (Revealing(n) \/ Over(n))
        /\ n.known = b.known /\ n.shot = b.shot
        /\ n.positions = [Placed(b) EXCEPT ![me] = pos] /\ me \in 1 .. 2
    BY DEF RevealDone, Playing, Revealing, Over, Player
  <1>2. /\ Placed(b) \in [1 .. 2 -> Grid] /\ Placed(b)[me] = {}
    <2>1. CASE Playing(b)
      <3>1. Placed(b) = <<{}, {}>>
        BY <2>1 DEF Playing, Placed
      <3> QED  BY <1>1, <3>1 DEF Grid
    <2>2. CASE Revealing(b)
      <3>1. b.positions \in [1 .. 2 -> Grid] /\ b.positions # <<>> /\ b.positions[me] = {}
        BY <2>2, LenTwo DEF Revealing
      <3> QED  BY <3>1 DEF Placed
    <2> QED  BY <2>1, <2>2
  <1>3. ShownAt(b) = {j \in 1 .. 2 : Placed(b)[j] \cap IntCells # {}}
    <2>1. CASE Playing(b)
      <3>1. Placed(b) = <<{}, {}>> /\ ShownAt(b) = {}
        BY <2>1, ShownOf DEF Playing, Placed
      <3> QED  BY <3>1
    <2>2. CASE Revealing(b)
      <3>1. b.positions \in [1 .. 2 -> Grid] /\ b.positions # <<>>
        BY <2>2, LenTwo DEF Revealing
      <3> QED  BY <3>1 DEF Placed, ShownAt
    <2> QED  BY <2>1, <2>2
  <1>4. me \notin ShownAt(b) /\ ShownAt(n) = ShownAt(b) \cup {me}
    BY <1>1, <1>2, <1>3 DEF ShownAt
  <1> HIDE DEF me
  <1>5. Cardinality(ShownAt(n)) = Cardinality(ShownAt(b)) + 1 /\ Cardinality(ShownAt(b)) \in Nat
    BY <1>4, ShownOf, FS_AddElement
  <1>6. ShotCount(n) = ShotCount(b) /\ ShotCount(b) \in Nat /\ Open(n) = Open(b) /\ Open(b) \in Nat
    <2>1. ShotCount(n) = ShotCount(b) /\ Open(n) = Open(b)
      BY <1>1 DEF ShotCount, Open
    <2>2. Open(b) \in Nat
      BY DEF Open
    <2>3. ShotCount(b) \in Nat
      BY <1>1, ShotCountOf
    <2> QED  BY <2>1, <2>2, <2>3
  <1>7. /\ TurnCount(b) = 4 + 2 * ShotCount(b) - Open(b) + Cardinality(ShownAt(b))
        /\ TurnCount(n) = 4 + 2 * ShotCount(n) - Open(n) + Cardinality(ShownAt(n))
    BY <1>1, CountOf
  <1> QED  BY <1>5, <1>6, <1>7

LEMMA TurnCountType ==
    ASSUME NEW b, BoardOK(b)
    PROVE  TurnCount(b) \in Int
  <1>1. CASE Committing(b, 0) \/ Committing(b, 1) \/ Seeding(b)
    BY <1>1, CountOf
  <1>2. CASE Playing(b) \/ Revealing(b) \/ Over(b)
    <2>1. Sighted(b)
      BY <1>2 DEF Playing, Revealing, Over
    <2>2. ShotCount(b) \in Nat /\ Cardinality(ShownAt(b)) \in Nat /\ Open(b) \in Nat
      <3>1. ShotCount(b) \in Nat
        BY <2>1, ShotCountOf
      <3>2. Open(b) \in Nat
        BY DEF Open
      <3> QED  BY <3>1, <3>2, ShownOf
    <2>3. TurnCount(b) = 4 + 2 * ShotCount(b) - Open(b) + Cardinality(ShownAt(b))
      BY <1>2, CountOf
    <2> QED  BY <2>2, <2>3
  <1> QED  BY <1>1, <1>2 DEF BoardOK

LEMMA MoveRaisesCount ==
    ASSUME NEW b, BoardOK(b), NEW mv \in Moves, NEW n \in ApplyMoveProto(b, mv)
    PROVE  /\ BoardOK(n)
           /\ \/ TurnCount(n) > TurnCount(b)
              \/ mv.kind = "reveal" /\ mv.pos \cap IntCells = {}
  <1>1. TurnCount(b) \in Int
    BY TurnCountType
  <1>2. CASE mv \in CommitMoves
    <2>1. /\ BoardOK(n)
          /\ \/ Committing(b, 0) /\ Committing(n, 1)
             \/ Committing(b, 1) /\ Seeding(n)
      BY <1>2, CommitStep
    <2>2. TurnCount(n) = TurnCount(b) + 1
      BY <2>1, CountOf
    <2> QED  BY <1>1, <2>1, <2>2
  <1>3. CASE mv \in SeedMoves
    <2>1. /\ BoardOK(n) /\ Seeding(b) /\ Playing(n) /\ n.shot = None
          /\ n.known = <<NoShots, NoShots>>
      BY <1>3, SeedStep
    <2>2. ShotCount(n) = 0
      <3>1. n.known[1].guessed = {} /\ n.known[2].guessed = {}
        BY <2>1 DEF NoShots
      <3>2. Sighted(n) /\ Cardinality({}) = 0
        BY <2>1, FS_EmptySet DEF Playing
      <3>3. ShotCount(n) = Cardinality(n.known[1].guessed) + Cardinality(n.known[2].guessed)
        BY <3>2, ShotCountOf
      <3>4. ShotCount(n) = 0 + 0
        BY <3>1, <3>2, <3>3
      <3> QED  BY <3>4
    <2>3. Open(n) = 0 /\ Cardinality(ShownAt(n)) = 0
      BY <2>1, ShownOf DEF Open, Playing
    <2>4. TurnCount(n) = 4 + 2 * 0 - 0 + 0
      BY <2>1, <2>2, <2>3, CountOf
    <2>5. TurnCount(b) = 3
      BY <2>1, CountOf
    <2> QED  BY <2>1, <2>4, <2>5
  <1>4. CASE mv \in ShotMoves
    BY <1>1, <1>4, ShotStep, ShootingCounts
  <1>5. CASE mv \in ReplyMoves
    <2>1. BoardOK(n) /\ Replying(b, n, b.turn + 1, mv.reply = "hit")
      BY <1>5, ReplyStep
    <2>2. TurnCount(n) = TurnCount(b) + 1
      BY <2>1, ReplyingCounts
    <2> QED  BY <1>1, <2>1, <2>2
  <1>6. CASE mv \in RevealMoves
    <2>1. /\ BoardOK(n) /\ (Playing(b) \/ Revealing(b)) /\ RevealDone(b, n, mv.pos)
          /\ mv.kind = "reveal" /\ mv.pos \in Grid
      BY <1>6, RevealStep DEF RevealMoves
    <2>2. ASSUME mv.pos \cap IntCells # {}
          PROVE  TurnCount(n) = TurnCount(b) + 1
      BY <2>1, <2>2, RevealCounts
    <2> QED  BY <1>1, <2>1, <2>2
  <1>7. CASE mv = [kind |-> "unknown"]
    <2>1. mv.kind \notin {"commit", "seed", "shot", "reply", "reveal"}
      BY <1>7
    <2>2. ApplyMoveProto(b, mv) = {}
      BY <2>1 DEF ApplyMoveProto
    <2> QED  BY <2>2
  <1> QED  BY <1>2, <1>3, <1>4, <1>5, <1>6, <1>7 DEF Moves

----------------------------------------------------------------------------
(* What the boards have in common with the secrets of the player.          *)

OwnType ==
    [index : Player, position : Grid, seed0 : Player, close : Reinit \cup {NoReinit},
     abort : {"none", "automove", "position"}]

Commitment(o) == [pos |-> o.position, salt |-> 0]

\* The shots of the peer that have been answered.
Answered(b, o) ==
    LET seen == b.known[o.index + 1].guessed
    IN  IF b.shot # None /\ b.turn = o.index THEN seen \ {b.shot} ELSE seen

\* HonestNotCheated for one board.
NotCheated(b, o) ==
    LET me == o.index + 1  peer == 2 - o.index
    IN  /\ VerifyPositionOfShips(b.positions[peer])
        /\ b.positions[peer] \cap b.known[peer].guessed = b.known[peer].hits
        /\ \/ o.position \subseteq b.known[me].hits
           \/ b.positions[me] = o.position
              /\ ~(b.positions[peer] \subseteq b.known[peer].hits)

(***************************************************************************)
(* A position that was committed to is kept, what it was committed to with *)
(* is what will be revealed, and all shots have been answered by it.  If   *)
(* we reveal it before the peer, then some ship of the peer is not sunk.   *)
(***************************************************************************)
Kept(b, o) ==
    /\ Len(b.hashes) >= o.index + 1 => o.position # NoPosition
    /\ Len(b.hashes) >= o.index + 1 /\ ~Over(b) /\ (Revealing(b) => b.turn = o.index) =>
          b.hashes[o.index + 1] = Commitment(o)
    /\ Playing(b) => o.position \cap Answered(b, o) = b.known[o.index + 1].hits
    /\ Revealing(b) =>
          /\ o.position \cap b.known[o.index + 1].guessed = b.known[o.index + 1].hits
          /\ b.turn # o.index => b.positions[o.index + 1] = o.position /\ ~Sunk(b, 1 - o.index)
    /\ Over(b) /\ b.winner = 1 - o.index => NotCheated(b, o)

\* No automatic move of ours is due but a commitment or the seed.
Calm(b, o) == b.turn = o.index => ~Revealing(b) /\ ~(Playing(b) /\ b.shot # None)

LEMMA OneStage ==
    ASSUME NEW b, BoardOK(b)
    PROVE  /\ ~(Playing(b) /\ Revealing(b)) /\ ~(Playing(b) /\ Over(b))
           /\ ~(Revealing(b) /\ Over(b))
           /\ Unplayed(b) => ~Playing(b) /\ ~Revealing(b) /\ ~Over(b)
  <1>1. /\ b.positions \in [1 .. 2 -> Grid] => b.positions # <<>>
        /\ b.known \in [1 .. 2 -> Sight] => b.known # <<>>
    BY LenTwo
  <1>2. None \notin Player
    BY DEF None, Player
  <1> QED  BY <1>1, <1>2 DEF Playing, Revealing, Over, Unplayed, Sighted

LEMMA KeptCommit ==
    ASSUME NEW o \in OwnType, NEW b, BoardOK(b), Kept(b, o), NEW mv \in CommitMoves,
           NEW n \in ApplyMoveProto(b, mv),
           b.turn = o.index => mv.hash = Commitment(o) /\ o.position # NoPosition
    PROVE  Kept(n, o)
  <1>1. /\ BoardOK(n) /\ n.hashes = Append(b.hashes, mv.hash)
        /\ \/ Committing(b, 0) /\ Committing(n, 1)
           \/ Committing(b, 1) /\ Seeding(n)
    BY CommitStep
  <1>2. Unplayed(b) /\ Unplayed(n) /\ b.turn = Len(b.hashes) /\ Len(b.hashes) \in {0, 1}
    BY <1>1 DEF Committing, Seeding
  <1>3. ~Playing(n) /\ ~Revealing(n) /\ ~Over(n) /\ ~Revealing(b) /\ ~Over(b)
    BY <1>1, <1>2, OneStage
  <1>4. b.hashes \in Seq(Hash) /\ mv.hash \in Hash /\ o.index \in {0, 1}
    BY DEF BoardOK, BoardType, CommitMoves, OwnType, Player
  <1>5. /\ Len(n.hashes) = Len(b.hashes) + 1
        /\ n.hashes[Len(b.hashes) + 1] = mv.hash
        /\ \A i \in 1 .. Len(b.hashes) : n.hashes[i] = b.hashes[i]
    BY <1>1, <1>4, AppendProperties
  <1>6. ASSUME Len(n.hashes) >= o.index + 1
        PROVE  o.position # NoPosition /\ n.hashes[o.index + 1] = Commitment(o)
    <2>1. CASE o.index = Len(b.hashes)
      BY <1>2, <1>5, <2>1
    <2>2. CASE o.index # Len(b.hashes)
      <3>1. Len(b.hashes) >= o.index + 1 /\ o.index + 1 \in 1 .. Len(b.hashes)
        BY <1>2, <1>4, <1>5, <1>6, <2>2
      <3>2. o.position # NoPosition /\ b.hashes[o.index + 1] = Commitment(o)
        BY <1>3, <3>1 DEF Kept
      <3> QED  BY <1>5, <3>1, <3>2
    <2> QED  BY <2>1, <2>2
  <1> QED  BY <1>3, <1>6 DEF Kept

LEMMA KeptSeed ==
    ASSUME NEW o \in OwnType, NEW b, BoardOK(b), Kept(b, o), NEW mv \in SeedMoves,
           NEW n \in ApplyMoveProto(b, mv)
    PROVE  Kept(n, o)
  <1>1. /\ BoardOK(n) /\ Seeding(b) /\ Playing(n) /\ n.shot = None
        /\ n.known = <<NoShots, NoShots>> /\ n.hashes = b.hashes
    BY SeedStep
  <1>2. ~Revealing(n) /\ ~Over(n) /\ ~Over(b) /\ ~Revealing(b)
    BY <1>1, OneStage DEF Seeding
  <1>3. o.index + 1 \in {1, 2}
    BY DEF OwnType, Player
  <1>4. n.known[o.index + 1] = NoShots
    BY <1>1, <1>3
  <1>5. o.position \cap Answered(n, o) = n.known[o.index + 1].hits
    BY <1>1, <1>4 DEF Answered, NoShots
  <1> QED  BY <1>1, <1>2, <1>5 DEF Kept

LEMMA KeptShot ==
    ASSUME NEW o \in OwnType, NEW b, BoardOK(b), Kept(b, o), NEW mv \in ShotMoves,
           NEW n \in ApplyMoveProto(b, mv)
    PROVE  Kept(n, o)
  <1> DEFINE i == 2 - b.turn
             cell == mv.location
             me == o.index + 1
             seen == [guessed |-> b.known[i].guessed \cup {cell}, hits |-> b.known[i].hits]
  <1>1. BoardOK(n) /\ Shooting(b, n, i, cell)
    BY ShotStep
  <1>2. /\ Playing(b) /\ b.shot = None /\ Playing(n) /\ n.shot = cell /\ n.shot # None
        /\ cell \notin b.known[i].guessed /\ n.turn = 1 - b.turn /\ n.hashes = b.hashes
        /\ n.known = [b.known EXCEPT ![i] = seen] /\ DOMAIN b.known = 1 .. 2 /\ b.turn \in Player
    BY <1>1, SizesOfMoves DEF Shooting, Playing, Sighted
  <1>3. ~Revealing(n) /\ ~Over(n) /\ ~Over(b) /\ ~Revealing(b)
    BY <1>1, <1>2, OneStage
  <1>4. o.index \in Player /\ me \in 1 .. 2 /\ i \in 1 .. 2
    BY <1>2 DEF OwnType, Player
  <1>5. o.position \cap b.known[me].guessed = b.known[me].hits
    BY <1>2 DEF Kept, Answered
  <1>6. o.position \cap Answered(n, o) = n.known[me].hits
    <2>1. CASE b.turn = o.index
      <3>1. i # me /\ n.turn # o.index
        BY <1>2, <1>4, <2>1 DEF Player
      <3>2. n.known[me] = b.known[me]
        BY <1>2, <1>4, <3>1
      <3> QED  BY <1>5, <3>1, <3>2 DEF Answered
    <2>2. CASE b.turn # o.index
      <3>1. i = me /\ n.turn = o.index
        BY <1>2, <1>4, <2>2 DEF Player
      <3>2. n.known[me] = seen
        <4> HIDE DEF seen, i, me
        <4> QED  BY <1>2, <1>4, <3>1
      <3>3. n.known[me].hits = b.known[me].hits /\ n.known[me].guessed = b.known[me].guessed \cup {cell}
        BY <3>1, <3>2
      <3>4. Answered(n, o) = (b.known[me].guessed \cup {cell}) \ {cell}
        BY <1>2, <3>1, <3>3 DEF Answered
      <3>5. Answered(n, o) = b.known[me].guessed
        BY <1>2, <3>1, <3>4
      <3> QED  BY <1>5, <3>3, <3>5
    <2> QED  BY <2>1, <2>2
  <1> QED  BY <1>2, <1>3, <1>6 DEF Kept

LEMMA KeptReply ==
    ASSUME NEW o \in OwnType, NEW b, BoardOK(b), Kept(b, o), NEW mv \in ReplyMoves,
           NEW n \in ApplyMoveProto(b, mv),
           b.turn = o.index => mv.reply = IF b.shot \in o.position THEN "hit" ELSE "miss"
    PROVE  Kept(n, o)
  <1> DEFINE i == b.turn + 1
             me == o.index + 1
             hit == mv.reply = "hit"
             h == IF hit THEN b.known[i].hits \cup {b.shot} ELSE b.known[i].hits
             seen == [guessed |-> b.known[i].guessed, hits |-> h]
  <1>1. BoardOK(n) /\ Replying(b, n, i, hit)
    BY ReplyStep
  <1>2. /\ Playing(b) /\ b.shot # None /\ Playing(n) /\ n.shot = None /\ n.hashes = b.hashes
        /\ n.known = [b.known EXCEPT ![i] = seen] /\ DOMAIN b.known = 1 .. 2 /\ b.turn \in Player
        /\ b.shot \in b.known[i].guessed
    BY <1>1 DEF Replying, Playing, Sighted
  <1>3. ~Revealing(n) /\ ~Over(n) /\ ~Over(b) /\ ~Revealing(b)
    BY <1>1, <1>2, OneStage
  <1>4. o.index \in Player /\ me \in 1 .. 2 /\ i \in 1 .. 2
    BY <1>2 DEF OwnType, Player
  <1>5. o.position \cap Answered(b, o) = b.known[me].hits
    BY <1>2 DEF Kept
  <1>6. Answered(n, o) = n.known[me].guessed
    BY <1>2 DEF Answered
  <1>7. o.position \cap n.known[me].guessed = n.known[me].hits
    <2>1. CASE b.turn # o.index
      <3>1. i # me
        BY <1>2, <1>4, <2>1 DEF Player
      <3>2. n.known[me] = b.known[me]
        BY <1>2, <1>4, <3>1
      <3> QED  BY <1>5, <2>1, <3>2 DEF Answered
    <2>2. CASE b.turn = o.index
      <3>1. i = me
        BY <2>2
      <3>2. n.known[me] = seen
        <4> HIDE DEF seen, i, me
        <4> QED  BY <1>2, <1>4, <3>1
      <3>3. n.known[me].guessed = b.known[me].guessed /\ n.known[me].hits = h
        BY <3>1, <3>2
      <3>4. o.position \cap (b.known[me].guessed \ {b.shot}) = b.known[me].hits
        BY <1>2, <1>5, <2>2 DEF Answered
      <3>5. hit <=> b.shot \in o.position
        BY <2>2
      <3> QED  BY <1>2, <3>1, <3>3, <3>4, <3>5
    <2> QED  BY <2>1, <2>2
  <1> QED  BY <1>2, <1>3, <1>6, <1>7 DEF Kept

----------------------------------------------------------------------------
(* A valid position has as many cells as the fleet: the ships that start   *)
(* at its heads are disjoint and cover it.                                 *)

\* An index stands for one cell.
LEMMA IndexOfCoord ==
    ASSUME NEW r \in 0 .. (Side - 1), NEW c \in 0 .. (Side - 1)
    PROVE  /\ r * Side + c \in Cells
           /\ Coord(r * Side + c) = [row |-> r, column |-> c]
  <1>1. Side \in Nat /\ Side > 0
    BY GridAssumption
  <1> DEFINE x == r * Side + c
             q == x \div Side
             m == x % Side
  <1>2. x \in Int /\ x >= 0 /\ r * Side <= (Side - 1) * Side
    BY <1>1
  <1>3. x \in Cells
    BY <1>1, <1>2 DEF Cells
  <1>4. q \in Int /\ m \in 0 .. (Side - 1) /\ x = Side * q + m
    BY <1>1, <1>2
  <1> HIDE DEF q, m
  <1>5. Side * (q - r) = c - m /\ c - m < Side /\ c - m > -Side
    BY <1>1, <1>4
  <1>6. ~(q - r >= 1)
    <2> SUFFICES ASSUME q - r >= 1 PROVE FALSE
      OBVIOUS
    <2>1. Side * (q - r) >= Side
      BY <1>1, <1>4
    <2> QED  BY <1>1, <1>4, <1>5, <2>1
  <1>7. ~(q - r <= -1)
    <2> SUFFICES ASSUME q - r <= -1 PROVE FALSE
      OBVIOUS
    <2>1. Side * (q - r) <= -Side
      BY <1>1, <1>4
    <2> QED  BY <1>1, <1>4, <1>5, <2>1
  <1>8. q = r
    BY <1>4, <1>6, <1>7
  <1>9. m = c
    BY <1>1, <1>4, <1>8
  <1> QED  BY <1>3, <1>8, <1>9 DEF Coord, q, m

LEMMA CoordOfIndex ==
    ASSUME NEW i \in Cells
    PROVE  /\ Coord(i).row \in 0 .. (Side - 1) /\ Coord(i).column \in 0 .. (Side - 1)
           /\ i = Coord(i).row * Side + Coord(i).column
  <1>1. Side \in Nat /\ Side > 0 /\ i \in Int /\ i >= 0 /\ i < Side * Side
    BY GridAssumption DEF Cells
  <1> DEFINE q == i \div Side
             m == i % Side
  <1>2. q \in Int /\ m \in 0 .. (Side - 1) /\ i = Side * q + m
    BY <1>1
  <1>3. Coord(i).row = q /\ Coord(i).column = m
    BY DEF Coord
  <1> HIDE DEF q, m
  <1>4. q >= 0
    <2> SUFFICES ASSUME q <= -1 PROVE FALSE
      BY <1>2
    <2>1. Side * q <= -Side
      BY <1>1, <1>2
    <2> QED  BY <1>1, <1>2, <2>1
  <1>5. q <= Side - 1
    <2> SUFFICES ASSUME q >= Side PROVE FALSE
      BY <1>1, <1>2
    <2>1. Side * q >= Side * Side
      BY <1>1, <1>2
    <2> QED  BY <1>1, <1>2, <2>1
  <1>6. q * Side = Side * q
    BY <1>1, <1>2
  <1> QED  BY <1>1, <1>2, <1>3, <1>4, <1>5, <1>6

Ship(g, r, c) == HasShip(g, [row |-> r, column |-> c])
Row(i) == Coord(i).row
Column(i) == Coord(i).column

LEMMA ShipCells ==
    ASSUME NEW g \in Grid
    PROVE  /\ \A i \in g : /\ Row(i) \in 0 .. (Side - 1) /\ Column(i) \in 0 .. (Side - 1)
                           /\ Ship(g, Row(i), Column(i))
           /\ \A r, c \in Int : Ship(g, r, c) =>
                 \E i \in g : Row(i) = r /\ Column(i) = c
           /\ \A i, j \in g : Row(i) = Row(j) /\ Column(i) = Column(j) => i = j
  <1>1. g \subseteq Cells
    BY DEF Grid
  <1>2. ASSUME NEW i \in g
        PROVE  /\ Row(i) \in 0 .. (Side - 1) /\ Column(i) \in 0 .. (Side - 1)
               /\ Ship(g, Row(i), Column(i)) /\ i = Row(i) * Side + Column(i)
    BY <1>1, CoordOfIndex DEF Ship, HasShip, IsOnBoard, GetIndex, Row, Column
  <1>3. ASSUME NEW r \in Int, NEW c \in Int, Ship(g, r, c)
        PROVE  \E i \in g : Row(i) = r /\ Column(i) = c
    <2>1. r \in 0 .. (Side - 1) /\ c \in 0 .. (Side - 1) /\ r * Side + c \in g
      BY <1>3 DEF Ship, HasShip, IsOnBoard, GetIndex
    <2> DEFINE i == r * Side + c
    <2>2. Coord(i) = [row |-> r, column |-> c]
      BY <2>1, IndexOfCoord
    <2>3. Row(i) = r /\ Column(i) = c
      BY <2>2 DEF Row, Column
    <2> HIDE DEF i
    <2> QED  BY <2>1, <2>3 DEF i
  <1>4. ASSUME NEW i \in g, NEW j \in g, Row(i) = Row(j), Column(i) = Column(j)
        PROVE  i = j
    BY <1>2, <1>4
  <1> QED  BY <1>2, <1>3, <1>4

LEMMA MinOf ==
    ASSUME NEW T \in SUBSET Nat, T # {}
    PROVE  Min(T) \in T /\ \A y \in T : Min(T) <= y
  BY LeastNumber DEF Min

\* The row and the column of the k-th cell of the ship with the head h.
RowAt(g, h, k) == IF IsVertical(g, h) THEN Row(h) + k ELSE Row(h)
ColumnAt(g, h, k) == IF IsVertical(g, h) THEN Column(h) ELSE Column(h) + k

\* A ship from its head to the free cell at its tail, in one direction.
LEMMA ShipFrom ==
    ASSUME NEW g \in Grid, NEW i \in g, NEW dr \in {0, 1}, NEW dc \in {0, 1}, dr + dc = 1,
           NEW n, n = ShipSize(g, Coord(i), [row |-> dr, column |-> dc])
    PROVE  /\ n \in 1 .. Side
           /\ \A k \in 0 .. (n - 1) : Ship(g, Row(i) + k * dr, Column(i) + k * dc)
           /\ ~Ship(g, Row(i) + n * dr, Column(i) + n * dc)
  <1> DEFINE d == [row |-> dr, column |-> dc]
             T == {k \in 1 .. Side : ~HasShip(g, [row |-> Coord(i).row + k * d.row,
                                                  column |-> Coord(i).column + k * d.column])}
             U == {k \in 1 .. Side : ~Ship(g, Row(i) + k * dr, Column(i) + k * dc)}
  <1>1. T = U
    BY DEF Ship, Row, Column
  <1>2. n = Min(U)
    BY <1>1 DEF ShipSize
  <1>3. /\ Side \in Nat /\ Side > 0 /\ Row(i) \in 0 .. (Side - 1) /\ Column(i) \in 0 .. (Side - 1)
        /\ Ship(g, Row(i), Column(i))
    BY GridAssumption, ShipCells
  <1>4. Side \in U
    <2>1. CASE dr = 1
      <3>1. ~(Row(i) + Side * dr \in 0 .. (Side - 1)) /\ Side \in 1 .. Side
        BY <1>3, <2>1
      <3> QED  BY <3>1 DEF Ship, HasShip, IsOnBoard
    <2>2. CASE dr # 1
      <3>1. dc = 1
        BY <2>2
      <3>2. ~(Column(i) + Side * dc \in 0 .. (Side - 1)) /\ Side \in 1 .. Side
        BY <1>3, <3>1
      <3> QED  BY <3>2 DEF Ship, HasShip, IsOnBoard
    <2> QED  BY <2>1, <2>2
  <1>5. U \in SUBSET Nat /\ U # {}
    BY <1>4
  <1>6. n \in U /\ \A y \in U : n <= y
    <2> HIDE DEF T, U
    <2>1. Min(U) \in U /\ \A y \in U : Min(U) <= y
      BY <1>5, MinOf, Zenon
    <2> QED  BY <1>2, <2>1
  <1>7. ASSUME NEW k \in 0 .. (n - 1)
        PROVE  Ship(g, Row(i) + k * dr, Column(i) + k * dc)
    <2>1. CASE k = 0
      <3>1. Row(i) + k * dr = Row(i) /\ Column(i) + k * dc = Column(i)
        BY <1>3, <2>1
      <3> QED  BY <1>3, <3>1
    <2>2. CASE k # 0
      <3>1. n \in 1 .. Side
        BY <1>6
      <3>2. k \in 1 .. Side /\ ~(n <= k)
        BY <1>3, <2>2, <3>1
      <3> QED  BY <1>6, <3>2
    <2> QED  BY <2>1, <2>2
  <1> QED  BY <1>6, <1>7

LEMMA HeadFacts ==
    ASSUME NEW g \in Grid, VerifyPositionOfShips(g), NEW h \in Heads(g), NEW n, n = SizeAt(g, h)
    PROVE  /\ h \in g /\ n \in Nat /\ n >= 1 /\ n \in DOMAIN AvailableShips
           /\ ~Ship(g, Row(h) - 1, Column(h)) /\ ~Ship(g, Row(h), Column(h) - 1)
           /\ \A k \in 0 .. (n - 1) : Ship(g, RowAt(g, h, k), ColumnAt(g, h, k))
           /\ ~Ship(g, RowAt(g, h, n), ColumnAt(g, h, n))
           /\ IsVertical(g, h) =>
                 \A k \in 0 .. (n - 1) : /\ ~Ship(g, Row(h) + k, Column(h) - 1)
                                         /\ ~Ship(g, Row(h) + k, Column(h) + 1)
           /\ ~IsVertical(g, h) =>
                 \A k \in 0 .. (n - 1) : /\ ~Ship(g, Row(h) - 1, Column(h) + k)
                                         /\ ~Ship(g, Row(h) + 1, Column(h) + k)
  <1>1. h \in g /\ n \in DOMAIN AvailableShips
    BY DEF Heads, VerifyPositionOfShips
  <1>2. Row(h) \in Int /\ Column(h) \in Int
    BY <1>1, ShipCells
  <1>3. ~Ship(g, Row(h) - 1, Column(h)) /\ ~Ship(g, Row(h), Column(h) - 1)
    <2>1. /\ Plus(Coord(h), UP) = [row |-> Row(h) - 1, column |-> Column(h)]
          /\ Plus(Coord(h), LEFT) = [row |-> Row(h), column |-> Column(h) - 1]
      BY <1>2 DEF Plus, UP, LEFT, Row, Column
    <2>2. ~HasShip(g, Plus(Coord(h), UP)) /\ ~HasShip(g, Plus(Coord(h), LEFT))
      BY DEF Heads
    <2> QED  BY <2>1, <2>2 DEF Ship
  <1>4. CASE IsVertical(g, h)
    <2>1. n = ShipSize(g, Coord(h), DOWN) /\ CheckShip(g, Coord(h), DOWN, RIGHT)
      BY <1>4 DEF SizeAt, VerifyPositionOfShips
    <2>2. /\ n \in 1 .. Side
          /\ \A k \in 0 .. (n - 1) : Ship(g, Row(h) + k * 1, Column(h) + k * 0)
          /\ ~Ship(g, Row(h) + n * 1, Column(h) + n * 0)
      <3>1. n = ShipSize(g, Coord(h), [row |-> 1, column |-> 0])
        BY <2>1 DEF DOWN
      <3>2. 1 \in {0, 1} /\ 0 \in {0, 1} /\ 1 + 0 = 1
        OBVIOUS
      <3> QED  BY <1>1, <3>1, <3>2, ShipFrom
    <2>3. n \in Nat /\ n >= 1
      BY <2>2, SizesOfMoves
    <2>4. ASSUME NEW k \in 0 .. (n - 1)
          PROVE  Ship(g, RowAt(g, h, k), ColumnAt(g, h, k))
      <3>1. RowAt(g, h, k) = Row(h) + k * 1 /\ ColumnAt(g, h, k) = Column(h) + k * 0
        BY <1>2, <1>4, <2>3 DEF RowAt, ColumnAt
      <3> QED  BY <2>2, <3>1
    <2>5. ~Ship(g, RowAt(g, h, n), ColumnAt(g, h, n))
      <3>1. RowAt(g, h, n) = Row(h) + n * 1 /\ ColumnAt(g, h, n) = Column(h) + n * 0
        BY <1>2, <1>4, <2>3 DEF RowAt, ColumnAt
      <3> QED  BY <2>2, <3>1
    <2>6. ASSUME NEW k \in 0 .. (n - 1)
          PROVE  ~Ship(g, Row(h) + k, Column(h) - 1) /\ ~Ship(g, Row(h) + k, Column(h) + 1)
      <3> DEFINE c == [row |-> Coord(h).row + k * DOWN.row, column |-> Coord(h).column + k * DOWN.column]
      <3>1. k \in -1 .. ShipSize(g, Coord(h), DOWN)
        BY <2>1, <2>3
      <3>2. ~HasShip(g, Minus(c, RIGHT)) /\ ~HasShip(g, Plus(c, RIGHT))
        BY <2>1, <3>1 DEF CheckShip
      <3>3. c = [row |-> Row(h) + k, column |-> Column(h)]
        BY <1>2, <2>3 DEF DOWN, Row, Column
      <3> HIDE DEF c
      <3>4. /\ Minus(c, RIGHT) = [row |-> Row(h) + k, column |-> Column(h) - 1]
            /\ Plus(c, RIGHT) = [row |-> Row(h) + k, column |-> Column(h) + 1]
        BY <1>2, <2>3, <3>3 DEF Minus, Plus, RIGHT
      <3> QED  BY <3>2, <3>4 DEF Ship
    <2> QED  BY <1>1, <1>3, <1>4, <2>3, <2>4, <2>5, <2>6
  <1>5. CASE ~IsVertical(g, h)
    <2>1. n = ShipSize(g, Coord(h), RIGHT) /\ CheckShip(g, Coord(h), RIGHT, DOWN)
      BY <1>5 DEF SizeAt, VerifyPositionOfShips
    <2>2. /\ n \in 1 .. Side
          /\ \A k \in 0 .. (n - 1) : Ship(g, Row(h) + k * 0, Column(h) + k * 1)
          /\ ~Ship(g, Row(h) + n * 0, Column(h) + n * 1)
      <3>1. n = ShipSize(g, Coord(h), [row |-> 0, column |-> 1])
        BY <2>1 DEF RIGHT
      <3>2. 1 \in {0, 1} /\ 0 \in {0, 1} /\ 0 + 1 = 1
        OBVIOUS
      <3> QED  BY <1>1, <3>1, <3>2, ShipFrom
    <2>3. n \in Nat /\ n >= 1
      BY <2>2, SizesOfMoves
    <2>4. ASSUME NEW k \in 0 .. (n - 1)
          PROVE  Ship(g, RowAt(g, h, k), ColumnAt(g, h, k))
      <3>1. RowAt(g, h, k) = Row(h) + k * 0 /\ ColumnAt(g, h, k) = Column(h) + k * 1
        BY <1>2, <1>5, <2>3 DEF RowAt, ColumnAt
      <3> QED  BY <2>2, <3>1
    <2>5. ~Ship(g, RowAt(g, h, n), ColumnAt(g, h, n))
      <3>1. RowAt(g, h, n) = Row(h) + n * 0 /\ ColumnAt(g, h, n) = Column(h) + n * 1
        BY <1>2, <1>5, <2>3 DEF RowAt, ColumnAt
      <3> QED  BY <2>2, <3>1
    <2>6. ASSUME NEW k \in 0 .. (n - 1)
          PROVE  ~Ship(g, Row(h) - 1, Column(h) + k) /\ ~Ship(g, Row(h) + 1, Column(h) + k)
      <3> DEFINE c == [row |-> Coord(h).row + k * RIGHT.row, column |-> Coord(h).column + k * RIGHT.column]
      <3>1. k \in -1 .. ShipSize(g, Coord(h), RIGHT)
        BY <2>1, <2>3
      <3>2. ~HasShip(g, Minus(c, DOWN)) /\ ~HasShip(g, Plus(c, DOWN))
        BY <2>1, <3>1 DEF CheckShip
      <3>3. c = [row |-> Row(h), column |-> Column(h) + k]
        BY <1>2, <2>3 DEF RIGHT, Row, Column
      <3> HIDE DEF c
      <3>4. /\ Minus(c, DOWN) = [row |-> Row(h) - 1, column |-> Column(h) + k]
            /\ Plus(c, DOWN) = [row |-> Row(h) + 1, column |-> Column(h) + k]
        BY <1>2, <2>3, <3>3 DEF Minus, Plus, DOWN
      <3> QED  BY <3>2, <3>4 DEF Ship
    <2> QED  BY <1>1, <1>3, <1>5, <2>3, <2>4, <2>5, <2>6
  <1> QED  BY <1>4, <1>5

\* The cell x is the k-th of the ship with the head h.
CellOf(g, x, h, k) ==
    /\ h \in Heads(g) /\ k \in 0 .. (SizeAt(g, h) - 1)
    /\ Row(x) = RowAt(g, h, k) /\ Column(x) = ColumnAt(g, h, k)

\* Every cell is in a ship: the first that is not has a neighbour that is, and
\* the checks beside that ship leave no room for it.
LEMMA CellsCovered ==
    ASSUME NEW g \in Grid, VerifyPositionOfShips(g), NEW x \in g
    PROVE  \E h, k : CellOf(g, x, h, k)
  <1> DEFINE Bad == {y \in g : ~ \E h, k : CellOf(g, y, h, k)}
             T == {Row(y) + Column(y) : y \in Bad}
  <1>1. \A y \in g : Row(y) \in Nat /\ Column(y) \in Nat /\ Ship(g, Row(y), Column(y))
    BY ShipCells
  <1>2. SUFFICES ASSUME x \in Bad PROVE FALSE
    OBVIOUS
  <1>3. T \in SUBSET Nat /\ T # {}
    BY <1>1, <1>2
  <1>4. PICK t \in T : \A u \in T : t <= u
    <2> HIDE DEF T
    <2> QED  BY <1>3, LeastNumber
  <1>5. PICK y \in Bad : t = Row(y) + Column(y)
    BY <1>4
  <1>6. y \in g /\ Row(y) \in Nat /\ Column(y) \in Nat /\ Ship(g, Row(y), Column(y))
    BY <1>1, <1>5
  <1>7. \A z \in g : Row(z) + Column(z) < Row(y) + Column(y) => \E h, k : CellOf(g, z, h, k)
    <2> SUFFICES ASSUME NEW z \in g, Row(z) + Column(z) < Row(y) + Column(y), z \in Bad
                 PROVE  FALSE
      OBVIOUS
    <2>1. Row(z) + Column(z) \in T
      OBVIOUS
    <2>2. t <= Row(z) + Column(z)
      <3> HIDE DEF T
      <3> QED  BY <1>4, <2>1
    <2> QED  BY <1>1, <1>5, <1>6, <2>2
  <1>8. ASSUME NEW h, NEW k, CellOf(g, y, h, k) PROVE FALSE
    BY <1>5, <1>8
  <1> HIDE DEF Bad, T
  <1>9. y \notin Heads(g)
    <2> SUFFICES ASSUME y \in Heads(g) PROVE FALSE
      OBVIOUS
    <2>1. SizeAt(g, y) \in Nat /\ SizeAt(g, y) >= 1
      BY HeadFacts
    <2>2. CellOf(g, y, y, 0)
      BY <1>6, <2>1 DEF CellOf, RowAt, ColumnAt
    <2> QED  BY <1>8, <2>2
  <1>10. Ship(g, Row(y) - 1, Column(y)) \/ Ship(g, Row(y), Column(y) - 1)
    <2>1. /\ Plus(Coord(y), UP) = [row |-> Row(y) - 1, column |-> Column(y)]
          /\ Plus(Coord(y), LEFT) = [row |-> Row(y), column |-> Column(y) - 1]
      BY <1>6 DEF Plus, UP, LEFT, Row, Column
    <2> QED  BY <1>6, <1>9, <2>1 DEF Heads, Ship
  <1>11. ASSUME NEW z \in g, NEW h, NEW k, CellOf(g, z, h, k), NEW n, n = SizeAt(g, h)
         PROVE  /\ h \in Heads(g) /\ n \in Nat /\ k \in 0 .. (n - 1)
                /\ Row(h) \in Int /\ Column(h) \in Int
                /\ ~(Row(y) = RowAt(g, h, k + 1) /\ Column(y) = ColumnAt(g, h, k + 1))
    <2>1. /\ h \in Heads(g) /\ n \in Nat /\ k \in 0 .. (n - 1)
          /\ ~Ship(g, RowAt(g, h, n), ColumnAt(g, h, n)) /\ h \in g
      BY <1>11, HeadFacts DEF CellOf
    <2>2. ASSUME Row(y) = RowAt(g, h, k + 1) /\ Column(y) = ColumnAt(g, h, k + 1) PROVE FALSE
      <3>1. k + 1 # n
        BY <1>6, <2>1, <2>2
      <3>2. k + 1 \in 0 .. (n - 1)
        BY <2>1, <3>1
      <3>3. CellOf(g, y, h, k + 1)
        BY <1>11, <2>1, <2>2, <3>2 DEF CellOf
      <3> QED  BY <1>8, <3>3
    <2> QED  BY <1>1, <2>1, <2>2
  <1>12. CASE Ship(g, Row(y) - 1, Column(y))
    <2>1. PICK z \in g : Row(z) = Row(y) - 1 /\ Column(z) = Column(y)
      BY <1>6, <1>12, ShipCells
    <2>2. PICK h, k : CellOf(g, z, h, k)
      BY <1>6, <1>7, <2>1
    <2> DEFINE n == SizeAt(g, h)
    <2>3. /\ h \in Heads(g) /\ n \in Nat /\ k \in 0 .. (n - 1) /\ Row(h) \in Int /\ Column(h) \in Int
          /\ ~(Row(y) = RowAt(g, h, k + 1) /\ Column(y) = ColumnAt(g, h, k + 1))
      BY <1>11, <2>2
    <2>4. Row(z) = RowAt(g, h, k) /\ Column(z) = ColumnAt(g, h, k)
      BY <2>2 DEF CellOf
    <2>5. CASE IsVertical(g, h)
      BY <1>6, <2>1, <2>3, <2>4, <2>5 DEF RowAt, ColumnAt
    <2>6. CASE ~IsVertical(g, h)
      <3>1. ~Ship(g, Row(h) + 1, Column(h) + k)
        BY <2>3, <2>6, HeadFacts
      <3>2. Row(h) + 1 = Row(y) /\ Column(h) + k = Column(y)
        BY <1>6, <2>1, <2>3, <2>4, <2>6 DEF RowAt, ColumnAt
      <3> QED  BY <1>6, <3>1, <3>2
    <2> QED  BY <2>5, <2>6
  <1>13. CASE Ship(g, Row(y), Column(y) - 1)
    <2>1. PICK z \in g : Row(z) = Row(y) /\ Column(z) = Column(y) - 1
      BY <1>6, <1>13, ShipCells
    <2>2. PICK h, k : CellOf(g, z, h, k)
      BY <1>6, <1>7, <2>1
    <2> DEFINE n == SizeAt(g, h)
    <2>3. /\ h \in Heads(g) /\ n \in Nat /\ k \in 0 .. (n - 1) /\ Row(h) \in Int /\ Column(h) \in Int
          /\ ~(Row(y) = RowAt(g, h, k + 1) /\ Column(y) = ColumnAt(g, h, k + 1))
      BY <1>11, <2>2
    <2>4. Row(z) = RowAt(g, h, k) /\ Column(z) = ColumnAt(g, h, k)
      BY <2>2 DEF CellOf
    <2>5. CASE ~IsVertical(g, h)
      BY <1>6, <2>1, <2>3, <2>4, <2>5 DEF RowAt, ColumnAt
    <2>6. CASE IsVertical(g, h)
      <3>1. ~Ship(g, Row(h) + k, Column(h) + 1)
        BY <2>3, <2>6, HeadFacts
      <3>2. Row(h) + k = Row(y) /\ Column(h) + 1 = Column(y)
        BY <1>6, <2>1, <2>3, <2>4, <2>6 DEF RowAt, ColumnAt
      <3> QED  BY <1>6, <3>1, <3>2
    <2> QED  BY <2>5, <2>6
  <1> QED  BY <1>10, <1>12, <1>13

\* Ships are disjoint: two that share a cell share the one before it.
LEMMA ShipsDisjoint ==
    ASSUME NEW g \in Grid, VerifyPositionOfShips(g)
    PROVE  \A x, h, k, i, j : CellOf(g, x, h, k) /\ CellOf(g, x, i, j) => h = i /\ k = j
  <1> DEFINE T == {k \in Nat : \E x, h, i, j : /\ CellOf(g, x, h, k) /\ CellOf(g, x, i, j)
                                               /\ ~(h = i /\ k = j)}
  <1>1. ASSUME NEW x, NEW h, NEW k, CellOf(g, x, h, k), NEW n, n = SizeAt(g, h)
        PROVE  /\ h \in Heads(g) /\ h \in g /\ n \in Nat /\ n >= 1 /\ k \in 0 .. (n - 1) /\ k \in Nat
               /\ Row(h) \in Int /\ Column(h) \in Int
               /\ Row(x) = RowAt(g, h, k) /\ Column(x) = ColumnAt(g, h, k)
               /\ k # 0 => /\ k - 1 \in 0 .. (n - 1)
                           /\ Ship(g, RowAt(g, h, k - 1), ColumnAt(g, h, k - 1))
    <2>1. h \in Heads(g) /\ h \in g /\ n \in Nat /\ n >= 1 /\ k \in 0 .. (n - 1)
      BY <1>1, HeadFacts DEF CellOf
    <2>2. k # 0 => k - 1 \in 0 .. (n - 1)
      BY <2>1
    <2>3. k # 0 => Ship(g, RowAt(g, h, k - 1), ColumnAt(g, h, k - 1))
      BY <1>1, <2>1, <2>2, HeadFacts
    <2>4. Row(h) \in Int /\ Column(h) \in Int
      BY <2>1, ShipCells
    <2> QED  BY <1>1, <2>1, <2>2, <2>3, <2>4 DEF CellOf
  <1>2. SUFFICES ASSUME T # {} PROVE FALSE
    <2>1. ASSUME NEW x, NEW h, NEW k, NEW i, NEW j, CellOf(g, x, h, k), CellOf(g, x, i, j),
                 ~(h = i /\ k = j)
          PROVE  T # {}
      <3>1. k \in Nat
        BY <1>1, <2>1
      <3> QED  BY <2>1, <3>1
    <2> QED  BY <1>2, <2>1
  <1>3. PICK k \in T : \A l \in T : k <= l
    <2>1. T \in SUBSET Nat
      OBVIOUS
    <2> HIDE DEF T
    <2> QED  BY <1>2, <2>1, LeastNumber
  <1>4. PICK x, h, i, j : CellOf(g, x, h, k) /\ CellOf(g, x, i, j) /\ ~(h = i /\ k = j)
    BY <1>3
  <1>5. ASSUME k # 0, NEW y, NEW l, CellOf(g, y, h, k - 1), CellOf(g, y, i, l)
        PROVE  h = i /\ k - 1 = l
    <2>1. k - 1 \in Nat /\ ~(k <= k - 1)
      BY <1>5, <1>3
    <2>2. k - 1 \notin T
      <3> HIDE DEF T
      <3> QED  BY <1>3, <2>1
    <2> QED  BY <1>5, <2>1, <2>2
  <1> HIDE DEF T
  <1>6. /\ h \in Heads(g) /\ i \in Heads(g) /\ k \in Nat /\ j \in Nat
        /\ Row(h) \in Int /\ Column(h) \in Int /\ Row(i) \in Int /\ Column(i) \in Int
        /\ RowAt(g, h, k) = RowAt(g, i, j) /\ ColumnAt(g, h, k) = ColumnAt(g, i, j)
        /\ k \in 0 .. (SizeAt(g, h) - 1) /\ j \in 0 .. (SizeAt(g, i) - 1)
        /\ h \in g /\ i \in g
    BY <1>1, <1>4
  <1>7. ASSUME NEW p \in Heads(g), NEW l \in Nat, l # 0, Ship(g, RowAt(g, p, l - 1), ColumnAt(g, p, l - 1)),
               NEW q \in Heads(g), Row(q) = RowAt(g, p, l), Column(q) = ColumnAt(g, p, l),
               Row(p) \in Int, Column(p) \in Int
        PROVE  FALSE
    <2>1. ~Ship(g, Row(q) - 1, Column(q)) /\ ~Ship(g, Row(q), Column(q) - 1)
      BY HeadFacts
    <2>2. CASE IsVertical(g, p)
      <3>1. RowAt(g, p, l - 1) = Row(q) - 1 /\ ColumnAt(g, p, l - 1) = Column(q)
        BY <1>7, <2>2 DEF RowAt, ColumnAt
      <3> QED  BY <1>7, <2>1, <3>1
    <2>3. CASE ~IsVertical(g, p)
      <3>1. RowAt(g, p, l - 1) = Row(q) /\ ColumnAt(g, p, l - 1) = Column(q) - 1
        BY <1>7, <2>3 DEF RowAt, ColumnAt
      <3> QED  BY <1>7, <2>1, <3>1
    <2> QED  BY <2>2, <2>3
  <1>8. ASSUME NEW p \in Heads(g), Row(p) \in Int, Column(p) \in Int
        PROVE  RowAt(g, p, 0) = Row(p) /\ ColumnAt(g, p, 0) = Column(p)
    BY <1>8 DEF RowAt, ColumnAt
  <1>9. /\ k # 0 => Ship(g, RowAt(g, h, k - 1), ColumnAt(g, h, k - 1))
        /\ j # 0 => Ship(g, RowAt(g, i, j - 1), ColumnAt(g, i, j - 1))
    BY <1>1, <1>4
  <1>10. CASE k = 0 /\ j = 0
    <2>1. Row(h) = Row(i) /\ Column(h) = Column(i)
      BY <1>6, <1>8, <1>10
    <2> QED  BY <1>4, <1>6, <1>10, <2>1, ShipCells
  <1>11. CASE k = 0 /\ j # 0
    BY <1>6, <1>7, <1>8, <1>9, <1>11
  <1>12. CASE k # 0 /\ j = 0
    BY <1>6, <1>7, <1>8, <1>9, <1>12
  <1>13. CASE k # 0 /\ j # 0
    <2>1. k - 1 \in 0 .. (SizeAt(g, h) - 1) /\ j - 1 \in 0 .. (SizeAt(g, i) - 1)
      BY <1>1, <1>4, <1>13
    <2>2. CASE IsVertical(g, h) <=> IsVertical(g, i)
      <3>1. /\ RowAt(g, h, k - 1) = RowAt(g, i, j - 1)
            /\ ColumnAt(g, h, k - 1) = ColumnAt(g, i, j - 1)
            /\ RowAt(g, h, k - 1) \in Int /\ ColumnAt(g, h, k - 1) \in Int
        BY <1>6, <1>13, <2>2 DEF RowAt, ColumnAt
      <3>2. PICK y \in g : Row(y) = RowAt(g, h, k - 1) /\ Column(y) = ColumnAt(g, h, k - 1)
        BY <1>9, <1>13, <3>1, ShipCells
      <3>3. CellOf(g, y, h, k - 1) /\ CellOf(g, y, i, j - 1)
        BY <1>6, <2>1, <3>1, <3>2 DEF CellOf
      <3>4. h = i /\ k - 1 = j - 1
        BY <1>5, <1>13, <3>3
      <3> QED  BY <1>4, <1>6, <3>4
    <2>3. CASE IsVertical(g, h) /\ ~IsVertical(g, i)
      <3>1. ~Ship(g, Row(h) + k, Column(h) - 1)
        BY <1>6, <2>3, HeadFacts
      <3>2. Row(h) + k = RowAt(g, i, j - 1) /\ Column(h) - 1 = ColumnAt(g, i, j - 1)
        BY <1>6, <2>3 DEF RowAt, ColumnAt
      <3> QED  BY <1>9, <1>13, <3>1, <3>2
    <2>4. CASE ~IsVertical(g, h) /\ IsVertical(g, i)
      <3>1. ~Ship(g, Row(h) - 1, Column(h) + k)
        BY <1>6, <2>4, HeadFacts
      <3>2. Row(h) - 1 = RowAt(g, i, j - 1) /\ Column(h) + k = ColumnAt(g, i, j - 1)
        BY <1>6, <2>4 DEF RowAt, ColumnAt
      <3> QED  BY <1>9, <1>13, <3>1, <3>2
    <2> QED  BY <2>2, <2>3, <2>4
  <1> QED  BY <1>10, <1>11, <1>12, <1>13

\* The ships of a valid position have the cells they should have.
LEMMA ValidPositionSize ==
    ASSUME NEW g \in Grid, VerifyPositionOfShips(g)
    PROVE  Cardinality(g) = TotalShipCells
  <1> DEFINE A == AvailableShips
             T == UNION {{n} \X (1 .. n) \X (1 .. A[n]) : n \in DOMAIN A}
             OfSize(n) == {i \in Heads(g) : SizeAt(g, i) = n}
             e(n) == CHOOSE f : f \in Bijection(1 .. A[n], OfSize(n))
             F == [t \in T |-> CHOOSE x \in g : CellOf(g, x, e(t[1])[t[3]], t[2] - 1)]
  <1>1. ASSUME NEW n \in DOMAIN A
        PROVE  /\ e(n) \in [1 .. A[n] -> OfSize(n)]
               /\ \A a, b \in 1 .. A[n] : e(n)[a] = e(n)[b] => a = b
               /\ \A i \in OfSize(n) : \E a \in 1 .. A[n] : e(n)[a] = i
    <2>1. IsFiniteSet(OfSize(n)) /\ Cardinality(OfSize(n)) = A[n]
      <3>1. OfSize(n) \subseteq g /\ IsFiniteSet(g)
        BY SizesOfMoves DEF Heads
      <3>2. Cardinality(OfSize(n)) = A[n]
        BY DEF VerifyPositionOfShips
      <3> QED  BY <3>1, <3>2, FS_Subset
    <2>2. ExistsBijection(1 .. A[n], OfSize(n))
      <3> HIDE DEF OfSize, A
      <3>1. ExistsBijection(1 .. Cardinality(OfSize(n)), OfSize(n))
        BY <2>1, FS_CardinalityType
      <3> QED  BY <2>1, <3>1
    <2>3. e(n) \in Bijection(1 .. A[n], OfSize(n))
      <3> HIDE DEF OfSize, A
      <3>1. \E f : f \in Bijection(1 .. A[n], OfSize(n))
        BY <2>2 DEF ExistsBijection
      <3> QED  BY <3>1
    <2> HIDE DEF OfSize, A, e
    <2> QED  BY <2>3 DEF Bijection, Injection, Surjection, IsInjective
  <1>2. ASSUME NEW t \in T
        PROVE  /\ t[1] \in DOMAIN A /\ t[2] \in 1 .. t[1] /\ t[3] \in 1 .. A[t[1]]
               /\ t = <<t[1], t[2], t[3]>> /\ t[1] \in Nat
    <2>1. PICK n \in DOMAIN A : t \in {n} \X (1 .. n) \X (1 .. A[n])
      OBVIOUS
    <2> HIDE DEF A, T
    <2>2. t[1] = n /\ t[2] \in 1 .. n /\ t[3] \in 1 .. A[n] /\ t = <<t[1], t[2], t[3]>>
      BY <2>1
    <2>3. n \in Nat
      BY GridAssumption DEF A
    <2> QED  BY <2>2, <2>3
  <1>3. ASSUME NEW n \in DOMAIN A, NEW k \in 1 .. n, NEW m \in 1 .. A[n]
        PROVE  <<n, k, m>> \in T
    <2>1. <<n, k, m>> \in {n} \X (1 .. n) \X (1 .. A[n])
      BY <1>3
    <2> QED  BY <2>1
  <1>4. ASSUME NEW t \in T
        PROVE  /\ F[t] \in g /\ CellOf(g, F[t], e(t[1])[t[3]], t[2] - 1)
               /\ e(t[1])[t[3]] \in OfSize(t[1])
    <2> DEFINE h == e(t[1])[t[3]]
    <2>1. h \in OfSize(t[1])
      <3>1. t[1] \in DOMAIN A /\ t[3] \in 1 .. A[t[1]]
        BY <1>2
      <3>2. e(t[1]) \in [1 .. A[t[1]] -> OfSize(t[1])]
        BY <1>1, <3>1
      <3> HIDE DEF e, OfSize, A, T, F
      <3> QED  BY <3>1, <3>2
    <2> HIDE DEF e
    <2>2. h \in Heads(g) /\ SizeAt(g, h) = t[1] /\ t[1] \in Nat /\ t[2] - 1 \in 0 .. (t[1] - 1)
      BY <1>2, <2>1
    <2> HIDE DEF h, T, OfSize
    <2>3. /\ Ship(g, RowAt(g, h, t[2] - 1), ColumnAt(g, h, t[2] - 1)) /\ h \in g
      BY <2>2, HeadFacts
    <2>4. RowAt(g, h, t[2] - 1) \in Int /\ ColumnAt(g, h, t[2] - 1) \in Int
      <3>1. Row(h) \in Int /\ Column(h) \in Int /\ t[2] - 1 \in Int
        BY <2>2, <2>3, ShipCells
      <3> QED  BY <3>1 DEF RowAt, ColumnAt
    <2>5. PICK x \in g : Row(x) = RowAt(g, h, t[2] - 1) /\ Column(x) = ColumnAt(g, h, t[2] - 1)
      BY <2>3, <2>4, ShipCells
    <2>6. CellOf(g, x, h, t[2] - 1)
      BY <2>2, <2>5 DEF CellOf
    <2>7. \E y \in g : CellOf(g, y, e(t[1])[t[3]], t[2] - 1)
      BY <2>6 DEF h
    <2>8. F[t] = CHOOSE y \in g : CellOf(g, y, e(t[1])[t[3]], t[2] - 1)
      OBVIOUS
    <2> HIDE DEF F
    <2>9. F[t] \in g /\ CellOf(g, F[t], e(t[1])[t[3]], t[2] - 1)
      BY <2>7, <2>8
    <2> QED  BY <2>1, <2>9 DEF h
  <1>5. F \in [T -> g]
    <2>1. \A t \in T : F[t] \in g
      BY <1>4
    <2> HIDE DEF T, e
    <2> QED  BY <2>1
  <1>6. ASSUME NEW t \in T, NEW u \in T, F[t] = F[u]
        PROVE  t = u
    <2> HIDE DEF F, T, e, A
    <2>1. e(t[1])[t[3]] = e(u[1])[u[3]] /\ t[2] - 1 = u[2] - 1
      BY <1>4, <1>6, ShipsDisjoint
    <2>2. t[1] = u[1]
      <3>1. SizeAt(g, e(t[1])[t[3]]) = t[1] /\ SizeAt(g, e(u[1])[u[3]]) = u[1]
        BY <1>4
      <3> QED  BY <2>1, <3>1
    <2> HIDE DEF OfSize
    <2>3. t[3] = u[3]
      BY <1>1, <1>2, <2>1, <2>2
    <2>4. t[2] = u[2]
      <3>1. t[2] \in Int /\ u[2] \in Int
        BY <1>2
      <3> QED  BY <2>1, <3>1
    <2> QED  BY <1>2, <2>2, <2>3, <2>4
  <1>7. ASSUME NEW x \in g
        PROVE  \E t \in T : F[t] = x
    <2>1. PICK h, k : CellOf(g, x, h, k)
      BY CellsCovered
    <2> DEFINE n == SizeAt(g, h)
    <2>2. h \in Heads(g) /\ k \in 0 .. (n - 1) /\ n \in DOMAIN A /\ n \in Nat
      BY <2>1, HeadFacts DEF CellOf
    <2>3. h \in OfSize(n)
      BY <2>2
    <2> HIDE DEF n, A, T, e, F
    <2>4. PICK m \in 1 .. A[n] : e(n)[m] = h
      <3> HIDE DEF OfSize
      <3> QED  BY <1>1, <2>2, <2>3
    <2>5. k + 1 \in 1 .. n
      BY <2>2
    <2> DEFINE t == <<n, k + 1, m>>
    <2>6. t \in T
      BY <1>3, <2>2, <2>5
    <2>7. t[1] = n /\ t[2] - 1 = k /\ t[3] = m
      BY <2>2
    <2> HIDE DEF t
    <2>8. F[t] \in g /\ CellOf(g, F[t], h, k)
      BY <1>4, <2>4, <2>6, <2>7
    <2>9. Row(F[t]) = Row(x) /\ Column(F[t]) = Column(x)
      BY <2>1, <2>8 DEF CellOf
    <2> QED  BY <2>6, <2>8, <2>9, ShipCells
  <1>8. ExistsBijection(T, g)
    <2> HIDE DEF F, T
    <2>1. F \in Bijection(T, g)
      BY <1>5, <1>6, <1>7, Fun_IsBij
    <2> QED  BY <2>1 DEF ExistsBijection
  <1>9. TotalShipCells = Cardinality(T)
    BY DEF TotalShipCells
  <1>10. IsFiniteSet(g)
    BY SizesOfMoves
  <1> HIDE DEF T
  <1>11. ExistsBijection(g, T)
    BY <1>8, Fun_ExistsBijSymmetric
  <1> QED  BY <1>9, <1>10, <1>11, FS_Bijection

\* With fewer hits than cells, something is not hit.
LEMMA NotSunk ==
    ASSUME NEW g \in Grid, VerifyPositionOfShips(g), NEW h \in Grid, h \subseteq g
    PROVE  Cardinality(h) >= TotalShipCells <=> g \subseteq h
  <1>1. IsFiniteSet(g) /\ Cardinality(g) = TotalShipCells /\ Cardinality(g) \in Nat
        /\ Cardinality(h) \in Nat
    BY SizesOfMoves, ValidPositionSize
  <1>2. ASSUME ~(g \subseteq h) PROVE Cardinality(h) < Cardinality(g)
    <2>1. h # g
      BY <1>2
    <2> QED  BY <1>1, <2>1, FS_Subset
  <1>3. ASSUME g \subseteq h PROVE Cardinality(h) = Cardinality(g)
    <2>1. h = g
      BY <1>3
    <2> QED  BY <2>1
  <1> QED  BY <1>1, <1>2, <1>3

LEMMA KeptReveal ==
    ASSUME NEW o \in OwnType, NEW b, BoardOK(b), Kept(b, o), NEW mv \in RevealMoves,
           NEW n \in ApplyMoveProto(b, mv),
           o.position # NoPosition => VerifyPositionOfShips(o.position),
           b.turn = o.index => mv.pos = o.position /\ ~(Playing(b) /\ b.shot # None)
    PROVE  Kept(n, o)
  <1> DEFINE me == o.index + 1
             peer == 2 - o.index
             pos == mv.pos
  <1>1. BoardOK(n) /\ (Playing(b) \/ Revealing(b)) /\ RevealDone(b, n, pos) /\ pos \in Grid
    BY RevealStep DEF RevealMoves
  <1>2. /\ n.known = b.known /\ n.shot = b.shot /\ b.turn \in Player
        /\ n.positions = [Placed(b) EXCEPT ![b.turn + 1] = pos]
        /\ Len(b.hashes) = 2 /\ Len(n.hashes) = 2 /\ Sighted(b)
    BY <1>1 DEF RevealDone, Playing, Revealing, Over
  <1>3. /\ o.index \in Player /\ me \in 1 .. 2 /\ peer \in 1 .. 2 /\ me # peer
        /\ 1 - o.index \in Player /\ (1 - o.index) + 1 = peer /\ 1 - (1 - o.index) = o.index
        /\ o.position \in Grid
    BY DEF OwnType, Player
  <1>4. ~Over(b) /\ ~(Playing(b) /\ Revealing(b))
    BY <1>1, OneStage
  <1>5. o.position # NoPosition /\ VerifyPositionOfShips(o.position)
    BY <1>2, <1>3 DEF Kept, Player
  <1>6. o.position \cap b.known[me].guessed = b.known[me].hits
    BY <1>1, <1>4 DEF Kept, Answered
  <1>7. Placed(b) \in [1 .. 2 -> Grid] /\ (Revealing(b) => Placed(b) = b.positions)
    <2>1. CASE Playing(b)
      <3>1. Placed(b) = <<{}, {}>>
        BY <2>1 DEF Playing, Placed
      <3> QED  BY <1>4, <2>1, <3>1 DEF Grid
    <2>2. CASE Revealing(b)
      BY <2>2, LenTwo DEF Revealing, Placed
    <2> QED  BY <1>1, <2>1, <2>2
  <1>8. PositionFits(b, o.index, o.position)
    BY <1>5, <1>6 DEF PositionFits
  <1>9. CASE Revealing(n)
    <2>1. /\ Playing(b) /\ n.turn = 1 - b.turn /\ ~Sunk(b, 1 - b.turn)
          /\ n.hashes = [b.hashes EXCEPT ![b.turn + 1] = ClearedHash]
      BY <1>1, <1>9, OneStage DEF RevealDone
    <2>2. ~Playing(n) /\ ~Over(n)
      BY <1>1, <1>9, OneStage
    <2>3. n.turn = o.index => n.hashes[me] = Commitment(o)
      <3> HAVE n.turn = o.index
      <3>1. b.turn + 1 = peer
        BY <1>2, <1>3, <2>1 DEF Player
      <3>2. b.hashes \in Seq(Hash) /\ b.hashes[me] = Commitment(o)
        BY <1>1, <1>2, <1>3, <1>4, <2>1 DEF Kept, BoardOK, BoardType, Player
      <3>3. DOMAIN b.hashes = 1 .. 2
        BY <1>2, <3>2, LenProperties
      <3> HIDE DEF me, peer
      <3> QED  BY <1>3, <2>1, <3>1, <3>2, <3>3
    <2>4. n.turn # o.index => n.positions[me] = o.position /\ ~Sunk(n, 1 - o.index)
      <3> HAVE n.turn # o.index
      <3>1. b.turn = o.index
        BY <1>2, <1>3, <2>1 DEF Player
      <3>2. n.positions[me] = o.position
        BY <1>2, <1>3, <1>7, <3>1
      <3> QED  BY <1>2, <2>1, <3>1, <3>2 DEF Sunk
    <2> QED  BY <1>2, <1>5, <1>6, <1>9, <2>2, <2>3, <2>4 DEF Kept
  <1>10. CASE Over(n)
    <2>1. ~Playing(n) /\ ~Revealing(n)
      BY <1>1, <1>10, OneStage
    <2>2. SUFFICES ASSUME n.winner = 1 - o.index
                   PROVE  NotCheated(n, o)
      BY <1>5, <1>10, <2>1 DEF Kept
    <2>3. b.turn = 1 - o.index /\ PositionFits(b, b.turn, pos) /\ (Revealing(b) \/ Sunk(b, o.index))
      <3>1. \/ n.winner = 1 - b.turn /\ ~PositionFits(b, b.turn, pos)
            \/ /\ n.winner = b.turn /\ PositionFits(b, b.turn, pos)
               /\ Revealing(b) \/ Sunk(b, 1 - b.turn)
        BY <1>1, <2>1 DEF RevealDone
      <3>2. CASE n.winner = 1 - b.turn /\ ~PositionFits(b, b.turn, pos)
        <4>1. b.turn = o.index
          BY <1>2, <1>3, <2>2, <3>2 DEF Player
        <4> QED  BY <1>8, <3>2, <4>1
      <3>3. CASE /\ n.winner = b.turn /\ PositionFits(b, b.turn, pos)
                 /\ Revealing(b) \/ Sunk(b, 1 - b.turn)
        BY <1>3, <2>2, <3>3
      <3> QED  BY <3>1, <3>2, <3>3
    <2>4. n.positions[peer] = pos /\ n.positions[me] = Placed(b)[me]
      BY <1>2, <1>3, <1>7, <2>3
    <2>5. /\ VerifyPositionOfShips(pos) /\ pos \cap b.known[peer].guessed = b.known[peer].hits
      BY <1>3, <2>3 DEF PositionFits
    <2>6. /\ b.known[peer].hits \in Grid /\ b.known[me].hits \in Grid
      BY <1>2, <1>3 DEF Sighted, Sight
    <2>7. \/ o.position \subseteq b.known[me].hits
          \/ n.positions[me] = o.position /\ ~(pos \subseteq b.known[peer].hits)
      <3>1. CASE Revealing(b)
        <4>1. b.turn # o.index
          BY <1>3, <2>3 DEF Player
        <4>2. b.positions[me] = o.position /\ ~Sunk(b, 1 - o.index)
          BY <3>1, <4>1 DEF Kept
        <4>3. ~(Cardinality(b.known[peer].hits) >= TotalShipCells)
          BY <1>3, <4>2 DEF Sunk, CountOnes
        <4>4. b.known[peer].hits \subseteq pos
          BY <2>5
        <4> QED  BY <1>1, <1>7, <2>4, <2>5, <2>6, <3>1, <4>2, <4>3, <4>4, NotSunk
      <3>2. CASE Sunk(b, o.index)
        <4>1. Cardinality(b.known[me].hits) >= TotalShipCells
          BY <3>2 DEF Sunk, CountOnes
        <4>2. b.known[me].hits \subseteq o.position
          BY <1>6
        <4> QED  BY <1>3, <1>5, <2>6, <4>1, <4>2, NotSunk
      <3> QED  BY <2>3, <3>1, <3>2
    <2> QED  BY <1>2, <2>4, <2>5, <2>7 DEF NotCheated
  <1> QED  BY <1>1, <1>9, <1>10 DEF RevealDone

----------------------------------------------------------------------------
(* The automatic moves.                                                    *)

\* The automatic move by stage; none if nothing is due.
LEMMA AutoChoice ==
    ASSUME NEW o \in OwnType, NEW b, BoardOK(b), NEW rnd \in Player
    PROVE  /\ Committing(b, 0) =>
                InternalAutoMove(o, b, rnd) =
                  IF IsPositionSet(o) THEN {[mv |-> CommitMove(o, rnd, None), seed0 |-> rnd]} ELSE {}
           /\ Committing(b, 1) =>
                InternalAutoMove(o, b, rnd) =
                  IF IsPositionSet(o) THEN {[mv |-> CommitMove(o, None, rnd), seed0 |-> o.seed0]}
                  ELSE {}
           /\ Seeding(b) =>
                InternalAutoMove(o, b, rnd) =
                  {[mv |-> [kind |-> "seed", seed |-> o.seed0], seed0 |-> o.seed0]}
           /\ Playing(b) /\ b.shot = None =>
                InternalAutoMove(o, b, rnd) =
                  IF CountOnes(b.known[2 - o.index].hits) >= TotalShipCells
                  THEN {[mv |-> GetPositionRevealMove(o), seed0 |-> o.seed0]} ELSE {}
           /\ Playing(b) /\ b.shot # None =>
                InternalAutoMove(o, b, rnd) =
                  {[mv |-> [kind |-> "reply",
                            reply |-> IF b.shot \in o.position THEN "hit" ELSE "miss"],
                    seed0 |-> o.seed0]}
           /\ Revealing(b) =>
                InternalAutoMove(o, b, rnd) = {[mv |-> GetPositionRevealMove(o), seed0 |-> o.seed0]}
           /\ Over(b) => InternalAutoMove(o, b, rnd) = {}
  <1>1. b \in BoardType
    BY DEF BoardOK
  <1>2. ASSUME Committing(b, 0)
        PROVE  InternalAutoMove(o, b, rnd) =
                 IF IsPositionSet(o) THEN {[mv |-> CommitMove(o, rnd, None), seed0 |-> rnd]} ELSE {}
    <2>1. GetPhase(b) = "first commitment"
      BY <1>1, <1>2, PhaseOf
    <2> QED  BY <2>1 DEF InternalAutoMove
  <1>3. ASSUME Committing(b, 1)
        PROVE  InternalAutoMove(o, b, rnd) =
                 IF IsPositionSet(o) THEN {[mv |-> CommitMove(o, None, rnd), seed0 |-> o.seed0]}
                 ELSE {}
    <2>1. GetPhase(b) = "second commitment"
      BY <1>1, <1>3, PhaseOf
    <2> QED  BY <2>1 DEF InternalAutoMove
  <1>4. ASSUME Seeding(b)
        PROVE  InternalAutoMove(o, b, rnd) =
                 {[mv |-> [kind |-> "seed", seed |-> o.seed0], seed0 |-> o.seed0]}
    <2>1. GetPhase(b) = "first reveal seed"
      BY <1>1, <1>4, PhaseOf
    <2> QED  BY <2>1 DEF InternalAutoMove
  <1>5. ASSUME Playing(b), b.shot = None
        PROVE  InternalAutoMove(o, b, rnd) =
                  IF CountOnes(b.known[2 - o.index].hits) >= TotalShipCells
                  THEN {[mv |-> GetPositionRevealMove(o), seed0 |-> o.seed0]} ELSE {}
    <2>1. GetPhase(b) = "shoot"
      BY <1>1, <1>5, PhaseOf
    <2> QED  BY <2>1 DEF InternalAutoMove
  <1>6. ASSUME Playing(b), b.shot # None
        PROVE  InternalAutoMove(o, b, rnd) =
                  {[mv |-> [kind |-> "reply",
                            reply |-> IF b.shot \in o.position THEN "hit" ELSE "miss"],
                    seed0 |-> o.seed0]}
    <2>1. GetPhase(b) = "answer"
      BY <1>1, <1>6, PhaseOf
    <2> QED  BY <2>1 DEF InternalAutoMove
  <1>7. ASSUME Revealing(b)
        PROVE  InternalAutoMove(o, b, rnd) = {[mv |-> GetPositionRevealMove(o), seed0 |-> o.seed0]}
    <2>1. GetPhase(b) = "second reveal position"
      BY <1>1, <1>7, PhaseOf
    <2> QED  BY <2>1 DEF InternalAutoMove
  <1>8. ASSUME Over(b)
        PROVE  InternalAutoMove(o, b, rnd) = {}
    <2>1. GetPhase(b) = "finished"
      BY <1>1, <1>8, PhaseOf
    <2> QED  BY <2>1 DEF InternalAutoMove
  <1> QED  BY <1>2, <1>3, <1>4, <1>5, <1>6, <1>7, <1>8

LEMMA OnlyChoice ==
    ASSUME NEW e
    PROVE  (CHOOSE a \in {e} : TRUE) = e
  OBVIOUS

LEMMA TurnIdle ==
    ASSUME NEW o, NEW b, NEW rnd,
           o.abort # "none" \/ b.turn # o.index \/ InternalAutoMove(o, b, rnd) = {}
    PROVE  AutoTurn([own |-> o, board |-> b], rnd) = [own |-> o, board |-> b]
  BY DEF AutoTurn

LEMMA TurnTaken ==
    ASSUME NEW o, NEW b, NEW rnd, o.abort = "none", b.turn = o.index, NEW m, NEW s, NEW n,
           InternalAutoMove(o, b, rnd) = {[mv |-> m, seed0 |-> s]},
           ApplyMoveProto(b, m) = {n}, TurnCount(n) > TurnCount(b)
    PROVE  AutoTurn([own |-> o, board |-> b], rnd) = [own |-> [o EXCEPT !.seed0 = s], board |-> n]
  <1> DEFINE x == [own |-> o, board |-> b]
             e == [mv |-> m, seed0 |-> s]
             a == CHOOSE y \in {e} : TRUE
             next == {y \in ApplyMoveProto(x.board, a.mv) : TurnCount(y) > TurnCount(x.board)}
  <1>1. x.own = o /\ x.board = b
    OBVIOUS
  <1>2. a = e
    BY OnlyChoice
  <1>3. a.mv = m /\ a.seed0 = s
    BY <1>2
  <1>4. next = {n}
    <2> HIDE DEF x, a
    <2> QED  BY <1>1, <1>3
  <1>5. (CHOOSE y \in next : TRUE) = n /\ next # {}
    BY <1>4, OnlyChoice
  <1>6. AutoTurn(x, rnd) = [own |-> [x.own EXCEPT !.seed0 = a.seed0],
                            board |-> CHOOSE y \in next : TRUE]
    <2>1. InternalAutoMove(o, b, rnd) = {e} /\ {e} # {}
      OBVIOUS
    <2> HIDE DEF e, x
    <2>2. (IF x.own.abort = "none" /\ x.board.turn = x.own.index
           THEN InternalAutoMove(x.own, x.board, rnd) ELSE {}) = {e}
      BY <1>1, <2>1
    <2> QED  BY <1>5, <2>1, <2>2 DEF AutoTurn
  <1> QED  BY <1>1, <1>3, <1>5, <1>6

LEMMA TurnRefused ==
    ASSUME NEW o, NEW b, NEW rnd, o.abort = "none", b.turn = o.index, NEW m, NEW s,
           InternalAutoMove(o, b, rnd) = {[mv |-> m, seed0 |-> s]}, ApplyMoveProto(b, m) = {}
    PROVE  AutoTurn([own |-> o, board |-> b], rnd)
             = [own |-> [o EXCEPT !.abort = "automove"], board |-> b]
  <1> DEFINE x == [own |-> o, board |-> b]
             e == [mv |-> m, seed0 |-> s]
             a == CHOOSE y \in {e} : TRUE
             next == {y \in ApplyMoveProto(x.board, a.mv) : TurnCount(y) > TurnCount(x.board)}
  <1>1. x.own = o /\ x.board = b
    OBVIOUS
  <1>2. a = e
    BY OnlyChoice
  <1>3. a.mv = m
    BY <1>2
  <1>4. next = {}
    <2> HIDE DEF x, a
    <2> QED  BY <1>1, <1>3
  <1>5. AutoTurn(x, rnd) = [x EXCEPT !.own.abort = "automove"]
    <2>1. InternalAutoMove(o, b, rnd) = {e} /\ {e} # {}
      OBVIOUS
    <2> HIDE DEF e, x
    <2>2. (IF x.own.abort = "none" /\ x.board.turn = x.own.index
           THEN InternalAutoMove(x.own, x.board, rnd) ELSE {}) = {e}
      BY <1>1, <2>1
    <2> QED  BY <1>4, <2>1, <2>2 DEF AutoTurn
  <1>6. [x EXCEPT !.own.abort = "automove"] = [own |-> [o EXCEPT !.abort = "automove"], board |-> b]
    OBVIOUS
  <1> QED  BY <1>5, <1>6

\* The secrets of the player that matter to a board.
LEMMA SameSecrets ==
    ASSUME NEW o, NEW p, p.index = o.index, p.position = o.position, NEW b
    PROVE  (Kept(b, p) <=> Kept(b, o)) /\ (Calm(b, p) <=> Calm(b, o))
  BY DEF Kept, Calm, Answered, NotCheated, Commitment, Sunk

\* Why an automatic move fails: the seed is of another reinitialisation.
WrongSeed(b, o) == Seeding(b) /\ b.turn = o.index /\ b.seedHash0 # o.seed0

\* What is true of a board of the player and of the player.
Sound(b, o) ==
    /\ o \in OwnType /\ BoardOK(b) /\ Kept(b, o)
    /\ o.position # NoPosition => VerifyPositionOfShips(o.position)
    /\ o.abort = "automove" => WrongSeed(b, o)

\* The same player, but for its seed and whether it aborted.
SamePlayer(p, o) ==
    p.index = o.index /\ p.position = o.position /\ p.close = o.close

LEMMA TakenSound ==
    ASSUME NEW o, NEW b, Sound(b, o), NEW rnd, o.abort = "none", b.turn = o.index,
           NEW m \in Moves, NEW s \in Player, NEW n,
           InternalAutoMove(o, b, rnd) = {[mv |-> m, seed0 |-> s]}, ApplyMoveProto(b, m) = {n},
           m.kind = "reveal" => m.pos \cap IntCells # {}, Kept(n, o), Calm(n, o),
           NEW y, y = AutoTurn([own |-> o, board |-> b], rnd)
    PROVE  /\ y = [own |-> y.own, board |-> y.board] /\ Sound(y.board, y.own)
           /\ Calm(y.board, y.own) /\ SamePlayer(y.own, o)
  <1>1. BoardOK(n) /\ TurnCount(n) > TurnCount(b)
    <2>1. n \in ApplyMoveProto(b, m)
      OBVIOUS
    <2> QED  BY <2>1, MoveRaisesCount DEF Sound
  <1> DEFINE p == [o EXCEPT !.seed0 = s]
  <1>2. y = [own |-> p, board |-> n]
    BY <1>1, TurnTaken
  <1>3. p \in OwnType /\ SamePlayer(p, o) /\ p.abort = "none"
    BY DEF Sound, OwnType, SamePlayer
  <1> HIDE DEF p
  <1>4. Kept(n, p) /\ Calm(n, p)
    BY <1>3, SameSecrets DEF SamePlayer
  <1>5. Sound(n, p)
    BY <1>1, <1>3, <1>4 DEF Sound, SamePlayer
  <1> QED  BY <1>2, <1>3, <1>4, <1>5

LEMMA CommitApplies ==
    ASSUME NEW o, NEW b, Sound(b, o), NEW rnd \in Player, b.turn = o.index, IsPositionSet(o),
           NEW m, \/ Committing(b, 0) /\ m = CommitMove(o, rnd, None)
                  \/ Committing(b, 1) /\ m = CommitMove(o, None, rnd)
    PROVE  m \in CommitMoves /\ \E n : ApplyMoveProto(b, m) = {n} /\ Kept(n, o) /\ Calm(n, o)
  <1>1. b \in BoardType /\ BoardOK(b) /\ o \in OwnType /\ Kept(b, o)
    BY DEF Sound, BoardOK
  <1>2. m \in CommitMoves /\ m.hashOk /\ m.hash = Commitment(o) /\ m.kind = "commit"
    <2>1. Commitment(o) \in Hash
      BY <1>1 DEF Commitment, Hash, OwnType
    <2>2. ASSUME NEW s \in Player \cup {None}, NEW t \in Player \cup {None}, m = CommitMove(o, s, t)
          PROVE  m \in CommitMoves /\ m.hashOk /\ m.hash = Commitment(o) /\ m.kind = "commit"
      <3>1. m = [kind |-> "commit", hashOk |-> TRUE, hash |-> Commitment(o), seedHash |-> s,
                 seed |-> t]
        BY <2>2 DEF CommitMove, Commitment
      <3> QED  BY <2>1, <3>1 DEF CommitMoves
    <2> QED  BY <2>2
  <1>3. rnd # None
    BY DEF Player, None
  <1>4. PICK n : ApplyPositionCommitment(b, m) = {n}
    <2>1. CASE Committing(b, 0) /\ m = CommitMove(o, rnd, None)
      <3>1. GetPhase(b) = "first commitment" /\ m.seedHash # None /\ m.seed = None
        BY <1>1, <1>3, <2>1, PhaseOf DEF CommitMove
      <3> QED  BY <1>2, <3>1 DEF ApplyPositionCommitment
    <2>2. CASE Committing(b, 1) /\ m = CommitMove(o, None, rnd)
      <3>1. GetPhase(b) = "second commitment" /\ m.seedHash = None
        BY <1>1, <2>2, PhaseOf DEF CommitMove
      <3>2. GetPhase(b) # "first commitment"
        BY <3>1
      <3> QED  BY <1>2, <3>1, <3>2 DEF ApplyPositionCommitment
    <2> QED  BY <2>1, <2>2
  <1>5. ApplyMoveProto(b, m) = {n}
    BY <1>2, <1>4 DEF ApplyMoveProto
  <1>6. n \in ApplyMoveProto(b, m)
    BY <1>5
  <1>7. Kept(n, o)
    BY <1>1, <1>2, <1>6, KeptCommit DEF IsPositionSet
  <1>8. BoardOK(n) /\ Unplayed(n)
    BY <1>1, <1>2, <1>6, CommitStep DEF Committing, Seeding
  <1>9. Calm(n, o)
    BY <1>8, OneStage DEF Calm
  <1> QED  BY <1>2, <1>5, <1>7, <1>9

LEMMA SeedApplies ==
    ASSUME NEW o, NEW b, Sound(b, o), Seeding(b), NEW m, m = [kind |-> "seed", seed |-> o.seed0]
    PROVE  /\ m \in SeedMoves
           /\ b.seedHash0 = o.seed0 => \E n : ApplyMoveProto(b, m) = {n} /\ Kept(n, o) /\ Calm(n, o)
           /\ b.seedHash0 # o.seed0 => ApplyMoveProto(b, m) = {}
  <1>1. b \in BoardType /\ BoardOK(b) /\ o \in OwnType /\ Kept(b, o)
    BY DEF Sound, BoardOK
  <1>2. m \in SeedMoves /\ m.kind = "seed" /\ m.seed = o.seed0
    BY <1>1 DEF SeedMoves, OwnType
  <1>3. GetPhase(b) = "first reveal seed"
    BY <1>1, PhaseOf
  <1>4. ApplyMoveProto(b, m) = ApplySeedReveal(b, m)
    BY <1>2 DEF ApplyMoveProto
  <1>5. ASSUME b.seedHash0 # o.seed0 PROVE ApplyMoveProto(b, m) = {}
    BY <1>2, <1>4, <1>5 DEF ApplySeedReveal
  <1>6. ASSUME b.seedHash0 = o.seed0
        PROVE  \E n : ApplyMoveProto(b, m) = {n} /\ Kept(n, o) /\ Calm(n, o)
    <2>1. PICK n : ApplySeedReveal(b, m) = {n}
      BY <1>2, <1>3, <1>6 DEF ApplySeedReveal
    <2>2. n \in ApplyMoveProto(b, m) /\ ApplyMoveProto(b, m) = {n}
      BY <1>4, <2>1
    <2>3. Kept(n, o)
      BY <1>1, <1>2, <2>2, KeptSeed
    <2>4. BoardOK(n) /\ Playing(n) /\ n.shot = None
      BY <1>1, <1>2, <2>2, SeedStep
    <2>5. Calm(n, o)
      BY <2>4, OneStage DEF Calm
    <2> QED  BY <2>2, <2>3, <2>5
  <1> QED  BY <1>2, <1>5, <1>6

LEMMA ReplyApplies ==
    ASSUME NEW o, NEW b, Sound(b, o), Playing(b), b.shot # None, NEW m,
           m = [kind |-> "reply", reply |-> IF b.shot \in o.position THEN "hit" ELSE "miss"]
    PROVE  m \in ReplyMoves /\ \E n : ApplyMoveProto(b, m) = {n} /\ Kept(n, o) /\ Calm(n, o)
  <1>1. b \in BoardType /\ BoardOK(b) /\ o \in OwnType /\ Kept(b, o)
    BY DEF Sound, BoardOK
  <1>2. /\ m \in ReplyMoves /\ m.kind = "reply" /\ m.reply \in {"hit", "miss"}
        /\ m.reply = IF b.shot \in o.position THEN "hit" ELSE "miss"
    <2> DEFINE r == IF b.shot \in o.position THEN "hit" ELSE "miss"
    <2>1. r \in {"hit", "miss"}
      OBVIOUS
    <2>2. m = [kind |-> "reply", reply |-> r]
      OBVIOUS
    <2> HIDE DEF r
    <2>3. m \in ReplyMoves /\ m.kind = "reply" /\ m.reply = r
      BY <2>1, <2>2 DEF ReplyMoves
    <2> QED  BY <2>1, <2>3 DEF r
  <1>3. GetPhase(b) = "answer"
    BY <1>1, PhaseOf
  <1>4. b.shot \notin b.known[b.turn + 1].hits
    BY DEF Playing
  <1>5. PICK n : ApplyReply(b, m) = {n}
    <2>1. CASE m.reply = "hit"
      BY <1>3, <1>4, <2>1 DEF ApplyReply
    <2>2. CASE m.reply = "miss"
      <3>1. m.reply # "hit"
        BY <2>2
      <3> QED  BY <1>3, <2>2, <3>1 DEF ApplyReply
    <2> QED  BY <1>2, <2>1, <2>2
  <1>6. ApplyMoveProto(b, m) = {n}
    BY <1>2, <1>5 DEF ApplyMoveProto
  <1>7. n \in ApplyMoveProto(b, m)
    BY <1>6
  <1>8. Kept(n, o)
    BY <1>1, <1>2, <1>7, KeptReply
  <1>9. BoardOK(n) /\ Playing(n) /\ n.shot = None
    <2>1. BoardOK(n) /\ Replying(b, n, b.turn + 1, m.reply = "hit")
      BY <1>1, <1>2, <1>7, ReplyStep
    <2> QED  BY <2>1 DEF Replying
  <1>10. Calm(n, o)
    BY <1>9, OneStage DEF Calm
  <1> QED  BY <1>2, <1>6, <1>8, <1>10

LEMMA RevealApplies ==
    ASSUME NEW o, NEW b, Sound(b, o), b.turn = o.index,
           (Playing(b) /\ b.shot = None) \/ Revealing(b), NEW m, m = GetPositionRevealMove(o)
    PROVE  /\ m \in RevealMoves /\ m.pos \cap IntCells # {}
           /\ \E n : ApplyMoveProto(b, m) = {n} /\ Kept(n, o) /\ Calm(n, o)
  <1>1. b \in BoardType /\ BoardOK(b) /\ o \in OwnType /\ Kept(b, o)
    BY DEF Sound, BoardOK
  <1>2. /\ m \in RevealMoves /\ m.kind = "reveal" /\ m.pos = o.position
        /\ [pos |-> m.pos, salt |-> m.salt] = Commitment(o)
    BY <1>1 DEF GetPositionRevealMove, RevealMoves, OwnType, Commitment
  <1>3. /\ Len(b.hashes) = 2 /\ o.index \in Player /\ Len(b.hashes) >= o.index + 1 /\ Sighted(b)
        /\ o.index + 1 \in 1 .. 2
    <2>1. Len(b.hashes) = 2 /\ Sighted(b)
      BY DEF Playing, Revealing
    <2>2. o.index \in {0, 1}
      BY <1>1 DEF OwnType, Player
    <2> QED  BY <2>1, <2>2 DEF Player
  <1>4. ~Over(b) /\ ~(Playing(b) /\ Revealing(b))
    BY <1>1, OneStage
  <1>5. o.position # NoPosition /\ VerifyPositionOfShips(o.position)
    BY <1>1, <1>3 DEF Kept, Sound
  <1>6. m.pos \cap IntCells # {}
    BY <1>1, <1>2, <1>5, ValidPositionsCount DEF OwnType, Grid
  <1>7. b.hashes[b.turn + 1] = [pos |-> m.pos, salt |-> m.salt]
    BY <1>1, <1>2, <1>3, <1>4 DEF Kept
  <1>8. GetPhase(b) \in {"shoot", "answer", "second reveal position"}
    BY <1>1, PhaseOf
  <1>9. b.known[b.turn + 1].hits \subseteq b.known[b.turn + 1].guessed
    BY <1>3 DEF Sighted
  <1>10. PICK n : ApplyPositionReveal(b, m) = {n}
    BY <1>7, <1>8, <1>9 DEF ApplyPositionReveal
  <1>11. ApplyMoveProto(b, m) = {n}
    BY <1>2, <1>10 DEF ApplyMoveProto
  <1>12. n \in ApplyMoveProto(b, m)
    BY <1>11
  <1>13. Kept(n, o)
    <2>1. ~(Playing(b) /\ b.shot # None)
      BY <1>4
    <2> QED  BY <1>1, <1>2, <1>5, <1>12, <2>1, KeptReveal
  <1>14. BoardOK(n) /\ RevealDone(b, n, m.pos)
    BY <1>1, <1>2, <1>12, RevealStep
  <1>15. Calm(n, o)
    <2>1. CASE Revealing(n) /\ n.turn = 1 - b.turn
      <3>1. n.turn # o.index
        BY <1>3, <2>1 DEF Player
      <3> QED  BY <3>1 DEF Calm
    <2>2. CASE Over(n)
      <3>1. n.turn # o.index
        BY <1>3, <2>2 DEF Over, Player, None
      <3> QED  BY <3>1 DEF Calm
    <2> QED  BY <1>14, <2>1, <2>2 DEF RevealDone
  <1> QED  BY <1>2, <1>6, <1>11, <1>13, <1>15

LEMMA AutoTurnSound ==
    ASSUME NEW o, NEW b, Sound(b, o), NEW rnd \in Player, o.abort # "none" => Calm(b, o),
           NEW y, y = AutoTurn([own |-> o, board |-> b], rnd)
    PROVE  /\ y = [own |-> y.own, board |-> y.board] /\ Sound(y.board, y.own)
           /\ Calm(y.board, y.own) /\ SamePlayer(y.own, o)
  <1>1. /\ BoardOK(b) /\ o \in OwnType /\ o.index \in Player /\ o.seed0 \in Player
    BY DEF Sound, OwnType
  <1> DEFINE Goal == /\ y = [own |-> y.own, board |-> y.board] /\ Sound(y.board, y.own)
                     /\ Calm(y.board, y.own) /\ SamePlayer(y.own, o)
  <1>2. ASSUME Calm(b, o),
               o.abort # "none" \/ b.turn # o.index \/ InternalAutoMove(o, b, rnd) = {}
        PROVE  Goal
    <2>1. y = [own |-> o, board |-> b]
      BY <1>2, TurnIdle
    <2>2. y.own = o /\ y.board = b
      BY <2>1
    <2> QED  BY <1>2, <2>1, <2>2 DEF SamePlayer
  <1>3. CASE o.abort # "none" \/ b.turn # o.index
    <2>1. Calm(b, o)
      BY <1>3 DEF Calm
    <2> QED  BY <1>2, <1>3, <2>1
  <1>4. CASE o.abort = "none" /\ b.turn = o.index
    <2>1. ASSUME NEW m \in Moves, NEW s \in Player, NEW n,
                 InternalAutoMove(o, b, rnd) = {[mv |-> m, seed0 |-> s]}, ApplyMoveProto(b, m) = {n},
                 m.kind = "reveal" => m.pos \cap IntCells # {}, Kept(n, o), Calm(n, o)
          PROVE  Goal
      BY <1>4, <2>1, TakenSound
    <2>2. CASE Committing(b, 0) \/ Committing(b, 1)
      <3>1. Calm(b, o)
        BY <1>1, <2>2, OneStage DEF Calm, Committing
      <3>2. CASE ~IsPositionSet(o)
        <4>1. InternalAutoMove(o, b, rnd) = {}
          BY <1>1, <2>2, <3>2, AutoChoice
        <4> QED  BY <1>2, <3>1, <4>1
      <3>3. CASE IsPositionSet(o)
        <4>1. PICK m, s :
                 /\ s \in Player /\ InternalAutoMove(o, b, rnd) = {[mv |-> m, seed0 |-> s]}
                 /\ \/ Committing(b, 0) /\ m = CommitMove(o, rnd, None)
                    \/ Committing(b, 1) /\ m = CommitMove(o, None, rnd)
          BY <1>1, <2>2, <3>3, AutoChoice
        <4>2. PICK n : m \in CommitMoves /\ ApplyMoveProto(b, m) = {n} /\ Kept(n, o) /\ Calm(n, o)
          BY <1>4, <3>3, <4>1, CommitApplies
        <4>3. m \in Moves /\ m.kind # "reveal"
          BY <4>2 DEF Moves, CommitMoves
        <4> QED  BY <2>1, <4>1, <4>2, <4>3
      <3> QED  BY <3>2, <3>3
    <2>3. CASE Seeding(b)
      <3> DEFINE m == [kind |-> "seed", seed |-> o.seed0]
      <3>1. InternalAutoMove(o, b, rnd) = {[mv |-> m, seed0 |-> o.seed0]}
        BY <1>1, <2>3, AutoChoice
      <3>2. m \in Moves /\ m.kind # "reveal"
        BY <2>3, SeedApplies DEF Moves
      <3>3. /\ b.seedHash0 = o.seed0 =>
                 \E n : ApplyMoveProto(b, m) = {n} /\ Kept(n, o) /\ Calm(n, o)
            /\ b.seedHash0 # o.seed0 => ApplyMoveProto(b, m) = {}
        BY <2>3, SeedApplies
      <3> HIDE DEF m
      <3>4. CASE b.seedHash0 = o.seed0
        BY <1>1, <2>1, <3>1, <3>2, <3>3, <3>4
      <3>5. CASE b.seedHash0 # o.seed0
        <4> DEFINE p == [o EXCEPT !.abort = "automove"]
        <4>1. y = [own |-> p, board |-> b]
          BY <1>4, <3>1, <3>3, <3>5, TurnRefused
        <4>2. /\ p \in OwnType /\ SamePlayer(p, o) /\ p.seed0 = o.seed0
          BY <1>1 DEF OwnType, SamePlayer
        <4> HIDE DEF p
        <4>3. y.own = p /\ y.board = b
          BY <4>1
        <4>4. Kept(b, p) /\ (Calm(b, p) <=> Calm(b, o))
          BY <4>2, SameSecrets DEF SamePlayer, Sound
        <4>5. Calm(b, o)
          BY <1>1, <2>3, OneStage DEF Calm, Seeding
        <4>6. WrongSeed(b, p)
          BY <1>4, <2>3, <3>5, <4>2 DEF WrongSeed, SamePlayer
        <4>7. Sound(b, p)
          BY <1>1, <4>2, <4>4, <4>6 DEF Sound, SamePlayer
        <4> QED  BY <4>1, <4>2, <4>3, <4>4, <4>5, <4>7
      <3> QED  BY <3>4, <3>5
    <2>4. CASE Playing(b) /\ b.shot # None
      <3> DEFINE m == [kind |-> "reply", reply |-> IF b.shot \in o.position THEN "hit" ELSE "miss"]
      <3>1. InternalAutoMove(o, b, rnd) = {[mv |-> m, seed0 |-> o.seed0]}
        BY <1>1, <2>4, AutoChoice
      <3>2. m \in ReplyMoves /\ \E n : ApplyMoveProto(b, m) = {n} /\ Kept(n, o) /\ Calm(n, o)
        BY <2>4, ReplyApplies
      <3> HIDE DEF m
      <3>3. m \in Moves /\ m.kind # "reveal"
        BY <3>2 DEF Moves, ReplyMoves
      <3> QED  BY <1>1, <2>1, <3>1, <3>2, <3>3
    <2>5. ASSUME (Playing(b) /\ b.shot = None) \/ Revealing(b),
                 InternalAutoMove(o, b, rnd) = {[mv |-> GetPositionRevealMove(o), seed0 |-> o.seed0]}
          PROVE  Goal
      <3> DEFINE m == GetPositionRevealMove(o)
      <3>1. /\ m \in RevealMoves /\ m.pos \cap IntCells # {}
            /\ \E n : ApplyMoveProto(b, m) = {n} /\ Kept(n, o) /\ Calm(n, o)
        BY <1>4, <2>5, RevealApplies
      <3> HIDE DEF m
      <3>2. m \in Moves
        BY <3>1 DEF Moves
      <3>3. InternalAutoMove(o, b, rnd) = {[mv |-> m, seed0 |-> o.seed0]}
        BY <2>5 DEF m
      <3> QED  BY <1>1, <2>1, <3>1, <3>2, <3>3
    <2>6. CASE Playing(b) /\ b.shot = None
      <3>1. Calm(b, o)
        BY <1>1, <2>6, OneStage DEF Calm
      <3>2. \/ InternalAutoMove(o, b, rnd) = {[mv |-> GetPositionRevealMove(o), seed0 |-> o.seed0]}
            \/ InternalAutoMove(o, b, rnd) = {}
        BY <1>1, <2>6, AutoChoice
      <3> QED  BY <1>2, <2>5, <2>6, <3>1, <3>2
    <2>7. CASE Revealing(b)
      BY <1>1, <2>5, <2>7, AutoChoice
    <2>8. CASE Over(b)
      BY <1>1, <1>4, <2>8 DEF Over, Player, None
    <2> QED  BY <1>1, <2>2, <2>3, <2>4, <2>6, <2>7, <2>8 DEF BoardOK
  <1> QED  BY <1>3, <1>4

----------------------------------------------------------------------------
(* The inductive invariant.                                                *)

ChainType == [reinit : Reinit, closed : BOOLEAN, mempool : SUBSET Reinit, reorgs : Nat]

ShipsType ==
    /\ own \in OwnType /\ chain \in ChainType
    /\ boards \in [Reinit -> BoardType] /\ rpc \subseteq Grid

PositionsValid ==
    /\ \A pos \in rpc : VerifyPositionOfShips(pos)
    /\ own.position # NoPosition => VerifyPositionOfShips(own.position)

ShipsInv ==
    /\ ShipsType /\ PositionsValid
    /\ \A r \in Reinit : BoardOK(boards[r]) /\ Kept(boards[r], own) /\ Calm(boards[r], own)
    /\ own.abort = "automove" => WrongSeed(Board, own)

\* As long as no position is set there is no commitment to it, so any may be.
LEMMA OtherPlayer ==
    ASSUME NEW b, BoardOK(b), NEW o \in OwnType, NEW p, p.index = o.index,
           o.position = NoPosition, Kept(b, o), Calm(b, o)
    PROVE  Kept(b, p) /\ Calm(b, p)
  <1>1. ~(Len(b.hashes) >= o.index + 1)
    BY DEF Kept
  <1>2. ~(Len(b.hashes) = 2)
    BY <1>1 DEF OwnType, Player
  <1>3. ~Playing(b) /\ ~Revealing(b) /\ ~Over(b)
    BY <1>2 DEF Playing, Revealing, Over
  <1>4. Kept(b, p)
    BY <1>1, <1>3 DEF Kept
  <1> QED  BY <1>3, <1>4 DEF Calm

\* A step that ends with the automatic moves on the board b of a reinitialisation.
LEMMA StateUpdateStep ==
    ASSUME NEW o, NEW b, Sound(b, o), NEW c \in ChainType, NEW rnd \in Player,
           o.abort # "none" => Calm(b, o), SamePlayer(o, own) \/ own.position = NoPosition,
           o.index = own.index, ShipsInv, rpc' \subseteq rpc, StateUpdate(o, b, c, rnd),
           o.abort # "automove"
    PROVE  ShipsInv'
  <1>1. PICK x : x = AutoTurn([own |-> o, board |-> b], rnd) /\
                 \E y \in {AutoTurn(x, rnd)} :
                    LET lost == y.board.winner = 1 - o.index /\ Declares(y.own, c.mempool)
                    IN  /\ boards' = [boards EXCEPT ![c.reinit] = y.board]
                        /\ own' = IF lost THEN [y.own EXCEPT !.close = c.reinit] ELSE y.own
                        /\ chain' = IF lost THEN [c EXCEPT !.mempool = @ \cup {c.reinit}] ELSE c
    BY DEF StateUpdate
  <1>2. PICK y : /\ y = AutoTurn(x, rnd) /\ boards' = [boards EXCEPT ![c.reinit] = y.board]
                 /\ \/ own' = y.own /\ chain' = c
                    \/ /\ own' = [y.own EXCEPT !.close = c.reinit]
                       /\ chain' = [c EXCEPT !.mempool = @ \cup {c.reinit}]
    BY <1>1
  <1>3. /\ x = [own |-> x.own, board |-> x.board] /\ Sound(x.board, x.own)
        /\ Calm(x.board, x.own) /\ SamePlayer(x.own, o)
    BY <1>1, AutoTurnSound
  <1>4. /\ Sound(y.board, y.own) /\ Calm(y.board, y.own) /\ SamePlayer(y.own, x.own)
    BY <1>2, <1>3, AutoTurnSound
  <1>5. c.reinit \in Reinit /\ c.mempool \subseteq Reinit
    BY DEF ChainType
  <1>6. y.own \in OwnType /\ BoardOK(y.board) /\ Kept(y.board, y.own)
    BY <1>4 DEF Sound
  <1>7. /\ own' \in OwnType
        /\ own'.index = y.own.index /\ own'.position = y.own.position
        /\ own'.abort = y.own.abort /\ own'.seed0 = y.own.seed0
    BY <1>2, <1>5, <1>6 DEF OwnType
  <1>8. chain' \in ChainType /\ chain'.reinit = c.reinit
    BY <1>2, <1>5 DEF ChainType
  <1>9. own'.index = o.index /\ own'.position = o.position
    BY <1>3, <1>4, <1>7 DEF SamePlayer
  <1>10. boards' \in [Reinit -> BoardType]
    BY <1>2, <1>5, <1>6 DEF ShipsInv, ShipsType, BoardOK
  <1>11. ASSUME NEW r \in Reinit
         PROVE  BoardOK(boards[r]') /\ Kept(boards[r]', own') /\ Calm(boards[r]', own')
    <2>1. CASE r = c.reinit
      <3>1. boards'[r] = y.board
        BY <1>2, <2>1 DEF ShipsInv, ShipsType
      <3>2. Kept(y.board, own') /\ Calm(y.board, own')
        BY <1>4, <1>6, <1>7, SameSecrets
      <3> QED  BY <1>6, <3>1, <3>2
    <2>2. CASE r # c.reinit
      <3>1. boards'[r] = boards[r]
        BY <1>2, <2>2 DEF ShipsInv, ShipsType
      <3>2. BoardOK(boards[r]) /\ Kept(boards[r], own) /\ Calm(boards[r], own)
        BY DEF ShipsInv
      <3>3. Kept(boards[r], o) /\ Calm(boards[r], o)
        BY <3>2, OtherPlayer, SameSecrets DEF SamePlayer, ShipsInv, ShipsType, Sound
      <3>4. Kept(boards[r], own') /\ Calm(boards[r], own')
        BY <1>9, <3>3, SameSecrets
      <3> QED  BY <3>1, <3>2, <3>4
    <2> QED  BY <2>1, <2>2
  <1>12. ASSUME own'.abort = "automove" PROVE WrongSeed(Board', own')
    <2>1. Board' = y.board
      BY <1>2, <1>5, <1>8 DEF Board, ShipsInv, ShipsType
    <2>2. WrongSeed(y.board, y.own)
      BY <1>4, <1>7, <1>12 DEF Sound
    <2> QED  BY <1>7, <2>1, <2>2 DEF WrongSeed
  <1>13. PositionsValid'
    BY <1>9 DEF PositionsValid, ShipsInv, Sound
  <1>14. ShipsType'
    BY <1>7, <1>8, <1>10 DEF ShipsType, ShipsInv
  <1> QED  BY <1>11, <1>12, <1>13, <1>14 DEF ShipsInv

LEMMA SoundBoard ==
    ASSUME ShipsInv, NEW r \in Reinit, own.abort # "automove"
    PROVE  /\ Sound(boards[r], own) /\ Calm(boards[r], own) /\ chain.reinit \in Reinit
           /\ own \in OwnType /\ SamePlayer(own, own)
  BY DEF ShipsInv, ShipsType, PositionsValid, Sound, SamePlayer, ChainType

LEMMA SetPositionStep ==
    ASSUME ShipsInv, NEW pos \in rpc, NEW rnd \in Player, SetPositionLocked(pos, rnd)
    PROVE  ShipsInv'
  <1> DEFINE o == SetPosition(own, pos)
  <1>1. /\ own.abort = "none" /\ rpc' = rpc \ {pos}
        /\ IF chain.closed THEN own' = o /\ boards' = boards /\ chain' = chain
           ELSE StateUpdate(o, Board, chain, rnd)
    BY DEF SetPositionLocked
  <1>2. own \in OwnType /\ pos \in Grid /\ VerifyPositionOfShips(pos) /\ chain \in ChainType
    BY DEF ShipsInv, ShipsType, PositionsValid
  <1>3. /\ o \in OwnType /\ o.index = own.index /\ o.abort # "automove"
        /\ o.position # NoPosition => VerifyPositionOfShips(o.position)
        /\ SamePlayer(o, own) \/ own.position = NoPosition
    <2>1. CASE IsPositionSet(own)
      <3>1. o = [own EXCEPT !.abort = "position"]
        BY <2>1 DEF SetPosition
      <3> HIDE DEF o
      <3>2. o \in OwnType /\ o.index = own.index /\ o.abort = "position" /\ SamePlayer(o, own)
        BY <1>2, <3>1 DEF OwnType, SamePlayer
      <3> QED  BY <3>2 DEF SamePlayer, ShipsInv, PositionsValid
    <2>2. CASE ~IsPositionSet(own)
      <3>1. o = [own EXCEPT !.position = pos]
        BY <2>2 DEF SetPosition
      <3> HIDE DEF o
      <3>2. o \in OwnType /\ o.index = own.index /\ o.abort = "none" /\ o.position = pos
        BY <1>1, <1>2, <3>1 DEF OwnType
      <3> QED  BY <1>2, <2>2, <3>2 DEF IsPositionSet
    <2> QED  BY <2>1, <2>2
  <1> HIDE DEF o
  <1>4. ASSUME NEW r \in Reinit
        PROVE  BoardOK(boards[r]) /\ Kept(boards[r], o) /\ Calm(boards[r], o)
    BY <1>2, <1>3, OtherPlayer, SameSecrets DEF ShipsInv, SamePlayer
  <1>5. CASE chain.closed
    <2>1. own' = o /\ boards' = boards /\ chain' = chain
      BY <1>1, <1>5
    <2>2. ShipsType' /\ PositionsValid'
      BY <1>1, <1>3, <2>1 DEF ShipsInv, ShipsType, PositionsValid
    <2> QED  BY <1>3, <1>4, <2>1, <2>2 DEF ShipsInv
  <1>6. CASE ~chain.closed
    <2>1. StateUpdate(o, Board, chain, rnd)
      BY <1>1, <1>6
    <2>2. chain.reinit \in Reinit
      BY <1>2 DEF ChainType
    <2>3. Sound(Board, o) /\ Calm(Board, o)
      BY <1>3, <1>4, <2>2 DEF Sound, Board
    <2>4. rpc' \subseteq rpc
      BY <1>1
    <2> QED  BY <1>2, <1>3, <2>1, <2>3, <2>4, StateUpdateStep
  <1> QED  BY <1>5, <1>6

LEMMA LocalMoveStep ==
    ASSUME ShipsInv, NEW rnd \in Player, NEW mv \in ShotMoves \cup RevealMoves,
           mv \in RevealMoves => mv.pos = own.position, LocalMove(mv, rnd)
    PROVE  ShipsInv'
  <1>1. own.abort = "none" /\ Board.turn = own.index /\ rpc' = rpc
    BY DEF LocalMove, Running
  <1>2. PICK b \in ApplyMoveProto(Board, mv) : StateUpdate(own, b, chain, rnd)
    BY DEF LocalMove
  <1>3. /\ Sound(Board, own) /\ Calm(Board, own) /\ own \in OwnType /\ SamePlayer(own, own)
        /\ chain \in ChainType
    <2>1. chain \in ChainType /\ chain.reinit \in Reinit
      BY DEF ShipsInv, ShipsType, ChainType
    <2> QED  BY <1>1, <2>1, SoundBoard DEF Board
  <1>4. BoardOK(Board) /\ Kept(Board, own)
    BY <1>3 DEF Sound
  <1>5. Kept(b, own)
    <2>1. CASE mv \in ShotMoves
      BY <1>2, <1>3, <1>4, <2>1, KeptShot
    <2>2. CASE mv \in RevealMoves
      <3>1. ~(Playing(Board) /\ Board.shot # None)
        BY <1>1, <1>3 DEF Calm
      <3>2. own.position # NoPosition => VerifyPositionOfShips(own.position)
        BY <1>3 DEF Sound
      <3> QED  BY <1>2, <1>3, <1>4, <2>2, <3>1, <3>2, KeptReveal
    <2> QED  BY <2>1, <2>2
  <1>6. BoardOK(b)
    BY <1>2, <1>4, MoveRaisesCount DEF Moves
  <1>7. Sound(b, own)
    BY <1>1, <1>3, <1>5, <1>6 DEF Sound
  <1> QED  BY <1>1, <1>2, <1>3, <1>7, StateUpdateStep

LEMMA PeerMoveTypes ==
    PeerMoves \subseteq Moves
  <1>1. /\ [pos : PeerPositions, salt : {1}] \subseteq Hash
        /\ Cells \cup {-1, Side * Side} \subseteq Int
    <2>1. PeerPositions \subseteq Grid
      BY ShipsChannelAssumption DEF Grid
    <2>2. [pos : PeerPositions, salt : {1}] \subseteq Hash
      BY <2>1 DEF Hash
    <2>3. Side * Side \in Int /\ -1 \in Int
      BY SizesOfMoves
    <2>4. Cells \subseteq Int
      BY DEF Cells
    <2> QED  BY <2>2, <2>3, <2>4
  <1>2. [kind : {"commit"}, hashOk : BOOLEAN, hash : [pos : PeerPositions, salt : {1}],
         seedHash : {None, 0}, seed : {None, 0, 1}] \subseteq CommitMoves
    BY <1>1 DEF CommitMoves, Player
  <1>3. [kind : {"seed"}, seed : {0, 1}] \subseteq SeedMoves
    BY DEF SeedMoves, Player
  <1>4. [kind : {"shot"}, location : Cells \cup {-1, Side * Side}] \subseteq ShotMoves
    BY <1>1 DEF ShotMoves
  <1>5. [kind : {"reply"}, reply : {"hit", "miss", "other"}] \subseteq ReplyMoves
    BY DEF ReplyMoves
  <1>6. [kind : {"reveal"}, pos : PeerPositions, salt : {1}] \subseteq RevealMoves
    BY ShipsChannelAssumption DEF RevealMoves, Grid
  <1> QED  BY <1>2, <1>3, <1>4, <1>5, <1>6 DEF PeerMoves, Moves

LEMMA PeerMoveStep ==
    ASSUME ShipsInv, NEW rnd \in Player, NEW mv \in PeerMoves, PeerMove(mv, rnd)
    PROVE  ShipsInv'
  <1>1. own.abort = "none" /\ Board.turn = 1 - own.index /\ rpc' = rpc
    BY DEF PeerMove, Running
  <1>2. PICK b \in ApplyMoveProto(Board, mv) : StateUpdate(own, b, chain, rnd)
    BY DEF PeerMove
  <1>3. /\ Sound(Board, own) /\ Calm(Board, own) /\ own \in OwnType /\ SamePlayer(own, own)
        /\ chain \in ChainType
    <2>1. chain \in ChainType /\ chain.reinit \in Reinit
      BY DEF ShipsInv, ShipsType, ChainType
    <2> QED  BY <1>1, <2>1, SoundBoard DEF Board
  <1>4. /\ BoardOK(Board) /\ Kept(Board, own) /\ mv \in Moves
        /\ own.position # NoPosition => VerifyPositionOfShips(own.position)
    BY <1>3, PeerMoveTypes DEF Sound
  <1>5. Board.turn # own.index
    BY <1>1, <1>3 DEF OwnType, Player
  <1>6. Kept(b, own)
    <2>1. CASE mv \in CommitMoves
      BY <1>2, <1>3, <1>4, <1>5, <2>1, KeptCommit
    <2>2. CASE mv \in SeedMoves
      BY <1>2, <1>3, <1>4, <1>5, <2>2, KeptSeed
    <2>3. CASE mv \in ShotMoves
      BY <1>2, <1>3, <1>4, <1>5, <2>3, KeptShot
    <2>4. CASE mv \in ReplyMoves
      BY <1>2, <1>3, <1>4, <1>5, <2>4, KeptReply
    <2>5. CASE mv \in RevealMoves
      BY <1>2, <1>3, <1>4, <1>5, <2>5, KeptReveal
    <2>6. CASE mv = [kind |-> "unknown"]
      <3>1. mv.kind \notin {"commit", "seed", "shot", "reply", "reveal"}
        BY <2>6
      <3>2. ApplyMoveProto(Board, mv) = {}
        BY <3>1 DEF ApplyMoveProto
      <3> QED  BY <1>2, <3>2
    <2> QED  BY <1>4, <2>1, <2>2, <2>3, <2>4, <2>5, <2>6 DEF Moves
  <1>7. BoardOK(b)
    BY <1>2, <1>4, MoveRaisesCount
  <1>8. Sound(b, own)
    BY <1>1, <1>3, <1>4, <1>6, <1>7 DEF Sound
  <1> QED  BY <1>1, <1>2, <1>3, <1>8, StateUpdateStep

\* Blocks, reorgs and confirmations lead to a board that is known already.
LEMMA KnownBoardStep ==
    ASSUME ShipsInv, NEW rnd \in Player, own.abort = "none", NEW r \in Reinit, NEW c \in ChainType,
           StateUpdate(own, boards[r], c, rnd), rpc' = rpc
    PROVE  ShipsInv'
  BY SoundBoard, StateUpdateStep

LEMMA ConfirmStep ==
    ASSUME ShipsInv, NEW rnd \in Player, NEW r \in Reinit, Confirm(r, rnd)
    PROVE  ShipsInv'
  <1> DEFINE c == [chain EXCEPT !.mempool = @ \ {r}]
  <1>1. /\ own.abort = "none" /\ rpc' = rpc
        /\ \/ chain' = [c EXCEPT !.closed = TRUE] /\ boards' = boards /\ own' = own
           \/ StateUpdate(own, Board, c, rnd)
    BY DEF Confirm, Running
  <1>2. c \in ChainType /\ chain.reinit \in Reinit /\ chain \in ChainType
    BY DEF ShipsInv, ShipsType, ChainType
  <1>3. CASE chain' = [c EXCEPT !.closed = TRUE] /\ boards' = boards /\ own' = own
    <2>1. chain' \in ChainType
      BY <1>2, <1>3 DEF ChainType
    <2>2. ShipsType' /\ PositionsValid'
      BY <1>1, <1>3, <2>1 DEF ShipsInv, ShipsType, PositionsValid
    <2> QED  BY <1>1, <1>3, <2>2 DEF ShipsInv
  <1>4. CASE StateUpdate(own, Board, c, rnd)
    <2> HIDE DEF c
    <2> QED  BY <1>1, <1>2, <1>4, KnownBoardStep DEF Board
  <1> QED  BY <1>1, <1>3, <1>4

LEMMA ReorgStep ==
    ASSUME ShipsInv, NEW rnd \in Player, NEW r \in Reinit, Reorg(r, rnd)
    PROVE  ShipsInv'
  <1> DEFINE c == [chain EXCEPT !.reinit = r, !.reorgs = @ + 1]
  <1>1. own.abort = "none" /\ rpc' = rpc /\ StateUpdate(own, boards[r], c, rnd)
    BY DEF Reorg, Running
  <1>2. c \in ChainType
    <2>1. chain \in ChainType /\ chain.reorgs + 1 \in Nat
      BY DEF ShipsInv, ShipsType, ChainType
    <2> QED  BY <2>1 DEF ChainType
  <1> HIDE DEF c
  <1> QED  BY <1>1, <1>2, KnownBoardStep

LEMMA NewBlockStep ==
    ASSUME ShipsInv, NEW rnd \in Player, NewBlock(rnd)
    PROVE  ShipsInv'
  <1>1. own.abort = "none" /\ rpc' = rpc /\ StateUpdate(own, Board, chain, rnd)
    BY DEF NewBlock, Running
  <1>2. chain \in ChainType /\ chain.reinit \in Reinit
    BY DEF ShipsInv, ShipsType, ChainType
  <1> QED  BY <1>1, <1>2, KnownBoardStep DEF Board

LEMMA SetPositionCheckStep ==
    ASSUME ShipsInv, NEW pos \in Positions, SetPositionCheck(pos)
    PROVE  ShipsInv'
  <1>1. /\ VerifyPositionOfShips(pos) /\ rpc' = rpc \cup {pos} /\ pos \in Grid
        /\ boards' = boards /\ own' = own /\ chain' = chain
    BY ShipsChannelAssumption DEF SetPositionCheck, Grid
  <1>2. ShipsType' /\ PositionsValid'
    BY <1>1 DEF ShipsInv, ShipsType, PositionsValid
  <1>3. Board' = Board
    BY <1>1 DEF Board
  <1> QED  BY <1>1, <1>2, <1>3 DEF ShipsInv

LEMMA ShipsInvStep ==
    ASSUME ShipsInv, [ShipsNext]_shipsVars
    PROVE  ShipsInv'
  <1>1. CASE UNCHANGED shipsVars
    <2>1. boards' = boards /\ own' = own /\ rpc' = rpc /\ chain' = chain
      BY <1>1 DEF shipsVars
    <2>2. ShipsType' /\ PositionsValid' /\ Board' = Board
      BY <2>1 DEF ShipsInv, ShipsType, PositionsValid, Board
    <2> QED  BY <2>1, <2>2 DEF ShipsInv
  <1>2. ASSUME NEW rnd \in {0, 1}, NEW pos \in rpc, SetPositionLocked(pos, rnd)
        PROVE  ShipsInv'
    BY <1>2, SetPositionStep DEF Player
  <1>3. ASSUME NEW rnd \in {0, 1}, NEW cell \in Cells, Shoot(cell, rnd)
        PROVE  ShipsInv'
    <2> DEFINE mv == [kind |-> "shot", location |-> cell]
    <2>1. mv \in ShotMoves /\ mv \notin RevealMoves
      BY DEF ShotMoves, RevealMoves, Cells
    <2>2. LocalMove(mv, rnd) /\ rnd \in Player
      BY <1>3 DEF Shoot, Player
    <2> HIDE DEF mv
    <2> QED  BY <2>1, <2>2, LocalMoveStep
  <1>4. ASSUME NEW rnd \in {0, 1}, RevealPosition(rnd)
        PROVE  ShipsInv'
    <2> DEFINE mv == GetPositionRevealMove(own)
    <2>1. mv \in RevealMoves /\ mv.pos = own.position
      BY DEF GetPositionRevealMove, RevealMoves, ShipsInv, ShipsType, OwnType
    <2>2. LocalMove(mv, rnd) /\ rnd \in Player
      BY <1>4 DEF RevealPosition, Player
    <2> HIDE DEF mv
    <2> QED  BY <2>1, <2>2, LocalMoveStep
  <1>5. ASSUME NEW rnd \in {0, 1}, NEW mv \in PeerMoves, PeerMove(mv, rnd)
        PROVE  ShipsInv'
    BY <1>5, PeerMoveStep DEF Player
  <1>6. ASSUME NEW rnd \in {0, 1}, NEW r \in Reinit, Confirm(r, rnd) \/ Reorg(r, rnd)
        PROVE  ShipsInv'
    BY <1>6, ConfirmStep, ReorgStep DEF Player
  <1>7. ASSUME NEW rnd \in {0, 1}, NewBlock(rnd)
        PROVE  ShipsInv'
    BY <1>7, NewBlockStep DEF Player
  <1>8. ASSUME NEW pos \in Positions, SetPositionCheck(pos)
        PROVE  ShipsInv'
    BY <1>8, SetPositionCheckStep
  <1> QED  BY <1>1, <1>2, <1>3, <1>4, <1>5, <1>6, <1>7, <1>8 DEF ShipsNext

LEMMA InitialBoard ==
    /\ BoardOK(InitialBoardState)
    /\ \A o \in OwnType : Kept(InitialBoardState, o) /\ Calm(InitialBoardState, o)
  <1> DEFINE b == InitialBoardState
  <1>1. /\ b.turn = 0 /\ b.hashes = <<>> /\ b.known = <<>> /\ b.shot = None /\ b.positions = <<>>
        /\ b.winner = None /\ Len(b.hashes) = 0
    BY DEF InitialBoardState
  <1>2. b \in BoardType
    BY DEF InitialBoardState, BoardType, Player
  <1>3. Committing(b, 0) /\ Unplayed(b)
    BY <1>1 DEF Committing, Unplayed
  <1>4. BoardOK(b)
    BY <1>2, <1>3 DEF BoardOK
  <1> HIDE DEF b
  <1>5. ~Playing(b) /\ ~Revealing(b) /\ ~Over(b)
    BY <1>3, <1>4, OneStage
  <1>6. ASSUME NEW o \in OwnType
        PROVE  Kept(b, o) /\ Calm(b, o)
    <2>1. ~(Len(b.hashes) >= o.index + 1)
      BY <1>1 DEF OwnType, Player
    <2> QED  BY <1>5, <2>1 DEF Kept, Calm
  <1> QED  BY <1>4, <1>6 DEF b

LEMMA ShipsInvInit ==
    ASSUME ShipsInit
    PROVE  ShipsInv
  <1>1. PICK i \in {0, 1} : own = [index |-> i, position |-> NoPosition, seed0 |-> 0,
                                   close |-> NoReinit, abort |-> "none"]
    BY DEF ShipsInit
  <1>2. own \in OwnType /\ own.position = NoPosition /\ own.abort = "none"
    BY <1>1 DEF OwnType, Player, NoPosition, Grid
  <1>3. chain \in ChainType
    <2>1. (CHOOSE r \in Reinit : TRUE) \in Reinit
      BY ShipsChannelAssumption
    <2> QED  BY <2>1 DEF ShipsInit, ChainType
  <1>4. boards = [r \in Reinit |-> InitialBoardState] /\ rpc = {}
    BY DEF ShipsInit
  <1>5. InitialBoardState \in BoardType
    BY InitialBoard DEF BoardOK
  <1>6. ShipsType
    BY <1>2, <1>3, <1>4, <1>5 DEF ShipsType
  <1>7. PositionsValid
    BY <1>2, <1>4 DEF PositionsValid
  <1> QED  BY <1>2, <1>4, <1>6, <1>7, InitialBoard DEF ShipsInv

LEMMA ShipsInvariant ==
    ShipsSpec => []ShipsInv
  <1>1. ShipsInit => ShipsInv
    BY ShipsInvInit
  <1>2. ShipsInv /\ [ShipsNext]_shipsVars => ShipsInv'
    BY ShipsInvStep
  <1> QED  BY <1>1, <1>2, PTL DEF ShipsSpec

----------------------------------------------------------------------------
(* The theorems about ships.                                               *)

(***************************************************************************)
(* Whatever the peer, the user and the chain do, the board is valid, and   *)
(* no move that ApplyMoveProto accepts leaves it invalid or fails to raise *)
(* the turn count, with the one exception of a revealed position whose low *)
(* bits are zero.  For a board of any size and any fleet.                  *)
(***************************************************************************)
THEOREM BoardsStayInOrder ==
    ShipsSpec => []BoardsInOrder
  <1>1. ASSUME ShipsInv PROVE BoardsInOrder
    <2>1. BoardOK(Board)
      BY <1>1 DEF ShipsInv, ShipsType, ChainType, Board
    <2>2. IsValid(Board)
      BY <2>1, ValidBoard
    <2>3. ASSUME NEW mv \in PeerMoves, NEW b \in ApplyMoveProto(Board, mv)
          PROVE  /\ IsValid(b)
                 /\ \/ TurnCount(b) > TurnCount(Board)
                    \/ mv.kind = "reveal" /\ mv.pos \cap IntCells = {}
      <3>1. mv \in Moves
        BY PeerMoveTypes
      <3>2. /\ BoardOK(b)
            /\ \/ TurnCount(b) > TurnCount(Board)
               \/ mv.kind = "reveal" /\ mv.pos \cap IntCells = {}
        BY <2>1, <3>1, MoveRaisesCount
      <3> QED  BY <3>2, ValidBoard
    <2> QED  BY <2>2, <2>3 DEF BoardsInOrder
  <1> QED  BY <1>1, ShipsInvariant, PTL

(***************************************************************************)
(* The moves that ProcessAutoMoves makes for an honest player are always   *)
(* accepted by the rules, so that it never aborts on its own move, except  *)
(* when it reveals the seed drawn for another reinitialisation.            *)
(***************************************************************************)
THEOREM AutoMovesAlwaysApply ==
    ShipsSpec => []AutoMovesApply
  <1>1. ASSUME ShipsInv PROVE AutoMovesApply
    <2> SUFFICES ASSUME own.abort = "automove"
                 PROVE  /\ GetPhase(Board) = "first reveal seed" /\ Board.turn = own.index
                        /\ Board.seedHash0 # own.seed0
      BY DEF AutoMovesApply
    <2>1. WrongSeed(Board, own) /\ Board \in BoardType
      BY <1>1 DEF ShipsInv, ShipsType, ChainType, Board
    <2> QED  BY <2>1, PhaseOf DEF WrongSeed
  <1> QED  BY <1>1, ShipsInvariant, PTL

(***************************************************************************)
(* An honest player loses only to a peer whose revealed position is valid  *)
(* and agrees with every answer it gave, and who sank its whole fleet or   *)
(* has a ship left when the player gave up and revealed: no lie about a    *)
(* shot, and no reorg between reinitialisations, makes it lose.            *)
(***************************************************************************)
THEOREM HonestPlayerNotCheated ==
    ShipsSpec => []HonestNotCheated
  <1>1. ASSUME ShipsInv PROVE HonestNotCheated
    <2>1. SUFFICES ASSUME NEW r \in Reinit, boards[r].winner = 1 - own.index
                   PROVE  NotCheated(boards[r], own)
      BY DEF HonestNotCheated, NotCheated
    <2>2. BoardOK(boards[r]) /\ Kept(boards[r], own) /\ own.index \in Player
      BY <1>1 DEF ShipsInv, ShipsType, OwnType
    <2>3. boards[r].winner # None
      BY <2>1, <2>2 DEF Player, None
    <2>4. Over(boards[r])
      BY <2>2, <2>3 DEF BoardOK, Committing, Seeding, Unplayed, Playing, Revealing
    <2> QED  BY <2>1, <2>2, <2>4 DEF Kept
  <1> QED  BY <1>1, ShipsInvariant, PTL
----------------------------------------------------------------------------
(* ShipsTables: the database of the GSP.                                   *)

\* The participants of a channel: one who waits, or two.
Pairs == {q \in Name \X Name : q[1] # q[2]}
Names == {<<n>> : n \in Name} \cup Pairs

ChannelRow == [names : Names, count : Nat, dispute : Nat]
ExtraRow == [created : Nat, participants : {1, 2}]
Rows(S) == UNION {[D -> S] : D \in SUBSET ChannelId}
TablesType ==
    [channels : Rows(ChannelRow), extra : Rows(ExtraRow), won : [Name -> Nat],
     lost : [Name -> Nat], failed : {FALSE}]

\* The two rows of a channel at height h, before disputes expire.
RowOK(r, e, h) ==
    /\ e.participants = Len(r.names)
    /\ r.dispute <= h
    /\ r.dispute # 0 => r.names \in Pairs /\ HasTurn(r.count)
    /\ e.participants = 1 => h - e.created <= CHANNEL_TIMEOUT_BLOCKS

RowsOK(c, x, h) ==
    DOMAIN c = DOMAIN x /\ \A id \in DOMAIN c : RowOK(c[id], x[id], h)

\* The games that were counted, of the channels with IDs C.
CountOK(c, won, lost, C) ==
    /\ IsFiniteSet(C) /\ DOMAIN c \subseteq C
    /\ IsFiniteSet(Counted(won)) /\ IsFiniteSet(Counted(lost))
    /\ Total(won) = Total(lost)
    /\ Total(won) <= Cardinality(C \ DOMAIN c)

\* The database in a block at height h, after moves that created C.
TablesOK(d, h, C) ==
    d \in TablesType /\ RowsOK(d.channels, d.extra, h) /\ CountOK(d.channels, d.won, d.lost, C)

LEMMA RowsAre ==
    ASSUME NEW S, NEW f \in Rows(S)
    PROVE  f \in [DOMAIN f -> S] /\ DOMAIN f \in SUBSET ChannelId
  BY DEF Rows

LEMMA AreRows ==
    ASSUME NEW S, NEW D \in SUBSET ChannelId, NEW f \in [D -> S]
    PROVE  f \in Rows(S)
  BY DEF Rows

\* The table g is f with another row for id, or without rows for ids.
Added(g, f, id, r, S) ==
    /\ g \in Rows(S) /\ DOMAIN g = DOMAIN f \cup {id} /\ g[id] = r
    /\ \A i \in DOMAIN f : i # id => g[i] = f[i]
Removed(g, f, ids, S) ==
    g \in Rows(S) /\ DOMAIN g = DOMAIN f \ ids /\ \A i \in DOMAIN f \ ids : g[i] = f[i]

LEMMA WithRow ==
    ASSUME NEW S, NEW f \in Rows(S), NEW id \in ChannelId, NEW r \in S
    PROVE  Added(With(f, id, r), f, id, r, S)
  <1>1. f \in [DOMAIN f -> S] /\ DOMAIN f \in SUBSET ChannelId
    BY RowsAre
  <1>2. With(f, id, r) \in [DOMAIN f \cup {id} -> S]
    BY <1>1 DEF With
  <1> QED
    BY <1>1, <1>2, AreRows DEF With, Added

LEMMA WithoutRows ==
    ASSUME NEW S, NEW f \in Rows(S), NEW ids
    PROVE  Removed(Without(f, ids), f, ids, S)
  <1>1. f \in [DOMAIN f -> S] /\ DOMAIN f \in SUBSET ChannelId
    BY RowsAre
  <1>2. Without(f, ids) \in [DOMAIN f \ ids -> S]
    BY <1>1 DEF Without
  <1> QED
    BY <1>1, <1>2, AreRows DEF Without, Removed

\* The database as a record of its parts.
DbRecord(c, x, won, lost, f) ==
    [channels |-> c, extra |-> x, won |-> won, lost |-> lost, failed |-> f]

LEMMA SetChannels ==
    ASSUME NEW c, NEW x, NEW won, NEW lost, NEW f, NEW c2
    PROVE  [DbRecord(c, x, won, lost, f) EXCEPT !.channels = c2] = DbRecord(c2, x, won, lost, f)
  BY DEF DbRecord

LEMMA SetExtra ==
    ASSUME NEW c, NEW x, NEW won, NEW lost, NEW f, NEW x2
    PROVE  [DbRecord(c, x, won, lost, f) EXCEPT !.extra = x2] = DbRecord(c, x2, won, lost, f)
  BY DEF DbRecord

LEMMA SetWon ==
    ASSUME NEW c, NEW x, NEW won, NEW lost, NEW f, NEW w2
    PROVE  [DbRecord(c, x, won, lost, f) EXCEPT !.won = w2] = DbRecord(c, x, w2, lost, f)
  BY DEF DbRecord

LEMMA SetLost ==
    ASSUME NEW c, NEW x, NEW won, NEW lost, NEW f, NEW l2
    PROVE  [DbRecord(c, x, won, lost, f) EXCEPT !.lost = l2] = DbRecord(c, x, won, l2, f)
  BY DEF DbRecord

LEMMA DbFields ==
    ASSUME NEW c, NEW x, NEW won, NEW lost, NEW f, NEW r, r = DbRecord(c, x, won, lost, f)
    PROVE  r.channels = c /\ r.extra = x /\ r.won = won /\ r.lost = lost /\ r.failed = f
  BY DEF DbRecord

LEMMA TablesParts ==
    ASSUME NEW d \in TablesType
    PROVE  /\ d = DbRecord(d.channels, d.extra, d.won, d.lost, d.failed)
           /\ d.channels \in Rows(ChannelRow) /\ d.extra \in Rows(ExtraRow)
           /\ d.won \in [Name -> Nat] /\ d.lost \in [Name -> Nat] /\ d.failed \in {FALSE}
  BY DEF TablesType, DbRecord

LEMMA TablesAreOK ==
    ASSUME NEW c \in Rows(ChannelRow), NEW x \in Rows(ExtraRow), NEW won \in [Name -> Nat],
           NEW lost \in [Name -> Nat], NEW f \in {FALSE}, NEW h, NEW C, RowsOK(c, x, h),
           CountOK(c, won, lost, C)
    PROVE  TablesOK(DbRecord(c, x, won, lost, f), h, C)
  <1> DEFINE d == DbRecord(c, x, won, lost, f)
  <1>1. d \in TablesType
    BY DEF DbRecord, TablesType
  <1>2. d.channels = c /\ d.extra = x /\ d.won = won /\ d.lost = lost
    BY DEF DbRecord
  <1> QED
    BY <1>1, <1>2 DEF TablesOK

LEMMA CheckHolds ==
    ASSUME NEW d, NEW ok, ok
    PROVE  CheckThat(d, ok) = d
  BY DEF CheckThat

----------------------------------------------------------------------------
(* The statements.                                                         *)

LEMMA DeleteIs ==
    ASSUME NEW c, NEW x, NEW won, NEW lost, NEW f, NEW ids
    PROVE  DeleteChannels(DbRecord(c, x, won, lost, f), ids)
              = DbRecord(Without(c, ids), Without(x, ids), won, lost, f)
  <1> DEFINE r == DbRecord(c, x, won, lost, f)
             c2 == Without(c, ids)
             x2 == Without(x, ids)
             s == DbRecord(c2, x, won, lost, f)
  <1>1. r.channels = c /\ r.extra = x
    BY DEF DbRecord
  <1>2. [r EXCEPT !.channels = c2] = s
    <2> HIDE DEF c2
    <2> QED  BY SetChannels
  <1>3. [s EXCEPT !.extra = x2] = DbRecord(c2, x2, won, lost, f)
    <2> HIDE DEF c2, x2
    <2> QED  BY SetExtra
  <1>4. DeleteChannels(r, ids) = [[r EXCEPT !.channels = c2] EXCEPT !.extra = x2]
    <2> HIDE DEF r
    <2> QED  BY <1>1 DEF DeleteChannels
  <1> HIDE DEF r, s, c2, x2
  <1>5. DeleteChannels(r, ids) = [s EXCEPT !.extra = x2]
    BY <1>2, <1>4
  <1> QED
    BY <1>3, <1>5 DEF r, c2, x2

LEMMA DestructedIs ==
    ASSUME NEW c, NEW x, NEW won, NEW lost, NEW f, NEW h, h.dirty
    PROVE  Destructed(DbRecord(c, x, won, lost, f), h)
              = DbRecord(With(c, h.id, h.row), x, won, lost, f)
  <1> DEFINE r == DbRecord(c, x, won, lost, f)
             c2 == With(c, h.id, h.row)
  <1>1. r.channels = c
    BY DEF DbRecord
  <1>2. [r EXCEPT !.channels = c2] = DbRecord(c2, x, won, lost, f)
    <2> HIDE DEF c2
    <2> QED  BY SetChannels
  <1> HIDE DEF r
  <1>3. Destructed(r, h) = [r EXCEPT !.channels = c2]
    BY <1>1 DEF Destructed
  <1> QED
    BY <1>2, <1>3 DEF r

\* One more game of a player in a column of the statistics.
OneMore(f, n) == [f EXCEPT ![n] = @ + 1]

LEMMA StatsAre ==
    ASSUME NEW c, NEW x, NEW won, NEW lost, NEW f, NEW row, NEW n
    PROVE  UpdateStats(DbRecord(c, x, won, lost, f), row, n)
              = DbRecord(c, x, OneMore(won, n), OneMore(lost, Opponent(row, n)), f)
  <1> DEFINE r == DbRecord(c, x, won, lost, f)
             o == Opponent(row, n)
             w2 == OneMore(won, n)
             l2 == OneMore(lost, o)
             s == DbRecord(c, x, w2, lost, f)
  <1> HIDE DEF o
  <1>1. r.won = won /\ r.lost = lost
    BY DEF DbRecord
  <1>2. [r EXCEPT !.won = w2] = s
    <2> HIDE DEF w2
    <2> QED  BY SetWon
  <1>3. [s EXCEPT !.lost = l2] = DbRecord(c, x, w2, l2, f)
    <2> HIDE DEF l2, w2
    <2> QED  BY SetLost
  <1>4. s.lost = lost
    BY DEF DbRecord
  <1>5. UpdateStats(r, row, n) = [[r EXCEPT !.won = w2] EXCEPT !.lost = l2]
    <2> HIDE DEF r, s
    <2> QED  BY <1>1, <1>2, <1>4 DEF UpdateStats, o, OneMore
  <1> HIDE DEF r, s, w2, l2
  <1>6. UpdateStats(r, row, n) = [s EXCEPT !.lost = l2]
    BY <1>2, <1>5
  <1> QED
    BY <1>3, <1>6 DEF r, w2, l2, o

LEMMA DeleteKeeps ==
    ASSUME NEW d, NEW h, NEW C, TablesOK(d, h, C), NEW ids
    PROVE  /\ TablesOK(DeleteChannels(d, ids), h, C)
           /\ DeleteChannels(d, ids).channels = Without(d.channels, ids)
           /\ DeleteChannels(d, ids).extra = Without(d.extra, ids)
  <1> DEFINE c == Without(d.channels, ids)
             x == Without(d.extra, ids)
  <1>1. /\ d = DbRecord(d.channels, d.extra, d.won, d.lost, d.failed)
        /\ d.channels \in Rows(ChannelRow) /\ d.extra \in Rows(ExtraRow)
        /\ d.won \in [Name -> Nat] /\ d.lost \in [Name -> Nat] /\ d.failed \in {FALSE}
    BY TablesParts DEF TablesOK
  <1>2. DeleteChannels(d, ids) = DbRecord(c, x, d.won, d.lost, d.failed)
    <2> DEFINE e == DbRecord(d.channels, d.extra, d.won, d.lost, d.failed)
    <2>1. DeleteChannels(e, ids) = DbRecord(c, x, d.won, d.lost, d.failed)
      BY DeleteIs
    <2>2. d = e
      BY <1>1
    <2> HIDE DEF e
    <2> QED  BY <2>1, <2>2
  <1>3. Removed(c, d.channels, ids, ChannelRow) /\ Removed(x, d.extra, ids, ExtraRow)
    BY <1>1, WithoutRows
  <1> HIDE DEF c, x
  <1>4. RowsOK(c, x, h)
    BY <1>3 DEF TablesOK, RowsOK, Removed
  <1>5. CountOK(c, d.won, d.lost, C)
    <2> DEFINE S == C \ DOMAIN d.channels
               T == C \ DOMAIN c
    <2>1. IsFiniteSet(C) /\ DOMAIN d.channels \subseteq C /\ DOMAIN c \subseteq C
          /\ S \in SUBSET T /\ T \in SUBSET C
      BY <1>3 DEF TablesOK, CountOK, Removed
    <2>2. IsFiniteSet(T) /\ IsFiniteSet(S) /\ Cardinality(S) <= Cardinality(T)
      BY <2>1, FS_Subset
    <2>3. Cardinality(S) \in Nat /\ Cardinality(T) \in Nat /\ Total(d.won) \in Nat
      BY <2>2, FS_CardinalityType DEF TablesOK, CountOK, Total
    <2> HIDE DEF S, T
    <2>4. Total(d.won) <= Cardinality(S)
      BY DEF TablesOK, CountOK, S
    <2>5. Total(d.won) <= Cardinality(T)
      BY <2>2, <2>3, <2>4
    <2> QED  BY <2>1, <2>5 DEF TablesOK, CountOK, T
  <1>6. TablesOK(DbRecord(c, x, d.won, d.lost, d.failed), h, C)
    BY <1>1, <1>3, <1>4, <1>5, TablesAreOK DEF Removed
  <1>7. DeleteChannels(d, ids).channels = c /\ DeleteChannels(d, ids).extra = x
    BY <1>2, DbFields
  <1> QED
    BY <1>2, <1>6, <1>7 DEF c, x

LEMMA PutKeeps ==
    ASSUME NEW d, NEW h, NEW C, TablesOK(d, h, C), NEW id \in ChannelId, NEW r \in ChannelRow,
           NEW e \in ExtraRow, RowOK(r, e, h), id \in C => id \in DOMAIN d.channels
    PROVE  TablesOK(DbRecord(With(d.channels, id, r), With(d.extra, id, e), d.won, d.lost, d.failed),
                    h, C \cup {id})
  <1> DEFINE c == With(d.channels, id, r)
             x == With(d.extra, id, e)
             D == C \cup {id}
  <1>1. /\ d.channels \in Rows(ChannelRow) /\ d.extra \in Rows(ExtraRow)
        /\ d.won \in [Name -> Nat] /\ d.lost \in [Name -> Nat] /\ d.failed \in {FALSE}
    BY TablesParts DEF TablesOK
  <1>2. Added(c, d.channels, id, r, ChannelRow)
    BY <1>1, WithRow
  <1>3. Added(x, d.extra, id, e, ExtraRow)
    BY <1>1, WithRow
  <1> HIDE DEF c, x, D
  <1>4. RowsOK(c, x, h)
    BY <1>2, <1>3 DEF TablesOK, RowsOK, Added
  <1>5. CountOK(c, d.won, d.lost, D)
    <2>1. CountOK(d.channels, d.won, d.lost, C)
      BY DEF TablesOK
    <2>2. IsFiniteSet(D)
      BY <2>1, FS_AddElement DEF CountOK, D
    <2>3. DOMAIN c \subseteq D /\ D \ DOMAIN c = C \ DOMAIN d.channels
      BY <1>2, <2>1 DEF CountOK, D, Added
    <2> QED  BY <2>1, <2>2, <2>3 DEF CountOK
  <1> QED
    BY <1>1, <1>2, <1>3, <1>4, <1>5, TablesAreOK DEF c, x, D, Added

LEMMA CountUp ==
    ASSUME NEW f \in [Name -> Nat], NEW n \in Name, IsFiniteSet(Counted(f))
    PROVE  LET g == OneMore(f, n)
           IN  g \in [Name -> Nat] /\ IsFiniteSet(Counted(g)) /\ Total(g) = Total(f) + 1
  <1> DEFINE g == OneMore(f, n)
             k == <<n, f[n] + 1>>
  <1>1. g \in [Name -> Nat] /\ g[n] = f[n] + 1 /\ \A m \in Name : m # n => g[m] = f[m]
    BY DEF OneMore
  <1> HIDE DEF g
  <1>2. \A q : q \in Counted(f) <=> \E m \in Name : \E i \in 1 .. f[m] : q = <<m, i>>
    BY DEF Counted
  <1>3. \A q : q \in Counted(g) <=> \E m \in Name : \E i \in 1 .. g[m] : q = <<m, i>>
    BY DEF Counted
  <1>4. \A m \in Name : f[m] \in Nat /\ g[m] \in Nat
    BY <1>1
  <1>5. 1 .. g[n] = (1 .. f[n]) \cup {f[n] + 1}
    BY <1>1, <1>4
  <1>6. k \notin Counted(f)
    <2> SUFFICES ASSUME NEW m \in Name, NEW i \in 1 .. f[m], k = <<m, i>> PROVE FALSE
      BY <1>2
    <2>1. m = n /\ i = f[n] + 1
      OBVIOUS
    <2> QED  BY <1>4, <2>1
  <1>7. Counted(g) = Counted(f) \cup {k}
    <2>1. ASSUME NEW q \in Counted(g) PROVE q \in Counted(f) \cup {k}
      <3>1. PICK m \in Name : \E i \in 1 .. g[m] : q = <<m, i>>
        BY <1>3, <2>1
      <3>2. CASE m = n
        BY <1>2, <1>5, <3>1, <3>2
      <3>3. CASE m # n
        BY <1>1, <1>2, <3>1, <3>3
      <3> QED  BY <3>2, <3>3
    <2>2. ASSUME NEW q \in Counted(f) PROVE q \in Counted(g)
      <3>1. PICK m \in Name : \E i \in 1 .. f[m] : q = <<m, i>>
        BY <1>2, <2>2
      <3>2. \A i \in 1 .. f[m] : i \in 1 .. g[m]
        BY <1>1, <1>5
      <3> QED  BY <1>3, <3>1, <3>2
    <2>3. k \in Counted(g)
      <3>1. f[n] + 1 \in 1 .. g[n]
        BY <1>5
      <3> QED  BY <1>3, <3>1
    <2> HIDE DEF k
    <2> QED  BY <2>1, <2>2, <2>3
  <1> HIDE DEF k
  <1>8. IsFiniteSet(Counted(g)) /\ Total(g) = Total(f) + 1
    BY <1>6, <1>7, FS_AddElement DEF Total
  <1> QED
    BY <1>1, <1>8 DEF g

LEMMA WonKeeps ==
    ASSUME NEW d, NEW h, NEW C, TablesOK(d, h, C), NEW id \in DOMAIN d.channels,
           NEW n \in Name, NEW o \in Name
    PROVE  TablesOK(DbRecord(Without(d.channels, {id}), Without(d.extra, {id}),
                             OneMore(d.won, n), OneMore(d.lost, o), d.failed),
                    h, C)
  <1> DEFINE c == Without(d.channels, {id})
             x == Without(d.extra, {id})
             w == OneMore(d.won, n)
             l == OneMore(d.lost, o)
             S == C \ DOMAIN d.channels
  <1>1. /\ d.channels \in Rows(ChannelRow) /\ d.extra \in Rows(ExtraRow)
        /\ d.won \in [Name -> Nat] /\ d.lost \in [Name -> Nat] /\ d.failed \in {FALSE}
    BY TablesParts DEF TablesOK
  <1>2. CountOK(d.channels, d.won, d.lost, C)
    BY DEF TablesOK
  <1>3. w \in [Name -> Nat] /\ IsFiniteSet(Counted(w)) /\ Total(w) = Total(d.won) + 1
    BY <1>1, <1>2, CountUp DEF CountOK
  <1>4. l \in [Name -> Nat] /\ IsFiniteSet(Counted(l)) /\ Total(l) = Total(d.lost) + 1
    BY <1>1, <1>2, CountUp DEF CountOK
  <1>5. Removed(c, d.channels, {id}, ChannelRow)
    BY <1>1, WithoutRows
  <1>6. Removed(x, d.extra, {id}, ExtraRow)
    BY <1>1, WithoutRows
  <1> HIDE DEF c, x, w, l
  <1>7. RowsOK(c, x, h)
    BY <1>5, <1>6 DEF TablesOK, RowsOK, Removed
  <1>8. CountOK(c, w, l, C)
    <2>1. DOMAIN c \subseteq C /\ C \ DOMAIN c = S \cup {id} /\ id \notin S /\ S \in SUBSET C
      BY <1>2, <1>5 DEF CountOK, Removed
    <2>2. IsFiniteSet(S) /\ Cardinality(S) \in Nat
      BY <1>2, <2>1, FS_Subset, FS_CardinalityType DEF CountOK
    <2>3. Cardinality(C \ DOMAIN c) = Cardinality(S) + 1
      <3> HIDE DEF S
      <3> QED  BY <2>1, <2>2, FS_AddElement
    <2>4. Total(d.won) \in Nat /\ Total(d.won) <= Cardinality(S)
      BY <1>2, FS_CardinalityType DEF CountOK, Total
    <2> HIDE DEF S
    <2>5. Total(w) <= Cardinality(C \ DOMAIN c)
      BY <1>3, <2>2, <2>3, <2>4
    <2> QED  BY <1>2, <1>3, <1>4, <2>1, <2>5 DEF CountOK
  <1> QED
    BY <1>1, <1>3, <1>4, <1>5, <1>6, <1>7, <1>8, TablesAreOK
    DEF c, x, w, l, Removed

LEMMA CloseWonIs ==
    ASSUME NEW d \in TablesType, NEW hdl, hdl.dirty \in BOOLEAN, NEW n
    PROVE  CloseWon(d, hdl, n) =
             DbRecord(Without(d.channels, {hdl.id}), Without(d.extra, {hdl.id}),
                      OneMore(d.won, n),
                      OneMore(d.lost, Opponent(hdl.row, n)), d.failed)
  <1> DEFINE w == OneMore(d.won, n)
             l == OneMore(d.lost, Opponent(hdl.row, n))
             e == DbRecord(d.channels, d.extra, d.won, d.lost, d.failed)
             s == DbRecord(d.channels, d.extra, w, l, d.failed)
             ids == {hdl.id}
             c2 == With(d.channels, hdl.id, hdl.row)
  <1>1. d = e
    BY TablesParts
  <1>2. UpdateStats(e, hdl.row, n) = s
    BY StatsAre
  <1>3. UpdateStats(d, hdl.row, n) = s
    <2> HIDE DEF e, s
    <2> QED  BY <1>1, <1>2
  <1> HIDE DEF w, l
  <1>4. CASE hdl.dirty
    <2>1. Destructed(s, hdl) = DbRecord(c2, d.extra, w, l, d.failed)
      BY <1>4, DestructedIs
    <2>2. Without(c2, ids) = Without(d.channels, ids)
      BY DEF With, Without
    <2>3. DeleteChannels(DbRecord(c2, d.extra, w, l, d.failed), ids)
            = DbRecord(Without(c2, ids), Without(d.extra, ids), w, l, d.failed)
      <3> HIDE DEF c2, ids
      <3> QED  BY DeleteIs
    <2> HIDE DEF s, c2, ids
    <2>4. CloseWon(d, hdl, n) = DeleteChannels(Destructed(s, hdl), ids)
      BY <1>3 DEF CloseWon, DeleteChannelById, ids
    <2> QED  BY <2>1, <2>2, <2>3, <2>4 DEF ids, w, l
  <1>5. CASE ~hdl.dirty
    <2>1. Destructed(s, hdl) = s
      BY <1>5 DEF Destructed
    <2>2. DeleteChannels(s, ids) = DbRecord(Without(d.channels, ids), Without(d.extra, ids), w, l, d.failed)
      <3> HIDE DEF ids
      <3> QED  BY DeleteIs
    <2> HIDE DEF s, ids
    <2>3. CloseWon(d, hdl, n) = DeleteChannels(Destructed(s, hdl), ids)
      BY <1>3 DEF CloseWon, DeleteChannelById, ids
    <2> QED  BY <2>1, <2>2, <2>3 DEF ids, w, l
  <1> QED
    BY <1>4, <1>5

\* The players of a channel with two of them.
LEMMA Opponents ==
    ASSUME NEW row, row.names \in Pairs
    PROVE  /\ Len(row.names) = 2
           /\ \A n \in Range(row.names) : n \in Name /\ Opponent(row, n) \in Range(row.names)
           /\ row.count \in Nat => PlayerInTurn(row) \in Range(row.names)
  <1> DEFINE p == row.names
  <1>1. p \in Name \X Name /\ p[1] # p[2]
    BY DEF Pairs
  <1>2. Len(p) = 2 /\ DOMAIN p = {1, 2} /\ p[1] \in Name /\ p[2] \in Name
    BY <1>1
  <1>3. Range(p) = {p[1], p[2]}
    BY <1>2 DEF Range
  <1> HIDE DEF p
  <1>4. ASSUME NEW n \in Range(p)
        PROVE  n \in Name /\ Opponent(row, n) \in Range(p)
    <2>1. \E o \in Range(p) : o # n
      BY <1>1, <1>3
    <2> QED  BY <1>2, <1>3, <2>1 DEF Opponent, p
  <1>5. row.count \in Nat => PlayerInTurn(row) \in Range(p)
    <2>1. row.count \in Nat => (row.count % 2) + 1 \in {1, 2}
      OBVIOUS
    <2> QED  BY <1>3, <2>1 DEF PlayerInTurn, p
  <1> QED
    BY <1>2, <1>4, <1>5 DEF p

----------------------------------------------------------------------------
(* The moves.                                                              *)

LEMMA RowsOf ==
    ASSUME NEW d, NEW h, NEW C, TablesOK(d, h, C), NEW id \in DOMAIN d.channels
    PROVE  /\ id \in ChannelId /\ id \in C /\ id \in DOMAIN d.extra
           /\ d.channels[id] \in ChannelRow /\ d.extra[id] \in ExtraRow
           /\ RowOK(d.channels[id], d.extra[id], h)
  <1>1. d.channels \in Rows(ChannelRow) /\ d.extra \in Rows(ExtraRow)
    BY TablesParts DEF TablesOK
  <1>2. /\ d.channels \in [DOMAIN d.channels -> ChannelRow] /\ DOMAIN d.channels \in SUBSET ChannelId
        /\ d.extra \in [DOMAIN d.extra -> ExtraRow]
    BY <1>1, RowsAre
  <1> QED
    BY <1>2 DEF TablesOK, RowsOK, CountOK

LEMMA NamesAre ==
    ASSUME NEW r \in ChannelRow
    PROVE  /\ r = [names |-> r.names, count |-> r.count, dispute |-> r.dispute]
           /\ r.count \in Nat /\ r.dispute \in Nat
           /\ \/ r.names \in Pairs /\ Len(r.names) = 2
              \/ Len(r.names) = 1 /\ r.names[1] \in Name /\ r.names = <<r.names[1]>>
  <1>1. r = [names |-> r.names, count |-> r.count, dispute |-> r.dispute]
        /\ r.names \in Names /\ r.count \in Nat /\ r.dispute \in Nat
    BY DEF ChannelRow
  <1>2. CASE r.names \in Pairs
    BY <1>1, <1>2 DEF Pairs
  <1>3. CASE r.names \notin Pairs
    <2>1. PICK n \in Name : r.names = <<n>>
      BY <1>1, <1>3 DEF Names
    <2> QED  BY <1>1, <2>1
  <1> QED
    BY <1>2, <1>3

LEMMA SetRowIs ==
    ASSUME NEW id, NEW old, NEW b, NEW row
    PROVE  LET s == SetRow([id |-> id, row |-> old, dirty |-> b], row)
           IN  s.id = id /\ s.row = row /\ s.dirty
  BY DEF SetRow

\* A handle with a new row, and the statement beside it.
NewExtra(d, x) == [d EXCEPT !.extra = x]

LEMMA PutIs ==
    ASSUME NEW d \in TablesType, NEW id, NEW x, NEW old, NEW b, NEW row
    PROVE  Destructed(NewExtra(d, x), SetRow([id |-> id, row |-> old, dirty |-> b], row))
              = DbRecord(With(d.channels, id, row), x, d.won, d.lost, d.failed)
  <1> DEFINE e == DbRecord(d.channels, d.extra, d.won, d.lost, d.failed)
             s == SetRow([id |-> id, row |-> old, dirty |-> b], row)
             m == DbRecord(d.channels, x, d.won, d.lost, d.failed)
  <1>1. d = e
    BY TablesParts
  <1>2. [e EXCEPT !.extra = x] = m
    BY SetExtra
  <1>3. NewExtra(d, x) = m
    <2> HIDE DEF e, m
    <2> QED  BY <1>1, <1>2 DEF NewExtra
  <1>4. s.id = id /\ s.row = row /\ s.dirty
    BY SetRowIs
  <1> HIDE DEF s
  <1>5. Destructed(m, s) = DbRecord(With(d.channels, s.id, s.row), x, d.won, d.lost, d.failed)
    BY <1>4, DestructedIs
  <1> HIDE DEF m
  <1> QED
    BY <1>3, <1>4, <1>5 DEF s

LEMMA CreateKeeps ==
    ASSUME NEW d, NEW h \in Nat, NEW C, TablesOK(d, h, C), NEW mv \in ChainMove,
           mv.kind = "create", mv.id \notin C
    PROVE  TablesOK(HandleCreateChannel(d, mv, h), h, C \cup {mv.id})
  <1> DEFINE r == [names |-> <<mv.name>>, count |-> 0, dispute |-> 0]
             e == [created |-> h, participants |-> 1]
             id == mv.id
             x == With(d.extra, id, e)
             s == SetRow([id |-> id, row |-> <<>>, dirty |-> TRUE], r)
             more == NewExtra(d, x)
  <1>1. mv.name \in Name /\ id \in ChannelId
    BY DEF ChainMove
  <1>2. r \in ChannelRow /\ e \in ExtraRow
    BY <1>1 DEF ChannelRow, ExtraRow, Names
  <1>3. RowOK(r, e, h)
    <2>1. Len(<<mv.name>>) = 1 /\ 0 <= h /\ h - h <= CHANNEL_TIMEOUT_BLOCKS
      BY TablesAssumption
    <2> QED  BY <2>1 DEF RowOK
  <1>4. d \in TablesType /\ DOMAIN d.channels \subseteq C
    BY DEF TablesOK, CountOK
  <1>5. ~IsChannel(d, mv)
    BY <1>4 DEF IsChannel
  <1> HIDE DEF r, e, id
  <1>6. Destructed(more, s) = DbRecord(With(d.channels, id, r), x, d.won, d.lost, d.failed)
    <2> HIDE DEF x
    <2> QED  BY <1>4, PutIs
  <1>7. HandleCreateChannel(d, mv, h) = CheckThat(Destructed(more, s), ~IsChannel(d, mv))
    <2> HIDE DEF IsChannel
    <2> QED  BY DEF HandleCreateChannel, NewExtra, r, e, id
  <1> HIDE DEF more, s
  <1>8. HandleCreateChannel(d, mv, h) = Destructed(more, s)
    BY <1>5, <1>7, CheckHolds
  <1>9. TablesOK(DbRecord(With(d.channels, id, r), x, d.won, d.lost, d.failed), h, C \cup {id})
    BY <1>1, <1>2, <1>3, PutKeeps DEF id
  <1> QED
    BY <1>6, <1>8, <1>9 DEF id

\* The board of a channel is replaced.
LEMMA RowKeeps ==
    ASSUME NEW d, NEW h, NEW C, TablesOK(d, h, C), NEW id \in DOMAIN d.channels,
           NEW r \in ChannelRow, NEW e \in ExtraRow, RowOK(r, e, h)
    PROVE  TablesOK(DbRecord(With(d.channels, id, r), With(d.extra, id, e), d.won, d.lost, d.failed),
                    h, C)
  <1>1. id \in ChannelId /\ id \in C
    BY RowsOf
  <1>2. C \cup {id} = C
    BY <1>1
  <1>3. TablesOK(DbRecord(With(d.channels, id, r), With(d.extra, id, e), d.won, d.lost, d.failed),
                 h, C \cup {id})
    BY <1>1, PutKeeps
  <1> QED
    BY <1>2, <1>3

LEMMA AppendToOne ==
    ASSUME NEW S, NEW a \in S, NEW b \in S
    PROVE  Append(<<a>>, b) = <<a, b>>
  <1> DEFINE s == Append(<<a>>, b)
             t == <<a, b>>
  <1>1. <<a>> \in Seq(S) /\ Len(<<a>>) = 1 /\ <<a>>[1] = a
    OBVIOUS
  <1>2. s \in Seq(S) /\ Len(s) = 2 /\ s[1] = a /\ s[2] = b
    BY <1>1, AppendProperties
  <1>3. t \in Seq(S) /\ Len(t) = 2 /\ t[1] = a /\ t[2] = b
    OBVIOUS
  <1> HIDE DEF s, t
  <1>4. s \in [1 .. 2 -> S] /\ t \in [1 .. 2 -> S]
    BY <1>2, <1>3, LenProperties
  <1>5. \A i \in 1 .. 2 : i = 1 \/ i = 2
    OBVIOUS
  <1>6. s = t
    BY <1>2, <1>3, <1>4, <1>5
  <1> QED
    BY <1>6 DEF s, t

LEMMA JoinKeeps ==
    ASSUME NEW d, NEW h, NEW C, TablesOK(d, h, C), NEW mv \in ChainMove
    PROVE  TablesOK(HandleJoinChannel(d, mv), h, C)
  <1>1. CASE ~ParseJoinChannelMove(d, mv)
    BY <1>1 DEF HandleJoinChannel
  <1>2. CASE ParseJoinChannelMove(d, mv)
    <2> DEFINE id == mv.id
               row == d.channels[id]
               n == row.names[1]
               r == [names |-> <<n, mv.name>>, count |-> 0, dispute |-> row.dispute]
               r2 == [row EXCEPT !.names = Append(@, mv.name), !.count = 0]
               ex == d.extra[id]
               e == [created |-> ex.created, participants |-> 2]
               x == With(d.extra, id, e)
               s == SetRow([id |-> id, row |-> row, dirty |-> FALSE], r2)
    <2>1. id \in DOMAIN d.channels /\ Len(row.names) = 1 /\ n # mv.name /\ mv.name \in Name
      BY <1>2 DEF ParseJoinChannelMove, IsChannel, ChainMove
    <2>2. /\ id \in DOMAIN d.extra /\ row \in ChannelRow /\ ex \in ExtraRow /\ RowOK(row, ex, h)
          /\ d \in TablesType /\ d.extra \in Rows(ExtraRow)
      BY <2>1, RowsOf, TablesParts DEF TablesOK
    <2>3. /\ row = [names |-> row.names, count |-> row.count, dispute |-> row.dispute]
          /\ row.dispute \in Nat /\ n \in Name /\ row.names = <<n>>
      BY <2>1, <2>2, NamesAre
    <2>4. r2 = r
      <3> DEFINE o == [names |-> <<n>>, count |-> row.count, dispute |-> row.dispute]
                 o1 == [o EXCEPT !.names = Append(@, mv.name)]
      <3>1. Append(<<n>>, mv.name) = <<n, mv.name>>
        BY <2>1, <2>3, AppendToOne
      <3>2. o1 = [names |-> <<n, mv.name>>, count |-> row.count, dispute |-> row.dispute]
        <4> HIDE DEF n, row
        <4> QED  BY <3>1
      <3>3. [o1 EXCEPT !.count = 0] = r
        <4> HIDE DEF n, row, o1
        <4> QED  BY <3>2
      <3>4. row = o
        BY <2>3
      <3>5. [o EXCEPT !.names = Append(@, mv.name), !.count = 0] = [o1 EXCEPT !.count = 0]
        <4> HIDE DEF o
        <4> QED  OBVIOUS
      <3> HIDE DEF row, o, r, o1
      <3> QED  BY <3>3, <3>4, <3>5
    <2>5. r \in ChannelRow
      <3>1. <<n, mv.name>> \in Names
        BY <2>1, <2>3 DEF Names, Pairs
      <3> HIDE DEF n
      <3> QED  BY <2>3, <3>1 DEF ChannelRow
    <2>6. e \in ExtraRow /\ ex = [created |-> ex.created, participants |-> ex.participants]
      BY <2>2 DEF ExtraRow
    <2>7. RowOK(r, e, h)
      <3>1. row.dispute <= h /\ row.dispute = 0
        <4>1. row.names \notin Pairs
          BY <2>1, Opponents
        <4> QED  BY <2>2, <4>1 DEF RowOK
      <3>2. Len(<<n, mv.name>>) = 2
        OBVIOUS
      <3> HIDE DEF n, row
      <3> QED  BY <3>1, <3>2 DEF RowOK
    <2>8. [d EXCEPT !.extra[mv.id].participants = 2] = NewExtra(d, x)
      <3>1. [ex EXCEPT !.participants = 2] = e
        <4> HIDE DEF ex
        <4> QED  BY <2>6
      <3>2. [d.extra EXCEPT ![id] = e] = x
        <4>1. d.extra \in [DOMAIN d.extra -> ExtraRow] /\ DOMAIN d.extra \cup {id} = DOMAIN d.extra
          BY <2>2, RowsAre
        <4> HIDE DEF e, id
        <4> QED  BY <2>2, <4>1 DEF With
      <3>3. [d EXCEPT !.extra[mv.id].participants = 2]
              = [d EXCEPT !.extra = [d.extra EXCEPT ![id] = [ex EXCEPT !.participants = 2]]]
        OBVIOUS
      <3> HIDE DEF ex, e, id, x
      <3> QED  BY <3>1, <3>2, <3>3 DEF NewExtra
    <2>9. HandleJoinChannel(d, mv) = Destructed([d EXCEPT !.extra[mv.id].participants = 2], s)
      <3>1. GetById(d, id) = [id |-> id, row |-> row, dirty |-> FALSE] /\ GetById(d, id).row = row
        BY DEF GetById
      <3> HIDE DEF row
      <3> QED  BY <1>2, <3>1 DEF HandleJoinChannel
    <2> HIDE DEF x, s, id, r, r2, e, row
    <2>10. HandleJoinChannel(d, mv) = Destructed(NewExtra(d, x), s)
      BY <2>8, <2>9
    <2>11. HandleJoinChannel(d, mv) = DbRecord(With(d.channels, id, r), x, d.won, d.lost, d.failed)
      BY <2>2, <2>4, <2>10, PutIs DEF s
    <2>12. TablesOK(DbRecord(With(d.channels, id, r), With(d.extra, id, e), d.won, d.lost, d.failed), h, C)
      BY <2>1, <2>5, <2>6, <2>7, RowKeeps
    <2> QED  BY <2>11, <2>12 DEF x
  <1> QED
    BY <1>1, <1>2

LEMMA AbortKeeps ==
    ASSUME NEW d, NEW h, NEW C, TablesOK(d, h, C), NEW mv
    PROVE  TablesOK(HandleAbortChannel(d, mv), h, C)
  BY DeleteKeeps DEF HandleAbortChannel, DeleteChannelById

\* A channel is closed with a winner.
LEMMA CloseKeeps ==
    ASSUME NEW d, NEW h, NEW C, TablesOK(d, h, C), NEW hdl, hdl.id \in DOMAIN d.channels,
           hdl.dirty \in BOOLEAN, hdl.row.names \in Pairs, NEW n \in Range(hdl.row.names)
    PROVE  TablesOK(CloseWon(d, hdl, n), h, C)
  <1>1. n \in Name /\ Opponent(hdl.row, n) \in Name
    BY Opponents
  <1>2. d \in TablesType
    BY DEF TablesOK
  <1> DEFINE id == hdl.id
             o == Opponent(hdl.row, n)
  <1> HIDE DEF id, o
  <1>3. CloseWon(d, hdl, n) =
          DbRecord(Without(d.channels, {id}), Without(d.extra, {id}),
                   OneMore(d.won, n), OneMore(d.lost, o), d.failed)
    BY <1>2, CloseWonIs DEF id, o
  <1>4. TablesOK(DbRecord(Without(d.channels, {id}), Without(d.extra, {id}),
                   OneMore(d.won, n), OneMore(d.lost, o), d.failed), h, C)
    BY <1>1, WonKeeps DEF id, o
  <1> QED
    BY <1>3, <1>4

LEMMA LossKeeps ==
    ASSUME NEW d, NEW h, NEW C, TablesOK(d, h, C), NEW mv
    PROVE  TablesOK(HandleDeclareLoss(d, mv), h, C)
  <1> DEFINE row == d.channels[mv.id]
             hdl == GetById(d, mv.id)
             ok == /\ mv.kind = "loss" /\ IsChannel(d, mv) /\ mv.valid
                   /\ Len(d.channels[mv.id].names) = 2
                   /\ mv.name \in Range(d.channels[mv.id].names)
  <1>1. CASE ok
    <2>1. mv.id \in DOMAIN d.channels /\ Len(row.names) = 2 /\ mv.name \in Range(row.names)
      BY <1>1 DEF IsChannel
    <2>2. row \in ChannelRow
      BY <2>1, RowsOf
    <2>3. row.names \in Pairs
      BY <2>1, <2>2, NamesAre
    <2>4. Opponent(row, mv.name) \in Range(row.names)
      BY <2>1, <2>3, Opponents
    <2>5. hdl.id = mv.id /\ hdl.row = row /\ hdl.dirty \in BOOLEAN
      BY DEF GetById
    <2>6. HandleDeclareLoss(d, mv) = CloseWon(d, hdl, Opponent(row, mv.name))
      BY <1>1 DEF HandleDeclareLoss
    <2> HIDE DEF hdl, row
    <2> QED  BY <2>1, <2>3, <2>4, <2>5, <2>6, CloseKeeps
  <1>2. CASE ~ok
    BY <1>2 DEF HandleDeclareLoss
  <1> QED
    BY <1>1, <1>2

\* A new board of a channel, which may have a winner.
LEMMA DoneKeeps ==
    ASSUME NEW d, NEW h \in Nat, NEW C, TablesOK(d, h, C), NEW id \in DOMAIN d.channels,
           NEW r, NEW n \in Nat, NEW t \in {0, h},
           d.channels[id].names \in Pairs,
           r = [names |-> d.channels[id].names, count |-> n, dispute |-> t],
           t # 0 => HasTurn(n)
    PROVE  LET hdl == SetRow(GetById(d, id), r)
           IN  /\ HasTurn(n) => TablesOK(Destructed(d, hdl), h, C)
               /\ TablesOK(CloseWon(d, hdl, Opponent(r, PlayerInTurn(r))), h, C)
  <1> DEFINE hdl == SetRow(GetById(d, id), r)
             row == d.channels[id]
             ex == d.extra[id]
  <1>1. /\ id \in DOMAIN d.extra /\ row \in ChannelRow /\ ex \in ExtraRow /\ RowOK(row, ex, h)
        /\ d \in TablesType /\ d.extra \in Rows(ExtraRow)
    BY RowsOf, TablesParts DEF TablesOK
  <1>2. r.names = row.names /\ r.count = n /\ r.dispute = t /\ r.names \in Pairs
    OBVIOUS
  <1>3. r \in ChannelRow
    <2>1. row.names \in Names /\ n \in Nat /\ t \in Nat
      BY DEF Names
    <2> HIDE DEF row
    <2>2. r = [names |-> row.names, count |-> n, dispute |-> t]
      BY DEF row
    <2> QED  BY <2>1, <2>2 DEF ChannelRow
  <1>4. RowOK(r, ex, h)
    BY <1>1, <1>2, Opponents DEF RowOK
  <1>5. hdl.id = id /\ hdl.row = r /\ hdl.dirty
    BY SetRowIs DEF GetById
  <1> HIDE DEF hdl, row, ex
  <1>6. PlayerInTurn(r) \in Range(r.names) /\ Opponent(r, PlayerInTurn(r)) \in Range(r.names)
    BY <1>2, Opponents
  <1>7. TablesOK(CloseWon(d, hdl, Opponent(r, PlayerInTurn(r))), h, C)
    BY <1>2, <1>5, <1>6, CloseKeeps
  <1>8. TablesOK(Destructed(d, hdl), h, C)
    <2> DEFINE e == DbRecord(d.channels, d.extra, d.won, d.lost, d.failed)
    <2>1. d = e
      BY <1>1, TablesParts
    <2>2. Destructed(e, hdl) = DbRecord(With(d.channels, id, r), d.extra, d.won, d.lost, d.failed)
      BY <1>5, DestructedIs
    <2>3. d.extra = With(d.extra, id, ex)
      <3>1. d.extra \in [DOMAIN d.extra -> ExtraRow] /\ DOMAIN d.extra \cup {id} = DOMAIN d.extra
        BY <1>1, RowsAre
      <3> QED  BY <3>1 DEF With, ex
    <2>4. TablesOK(DbRecord(With(d.channels, id, r), With(d.extra, id, ex), d.won, d.lost, d.failed), h, C)
      BY <1>1, <1>3, <1>4, RowKeeps
    <2>5. TablesOK(DbRecord(With(d.channels, id, r), d.extra, d.won, d.lost, d.failed), h, C)
      BY <2>3, <2>4
    <2> HIDE DEF e
    <2> QED  BY <2>1, <2>2, <2>5
  <1> QED
    BY <1>7, <1>8 DEF hdl

LEMMA DisputeResolutionKeeps ==
    ASSUME NEW d, NEW h \in Nat, NEW C, TablesOK(d, h, C), NEW mv \in ChainMove
    PROVE  TablesOK(HandleDisputeResolution(d, mv, h), h, C)
  <1> DEFINE hdl == GetById(d, mv.id)
             row == d.channels[mv.id]
             new == IF mv.kind = "dispute" THEN ProcessDispute(hdl.row, mv, h)
                                           ELSE ProcessResolution(hdl.row, mv)
             done(r) == IF HasTurn(r.count)
                          THEN Destructed(d, SetRow(hdl, r))
                          ELSE CloseWon(d, SetRow(hdl, r), Opponent(r, PlayerInTurn(r)))
             skip == \/ ~ParseDisputeResolutionMove(d, mv) \/ Len(hdl.row.names) # 2
                     \/ new = {}
             r == CHOOSE q \in new : TRUE
  <1>1. HandleDisputeResolution(d, mv, h) = IF skip THEN d ELSE done(r)
    BY DEF HandleDisputeResolution
  <1>2. CASE skip
    BY <1>1, <1>2
  <1>3. CASE ~skip
    <2>1. hdl.row = row
      BY DEF GetById
    <2>2. mv.id \in DOMAIN d.channels /\ Len(row.names) = 2 /\ new # {}
      BY <1>3, <2>1 DEF ParseDisputeResolutionMove, IsChannel
    <2>3. row \in ChannelRow /\ mv.count \in Nat
      BY <2>2, RowsOf DEF ChainMove
    <2>4. row.names \in Pairs /\ row = [names |-> row.names, count |-> row.count, dispute |-> row.dispute]
      BY <2>2, <2>3, NamesAre
    <2> DEFINE R(t) == [names |-> row.names, count |-> mv.count, dispute |-> t]
    <2>5. \A t : [row EXCEPT !.count = mv.count, !.dispute = t] = R(t)
      <3> SUFFICES ASSUME NEW t PROVE [row EXCEPT !.count = mv.count, !.dispute = t] = R(t)
        OBVIOUS
      <3> DEFINE o == [names |-> row.names, count |-> row.count, dispute |-> row.dispute]
                 o1 == [o EXCEPT !.count = mv.count]
      <3>1. o1 = [names |-> row.names, count |-> mv.count, dispute |-> row.dispute]
        <4> HIDE DEF row
        <4> QED  OBVIOUS
      <3>2. [o1 EXCEPT !.dispute = t] = R(t)
        <4> HIDE DEF row, o1
        <4> QED  BY <3>1
      <3>3. row = o
        BY <2>4
      <3>4. [o EXCEPT !.count = mv.count, !.dispute = t] = [o1 EXCEPT !.dispute = t]
        <4> HIDE DEF o
        <4> QED  OBVIOUS
      <3> HIDE DEF row, o, o1, R
      <3> QED  BY <3>2, <3>3, <3>4
    <2>6. \E t \in {0, h} : new = {R(t)} /\ (t # 0 => HasTurn(mv.count))
      <3> HIDE DEF row, R
      <3>1. CASE mv.kind = "dispute"
        <4>1. new = ProcessDispute(row, mv, h)
          BY <2>1, <3>1
        <4>2. new = {R(h)} /\ HasTurn(mv.count)
          <5> HIDE DEF new
          <5> QED  BY <2>2, <2>5, <4>1 DEF ProcessDispute
        <4> HIDE DEF new
        <4> QED  BY <4>2
      <3>2. CASE mv.kind # "dispute"
        <4>1. new = ProcessResolution(row, mv)
          BY <2>1, <3>2
        <4>2. new = {R(0)}
          <5> HIDE DEF new
          <5> QED  BY <2>2, <2>5, <4>1 DEF ProcessResolution
        <4> HIDE DEF new
        <4> QED  BY <4>2
      <3> QED  BY <3>1, <3>2
    <2>7. PICK t \in {0, h} : new = {R(t)} /\ (t # 0 => HasTurn(mv.count))
      BY <2>6
    <2>8. r = R(t)
      <3> HIDE DEF new, R
      <3> QED  BY <2>7
    <2>9. r.count = mv.count
      <3> HIDE DEF r, row
      <3> QED  BY <2>8
    <2>10. HandleDisputeResolution(d, mv, h) = done(r)
      <3> HIDE DEF skip, done, r
      <3> QED  BY <1>1, <1>3
    <2> HIDE DEF r, new, skip
    <2>11. /\ HasTurn(mv.count) => TablesOK(Destructed(d, SetRow(hdl, r)), h, C)
           /\ TablesOK(CloseWon(d, SetRow(hdl, r), Opponent(r, PlayerInTurn(r))), h, C)
      BY <2>2, <2>3, <2>4, <2>7, <2>8, DoneKeeps
    <2> HIDE DEF hdl
    <2> QED  BY <2>9, <2>10, <2>11
  <1> QED
    BY <1>2, <1>3

\* The channels that a move creates, and the first i moves of a block.
CreatedBy(mv) == IF mv.kind = "create" THEN {mv.id} ELSE {}
CreatedFirst(moves, i) == {moves[j].id : j \in {k \in 1 .. i : moves[k].kind = "create"}}

LEMMA HandleMoveKeeps ==
    ASSUME NEW d, NEW h \in Nat, NEW C, TablesOK(d, h, C), NEW mv \in ChainMove,
           CreatedBy(mv) \cap C = {}
    PROVE  TablesOK(HandleMove(d, mv, h), h, C \cup CreatedBy(mv))
  <1> DEFINE D == C \cup CreatedBy(mv)
  <1>1. TablesOK(HandleCreateChannel(d, mv, h), h, D)
    <2>1. CASE mv.kind = "create"
      BY <2>1, CreateKeeps DEF CreatedBy
    <2>2. CASE mv.kind # "create"
      <3>1. D = C /\ HandleCreateChannel(d, mv, h) = d
        BY <2>2 DEF CreatedBy, HandleCreateChannel
      <3> QED  BY <3>1
    <2> QED  BY <2>1, <2>2
  <1> HIDE DEF D
  <1> DEFINE d1 == HandleCreateChannel(d, mv, h)
             d2 == HandleJoinChannel(d1, mv)
             d3 == HandleAbortChannel(d2, mv)
             d4 == HandleDeclareLoss(d3, mv)
  <1>2. TablesOK(d2, h, D)
    <2> HIDE DEF d1
    <2> QED  BY <1>1, JoinKeeps DEF d1
  <1>3. TablesOK(d3, h, D)
    <2> HIDE DEF d2
    <2> QED  BY <1>2, AbortKeeps
  <1>4. TablesOK(d4, h, D)
    <2> HIDE DEF d3
    <2> QED  BY <1>3, LossKeeps
  <1>5. TablesOK(HandleDisputeResolution(d4, mv, h), h, D)
    <2> HIDE DEF d4
    <2> QED  BY <1>4, DisputeResolutionKeeps
  <1> QED
    BY <1>5 DEF HandleMove, D

LEMMA HandleMovesKeep ==
    ASSUME NEW d, NEW h \in Nat, NEW C, TablesOK(d, h, C), NEW moves \in MovesOfBlock,
           Creates(moves) \cap C = {}
    PROVE  TablesOK(HandleMoves(d, moves, h), h, C \cup Creates(moves))
  <1> DEFINE n == Len(moves)
             D == [i \in 0 .. n |-> C \cup CreatedFirst(moves, i)]
             R == [i \in 0 .. n |-> {q \in TablesType : TablesOK(q, h, D[i])}]
             step == [p \in TablesType \X (1 .. n) |->
                        IF p[1] \in R[p[2] - 1] THEN HandleMove(p[1], moves[p[2]], h) ELSE p[1]]
             Is(f) == f = [i \in 0 .. n |-> IF i = 0 THEN d ELSE HandleMove(f[i - 1], moves[i], h)]
             x == CHOOSE f : Is(f)
  <1>1. moves \in Seq(ChainMove)
    BY TablesAssumption
  <1>2. n \in Nat /\ \A i \in 1 .. n : moves[i] \in ChainMove
    BY <1>1, LenProperties, ElementOfSeq
  <1>3. DOMAIN moves = 1 .. n
    BY <1>1, LenProperties
  <1>4. Creates(moves) = CreatedFirst(moves, n)
    BY <1>3 DEF Creates, CreatedFirst, Range
  <1>5. HandleMoves(d, moves, h) = x[n]
    BY DEF HandleMoves
  <1>6. \A i \in 1 .. n : /\ i \in 0 .. n /\ i - 1 \in 0 .. n /\ i # 0 /\ i \notin 1 .. (i - 1)
                          /\ 1 .. i = (1 .. (i - 1)) \cup {i} /\ 1 .. i \subseteq 1 .. n
    BY <1>2
  <1>7. 0 \in 0 .. n /\ n \in 0 .. n /\ 1 .. 0 = {}
    BY <1>2
  <1>8. \A i \in 1 .. n : /\ D[i] = D[i - 1] \cup CreatedBy(moves[i])
                          /\ CreatedBy(moves[i]) \cap D[i - 1] = {}
    <2> SUFFICES ASSUME NEW i \in 1 .. n
                 PROVE  /\ CreatedFirst(moves, i) = CreatedFirst(moves, i - 1) \cup CreatedBy(moves[i])
                        /\ CreatedBy(moves[i]) \cap (C \cup CreatedFirst(moves, i - 1)) = {}
      BY <1>6
    <2>1. CreatedFirst(moves, i) = CreatedFirst(moves, i - 1) \cup CreatedBy(moves[i])
      BY <1>6 DEF CreatedFirst, CreatedBy
    <2>2. CreatedBy(moves[i]) \subseteq Creates(moves)
      BY <1>4 DEF CreatedFirst, CreatedBy
    <2>3. CreatedBy(moves[i]) \cap CreatedFirst(moves, i - 1) = {}
      <3> SUFFICES ASSUME moves[i].kind = "create", NEW j \in 1 .. (i - 1),
                          moves[j].kind = "create", moves[j].id = moves[i].id
                   PROVE  FALSE
        BY DEF CreatedFirst, CreatedBy
      <3>1. j \in 1 .. n
        BY <1>6
      <3>2. j = i
        BY <3>1, TablesAssumption DEF n
      <3> QED  BY <1>6, <3>2
    <2> QED  BY <2>1, <2>2, <2>3
  <1>9. D[0] = C /\ D[n] = C \cup Creates(moves)
    <2>1. CreatedFirst(moves, 0) = {}
      BY <1>7 DEF CreatedFirst
    <2> QED  BY <1>4, <1>7, <2>1
  <1>10. \A i \in 0 .. n : \A q : q \in R[i] <=> q \in TablesType /\ TablesOK(q, h, D[i])
    <2> HIDE DEF D
    <2> QED  OBVIOUS
  <1> HIDE DEF D, R
  <1>11. \A i \in 1 .. n : \A q \in R[i - 1] : HandleMove(q, moves[i], h) \in R[i]
    <2> SUFFICES ASSUME NEW i \in 1 .. n, NEW q \in R[i - 1]
                 PROVE  HandleMove(q, moves[i], h) \in R[i]
      OBVIOUS
    <2>1. TablesOK(q, h, D[i - 1])
      BY <1>6, <1>10
    <2>2. TablesOK(HandleMove(q, moves[i], h), h, D[i - 1] \cup CreatedBy(moves[i]))
      BY <1>2, <1>8, <2>1, HandleMoveKeeps
    <2>3. TablesOK(HandleMove(q, moves[i], h), h, D[i])
      BY <1>8, <2>2
    <2> QED  BY <1>6, <1>10, <2>3 DEF TablesOK
  <1>12. step \in [TablesType \X (1 .. n) -> TablesType]
    BY <1>6, <1>10, <1>11
  <1>13. \A i \in 1 .. n : \A q \in TablesType : q \in R[i - 1] => step[<<q, i>>] = HandleMove(q, moves[i], h)
    OBVIOUS
  <1>14. d \in TablesType /\ d \in R[0]
    BY <1>7, <1>9, <1>10 DEF TablesOK
  <1> HIDE DEF step, n
  <1>15. \E f : Taken(f, n, TablesType, d, step)
    BY <1>2, <1>12, <1>14, StepsTaken
  <1>16. PICK f : Taken(f, n, TablesType, d, step)
    BY <1>15
  <1>17. f \in [0 .. n -> TablesType] /\ f[0] = d /\ \A i \in 1 .. n : f[i] = step[<<f[i - 1], i>>]
    BY <1>16 DEF Taken
  <1>18. \A i \in 1 .. n : f[i - 1] \in R[i - 1] => f[i] = HandleMove(f[i - 1], moves[i], h)
    BY <1>6, <1>13, <1>17
  <1>19. \A i \in 0 .. n : f[i] \in R[i]
    <2>1. \A i \in 1 .. n : f[i - 1] \in R[i - 1] => f[i] \in R[i]
      BY <1>11, <1>18
    <2>2. f[0] \in R[0]
      BY <1>14, <1>17
    <2> QED  BY <1>2, <2>1, <2>2, StepsKeep
  <1>20. Is(f)
    <2>1. \A i \in 0 .. n : i = 0 \/ i \in 1 .. n
      BY <1>2
    <2>2. \A i \in 1 .. n : f[i] = HandleMove(f[i - 1], moves[i], h)
      BY <1>6, <1>18, <1>19
    <2> QED  BY <1>17, <2>1, <2>2
  <1>21. Is(x)
    <2> HIDE DEF Is
    <2> QED  BY <1>20
  <1> HIDE DEF x
  <1>22. x[0] = d /\ \A i \in 1 .. n : x[i] = HandleMove(x[i - 1], moves[i], h)
    BY <1>6, <1>7, <1>21
  <1>23. \A i \in 0 .. n : x[i] \in R[i]
    <2>1. \A i \in 1 .. n : x[i - 1] \in R[i - 1] => x[i] \in R[i]
      BY <1>11, <1>22
    <2>2. x[0] \in R[0]
      BY <1>14, <1>22
    <2> QED  BY <1>2, <2>1, <2>2, StepsKeep
  <1> QED
    BY <1>5, <1>7, <1>9, <1>10, <1>23

----------------------------------------------------------------------------
(* The end of a block.                                                     *)

LEMMA ExpireKeeps ==
    ASSUME NEW d, NEW h, NEW C, TablesOK(d, h, C), NEW id \in DOMAIN d.channels,
           d.channels[id].dispute # 0
    PROVE  /\ TablesOK(ExpireDispute(d, id), h, C)
           /\ ExpireDispute(d, id).channels = Without(d.channels, {id})
  <1> DEFINE row == d.channels[id]
             hdl == GetById(d, id)
             n == Opponent(row, PlayerInTurn(row))
  <1>1. row \in ChannelRow /\ RowOK(row, d.extra[id], h)
    BY RowsOf
  <1>2. row.names \in Pairs /\ HasTurn(row.count) /\ row.count \in Nat
    BY <1>1, NamesAre DEF RowOK
  <1>3. Len(row.names) = 2 /\ n \in Range(row.names)
    BY <1>2, Opponents
  <1>4. hdl.id = id /\ hdl.row = row /\ hdl.dirty \in BOOLEAN
    BY DEF GetById
  <1>5. ExpireDispute(d, id) = CloseWon(CheckThat(d, Len(row.names) = 2 /\ HasTurn(row.count)), hdl, n)
    BY DEF ExpireDispute
  <1>6. CheckThat(d, Len(row.names) = 2 /\ HasTurn(row.count)) = d
    BY <1>2, <1>3, CheckHolds
  <1> HIDE DEF hdl, n
  <1>7. ExpireDispute(d, id) = CloseWon(d, hdl, n)
    BY <1>5, <1>6
  <1>8. TablesOK(CloseWon(d, hdl, n), h, C)
    BY <1>2, <1>3, <1>4, CloseKeeps
  <1>9. CloseWon(d, hdl, n).channels = Without(d.channels, {id})
    <2>1. d \in TablesType
      BY DEF TablesOK
    <2>2. CloseWon(d, hdl, n) =
             DbRecord(Without(d.channels, {hdl.id}), Without(d.extra, {hdl.id}), OneMore(d.won, n),
                      OneMore(d.lost, Opponent(hdl.row, n)), d.failed)
      BY <1>4, <2>1, CloseWonIs
    <2>3. CloseWon(d, hdl, n).channels = Without(d.channels, {hdl.id})
      BY <2>2, DbFields
    <2> QED  BY <1>4, <2>3
  <1> QED
    BY <1>7, <1>8, <1>9

\* A finite set as a sequence.
LEMMA SetAsSequence ==
    ASSUME NEW S, IsFiniteSet(S)
    PROVE  LET s == SetToSeq(S)
           IN  /\ s \in Seq(S) /\ DOMAIN s = 1 .. Len(s)
               /\ \A i, j \in 1 .. Len(s) : s[i] = s[j] => i = j
               /\ S = {s[i] : i \in 1 .. Len(s)}
  <1> DEFINE n == Cardinality(S)
             s == SetToSeq(S)
  <1>1. n \in Nat /\ ExistsBijection(1 .. n, S)
    BY FS_CardinalityType
  <1>2. PICK f : f \in Bijection(1 .. n, S)
    BY <1>1 DEF ExistsBijection
  <1>3. f \in [1 .. n -> S] /\ IsInjective(f)
    BY <1>2 DEF Bijection, Injection, IsInjective
  <1>4. s \in [1 .. n -> S] /\ IsInjective(s)
    <2> HIDE DEF n
    <2> QED  BY <1>3 DEF SetToSeq, n
  <1> HIDE DEF s
  <1>5. s \in Seq(S) /\ Len(s) = n
    BY <1>1, <1>4, FunctionIsSequence
  <1>6. \A i, j \in 1 .. n : s[i] = s[j] => i = j
    BY <1>4 DEF IsInjective
  <1>7. s \in Injection(1 .. n, S)
    BY <1>4, <1>6 DEF Injection
  <1>8. s \in Surjection(1 .. n, S)
    <2>1. Cardinality(1 .. n) = n
      BY <1>1, FS_Interval
    <2> HIDE DEF n
    <2> QED  BY <1>7, <2>1, FS_Injection DEF n
  <1>9. S = {s[i] : i \in 1 .. n}
    BY <1>4, <1>8 DEF Surjection
  <1> QED
    BY <1>4, <1>5, <1>6, <1>9 DEF s

LEMMA ExpiryKeeps ==
    ASSUME NEW d, NEW h \in Nat, NEW C, TablesOK(d, h, C)
    PROVE  LET e == ProcessExpiredDisputes(d, h)
           IN  /\ TablesOK(e, h, C)
               /\ e.channels = Without(d.channels,
                                 QueryForDisputeHeight(d, (h - DISPUTE_BLOCKS) % Unsigned))
  <1> DEFINE Q == QueryForDisputeHeight(d, (h - DISPUTE_BLOCKS) % Unsigned)
             ids == SetToSeq(Q)
             n == Len(ids)
             gone == [i \in 0 .. n |-> {ids[j] : j \in 1 .. i}]
             R == [i \in 0 .. n |-> {q \in TablesType : /\ TablesOK(q, h, C)
                                                        /\ q.channels = Without(d.channels, gone[i])}]
             step == [p \in TablesType \X (1 .. n) |->
                        IF p[1] \in R[p[2] - 1] THEN ExpireDispute(p[1], ids[p[2]]) ELSE p[1]]
             Is(f) == f = [i \in 0 .. n |-> IF i = 0 THEN d ELSE ExpireDispute(f[i - 1], ids[i])]
             x == CHOOSE f : Is(f)
  <1>1. Q \in SUBSET DOMAIN d.channels /\ \A id \in Q : d.channels[id].dispute # 0
    BY DEF QueryForDisputeHeight
  <1>2. IsFiniteSet(Q)
    <2>1. IsFiniteSet(C) /\ Q \in SUBSET C
      BY <1>1 DEF TablesOK, CountOK
    <2> QED  BY <2>1, FS_Subset
  <1>3. ProcessExpiredDisputes(d, h) = x[n]
    BY DEF ProcessExpiredDisputes
  <1> HIDE DEF Q
  <1>4. /\ ids \in Seq(Q) /\ \A i, j \in 1 .. n : ids[i] = ids[j] => i = j
        /\ Q = {ids[i] : i \in 1 .. n}
    BY <1>2, SetAsSequence
  <1> HIDE DEF ids
  <1>5. n \in Nat /\ \A i \in 1 .. n : ids[i] \in Q
    BY <1>4, LenProperties
  <1>6. \A i \in 1 .. n : /\ i \in 0 .. n /\ i - 1 \in 0 .. n /\ i # 0 /\ i \notin 1 .. (i - 1)
                          /\ 1 .. i = (1 .. (i - 1)) \cup {i} /\ 1 .. i \subseteq 1 .. n
    BY <1>5
  <1>7. 0 \in 0 .. n /\ n \in 0 .. n /\ 1 .. 0 = {}
    BY <1>5
  <1>8. \A i \in 1 .. n : gone[i] = gone[i - 1] \cup {ids[i]} /\ ids[i] \notin gone[i - 1]
    <2> SUFFICES ASSUME NEW i \in 1 .. n
                 PROVE  /\ {ids[j] : j \in 1 .. i} = {ids[j] : j \in 1 .. (i - 1)} \cup {ids[i]}
                        /\ ids[i] \notin {ids[j] : j \in 1 .. (i - 1)}
      BY <1>6
    <2> DEFINE A == 1 .. (i - 1)
    <2>1. \A j \in A : j \in 1 .. n /\ j # i
      BY <1>6
    <2>2. 1 .. i = A \cup {i}
      BY <1>6
    <2> HIDE DEF A
    <2>3. {ids[j] : j \in A \cup {i}} = {ids[j] : j \in A} \cup {ids[i]}
      OBVIOUS
    <2>4. ids[i] \notin {ids[j] : j \in A}
      BY <1>4, <2>1
    <2> QED  BY <2>2, <2>3, <2>4 DEF A
  <1>9. gone[0] = {} /\ gone[n] = Q
    BY <1>4, <1>7
  <1>10. \A i \in 0 .. n : \A q : q \in R[i] <=> /\ q \in TablesType /\ TablesOK(q, h, C)
                                                /\ q.channels = Without(d.channels, gone[i])
    <2> HIDE DEF gone
    <2> QED  OBVIOUS
  <1> HIDE DEF gone, R
  <1>11. \A i \in 1 .. n : \A q \in R[i - 1] : ExpireDispute(q, ids[i]) \in R[i]
    <2> SUFFICES ASSUME NEW i \in 1 .. n, NEW q \in R[i - 1]
                 PROVE  ExpireDispute(q, ids[i]) \in R[i]
      OBVIOUS
    <2> DEFINE id == ids[i]
               g == gone[i - 1]
    <2>1. TablesOK(q, h, C) /\ q.channels = Without(d.channels, g)
      BY <1>6, <1>10
    <2>2. id \in Q /\ id \notin g /\ gone[i] = g \cup {id}
      BY <1>5, <1>8
    <2> HIDE DEF id, g
    <2>3. id \in DOMAIN q.channels /\ q.channels[id].dispute # 0
      BY <1>1, <2>1, <2>2 DEF Without
    <2>4. TablesOK(ExpireDispute(q, id), h, C) /\ ExpireDispute(q, id).channels = Without(q.channels, {id})
      BY <2>1, <2>3, ExpireKeeps
    <2>5. Without(Without(d.channels, g), {id}) = Without(d.channels, g \cup {id})
      BY DEF Without
    <2>6. ExpireDispute(q, id).channels = Without(d.channels, gone[i])
      BY <2>1, <2>2, <2>4, <2>5
    <2> QED  BY <1>6, <1>10, <2>4, <2>6 DEF TablesOK, id
  <1>12. step \in [TablesType \X (1 .. n) -> TablesType]
    BY <1>6, <1>10, <1>11
  <1>13. \A i \in 1 .. n : \A q \in TablesType : q \in R[i - 1] => step[<<q, i>>] = ExpireDispute(q, ids[i])
    OBVIOUS
  <1>14. d \in TablesType /\ d \in R[0]
    <2>1. d \in TablesType /\ d.channels \in Rows(ChannelRow)
      BY TablesParts DEF TablesOK
    <2>2. d.channels = Without(d.channels, {})
      BY <2>1, RowsAre DEF Without
    <2> QED  BY <1>7, <1>9, <1>10, <2>1, <2>2
  <1> HIDE DEF step, n
  <1>15. \E f : Taken(f, n, TablesType, d, step)
    BY <1>5, <1>12, <1>14, StepsTaken
  <1>16. PICK f : Taken(f, n, TablesType, d, step)
    BY <1>15
  <1>17. f \in [0 .. n -> TablesType] /\ f[0] = d /\ \A i \in 1 .. n : f[i] = step[<<f[i - 1], i>>]
    BY <1>16 DEF Taken
  <1>18. \A i \in 1 .. n : f[i - 1] \in R[i - 1] => f[i] = ExpireDispute(f[i - 1], ids[i])
    BY <1>6, <1>13, <1>17
  <1>19. \A i \in 0 .. n : f[i] \in R[i]
    <2>1. \A i \in 1 .. n : f[i - 1] \in R[i - 1] => f[i] \in R[i]
      BY <1>11, <1>18
    <2>2. f[0] \in R[0]
      BY <1>14, <1>17
    <2> QED  BY <1>5, <2>1, <2>2, StepsKeep
  <1>20. Is(f)
    <2>1. \A i \in 0 .. n : i = 0 \/ i \in 1 .. n
      BY <1>5
    <2>2. \A i \in 1 .. n : f[i] = ExpireDispute(f[i - 1], ids[i])
      BY <1>6, <1>18, <1>19
    <2> QED  BY <1>17, <2>1, <2>2
  <1>21. Is(x)
    <2> HIDE DEF Is
    <2> QED  BY <1>20
  <1> HIDE DEF x
  <1>22. x[0] = d /\ \A i \in 1 .. n : x[i] = ExpireDispute(x[i - 1], ids[i])
    BY <1>6, <1>7, <1>21
  <1>23. \A i \in 0 .. n : x[i] \in R[i]
    <2>1. \A i \in 1 .. n : x[i - 1] \in R[i - 1] => x[i] \in R[i]
      BY <1>11, <1>22
    <2>2. x[0] \in R[0]
      BY <1>14, <1>22
    <2> QED  BY <1>5, <2>1, <2>2, StepsKeep
  <1>24. TablesOK(x[n], h, C) /\ x[n].channels = Without(d.channels, Q)
    BY <1>7, <1>9, <1>10, <1>23
  <1> QED
    BY <1>3, <1>24 DEF Q

\* What a block leaves of disputes and of channels that wait.
BlockEnd(d, h) ==
    \A id \in DOMAIN d.channels :
       /\ d.channels[id].dispute \notin 1 .. ((h - DISPUTE_BLOCKS) % Unsigned)
       /\ Len(d.channels[id].names) = 1 => h - d.extra[id].created < CHANNEL_TIMEOUT_BLOCKS

LEMMA UpdateStateKeeps ==
    ASSUME NEW d, NEW h \in Nat, NEW C, TablesOK(d, h, C), NEW moves \in MovesOfBlock,
           Creates(moves) \cap C = {}
    PROVE  LET e == UpdateState(d, moves, h)
           IN  TablesOK(e, h, C \cup Creates(moves)) /\ BlockEnd(e, h)
  <1> DEFINE D == C \cup Creates(moves)
             d1 == HandleMoves(d, moves, h)
             d2 == ProcessExpiredDisputes(d1, h)
             m == (h - DISPUTE_BLOCKS) % Unsigned
             old == {id \in DOMAIN d2.extra : /\ d2.extra[id].participants < 2
                                              /\ d2.extra[id].created <= h - CHANNEL_TIMEOUT_BLOCKS}
             fine == \A id \in old : d2.extra[id] = [created |-> h - CHANNEL_TIMEOUT_BLOCKS,
                                                     participants |-> 1]
             e == TimeOutChannels(d2, h)
  <1>1. TablesOK(d1, h, D)
    BY HandleMovesKeep
  <1> HIDE DEF D, d1
  <1>2. TablesOK(d2, h, D) /\ d2.channels = Without(d1.channels, QueryForDisputeHeight(d1, m))
    BY <1>1, ExpiryKeeps
  <1>3. \A id \in DOMAIN d2.channels : d2.channels[id].dispute \notin 1 .. m
    BY <1>2 DEF Without, QueryForDisputeHeight
  <1>4. e = UpdateState(d, moves, h)
    BY DEF UpdateState, d1
  <1>5. e = IF h < CHANNEL_TIMEOUT_BLOCKS THEN d2 ELSE DeleteChannels(CheckThat(d2, fine), old)
    <2> HIDE DEF d2
    <2> QED  BY DEF TimeOutChannels
  <1> HIDE DEF d2, e, m
  <1>6. CHANNEL_TIMEOUT_BLOCKS \in Nat
    BY TablesAssumption
  <1>7. \A id \in DOMAIN d2.channels :
           /\ d2.extra[id].created \in Nat /\ d2.extra[id].participants \in {1, 2}
           /\ d2.extra[id] = [created |-> d2.extra[id].created, participants |-> d2.extra[id].participants]
           /\ Len(d2.channels[id].names) = d2.extra[id].participants
           /\ d2.extra[id].participants = 1 => h - d2.extra[id].created <= CHANNEL_TIMEOUT_BLOCKS
    <2> SUFFICES ASSUME NEW id \in DOMAIN d2.channels
                 PROVE  /\ d2.extra[id].created \in Nat /\ d2.extra[id].participants \in {1, 2}
                        /\ d2.extra[id] = [created |-> d2.extra[id].created,
                                           participants |-> d2.extra[id].participants]
                        /\ Len(d2.channels[id].names) = d2.extra[id].participants
                        /\ d2.extra[id].participants = 1
                              => h - d2.extra[id].created <= CHANNEL_TIMEOUT_BLOCKS
      OBVIOUS
    <2>1. d2.extra[id] \in ExtraRow /\ RowOK(d2.channels[id], d2.extra[id], h)
      BY <1>2, RowsOf
    <2> QED  BY <2>1 DEF ExtraRow, RowOK
  <1>8. DOMAIN d2.channels = DOMAIN d2.extra
    BY <1>2 DEF TablesOK, RowsOK
  <1>9. CASE h < CHANNEL_TIMEOUT_BLOCKS
    <2>1. e = d2
      BY <1>5, <1>9
    <2>2. ASSUME NEW id \in DOMAIN d2.channels
          PROVE  h - d2.extra[id].created < CHANNEL_TIMEOUT_BLOCKS
      <3> DEFINE a == d2.extra[id].created
      <3>1. a \in Nat
        BY <1>7
      <3> HIDE DEF a
      <3>2. h - a < CHANNEL_TIMEOUT_BLOCKS
        BY <1>6, <1>9, <3>1
      <3> QED  BY <3>2 DEF a
    <2>3. BlockEnd(d2, h)
      BY <1>3, <2>2 DEF BlockEnd, m
    <2> QED  BY <1>2, <1>4, <2>1, <2>3 DEF D
  <1>10. CASE ~(h < CHANNEL_TIMEOUT_BLOCKS)
    <2>1. fine
      <3> SUFFICES ASSUME NEW id \in old
                   PROVE  d2.extra[id] = [created |-> h - CHANNEL_TIMEOUT_BLOCKS, participants |-> 1]
        OBVIOUS
      <3>1. id \in DOMAIN d2.channels
        BY <1>8
      <3> DEFINE a == d2.extra[id].created
                 p == d2.extra[id].participants
      <3>2. /\ a \in Nat /\ p \in {1, 2} /\ p < 2 /\ a <= h - CHANNEL_TIMEOUT_BLOCKS
            /\ p = 1 => h - a <= CHANNEL_TIMEOUT_BLOCKS
            /\ d2.extra[id] = [created |-> a, participants |-> p]
        BY <1>7, <3>1
      <3> HIDE DEF a, p
      <3>3. p = 1 /\ a = h - CHANNEL_TIMEOUT_BLOCKS
        BY <1>6, <3>2
      <3> QED  BY <3>2, <3>3
    <2>2. \A id \in DOMAIN d2.channels \ old :
             Len(d2.channels[id].names) = 1 => h - d2.extra[id].created < CHANNEL_TIMEOUT_BLOCKS
      <3> SUFFICES ASSUME NEW id \in DOMAIN d2.channels \ old, Len(d2.channels[id].names) = 1
                   PROVE  h - d2.extra[id].created < CHANNEL_TIMEOUT_BLOCKS
        OBVIOUS
      <3> DEFINE a == d2.extra[id].created
                 p == d2.extra[id].participants
      <3>1. a \in Nat /\ p = 1 /\ id \in DOMAIN d2.extra
        BY <1>7, <1>8
      <3>2. ~(p < 2 /\ a <= h - CHANNEL_TIMEOUT_BLOCKS)
        BY <3>1
      <3> HIDE DEF a, p
      <3>3. h - a < CHANNEL_TIMEOUT_BLOCKS
        BY <1>6, <3>1, <3>2
      <3> QED  BY <3>3 DEF a
    <2> HIDE DEF fine, old
    <2>3. e = DeleteChannels(d2, old)
      BY <1>5, <1>10, <2>1, CheckHolds
    <2>4. TablesOK(e, h, D) /\ e.channels = Without(d2.channels, old) /\ e.extra = Without(d2.extra, old)
      BY <1>2, <2>3, DeleteKeeps
    <2>5. BlockEnd(e, h)
      BY <1>3, <1>8, <2>2, <2>4 DEF BlockEnd, Without, m
    <2> QED  BY <1>4, <2>4, <2>5 DEF D
  <1> QED
    BY <1>9, <1>10

----------------------------------------------------------------------------
(* The tables agree.                                                       *)

TablesInv ==
    height \in 0 .. LastHeight /\ TablesOK(db, height, created) /\ BlockEnd(db, height)

LEMMA ModSmall ==
    ASSUME NEW a \in Int, NEW u \in Nat, 0 <= a, a < u
    PROVE  a % u = a
  OBVIOUS

LEMMA ModNegative ==
    ASSUME NEW a \in Int, NEW u \in Nat, a < 0, 0 <= a + u
    PROVE  a % u = a + u
  OBVIOUS

\* The height at which a dispute must have been filed to be open still.
LEMMA DisputeHeight ==
    ASSUME NEW h \in 0 .. LastHeight
    PROVE  (h - DISPUTE_BLOCKS) % Unsigned =
             IF h >= DISPUTE_BLOCKS THEN h - DISPUTE_BLOCKS ELSE h - DISPUTE_BLOCKS + Unsigned
  <1> DEFINE a == h - DISPUTE_BLOCKS
  <1>1. a \in Int /\ Unsigned \in Nat /\ a < Unsigned /\ 0 <= a + Unsigned /\ (h >= DISPUTE_BLOCKS <=> 0 <= a)
    BY TablesAssumption
  <1> HIDE DEF a
  <1>2. CASE 0 <= a
    BY <1>1, <1>2, ModSmall DEF a
  <1>3. CASE a < 0
    BY <1>1, <1>3, ModNegative DEF a
  <1> QED
    BY <1>1, <1>2, <1>3

LEMMA TablesInvAgrees ==
    ASSUME TablesInv
    PROVE  TablesAgree
  <1> DEFINE m == (height - DISPUTE_BLOCKS) % Unsigned
  <1>1. /\ LastHeight \in Nat /\ DISPUTE_BLOCKS \in Nat /\ Unsigned \in Nat /\ DISPUTE_BLOCKS < Unsigned
        /\ height \in 0 .. LastHeight
    BY TablesAssumption DEF TablesInv
  <1>2. m = IF height >= DISPUTE_BLOCKS THEN height - DISPUTE_BLOCKS ELSE height - DISPUTE_BLOCKS + Unsigned
    BY <1>1, DisputeHeight
  <1> HIDE DEF m
  <1>3. TablesOK(db, height, created) /\ BlockEnd(db, height)
    BY DEF TablesInv
  <1>4. ASSUME NEW id \in DOMAIN db.channels
        PROVE  LET row == db.channels[id]
               IN  /\ Len(row.names) = db.extra[id].participants
                   /\ row.dispute # 0 => /\ Len(row.names) = 2 /\ HasTurn(row.count)
                                         /\ height - row.dispute < DISPUTE_BLOCKS
                                         /\ height >= DISPUTE_BLOCKS
                   /\ Len(row.names) = 1 => height - db.extra[id].created < CHANNEL_TIMEOUT_BLOCKS
    <2> DEFINE row == db.channels[id]
    <2>1. row \in ChannelRow /\ RowOK(row, db.extra[id], height)
      BY <1>3, RowsOf
    <2>2. row.dispute \in Nat /\ (row.names \in Pairs => Len(row.names) = 2)
      BY <2>1, NamesAre, Opponents
    <2>3. row.dispute \notin 1 .. m
      BY <1>3 DEF BlockEnd, m
    <2>4. Len(row.names) = 1 => height - db.extra[id].created < CHANNEL_TIMEOUT_BLOCKS
      BY <1>3 DEF BlockEnd
    <2> HIDE DEF row
    <2>5. row.dispute # 0 => height - row.dispute < DISPUTE_BLOCKS /\ height >= DISPUTE_BLOCKS
      <3>1. row.dispute <= height
        BY <2>1 DEF RowOK
      <3> QED  BY <1>1, <1>2, <2>2, <2>3, <3>1
    <2> QED  BY <2>1, <2>2, <2>4, <2>5 DEF RowOK, row
  <1>5. ~db.failed /\ DOMAIN db.channels = DOMAIN db.extra
    BY <1>3, TablesParts DEF TablesOK, RowsOK
  <1>6. Total(db.won) = Total(db.lost) /\ Total(db.won) <= Cardinality(created \ DOMAIN db.channels)
    BY <1>3 DEF TablesOK, CountOK
  <1> QED
    BY <1>4, <1>5, <1>6 DEF TablesAgree

LEMMA TablesInitInv ==
    ASSUME TablesInit
    PROVE  TablesInv
  <1> DEFINE z == [n \in Name |-> 0]
  <1>1. db = DbRecord(<<>>, <<>>, z, z, FALSE) /\ height = 0 /\ created = {}
    BY DEF TablesInit, EmptyTables, DbRecord
  <1>2. <<>> \in Rows(ChannelRow) /\ <<>> \in Rows(ExtraRow) /\ DOMAIN <<>> = {}
    <2>1. \A S : <<>> \in Seq(S) /\ Len(<<>>) = 0
      BY EmptySeq
    <2>2. 1 .. 0 = {}
      OBVIOUS
    <2>3. \A S : <<>> \in [{} -> S] /\ DOMAIN <<>> = {}
      BY <2>1, <2>2, LenProperties
    <2> QED  BY <2>3, AreRows
  <1>3. z \in [Name -> Nat] /\ Counted(z) = {}
    BY DEF Counted
  <1>4. IsFiniteSet(Counted(z)) /\ Total(z) = 0 /\ IsFiniteSet({}) /\ Cardinality({} \ DOMAIN <<>>) = 0
    BY <1>2, <1>3, FS_EmptySet DEF Total
  <1>5. RowsOK(<<>>, <<>>, 0) /\ CountOK(<<>>, z, z, {})
    BY <1>2, <1>4 DEF RowsOK, CountOK
  <1> HIDE DEF z
  <1>6. TablesOK(DbRecord(<<>>, <<>>, z, z, FALSE), 0, {})
    BY <1>2, <1>3, <1>5, TablesAreOK
  <1>7. db.channels = <<>>
    BY <1>1 DEF DbRecord
  <1>8. 0 \in 0 .. LastHeight
    BY TablesAssumption
  <1> QED
    BY <1>1, <1>2, <1>6, <1>7, <1>8 DEF TablesInv, BlockEnd

LEMMA TablesNextInv ==
    ASSUME TablesInv, [TablesNext]_tablesVars
    PROVE  TablesInv'
  <1>1. ASSUME NEW moves \in MovesOfBlock, AttachBlock(moves)
        PROVE  TablesInv'
    <2> DEFINE h == height + 1
    <2>1. height \in 0 .. LastHeight /\ height < LastHeight /\ LastHeight \in Nat
      BY <1>1, TablesAssumption DEF TablesInv, AttachBlock
    <2>2. h \in Nat /\ h \in 0 .. LastHeight
      BY <2>1
    <2>3. /\ Creates(moves) \cap created = {} /\ height' = h
          /\ db' = UpdateState(db, moves, h) /\ created' = created \cup Creates(moves)
      BY <1>1 DEF AttachBlock
    <2>4. TablesOK(db, h, created)
      <3>1. RowsOK(db.channels, db.extra, h)
        <4>1. RowsOK(db.channels, db.extra, height)
          BY DEF TablesInv, TablesOK
        <4> SUFFICES ASSUME NEW id \in DOMAIN db.channels
                     PROVE  RowOK(db.channels[id], db.extra[id], h)
          BY <4>1 DEF RowsOK
        <4>2. /\ db.channels[id] \in ChannelRow /\ db.extra[id] \in ExtraRow
              /\ RowOK(db.channels[id], db.extra[id], height)
          BY RowsOf DEF TablesInv
        <4>3. db.channels[id].dispute \in Nat /\ db.extra[id].created \in Nat
          BY <4>2 DEF ChannelRow, ExtraRow
        <4>4. db.extra[id].participants = 1 => height - db.extra[id].created < CHANNEL_TIMEOUT_BLOCKS
          BY <4>2 DEF TablesInv, BlockEnd, RowOK
        <4> QED  BY <2>1, <4>2, <4>3, <4>4, TablesAssumption DEF RowOK
      <3> QED  BY <3>1 DEF TablesInv, TablesOK
    <2> HIDE DEF h
    <2>5. TablesOK(db', h, created') /\ BlockEnd(db', h)
      BY <2>2, <2>3, <2>4, UpdateStateKeeps
    <2> QED  BY <2>2, <2>3, <2>5 DEF TablesInv
  <1>2. ASSUME NEW mv \in PendingOffers, AddPendingMove(mv)
        PROVE  TablesInv'
    BY <1>2 DEF AddPendingMove, TablesInv
  <1>3. CASE UNCHANGED tablesVars
    BY <1>3 DEF tablesVars, TablesInv
  <1> QED
    BY <1>1, <1>2, <1>3 DEF TablesNext

\* The two tables of the ships database stay in step, disputes and channels that
\* wait end in time, and every game is counted once for a winner and a loser,
\* for any blocks (ShipsLogic::UpdateState).
THEOREM TablesStayInStep == TablesSpec => []TablesAgree
  <1>1. TablesInv /\ [TablesNext]_tablesVars => TablesInv'
    BY TablesNextInv
  <1>2. TablesInit => TablesInv
    BY TablesInitInv
  <1>3. TablesInv => TablesAgree
    BY TablesInvAgrees
  <1> QED
    BY <1>1, <1>2, <1>3, PTL DEF TablesSpec

----------------------------------------------------------------------------
(* The pending state of the channels.                                      *)

\* The turn counts of a channel that moves prove and that are ahead of the
\* confirmed one.
Ahead(moves, id) ==
    {mv.count : mv \in {m \in moves : /\ m.kind \in {"dispute", "resolution"}
                                      /\ m.id = id /\ m.valid
                                      /\ Len(db.channels[id].names) = 2
                                      /\ m.count > db.channels[id].count}}

Waiting == {id \in DOMAIN db.channels : Len(db.channels[id].names) = 1}

\* The table c has the best of the proofs.
BestOf(c, moves) ==
    /\ DOMAIN c = {id \in DOMAIN db.channels : Ahead(moves, id) # {}}
    /\ \A id \in DOMAIN c : c[id] \in Ahead(moves, id) /\ \A n \in Ahead(moves, id) : n <= c[id]

PendingRecord(c, j, a, s) == [create |-> c, join |-> j, abort |-> a, channels |-> s]

PendingOK ==
    /\ pending = PendingRecord(pending.create, pending.join, pending.abort, pending.channels)
    /\ offered \subseteq ChainMove
    /\ BestOf(pending.channels, offered)
    /\ \A e \in pending.join : e.id \in Waiting
    /\ pending.abort \subseteq Waiting

LEMMA PendingOKIsBest ==
    ASSUME TablesInv, PendingOK
    PROVE  PendingIsBest
  <1>1. ASSUME NEW id \in DOMAIN pending.channels
        PROVE  pending.channels[id] = Max(Ahead(offered, id))
    <2> DEFINE S == Ahead(offered, id)
               v == pending.channels[id]
    <2>1. v \in S /\ \A n \in S : n <= v
      BY DEF PendingOK, BestOf
    <2>2. \A n \in S : n \in Nat
      BY DEF PendingOK, Ahead, ChainMove
    <2> HIDE DEF S, v
    <2>3. \A x \in S : (\A y \in S : x >= y) => x = v
      BY <2>1, <2>2
    <2>4. \A y \in S : v >= y
      BY <2>1, <2>2
    <2>5. Max(S) = v
      BY <2>1, <2>3, <2>4 DEF Max
    <2> QED  BY <2>5 DEF S, v
  <1>2. DOMAIN pending.channels = {id \in DOMAIN db.channels : Ahead(offered, id) # {}}
    BY DEF PendingOK, BestOf
  <1> QED
    BY <1>1, <1>2 DEF PendingOK, PendingIsBest, Ahead, Waiting

\* What a pending move does to the pending state.
LEMMA PendingCases ==
    ASSUME NEW p, NEW d, NEW mv
    PROVE  LET q == AddPendingMoveUnsafe(p, d, mv)
           IN  \/ mv.kind = "create" /\ q = [p EXCEPT !.create = @ \cup {Entry(mv)}]
               \/ ParseJoinChannelMove(d, mv) /\ q = [p EXCEPT !.join = @ \cup {Entry(mv)}]
               \/ ParseAbortChannelMove(d, mv) /\ q = [p EXCEPT !.abort = @ \cup {mv.id}]
               \/ /\ ParseDisputeResolutionMove(d, mv)
                  /\ q = AddPendingStateProof(p, d.channels[mv.id], mv)
               \/ ~ParseDisputeResolutionMove(d, mv) /\ q = p
  <1> DEFINE q == AddPendingMoveUnsafe(p, d, mv)
  <1>1. CASE mv.kind = "create"
    <2>1. ~ParseJoinChannelMove(d, mv) /\ ~ParseAbortChannelMove(d, mv) /\ ~ParseDisputeResolutionMove(d, mv)
      BY <1>1 DEF ParseJoinChannelMove, ParseAbortChannelMove, ParseDisputeResolutionMove
    <2>2. q = [p EXCEPT !.create = @ \cup {Entry(mv)}]
      BY <1>1, <2>1, Zenon DEF AddPendingMoveUnsafe
    <2> QED  BY <1>1, <2>2
  <1>2. CASE ParseJoinChannelMove(d, mv)
    <2>1. mv.kind # "create" /\ ~ParseAbortChannelMove(d, mv) /\ ~ParseDisputeResolutionMove(d, mv)
      BY <1>2 DEF ParseJoinChannelMove, ParseAbortChannelMove, ParseDisputeResolutionMove
    <2>2. q = [p EXCEPT !.join = @ \cup {Entry(mv)}]
      BY <1>2, <2>1, Zenon DEF AddPendingMoveUnsafe
    <2> QED  BY <1>2, <2>2
  <1>3. CASE ParseAbortChannelMove(d, mv)
    <2>1. mv.kind # "create" /\ ~ParseJoinChannelMove(d, mv) /\ ~ParseDisputeResolutionMove(d, mv)
      BY <1>3 DEF ParseJoinChannelMove, ParseAbortChannelMove, ParseDisputeResolutionMove
    <2>2. q = [p EXCEPT !.abort = @ \cup {mv.id}]
      BY <1>3, <2>1, Zenon DEF AddPendingMoveUnsafe
    <2> QED  BY <1>3, <2>2
  <1>4. CASE ParseDisputeResolutionMove(d, mv)
    <2>1. mv.kind # "create" /\ ~ParseJoinChannelMove(d, mv) /\ ~ParseAbortChannelMove(d, mv)
      BY <1>4 DEF ParseJoinChannelMove, ParseAbortChannelMove, ParseDisputeResolutionMove
    <2>2. q = AddPendingStateProof(p, d.channels[mv.id], mv)
      BY <1>4, <2>1, Zenon DEF AddPendingMoveUnsafe
    <2> QED  BY <1>4, <2>2
  <1>5. CASE /\ mv.kind # "create" /\ ~ParseJoinChannelMove(d, mv) /\ ~ParseAbortChannelMove(d, mv)
             /\ ~ParseDisputeResolutionMove(d, mv)
    <2>1. q = p
      BY <1>5, Zenon DEF AddPendingMoveUnsafe
    <2> QED  BY <1>5, <2>1
  <1> QED
    BY <1>1, <1>2, <1>3, <1>4, <1>5

\* A dispute or resolution counts for its channel alone, and only if its proof
\* is ahead.
LEMMA AheadAdds ==
    ASSUME NEW moves, NEW mv, NEW id
    PROVE  Ahead(moves \cup {mv}, id) =
             Ahead(moves, id) \cup
               (IF /\ mv.kind \in {"dispute", "resolution"} /\ mv.id = id /\ mv.valid
                   /\ Len(db.channels[id].names) = 2 /\ mv.count > db.channels[id].count
                THEN {mv.count} ELSE {})
  BY DEF Ahead

LEMMA BestOfSame ==
    ASSUME NEW c, NEW moves, NEW mv, BestOf(c, moves), ~ParseDisputeResolutionMove(db, mv)
    PROVE  BestOf(c, moves \cup {mv})
  <1>1. ASSUME NEW id \in DOMAIN db.channels
        PROVE  Ahead(moves \cup {mv}, id) = Ahead(moves, id)
    <2>1. ~(mv.kind \in {"dispute", "resolution"} /\ mv.id = id)
      BY DEF ParseDisputeResolutionMove, IsChannel
    <2> QED  BY <2>1 DEF Ahead
  <1>2. DOMAIN c \subseteq DOMAIN db.channels
    BY DEF BestOf
  <1> QED
    BY <1>1, <1>2 DEF BestOf

LEMMA StateProofBest ==
    ASSUME TablesInv, PendingOK, NEW mv \in ChainMove, ParseDisputeResolutionMove(db, mv)
    PROVE  LET q == AddPendingStateProof(pending, db.channels[mv.id], mv)
           IN  \E s : /\ q = PendingRecord(pending.create, pending.join, pending.abort, s)
                      /\ BestOf(s, offered \cup {mv})
  <1> DEFINE id == mv.id
             row == db.channels[id]
             n == mv.count
             s == pending.channels
             proven == IF Len(row.names) = 2 THEN n ELSE 0
             before == IF id \in DOMAIN s THEN s[id] ELSE ParsedTurnCount(row)
             q == AddPendingStateProof(pending, row, mv)
             all == offered \cup {mv}
             good == mv.valid /\ Len(row.names) = 2 /\ n > row.count
  <1>1. id \in DOMAIN db.channels /\ mv.kind \in {"dispute", "resolution"} /\ n \in Nat
    BY DEF ParseDisputeResolutionMove, IsChannel, ChainMove
  <1>2. row.count \in Nat
    <2>1. row \in ChannelRow
      BY <1>1, RowsOf DEF TablesInv
    <2> QED  BY <2>1, NamesAre
  <1>3. pending = PendingRecord(pending.create, pending.join, pending.abort, s) /\ BestOf(s, offered)
    BY DEF PendingOK
  <1>4. \A i : i # id => Ahead(all, i) = Ahead(offered, i)
    BY DEF Ahead
  <1>5. good => Ahead(all, id) = Ahead(offered, id) \cup {n}
    BY <1>1 DEF Ahead
  <1>6. ~good => Ahead(all, id) = Ahead(offered, id)
    BY DEF Ahead
  <1>7. \A i : \A k \in Ahead(offered, i) : k \in Nat /\ k > db.channels[i].count /\ Len(db.channels[i].names) = 2
    BY DEF Ahead, PendingOK, ChainMove
  <1>8. /\ DOMAIN s = {i \in DOMAIN db.channels : Ahead(offered, i) # {}}
        /\ \A i \in DOMAIN s : s[i] \in Ahead(offered, i) /\ \A k \in Ahead(offered, i) : k <= s[i]
    BY <1>3 DEF BestOf
  <1>9. q = IF mv.valid /\ proven > before THEN [pending EXCEPT !.channels = With(s, id, proven)]
                                           ELSE pending
    BY DEF AddPendingStateProof
  <1>10. id \in DOMAIN s => s[id] \in Nat /\ s[id] > row.count /\ Len(row.names) = 2
    BY <1>7, <1>8
  <1> HIDE DEF row, n, all, s, id, good
  <1>11. CASE mv.valid /\ proven > before
    <2>1. Len(row.names) = 2
      <3> SUFFICES ASSUME Len(row.names) # 2 PROVE FALSE
        OBVIOUS
      <3>1. proven = 0 /\ before = 0
        BY <1>10 DEF ParsedTurnCount
      <3> QED  BY <1>11, <3>1
    <2>2. proven = n
      BY <2>1
    <2>3. n > row.count /\ (id \in DOMAIN s => n > s[id])
      <3>1. ParsedTurnCount(row) = row.count
        BY <2>1 DEF ParsedTurnCount
      <3> QED  BY <1>1, <1>2, <1>10, <1>11, <2>2, <3>1
    <2>4. good
      BY <1>11, <2>1, <2>3 DEF good
    <2> DEFINE s2 == With(s, id, n)
    <2>5. DOMAIN s2 = DOMAIN s \cup {id} /\ s2[id] = n /\ \A i \in DOMAIN s : i # id => s2[i] = s[i]
      BY DEF With
    <2>6. q = PendingRecord(pending.create, pending.join, pending.abort, s2)
      <3> DEFINE p == PendingRecord(pending.create, pending.join, pending.abort, s)
      <3>1. [p EXCEPT !.channels = s2] = PendingRecord(pending.create, pending.join, pending.abort, s2)
        <4> HIDE DEF s2
        <4> QED  BY DEF PendingRecord
      <3>2. q = [pending EXCEPT !.channels = s2]
        <4> HIDE DEF q, before
        <4> QED  BY <1>9, <1>11, <2>2
      <3>3. pending = p
        BY <1>3
      <3> HIDE DEF p, s2, q
      <3> QED  BY <3>1, <3>2, <3>3
    <2> HIDE DEF s2, q
    <2>7. BestOf(s2, all)
      <3>1. DOMAIN s2 = {i \in DOMAIN db.channels : Ahead(all, i) # {}}
        BY <1>1, <1>4, <1>5, <1>8, <2>4, <2>5 DEF id
      <3>2. \A k \in Ahead(offered, id) : k <= n
        <4> SUFFICES ASSUME NEW k \in Ahead(offered, id) PROVE k <= n
          OBVIOUS
        <4>1. id \in DOMAIN s
          BY <1>1, <1>8 DEF id
        <4>2. k <= s[id] /\ k \in Nat
          BY <1>7, <1>8, <4>1
        <4> QED  BY <1>1, <1>10, <2>3, <4>1, <4>2 DEF n
      <3>3. n <= n
        BY <1>1 DEF n
      <3>4. s2[id] \in Ahead(all, id) /\ \A k \in Ahead(all, id) : k <= s2[id]
        BY <1>5, <2>4, <2>5, <3>2, <3>3
      <3>5. \A i \in DOMAIN s2 : i # id => s2[i] \in Ahead(all, i) /\ \A k \in Ahead(all, i) : k <= s2[i]
        BY <1>4, <1>8, <2>5
      <3> QED  BY <3>1, <3>4, <3>5 DEF BestOf
    <2> QED  BY <2>6, <2>7 DEF q, all, id, row
  <1>12. CASE ~(mv.valid /\ proven > before)
    <2>1. q = pending
      <3> HIDE DEF q, proven, before
      <3> QED  BY <1>9, <1>12
    <2>2. CASE good
      <3>1. proven = n /\ ParsedTurnCount(row) = row.count /\ n > row.count
        BY <2>2 DEF good, ParsedTurnCount
      <3>2. id \in DOMAIN s /\ n <= s[id]
        BY <1>1, <1>2, <1>10, <1>12, <2>2, <3>1 DEF good, n
      <3>3. DOMAIN s = {i \in DOMAIN db.channels : Ahead(all, i) # {}}
        BY <1>4, <1>5, <1>8, <2>2, <3>2
      <3>4. s[id] \in Ahead(all, id) /\ \A k \in Ahead(all, id) : k <= s[id]
        BY <1>5, <1>8, <2>2, <3>2
      <3>5. \A i \in DOMAIN s : i # id => s[i] \in Ahead(all, i) /\ \A k \in Ahead(all, i) : k <= s[i]
        BY <1>4, <1>8
      <3>6. BestOf(s, all)
        BY <3>3, <3>4, <3>5 DEF BestOf
      <3> HIDE DEF q
      <3> QED  BY <1>3, <2>1, <3>6 DEF q, all, id, row
    <2>3. CASE ~good
      <3>1. \A i : Ahead(all, i) = Ahead(offered, i)
        BY <1>4, <1>6, <2>3
      <3>2. BestOf(s, all)
        BY <1>8, <3>1 DEF BestOf
      <3> HIDE DEF q
      <3> QED  BY <1>3, <2>1, <3>2 DEF q, all, id, row
    <2> QED  BY <2>2, <2>3
  <1> QED
    BY <1>11, <1>12

LEMMA NoDomain ==
    DOMAIN <<>> = {}
  <1>1. <<>> \in Seq({}) /\ Len(<<>>) = 0 /\ 1 .. 0 = {}
    BY EmptySeq
  <1> QED
    BY <1>1, LenProperties

LEMMA PendingInitOK ==
    ASSUME TablesInit
    PROVE  PendingOK
  <1>1. pending = NothingPending /\ offered = {}
    BY DEF TablesInit
  <1>2. /\ pending.join = {} /\ pending.abort = {} /\ pending.channels = <<>>
        /\ pending = PendingRecord(pending.create, pending.join, pending.abort, pending.channels)
    BY <1>1 DEF NothingPending, PendingRecord
  <1>3. BestOf(pending.channels, offered)
    BY <1>1, <1>2, NoDomain DEF BestOf, Ahead
  <1> QED
    BY <1>1, <1>2, <1>3 DEF PendingOK

LEMMA PendingNextOK ==
    ASSUME TablesInv, PendingOK, [TablesNext]_tablesVars
    PROVE  PendingOK'
  <1>1. ASSUME NEW moves \in MovesOfBlock, AttachBlock(moves)
        PROVE  PendingOK'
    <2>1. pending' = NothingPending /\ offered' = {}
      BY <1>1 DEF AttachBlock
    <2>2. /\ pending' = PendingRecord({}, {}, {}, <<>>)
          /\ pending'.join = {} /\ pending'.abort = {} /\ pending'.channels = <<>>
          /\ pending' = PendingRecord(pending'.create, pending'.join, pending'.abort, pending'.channels)
      BY <2>1 DEF NothingPending, PendingRecord
    <2>3. BestOf(pending.channels, offered)'
      BY <2>1, <2>2, NoDomain DEF BestOf, Ahead
    <2> QED  BY <2>1, <2>2, <2>3 DEF PendingOK
  <1>2. ASSUME NEW mv \in PendingOffers, AddPendingMove(mv)
        PROVE  PendingOK'
    <2>1. /\ mv \in ChainMove /\ db' = db /\ offered' = offered \cup {mv}
          /\ pending' = AddPendingMoveUnsafe(pending, db, mv)
      BY <1>2, TablesAssumption DEF AddPendingMove
    <2> DEFINE c == pending.create
               j == pending.join
               a == pending.abort
               s == pending.channels
               all == offered \cup {mv}
               Fine(c2, j2, a2, s2) ==
                  /\ pending' = PendingRecord(c2, j2, a2, s2) /\ BestOf(s2, all)
                  /\ \A e \in j2 : e.id \in Waiting
                  /\ a2 \subseteq Waiting
    <2>2. /\ pending = PendingRecord(c, j, a, s) /\ BestOf(s, offered)
          /\ (\A e \in j : e.id \in Waiting) /\ a \subseteq Waiting /\ all \subseteq ChainMove
      BY <2>1 DEF PendingOK
    <2>3. ~ParseDisputeResolutionMove(db, mv) => BestOf(s, all)
      BY <2>2, BestOfSame
    <2> HIDE DEF c, j, a, s, all
    <2> DEFINE e == Entry(mv)
    <2>4. \E c2, j2, a2, s2 : Fine(c2, j2, a2, s2)
      <3>1. CASE mv.kind = "create" /\ pending' = [pending EXCEPT !.create = @ \cup {e}]
        <4>1. pending' = PendingRecord(c \cup {e}, j, a, s)
          <5> HIDE DEF e
          <5> QED  BY <2>2, <3>1 DEF PendingRecord
        <4>2. ~ParseDisputeResolutionMove(db, mv)
          BY <3>1 DEF ParseDisputeResolutionMove
        <4>3. Fine(c \cup {e}, j, a, s)
          BY <2>2, <2>3, <4>1, <4>2
        <4> HIDE DEF Fine
        <4> QED  BY <4>3
      <3>2. CASE ParseJoinChannelMove(db, mv) /\ pending' = [pending EXCEPT !.join = @ \cup {e}]
        <4>1. pending' = PendingRecord(c, j \cup {e}, a, s)
          <5> HIDE DEF e
          <5> QED  BY <2>2, <3>2 DEF PendingRecord
        <4>2. ~ParseDisputeResolutionMove(db, mv) /\ e.id \in Waiting
          BY <3>2 DEF ParseDisputeResolutionMove, ParseJoinChannelMove, IsChannel, Waiting, Entry
        <4>3. Fine(c, j \cup {e}, a, s)
          BY <2>2, <2>3, <4>1, <4>2
        <4> HIDE DEF Fine
        <4> QED  BY <4>3
      <3>3. CASE ParseAbortChannelMove(db, mv) /\ pending' = [pending EXCEPT !.abort = @ \cup {mv.id}]
        <4>1. pending' = PendingRecord(c, j, a \cup {mv.id}, s)
          BY <2>2, <3>3 DEF PendingRecord
        <4>2. ~ParseDisputeResolutionMove(db, mv) /\ mv.id \in Waiting
          BY <3>3 DEF ParseDisputeResolutionMove, ParseAbortChannelMove, IsChannel, Waiting
        <4>3. Fine(c, j, a \cup {mv.id}, s)
          BY <2>2, <2>3, <4>1, <4>2
        <4> HIDE DEF Fine
        <4> QED  BY <4>3
      <3>4. CASE /\ ParseDisputeResolutionMove(db, mv)
                 /\ pending' = AddPendingStateProof(pending, db.channels[mv.id], mv)
        <4>1. PICK s2 : /\ pending' = PendingRecord(c, j, a, s2)
                        /\ BestOf(s2, all)
          BY <2>1, <3>4, StateProofBest DEF c, j, a, all
        <4>2. Fine(c, j, a, s2)
          BY <2>2, <4>1
        <4> HIDE DEF Fine
        <4> QED  BY <4>2
      <3>5. CASE ~ParseDisputeResolutionMove(db, mv) /\ pending' = pending
        <4>1. Fine(c, j, a, s)
          BY <2>2, <2>3, <3>5
        <4> HIDE DEF Fine
        <4> QED  BY <4>1
      <3> QED  BY <2>1, <3>1, <3>2, <3>3, <3>4, <3>5, PendingCases
    <2>5. PICK c2, j2, a2, s2 : Fine(c2, j2, a2, s2)
      BY <2>4
    <2>6. pending'.create = c2 /\ pending'.join = j2 /\ pending'.abort = a2 /\ pending'.channels = s2
      BY <2>5 DEF PendingRecord
    <2>7. offered' = all
      BY <2>1 DEF all
    <2>8. BestOf(pending.channels, offered)' /\ Waiting' = Waiting
      BY <2>1, <2>5, <2>6, <2>7 DEF BestOf, Ahead, Waiting
    <2> QED  BY <2>2, <2>5, <2>6, <2>7, <2>8 DEF PendingOK
  <1>3. CASE UNCHANGED tablesVars
    BY <1>3 DEF tablesVars, PendingOK, BestOf, Ahead, Waiting
  <1> QED
    BY <1>1, <1>2, <1>3 DEF TablesNext

\* The pending state of a channel is the best one that a pending dispute or
\* resolution proves, if that is ahead of the confirmed one, for any pending
\* moves in any order (ShipsPending::AddPendingMoveUnsafe).
THEOREM PendingStaysBest == TablesSpec => []PendingIsBest
  <1>1. TablesInv /\ PendingOK /\ [TablesNext]_tablesVars => TablesInv' /\ PendingOK'
    BY TablesNextInv, PendingNextOK
  <1>2. TablesInit => TablesInv /\ PendingOK
    BY TablesInitInv, PendingInitOK
  <1>3. TablesInv /\ PendingOK => PendingIsBest
    BY PendingOKIsBest
  <1> QED
    BY <1>1, <1>2, <1>3, PTL DEF TablesSpec
=============================================================================
