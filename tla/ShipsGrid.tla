------------------------------ MODULE ShipsGrid ------------------------------
(***************************************************************************)
(* Coordinates and grids of the ships game.  A grid is the set of the      *)
(* indices of its cells whose bit is set; the real board has Side = 8 and  *)
(* ships 4 of size 2, 2 of size 3 and 1 of size 4.                         *)
(***************************************************************************)
EXTENDS Integers, Sequences, FiniteSets, FiniteSetsExt

CONSTANTS
    Side,
    AvailableShips      \* [size -> number]

ASSUME GridAssumption ==
    /\ Side \in Nat \ {0}
    /\ \A n \in DOMAIN AvailableShips : n \in Nat \ {0} /\ AvailableShips[n] \in Nat \ {0}

----------------------------------------------------------------------------
(* Coord.                                                                  *)

Cells == 0..(Side * Side - 1)

\* Out-of-board indices give coordinates that are not on the board.
Coord(ind) == [row |-> ind \div Side, column |-> ind % Side]
IsOnBoard(c) == c.row \in 0..(Side - 1) /\ c.column \in 0..(Side - 1)
GetIndex(c) == c.row * Side + c.column

LEFT == [row |-> 0, column |-> -1]
RIGHT == [row |-> 0, column |-> 1]
UP == [row |-> -1, column |-> 0]
DOWN == [row |-> 1, column |-> 0]

Plus(c, d) == [row |-> c.row + d.row, column |-> c.column + d.column]
Minus(c, d) == [row |-> c.row - d.row, column |-> c.column - d.column]

----------------------------------------------------------------------------
(* Grid.                                                                   *)

CountOnes(g) == Cardinality(g)

TotalShipCells ==
    Cardinality(UNION {{n} \X (1..n) \X (1..AvailableShips[n]) : n \in DOMAIN AvailableShips})

\* The characters of a grid in rows, and back; anything but the right number
\* of 'x' and '.' (and blanks, which the conversion skips) is refused.
GridToString(g) == [i \in 1..(Side * Side) |-> IF i - 1 \in g THEN "x" ELSE "."]

GridFromString(str) ==
    LET data == SelectSeq(str, LAMBDA ch : ch # " ")
    IN  IF Len(data) = Side * Side /\ \A i \in DOMAIN data : data[i] \in {"x", "."}
        THEN {{i \in Cells : data[i + 1] = "x"}}
        ELSE {}

\* Whether the replies "hit" are those that the position implies.
VerifyPositionForAnswers(position, targeted, hits) == position \cap targeted = hits

HasShip(g, c) == IsOnBoard(c) /\ GetIndex(c) \in g

\* How far a ship reaches from its first cell.
ShipSize(g, c, dir) ==
    Min({n \in 1..Side : ~HasShip(g, [row |-> c.row + n * dir.row,
                                      column |-> c.column + n * dir.column])})

\* No ship before its head, beside it, or beside the free cell at its tail.
CheckShip(g, c, dir, other) ==
    LET at(n) == [row |-> c.row + n * dir.row, column |-> c.column + n * dir.column]
    IN  /\ ~HasShip(g, at(-1))
        /\ \A n \in -1..ShipSize(g, c, dir) :
              ~HasShip(g, Minus(at(n), other)) /\ ~HasShip(g, Plus(at(n), other))

\* The top or left ends of ships, each with the direction it is walked in.
Heads(g) == {i \in g : ~HasShip(g, Plus(Coord(i), UP)) /\ ~HasShip(g, Plus(Coord(i), LEFT))}
IsVertical(g, i) == HasShip(g, Plus(Coord(i), DOWN))

SizeAt(g, i) == ShipSize(g, Coord(i), IF IsVertical(g, i) THEN DOWN ELSE RIGHT)

VerifyPositionOfShips(g) ==
    /\ \A i \in Heads(g) :
          IF IsVertical(g, i) THEN CheckShip(g, Coord(i), DOWN, RIGHT)
          ELSE CheckShip(g, Coord(i), RIGHT, DOWN)
    /\ \A n \in DOMAIN AvailableShips :
          Cardinality({i \in Heads(g) : SizeAt(g, i) = n}) = AvailableShips[n]
    /\ \A i \in Heads(g) : SizeAt(g, i) \in DOMAIN AvailableShips

----------------------------------------------------------------------------
(* What a valid position is: straight ships that do not touch, not even at *)
(* corners, in the right numbers.                                          *)

Touch(i, j) ==
    LET a == Coord(i)  b == Coord(j)
    IN  a.row - b.row \in -1..1 /\ a.column - b.column \in -1..1

\* All ships that fit on the board, as sets of cells.
ShipOf(c, d, n) == {GetIndex([row |-> c.row + k * d.row, column |-> c.column + k * d.column]) :
                       k \in 0..(n - 1)}
AllShips == {ShipOf(Coord(i), d, n) : i \in Cells, d \in {RIGHT, DOWN}, n \in DOMAIN AvailableShips}
Fits(s, i, d, n) == s = ShipOf(Coord(i), d, n)
                    /\ IsOnBoard([row |-> Coord(i).row + (n - 1) * d.row,
                                  column |-> Coord(i).column + (n - 1) * d.column])
BoardShips == {s \in AllShips :
                 \E i \in Cells, d \in {RIGHT, DOWN}, n \in DOMAIN AvailableShips : Fits(s, i, d, n)}

ShipCount == Cardinality(UNION {{n} \X (1..AvailableShips[n]) : n \in DOMAIN AvailableShips})

Fleets ==
    {f \in kSubset(ShipCount, BoardShips) :
       /\ \A s, t \in f : s # t => \A i \in s, j \in t : ~Touch(i, j)
       /\ \A n \in DOMAIN AvailableShips : Cardinality({s \in f : Cardinality(s) = n}) = AvailableShips[n]}

ValidPositions == {UNION f : f \in Fleets}
=============================================================================
