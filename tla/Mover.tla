-------------------------------- MODULE Mover --------------------------------
(***************************************************************************)
(* The mover game: players walk on an infinite plane.  A move is a record  *)
(* [name, dir, n] of what is in its JSON; the direction NONE stands for a  *)
(* string that is no direction or JSON of another shape.                   *)
(***************************************************************************)
EXTENDS Integers, FiniteSets, SequencesExt

CONSTANTS Player, MaxSteps

NONE == "none"
Direction == {"right", "left", "up", "down", "right-up", "right-down", "left-up", "left-down"}

\* [dx, dy] of the directions.
GetDirectionOffset(dir) ==
    CASE dir = "right" -> <<1, 0>>
      [] dir = "left" -> <<-1, 0>>
      [] dir = "up" -> <<0, 1>>
      [] dir = "down" -> <<0, -1>>
      [] dir = "right-up" -> <<1, 1>>
      [] dir = "right-down" -> <<1, -1>>
      [] dir = "left-up" -> <<-1, 1>>
      [] dir = "left-down" -> <<-1, -1>>

ParseMove(mv) == mv.dir # NONE /\ mv.n > 0 /\ mv.n <= MaxSteps

\* A partial function as the map of the players.
Put(f, k, v) == [x \in DOMAIN f \cup {k} |-> IF x = k THEN v ELSE f[x]]
NoPlayers == [p \in {} |-> 0]

\* The undo data of a player that none of the fields are set for.
NoUndoFields == [isNew |-> FALSE, dir |-> NONE, steps |-> 0, changed |-> FALSE, finished |-> NONE]
UndoOfPlayer(u, name) == IF name \in DOMAIN u THEN u[name] ELSE NoUndoFields

----------------------------------------------------------------------------
(* ProcessForwardInternal on x = [players, undo].                          *)

ApplyMove(x, mv) ==
    LET old == IF mv.name \in DOMAIN x.players THEN {x.players[mv.name]} ELSE {}
        u   == UndoOfPlayer(x.undo, mv.name)
        p   == IF old = {} THEN [x |-> 0, y |-> 0, dir |-> mv.dir, steps |-> mv.n]
               ELSE [x.players[mv.name] EXCEPT !.dir = mv.dir, !.steps = mv.n]
        v   == IF old = {} THEN [u EXCEPT !.isNew = TRUE]
               ELSE [u EXCEPT !.dir = x.players[mv.name].dir, !.steps = x.players[mv.name].steps,
                              !.changed = TRUE]
    IN  IF ParseMove(mv)
        THEN [players |-> Put(x.players, mv.name, p), undo |-> Put(x.undo, mv.name, v)]
        ELSE x

\* A player in the second loop, who stops with the last step.
MovePlayer(p) ==
    LET d == GetDirectionOffset(p.dir)
    IN  IF p.dir = NONE THEN p
        ELSE [x |-> p.x + d[1], y |-> p.y + d[2], steps |-> p.steps - 1,
              dir |-> IF p.steps = 1 THEN NONE ELSE p.dir]

\* Mutant: a player that arrives is stopped without a note for undoing it.
StepPlayersNoFinish(x) ==
    [players |-> [name \in DOMAIN x.players |-> MovePlayer(x.players[name])], undo |-> x.undo]

StepPlayers(x) ==
    LET arrive == {name \in DOMAIN x.players :
                     x.players[name].dir # NONE /\ x.players[name].steps = 1}
    IN  [players |-> [name \in DOMAIN x.players |-> MovePlayer(x.players[name])],
         undo |-> [name \in DOMAIN x.undo \cup arrive |->
                     IF name \in arrive
                     THEN [UndoOfPlayer(x.undo, name) EXCEPT !.finished = x.players[name].dir]
                     ELSE x.undo[name]]]

MoverForward(players, moves) ==
    LET x[i \in 0..Len(moves)] ==
            IF i = 0 THEN [players |-> players, undo |-> NoPlayers]
            ELSE ApplyMove(x[i - 1], moves[i])
    IN  StepPlayers(x[Len(moves)])

----------------------------------------------------------------------------
(* ProcessBackwardsInternal.                                               *)

Finished(p, u) == IF u.finished # NONE THEN [p EXCEPT !.dir = u.finished] ELSE p

StepBack(p) ==
    IF p.dir = NONE THEN p
    ELSE LET d == GetDirectionOffset(p.dir)
         IN  [p EXCEPT !.steps = @ + 1, !.x = @ - d[1], !.y = @ - d[2]]

Changed(p, u) == IF u.changed THEN [p EXCEPT !.dir = u.dir, !.steps = u.steps] ELSE p

MoverBackwards(players, undo) ==
    [name \in {p \in DOMAIN players : ~UndoOfPlayer(undo, p).isNew} |->
        LET u == UndoOfPlayer(undo, name)
        IN  Changed(StepBack(Finished(players[name], u)), u)]

----------------------------------------------------------------------------
(* PendingMoves of the game: where a move would lead its player, by name.  *)

MoverAddPending(pending, players, mv) ==
    LET at == IF mv.name \in DOMAIN players THEN players[mv.name] ELSE [x |-> 0, y |-> 0]
        d  == GetDirectionOffset(mv.dir)
    IN  IF ParseMove(mv)
        THEN Put(pending, mv.name, [dir |-> mv.dir, steps |-> mv.n,
                                    x |-> at.x + mv.n * d[1], y |-> at.y + mv.n * d[2]])
        ELSE pending

\* GameStateToJson leaves out the steps of players that do not move.
MoverToJson(players) ==
    [name \in DOMAIN players |->
        [x |-> players[name].x, y |-> players[name].y, dir |-> players[name].dir,
         steps |-> IF players[name].dir = NONE THEN 0 ELSE players[name].steps]]
=============================================================================
