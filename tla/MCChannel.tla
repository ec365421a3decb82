----------------------------- MODULE MCChannel -----------------------------
(***************************************************************************)
(* A short board game for Channel.  We move first (b1), then the peer      *)
(* (b2); b3 is ours again, with an automove to b4, from where the peer     *)
(* wins or lets us win.  f9, g3 are boards that nobody can get to from b1; *)
(* g3 would lead to b4 by a move of ours.                                  *)
(* The channel may be joined by either of two moves, r1 and r2.            *)
(***************************************************************************)
EXTENDS Channel, TLC

MCBoard == {"wait", "b1", "b2", "b3", "b4", "lost", "won", "f9", "g3"}

MCWhoseTurn(b) ==
    CASE b \in {"b1", "b3", "g3"} -> "me"
      [] b \in {"b2", "b4", "f9"} -> "peer"
      [] OTHER -> "nobody"

Counts == "wait" :> 0 @@ "b1" :> 1 @@ "b2" :> 2 @@ "b3" :> 3 @@ "b4" :> 4
            @@ "lost" :> 5 @@ "won" :> 5 @@ "f9" :> 9 @@ "g3" :> 3
MCTurnCount(b) == Counts[b]

MCApplyMove(b, mv) ==
    CASE b = "b1" /\ mv = "x" -> "b2"
      [] b = "b2" /\ mv = "x" -> "b3"
      [] b \in {"b3", "g3"} /\ mv = "x" -> "b4"
      [] b = "b4" /\ mv = "x" -> "won"
      [] b = "b4" /\ mv = "y" -> "lost"
      [] OTHER -> "none"

MCWinner(b) == CASE b = "won" -> "me" [] b = "lost" -> "peer" [] OTHER -> "nobody"

MCMaybeAutoMove(v, b, rnd) == IF b = "b3" THEN {[move |-> "x", priv |-> v]} ELSE {}

MCParticipants(rr) == IF rr = "r0" THEN {"me"} ELSE {"me", "peer"}
MCReinitState(rr) == IF rr = "r0" THEN "wait" ELSE "b1"

ASSUME AutoMovesAreMoves == AutoMovesValid

Step(mv, b) == [move |-> mv, data |-> b]

\* A board from nowhere, moves, and a jump that is no move.
MCSomePaths ==
    {<<Step("-", "f9")>>, <<Step("-", "b2"), Step("x", "won")>>}
      \cup {<<Step("-", b), Step(mv, MCApplyMove(b, mv))>> :
              <<b, mv>> \in {<<"b2", "x">>, <<"b4", "y">>, <<"g3", "x">>}}

\* The peer may also lose, and show single states.
MCMorePaths ==
    MCSomePaths \cup {<<Step("-", "b1")>>, <<Step("-", "b4")>>,
                     <<Step("-", "b4"), Step("x", "won")>>}

\* A single move, a proof of which we have or have not signed the start.
MCFewPaths == {<<Step("-", "b2"), Step("x", "b3")>>}

MCPeerPaths == [t \in BOOLEAN |-> IF t THEN MCMorePaths ELSE MCSomePaths]
MCFewPeerPaths == [t \in BOOLEAN |-> MCFewPaths]
=============================================================================
