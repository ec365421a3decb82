-------------------------- MODULE ChannelManager --------------------------
(***************************************************************************)
(* ChannelManager: what one player's channel daemon does with one channel. *)
(* SynchronisedChannelManager guards it by a mutex that every caller holds *)
(* for a whole call, so an operation is an operator from one record to the *)
(* next.  To the fields of RollingState it adds                            *)
(*   exists        is there on-chain data about the channel?               *)
(*   dispute       [open, turn, count, pendingResolution]                  *)
(*   pendingPut, pendingDispute    pendingPutStateOnChain, pendingDispute  *)
(*   txidClose     the loss declaration ShipsChannel has sent              *)
(*   priv          what the game's OpenChannel remembers (secrets, say)    *)
(* and, for the specification only,                                        *)
(*   pool          the node's mempool, as far as our transactions go       *)
(*   signed        [reinit, data] of all states we have signed so far      *)
(* A txid that may be null is a set of at most one transaction; two        *)
(* transactions with the same content are one.  SendNewState is left out:  *)
(* whatever is signed counts as known to the other player.                 *)
(***************************************************************************)
EXTENDS RollingState

CONSTANTS
    Me,                         \* playerName
    Priv, InitialPriv,
    Rnd,                        \* what a call may draw from the random generator
    MaybeAutoMove(_, _, _),     \* the automove for a priv, board and random
                                \* value: {} or {[move, priv]}
    Winner(_)                   \* the winner of a board state, or NoTurn

NoDispute == [open |-> FALSE, turn |-> NoTurn, count |-> 0, pendingResolution |-> {}]

EmptyManager(priv, pool, signed) ==
    [reinits |-> <<>>, reinitId |-> NoReinit,
     queue |-> [r \in Reinit |-> <<>>], size |-> 0, fatal |-> "",
     exists |-> FALSE, dispute |-> NoDispute,
     pendingPut |-> {}, pendingDispute |-> {}, txidClose |-> {},
     priv |-> priv, pool |-> pool, signed |-> signed]

----------------------------------------------------------------------------
(* MoveSender.  With fail, SendRawMove throws and the txid is null.        *)

Tx(kind, r, p) == [kind |-> kind, by |-> Me, reinit |-> r, proof |-> p]

DisputeTx(p) == Tx("dispute", NoReinit, p)
ResolutionTx(p) == Tx("resolution", NoReinit, p)
LossTx(r) == Tx("loss", r, StateProofFromReinit(r))

Txid(tx, fail) == IF fail THEN {} ELSE {tx}

IsPending(m, txid) == txid # {} /\ txid \subseteq m.pool

ResetMinedTxid(m, txid) == IF IsPending(m, txid) THEN txid ELSE {}

----------------------------------------------------------------------------
(* Local moves                                                             *)

\* ApplyLocalMove returns {} for false.
ApplyLocalMove(m, mv) ==
    IF ~ m.exists
      THEN {Fatal(m, "exists")}
      ELSE {IF UpdateIsChange(m, m.reinitId, p)
              THEN [UpdateWithMove(m, m.reinitId, p) EXCEPT !.signed =
                      @ \cup {[reinit |-> m.reinitId, data |-> UnverifiedProofEndState(p)]}]
              ELSE Fatal(m, "no change")
            : p \in ExtendStateProof(Me, m.reinitId, GetStateProof(m), mv)}

\* One turn of the loop in ProcessAutoMoves; m itself when it breaks.
AutoMove(m, rnd) ==
    IF m.fatal # "" \/ WhoseTurn(GetLatestState(m)) # Me
      THEN m
      ELSE LET found == MaybeAutoMove(m.priv, GetLatestState(m), rnd)
               mv    == CHOOSE a \in found : TRUE
               next  == ApplyLocalMove([m EXCEPT !.priv = mv.priv], mv.move)
           IN  IF found = {} THEN m
               ELSE IF next = {} THEN Fatal(m, "automove")
               ELSE CHOOSE n \in next : TRUE

(***************************************************************************)
(* The loop runs until there is no automove.  Two are as many as a game    *)
(* here finds in a row (AutoMoveAssumption).                               *)
(***************************************************************************)
ProcessAutoMoves(m, rnd) == AutoMove(AutoMove(m, rnd), rnd)

ASSUME AutoMoveAssumption ==
    /\ InitialPriv \in Priv
    /\ \A b \in Board, v \in Priv, rnd \in Rnd :
        MaybeAutoMove(v, b, rnd) \subseteq [move : Move, priv : Priv]
    /\ \A b \in Board, v \in Priv, rnd \in Rnd :
      \A x \in MaybeAutoMove(v, b, rnd) :
        LET c == ApplyMove(b, x.move) IN
        c # NoBoard /\ WhoseTurn(b) = Me /\ WhoseTurn(c) = Me =>
          \A y \in MaybeAutoMove(x.priv, c, rnd) :
            LET d == ApplyMove(c, y.move) IN
            d # NoBoard /\ WhoseTurn(d) = Me => MaybeAutoMove(y.priv, d, rnd) = {}

\* The game's automoves are moves: CHECK (ApplyLocalMove (..)) in ProcessAutoMoves.
AutoMovesValid ==
    \A v \in Priv, b \in Board, rnd \in Rnd :
        WhoseTurn(b) = Me => \A x \in MaybeAutoMove(v, b, rnd) : ApplyMove(b, x.move) # NoBoard

ASSUME WinnerAssumption == \A b \in Board : Winner(b) \in Player \cup {NoTurn}

----------------------------------------------------------------------------
(* Reactions to a new state                                                *)

CanResolve(m) ==
    /\ m.exists /\ m.dispute.open
    /\ m.dispute.turn = Me
    /\ LatestCount(m) > m.dispute.count

TryResolveDispute(m, fail) ==
    IF ~ m.exists \/ ~ m.dispute.open \/ m.dispute.pendingResolution # {} THEN m
    ELSE IF m.dispute.turn = NoTurn THEN Fatal(m, "dispute turn")
    ELSE IF ~ CanResolve(m) THEN m
    ELSE LET id == Txid(ResolutionTx(GetStateProof(m)), fail)
         IN  [m EXCEPT !.dispute.pendingResolution = id, !.pool = @ \cup id]

\* ShipsChannel: who has lost says so on chain.
MaybeOnChainMove(m, fail) ==
    IF \/ Winner(GetLatestState(m)) \in {NoTurn, Me}
       \/ IsPending(m, m.txidClose)
      THEN m
      ELSE LET id == Txid(LossTx(m.reinitId), fail)
           IN  [m EXCEPT !.txidClose = id, !.pool = @ \cup id]

\* Mutant: disputes are not looked at.
ReactNoResolution(m, fail) ==
    IF m.fatal # "" THEN m ELSE MaybeOnChainMove(m, fail)

\* What follows the automoves, unless one of them ended the process.
React(m, fail) ==
    IF m.fatal # "" THEN m ELSE MaybeOnChainMove(TryResolveDispute(m, fail), fail)

ProcessStateUpdate(m, rnd, fail) == React(ProcessAutoMoves(m, rnd), fail)

----------------------------------------------------------------------------
(* The calls                                                               *)

ProcessOffChain(m, r, p, rnd, fail) ==
    IF UpdateIsChange(m, r, p)
      THEN ProcessStateUpdate(UpdateWithMove(m, r, p), rnd, fail)
      ELSE UpdateWithMove(m, r, p)

ProcessOnChainNonExistant(m) == [m EXCEPT !.exists = FALSE]

\* The dispute as found on chain; a sent resolution is kept while pending.
DisputeFrom(m, p, disputed) ==
    IF ~ disputed
      THEN NoDispute
      ELSE [open  |-> TRUE,
            turn  |-> WhoseTurn(UnverifiedProofEndState(p)),
            count |-> ProofCount(p),
            pendingResolution |-> ResetMinedTxid(m, m.dispute.pendingResolution)]

ProcessOnChain(m, r, p, disputed, rnd, fail) ==
    LET a == [m EXCEPT !.exists = TRUE,
                       !.pendingPut = ResetMinedTxid(m, @),
                       !.pendingDispute = ResetMinedTxid(m, @)]
        b == UpdateOnChain(a, r, p)
        c == [b EXCEPT !.dispute = DisputeFrom(b, p, disputed)]
    IN  IF b.fatal # "" THEN b ELSE ProcessStateUpdate(c, rnd, fail)

ProcessLocalMove(m, mv, rnd, fail) ==
    IF ~ m.exists THEN m
    ELSE LET next == ApplyLocalMove(m, mv)
         IN  IF next = {} THEN m
             ELSE ProcessStateUpdate(CHOOSE n \in next : TRUE, rnd, fail)

TriggerAutoMoves(m, rnd, fail) ==
    LET a == ProcessAutoMoves(m, rnd)
    IN  IF ~ m.exists \/ a = m THEN m ELSE ProcessStateUpdate(a, rnd, fail)

PutStateOnChain(m, fail) ==
    IF ~ m.exists THEN m
    ELSE IF LatestCount(m) <= GetOnChainTurnCount(m)
      THEN IF LatestCount(m) = GetOnChainTurnCount(m) THEN m ELSE Fatal(m, "on-chain turn")
      ELSE LET id == Txid(ResolutionTx(GetStateProof(m)), fail)
           IN  [m EXCEPT !.pendingPut = id, !.pool = @ \cup id]

FileDispute(m, fail) ==
    IF ~ m.exists \/ m.dispute.open \/ m.pendingDispute # {} THEN m
    ELSE LET id == Txid(DisputeTx(GetStateProof(m)), fail)
         IN  [m EXCEPT !.pendingDispute = id, !.pool = @ \cup id]
=============================================================================
