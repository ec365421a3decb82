---------------------------- MODULE ShipsLogic ----------------------------
(***************************************************************************)
(* One channel as the GSP of the ships game keeps it: ShipsLogic on top of *)
(* ChannelGame (disputes and resolutions) and of the channels table.       *)
(*                                                                         *)
(* A record on has the fields                                              *)
(*   status   "none", "open" or "closed" (deleted from the database)       *)
(*   reinit, proof                                                         *)
(*   dispute  blocks since the dispute was filed, NoAge without one        *)
(*   age      blocks since the channel was created                         *)
(*   winner   whom UpdateStats counted as winner, NoTurn for nobody        *)
(* The code keeps heights where the model has ages.                        *)
(***************************************************************************)
EXTENDS ChannelManager

CONSTANTS
    Creator, Joiner,
    CreateReinit,           \* the ID a new channel starts with
    DisputeBlocks,          \* DISPUTE_BLOCKS
    TimeoutBlocks           \* CHANNEL_TIMEOUT_BLOCKS

ASSUME ShipsAssumption ==
    /\ DisputeBlocks \in Nat \ {0} /\ TimeoutBlocks \in Nat \ {0}
    /\ {Me, Creator, Joiner} \subseteq Player /\ Creator # Joiner
    /\ CreateReinit \in Reinit /\ Participants(CreateReinit) = {Creator}
    /\ \A r \in Reinit \ {CreateReinit} : Participants(r) = {Creator, Joiner}
    /\ WhoseTurn(ReinitState(CreateReinit)) = NoTurn

NoAge == -1

NoChannel == [status |-> "none", reinit |-> CreateReinit,
              proof |-> StateProofFromReinit(CreateReinit),
              dispute |-> NoAge, age |-> 0, winner |-> NoTurn]

\* DeleteChannelById, with UpdateStats if there is a winner.
Close(w) == [NoChannel EXCEPT !.status = "closed", !.winner = w]

Other(pl) == IF pl = Creator THEN Joiner ELSE Creator

HasTwo(on) == Cardinality(Participants(on.reinit)) = 2

\* ~ChannelData: a proof of the reinit state is stored as NULL.
Save(on) ==
    IF UnverifiedProofEndState(on.proof) = ReinitState(on.reinit)
      THEN [on EXCEPT !.proof = StateProofFromReinit(on.reinit)]
      ELSE on

----------------------------------------------------------------------------
(* ChannelGame.  Both return the channel unchanged where the code returns  *)
(* false.                                                                  *)

DisputeIsValid(on, p) ==
    /\ VerifyStateProof(on.reinit, p)
    /\ WhoseTurn(UnverifiedProofEndState(p)) # NoTurn
    /\ \/ ProofCount(p) > ProofCount(on.proof)
       \/ /\ ProofCount(p) = ProofCount(on.proof)
          /\ on.dispute = NoAge
          /\ UnverifiedProofEndState(p) = UnverifiedProofEndState(on.proof)

\* At equal turn counts the stored proof stays.
ProcessDispute(on, p) ==
    [on EXCEPT !.dispute = 0,
               !.proof = IF ProofCount(p) > ProofCount(@) THEN p ELSE @]

ResolutionIsValid(on, p) ==
    /\ VerifyStateProof(on.reinit, p)
    /\ ProofCount(p) > ProofCount(on.proof)

ProcessResolution(on, p) == [on EXCEPT !.proof = p, !.dispute = NoAge]

----------------------------------------------------------------------------
(* The moves of a block.  Each takes the channel and the transaction.      *)

HandleCreateChannel(on, tx) == [NoChannel EXCEPT !.status = "open"]

\* Reinitialise; UpdateMetadataReinit makes the ID from the move's.
HandleJoinChannel(on, tx) ==
    IF HasTwo(on) \/ tx.by = Creator THEN on
    ELSE [on EXCEPT !.reinit = tx.reinit, !.proof = StateProofFromReinit(tx.reinit)]

HandleAbortChannel(on, tx) ==
    IF HasTwo(on) \/ tx.by # Creator THEN on ELSE Close(NoTurn)

HandleDeclareLoss(on, tx) ==
    IF ~ HasTwo(on) \/ tx.reinit # on.reinit \/ tx.by \notin Participants(on.reinit)
      THEN on
      ELSE Close(Other(tx.by))

\* A state with a winner closes the channel at once.
CloseIfWon(on) ==
    LET w == Winner(UnverifiedProofEndState(on.proof))
    IN  IF w = NoTurn THEN Save(on) ELSE Close(w)

HandleDisputeResolution(on, tx) ==
    IF ~ HasTwo(on) THEN on
    ELSE IF tx.kind = "dispute" /\ DisputeIsValid(on, tx.proof)
      THEN CloseIfWon(ProcessDispute(on, tx.proof))
    ELSE IF tx.kind = "resolution" /\ ResolutionIsValid(on, tx.proof)
      THEN CloseIfWon(ProcessResolution(on, tx.proof))
    ELSE on

HandleMove(on, tx) ==
    IF on.status # "open"
      THEN IF tx.kind = "create" /\ on.status = "none" THEN HandleCreateChannel(on, tx) ELSE on
      ELSE CASE tx.kind = "join" -> HandleJoinChannel(on, tx)
             [] tx.kind = "abort" -> HandleAbortChannel(on, tx)
             [] tx.kind = "loss" -> HandleDeclareLoss(on, tx)
             [] tx.kind \in {"dispute", "resolution"} -> HandleDisputeResolution(on, tx)
             [] OTHER -> on

----------------------------------------------------------------------------
(* The end of a block                                                      *)

\* Mutant: a dispute is given one block more.
ProcessExpiredDisputesLater(on) ==
    IF on.status = "open" /\ on.dispute > DisputeBlocks
      THEN Close(Other(WhoseTurn(UnverifiedProofEndState(on.proof))))
      ELSE on

ProcessExpiredDisputes(on) ==
    IF on.status = "open" /\ on.dispute >= DisputeBlocks
      THEN Close(Other(WhoseTurn(UnverifiedProofEndState(on.proof))))
      ELSE on

TimeOutChannels(on) ==
    IF on.status = "open" /\ ~ HasTwo(on) /\ on.age >= TimeoutBlocks
      THEN Close(NoTurn)
      ELSE on

\* A block on top: heights advance, so ages do while anything depends on them.
Older(on) ==
    [on EXCEPT !.dispute = IF @ = NoAge THEN NoAge ELSE @ + 1,
               !.age = IF on.status = "open" /\ ~ HasTwo(on) THEN @ + 1 ELSE 0]

(***************************************************************************)
(* A block with two moves, of which NoTx stands for none on this channel.  *)
(* Moves of a block are handled in order, before expiry and timeout.       *)
(***************************************************************************)
NoTx == [kind |-> "none", by |-> Creator, reinit |-> NoReinit,
         proof |-> StateProofFromReinit(CreateReinit)]

\* Mutant: disputes expire before the moves of the block.
UpdateStateExpiryFirst(on, t1, t2) ==
    TimeOutChannels(HandleMove(HandleMove(ProcessExpiredDisputes(Older(on)), t1), t2))

UpdateState(on, t1, t2) ==
    TimeOutChannels(ProcessExpiredDisputes(HandleMove(HandleMove(Older(on), t1), t2)))
=============================================================================
