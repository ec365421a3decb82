--------------------------- MODULE RollingState ---------------------------
(***************************************************************************)
(* RollingState: the best board state known for every reinitialisation of  *)
(* a channel, and StateUpdateQueue, which keeps off-chain updates for      *)
(* reinitialisations that are not known yet.  Operators on a record with   *)
(* the fields                                                              *)
(*   reinits   [known IDs -> ReinitData]: proof (of the latest state) and  *)
(*             onChainTurn; metadata and reinit state follow from the ID   *)
(*   reinitId  the current ID, NoReinit before the first on-chain update   *)
(*   queue     [Reinit -> Seq(Proof)], <<>> where the code has no entry    *)
(*   size      the queue's own count of its elements                       *)
(*   fatal     the CHECK that failed, "" if none                           *)
(***************************************************************************)
EXTENDS StateProof, FiniteSetsExt

CONSTANTS NoReinit,
          MaxSize           \* STATE_UPDATE_QUEUE_SIZE

\* The IDs are 256-bit numbers.
ASSUME QueueAssumption ==
    MaxSize \in Nat \ {0} /\ NoReinit \notin Reinit /\ IsFiniteSet(Reinit)

ReinitData == [proof : Proof, onChainTurn : Nat]

Fatal(m, what) == IF m.fatal = "" THEN [m EXCEPT !.fatal = what] ELSE m

----------------------------------------------------------------------------
(* StateUpdateQueue                                                        *)

\* Mutant: the size is not adjusted.
DropOthersKeepsSize(m, r) ==
    [m EXCEPT !.queue = [q \in Reinit |-> IF q = r THEN m.queue[q] ELSE <<>>]]

\* At capacity: all other reinitialisations go.
DropOthers(m, r) ==
    [m EXCEPT !.queue = [q \in Reinit |-> IF q = r THEN m.queue[q] ELSE <<>>],
              !.size  = @ - MapThenSumSet(LAMBDA q : Len(m.queue[q]), Reinit \ {r})]

\* Still at capacity: the oldest one of this reinitialisation goes.
DropOldest(m, r) ==
    IF Len(m.queue[r]) # m.size
      THEN Fatal(m, "queue size")
      ELSE [m EXCEPT !.queue[r] = Tail(@), !.size = @ - 1]

Insert(m, r, p) ==
    LET a == IF m.size = MaxSize THEN DropOthers(m, r) ELSE m
        b == IF a.size = MaxSize THEN DropOldest(a, r) ELSE a
    IN  [b EXCEPT !.queue[r] = Append(@, p), !.size = @ + 1]

ExtractQueue(m, r) ==
    [m EXCEPT !.queue[r] = <<>>, !.size = @ - Len(m.queue[r])]

----------------------------------------------------------------------------
(* RollingState                                                            *)

Current(m) == m.reinits[m.reinitId]
GetStateProof(m) == Current(m).proof
GetLatestState(m) == UnverifiedProofEndState(GetStateProof(m))
LatestCount(m) == TurnCount(GetLatestState(m))
GetOnChainTurnCount(m) == Current(m).onChainTurn

KnownCount(m, r) == ProofCount(m.reinits[r].proof)

\* Would the update replace what is known for r?
IsFresher(m, r, p) == VerifyStateProof(r, p) /\ ProofCount(p) > KnownCount(m, r)

UpdateWithMove(m, r, p) ==
    IF r \notin DOMAIN m.reinits
      THEN Insert(m, r, p)
      ELSE IF IsFresher(m, r, p) THEN [m EXCEPT !.reinits[r].proof = p] ELSE m

\* What UpdateWithMove returns: the current reinitialisation's state changed.
UpdateIsChange(m, r, p) ==
    r \in DOMAIN m.reinits /\ IsFresher(m, r, p) /\ r = m.reinitId

(***************************************************************************)
(* The queued updates of a new reinitialisation are applied one by one;    *)
(* what is left is the first of those with the highest turn count, if it   *)
(* is higher than that of the state on chain.                              *)
(***************************************************************************)
BestQueued(m, r) ==
    LET q    == m.queue[r]
        good == {i \in 1..Len(q) : IsFresher(m, r, q[i])}
    IN  IF good = {} THEN m.reinits[r].proof
        ELSE q[CHOOSE i \in good :
                 \A j \in good : \/ ProofCount(q[j]) < ProofCount(q[i])
                                 \/ ProofCount(q[j]) = ProofCount(q[i]) /\ i <= j]

ApplyQueue(m, r) ==
    ExtractQueue([m EXCEPT !.reinits[r].proof = BestQueued(m, r)], r)

\* m with an entry for r, its proof and count as found on chain.
WithReinit(m, r, p) ==
    [m EXCEPT !.reinits = [q \in DOMAIN m.reinits \cup {r} |->
        IF q = r THEN [proof |-> p, onChainTurn |-> ProofCount(p)]
                 ELSE m.reinits[q]]]

\* Mutant: a staler state on chain is taken over.
UpdateKnownAlways(m, r, p) ==
    [m EXCEPT !.reinits[r] = [proof |-> p, onChainTurn |-> ProofCount(p)]]

UpdateKnown(m, r, p) ==
    LET count == ProofCount(p)
        old   == m.reinits[r]
    IN  [m EXCEPT !.reinits[r] =
           [proof |-> IF count > ProofCount(old.proof) THEN p ELSE old.proof,
            onChainTurn |-> IF count > old.onChainTurn THEN count ELSE old.onChainTurn]]

\* Mutant: going back to an earlier reinitialisation is not noticed.
UpdateOnChainOnlyForward(m, r, p) ==
    IF ~ VerifyStateProof(r, p) THEN Fatal(m, "on-chain proof")
    ELSE IF r \in DOMAIN m.reinits THEN UpdateKnown(m, r, p)
    ELSE ApplyQueue(WithReinit([m EXCEPT !.reinitId = r], r, p), r)

UpdateOnChain(m, r, p) ==
    LET a == [m EXCEPT !.reinitId = r]
    IN  IF ~ VerifyStateProof(r, p) THEN Fatal(m, "on-chain proof")
        ELSE IF r \notin DOMAIN m.reinits THEN ApplyQueue(WithReinit(a, r, p), r)
        ELSE UpdateKnown(a, r, p)
=============================================================================
