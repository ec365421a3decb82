------------------------------ MODULE Channel ------------------------------
(***************************************************************************)
(* A game channel as a whole: one player's channel daemon, its feeder      *)
(* thread, the chain with the channel's on-chain state, and another player *)
(* of whom nothing is assumed but that it cannot sign for us.              *)
(*                                                                         *)
(* Interleaved are the daemon's threads (feeder, off-chain receiver, RPC   *)
(* calls; each call to the manager is one step under its mutex), mining    *)
(* and reorgs.  Off-chain messages may be lost, repeated, delayed and out  *)
(* of order: the peer may at any time send anything it could have sent     *)
(* before.                                                                 *)
(***************************************************************************)
EXTENDS ShipsLogic

CONSTANTS
    Peer,
    PeerPaths,              \* the paths of moves in the proofs the peer sends, of
                            \* [move, data], per element of Timing
    Timing,                 \* are blocks fetched, and resolutions mined, in time?
                            \* {TRUE}, {FALSE} or both, to choose from at the start
    MaxDepth,               \* bound on the depth of reorgs
    MaxRequests,            \* bound on what the user asks to be sent
    MaxReorgs, MaxFaults    \* bounds on reorgs, and on restarts and failed sends

ASSUME ChannelAssumption ==
    /\ Player = {Me, Peer} /\ Me # Peer
    /\ \A t \in Timing : \A s \in PeerPaths[t] : s \in Seq([move : Move \cup {NoMove}, data : Board]) \ {<<>>}
    /\ Timing \subseteq BOOLEAN
    /\ MaxDepth \in Nat /\ MaxRequests \in Nat /\ MaxReorgs \in Nat /\ MaxFaults \in Nat

VARIABLES
    mgr,        \* the manager, see ChannelManager
    feed,       \* the feeder: [seen: lastBlock is the tip, data: what getchannel
                \* returned and is not yet processed, {} for nothing]
    chain,      \* the last blocks: sequence of [on, txs]
    used        \* [requests, reorgs, faults] used up, and whether we are timely

vars == <<mgr, feed, chain, used>>

Tip == chain[Len(chain)].on

PeerPath == PeerPaths[used.timely]

Up == mgr.fatal = ""

Init ==
    /\ mgr = EmptyManager(InitialPriv, {}, {})
    /\ feed = [seen |-> FALSE, data |-> {}]
    /\ chain = <<[on |-> NoChannel, txs |-> {}]>>
    /\ used \in [requests : {0}, reorgs : {0}, faults : {0}, timely : Timing]

----------------------------------------------------------------------------
(* Whatever the peer can put together: its own signature wherever it       *)
(* likes, ours only where we signed.                                       *)

PeerProof(r, s) ==
    [under |-> r,
     path  |-> [i \in 1..Len(s) |->
                 [move |-> s[i].move, data |-> s[i].data,
                  sigs |-> {Peer} \cup IF [reinit |-> r, data |-> s[i].data] \in mgr.signed
                                         THEN {Me} ELSE {}]]]

PeerTx(kind, r, p) == [kind |-> kind, by |-> Peer, reinit |-> r, proof |-> p]

\* Transactions that do not come from the manager.
OtherTx ==
    {[NoTx EXCEPT !.kind = "create"], [NoTx EXCEPT !.kind = "abort"]}
      \cup {[NoTx EXCEPT !.kind = "join", !.by = Joiner, !.reinit = r]
              : r \in Reinit \ {CreateReinit}}
      \cup {PeerTx("loss", r, NoTx.proof) : r \in Reinit \ {CreateReinit}}
      \cup {PeerTx(kind, NoReinit, PeerProof(r, s)) :
              kind \in {"dispute", "resolution"},
              r \in Reinit \ {CreateReinit}, s \in PeerPath}

----------------------------------------------------------------------------
(* The daemon.  fail says whether sending transactions fails in this call. *)

Sends(fail) ==
    /\ fail => used.faults < MaxFaults
    /\ used' = IF fail THEN [used EXCEPT !.faults = @ + 1] ELSE used

\* The same for what the user asks for.
Requested(fail) ==
    /\ fail => used.faults < MaxFaults
    /\ used.requests < MaxRequests
    /\ used' = [used EXCEPT !.faults = IF fail THEN @ + 1 ELSE @, !.requests = @ + 1]

\* UpdateOnce, up to the manager's lock, with the GSP up to date.
GetChannel ==
    /\ Up /\ ~ feed.seen /\ feed.data = {}
    /\ feed' = [seen |-> TRUE, data |-> {IF Tip.status = "open" THEN Tip ELSE NoChannel}]
    /\ UNCHANGED <<mgr, chain, used>>

\* The rest of UpdateOnce, perhaps with the chain further on.
UpdateOnce(rnd, fail) ==
    /\ Up
    /\ \E on \in feed.data :
         mgr' = IF on.status = "open"
                  THEN ProcessOnChain(mgr, on.reinit, on.proof, on.dispute # NoAge, rnd, fail)
                  ELSE ProcessOnChainNonExistant(mgr)
    /\ feed' = [feed EXCEPT !.data = {}]
    /\ Sends(fail)
    /\ UNCHANGED chain

ReceiveOffChain(r, s, rnd, fail) ==
    /\ Up
    /\ mgr' = ProcessOffChain(mgr, r, PeerProof(r, s), rnd, fail)
    /\ Sends(fail)
    /\ UNCHANGED <<feed, chain>>

LocalMove(mv, rnd, fail) ==
    /\ Up
    /\ mgr' = ProcessLocalMove(mgr, mv, rnd, fail)
    /\ Sends(fail)
    /\ UNCHANGED <<feed, chain>>

RequestAutoMoves(rnd, fail) ==
    /\ Up
    /\ mgr' = TriggerAutoMoves(mgr, rnd, fail)
    /\ Sends(fail)
    /\ UNCHANGED <<feed, chain>>

\* For games that offer it.
RequestPutState(fail) ==
    /\ Up
    /\ mgr' = PutStateOnChain(mgr, fail)
    /\ Requested(fail)
    /\ UNCHANGED <<feed, chain>>

\* filedispute: a state with a winner is put on chain instead.
RequestDispute(fail) ==
    /\ Up
    /\ mgr' = IF mgr.exists /\ Winner(GetLatestState(mgr)) # NoTurn
                THEN PutStateOnChain(mgr, fail)
                ELSE FileDispute(mgr, fail)
    /\ Requested(fail)
    /\ UNCHANGED <<feed, chain>>

(***************************************************************************)
(* The daemon keeps nothing on disk.  It is started again after it has     *)
(* aborted, or stopped for some other reason.                              *)
(***************************************************************************)
Restart ==
    /\ Up => used.faults < MaxFaults
    /\ mgr' = EmptyManager(InitialPriv, mgr.pool, mgr.signed)
    /\ feed' = [seen |-> FALSE, data |-> {}]
    /\ used' = IF Up THEN [used EXCEPT !.faults = @ + 1] ELSE used
    /\ UNCHANGED chain

----------------------------------------------------------------------------
(* The chain                                                               *)

InTime(t1, t2) ==
    /\ feed.seen /\ feed.data = {}
    /\ mgr.dispute.pendingResolution \subseteq {t1, t2}

MineBlock(t1, t2) ==
    /\ used.timely => InTime(t1, t2)
    /\ LET blk == [on |-> UpdateState(Tip, t1, t2), txs |-> {t1, t2} \cap mgr.pool]
           all == Append(chain, blk)
       IN  chain' = IF Len(all) > MaxDepth + 1 THEN Tail(all) ELSE all
    /\ mgr' = [mgr EXCEPT !.pool = @ \ {t1, t2}]
    /\ feed' = [feed EXCEPT !.seen = FALSE]
    /\ UNCHANGED used

\* The tip is detached, and our transactions in it are pending again.
Reorg ==
    /\ Len(chain) > 1 /\ used.reorgs < MaxReorgs
    /\ mgr' = [mgr EXCEPT !.pool = @ \cup chain[Len(chain)].txs]
    /\ chain' = SubSeq(chain, 1, Len(chain) - 1)
    /\ feed' = [feed EXCEPT !.seen = FALSE]
    /\ used' = [used EXCEPT !.reorgs = @ + 1]

----------------------------------------------------------------------------
Next ==
    \/ GetChannel
    \/ \E rnd \in Rnd, fail \in BOOLEAN :
         \/ UpdateOnce(rnd, fail)
         \/ \E r \in Reinit \ {CreateReinit}, s \in PeerPath : ReceiveOffChain(r, s, rnd, fail)
         \/ \E mv \in Move : LocalMove(mv, rnd, fail)
         \/ RequestAutoMoves(rnd, fail)
    \/ \E fail \in BOOLEAN : RequestPutState(fail) \/ RequestDispute(fail)
    \/ Restart
    \/ \E t1 \in {NoTx} \cup mgr.pool \cup OtherTx : MineBlock(t1, NoTx)
    \/ \E t1 \in mgr.pool, t2 \in mgr.pool \cup OtherTx :
         t1 # t2 /\ (MineBlock(t1, t2) \/ MineBlock(t2, t1))
    \/ Reorg

Spec == Init /\ [][Next]_vars

----------------------------------------------------------------------------
(* Properties                                                              *)

AllTx == [kind : {"dispute", "resolution", "loss"}, by : {Me},
          reinit : Reinit \cup {NoReinit}, proof : Proof]

OnChain == [status : {"none", "open", "closed"}, reinit : Reinit, proof : Proof,
            dispute : NoAge..(DisputeBlocks - 1), age : 0..TimeoutBlocks,
            winner : Player \cup {NoTurn}]

\* The CHECKs of RollingState and ChannelManager.
Checks == {"", "queue size", "on-chain proof", "exists", "no change", "automove",
           "dispute turn", "on-chain turn"}

(***************************************************************************)
(* The fields have their types; there are known states while the channel   *)
(* exists, and no overdue dispute is left open by a block.                 *)
(***************************************************************************)
TypeOK ==
    /\ mgr.reinitId \in Reinit \cup {NoReinit}
    /\ DOMAIN mgr.reinits \subseteq Reinit
    /\ \A r \in DOMAIN mgr.reinits : mgr.reinits[r] \in ReinitData
    /\ mgr.queue \in [Reinit -> Seq(Proof)]
    /\ mgr.size \in Int
    /\ mgr.fatal \in Checks
    /\ mgr.exists \in BOOLEAN
    /\ mgr.exists => mgr.reinitId \in DOMAIN mgr.reinits
    /\ mgr.dispute \in [open : BOOLEAN, turn : Player \cup {NoTurn}, count : Nat,
                         pendingResolution : SUBSET AllTx]
    /\ mgr.pendingPut \subseteq AllTx /\ mgr.pendingDispute \subseteq AllTx
    /\ mgr.txidClose \subseteq AllTx /\ mgr.pool \subseteq AllTx
    /\ mgr.priv \in Priv
    /\ mgr.signed \subseteq [reinit : Reinit, data : Board]
    /\ feed.seen \in BOOLEAN /\ feed.data \subseteq OnChain
    /\ chain \in Seq([on : OnChain, txs : SUBSET AllTx]) \ {<<>>}
    /\ used \in [requests : 0..MaxRequests, reorgs : 0..MaxReorgs, faults : 0..MaxFaults,
                timely : Timing]

(***************************************************************************)
(* The states that we take part in are those we signed or started from,    *)
(* followed by moves of the peer only.  State proofs must not show any     *)
(* other state, however they were put together or cut short: neither the   *)
(* manager nor the chain takes one.                                        *)
(***************************************************************************)
Backed(r, b) == b = ReinitState(r) \/ [reinit |-> r, data |-> b] \in mgr.signed

Agreed(r, p) ==
    \E i \in 1..Len(p.path) :
        /\ Backed(r, p.path[i].data)
        /\ \A j \in (i + 1)..Len(p.path) :
             /\ WhoseTurn(p.path[j - 1].data) = Peer
             /\ ApplyMove(p.path[j - 1].data, p.path[j].move) = p.path[j].data

OnlyAgreedStates ==
    /\ \A r \in DOMAIN mgr.reinits : Agreed(r, mgr.reinits[r].proof)
    /\ \A i \in 1..Len(chain) : Agreed(chain[i].on.reinit, chain[i].on.proof)

(***************************************************************************)
(* The update queue's count is exact and below its limit, through all      *)
(* evictions and extractions (the CHECKs in StateUpdateQueue).             *)
(***************************************************************************)
QueueIsExact ==
    /\ mgr.size = MapThenSumSet(LAMBDA r : Len(mgr.queue[r]), Reinit)
    /\ mgr.size <= MaxSize

(***************************************************************************)
(* No CHECK of the manager fails but CHECK (exists), see LateMove: on-chain *)
(* data is valid, a local or automatic move always yields a fresher state, *)
(* the on-chain turn count is never ahead, no dispute is for nobody's turn. *)
(***************************************************************************)
NoOtherAbort == mgr.fatal \in {"", "exists"}

(***************************************************************************)
(* A manager that has processed the tip is at its reinitialisation, not    *)
(* behind its state, knows of a dispute exactly if there is one, and takes *)
(* transactions for pending exactly as long as they are: through reorgs,   *)
(* restarts and transactions that are mined while an older block is        *)
(* processed.                                                              *)
(***************************************************************************)
FollowsChain ==
    Up /\ feed.seen /\ feed.data = {} =>
      /\ mgr.exists <=> Tip.status = "open"
      /\ mgr.exists =>
           /\ mgr.reinitId = Tip.reinit
           /\ LatestCount(mgr) >= ProofCount(Tip.proof)
           /\ mgr.dispute.open <=> Tip.dispute # NoAge
           /\ mgr.dispute.open => mgr.dispute.count = ProofCount(Tip.proof)
           /\ mgr.dispute.pendingResolution \cup mgr.pendingDispute \cup mgr.pendingPut
                \subseteq mgr.pool

(***************************************************************************)
(* Short of a restart, nothing that is known about any reinitialisation is *)
(* forgotten or replaced by an older state, whatever arrives in whatever   *)
(* order and whatever happens to the chain.                                *)
(***************************************************************************)
NothingForgotten ==
    [][\/ Restart
       \/ \A r \in DOMAIN mgr.reinits :
            /\ r \in DOMAIN mgr'.reinits
            /\ ProofCount(mgr'.reinits[r].proof) >= KnownCount(mgr, r)]_vars

(***************************************************************************)
(* A dispute against us is answered as soon as we know a better state,     *)
(* whichever of the two came first, if sending transactions works.         *)
(***************************************************************************)
DisputeAnswered ==
    Up /\ CanResolve(mgr) => mgr.dispute.pendingResolution # {}

(***************************************************************************)
(* If blocks and resolutions are in time, the peer is counted as winner    *)
(* only if we have declared our loss, if it can prove to have won, or if a *)
(* dispute expires while we know nothing better than the disputed state.   *)
(* We declare the loss only of a board that we know to be lost.            *)
(***************************************************************************)
CanProveWin(r) ==
    \E s \in PeerPath :
        /\ Winner(s[Len(s)].data) = Peer
        /\ VerifyStateProof(r, PeerProof(r, s))

LossIsFair ==
    [][/\ used.timely /\ Tip.status = "open" /\ Tip'.winner = Peer =>
            \/ LossTx(Tip.reinit) \in mgr.pool \ mgr'.pool
            \/ CanProveWin(Tip.reinit)
            \/ /\ Tip.dispute # NoAge /\ Tip.reinit \in DOMAIN mgr.reinits
               /\ KnownCount(mgr, Tip.reinit) <= ProofCount(Tip.proof)
       /\ \A r \in Reinit : LossTx(r) \in mgr'.pool =>
            /\ r \in DOMAIN mgr'.reinits
            /\ Winner(UnverifiedProofEndState(mgr'.reinits[r].proof)) = Peer]_vars

(***************************************************************************)
(* CHECK (exists) in ApplyLocalMove holds, channelmanager.cpp:272.         *)
(***************************************************************************)
LateMove == mgr.fatal # "exists"

(***************************************************************************)
(* PutStateOnChain declines only if "Latest state on chain matches the     *)
(* best known state already" (channelmanager.cpp:349), with the tip        *)
(* processed.                                                              *)
(***************************************************************************)
PutDeclinedOnlyIfOnChain ==
    Up /\ feed.seen /\ feed.data = {} /\ mgr.exists
      /\ LatestCount(mgr) <= GetOnChainTurnCount(mgr) =>
        ProofCount(Tip.proof) = LatestCount(mgr)
=============================================================================
