---------------------------- MODULE PendingMoves ----------------------------
(***************************************************************************)
(* PendingMoveProcessor, and Game as far as it matters to it: a GSP that   *)
(* follows SpaceXpanse Core by notifications, some of which are lost (see  *)
(* GameSync for the same with storage, pruning and target blocks), and     *)
(* keeps the game state that the transactions in Core's mempool would      *)
(* give.  Every change of it notifies the waiting calls, see GameThreads.  *)
(*                                                                         *)
(* What a game makes of its pending moves is up to the game; its pending   *)
(* state is the sequence "shown" of calls to AddPendingMove since the last *)
(* Clear, with the confirmed state and block that each of them saw.        *)
(***************************************************************************)
EXTENDS Chain, SequencesExt

CONSTANTS
    Tx,
    TxMoves,            \* the moves of each transaction, a sequence
    BlockTxs,           \* the transactions of each block, a sequence
    PendingGenesis,     \* the block at which everything starts
    BlockQueueSize,     \* BLOCK_QUEUE_SIZE
    MaxCoreEvents       \* bound on what happens at Core

ASSUME PendingAssumption ==
    /\ PendingGenesis \in Block
    /\ BlockQueueSize \in Nat \ {0}
    /\ \A t \in Tx : TxMoves[t] # <<>>

VARIABLES
    core,       \* [tip, mempool, msgs: in transit, sockets: 1 or 2, see
                \* NextMessages, lost: topics whose next message has not the
                \* number after the last one seen, lossy: if any message was
                \* ever lost, events]
    gsp,        \* [up: or catching up, block, target]
    pend        \* [known: moves per txid, queue: blockQueue, shown]

pendingVars == <<core, gsp, pend>>

----------------------------------------------------------------------------
(* PendingMoveProcessor.                                                   *)

EmptyPendingMoves == [known |-> [t \in {} |-> <<>>], queue |-> <<>>, shown |-> <<>>]

Known(p, t) == t \in DOMAIN p.known

WithKnown(p, t, moves) ==
    [p EXCEPT !.known = [x \in DOMAIN p.known \cup {t} |-> IF x = t THEN moves ELSE p.known[x]]]

\* With the context of the given state and the last block of the queue.
AddMoveOrMoves(p, state, t) ==
    [p EXCEPT !.shown = @ \o [i \in 1..Len(p.known[t]) |->
        [tx |-> t, move |-> p.known[t][i], state |-> state, block |-> Last(p.queue)]]]

\* Without a queue there is no context, and nothing is shown.
Reset(p, state, mempool) ==
    LET kept    == SelectSeq(mempool, LAMBDA t : Known(p, t))
        cleared == [p EXCEPT !.shown = <<>>,
                             !.known = [t \in ToSet(kept) |-> p.known[t]]]
    IN  IF p.queue = <<>> THEN cleared
        ELSE FoldLeft(LAMBDA q, t : AddMoveOrMoves(q, state, t), cleared, kept)

\* Mutant: a queue that does not end in the parent is kept.
ProcessAttachedBlockKeeps(p, state, b, mempool) ==
    Reset([p EXCEPT !.queue = Append(@, b)], state, mempool)

ProcessAttachedBlock(p, state, b, mempool) ==
    LET base == IF p.queue # <<>> /\ Last(p.queue) # Parent[b] THEN <<>> ELSE p.queue
        all  == Append(base, b)
        drop == IF Len(all) > BlockQueueSize THEN Len(all) - BlockQueueSize ELSE 0
    IN  Reset([p EXCEPT !.queue = SubSeq(all, drop + 1, Len(all))], state, mempool)

\* The moves of a block come one by one, and only the first one of an unknown
\* transaction gets into the map.
ProcessDetachedBlock(p, state, b, mempool) ==
    LET more == FoldLeft(LAMBDA q, t : IF Known(q, t) THEN q
                                       ELSE WithKnown(q, t, <<Head(TxMoves[t])>>), p, BlockTxs[b])
        queue == IF p.queue # <<>> /\ Last(p.queue) = b THEN Front(p.queue) ELSE <<>>
    IN  Reset([more EXCEPT !.queue = queue], state, mempool)

ProcessTx(p, state, t, mempool) ==
    CASE Known(p, t) /\ p.known[t] = TxMoves[t] -> p
      [] Known(p, t) /\ p.known[t] # TxMoves[t] ->
            Reset(WithKnown(p, t, TxMoves[t]), state, mempool)
      [] ~Known(p, t) /\ p.queue = <<>> -> WithKnown(p, t, TxMoves[t])
      [] OTHER -> AddMoveOrMoves(WithKnown(p, t, TxMoves[t]), state, t)

----------------------------------------------------------------------------
(* SpaceXpanse Core.  Each kind of message has sequence numbers of its     *)
(* own; req says whether it is part of the current request, of an old one  *)
(* or of none.                                                             *)

Msg(kind, what, req) == [kind |-> kind, what |-> what, req |-> req]

MineBlock(b) ==
    /\ core.events < MaxCoreEvents /\ Parent[b] = core.tip
    /\ core' = [core EXCEPT
          !.tip = b, !.events = @ + 1,
          !.mempool = SelectSeq(@, LAMBDA t : t \notin ToSet(BlockTxs[b])),
          !.msgs = Append(@, Msg("attach", b, "none"))]
    /\ UNCHANGED <<gsp, pend>>

\* The transactions of a detached block are pending again.
DisconnectTip ==
    /\ core.events < MaxCoreEvents /\ core.tip # PendingGenesis
    /\ LET txs == BlockTxs[core.tip]
       IN  core' = [core EXCEPT
              !.tip = Parent[core.tip], !.events = @ + 1,
              !.mempool = txs \o @,
              !.msgs = Append(@, Msg("detach", core.tip, "none"))
                         \o [i \in 1..Len(txs) |-> Msg("pending", txs[i], "none")]]
    /\ UNCHANGED <<gsp, pend>>

NewTx(t) ==
    /\ core.events < MaxCoreEvents
    /\ t \notin ToSet(core.mempool)
    /\ \A b \in Ancestors[core.tip] : t \notin ToSet(BlockTxs[b])
    /\ core' = [core EXCEPT !.events = @ + 1, !.mempool = Append(@, t),
                            !.msgs = Append(@, Msg("pending", t, "none"))]
    /\ UNCHANGED <<gsp, pend>>

\* Blocks and pending moves come in order if Core sends both to one address,
\* and over two sockets otherwise, each with an order of its own.  (Listen
\* takes a block first if it polls messages of both, but which ones have
\* arrived is up to the network.)
Socket(m) == IF core.sockets = 2 /\ m.kind = "pending" THEN "pending" ELSE "blocks"

NextMessages ==
    {i \in DOMAIN core.msgs : \A j \in 1..i - 1 : Socket(core.msgs[j]) # Socket(core.msgs[i])}

LoseMessage(i) ==
    /\ core.events < MaxCoreEvents
    /\ core' = [core EXCEPT !.events = @ + 1, !.msgs = RemoveAt(@, i),
                            !.lossy = TRUE, !.lost = @ \cup {core.msgs[i].kind}]
    /\ UNCHANGED <<gsp, pend>>

\* game_sendupdates: the way from the block to the tip.
SendUpdates(c, from) ==
    LET down == Ancestors[from] \ Ancestors[c.tip]
        up   == Ancestors[c.tip] \ Ancestors[from]
        dseq == SetToSortSeq(down, LAMBDA x, y : Height[x] > Height[y])
        useq == SetToSortSeq(up, LAMBDA x, y : Height[x] < Height[y])
        old  == [i \in DOMAIN c.msgs |->
                   [c.msgs[i] EXCEPT !.req = IF @ = "none" THEN @ ELSE "old"]]
    IN  [c EXCEPT !.msgs = old \o [i \in DOMAIN dseq |-> Msg("detach", dseq[i], "current")]
                               \o [i \in DOMAIN useq |-> Msg("attach", useq[i], "current")]]

----------------------------------------------------------------------------
(* Game.                                                                   *)

\* The pair <<g, c>> after ReinitialiseState.
Reinitialised(g, c) ==
    IF c.tip = g.block THEN <<[g EXCEPT !.up = TRUE], c>>
    ELSE <<[g EXCEPT !.up = FALSE, !.target = c.tip], SendUpdates(c, g.block)>>

IsReqtokenRelevant(m) == m.req = IF gsp.up THEN "none" ELSE "current"

Received(i) == [core EXCEPT !.msgs = RemoveAt(@, i), !.lost = @ \ {core.msgs[i].kind}]

\* BlockAttach and BlockDetach: new is the block they lead to if the current
\* one is old.
BlockUpdate(i, old, new) ==
    LET m      == core.msgs[i]
        c      == Received(i)
        fits   == gsp.block = old
        g      == IF fits THEN [gsp EXCEPT !.block = new] ELSE gsp
        reinit == ~fits \/ (~gsp.up /\ new = gsp.target)
        after  == IF reinit THEN Reinitialised(g, c) ELSE <<g, c>>
    IN  CASE m.kind \in core.lost ->
               /\ gsp' = Reinitialised(gsp, c)[1]
               /\ core' = Reinitialised(gsp, c)[2]
               /\ UNCHANGED pend
          [] m.kind \notin core.lost /\ ~IsReqtokenRelevant(m) ->
               /\ core' = c
               /\ UNCHANGED <<gsp, pend>>
          [] OTHER ->
               /\ core' = after[2]
               /\ gsp' = after[1]
               /\ pend' =
                    CASE ~after[1].up -> pend
                      [] m.kind = "attach" ->
                           ProcessAttachedBlock(pend, after[1].block, m.what, after[2].mempool)
                      [] m.kind = "detach" ->
                           ProcessDetachedBlock(pend, after[1].block, m.what, after[2].mempool)

BlockAttach(i) ==
    /\ core.msgs[i].kind = "attach"
    /\ BlockUpdate(i, Parent[core.msgs[i].what], core.msgs[i].what)

BlockDetach(i) ==
    /\ core.msgs[i].kind = "detach"
    /\ BlockUpdate(i, core.msgs[i].what, Parent[core.msgs[i].what])

PendingMove(i) ==
    /\ core.msgs[i].kind = "pending"
    /\ core' = Received(i)
    /\ pend' = IF gsp.up THEN ProcessTx(pend, gsp.block, core.msgs[i].what, core.mempool)
               ELSE pend
    /\ UNCHANGED gsp

\* The GSP starts at its last state, with Core at some tip.  The first message
\* of a topic never has the expected number.
PendingInit ==
    /\ \E tip \in Block, sockets \in {1, 2} :
         LET start == Reinitialised(
                 [up |-> FALSE, block |-> PendingGenesis, target |-> PendingGenesis],
                 [tip |-> tip, mempool |-> <<>>, msgs |-> <<>>, sockets |-> sockets,
                  lost |-> {"attach", "detach", "pending"}, lossy |-> FALSE, events |-> 0])
         IN  gsp = start[1] /\ core = start[2]
    /\ pend = EmptyPendingMoves

PendingNext ==
    \/ \E b \in Block : MineBlock(b)
    \/ \E t \in Tx : NewTx(t)
    \/ DisconnectTip
    \/ \E i \in NextMessages :
         LoseMessage(i) \/ BlockAttach(i) \/ BlockDetach(i) \/ PendingMove(i)

----------------------------------------------------------------------------
(* Properties.                                                             *)

Settled == gsp.up /\ core.msgs = <<>> /\ ~core.lossy

\* The block queue is a chain, and the pending state is made of all the known
\* moves, each once.  If no notification was lost and all are processed, the
\* queue ends in the current block and the moves are seen on top of the current
\* state with its block as context; if in addition blocks and pending moves
\* come over one socket, the moves are all still in the mempool.  (With two
\* sockets, the notification of a move may come after the block that has it,
\* and the move is known until the next block.  With losses, the data of an
\* old block may be the context as well.)
PendingFollowsChain ==
    pend.queue # <<>> =>
        /\ \A i \in 1..Len(pend.queue) - 1 : pend.queue[i] = Parent[pend.queue[i + 1]]
        /\ {<<s.tx, s.move>> : s \in ToSet(pend.shown)} =
              UNION {{<<t, mv>> : mv \in ToSet(pend.known[t])} : t \in DOMAIN pend.known}
        /\ IsInjective([i \in DOMAIN pend.shown |-> <<pend.shown[i].tx, pend.shown[i].move>>])
        /\ Settled =>
              /\ Last(pend.queue) = gsp.block
              /\ \A s \in ToSet(pend.shown) : s.state = gsp.block /\ s.block = gsp.block
        /\ Settled /\ core.sockets = 1 => DOMAIN pend.known \subseteq ToSet(core.mempool)
=============================================================================
