------------------------------ MODULE GameSync ------------------------------
(***************************************************************************)
(* Game: the state machine that keeps a game state in step with the        *)
(* blockchain.                                                             *)
(*                                                                         *)
(* Four threads act on it.  The ZMQ worker receives notifications and      *)
(* calls BlockAttach and BlockDetach; the main thread starts and stops the *)
(* instance; the connection checker probes the connection and reconnects;  *)
(* RPC threads read the state and set the target block.  They all hold     *)
(* Game's mutex for a whole handler, so a handler is one action, built     *)
(* from operators that map a record of the Game's fields and one of the    *)
(* node's to the next ones.  The node runs on meanwhile: it may move its   *)
(* tip between two RPC calls of the same handler.                          *)
(*                                                                         *)
(* A handler's result "throw" is an exception that leaves it.              *)
(***************************************************************************)
EXTENDS PruningQueue, CoreNode

CONSTANTS
    InitialState,                   \* GetInitialState
    GenesisHeight,
    GenesisHash,                    \* NoBlock if the game names only a height
    ProcessForward(_, _),           \* the new state for an old one and a block
    UndoFor(_, _),                  \* the undo data ProcessForward returns
    ProcessBackwards(_, _, _),
    StateAt,                        \* [Block -> state]: replay from the genesis
    BatchSize,                      \* transactionBatchSize, while catching up
    Pruning,                        \* whether EnablePruning was called
    Target,                         \* the blocks SetTargetBlock is called with
    Fault,                          \* the faults a behaviour may contain
    Losable,                        \* the kinds of notification that may be lost
    MidCallMoves,                   \* may the tip move between two RPC calls?
    MaxMoves, MaxFaults, MaxTargets \* bounds on the environment

(***************************************************************************)
(* StateAt is the game state a full replay arrives at, the reference the   *)
(* incremental updates are compared with.  The last conjunct is what a     *)
(* GameLogic promises: undo data takes the new state back to the old one.  *)
(***************************************************************************)
ASSUME GameAssumption ==
    /\ GenesisHeight \in Nat
    /\ GenesisHash \in Block \cup {NoBlock}
    /\ BatchSize \in Nat \ {0}
    /\ Target \subseteq Block
    /\ StateAt \in [Block -> GameState]
    /\ \A b \in Block : Height[b] = GenesisHeight => StateAt[b] = InitialState
    /\ \A b \in Block : Height[b] > GenesisHeight =>
         /\ Parent[b] \in Block
         /\ StateAt[b] = ProcessForward(StateAt[Parent[b]], b)
         /\ UndoFor(StateAt[Parent[b]], b) \in UndoData
         /\ ProcessBackwards(StateAt[b], b, UndoFor(StateAt[Parent[b]], b))
              = StateAt[Parent[b]]

VARIABLES
    game,       \* the fields of Game, its storage and pruning queue included
    node,       \* the daemon
    worker,     \* the ZMQ worker: "down", "running", "stopping" (asked to
                \* stop, perhaps with a message in hand) or "ending" (out of
                \* its loop, HasStopped not yet called)
    seq,        \* per topic: "first" before any message since Start, "gap"
                \* after a lost one, else "ok"
    conn,       \* "boot" before Start, "starting" and "connecting" inside
                \* ConnectToZmq between zmq.Start and the lock, else "idle"
    proc,       \* "up", "exited" or "aborted" (a failed CHECK, LOG(FATAL))
    used        \* how much of the bounds has been used up

vars == <<game, node, worker, seq, conn, proc, used>>

SyncState == {"UNKNOWN", "PREGENESIS", "OUT_OF_SYNC", "CATCHING_UP",
              "AT_TARGET", "UP_TO_DATE", "DISCONNECTED"}

Game == [state  : SyncState,
         target : Block \cup {NoBlock},     \* targetBlock
         goal   : Block \cup {NoBlock},     \* catchingUpTarget
         db     : Db,
         queue  : Queue]

FreshGame(contents) ==
    [state |-> "DISCONNECTED", target |-> NoBlock, goal |-> NoBlock,
     db |-> OpenDb(contents), queue |-> EmptyQueue]

\* What goes wrong at a given place of a handler under fault f.
NoFault == [at |-> "nowhere", kind |-> "none"]
At(f, place) == IF f.at = place THEN f.kind ELSE "none"

----------------------------------------------------------------------------
(* ReinitialiseState.  n is the node when getblockchaininfo is called, n2  *)
(* when the later calls of the same handler are.                           *)

Outcome(g, n, res) == [game |-> g, node |-> n, res |-> res]

SyncFromCurrentState(g, best, n2, f) ==
    LET cur     == g.db.work.hash
        flushed == SetBatchSize(g.db, 1, At(f, "flush") # "none")
        upd     == SendUpdates(n2, cur, "current")
    IN  IF cur = g.target
        THEN Outcome([g EXCEPT !.state = "AT_TARGET"], n2, "ok")
        ELSE IF best = cur
        THEN Outcome([g EXCEPT !.state = "UP_TO_DATE", !.db = flushed], n2,
                     IF flushed.commitFailed THEN "throw" ELSE "ok")
        ELSE IF At(f, "updates") # "none"
        THEN Outcome(g, n2, "throw")
        ELSE Outcome([g EXCEPT !.state = "CATCHING_UP", !.goal = upd.toblock,
                               !.db = SetBatchSize(g.db, BatchSize, FALSE)],
                     upd.node, "ok")

\* Resetting to the initial state, with the node already past the genesis.
StoreGenesis(g, n2, f) ==
    LET cleared == StorageClear(TryAbortTransaction(g.db), At(f, "clear") # "none")
        genesis == AncestorAt(n2.tip, GenesisHeight)
        stored  == ActiveTransaction(cleared,
                       WithState(cleared.work, genesis, InitialState),
                       GenesisHeight, "none").db
    IN  IF \/ At(f, "clear") # "none"
           \/ At(f, "hash") # "none"
           \/ Height[n2.tip] < GenesisHeight
        THEN Outcome([g EXCEPT !.db = cleared], n2, "throw")
        ELSE Outcome([g EXCEPT !.state = "OUT_OF_SYNC",
                               !.db = Checked(stored, GenesisHash \in {NoBlock, genesis},
                                              stored)],
                     n2, "ok")

\* The rest of ReinitialiseState, unless storing the genesis state failed.
SyncFromGenesis(o, best, n2, f) ==
    IF o.res # "ok" \/ ~o.game.db.ok THEN o
    ELSE SyncFromCurrentState(o.game, best, n2, f)

ReinitialiseState(game0, n, n2, f) ==
    LET g == [game0 EXCEPT !.state = "UNKNOWN"]
    IN  IF ~g.db.ok \/ At(f, "info") # "none"
        THEN Outcome(g, n2, "throw")
        ELSE IF g.db.work.hash # NoBlock
        THEN SyncFromCurrentState([g EXCEPT !.state = "OUT_OF_SYNC"], n.tip, n2, f)
        ELSE IF Height[n.tip] < GenesisHeight
        THEN Outcome([g EXCEPT !.state = "PREGENESIS"], n2, "ok")
        ELSE SyncFromGenesis(StoreGenesis(g, n2, f), n.tip, n2, f)

----------------------------------------------------------------------------
(* The notification handlers.                                              *)

\* Mutants: an attached block is not compared with the current one; its undo
\* data is not stored.
UpdateStateForAttachAnyParent(d, b, f) ==
    LET old == d.work.state
        new == WithState(WithUndo(d.work, b, UndoFor(old, b)), b,
                         ProcessForward(old, b))
    IN  IF d.work.hash = NoBlock
        THEN [db |-> Checked(d, FALSE, d), res |-> "stale"]
        ELSE ActiveTransaction(d, new, Height[b], At(f, "update"))
UpdateStateForAttachNoUndo(d, b, f) ==
    LET new == WithState(d.work, b, ProcessForward(d.work.state, b))
    IN  IF d.work.hash = NoBlock \/ d.work.hash # Parent[b]
        THEN [db |-> Checked(d, d.work.hash # NoBlock, d), res |-> "stale"]
        ELSE ActiveTransaction(d, new, Height[b], At(f, "update"))

\* res is "stale" where the C++ functions return false.
UpdateStateForAttach(d, b, f) ==
    LET old == d.work.state
        new == WithState(WithUndo(d.work, b, UndoFor(old, b)), b,
                         ProcessForward(old, b))
    IN  IF d.work.hash = NoBlock \/ d.work.hash # Parent[b]
        THEN [db |-> Checked(d, d.work.hash # NoBlock, d), res |-> "stale"]
        ELSE ActiveTransaction(d, new, Height[b], At(f, "update"))

UpdateStateForDetach(d, b, f) ==
    LET undo    == d.work.undo[b]
        cleared == StorageClear(TryAbortTransaction(d), At(f, "detachclear") # "none")
        old     == WithState(ReleaseUndoData(d.work, {b}), Parent[b],
                             ProcessBackwards(d.work.state, b, undo))
    IN  IF d.work.hash # b
        THEN [db |-> Checked(d, d.work.hash # NoBlock, d), res |-> "stale"]
        ELSE IF undo = NoUndo
        THEN [db |-> cleared,
              res |-> IF At(f, "detachclear") # "none" THEN "retry" ELSE "stale"]
        ELSE ActiveTransaction(d, old, Height[b] - 1, At(f, "update"))

IsReqtokenRelevant(g, m) ==
    m.token = IF g.state = "CATCHING_UP" THEN "current" ELSE "none"

\* The switch on the state: the new db, and in res whether the handler has to
\* reinitialise ("stale" or "retry") or lets an exception through ("throw").
HandleByState(g, m, f) ==
    CASE g.state = "PREGENESIS" ->
           [db  |-> g.db,
            res |-> IF m.kind = "attach" /\ Height[m.block] >= GenesisHeight
                    THEN "stale" ELSE "ok"]
      [] g.state \in {"CATCHING_UP", "UP_TO_DATE"} ->
           IF m.kind = "attach" THEN UpdateStateForAttach(g.db, m.block, f)
                                ELSE UpdateStateForDetach(g.db, m.block, f)
      [] OTHER ->
           [db |-> Checked(g.db, FALSE, g.db), res |-> "ok"]

\* The pruning queue follows every update, stale ones too, except for one that
\* has to be retried.  res is again why the handler has to reinitialise.
UpdateQueue(g, upd, m, f) ==
    LET q == QueueAttachBlock(upd.db, g.queue, m.block,
                              <<At(f, "initial"), At(f, "prune")>>)
    IN  IF ~Pruning \/ upd.res = "retry"
        THEN [db |-> upd.db, queue |-> g.queue, res |-> upd.res]
        ELSE IF m.kind = "detach"
        THEN [db |-> upd.db, queue |-> QueueDetachBlock(g.queue), res |-> upd.res]
        ELSE IF upd.res = "ok" THEN q ELSE [q EXCEPT !.res = upd.res]

\* Mutants: a failed or stale update is not followed up; the goal of the
\* catch-up is not noticed.
FinishBlockNoReinit(g, m, done, n, n2, f) ==
    LET next == [g EXCEPT !.db = done.db, !.queue = done.queue,
                          !.state = IF StepTo(m) = g.target THEN "AT_TARGET"
                                    ELSE @]
    IN  IF g.state = "CATCHING_UP" /\ StepTo(m) = g.goal
        THEN ReinitialiseState(next, n, n2, f)
        ELSE Outcome(next, n2, "ok")
FinishBlockNoGoal(g, m, done, n, n2, f) ==
    LET next == [g EXCEPT !.db = done.db, !.queue = done.queue,
                          !.state = IF StepTo(m) = g.target THEN "AT_TARGET"
                                    ELSE @]
    IN  IF done.res # "ok" THEN ReinitialiseState(next, n, n2, f)
        ELSE Outcome(next, n2, "ok")

\* The end of the handlers: the target block, the goal of the catch-up, and
\* whatever else makes them reinitialise.
FinishBlock(g, m, done, n, n2, f) ==
    LET next == [g EXCEPT !.db = done.db, !.queue = done.queue,
                          !.state = IF StepTo(m) = g.target THEN "AT_TARGET"
                                    ELSE @]
        needReinit == \/ done.res # "ok"
                      \/ g.state = "CATCHING_UP" /\ StepTo(m) = g.goal
    IN  IF needReinit THEN ReinitialiseState(next, n, n2, f)
        ELSE Outcome(next, n2, "ok")

\* A relevant notification with no gap before it.
HandleInSequence(g, m, n, n2, f) ==
    LET upd == HandleByState(g, m, f)
    IN  IF upd.res = "throw"
        THEN Outcome([g EXCEPT !.db = upd.db], n2, "throw")
        ELSE FinishBlock(g, m, UpdateQueue(g, upd, m, f), n, n2, f)

\* After a gap, the queue is filled anew from the resynced state on.
ResetQueue(o) ==
    IF Pruning /\ o.res = "ok" THEN [o EXCEPT !.game.queue = EmptyQueue] ELSE o

\* Mutant: a gap in the sequence numbers is ignored.
HandleBlockIgnoresGap(g, m, gap, n, n2, f) ==
    IF g.state = "AT_TARGET" \/ ~IsReqtokenRelevant(g, m)
    THEN Outcome(g, n2, "ok")
    ELSE HandleInSequence(g, m, n, n2, f)

\* BlockAttach and BlockDetach, which differ only in what is called above.
HandleBlock(g, m, gap, n, n2, f) ==
    IF g.state = "AT_TARGET" THEN Outcome(g, n2, "ok")
    ELSE IF gap THEN ResetQueue(ReinitialiseState(g, n, n2, f))
    ELSE IF ~IsReqtokenRelevant(g, m) THEN Outcome(g, n2, "ok")
    ELSE HandleInSequence(g, m, n, n2, f)

----------------------------------------------------------------------------
(* The steps of the system.                                                *)

Spend(what, n) == used' = [used EXCEPT ![what] = @ + n]

\* A handler runs under at most one fault, within the bound.
Faults == {NoFault} \cup IF used.faults < MaxFaults THEN Fault ELSE {}

\* The node between two calls of one handler.
Meanwhile(n) ==
    {n} \cup IF MidCallMoves /\ used.moves < MaxMoves THEN NodeMoves(n) ELSE {}

SpendIn(f, n, n2) ==
    used' = [used EXCEPT !.faults = @ + IF f = NoFault THEN 0 ELSE 1,
                         !.moves  = @ + IF n = n2 THEN 0 ELSE 1]

\* The process is gone: what remains is the disk and the node.
ProcessEnds(how, contents, n) ==
    /\ proc' = how
    /\ game' = FreshGame(contents)
    /\ node' = [n EXCEPT !.net = <<>>, !.open = FALSE]
    /\ worker' = "down"
    /\ conn' = "boot"
    /\ seq' = [k \in Kind |-> "first"]

\* The worker leaves its loop: it will read no further notifications.
Deaf(n) == [n EXCEPT !.net = <<>>, !.open = FALSE]

NodeMove ==
    /\ used.moves < MaxMoves
    /\ node' \in NodeMoves(node)
    /\ Spend("moves", 1)
    /\ UNCHANGED <<game, worker, seq, conn, proc>>

\* ZMQ drops the oldest notification (a full queue, a broken connection).
LoseMessage ==
    /\ used.faults < MaxFaults
    /\ node.net # <<>>
    /\ Head(node.net).kind \in Losable
    /\ node' = [node EXCEPT !.net = Tail(@)]
    /\ seq' = [seq EXCEPT ![Head(node.net).kind] = "gap"]
    /\ Spend("faults", 1)
    /\ UNCHANGED <<game, worker, conn, proc>>

CanDeliver == worker \in {"running", "stopping"} /\ node.net # <<>>

\* The worker takes a notification through the whole of its handler.  Asked
\* to stop, it may still have one in hand, waiting for the mutex.
Deliver ==
    /\ CanDeliver
    /\ LET m == Head(node.net)
           n == [node EXCEPT !.net = Tail(@)]
       IN  \E f \in Faults, n2 \in Meanwhile(n) :
           \E r \in {HandleBlock(game, m, seq[m.kind] # "ok", n, n2, f)} :
             /\ SpendIn(f, n, n2)
             /\ IF r.game.db.ok
                THEN LET last == r.res = "throw" \/ worker = "stopping"
                     IN  /\ game' = r.game
                         /\ node' = IF last THEN Deaf(r.node) ELSE r.node
                         /\ worker' = IF last THEN "ending" ELSE "running"
                         /\ seq' = [seq EXCEPT ![m.kind] = "ok"]
                         /\ UNCHANGED <<conn, proc>>
                ELSE ProcessEnds("aborted", r.game.db.disk, r.node)

WorkerStops ==
    /\ worker = "stopping"
    /\ worker' = "ending"
    /\ node' = Deaf(node)
    /\ UNCHANGED <<game, seq, conn, proc, used>>

HasStopped ==
    /\ worker = "ending"
    /\ worker' = "down"
    /\ game' = [game EXCEPT !.state = "DISCONNECTED"]
    /\ UNCHANGED <<node, seq, conn, proc, used>>

\* ConnectToZmq up to zmq.Start, by the main thread or by the checker.
ConnectStart ==
    /\ proc = "up"
    /\ conn \in {"boot", "idle"}
    /\ game.state = "DISCONNECTED"
    /\ worker = "down"
    /\ worker' = "running"
    /\ seq' = [k \in Kind |-> "first"]
    /\ node' = [node EXCEPT !.net = <<>>, !.open = TRUE]
    /\ conn' = IF conn = "boot" THEN "starting" ELSE "connecting"
    /\ UNCHANGED <<game, proc, used>>

RequestStop(w) == IF w = "running" THEN "stopping" ELSE w

CanReinit == conn \in {"starting", "connecting"}

\* The rest of ConnectToZmq, once it has the lock.  While the process starts
\* up, an exception ends in DefaultMain's LOG(FATAL); the checker catches it.
ConnectReinit ==
    /\ CanReinit
    /\ \E f \in Faults, n2 \in Meanwhile(node) :
       \E r \in {ReinitialiseState(game, node, n2, f)} :
         /\ SpendIn(f, node, n2)
         /\ IF r.game.db.ok /\ (conn = "starting" => r.res = "ok")
            THEN /\ game' = r.game
                 /\ node' = r.node
                 /\ worker' = IF r.res = "ok" THEN worker ELSE RequestStop(worker)
                 /\ conn' = "idle"
                 /\ UNCHANGED <<seq, proc>>
            ELSE ProcessEnds("aborted", r.game.db.disk, r.node)

\* Nothing has been received for a while: the checker has the node send the
\* last block again.  Game does not remember this request's token.
Ping ==
    /\ conn = "idle"
    /\ game.state # "DISCONNECTED"
    /\ node.net = <<>>
    /\ node' = SendUpdates(node, Parent[node.tip], "old").node
    /\ UNCHANGED <<game, worker, seq, conn, proc, used>>

\* The ping's RPC calls throw, or even the ping has not arrived in time.
ProbeFails ==
    /\ conn = "idle"
    /\ used.faults < MaxFaults
    /\ worker = "running"
    /\ [at |-> "probe", kind |-> "rpc"] \in Fault
    /\ worker' = RequestStop(worker)
    /\ Spend("faults", 1)
    /\ UNCHANGED <<game, node, seq, conn, proc>>

\* An RPC thread sets the target block (or none) and reinitialises; an
\* exception goes to the RPC caller.
SetTargetBlock ==
    /\ proc = "up"
    /\ used.targets < MaxTargets
    /\ \E b \in (Target \cup {NoBlock}) \ {game.target},
          f \in Faults, n2 \in Meanwhile(node) :
       \E r \in {LET g == [game EXCEPT !.target = b]
                 IN  IF game.state = "DISCONNECTED" THEN Outcome(g, n2, "ok")
                     ELSE ReinitialiseState(g, node, n2, f)} :
         /\ used' = [used EXCEPT !.targets = @ + 1,
                       !.faults = @ + IF f = NoFault THEN 0 ELSE 1,
                       !.moves  = @ + IF n2 = node THEN 0 ELSE 1]
         /\ IF r.game.db.ok
            THEN /\ game' = r.game
                 /\ node' = r.node
                 /\ UNCHANGED <<worker, seq, conn, proc>>
            ELSE ProcessEnds("aborted", r.game.db.disk, r.node)

\* GetCustomStateData looks up the height, which is cached again.
GetCustomStateData ==
    /\ proc = "up"
    /\ CacheHeight(game.db) # game.db
    /\ game' = [game EXCEPT !.db = CacheHeight(@)]
    /\ UNCHANGED <<node, worker, seq, conn, proc, used>>

\* Stop: the checker and the worker are joined (a running worker calls
\* HasStopped), then the destructor of the transaction manager flushes.
Shutdown ==
    /\ conn = "idle"
    /\ worker \in {"running", "down"}
    /\ used.faults < MaxFaults
    /\ [at |-> "process", kind |-> "stop"] \in Fault
    /\ LET d == Flush(game.db, FALSE)
       IN  IF d.ok /\ (worker = "down" => game.state = "DISCONNECTED")
           THEN ProcessEnds("exited", d.disk, node)
           ELSE ProcessEnds("aborted", game.db.disk, node)
    /\ Spend("faults", 1)

\* The process is killed.
Crash ==
    /\ proc = "up"
    /\ used.faults < MaxFaults
    /\ [at |-> "process", kind |-> "crash"] \in Fault
    /\ ProcessEnds("exited", game.db.disk, node)
    /\ Spend("faults", 1)

Restart ==
    /\ proc # "up"
    /\ proc' = "up"
    /\ UNCHANGED <<game, node, worker, seq, conn, used>>

Init ==
    /\ node \in [tip : {b \in Block : Parent[b] # NoBlock}, net : {<<>>}, open : {FALSE}]
    /\ game = FreshGame(EmptyContents)
    /\ worker = "down"
    /\ seq = [k \in Kind |-> "first"]
    /\ conn = "boot"
    /\ proc = "up"
    /\ used = [moves |-> 0, faults |-> 0, targets |-> 0]

Next ==
    \/ NodeMove \/ LoseMessage
    \/ Deliver \/ WorkerStops \/ HasStopped
    \/ ConnectStart \/ ConnectReinit \/ Ping \/ ProbeFails
    \/ SetTargetBlock \/ GetCustomStateData
    \/ Shutdown \/ Crash \/ Restart

Spec == Init /\ [][Next]_vars

----------------------------------------------------------------------------
(* Properties.                                                             *)

\* Every variable has its type; a handler never returns with a transaction
\* of its own still open.
TypeOK ==
    /\ game \in Game
    /\ node \in Node
    /\ worker \in {"down", "running", "stopping", "ending"}
    /\ seq \in [Kind -> {"first", "ok", "gap"}]
    /\ conn \in {"boot", "starting", "connecting", "idle"}
    /\ proc \in {"up", "exited", "aborted"}
    /\ used \in [moves : Nat, faults : Nat, targets : Nat]
    /\ ~game.db.inTxn /\ game.db.ok

\* Contents are consistent: the stored state is the one a replay from the
\* genesis block arrives at, and undo data leads back to the parent's state.
Replayed(c) ==
    /\ IF c.hash = NoBlock THEN c.state = NoState
       ELSE Height[c.hash] >= GenesisHeight /\ c.state = StateAt[c.hash]
    /\ \A b \in Block : c.undo[b] # NoUndo =>
         /\ Height[b] > GenesisHeight
         /\ c.undo[b] = UndoFor(StateAt[Parent[b]], b)

\* Whatever order attaches, detaches, lost or repeated notifications, failed
\* commits, reinitialisations and crashes come in, the state that Game reports
\* for a block, and the one on disk, is exactly that block's state.
StateMatchesHash == Replayed(game.db.work) /\ Replayed(game.db.disk)

\* The height reported along with the state is the height of its block: the
\* cache survives no rollback, clear or restart that changes the block.  (A
\* commit that fails outside of any transaction is the exception.)
CachedHeightMatches ==
    (game.db.height # NoHeight /\ ~game.db.commitFailed) =>
        game.db.work.hash # NoBlock /\ game.db.height = Height[game.db.work.hash]

\* Whoever sees UP_TO_DATE sees a state that a crash will not undo: nothing
\* that was batched while catching up is still waiting to be committed.
UpToDateIsDurable ==
    game.state = "UP_TO_DATE" => game.db.work = game.db.disk

\* Every block between the genesis and the current block can still be undone,
\* in the storage as read and on disk, as long as nothing is pruned.
UndoAvailable ==
    \A c \in {game.db.work, game.db.disk} : c.hash # NoBlock =>
        \A b \in Ancestors[c.hash] : Height[b] > GenesisHeight => c.undo[b] # NoUndo

\* While catching up to a block it is not at, with no notification missed, the
\* message that completes the current request is still to come.
CatchUpCompletes ==
    (/\ game.state = "CATCHING_UP"
     /\ game.db.work.hash # game.goal
     /\ worker = "running"
     /\ \A k \in Kind : seq[k] # "gap")
      => \E i \in DOMAIN node.net : /\ node.net[i].token = "current"
                                    /\ StepTo(node.net[i]) = game.goal

\* AT_TARGET freezes the sync at the target block and at no other, although the
\* handlers set it before they know whether their update went through.  (With
\* no game state at all, AT_TARGET can be set while waiting for the genesis.)
AtTargetMeansSynced ==
    (game.state = "AT_TARGET" /\ game.db.work.hash # NoBlock) =>
        game.db.work.hash = game.target

\* Pruning gives up a block's undo data only once the block lies at least
\* NBlocks below the current one.
PrunesOnlyOldBlocks ==
    [][LET c == game'.db.work
       IN  c.hash # NoBlock => \A b \in Ancestors[c.hash] :
             (game.db.work.undo[b] # NoUndo /\ c.undo[b] = NoUndo) =>
                 Height[b] + NBlocks <= Height[c.hash]]_vars

\* A failed commit has been rolled back by the time its handler is over.
FailedCommitRolledBack == ~game.db.commitFailed

----------------------------------------------------------------------------
(* Progress.                                                               *)

(***************************************************************************)
(* The worker and the checker are threads that keep running, and nobody    *)
(* holds the mutex forever.  For the two actions that run a handler, weak  *)
(* fairness is spelled out: they are enabled exactly when their guard is   *)
(* true, and TLC need not evaluate the handler to find that out.           *)
(***************************************************************************)
Fairness ==
    /\ []<>~CanDeliver \/ []<><<Deliver>>_vars
    /\ []<>~CanReinit \/ []<><<ConnectReinit>>_vars
    /\ WF_vars(WorkerStops) /\ WF_vars(HasStopped)
    /\ WF_vars(ConnectStart) /\ WF_vars(Ping)

FairSpec == Spec /\ Fairness

Synced ==
    IF Height[node.tip] < GenesisHeight
    THEN game.state = "PREGENESIS"
    ELSE game.state = "UP_TO_DATE" /\ game.db.work.hash = node.tip

\* Once the chain settles, so does the game: through reorgs, failed and retried
\* storage updates, lost attach notifications and reconnections it ends up at
\* the tip and says so.
EventuallySynced == <>[]Synced

\* The connection checker notices a listener that has stopped: it marks the
\* state as disconnected and reconnects.
StoppedListenerRestarted ==
    (worker = "down" /\ conn = "idle") ~> (worker = "running" \/ proc # "up")
=============================================================================
