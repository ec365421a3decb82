---------------------------- MODULE GameThreads -----------------------------
(***************************************************************************)
(* The threads of a GSP around Game's mutex: the main loop with start and  *)
(* stop, the ZMQ listener that changes the state, RPC calls that wait for  *)
(* a change; and as their clients the polling threads of the websocket     *)
(* server, one for blocks and one for the pending state.                   *)
(***************************************************************************)
EXTENDS Integers, FiniteSets

CONSTANTS
    Poller,             \* threads of the websocket server
    PendingPoller,      \* those of them that poll the pending state
    BlockHash, NullHash,
    StartBlocks,        \* the blocks the storage may be at when the game is started
    MaxChanges,         \* bound on changes by the listener
    MaxErrors,          \* bound on failing RPC calls and pushes
    CoreAnswers,        \* what a SpaceXpanse Core may say at start-up:
                        \* [chain, version, notifications]
    MinVersion, MaxVersion,     \* of the configuration; a maximum of 0 is none
    NoOwner             \* the mutex is free

ASSUME ThreadsAssumption ==
    /\ PendingPoller \subseteq Poller
    /\ NullHash \notin BlockHash /\ StartBlocks \subseteq BlockHash
    /\ MaxChanges \in Nat /\ MaxErrors \in Nat
    /\ \A core \in CoreAnswers : core.version \in Nat /\ MinVersion \in Nat /\ MaxVersion \in Nat
    /\ NoOwner \notin Poller

VARIABLES
    game,       \* [mut, block, version: pendingStateVersion, zmq: running, changes]
    main,       \* the main thread
    loop,       \* MainLoop: [running, shouldStop, asked: a Stop that has to take effect]
    call,       \* per poller: [pc, known, reply]
    errors

threadVars == <<game, main, loop, call, errors>>

\* WAITFORCHANGE_ALWAYS_BLOCK and no known block.
FirstKnown(p) == IF p \in PendingPoller THEN <<0, NullHash>> ELSE NullHash

ThreadsInit ==
    /\ game = [mut |-> NoOwner, block |-> NullHash, version |-> 1, zmq |-> FALSE, changes |-> 0]
    /\ main = "connect"
    /\ loop = [running |-> FALSE, shouldStop |-> FALSE, asked |-> FALSE]
    /\ call = [p \in Poller |-> [pc |-> "poll", known |-> FirstKnown(p), reply |-> FirstKnown(p)]]
    /\ errors = 0

Free == game.mut = NoOwner

\* The components, the RPC server among them, are started.
RpcServerUp == main \notin {"connect", "connected", "begin", "aborted", "game ends", "done",
                            "terminated"}

----------------------------------------------------------------------------
(* Notifications: all calls that sleep on the condition variable go on.    *)

Woken(ps) == [p \in Poller |-> IF p \in ps /\ call[p].pc = "sleep"
                               THEN [call[p] EXCEPT !.pc = "woken"] ELSE call[p]]

NotifyStateChange == Poller \ PendingPoller
NotifyPendingStateChange == PendingPoller

\* The listener attaches or detaches a block, perhaps while catching up, when
\* the pending state is left alone.
ChangeBlock(b, catchingUp) ==
    /\ game.zmq /\ Free /\ game.changes < MaxChanges /\ b # game.block
    /\ game' = [game EXCEPT !.block = b, !.changes = @ + 1,
                            !.version = IF catchingUp THEN @ ELSE @ + 1]
    /\ call' = Woken(NotifyStateChange \cup IF catchingUp THEN {} ELSE NotifyPendingStateChange)
    /\ UNCHANGED <<main, loop, errors>>

ChangePending ==
    /\ game.zmq /\ Free /\ game.changes < MaxChanges /\ game.block # NullHash
    /\ game' = [game EXCEPT !.version = @ + 1, !.changes = @ + 1]
    /\ call' = Woken(NotifyPendingStateChange)
    /\ UNCHANGED <<main, loop, errors>>

----------------------------------------------------------------------------
(* WaitForChange and WaitForPendingChange.                                 *)

\* What a call returns, with the mutex.
Current(p) == IF p \in PendingPoller THEN <<game.version, game.block>> ELSE game.block

ReturnsAtOnce(p) ==
    IF p \in PendingPoller
    THEN call[p].known[1] # 0 /\ call[p].known[1] # game.version
    ELSE call[p].known # NullHash /\ game.block # NullHash /\ call[p].known # game.block

\* The call gets the lock.  If it has to wait, it keeps the lock until it is
\* on the condition variable.
CallStart(p) ==
    /\ call[p].pc = "poll" /\ RpcServerUp /\ Free
    /\ IF ReturnsAtOnce(p) \/ ~game.zmq
       THEN /\ call' = [call EXCEPT ![p].pc = "reply", ![p].reply = Current(p)]
            /\ UNCHANGED game
       ELSE /\ call' = [call EXCEPT ![p].pc = "enter"]
            /\ game' = [game EXCEPT !.mut = p]
    /\ UNCHANGED <<main, loop, errors>>

Sleep(p) ==
    /\ call[p].pc = "enter"
    /\ call' = [call EXCEPT ![p].pc = "sleep"]
    /\ game' = [game EXCEPT !.mut = NoOwner]
    /\ UNCHANGED <<main, loop, errors>>

\* Mutant: the wait has no timeout.
TimeoutNever(p) == FALSE /\ UNCHANGED threadVars

Timeout(p) ==
    /\ call[p].pc = "sleep"
    /\ call' = [call EXCEPT ![p].pc = "woken"]
    /\ UNCHANGED <<game, main, loop, errors>>

CallFinish(p) ==
    /\ call[p].pc = "woken" /\ Free
    /\ call' = [call EXCEPT ![p].pc = "reply", ![p].reply = Current(p)]
    /\ UNCHANGED <<game, main, loop, errors>>

----------------------------------------------------------------------------
(* The loop of the websocket server.                                       *)

Push(p) ==
    /\ call[p].pc = "reply"
    /\ call' = [call EXCEPT ![p] = [pc |-> "poll", known |-> call[p].reply,
                                   reply |-> FirstKnown(p)]]
    /\ UNCHANGED <<game, main, loop, errors>>

\* An exception from the push: wait, then ask again with what was known.
PushFails(p) ==
    /\ call[p].pc = "reply" /\ call[p].reply # call[p].known /\ errors < MaxErrors
    /\ call' = [call EXCEPT ![p].pc = "backoff", ![p].reply = FirstKnown(p)]
    /\ errors' = errors + 1
    /\ UNCHANGED <<game, main, loop>>

\* The connection fails while the call runs, or the server is not there.
CallFails(p) ==
    /\ \/ call[p].pc = "sleep" /\ errors < MaxErrors
       \/ call[p].pc = "poll" /\ ~RpcServerUp
    /\ call' = [call EXCEPT ![p].pc = "backoff"]
    /\ errors' = IF call[p].pc = "sleep" THEN errors + 1 ELSE errors
    /\ UNCHANGED <<game, main, loop>>

Retry(p) ==
    /\ call[p].pc = "backoff"
    /\ call' = [call EXCEPT ![p].pc = "poll"]
    /\ UNCHANGED <<game, main, loop, errors>>

----------------------------------------------------------------------------
(* DefaultMain, MainLoop and Game.  The lock of the main loop is held from *)
(* "starting" on, except while it waits for shouldStop.                    *)

\* getnetworkinfo in a loop until Core answers.
WaitForSpaceXpanse(answers) ==
    /\ main = "connect" /\ (answers \/ errors < MaxErrors)
    /\ main' = IF answers THEN "connected" ELSE "connect"
    /\ errors' = IF answers THEN errors ELSE errors + 1
    /\ UNCHANGED <<game, loop, call>>

VerifySpaceXpanseVersion(v) == v >= MinVersion /\ (MaxVersion = 0 \/ v <= MaxVersion)

CHAIN_NAMES == {"main", "test", "regtest", "polygon", "mumbai", "ganache"}
ChainFromString(name) == IF name \in CHAIN_NAMES THEN name ELSE "unknown"

ConnectRpcClient(chain) == ChainFromString(chain) # "unknown"

\* The pending notifier is optional, the one of blocks is not.
DetectZmqEndpoint(notifications) == "pubgameblocks" \in notifications

ConnectsTo(core) ==
    /\ ConnectRpcClient(core.chain)
    /\ VerifySpaceXpanseVersion(core.version)
    /\ DetectZmqEndpoint(core.notifications)

CreateStorage(type) == type \in {"memory", "lmdb", "sqlite"}

\* Up to the components: the node is checked; then storage, game logic, pending
\* moves and pruning are set.
DefaultMain(core, type) ==
    /\ main = "connected"
    /\ main' = IF ConnectsTo(core) /\ CreateStorage(type) THEN "begin" ELSE "aborted"
    /\ UNCHANGED <<game, loop, call, errors>>

\* The same with the storage of the SQLite game, whatever the configured type.
SQLiteMain(core) ==
    /\ main = "connected"
    /\ main' = IF ConnectsTo(core) THEN "begin" ELSE "aborted"
    /\ UNCHANGED <<game, loop, call, errors>>

StartComponents ==
    /\ main = "begin"
    /\ main' = "components up"
    /\ UNCHANGED <<game, loop, call, errors>>

RunMainLoop ==
    /\ main = "components up"
    /\ main' = "starting"
    /\ loop' = [loop EXCEPT !.running = TRUE, !.shouldStop = FALSE]
    /\ UNCHANGED <<game, call, errors>>

\* Game::Start with ConnectToZmq and ReinitialiseState.
Start ==
    /\ main = "starting" /\ Free
    /\ main' = "waiting"
    /\ \E b \in StartBlocks : game' = [game EXCEPT !.zmq = TRUE, !.block = b]
    /\ call' = Woken(NotifyStateChange)
    /\ UNCHANGED <<loop, errors>>

\* An exception of a call to Core in the start or the stop function ends the
\* process, and the calls it is asked with it.
Terminate ==
    /\ Free /\ errors < MaxErrors
    /\ main' = "terminated"
    /\ errors' = errors + 1
    /\ call' = [p \in Poller |-> IF call[p].pc \in {"sleep", "woken"}
                                 THEN [call[p] EXCEPT !.pc = "backoff"] ELSE call[p]]
    /\ UNCHANGED <<game, loop>>

\* TrackGame or ReinitialiseState throws.  There is no StartStopRunner yet that
\* would stop the game again, and the main loop stays running: the CHECK of its
\* destructor fails.
StartFails == main = "starting" /\ Terminate

\* Mutant: the main loop is woken up without a reason to end.
StopNotifiesOnly ==
    /\ main \in {"components up", "waiting"}
    /\ loop' = [loop EXCEPT !.asked = @ \/ main = "waiting"]
    /\ UNCHANGED <<game, main, call, errors>>

\* MainLoop::Stop, from an RPC call or a signal on another thread.  It is
\* held up while the main thread has the lock.
Stop ==
    /\ main \in {"components up", "waiting"}
    /\ loop' = [loop EXCEPT !.shouldStop = TRUE, !.asked = @ \/ main = "waiting"]
    /\ UNCHANGED <<game, main, call, errors>>

\* Game::Stop calls zmq.Stop and joins the listener.  The flag that calls
\* look at is reset without the mutex, HasStopped then takes it.
ZmqStop ==
    /\ main = "waiting" /\ loop.shouldStop
    /\ main' = "joining"
    /\ game' = [game EXCEPT !.zmq = FALSE]
    /\ UNCHANGED <<loop, call, errors>>

HasStopped ==
    /\ main = "joining" /\ Free
    /\ main' = "untrack"
    /\ UNCHANGED <<game, loop, call, errors>>

UntrackGame ==
    /\ main = "untrack" /\ Free
    /\ main' = "notify"
    /\ UNCHANGED <<game, loop, call, errors>>

\* The RPC call throws, out of the destructor of StartStopRunner.
UntrackGameFails == main = "untrack" /\ Terminate

\* Mutant: calls that wait for the pending state are forgotten.
NotifyStoppedBlocksOnly ==
    /\ main = "notify"
    /\ main' = "stopped"
    /\ call' = Woken(NotifyStateChange)
    /\ loop' = [loop EXCEPT !.running = FALSE]
    /\ UNCHANGED <<game, errors>>

\* These notifications are made without the mutex.
NotifyStopped ==
    /\ main = "notify"
    /\ main' = "stopped"
    /\ call' = Woken(NotifyStateChange \cup NotifyPendingStateChange)
    /\ game' = [game EXCEPT !.version = @ + 1]
    /\ loop' = [loop EXCEPT !.running = FALSE]
    /\ UNCHANGED errors

\* The RPC server stops once its calls have returned.
StopComponents ==
    /\ main = "stopped"
    /\ \A p \in Poller : call[p].pc \notin {"enter", "sleep", "woken"}
    /\ main' = "game ends"
    /\ UNCHANGED <<game, loop, call, errors>>

\* game.reset flushes what is batched, before the storage goes.
DestroyGame ==
    /\ main = "game ends"
    /\ main' = "done"
    /\ UNCHANGED <<game, loop, call, errors>>

----------------------------------------------------------------------------
PollerStep(p) ==
    \/ CallStart(p) \/ Sleep(p) \/ Timeout(p) \/ CallFinish(p)
    \/ Push(p) \/ PushFails(p) \/ CallFails(p) \/ Retry(p)

MainStep ==
    \/ WaitForSpaceXpanse(TRUE)
    \/ \E core \in CoreAnswers :
          SQLiteMain(core) \/ \E type \in {"lmdb", "other"} : DefaultMain(core, type)
    \/ StartComponents \/ RunMainLoop \/ Start
    \/ ZmqStop \/ HasStopped \/ UntrackGame \/ NotifyStopped \/ StopComponents
    \/ DestroyGame

ThreadsNext ==
    \/ \E p \in Poller : PollerStep(p)
    \/ MainStep
    \/ WaitForSpaceXpanse(FALSE) \/ StartFails \/ UntrackGameFails
    \/ Stop
    \/ \E b \in BlockHash, c \in BOOLEAN : ChangeBlock(b, c)
    \/ ChangePending

\* Threads go on, and a lock that is free again and again is got at last.
\* (Calls are not bound to fail.)
PollerGoesOn(p) ==
    CallStart(p) \/ Sleep(p) \/ Timeout(p) \/ CallFinish(p) \/ Push(p) \/ Retry(p)

ThreadsFairness ==
    /\ \A p \in Poller : SF_threadVars(PollerGoesOn(p))
    /\ SF_threadVars(MainStep)

ThreadsSpec == ThreadsInit /\ [][ThreadsNext]_threadVars

----------------------------------------------------------------------------
(* Properties.                                                             *)

\* When Game::Stop is done, no call is left asleep: the calls that found the
\* listener running have been woken up, although the last notification is
\* made without the mutex, and later ones do not wait.
StopWakesAll == main \in {"stopped", "game ends", "done"} => \A p \in Poller : call[p].pc # "sleep"

\* The clients of the websocket server are told of the state the GSP has come
\* to, again and again as long as it runs, whatever notifications come while
\* a poller is not waiting, and whatever calls fail.
PushedAtLast ==
    []<>(main = "waiting" =>
            \A p \in Poller : IF p \in PendingPoller THEN call[p].known[1] = game.version
                                                   ELSE call[p].known = game.block)

\* A stop while the main loop is running ends the daemon: in order, unless a
\* failing call terminates it (MainLoop::Stop, Game::Stop).
StopEnds == loop.asked ~> main \in {"done", "terminated"}
=============================================================================
