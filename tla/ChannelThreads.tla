---------------------------- MODULE ChannelThreads ----------------------------
(***************************************************************************)
(* The threads of a channel daemon around the SynchronisedChannelManager:  *)
(* the main thread with Start and Stop, the loop that feeds blocks from    *)
(* the GSP, the loop that receives off-chain messages from the broadcast   *)
(* server, and RPC calls of frontends that wait for a change.              *)
(*                                                                         *)
(* What the manager does with a block or a message is the subject of       *)
(* module ChannelManager; here an update is a step of its version, and may *)
(* broadcast the state that automoves lead to.  Steps                      *)
(* under the manager's lock are atomic; between two of them, anything may  *)
(* happen.  The GSP and the broadcast server are processes of their own.   *)
(***************************************************************************)
EXTENDS Naturals, Sequences, SequencesExt, FiniteSets, TLC

CONSTANTS
    Frontends,     \* threads that call waitforchange
    GspStates,     \* what the GSP can be at: [block: 0 for none, upToDate]; with
                   \* a block, the channel exists
    MaxEvents      \* bound on what happens around the daemon: changes of the
                   \* GSP, messages, restarts of the server, calls that fail

ASSUME DaemonAssumption == IsFiniteSet(Frontends) /\ MaxEvents \in Nat

VARIABLES
    daemon,     \* [pc of the main thread, shouldStop, asked: a stop has to take effect]
    gspState,   \* the GSP, a member of GspStates
    server,     \* the broadcast server: [messages, sent, restarted]
    feeder,     \* ChainToChannelFeeder: [pc, lastBlock, stopLoop]
    receiver,   \* RpcBroadcast: [pc, seq, batch, stopLoop, first: sent at the start]
    manager,    \* [version, block, stopped, waiting, fed: messages it got]
    front,      \* per frontend: [pc, arg, known]
    events      \* how many events there were

daemonVars == <<daemon, gspState, server, feeder, receiver, manager, front, events>>

Kinds == {"state", "own", "large", "junk"}

\* The objects as they are constructed.
ChannelDaemon == [pc |-> "ready", shouldStop |-> FALSE, asked |-> FALSE]
BroadcastServer == [messages |-> <<>>, sent |-> 0, restarted |-> FALSE]
ChainToChannelFeeder == [pc |-> "off", lastBlock |-> 0, stopLoop |-> FALSE]
ReceivingBroadcast == [pc |-> "off", batch |-> <<>>, stopLoop |-> FALSE]
RpcBroadcast ==
    LET base == ReceivingBroadcast
    IN  [pc |-> base.pc, seq |-> 0, batch |-> base.batch, stopLoop |-> base.stopLoop, first |-> 0]
SynchronisedChannelManager ==
    [version |-> 1, block |-> 0, stopped |-> FALSE, waiting |-> 0, fed |-> <<>>]

\* main: the daemon is set up and its RPC server listens, then it is run.  The
\* GSP may run already.
DaemonInit ==
    /\ daemon = ChannelDaemon
    /\ gspState \in GspStates \cup {[block |-> 0, upToDate |-> FALSE]}
    /\ server = BroadcastServer
    /\ feeder = ChainToChannelFeeder
    /\ receiver = RpcBroadcast
    /\ manager = SynchronisedChannelManager
    /\ front = [f \in Frontends |-> [pc |-> "idle", arg |-> 0, known |-> 0]]
    /\ events = 0

\* The process runs: it has neither ended nor been terminated by an exception
\* that leaves a thread's function.
Alive == daemon.pc \notin {"gone", "terminated"}

Event == Alive /\ events < MaxEvents /\ events' = events + 1

----------------------------------------------------------------------------
(* Other processes.                                                        *)

\* The GSP attaches a block, loses its state in a reorg, or catches up.
GspChanges(next) ==
    /\ Event /\ next # gspState
    /\ gspState' = next
    /\ UNCHANGED <<daemon, server, feeder, receiver, manager, front>>

\* Channel.send of the server.
Sent(kind) ==
    [server EXCEPT !.messages = Append(@, [id |-> server.sent + 1, kind |-> kind]),
                   !.sent = @ + 1]

PeerSends(kind) ==
    /\ Event
    /\ server' = Sent(kind)
    /\ UNCHANGED <<daemon, gspState, feeder, receiver, manager, front>>

\* The server keeps its messages in memory only.
ServerRestarts ==
    /\ Event
    /\ server' = [server EXCEPT !.messages = <<>>, !.restarted = TRUE]
    /\ UNCHANGED <<daemon, gspState, feeder, receiver, manager, front>>

\* Channel.receive: the messages from the index on, and their number.
ServerReceive(fromSeq) ==
    [messages |-> SubSeq(server.messages, fromSeq + 1, Len(server.messages)),
     seq |-> Len(server.messages)]

----------------------------------------------------------------------------
(* SynchronisedChannelManager.                                             *)

\* cvStateChanged.notify_all.
NotifyAll ==
    front' = [f \in Frontends |-> IF front[f].pc = "waiting"
                                  THEN [front[f] EXCEPT !.pc = "woken"] ELSE front[f]]

\* Mutant: the manager is not registered for the callback.
StateChangedUnheard == UNCHANGED front

StateChanged == NotifyAll

\* ProcessStateUpdate: NotifyStateChange comes last.
NewVersion(m) == [m EXCEPT !.version = @ + 1]

\* Before, the state that automoves lead to is broadcast.
Broadcast(automoves) ==
    IF automoves THEN Event /\ server' = Sent("own") ELSE UNCHANGED <<server, events>>

\* A send that throws ends the update before the change is notified; it may be
\* a transaction after the broadcast, or the broadcast itself.
SendFails ==
    /\ Event
    /\ server' \in {server, Sent("own")}

\* What the answer tells the frontend.
ToJson(f) == [front[f] EXCEPT !.pc = "idle", !.arg = 0, !.known = manager.version]

\* The call until it returns or sleeps, in one critical section.
WaitForChange(f, known) ==
    /\ Alive /\ daemon.pc # "listening stops"
    /\ front[f].pc = "idle"
    /\ LET returns == (known # 0 /\ known # manager.version) \/ manager.stopped
       IN  /\ front' = [front EXCEPT ![f] =
                            IF returns THEN ToJson(f)
                            ELSE [front[f] EXCEPT !.pc = "waiting", !.arg = known]]
           /\ manager' = IF returns THEN manager ELSE [manager EXCEPT !.waiting = @ + 1]
    /\ UNCHANGED <<daemon, gspState, server, feeder, receiver, events>>

\* WAITFORCHANGE_TIMEOUT, or a spurious wakeup.
WaitTimeout(f) ==
    /\ Alive /\ front[f].pc = "waiting"
    /\ front' = [front EXCEPT ![f].pc = "woken"]
    /\ UNCHANGED <<daemon, gspState, server, feeder, receiver, manager, events>>

WaitReturns(f) ==
    /\ Alive /\ front[f].pc = "woken"
    /\ front' = [front EXCEPT ![f] = ToJson(f)]
    /\ manager' = [manager EXCEPT !.waiting = @ - 1]
    /\ UNCHANGED <<daemon, gspState, server, feeder, receiver, events>>

\* Local moves and off-chain states need a channel that is known on chain.
ChannelKnown == manager.block # 0

\* A frontend's move: the new state goes to the server, then the change is
\* notified.
FrontendMove ==
    /\ daemon.pc # "listening stops" /\ ChannelKnown
    /\ Event
    /\ server' = Sent("own")
    /\ manager' = NewVersion(manager)
    /\ StateChanged
    /\ UNCHANGED <<daemon, gspState, feeder, receiver>>

\* The exception is the answer of the RPC call; the move stays made, but its
\* version is not counted.
FrontendMoveFails ==
    /\ daemon.pc # "listening stops" /\ ChannelKnown
    /\ SendFails
    /\ UNCHANGED <<daemon, gspState, feeder, receiver, manager, front>>

IsNewState(msg) == msg.kind = "state" /\ ChannelKnown

\* In the loops, nothing catches it.
UpdateFails ==
    /\ \/ feeder.pc = "process"
       \/ receiver.pc = "feed" /\ receiver.batch # <<>> /\ IsNewState(Head(receiver.batch))
    /\ SendFails
    /\ daemon' = [daemon EXCEPT !.pc = "terminated"]
    /\ UNCHANGED <<gspState, feeder, receiver, manager, front>>

----------------------------------------------------------------------------
(* ChainToChannelFeeder.                                                   *)

\* getchannel; lastBlock is set before the manager is locked.
UpdateOnce ==
    /\ Alive /\ feeder.pc = "update"
    /\ feeder' = IF gspState.upToDate /\ gspState.block # 0
                 THEN [feeder EXCEPT !.lastBlock = gspState.block, !.pc = "process"]
                 ELSE [feeder EXCEPT !.pc = "loop"]
    /\ UNCHANGED <<daemon, gspState, server, receiver, manager, front, events>>

\* ProcessOnChain or ProcessOnChainNonExistant with what getchannel returned.
FeedBlock(automoves) ==
    /\ Alive /\ feeder.pc = "process"
    /\ manager' = [NewVersion(manager) EXCEPT !.block = feeder.lastBlock]
    /\ Broadcast(automoves)
    /\ StateChanged
    /\ feeder' = [feeder EXCEPT !.pc = "loop"]
    /\ UNCHANGED <<daemon, gspState, receiver>>

FeederLoop ==
    /\ Alive /\ feeder.pc = "loop"
    /\ feeder' = [feeder EXCEPT !.pc = IF feeder.stopLoop THEN "done" ELSE "wait"]
    /\ UNCHANGED <<daemon, gspState, server, receiver, manager, front, events>>

\* waitforchange returns the GSP's block, at once when it is not lastBlock and
\* else after a change or the server's timeout.
WaitForBlock ==
    /\ Alive /\ feeder.pc = "wait"
    /\ feeder' = [feeder EXCEPT !.pc = IF gspState.block \in {0, feeder.lastBlock}
                                       THEN "loop" ELSE "update"]
    /\ UNCHANGED <<daemon, gspState, server, receiver, manager, front, events>>

\* Only waitforchange is in a try block, and of its errors only those of the
\* connector pass the CHECK.
GspFails ==
    /\ Event
    /\ \/ /\ feeder.pc \in {"update", "wait"}
          /\ daemon' = [daemon EXCEPT !.pc = "terminated"]
          /\ UNCHANGED feeder
       \/ /\ feeder.pc = "wait"
          /\ feeder' = [feeder EXCEPT !.pc = "loop"]
          /\ UNCHANGED daemon
    /\ UNCHANGED <<gspState, server, receiver, manager, front>>

----------------------------------------------------------------------------
(* ReceivingOffChainBroadcast with RpcBroadcast.                           *)

\* The messages of a response that are valid base64.
DecodedMessages(msgs) ==
    LET decoded[i \in 0..Len(msgs)] ==
            IF i = 0 THEN <<>>
            ELSE IF msgs[i].kind = "junk" THEN decoded[i - 1]
                                          ELSE Append(decoded[i - 1], msgs[i])
    IN  decoded[Len(msgs)]

\* Mutant: the sequence number is advanced by the messages decoded.
UpdateSequenceDecoded(resp) == receiver.seq + Len(DecodedMessages(resp.messages))

UpdateSequence(resp) == resp.seq

ReceiverLoop ==
    /\ Alive /\ receiver.pc = "loop"
    /\ receiver' = [receiver EXCEPT !.pc = IF receiver.stopLoop THEN "done" ELSE "receive"]
    /\ UNCHANGED <<daemon, gspState, server, feeder, manager, front, events>>

\* receive and base64 decoding; without messages it returns at the timeout.
GetMessages ==
    /\ Alive /\ receiver.pc = "receive"
    /\ \E resp \in {ServerReceive(receiver.seq)} :
          receiver' = [receiver EXCEPT
                          !.seq = UpdateSequence(resp),
                          !.batch = DecodedMessages(resp.messages),
                          !.pc = IF resp.messages = <<>> THEN "loop" ELSE "feed"]
    /\ UNCHANGED <<daemon, gspState, server, feeder, manager, front, events>>

\* FeedMessage with ProcessIncoming: messages that are too large or do not
\* parse are dropped, our own are known already and change nothing.  States that
\* come before the channel is known are kept for later.
FeedMessage(automoves) ==
    /\ Alive /\ receiver.pc = "feed" /\ receiver.batch # <<>>
    /\ \E msg \in {Head(receiver.batch)} :
          IF IsNewState(msg)
          THEN /\ manager' = [NewVersion(manager) EXCEPT !.fed = Append(@, msg.id)]
               /\ Broadcast(automoves)
               /\ StateChanged
          ELSE /\ manager' = IF msg.kind = "large" THEN manager
                             ELSE [manager EXCEPT !.fed = Append(@, msg.id)]
               /\ UNCHANGED <<server, events, front>>
    /\ receiver' = [receiver EXCEPT !.batch = Tail(@)]
    /\ UNCHANGED <<daemon, gspState, feeder>>

BatchDone ==
    /\ Alive /\ receiver.pc = "feed" /\ receiver.batch = <<>>
    /\ receiver' = [receiver EXCEPT !.pc = "loop"]
    /\ UNCHANGED <<daemon, gspState, server, feeder, manager, front, events>>

\* No exception of receive is caught.
ReceiveFails ==
    /\ Event /\ receiver.pc = "receive"
    /\ daemon' = [daemon EXCEPT !.pc = "terminated"]
    /\ UNCHANGED <<gspState, server, feeder, receiver, manager, front>>

----------------------------------------------------------------------------
(* ChannelDaemon in the main thread.                                       *)

\* Run forgets a stop that was asked for before, and starts the feeder.
DaemonStart ==
    /\ daemon.pc = "ready"
    /\ daemon' = [daemon EXCEPT !.pc = "getseq", !.shouldStop = FALSE]
    /\ feeder' = [feeder EXCEPT !.pc = "update"]
    /\ UNCHANGED <<gspState, server, receiver, manager, front, events>>

InitialiseSequence ==
    /\ daemon.pc = "getseq"
    /\ daemon' = [daemon EXCEPT !.pc = "running"]
    /\ receiver' = [receiver EXCEPT !.pc = "loop", !.seq = Len(server.messages),
                                    !.first = server.sent]
    /\ UNCHANGED <<gspState, server, feeder, manager, front, events>>

\* getseq throws: Run does not return but passes the exception on.
InitialiseFails ==
    /\ Event /\ daemon.pc = "getseq"
    /\ daemon' = [daemon EXCEPT !.pc = "terminated"]
    /\ UNCHANGED <<gspState, server, feeder, receiver, manager, front>>

\* MainLoop::Stop by the RPC method; its mutex is held in Start and in Stop.
RequestStop ==
    /\ daemon.pc \in {"ready", "running"} /\ ~daemon.shouldStop
    /\ daemon' = [daemon EXCEPT !.shouldStop = TRUE, !.asked = daemon.pc = "running"]
    /\ UNCHANGED <<gspState, server, feeder, receiver, manager, front, events>>

\* Mutant: the feeder is joined without being told to stop.
DaemonStopNoFlag ==
    /\ daemon.pc = "running" /\ daemon.shouldStop
    /\ daemon' = [daemon EXCEPT !.pc = "join feeder"]
    /\ UNCHANGED <<gspState, server, feeder, receiver, manager, front, events>>

DaemonStop ==
    /\ daemon.pc = "running" /\ daemon.shouldStop
    /\ daemon' = [daemon EXCEPT !.pc = "join feeder"]
    /\ feeder' = [feeder EXCEPT !.stopLoop = TRUE]
    /\ UNCHANGED <<gspState, server, receiver, manager, front, events>>

JoinFeeder ==
    /\ daemon.pc = "join feeder" /\ feeder.pc = "done"
    /\ daemon' = [daemon EXCEPT !.pc = "join receiver"]
    /\ receiver' = [receiver EXCEPT !.stopLoop = TRUE]
    /\ UNCHANGED <<gspState, server, feeder, manager, front, events>>

JoinReceiver ==
    /\ daemon.pc = "join receiver" /\ receiver.pc = "done"
    /\ daemon' = [daemon EXCEPT !.pc = "stop updates"]
    /\ UNCHANGED <<gspState, server, feeder, receiver, manager, front, events>>

StopUpdates ==
    /\ daemon.pc = "stop updates"
    /\ daemon' = [daemon EXCEPT !.pc = "listening stops"]
    /\ manager' = [manager EXCEPT !.stopped = TRUE]
    /\ NotifyAll
    /\ UNCHANGED <<gspState, server, feeder, receiver, events>>

\* StopListening returns when the running calls have; the destructor of the
\* manager waits until no thread waits.
Destroy ==
    /\ daemon.pc = "listening stops"
    /\ \A f \in Frontends : front[f].pc = "idle"
    /\ manager.waiting = 0
    /\ daemon' = [daemon EXCEPT !.pc = "gone"]
    /\ UNCHANGED <<gspState, server, feeder, receiver, manager, front, events>>

----------------------------------------------------------------------------

MainThread == DaemonStart \/ InitialiseSequence \/ DaemonStop \/ JoinFeeder \/ JoinReceiver
              \/ StopUpdates \/ Destroy
FeederThread ==
    UpdateOnce \/ FeederLoop \/ WaitForBlock \/ \E automoves \in BOOLEAN : FeedBlock(automoves)
ReceiverThread ==
    ReceiverLoop \/ GetMessages \/ BatchDone \/ \E automoves \in BOOLEAN : FeedMessage(automoves)
FrontendThread(f) == WaitTimeout(f) \/ WaitReturns(f)

DaemonNext ==
    \/ \E next \in GspStates : GspChanges(next)
    \/ \E kind \in Kinds \ {"own"} : PeerSends(kind)
    \/ ServerRestarts \/ FrontendMove \/ RequestStop
    \/ MainThread \/ FeederThread \/ ReceiverThread
    \/ GspFails \/ ReceiveFails \/ InitialiseFails \/ UpdateFails \/ FrontendMoveFails
    \/ \E f \in Frontends : FrontendThread(f)
                            \/ \E known \in {0, front[f].known} : WaitForChange(f, known)

\* Each thread goes on: its blocking calls return, at the latest at a timeout.
DaemonFairness ==
    /\ WF_daemonVars(MainThread)
    /\ WF_daemonVars(FeederThread)
    /\ WF_daemonVars(ReceiverThread)
    /\ \A f \in Frontends : WF_daemonVars(FrontendThread(f))

DaemonSpec == DaemonInit /\ [][DaemonNext]_daemonVars

----------------------------------------------------------------------------
(* Properties.                                                             *)

\* No frontend sleeps through a change: one that waits with the version it
\* knows waits at the current version, and nobody waits once updates are
\* stopped; waiting counts the threads that have not left the wait
\* (WaitForChange, NotifyStateChange, StopUpdates).
NoMissedChange ==
    /\ \A f \in Frontends : front[f].pc = "waiting" =>
          ~manager.stopped /\ front[f].arg \in {0, manager.version}
    /\ manager.waiting = Cardinality({f \in Frontends : front[f].pc \in {"waiting", "woken"}})

\* The manager gets off-chain messages in the order they were sent and none
\* twice, also when the broadcast server is restarted; and while it is not,
\* none that is sent after the start is left out (RpcBroadcast::GetMessages,
\* UpdateSequence).
MessagesInOrder ==
    LET got == manager.fed \o [i \in DOMAIN receiver.batch |-> receiver.batch[i].id]
    IN  /\ \A i, j \in DOMAIN got : i < j => got[i] < got[j]
        /\ ~server.restarted /\ receiver.pc # "off" =>
              \A i \in (receiver.first + 1)..receiver.seq :
                 server.messages[i].kind \in {"state", "own"} => Contains(got, i)

\* A daemon that is asked to stop ends, unless a failing call terminates it:
\* both loops are joined and every waiting frontend gets its answer
\* (ChannelDaemon::Stop, ~SynchronisedChannelManager).
DaemonEnds == daemon.asked ~> ~Alive
=============================================================================
