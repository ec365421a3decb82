----------------------------- MODULE MCProcesses -----------------------------
(***************************************************************************)
(* The two processes of a player, one of them in each behaviour: a GSP     *)
(* with one of the storages of MCBlockStore, and a channel daemon.  The    *)
(* daemon's GSP has the channel in one block when it is synchronised, in   *)
(* another when it catches up.                                             *)
(***************************************************************************)
EXTENDS MCBlockStore, ChannelThreads

MCGspStates == {[block |-> 1, upToDate |-> TRUE], [block |-> 2, upToDate |-> FALSE]}

----------------------------------------------------------------------------
VARIABLE process    \* which process this behaviour is of

gspVars == <<storeVars, sqlVars, part>>

ProcessesInit ==
    /\ StoragesInit /\ DaemonInit
    /\ process \in {"gsp", "daemon"}
    /\ process = "gsp" => gspState.block = 0
    /\ process = "daemon" => part = "lmdb"

GspPart == process = "gsp" /\ StoragesNext /\ UNCHANGED <<daemonVars, process>>
DaemonPart == process = "daemon" /\ DaemonNext /\ UNCHANGED <<gspVars, process>>

\* A daemon that has ended does nothing, which is not a deadlock.
DaemonEnded == process = "daemon" /\ ~Alive /\ UNCHANGED <<gspVars, daemonVars, process>>

ProcessesNext == GspPart \/ DaemonPart \/ DaemonEnded

\* SqlFairness and DaemonFairness, each in the behaviours that they are about.
ProcessesFairness ==
    /\ WF_sqlVars(process = "gsp" /\ Continue)
    /\ WF_sqlVars(process = "gsp" /\ \E flush, due \in BOOLEAN : StoreGenesis(flush, due))
    /\ \A r \in Reader : WF_sqlVars(process = "gsp" /\ ReadFinish(r))
    /\ WF_daemonVars(process = "daemon" /\ MainThread)
    /\ WF_daemonVars(process = "daemon" /\ FeederThread)
    /\ WF_daemonVars(process = "daemon" /\ ReceiverThread)
    /\ \A f \in Frontends : WF_daemonVars(process = "daemon" /\ FrontendThread(f))

ProcessesSpec ==
    ProcessesInit /\ [][ProcessesNext]_<<gspVars, daemonVars, process>> /\ ProcessesFairness
=============================================================================
