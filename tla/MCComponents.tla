---------------------------- MODULE MCComponents -----------------------------
(***************************************************************************)
(* The components around the core, one of them in each behaviour:          *)
(*   pending    the pending moves of a GSP, four blocks and two            *)
(*              transactions;                                              *)
(*   threads    its main loop and two polling clients;                     *)
(*   memory     the mover game and the caching game in memory;             *)
(*   statements two threads with three statements of one SQL string;       *)
(*   rest       the REST interface and a client;                           *)
(*   tables     the database of the ships GSP with two channels;           *)
(*   ships      a player of the ships channel on a board of 2 x 2 with a   *)
(*              ship of two cells, whose last cell is not in the int;      *)
(*   samples    inputs for the algorithms, and all grids of 3 x 3.         *)
(***************************************************************************)
EXTENDS PendingMoves, GameThreads, MemoryGsp, StatementCache, Rest, ShipsTables, ShipsChannel,
        Utilities, TLC

CONSTANTS g0, a0, b0, c0, t1, t2

MCParent == (g0 :> NoBlock) @@ (a0 :> g0) @@ (b0 :> g0) @@ (c0 :> a0)
MCHeight == (g0 :> 1) @@ (a0 :> 2) @@ (b0 :> 2) @@ (c0 :> 3)
MCTxMoves == (t1 :> <<"m1">>) @@ (t2 :> <<"m2", "m3">>)
MCBlockTxs == (g0 :> <<>>) @@ (a0 :> <<t1>>) @@ (b0 :> <<t2>>) @@ (c0 :> <<t2>>)

MoverMove(p, d, n) == [name |-> p, dir |-> d, n |-> n]
MCBlockMoves ==
    {<<>>, <<MoverMove("p", "right", 1)>>, <<MoverMove("p", "left-up", 2)>>,
     <<MoverMove("p", "none", 1), MoverMove("q", "down", 2)>>,
     <<MoverMove("q", "right-down", 3), MoverMove("p", "up", 1)>>,
     <<MoverMove("q", "left", 0)>>}

ASSUME NamesMoveOnce == OneMovePerName

\* Nodes with too old and too new versions, of another chain, without ZMQ.
Node(c, v, n) == [chain |-> c, version |-> v, notifications |-> n]
MCCoreAnswers ==
    {Node("regtest", v, {"pubgameblocks", "pubgamepending"}) : v \in 1..3}
    \cup {Node("signet", 2, {"pubgameblocks"}), Node("main", 2, {"pubgamepending"})}

MCRowsFor == [val \in Values |-> 1]
MCSlots == [u \in Users |-> IF u = "reader" THEN {1} ELSE {1, 2}]

TableMove(k, n, id, c, ok) ==
    [kind |-> k, name |-> n, id |-> id, count |-> c, valid |-> ok]
\* Channel 2 takes part in fewer of them.
TableMoves ==
    {TableMove(k, n, 1, 0, TRUE) : k \in {"join", "abort", "loss"}, n \in Name}
    \cup {TableMove(k, "n1", 1, c, TRUE) : k \in {"dispute", "resolution"}, c \in 0..FinalTurn}
    \cup {TableMove("create", "n1", 1, 0, TRUE), TableMove("create", "n2", 2, 0, TRUE),
          TableMove("join", "n1", 2, 0, TRUE), TableMove("dispute", "n1", 2, 1, TRUE),
          TableMove("loss", "n1", 1, 0, FALSE), TableMove("dispute", "n1", 1, 1, FALSE),
          TableMove("several", "n1", 1, 0, TRUE)}
MCMovesOfBlock ==
    {<<>>} \cup {<<mv>> : mv \in TableMoves}
    \cup {<<TableMove("dispute", "n1", 1, 1, TRUE), TableMove("resolution", "n1", 1, 2, TRUE)>>,
          <<TableMove("dispute", "n1", 1, 0, TRUE), TableMove("loss", "n1", 1, 0, TRUE)>>,
          <<TableMove("join", "n2", 1, 0, TRUE), TableMove("abort", "n1", 1, 0, TRUE)>>,
          <<TableMove("create", "n1", 1, 0, TRUE), TableMove("create", "n2", 2, 0, TRUE)>>}

MCPendingOffers ==
    {mv \in TableMoves : mv.id = 1 /\ mv.kind \in {"join", "abort", "dispute", "resolution"}
                                 /\ (mv.count # 0 \/ mv.name = "n2")}
    \cup {TableMove("create", "n2", 2, 0, TRUE), TableMove("abort", "n1", 1, 0, TRUE),
          TableMove("several", "n1", 1, 0, TRUE)}

MCFleet == 2 :> 1

\* One position is not valid in each; the peer's is zero as an int.
MCPositions == {{0, 1}, {1, 3}, {0, 3}}
MCPeerPositions == {{0, 2}, {3}}

MCHashOf(seed, what) == Append(seed, what)
MCSeedByte(seed, i) == 3 * Len(seed) + i

\* A small board with two kinds of ships.
Grid3 == INSTANCE ShipsGrid WITH Side <- 3, AvailableShips <- (1 :> 2) @@ (2 :> 1)

\* Protocol buffers: signed states, transitions and proofs; serialised boards.
Message(unknown, testing, nested) ==
    [unknown |-> unknown, testing |-> testing, nested |-> nested]
States == {Message(u, t, <<>>) : u \in BOOLEAN, t \in BOOLEAN}
Transitions == {Message(u, FALSE, <<s>>) : u \in BOOLEAN, s \in States}
BoardData == {[parses |-> p, valid |-> v, value |-> n, msg |-> s] :
                p \in BOOLEAN, v \in BOOLEAN, n \in {1, 2}, s \in States}

Samples ==
    {<<"data", d>> : d \in UNION {[1..n -> {0, 1, 255}] : n \in 0..4}}
    \cup {<<"encoded", e>> : e \in [1..4 -> {0, 17, 63, PAD, INVALID}]
                                   \cup UNION {[1..n -> {17, PAD}] : n \in 0..8}}
    \cup {<<"stream", [format |-> f, data |-> d, extra |-> e], max>> :
             f \in {"raw", "zlib"}, d \in {<<>>, <<7>>, <<7, 7>>}, e \in 0..1, max \in 0..2}
    \cup {<<"amount", n>> : n \in 0..MAX_ROD_AMOUNT + 40}
    \cup {<<"range", n>> : n \in 1..6}
    \cup {<<"number", n>> : n \in 0..7 \cup {255, 256, 65535, 65536, 16777215, 2147483647}}
    \cup {<<"proof", Message(u, FALSE, <<s>> \o ts)>> :
             u \in BOOLEAN, s \in States, ts \in {<<>>} \cup {<<x>> : x \in Transitions}}
    \cup {<<"boards", d, e>> : d \in BoardData, e \in BoardData}
    \cup {<<"grid", g>> : g \in SUBSET Grid3!Cells}

----------------------------------------------------------------------------
VARIABLE part       \* which component this behaviour is of

ComponentsInit ==
    /\ PendingInit /\ ThreadsInit /\ MemoryInit /\ StatementsInit /\ RestInit /\ TablesInit
    /\ ShipsInit
    /\ sample = <<"none">>
    /\ part \in {"pending", "threads", "memory", "statements", "rest", "tables", "ships",
                "samples"}
    /\ part # "pending" => core.tip = g0 /\ core.sockets = 1
    /\ part # "memory" => kind = "mover"
    /\ part # "ships" => own.index = 0
    /\ part # "rest" => api.up /\ api.gzip /\ state.upToDate

PendingPart == part = "pending" /\ PendingNext
    /\ UNCHANGED <<threadVars, memoryVars, cacheVars, restVars, tablesVars, shipsVars, sample, part>>
ThreadsPart == part = "threads" /\ ThreadsNext
    /\ UNCHANGED <<pendingVars, memoryVars, cacheVars, restVars, tablesVars, shipsVars, sample, part>>
MemoryPart == part = "memory" /\ MemoryNext
    /\ UNCHANGED <<pendingVars, threadVars, cacheVars, restVars, tablesVars, shipsVars, sample, part>>
StatementsPart == part = "statements" /\ StatementsNext
    /\ UNCHANGED <<pendingVars, threadVars, memoryVars, restVars, tablesVars, shipsVars, sample, part>>
RestPart == part = "rest" /\ RestNext
    /\ UNCHANGED <<pendingVars, threadVars, memoryVars, cacheVars, tablesVars, shipsVars, sample, part>>
TablesPart == part = "tables" /\ TablesNext
    /\ UNCHANGED <<pendingVars, threadVars, memoryVars, cacheVars, restVars, shipsVars, sample, part>>
ShipsPart == part = "ships" /\ ShipsNext
    /\ UNCHANGED <<pendingVars, threadVars, memoryVars, cacheVars, restVars, tablesVars, sample, part>>
SamplesPart == part = "samples" /\ sample = <<"none">> /\ sample' \in Samples
    /\ UNCHANGED <<pendingVars, threadVars, memoryVars, cacheVars, restVars, tablesVars, shipsVars,
                   part>>

ComponentsNext ==
    \/ PendingPart \/ ThreadsPart \/ MemoryPart \/ StatementsPart \/ RestPart
    \/ TablesPart \/ ShipsPart \/ SamplesPart

\* Each component is fair in its own behaviours.
ComponentsFairness ==
    /\ \A p \in Poller : SF_threadVars(part = "threads" /\ PollerGoesOn(p))
    /\ SF_threadVars(part = "threads" /\ MainStep)
    /\ WF_shipsVars(part = "ships" /\ \E rnd \in {0, 1} : NewBlock(rnd))
    /\ WF_shipsVars(part = "ships" /\ \E rnd \in {0, 1}, r \in Reinit : Confirm(r, rnd))

componentVars ==
    <<pendingVars, threadVars, memoryVars, cacheVars, restVars, tablesVars, shipsVars, sample, part>>

ComponentsSpec ==
    ComponentsInit /\ [][ComponentsNext]_componentVars /\ ComponentsFairness

----------------------------------------------------------------------------
(* Properties.                                                             *)

=============================================================================
