------------------------------ MODULE CoreNode ------------------------------
(***************************************************************************)
(* The SpaceXpanse Core daemon as Game uses it: a best chain that grows    *)
(* and reorganises, ZMQ notifications for every block it attaches or       *)
(* detaches, and the RPC method game_sendupdates, which repeats the        *)
(* notifications that lead from a given block to the tip, marked with a    *)
(* fresh reqtoken.  The daemon is not part of the repository.              *)
(*                                                                         *)
(* A token is "none" for the daemon's own notifications, "current" for     *)
(* those of the last request whose token Game remembers, and "old" for     *)
(* those of any other request.                                             *)
(***************************************************************************)
EXTENDS Chain, Sequences

CONSTANT MaxAttaches    \* most attach steps one game_sendupdates request sends

ASSUME MaxAttachesAssumption == MaxAttaches \in Nat \ {0}

Kind == {"attach", "detach"}

Message == [kind : Kind, block : Block, token : {"none", "current", "old"}]

(***************************************************************************)
(* tip is the daemon's best block, net the notifications sent and not yet  *)
(* received.  open says whether a subscriber reads them: what is sent to   *)
(* nobody is gone.                                                         *)
(***************************************************************************)
Node == [tip : Block, net : Seq(Message), open : BOOLEAN]

Publish(n, msgs) == IF n.open THEN [n EXCEPT !.net = @ \o msgs] ELSE n

NodeAttach(n, b) ==
    Publish([n EXCEPT !.tip = b],
            <<[kind |-> "attach", block |-> b, token |-> "none"]>>)

NodeDetach(n) ==
    Publish([n EXCEPT !.tip = Parent[n.tip]],
            <<[kind |-> "detach", block |-> n.tip, token |-> "none"]>>)

\* One step of the daemon.  The oldest block modelled is never detached, nor
\* the one on top of it, so the tip always has a parent.
NodeMoves(n) ==
    {NodeAttach(n, b) : b \in {c \in Block : Parent[c] = n.tip}}
      \cup {NodeDetach(m) : m \in {k \in {n} : Parent[Parent[k.tip]] # NoBlock}}

(***************************************************************************)
(* The detach and then the attach steps from one block to another; the     *)
(* blocks of each part have consecutive heights.                           *)
(***************************************************************************)
Steps(from, to) ==
    LET down == Ancestors[from] \ Ancestors[to]
        up   == Ancestors[to] \ Ancestors[from]
        fork == Height[from] - Cardinality(down)
    IN  [i \in 1 .. Cardinality(down) |->
           [kind |-> "detach",
            block |-> CHOOSE b \in down : Height[b] = Height[from] - i + 1]]
        \o
        [i \in 1 .. IF Cardinality(up) > MaxAttaches THEN MaxAttaches
                    ELSE Cardinality(up) |->
           [kind |-> "attach", block |-> CHOOSE b \in up : Height[b] = fork + i]]

\* The tree is connected, so there is a path between any two blocks.
ASSUME StepsAssumption ==
    \A from, to \in Block : Steps(from, to) \in Seq([kind : Kind, block : Block])

\* The block a step leads to.
StepTo(m) == IF m.kind = "attach" THEN m.block ELSE Parent[m.block]

\* game_sendupdates(from): the node afterwards and the block it leads to.
SendUpdates(n, from, token) ==
    LET steps == Steps(from, n.tip)
        older == [i \in DOMAIN n.net |->
                    IF token = "current" /\ n.net[i].token = "current"
                    THEN [n.net[i] EXCEPT !.token = "old"] ELSE n.net[i]]
    IN  [node    |-> Publish([n EXCEPT !.net = older],
                             [i \in DOMAIN steps |->
                                [kind |-> steps[i].kind, block |-> steps[i].block,
                                 token |-> token]]),
         toblock |-> IF steps = <<>> THEN from ELSE StepTo(steps[Len(steps)])]
=============================================================================
