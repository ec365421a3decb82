----------------------------- MODULE MCGameSync -----------------------------
(***************************************************************************)
(* A small chain for GameSync: r - p - g0 - a1 - a2 with a fork g0 - b1,   *)
(* heights 1 to 5, and a game with genesis at height 3 (block g0) that     *)
(* records the blocks it has seen.  Its undo data is the length to cut     *)
(* back to.                                                                *)
(***************************************************************************)
EXTENDS GameSync, TLC

CONSTANTS r, p, g0, a1, a2, b1

MCParent == (r :> NoBlock) @@ (p :> r) @@ (g0 :> p)
              @@ (a1 :> g0) @@ (a2 :> a1) @@ (b1 :> g0)
MCHeight == (r :> 1) @@ (p :> 2) @@ (g0 :> 3) @@ (a1 :> 4) @@ (a2 :> 5) @@ (b1 :> 4)
MCStateAt == (r :> <<>>) @@ (p :> <<>>) @@ (g0 :> <<>>)
              @@ (a1 :> <<a1>>) @@ (a2 :> <<a1, a2>>) @@ (b1 :> <<b1>>)

\* Everything that can go wrong inside a handler or to the process.
MCFault ==
    [at : {"update"}, kind : {"logic", "write", "commit"}]
      \cup [at : {"initial", "prune"}, kind : {"write", "commit"}]
      \cup [at : {"clear", "detachclear"}, kind : {"write"}]
      \cup [at : {"info", "hash", "updates", "probe"}, kind : {"rpc"}]
      \cup [at : {"flush"}, kind : {"commit"}]
      \cup [at : {"process"}, kind : {"stop", "crash"}]

\* A storage that has to be resized, in every transaction of a handler, and a
\* connection that turns out to be stale.
MCRetryFault ==
    [at : {"update", "initial", "prune"}, kind : {"write", "commit"}]
      \cup [at : {"probe"}, kind : {"rpc"}]

\* A single kind of fault each.
MCFlushFault == [at : {"flush"}, kind : {"commit"}]
MCRpcFault == [at : {"info", "hash", "updates"}, kind : {"rpc"}]

MCInitialState == <<>>
MCProcessForward(s, b) == Append(s, b)
MCUndoFor(s, b) == Len(s)
MCProcessBackwards(s, b, u) == SubSeq(s, 1, u)
MCGameState == UNION {[1..n -> {a1, a2, b1}] : n \in 0..3}
=============================================================================
