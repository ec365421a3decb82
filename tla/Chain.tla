------------------------------- MODULE Chain -------------------------------
(***************************************************************************)
(* The tree of blocks that all branches of the blockchain form.            *)
(***************************************************************************)
EXTENDS Integers, FiniteSets

CONSTANTS
    Block,          \* the blocks, of all branches
    NoBlock,        \* the null hash
    Height,         \* [Block -> Nat]
    Parent          \* [Block -> Block \cup {NoBlock}]

ASSUME ChainAssumption ==
    /\ NoBlock \notin Block
    /\ Height \in [Block -> Nat]
    /\ Parent \in [Block -> Block \cup {NoBlock}]
    /\ \A b \in Block : Parent[b] # NoBlock => Height[b] = Height[Parent[b]] + 1

Ancestors[b \in Block] ==
    {b} \cup IF Parent[b] = NoBlock THEN {} ELSE Ancestors[Parent[b]]

AncestorAt(b, h) == CHOOSE a \in Ancestors[b] : Height[a] = h
=============================================================================
