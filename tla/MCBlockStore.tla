---------------------------- MODULE MCBlockStore ----------------------------
(* The tree of which the runs take a part: a chain, and a fork with more work at each height. *)
EXTENDS BlockStore, TLC

CONSTANTS g, a1, a2, a3, b1, b2

StoreTree == (g :> g) @@ (a1 :> g) @@ (a2 :> a1) @@ (a3 :> a2) @@ (b1 :> g) @@ (b2 :> b1)
RECURSIVE Depth(_)
Depth(b) == IF b = g THEN 0 ELSE 1 + Depth(StoreTree[b])
RECURSIVE Up(_)
Up(b) == IF b = g THEN {g} ELSE {b} \cup Up(StoreTree[b])
StoreParent == [b \in Blocks |-> StoreTree[b]]
StoreAncestors == [b \in Blocks |-> Up(b)]
StoreHeight == [b \in Blocks |-> Depth(b)]
StoreWork == [b \in Blocks |-> 2 * Depth(b) + IF b \in {b1, b2} THEN 1 ELSE 0]
=============================================================================
