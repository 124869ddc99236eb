---------------------------- MODULE MCChainState ----------------------------
EXTENDS ChainState, TLC

ThreadSymmetry == Permutations(Threads)

CONSTANTS g, a1, a2, b1, b2, c2

\* Two forks from the genesis block, one of which forks again.
Tree == (g :> g) @@ (a1 :> g) @@ (a2 :> a1) @@ (b1 :> g) @@ (b2 :> b1) @@ (c2 :> a1)
RECURSIVE Depth(_)
Depth(b) == IF b = g THEN 0 ELSE 1 + Depth(Tree[b])
RECURSIVE Up(_)
Up(b) == IF b = g THEN {g} ELSE {b} \cup Up(Tree[b])
TreeAncestors == [b \in Blocks |-> Up(b)]
TreeHeight == [b \in Blocks |-> Depth(b)]
TreeParent == [b \in Blocks |-> Tree[b]]
\* One unit of work a block, except that b2 outweighs the tips of the other fork.
TreeWork == [b \in Blocks |-> TreeHeight[b] + IF b = b2 THEN 1 ELSE 0]
AddrOf == (g :> 1) @@ (a1 :> 2) @@ (a2 :> 6) @@ (b1 :> 3) @@ (b2 :> 5) @@ (c2 :> 4)
TreeAddr == [b \in Blocks |-> AddrOf[b]]
=============================================================================
