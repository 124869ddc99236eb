---------------------------- MODULE MCCoinsCache ----------------------------
EXTENDS CoinsCache, TLC

Symmetry == Permutations(TxIds) \cup Permutations(Outs) \cup Permutations(Blocks)
=============================================================================
