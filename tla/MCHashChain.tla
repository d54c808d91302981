----------------------------- MODULE MCHashChain -----------------------------
EXTENDS HashChain

Symmetry == Permutations(Entry)
===============================================================================
