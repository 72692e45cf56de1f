----------------------------- MODULE MCMemMngr -----------------------------
EXTENDS MemMngr, TLC
Symmetry == Permutations(Chunks)
=============================================================================
