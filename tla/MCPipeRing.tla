----------------------------- MODULE MCPipeRing -----------------------------
EXTENDS PipeRing, TLC
Symmetry == Permutations(Readers) \cup Permutations(Writers) \cup Permutations(Lines)
=============================================================================
