----------------------------- MODULE MCLinePipe -----------------------------
EXTENDS LinePipe, TLC
Symmetry == Permutations(Readers) \cup Permutations(Writers) \cup Permutations(Lines)
=============================================================================
