------------------------------ MODULE MCMoesi ------------------------------
EXTENDS Moesi, TLC
Symmetry == Permutations(Caches) \cup Permutations(AddressLines)
=============================================================================
