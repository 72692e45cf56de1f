\* MAXCACHE and MAXADDRESSLINES as in main.c. A bad input ends the program.
SPECIFICATION Spec
CONSTANTS
  Caches = {c0, c1, c2}
  AddressLines = {l0, l1, l2, l3}
SYMMETRY Symmetry
CHECK_DEADLOCK FALSE
INVARIANTS
  OwnersExclude
  SharedIsShared
PROPERTY IsCoherent
