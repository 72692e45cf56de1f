\* Three size classes are enough for the lookup not to return.
SPECIFICATION Spec
CONSTANTS
  Requests = {8, 12, 20}
  Chunks = {c1, c2, c3}
  NoPtr = NoPtr
  SlotCount = 2
  Align = 8
SYMMETRY Symmetry
CHECK_DEADLOCK FALSE
INVARIANT LookupReturns
