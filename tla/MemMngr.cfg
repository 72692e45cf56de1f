\* Requests of no bytes and of three classes, four batches of two slots. The
\* program stops when a call hangs or crashes.
SPECIFICATION Spec
CONSTANTS
  Requests = {0, 5, 8, 12, 20}
  Chunks = {c1, c2, c3, c4}
  NoPtr = NoPtr
  SlotCount = 2
  Align = 8
SYMMETRY Symmetry
CHECK_DEADLOCK FALSE
INVARIANTS
  PoolWellFormed
  BitmapMatchesHeld
PROPERTY IsAllocator
