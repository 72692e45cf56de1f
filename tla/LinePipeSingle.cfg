\* One reader and one writer that never stop, with signals.
SPECIFICATION FairSpec
CONSTANTS
  Readers = {r1}
  Writers = {w1}
  Lines = {a, b}
  NoLine = NoLine
  N = 3
  Events = {"signal"}
  MaxList = 4
INVARIANTS
  CapacityRespected
  NoNullRead
PROPERTY CallsComplete
