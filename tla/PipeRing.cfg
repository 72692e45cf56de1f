\* Up to two readers and two writers, a ring of three slots, every failure.
SPECIFICATION Spec
CONSTANTS
  Readers = {r1, r2}
  Writers = {w1, w2}
  Lines = {a, b}
  NoLine = NoLine
  max_table_size = 3
  Events = {"signal", "badread", "badwrite", "close"}
  MaxDebt = 1
  MaxCount = 4
  MaxInside = 4
SYMMETRY Symmetry
INVARIANTS
  NoLostWakeup
  PointersSpanCount
PROPERTY IsFifo
