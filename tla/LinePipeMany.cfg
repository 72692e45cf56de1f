\* Two readers, two writers, a two-line pipe and everything that can go wrong.
SPECIFICATION Spec
CONSTANTS
  Readers = {r1, r2}
  Writers = {w1, w2}
  Lines = {a, b}
  NoLine = NoLine
  N = 2
  Events = {"signal", "nomem", "badread", "badwrite", "close"}
  MaxList = 4
SYMMETRY Symmetry
INVARIANTS
  SizeCountsList
  NoLostWakeup
PROPERTY IsFifo
