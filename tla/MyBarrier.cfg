\* Four threads at a barrier of three: one is late, or main destroys early.
SPECIFICATION FairSpec
CONSTANTS
  Threads = {t1, t2, t3, t4}
  Count = 3
CHECK_DEADLOCK FALSE
INVARIANTS
  NobodyBlockedAfterEvent
  SafeIfJoined
PROPERTIES
  IsGate
  EveryoneReturns
