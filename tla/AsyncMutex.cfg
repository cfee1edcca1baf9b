SPECIFICATION FairMutexSpec
CONSTANTS
  Callers = {c1, c2, c3, c4, c5}
INVARIANTS
  OneHolder
PROPERTIES
  ImplementsFifoLock
  EveryCallerServed
