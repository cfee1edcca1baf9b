SPECIFICATION FairSpec
CONSTANTS
  Msgs = {m1, m2, m3}
  Awaiting = {m1, m2}
  Loops = {w1, w2}
  MaxSize = 1
  MaxAttempts = 2
  Cursed = {m1, m3}
  NoMsg = NoMsg
CHECK_DEADLOCK FALSE
INVARIANTS
  TypeOK
  HeldByOneLoop
  NothingLost
  AttemptsLeft
  ShutdownClean
PROPERTIES
  KeepsPromise
  EveryEmailEnds
  ShutdownReturns
