SPECIFICATION Spec
CONSTANTS
  Msgs = {m1, m2, m3}
  Awaiting = {m1, m2}
  Loops = {w1, w2}
  MaxSize = 1
  MaxAttempts = 2
  Cursed = {}
  NoMsg = NoMsg
CHECK_DEADLOCK FALSE
INVARIANTS
  RefusedCallersTold
