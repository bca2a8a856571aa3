CONSTANTS
  Rows = 2
  Worker = {w1, w2}
  Limit = 2
  MaxAttempts = 2
  MaxLost = 0
SPECIFICATION Spec
INVARIANTS
  DuplicatesNeedALostAcceptance
