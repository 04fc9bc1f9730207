SPECIFICATION FairSpec
CONSTANTS
  Objects = {o1, o2}
  Nil = nil
  Addresses = {v4, v6}
  MaxAge = 4
  MaxLag = 1
  MaxPresses = 1
  MaxEvents = 2
INVARIANTS NilOnlyAfterMove
PROPERTIES LostAnswerNeedsOverlap Reconnected
CHECK_DEADLOCK FALSE
