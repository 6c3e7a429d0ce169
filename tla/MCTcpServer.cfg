SPECIFICATION ServerFairSpec
CONSTANTS
  c1 = c1
  c2 = c2
  Clients = {c1, c2}
  Answered = {c1}
  Overlap = FALSE
CHECK_DEADLOCK FALSE
INVARIANTS OneAccept ConnectionWhole
PROPERTIES FailsThenFreed EachServed ConnectionFreed
