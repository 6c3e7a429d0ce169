SPECIFICATION HttpFairSpec
CONSTANTS
  c1 = c1
  c2 = c2
  c3 = c3
  Conns <- mcConns
INVARIANTS HttpTypeOK Managed AcceptOutstanding StoppedForGood
PROPERTIES SignalStops WindsDown AnsweredThenClosed
CHECK_DEADLOCK FALSE
