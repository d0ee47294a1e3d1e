SPECIFICATION MetricsSpec
CONSTANTS
  Polls = {p1, p2, p3, p4}
  MaxLen = 3
  Second = 1
  None = None
  MaxRequests = 3
  MaxNow = 2
INVARIANT MetricsTypeOK
PROPERTY OpsCountEachOnce
CHECK_DEADLOCK FALSE
SYMMETRY PollSymmetry
