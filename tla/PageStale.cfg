\* One record and two calls, of which the one sent first may be answered or applied last.
CONSTANTS
  Records = {1}
  PollLimit = 1
  Calls = {1, 2}

SPECIFICATION SafeSpec

INVARIANT
  RunningIsPolled

CHECK_DEADLOCK FALSE
