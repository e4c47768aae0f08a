\* Stream: one job, one connection, and buffers small enough to overflow.  Page: one
\* record more than is polled, two calls at once.
CONSTANTS
  s1 = s1
  Jobs = {1}
  Streams = {s1}
  BusCapacity = 2
  FrameCapacity = 1
  SeenLimit = 1
  MaxVersion = 4
  Records = {1, 2}
  PollLimit = 1
  Calls = {1, 2}

SPECIFICATION WatchersSpec

INVARIANTS
  NoSendOnClosed
  NoEndLost
  ActiveIsPolled

PROPERTIES
  EndShown
  StreamsEnd
  PolledEndIsShown

CHECK_DEADLOCK FALSE
