\* A batch of two jobs and room for one in the queue: every record may be
\* cancelled, the first child and the parent removed, and the server shut down,
\* at any moment.
CONSTANTS
  c1 = c1
  Jobs = {1, 2, 3}
  Batches = {3}
  Children <- TwoChildren
  Clients = {c1}
  Asked <- Removals
  MaxConcurrent = 1
  QueueCapacity = 1

SPECIFICATION BatchSafeSpec

INVARIANTS
  ReturnedMeansEnded
  VerdictIsFair
  CancelledBatchLeavesQueue
  ClosedMeansQuiet

CHECK_DEADLOCK FALSE
