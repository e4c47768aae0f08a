\* A batch is cancelled by a request in the middle of a round of runBatch.
CONSTANTS
  c1 = c1
  Jobs = {1, 2, 3}
  Batches = {3}
  Children <- TwoChildren
  Clients = {c1}
  Asked <- Cancellations
  MaxConcurrent = 1
  QueueCapacity = 1

SPECIFICATION BatchSafeSpec

PROPERTIES
  CancelledBatchStays

CHECK_DEADLOCK FALSE
