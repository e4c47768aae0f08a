\* A batch of job 1 beside the single job 2, with room for one of them in the
\* queue: job 1 may be cancelled, and the server shut down, at any moment.
CONSTANTS
  c1 = c1
  Jobs = {1, 2, 3}
  Batches = {3}
  Children <- OneChild
  Clients = {c1}
  Asked <- CancelFirst
  MaxConcurrent = 1
  QueueCapacity = 1

SPECIFICATION BatchSpec

PROPERTIES
  BatchReturns
  CloseReturns

CHECK_DEADLOCK FALSE
