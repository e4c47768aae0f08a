\* Two jobs, one slot, one place and one cancellation at a time, with the fairness
\* of the scheduler: whatever is admitted ends, and Pool.Stop returns.
CONSTANTS
  c1 = c1
  Jobs = {1, 2}
  Clients = {c1}
  RequestKinds = {"cancel"}
  MaxConcurrent = 1
  QueueCapacity = 1
  HistoryLimit = 2

SPECIFICATION Spec

PROPERTIES
  JobsEnd
  StopReturns

CHECK_DEADLOCK FALSE
