\* Children are removed by requests while the parent is not, or not for good,
\* in an active state.
CONSTANTS
  c1 = c1
  Jobs = {1, 2, 3}
  Batches = {3}
  Children <- TwoChildren
  Clients = {c1}
  Asked <- Everything
  MaxConcurrent = 1
  QueueCapacity = 1

SPECIFICATION BatchSafeSpec

INVARIANTS
  ChildrenStay

CHECK_DEADLOCK FALSE
