\* Two jobs compete for one slot and one place in the queue while a request
\* acts on them; the history keeps one finished record.
CONSTANTS
  c1 = c1
  Jobs = {1, 2}
  Clients = {c1}
  RequestKinds = {"cancel", "delete", "fetch"}
  MaxConcurrent = 1
  QueueCapacity = 1
  HistoryLimit = 1

SPECIFICATION SafeSpec

INVARIANTS
  FilesExclusive
  CompletedHasResults

PROPERTIES
  FirstTerminalStays
  SparedJobNeverRuns
  ImplementsPool

CHECK_DEADLOCK FALSE
