\* A single job and a batch of one, or two single jobs, two keys, and room for two records, one of them
\* finished: old records are removed while new ones are admitted and flushes are under
\* way.  The server may crash or exit at any step and is started again once.
CONSTANTS
  k1 = k1
  k2 = k2
  Jobs = {1, 2, 3, 4}
  Kids <- OneBatch
  Keys = {k1, k2}
  Payloads = {"p"}
  RecordLimit = 2
  KeyLimit = 2
  HistoryLimit = 1
  MaxVersion = 2
  MaxRestarts = 1

SPECIFICATION HistorySpec
SYMMETRY Symmetry

INVARIANTS
  LagIsOwed
  OneJobPerKey
  LoadAccepts
  ExitSavesEnds

CHECK_DEADLOCK FALSE
