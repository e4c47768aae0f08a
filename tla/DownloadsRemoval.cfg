\* Two jobs and room for one finished record: a cleanup while a cancelled
\* run of yt-dlp is still being unwound.
CONSTANTS
  c1 = c1
  Jobs = {1, 2}
  Clients = {c1}
  RequestKinds = {"cancel"}
  MaxConcurrent = 1
  QueueCapacity = 1
  HistoryLimit = 1

SPECIFICATION SafeSpec

INVARIANTS
  OwnedRecordsStay

CHECK_DEADLOCK FALSE
