\* Queue: one place, for which two batch admissions and a direct one compete in every
\* order of their lock sections, wake-ups and cancellations.  Guard: one tunnel, of
\* which all steps race with each other and with the guard's end.  Programs: two
\* requests of either kind, one slot, two probes to a health report.  History: one job,
\* and a restart.
CONSTANTS
  w1 = w1
  w2 = w2
  d1 = d1
  Callers = {w1, w2, d1}
  Waiters = {w1, w2}
  Capacity = 1
  Tunnels = {1}
  i1 = i1
  i2 = i2
  h1 = h1
  h2 = h2
  Infos = {i1, i2}
  Checks = {h1, h2}
  MaxInfo = 1
  Probes = 2

SPECIFICATION ServicesSpec

INVARIANTS
  NoLostWakeup
  ParkedMeansFull
  ErrorLeavesNothing
  NothingOutlives
  LiveTunnelsStay
  TreesAreBounded

PROPERTIES
  ImplementsBuffer
  WaiterReturns
  TunnelsEnd
  RequestsAnswered
  EndSaved

CHECK_DEADLOCK FALSE
