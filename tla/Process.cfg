CONSTANTS
  None = None
  Clients = {c1}
  Requests = {r1}
  Sweeps = {s1}
  Casts = {r1, s1}
  Buffer = 1
SPECIFICATION FairProcSpec
INVARIANTS
  ProcTypeOK
  BroadcastNeverPanics
  CleanStopTellsAll
PROPERTIES
  MissedMeansDropped
  ClosedMeansGone
  DeadPeersLeave
  CloseReturns
  StopsOnSignal
CHECK_DEADLOCK FALSE
