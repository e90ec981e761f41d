CONSTANTS
  None = None
  Seats = {s1}
  Bookings = {b1}
  Attempts = {a1, a2}
  Releases = {r1}
  Keys = {k1}
  MaxSeats = 1
  BatchSize = 1
  Faults = {"crash", "error", "lost"}
SPECIFICATION FairSpec
INVARIANTS
  TypeOK
  ChargesAccounted
PROPERTIES
  HoldsLast
  TerminalIsFinal
  PendingResolves
  SlotFrees
  LocksFree
CHECK_DEADLOCK FALSE
