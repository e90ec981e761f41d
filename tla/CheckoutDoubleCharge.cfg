CONSTANTS
  None = None
  Seats = {s1}
  Bookings = {b1}
  Attempts = {a1, a2}
  Releases = {}
  Keys = {k1}
  MaxSeats = 1
  BatchSize = 1
  Faults = {}
SPECIFICATION Spec
SYMMETRY Symmetry
INVARIANTS
  NoDoubleCharge
CHECK_DEADLOCK FALSE
