CONSTANTS
  None = None
  Seats = {s1}
  Bookings = {b1, b2}
  Attempts = {a1, a2}
  Releases = {}
  Keys = {k1, k2}
  MaxSeats = 1
  BatchSize = 2
  Faults = {"error", "lost", "skew", "slow"}
SPECIFICATION Spec
SYMMETRY Symmetry
INVARIANTS
  NoDoubleSale
  LedgerConsistent
  KeyBindsBooking
  AnswersTruthful
CHECK_DEADLOCK FALSE
PROPERTY SellsAtomically
