CONSTANTS
  None = None
  Seats = {s1, s2}
  Bookings = {b1, b2}
  Attempts = {a1, a2, a3}
  Releases = {r1}
  Keys = {k1, k2}
  MaxSeats = 2
  BatchSize = 2
  Faults = {}
SPECIFICATION Spec
SYMMETRY Symmetry
INVARIANTS
  SlotExclusive
  ChargedOnceWhileHeld
PROPERTIES
  OnlyOwnerUnlocks
  LocksAtomically
CHECK_DEADLOCK FALSE
