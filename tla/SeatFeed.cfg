CONSTANTS
  None = None
  Hello = Hello
  Seats = {s1}
  Bookings = {b1}
  Attempts = {a1}
  Releases = {}
  Keys = {k1}
  MaxSeats = 1
  BatchSize = 1
  Faults = {}
  Instances = {i1, i2}
  Pages = {p1}
  Fetches = {f1}
  Buffer = 1
  MaxMishaps = 2
  FeedFaults = {"break", "relay", "holds"}
SPECIFICATION FeedSpec
INVARIANTS
  FeedTypeOK
  SoldShownIsSold
  NothingSlips
SYMMETRY Symmetry
CHECK_DEADLOCK FALSE
