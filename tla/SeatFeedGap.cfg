CONSTANTS
  None = None
  Hello = Hello
  Seats = {s1}
  Bookings = {b1}
  Attempts = {}
  Releases = {}
  Keys = {k1}
  MaxSeats = 1
  BatchSize = 1
  Faults = {}
  Instances = {i1}
  Pages = {p1}
  Fetches = {f1, f2}
  Buffer = 1
  MaxMishaps = 0
  FeedFaults = {}
SPECIFICATION FeedSpec
INVARIANT LiveViewIsTrue
CHECK_DEADLOCK FALSE
