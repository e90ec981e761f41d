CONSTANTS
  None = None
  Hello = Hello
  Seats = {s1}
  Bookings = {b1}
  Attempts = {}
  Releases = {r1}
  Keys = {k1}
  MaxSeats = 1
  BatchSize = 1
  Faults = {}
  Instances = {i1}
  Pages = {p1}
  Fetches = {f1, f2}
  Buffer = 1
  MaxMishaps = 1
  FeedFaults = {"break", "fetch"}
SPECIFICATION FairFeedSpec
PROPERTY LostPagesHeal
CHECK_DEADLOCK FALSE
