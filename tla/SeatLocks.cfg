SPECIFICATION Spec
CONSTANTS
  Seats = {s1, s2}
  Holders = {h1, h2, h3}
  None = None
  Ttl = 5
  Second = 2
  Slack = 1
  MaxSkew = 1
  MaxNow = 7
CHECK_DEADLOCK FALSE
SYMMETRY Symmetry
INVARIANTS TypeOK PromiseKept HeldSeatsShown ReportedDeadlineHolds
PROPERTIES LocksAtomically
