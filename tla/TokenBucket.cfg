CONSTANTS
  Callers = {k1}
  Requests = {r1, r2, r3, r4}
  i1 = i1
  i2 = i2
  Instances = {i1, i2}
  Skew <- MCSkew
  MaxSkew = 1
  MaxDelay = 1
  Burst = 2
  Cost = 3
  Second = 2
  Slack = 2
  MaxTime = 10
SPECIFICATION Spec
INVARIANTS
  TypeOK
  AverageHolds
  PromiseKept
SYMMETRY Symmetry
CHECK_DEADLOCK FALSE
