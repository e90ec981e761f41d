CONSTANTS
  None = None
  Stuck = Stuck
  Tabs = {i1, i2}
  Tokens = {t1, t2, t3}
  Handlers = {h1, h2}
  MaxCalls = 1
  Mishaps = {"reload", "copy", "lost", "error"}
SPECIFICATION Spec
SYMMETRY Symmetry
CONSTRAINT LoginBound
INVARIANTS
  TypeOK
  ExchangedOnce
  NoFalseAlarm
  SignedInCanRefresh
CHECK_DEADLOCK FALSE
