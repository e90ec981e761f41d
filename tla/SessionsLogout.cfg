CONSTANTS
  None = None
  Stuck = Stuck
  Tabs = {i1}
  Tokens = {t1, t2}
  Handlers = {h1, h2}
  MaxCalls = 1
  Mishaps = {}
SPECIFICATION Spec
SYMMETRY Symmetry
INVARIANT LogoutEndsSession
CHECK_DEADLOCK FALSE
