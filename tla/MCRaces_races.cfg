CONSTANTS
  None = None
  Paths = {p1, p2}
  Requests = {q1, q2}
  Drains = {d1, d2}
  Jobs = {j1, j2}
  Kinds = {"write", "entity", "restore", "rename", "delete", "reconcile"}
  OutboxFaults = {"die", "throw"}
  MaxEdits = 2
  MaxAttempts = 1
  Calls = {k1}
  Tickers = {t1, t2}
  EdgeFaults = {"refuse", "deaf", "die", "nap"}
  Allowances = {None, 1}
  MaxUsage = 7
  MaxTickDeaths = 1
SPECIFICATION RacesSpec
INVARIANTS OnlyTornForgotten OverrunBounded
PROPERTIES OutboxPromise
SYMMETRY RacesSymmetry
CHECK_DEADLOCK FALSE
