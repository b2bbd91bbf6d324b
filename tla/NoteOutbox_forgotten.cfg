CONSTANTS
  None = None
  Paths = {p1}
  Requests = {q1, q2}
  Drains = {d1}
  Jobs = {j1, j2}
  Kinds = {"write"}
  OutboxFaults = {"throw"}
  MaxEdits = 2
  MaxAttempts = 2
SPECIFICATION OutboxSpec
INVARIANTS NothingForgotten
CHECK_DEADLOCK FALSE
