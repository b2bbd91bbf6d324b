CONSTANTS
  None = None
  a1 = a1
  a2 = a2
  s1 = s1
  SpaceOf <- OneSpace
  Agents = {a1}
  Clocked = {a1}
  Keys = {}
  Declinable = {}
  Runs = {r1, r2}
  Ticks = {t1}
  Senders = {}
  Editors = {}
  Doors = {}
  Edits = {}
  Faults = {"run", "tick", "late", "db"}
  MaxFailures = 1
  MaxPending = 1
  MaxPerTick = 1
  MaxOthers = 1
SPECIFICATION Spec
INVARIANTS TypeOK ClaimHeld
PROPERTIES FailureCountedOnce SuccessStands
SYMMETRY RunSymmetry
