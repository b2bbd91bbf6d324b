CONSTANTS
  None = None
  a1 = a1
  a2 = a2
  s1 = s1
  SpaceOf <- OneSpace
  Agents = {a1, a2}
  Clocked = {a1, a2}
  Keys = {}
  Declinable = {}
  Runs = {r1, r2}
  Ticks = {t1, t2}
  Senders = {}
  Editors = {}
  Doors = {}
  Edits = {}
  Faults = {}
  MaxFailures = 1
  MaxPending = 1
  MaxPerTick = 1
  MaxOthers = 0
SPECIFICATION Spec
INVARIANTS OneRunPerSpace
SYMMETRY RunSymmetry
