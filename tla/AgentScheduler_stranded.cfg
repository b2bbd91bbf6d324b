CONSTANTS
  None = None
  a1 = a1
  a2 = a2
  s1 = s1
  SpaceOf <- OneSpace
  Agents = {a1}
  Clocked = {}
  Keys = {k1, k2}
  Declinable = {k1}
  Runs = {r1, r2}
  Ticks = {t1}
  Senders = {n1}
  Editors = {}
  Doors = {}
  Edits = {}
  Faults = {}
  MaxFailures = 1
  MaxPending = 2
  MaxPerTick = 1
  MaxOthers = 0
SPECIFICATION Spec
INVARIANTS NoMailStranded
SYMMETRY RunSymmetry
