CONSTANTS
  None = None
  a1 = a1
  a2 = a2
  s1 = s1
  SpaceOf <- OneSpace
  Agents = {a1}
  Clocked = {a1}
  Keys = {}
  Declinable = {}
  Runs = {r1, r2}
  Ticks = {t1}
  Senders = {}
  Editors = {e1}
  Doors = {}
  Edits = {"save"}
  Faults = {}
  MaxFailures = 1
  MaxPending = 1
  MaxPerTick = 1
  MaxOthers = 0
SPECIFICATION Spec
PROPERTIES OnlyAPersonSwitchesOn
SYMMETRY RunSymmetry
