CONSTANTS
  None = None
  a1 = a1
  a2 = a2
  s1 = s1
  SpaceOf <- OneSpace
  Agents = {a1}
  Clocked = {a1}
  Keys = {}
  Declinable = {}
  Runs = {r1, r2}
  Ticks = {t1}
  Senders = {}
  Editors = {}
  Doors = {"person"}
  Edits = {}
  Faults = {"run", "tick", "late"}
  MaxFailures = 1
  MaxPending = 1
  MaxPerTick = 1
  MaxOthers = 0
SPECIFICATION Spec
INVARIANTS ClockKept
PROPERTIES OnlyADeathOrphans ClaimsAreLeases
SYMMETRY RunSymmetry
