CONSTANTS
  None = None
  a1 = a1
  a2 = a2
  s1 = s1
  SpaceOf <- OneSpace
  Agents = {a1}
  Clocked = {}
  Keys = {k1, k2}
  Declinable = {k1, k2}
  Runs = {r1}
  Ticks = {t1}
  Senders = {n1, n2}
  Editors = {e1}
  Doors = {}
  Edits = {"activate", "off"}
  Faults = {"run", "edit", "send", "tick"}
  MaxFailures = 1
  MaxPending = 1
  MaxPerTick = 1
  MaxOthers = 0
SPECIFICATION Spec
INVARIANTS MailBounded
PROPERTIES OnlyTheseStrandMail
SYMMETRY MailSymmetry
