CONSTANTS
  None = None
  a1 = a1
  a2 = a2
  s1 = s1
  SpaceOf <- OneSpace
  Agents = {a1}
  Clocked = {a1}
  Keys = {k1}
  Declinable = {k1}
  Runs = {r1}
  Ticks = {t1}
  Senders = {n1}
  Editors = {}
  Doors = {"chain"}
  Edits = {}
  Faults = {"run", "send", "db"}
  MaxFailures = 1
  MaxPending = 1
  MaxPerTick = 1
  MaxOthers = 1
SPECIFICATION FairSpec
PROPERTIES ClaimsFreed RunRowsEnd ClockedMailTaken
