CONSTANTS
  None = None
  Calls = {k1, k2}
  Tickers = {tk}
  EdgeFaults = {}
  Allowances = {None, 1}
  MaxUsage = 5
  MaxTickDeaths = 0
SPECIFICATION MachineSpec
INVARIANTS AwakeIsOnRecord
