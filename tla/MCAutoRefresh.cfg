CONSTANTS
  f1 = f1
  f2 = f2
  c1 = c1
  Filters = {f1, f2}
  Commands = {c1}
  MaxGen = 2
  MaxRuns = 1
  MaxFiles = 1
  MaxFaults = 1
  NoFile = NoFile
  Nobody = Nobody
SPECIFICATION FairSpec
INVARIANTS IInv RefreshersExclusive
PROPERTIES CommandOwnsKey EverybodyReturns StaleKeyIsRefreshed
CHECK_DEADLOCK FALSE
