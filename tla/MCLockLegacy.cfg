CONSTANTS
  main = main
  linked = linked
  pathA = pathA
  pathB = pathB
  default = default
  prod = prod
  Worktrees = {main, linked}
  Paths = {pathA}
  Rings = {default}
  RingOf <- AllDefault
  Sparse <- NoFile
  Ops = {"lock", "unlock", "status"}
  Outages <- WholeWorktrees
  Pulled = {}
  MaxCrashes = 1
  MaxFaults = 1
  MaxEdits = 1
  MaxMoves = 1
SPECIFICATION LegacySpec
PROPERTIES EditsSurvive ScanLeavesNoCiphertext
