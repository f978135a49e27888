CONSTANTS
  main = main
  linked = linked
  pathA = pathA
  pathB = pathB
  default = default
  prod = prod
  Worktrees = {main, linked}
  Paths = {pathA, pathB}
  Rings = {default}
  RingOf <- AllDefault
  Sparse <- NoFile
  Ops = {"lock", "unlock", "status"}
  Outages <- WholeWorktrees
  Pulled = {}
  MaxCrashes = 1
  MaxFaults = 0
  MaxEdits = 0
  MaxMoves = 0
SPECIFICATION Spec
INVARIANTS RecoveryNeverRefuses
