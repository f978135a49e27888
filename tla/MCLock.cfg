CONSTANTS
  main = main
  linked = linked
  pathA = pathA
  pathB = pathB
  default = default
  prod = prod
  Worktrees = {main, linked}
  Paths = {pathA, pathB}
  Rings = {default}
  RingOf <- AllDefault
  Sparse <- LinkedSparse
  Ops = {"lock", "unlock", "status"}
  Outages <- WholeWorktrees
  Pulled = {default}
  MaxCrashes = 2
  MaxFaults = 1
  MaxEdits = 1
  MaxMoves = 1
SPECIFICATION Spec
INVARIANTS BodyStartsClean IInv
PROPERTIES WriteAhead EditsSurvive ReplayLeavesNoDamage ImplementsAtomicLock
