CONSTANTS
  main = main
  linked = linked
  pathA = pathA
  pathB = pathB
  default = default
  prod = prod
  Worktrees = {main}
  Paths = {pathA, pathB}
  Rings = {default, prod}
  RingOf <- OnePerRing
  Sparse <- NoFile
  Ops = {"lock", "unlock", "status"}
  Outages <- AnyFiles
  Pulled = {prod}
  MaxCrashes = 2
  MaxFaults = 1
  MaxEdits = 1
  MaxMoves = 0
SPECIFICATION FairSpec
INVARIANTS OneTransaction
PROPERTIES OtherRingsUntouched CommandReturns
