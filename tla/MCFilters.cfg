CONSTANTS
  fileA = fileA
  fileB = fileB
  password = password
  ageLike = ageLike
  first = first
  second = second
  None = None
  Damaged = Damaged
  Files = {fileA}
  Texts = {password, ageLike}
  Magic = {ageLike}
  Elsewhere <- Committed
  Procs = {first, second}
  MaxGen = 2
  MaxBlobs = 2
  MaxRuns = 2
  MaxEvents = 2
SYMMETRY Interchangeable
SPECIFICATION Spec
INVARIANTS CleanEncrypts OneGeneration IInv
PROPERTIES NoNeedlessCiphertext ImplementsAtomicFilters
CHECK_DEADLOCK FALSE
