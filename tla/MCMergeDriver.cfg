CONSTANTS
  x = x
  y = y
  N = 2
  InHead = 1
  Empty = Empty
  Markers = Markers
  Latin = Latin
  NoBody = NoBody
  Foreign = Foreign
  Binary = Binary
  Large = Large
  NoFile = NoFile
  Old = Old
  Running = Running
  Bodies = {x, y, Empty, Markers, Latin}
  Versions <- SomeVersions
CHECK_DEADLOCK FALSE
SPECIFICATION Spec
INVARIANTS NoFalseConflict
PROPERTIES ImplementsAtomicMerge
