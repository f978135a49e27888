CONSTANTS
  p1 = p1
  p2 = p2
  p3 = p3
  i1 = i1
  i2 = i2
  i3 = i3
  i4 = i4
  Procs = {p1, p2, p3}
  Inodes = {i1, i2, i3, i4}
  MaxReplacements = 2
  ReplacedWhileHeld = FALSE
  NoFile = NoFile
  Link = Link
  NoOne = NoOne
SPECIFICATION FairSpec
INVARIANTS IInv
PROPERTIES ImplementsAtomicMutex AcquireReturns BlockedByTheLiving
