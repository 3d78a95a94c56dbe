CONSTANTS
  f1 = f1
  f2 = f2
  f3 = f3
  f4 = f4
  d1 = d1
  d2 = d2
  d3 = d3
  noid = noid
  MaxOpenFiles = 3
  FileIds <- MCFileIds
  NullFileId <- noid
  Fds <- MCFds
  Timeout = 2
  MaxLate = 1
  ClockMod = 4
SYMMETRY MCSymmetry
SPECIFICATION Spec
INVARIANTS
  TypeOK
  SlotsPartitioned
  OpenedOnce
  DescriptorsMatch
  RightFile
  SortedByAge
PROPERTIES
  ClosesOnlyOldest
  ImplementsLru
