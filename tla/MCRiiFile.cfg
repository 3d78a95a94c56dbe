CONSTANTS
  Bytes <- MCBytes
  MaxSize = 3
  Modes <- MCModes
  WriteAfterShortRead = FALSE
  SyncAtAnyTime = FALSE
SPECIFICATION Spec
INVARIANTS
  PositionsAgree
PROPERTIES
  ImplementsPlainFile
