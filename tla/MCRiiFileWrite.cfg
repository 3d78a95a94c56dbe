CONSTANTS
  Bytes <- MCBytes
  MaxSize = 3
  Modes <- MCReadWrite
  WriteAfterShortRead = TRUE
  SyncAtAnyTime = FALSE
SPECIFICATION Spec
PROPERTY WritesLand
