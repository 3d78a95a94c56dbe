CONSTANTS
  Paths <- MCPaths
  Redirected <- MCRedirected
  Vff <- MCVff
  MayFail <- MCMayFail
  Units <- MCUnits
  Written <- MCWritten
  Hidden <- MCHidden
  FirstFiles <- MCFirstFiles
  MaxLen = 2
  MaxHeld = 2
  MAX_EMU_OPEN = 2
  MAX_FS_OPEN = 2
  move_size = 1
  buf_size = 2
SPECIFICATION FairSpec
INVARIANTS
  OneConversation
  MoveKeepsACopy
PROPERTIES
  ImplementsNandFiles
  EveryRequestAnswered
