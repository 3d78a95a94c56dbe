CONSTANTS
  n1 = n1
  n2 = n2
  n3 = n3
  e0 = e0
  e1 = e1
  e2 = e2
  gone = gone
  disc = disc
  maindol = maindol
  game = game
  update = update
  NoPartition = NoPartition
  NoRead = NoRead
  Nothing = Nothing
  Game = game
  Nodes <- MCNodes
  Partitions <- MCPartitions
  DiscOffset <- MCDiscOffset
  DiscSize <- MCDiscSize
  FileSize <- MCFileSize
  Fixed <- MCFixed
  Missing <- MCMissing
  FilePatches <- MCFilePatches
  ShiftPatches <- MCShiftPatches
  MaxFound = 2
  Word = 2
  Align = 8
  Block = 4
  High = 100
  MaxPatches = 2
SPECIFICATION CSpec
INVARIANTS
  FilesApart
PROPERTY ImplementsPromise
