CONSTANTS
  Paths <- MCPaths
  Sizes <- MCSizes
  FirstTables <- MCTables
  NodeSize = 3
  Block = 8
  MaxNodes = 9
  MaxShift = 5
SPECIFICATION Spec
INVARIANTS
  WellNested
  EveryNodeIsFound
  SiblingsSorted
PROPERTY ImplementsDiscTree
