CONSTANTS
  c1 = c1
  c2 = c2
  Conns <- MCConns
  Timeout = 4
  PingEvery = 1
  CommandTime = 3
SPECIFICATION FairSpec
INVARIANTS
  ScanIsSafe
  StreamsOutliveCommands
  LiveClientsStay
PROPERTY DeadClientsLeave
