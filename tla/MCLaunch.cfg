CONSTANTS
  dip = dip
  Clients <- MCClients
  FatNames <- MCFatNames
  MaxMounted = 4
  MaxConnections = 4
SPECIFICATION LaunchSpec
CHECK_DEADLOCK FALSE
INVARIANTS
  RightFilesystem
  OpensWhatWasAsked
  StillChosen
  PatchesReachTheirFiles
  OpenFilesKeepTheirHandler
PROPERTY LogStays
