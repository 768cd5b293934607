SPECIFICATION MCFairSpec
CONSTANTS
  Peers <- MCPeers
  KeyCount = 3
  MaxVersion = 3
  MaxFaults = 2
  MaxStops = 2
CHECK_DEADLOCK FALSE
INVARIANTS
  WrittenIsKept
  QuitKeepsAll
  ReadsAreQuiet
PROPERTIES
  DraftsReachDisk
