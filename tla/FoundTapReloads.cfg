CONSTANTS
  a1 = a1
  a2 = a2
  p1 = p1
  NoScan = NoScan
  Scans <- TwoScans
  Pastes <- OnePaste
  Visits <- TwoUpdates
  MaxBuild = 3
  Chunk = 3
  Limit = 6
  Wide <- AllPairs
CHECK_DEADLOCK FALSE
SPECIFICATION Spec
PROPERTIES
  TapReloads
