CONSTANTS
  a1 = a1
  a2 = a2
  p1 = p1
  NoScan = NoScan
  Scans <- TwoScans
  Pastes <- OnePaste
  Visits <- AnyVisit
  MaxBuild = 2
  Chunk = 3
  Limit = 6
  Wide <- AllPairs
CHECK_DEADLOCK FALSE
SPECIFICATION Spec
INVARIANTS
  CameraCanBeStopped
  OfferIsKept
  ReloadsForANewerWorker
  PasteInOrder
  UndisturbedPasteArrives
PROPERTIES
  StoppedScanEnds
  TakenUpdateLands
  PasteEnds
