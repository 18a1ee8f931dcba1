CONSTANTS
  MaxSeq = 3
  MaxGarbled = 1
  MaxLives = 2
  MaxDrops = 1
  MaxFlight = 2
  Replay = 2
CHECK_DEADLOCK FALSE
SPECIFICATION Spec
INVARIANTS
  EveryHoleIsMarked
  NothingIsSplicedSilently
  RestartIsDealtWith
PROPERTIES
  BehindMeansRestarted
