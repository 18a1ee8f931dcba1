CONSTANTS
  c1 = c1
  c2 = c2
  p1 = p1
  None = None
  CliSockets <- TwoClis
  PhoneSockets <- OnePhone
  HighWater = 2
  StallPolls = 2
  HeartbeatGrace = 1
  Ceiling = 4
CHECK_DEADLOCK FALSE
SPECIFICATION Spec
INVARIANTS
  PausedIsWatched
  BacklogIsCapped
PROPERTIES
  ThrottleEnds
