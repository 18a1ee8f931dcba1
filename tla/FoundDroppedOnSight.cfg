CONSTANTS
  c1 = c1
  c2 = c2
  p1 = p1
  None = None
  CliSockets <- TwoClis
  PhoneSockets <- OnePhone
  HighWater = 1
  StallPolls = 2
  HeartbeatGrace = 1
  Ceiling = 9
CHECK_DEADLOCK FALSE
SPECIFICATION SafeSpec
INVARIANTS
  DroppedOnSight
