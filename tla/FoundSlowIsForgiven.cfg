CONSTANTS
  c1 = c1
  c2 = c2
  p1 = p1
  None = None
  CliSockets <- OneCli
  PhoneSockets <- OnePhone
  HighWater = 2
  StallPolls = 2
  HeartbeatGrace = 2
  Ceiling = 4
CHECK_DEADLOCK FALSE
SPECIFICATION SafeSpec
PROPERTIES
  SlowIsForgiven
