CONSTANTS
  s1 = s1
  s2 = s2
  k1 = k1
  c1 = c1
  c2 = c2
  p1 = p1
  p2 = p2
  None = None
  Sessions <- TwoSessions
  Codes <- OneCode
  CliSockets <- OneCli
  PhoneSockets <- TwoPhones
  SizedSessions <- OneSession
  HeartbeatGrace = 1
CHECK_DEADLOCK FALSE
SPECIFICATION SafeSpec
INVARIANTS
  AckedSessionIsLive
  ClosedIsRecordedOnce
  CodeIsKeptUntilPaired
  PhoneIsAnnouncedOnceKeyed
PROPERTIES
  ReplacedByOwnKind
