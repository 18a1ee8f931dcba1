CONSTANTS
  http = http
  miss = miss
  NoEntry = NoEntry
  Buckets <- Both
  Limit <- Limits
  Window <- Windows
  Longest = 3
  MaxTime = 7
CHECK_DEADLOCK FALSE
SPECIFICATION LimiterSpec
INVARIANTS
  AtMostTwiceTheLimit
PROPERTIES
  RefusalIsEarned
