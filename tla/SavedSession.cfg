CONSTANTS
  s1 = s1
  s2 = s2
  None = None
  Sessions <- BothSessions
  MaxSeq = 2
  MaxAge = 1
CHECK_DEADLOCK FALSE
SPECIFICATION Spec
INVARIANTS
  ProgressIsTended
PROPERTIES
  StoredNeverRegresses
  ProgressIsSaved
