CONSTANTS
  s1 = s1
  s2 = s2
  None = None
  Sessions <- OneSession
  MaxSeq = 1
  MaxAge = 1
CHECK_DEADLOCK FALSE
SPECIFICATION SafeSpec
INVARIANTS
  QuitWipes
  StoredWasDrawn
PROPERTIES
  WipedOnlyWhenOver
