CONSTANTS
  None = None
  Unreadable = Unreadable
  MaxEvents = 5
  MaxRecords = 22
  MaxFaults = 3
  Faults = {"append", "torn", "count", "trim", "rewrite", "crash"}
  Types = {"created"}
CHECK_DEADLOCK FALSE
SPECIFICATION Spec
INVARIANTS
  GrowthIsBounded
  CountCoversTheFile
  NewestAreKept
