CONSTANTS
  None = None
  Unreadable = Unreadable
  MaxEvents = 5
  MaxRecords = 8
  MaxFaults = 0
  Faults = {}
  Types = {"created"}
CHECK_DEADLOCK FALSE
SPECIFICATION Spec
PROPERTIES
  SessionsEverOnlyGrow
