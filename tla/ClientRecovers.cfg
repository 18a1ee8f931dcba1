CONSTANTS
  w1 = w1
  w2 = w2
  None = None
  Slots <- TwoSlots
  MaxWire = 1
  MaxCuts = 1
  Starts <- Pairing
CHECK_DEADLOCK FALSE
SPECIFICATION Spec
PROPERTIES
  LineComesBack
