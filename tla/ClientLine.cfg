CONSTANTS
  w1 = w1
  w2 = w2
  None = None
  Slots <- TwoSlots
  MaxWire = 1
  MaxCuts = 1
  Starts <- EitherStart
CHECK_DEADLOCK FALSE
SPECIFICATION SafeSpec
SYMMETRY SlotSymmetry
INVARIANTS
  LineIsTended
PROPERTIES
  ImplementsLine
