SPECIFICATION Spec
CONSTANTS
  Size = 3
  Width = 8
  MaxPulses = 8
INVARIANTS InOrder
PROPERTIES LoopReturns
