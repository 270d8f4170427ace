SPECIFICATION Spec
CONSTANTS
  Code <- MCCode
  Vectors <- MCVectors
  Irqs = {8}
  Starts = {1, 19}
  FirstStart = 1
  HandlerCode = {11, 12, 13, 14, 15, 16, 17, 18}
  Open <- MCOpen
  Cut <- MCCut
  MaxCx = 1
  MaxIntr = 1
  MaxNmi = 1
  MaxReset = 1
INVARIANTS ProgramUndisturbed PrefixesApply SteppedOnce
PROPERTY RequestsServed
CHECK_DEADLOCK FALSE
