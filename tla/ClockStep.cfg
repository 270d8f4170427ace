SPECIFICATION Spec
CONSTANTS
  MaxSteps = 2
  ResetHold = 2
  UiOps = {"toggle", "instr", "over", "break", "save", "load", "close"}
  Freezes = FALSE
  FrameRounds = 2
  UserWaitsForLoad = TRUE
INVARIANT SaveReadsQuietMachine
PROPERTY ParkedThreadLeaves
CHECK_DEADLOCK FALSE
