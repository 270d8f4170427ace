SPECIFICATION Spec
CONSTANTS
  MaxSteps = 2
  ResetHold = 2
  UiOps = {"toggle", "cycle", "reset", "load", "close"}
  Freezes = FALSE
  FrameRounds = 2
  UserWaitsForLoad = TRUE
INVARIANT StepCreditConserved
INVARIANT LoadOverwritesQuietMachine
PROPERTY LoadCompletes
PROPERTY ShutdownCompletes
CHECK_DEADLOCK FALSE
