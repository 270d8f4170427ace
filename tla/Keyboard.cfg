SPECIFICATION Spec
CONSTANTS
  Bits = {2, 6, 7}
  Sw1 = 50
  Sw2Low = 51
  Sw2High = 52
  RingSize = 2
  ResetDelay = 2
  MaxHost = 2
  MaxQueued = 2
  MaxWrites = 1
  PortBWrites <- MCPortBWrites
INVARIANTS KeysConserved CodesReadOnce
PROPERTIES CodesAllRead CleanEdge
