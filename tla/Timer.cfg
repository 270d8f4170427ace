SPECIFICATION PitSpec
CONSTANTS
  Channels = {2}
  Digit = 3
  Ten = 2
  HalfWord = 1
  CountMod = 27
  Divider = 2
  Data = {0, 1}
  ControlWords <- MCWords
INVARIANTS OutAsProgrammed LatchReadsWhole
