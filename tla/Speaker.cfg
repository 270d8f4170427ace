SPECIFICATION Spec
CONSTANTS
  Size = 4
  Wrap = 8
  Samples = {0, 1}
INVARIANT NoTornSample
PROPERTY IsSpeakerQueue
