SPECIFICATION Spec
CONSTANTS
  ByteSize = 3
  SectorSize = 2
  LongSize = 4
  SectorsPerTrack = 2
  Heads = 1
  DiskSize = 4
  OffsetMod = 16
  ProtCyl = 0
  Protected <- MCProtected
  Zero = 0
  Gap = 1
  CardByte = 2
  Floating = 3
  Fill = 4
  MaxPrograms = 2
  MaxResets = 1
  Retried = {"read", "write", "copy", "card"}
  Images <- MCImages
  Memory <- MCMemory
INVARIANTS
  TransferIsFaithful
  ActiveWhileExecuting
PROPERTIES
  OneChannelPerService
  WaitEnds
