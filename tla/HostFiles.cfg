SPECIFICATION Spec
CONSTANTS
  Names = {"a", "r"}
  Byte = {0, 1, 2}
  HandleMod = 4
  PosMod = 8
  Slots = {1, 2}
  Areas = {1, 2}
  Counts = {2}
  Data <- MCData
  Patterns <- MCPatterns
  MaxCalls = 6
  MaxSize = 2
  Host <- MCHost
CHECK_DEADLOCK FALSE
INVARIANTS
  FilesAreFaithful
  HandlesDistinct
  SearchIsComplete
  StaysUp
