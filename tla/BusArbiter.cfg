\* All kinds of bus cycle in any order; a service moves one or two bytes.
SPECIFICATION Spec
CONSTANTS
  Ops = {"MemR", "MemW", "IoR", "IoW", "DmaR", "DmaW"}
  MaxBurst = 2
INVARIANTS
  OneMaster
  RecoveryShielded
  AccessIsCurrent
  LostOnlyAfterWrite
PROPERTIES
  CpuRuns
  RequestGranted
