SPECIFICATION Spec
CONSTANTS
  Programs <- MCPrograms
  FreeOps <- MCPolling
  Content <- MCContent
  CardBytes <- MCCardBytes
  CardStatus = 128
  StatusPort = 1012
  CommandPort = 1013
INVARIANTS PortReadReturnsStatus
