SPECIFICATION FairSpec
CONSTANTS
  Capacity = 4
  MessageLength = 5
INVARIANTS
  RouterTypeOK
  FinishAfterFibers
  RouterInv
  LogsToConsole
  NoDeadlock
PROPERTIES
  ImplementsPacketFlow
  MainReturns
