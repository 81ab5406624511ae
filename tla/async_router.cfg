SPECIFICATION AsyncSpec
CONSTANTS
  Capacity = 4
  MessageLength = 10
INVARIANTS
  NeverTerminates
