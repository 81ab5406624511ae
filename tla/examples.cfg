SPECIFICATION FairSpec
CONSTANTS
  MAX_VAL = 8
  Rounded <- ToFloat
  Objects <- Weights
  Characters <- Typed
  Expressions <- Lines
  Letters <- Alphabet
  Texts <- Words
  Slots = {1, 2}
  Arguments <- Counts
  Kinds = {"weights", "parentheses", "letters", "distinct", "fibonacci",
           "messages", "packets"}
  MaxLength = 6
  Capacities = {2, 4, 8}
  Lengths = {0, 1, 2, 3, 4, 7, 10}
  Capacity = 4
  MessageLength = 10
INVARIANTS
  NoTwoBinsFitInOne
  ReportsFirstOffender
  BalancedAccepted
  PermutesUnique
  UndefinedIfRepeated
  PermutesLetters
  FibonacciSums
  ExampleTypeOK
  ExampleNoDeadlock
  AssertionsHold
  StartOrder
  AsyncTypeOK
  ReadsInOrder
  ShutDown
  AsyncNoDeadlock
PROPERTIES
  ExampleReturns
  AsyncEnds
  FollowsHeuristics
CHECK_DEADLOCK FALSE
