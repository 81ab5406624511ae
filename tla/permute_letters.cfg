SPECIFICATION Spec
CONSTANTS
  MAX_VAL = 8
  Rounded <- ToFloat
  Objects <- Weights
  Characters <- Typed
  Expressions <- Lines
  Letters <- Alphabet
  Texts <- Words
  Slots = {1, 2}
  Arguments <- Counts
  Kinds = {"letters"}
  MaxLength = 5
  Capacities = {4}
  Lengths = {10}
  Capacity = 4
  MessageLength = 10
INVARIANTS
  FindsAllPermutations
CHECK_DEADLOCK FALSE
