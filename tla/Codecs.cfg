SPECIFICATION Spec
CONSTANTS
  MaxLen <- Limits
  UO_STACK_MIN_CAPACITY = 1
  WORD = 8
INVARIANTS
    EncodingsRestore
    JsonValuesFound
    GrownEnough
  HandlerMatches
CHECK_DEADLOCK FALSE
