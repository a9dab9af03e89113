SPECIFICATION Spec
CONSTANTS
  Settings <- MCSettings
  None = None
INVARIANTS
  ClassifiedByOwnType
  MeasuredHere
CHECK_DEADLOCK FALSE
