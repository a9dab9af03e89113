SPECIFICATION Spec
CONSTANTS
  Settings <- MCMoving
  None = None
INVARIANT VolatileCapped
CHECK_DEADLOCK FALSE
