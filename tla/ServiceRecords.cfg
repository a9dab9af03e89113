SPECIFICATION ParseSpec
CONSTANTS
  DefaultMaxEventBytes = 3
  Lines <- MCLines
  Limits = {0}
INVARIANT
  RecordsRender
CHECK_DEADLOCK FALSE
