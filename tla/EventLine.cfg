SPECIFICATION Spec
CONSTANTS
  MaxScan = 6
  MaxDepth = 2
  Strings <- MCNames
  Scalars <- MCNumerals
  MaxSymbols = 9
  MaxAny = 5
  MaxNear = 8
  Documents <- MCDocuments
  Texts <- MCTexts
  Values <- MCValues
  MaxNesting = 3
  DefaultMaxEventBytes = 3
  Lines <- MCLines
  Limits = {0, 2, 4}
  Streams <- MCStreams
  IntFields <- MCIntFields
  Bounds <- MCBounds
  Defaults <- MCDefaults
  MaxSlugLen = 3
  ExponentFrom = 10
  PendingBytes = 12
  LineLengths <- MCLineLengths
  SetSizes <- MCSetSizes
INVARIANTS
  RefusesHalves
  DecodesExactly
  DigestDecides
  OneLine
  KeyOrder
  StreamsNest
  ServiceRecordShapes
  MarkerReserved
  NoPanic
  SourcesApart
  RetentionRemovable
  AllSupervised
  OverrunsByOne
  Accounted
  ReplaysInOrder
CHECK_DEADLOCK FALSE
