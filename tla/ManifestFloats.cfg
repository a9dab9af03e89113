SPECIFICATION ManifestSpec
CONSTANTS
  Streams <- MCStreams
  IntFields <- MCIntFields
  Bounds <- MCBounds
  Defaults <- MCDefaults
  MaxSlugLen = 3
  ExponentFrom = 10
INVARIANTS
  NoManifestPanic
CHECK_DEADLOCK FALSE
