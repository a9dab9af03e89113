SPECIFICATION Spec
CONSTANTS
  Bytes <- MCBytes
  NL <- MCNL
  lineBreaks <- MCLineBreaks
  Hole <- MCHole
  Chunk = 3
  MaxLen = 8
  Contents <- MCContents
INVARIANTS
  FindsLastNewline
PROPERTIES
  ScanEnds
