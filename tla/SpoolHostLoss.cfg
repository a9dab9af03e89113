SPECIFICATION Spec
CONSTANTS
  Bytes <- MCBytes
  NL <- MCNL
  lineBreaks <- MCLineBreaks
  Hole <- MCHole
  Writers = {w1, w2}
  Inputs <- MCInputs
  Inodes = {i1, i2}
  None = None
  Root <- MCRoot
  Syncers <- MCHostLossSyncers
  Devices <- MCDevices
  Sites <- MCSites
  Barrier <- MCLocal
  ExclusiveFlock <- MCLocal
  KeepsDirty = TRUE
  MaxBytes = 7
  MaxFaults = 4
SYMMETRY MCSymmetry
INVARIANTS
  TypeOK
  SingleWriter
  NoFusedRecords
  AckedSurvives
  AckedDurable
PROPERTIES
  RecordsKept
  KeepsPromise
CHECK_DEADLOCK FALSE
