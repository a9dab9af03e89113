SPECIFICATION Spec
CONSTANTS
  Bytes <- MCBytes
  NL <- MCNL
  lineBreaks <- MCLineBreaks
  Hole <- MCHole
  Writers = {w1, w2}
  Inputs <- MCInputs
  Inodes = {i1, i2}
  None = None
  Root <- MCRoot
  Syncers <- MCProcessCrashSyncers
  Devices <- MCDevices
  Sites <- MCGoodSites
  Barrier <- MCLocal
  ExclusiveFlock <- MCLocal
  KeepsDirty = TRUE
  MaxBytes = 5
  MaxFaults = 3
SYMMETRY MCSymmetry
INVARIANTS
  NoFusedRecords
  AckedSurvives
PROPERTIES
  KeepsPromise
