SPECIFICATION Spec
CONSTANTS
  Bytes <- MCBytes
  NL <- MCNL
  lineBreaks <- MCLineBreaks
  Hole <- MCHole
  Writers = {w1, w2}
  Inputs <- MCInputs
  Inodes = {i1, i2}
  None = None
  Root <- MCRoot
  Syncers <- MCHostLossSyncers
  Devices <- MCDevices
  Sites <- MCGoodSites
  Barrier <- MCLocal
  ExclusiveFlock <- MCLocal
  KeepsDirty = FALSE
  MaxBytes = 6
  MaxFaults = 3
SYMMETRY MCSymmetry
INVARIANTS
  AckedSurvives
