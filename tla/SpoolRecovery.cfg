SPECIFICATION FairSpec
CONSTANTS
  Bytes <- MCBytes
  NL <- MCNL
  lineBreaks <- MCLineBreaks
  Hole <- MCHole
  Writers = {w1, w2}
  Inputs <- MCInputs
  Inodes = {i1}
  None = None
  Root <- MCRoot
  Syncers <- MCHostLossSyncers
  Devices <- MCDevices
  Sites <- MCGoodSites
  Barrier <- MCLocal
  ExclusiveFlock <- MCLocal
  KeepsDirty = TRUE
  MaxBytes = 3
  MaxFaults = 2
PROPERTIES
  Recovers
