SPECIFICATION Spec
CONSTANTS
  Probers = {p1, p2}
  Names = {n1, n2, n3}
  None = None
  Volumes <- MCVolumes
  MaxFaults = 2
SYMMETRY MCSymmetry
INVARIANTS
  TypeOK
  ModeHonest
  StrongestMode
  NoDrift
CHECK_DEADLOCK FALSE
