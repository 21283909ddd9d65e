SPECIFICATION Spec
CONSTANTS
  None = None
  Other = Other
  Batches = {b1, b2}
  NumTenants = 3
  Releases = {r2}
  Current = {r1}
  Fleets <- MCFleets
  TargetSets <- MCTargetSets
  WaveSizes = {2}
  Modes = {"image"}
  MaxDisturbances = 1
INVARIANT BatchesAddUp
INVARIANT FailedWaveStops
INVARIANT WavesInOrder
PROPERTY TenantsKeepContract
SYMMETRY MCSymmetry
CHECK_DEADLOCK FALSE
