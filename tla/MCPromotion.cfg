SPECIFICATION Spec
CONSTANTS
  None = None
  Tags = {t1, t2}
  Digests = {d1, d2}
  Staged <- MCStaged
  MaxPromotions = 2
  MaxRuns = 2
  MaxCrashes = 0
INVARIANT BatchesApproved
PROPERTY OneReleaseOnFleet
PROPERTY VerdictSparesRollout
SYMMETRY MCSymmetry
CHECK_DEADLOCK FALSE
