SPECIFICATION FairSpec
CONSTANTS
  None = None
  Tags = {t1, t2}
  Digests = {d1, d2}
  Staged <- MCStaged
  MaxPromotions = 2
  MaxRuns = 1
  MaxCrashes = 1
PROPERTY PromotionEnds
CHECK_DEADLOCK FALSE
