\* Statements of the repository that the code does not keep: check one at a time.
SPECIFICATION FairSpec
CONSTANTS
  None = None
  Tags = {t1, t2}
  Digests = {d1, d2}
  Staged <- MCStaged
  MaxPromotions = 2
  MaxRuns = 1
  MaxCrashes = 0
INVARIANT SecondRefused
\* PROPERTY ExpiryFreesUnreached
CHECK_DEADLOCK FALSE
