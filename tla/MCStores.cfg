CONSTANTS
  None = None
  s1 = s1
  s2 = s2
  p1 = p1
  c1 = c1
  u1 = u1
  u2 = u2
  u3 = u3
  Stores = {s1, s2}
  Panels = {p1}
  Companies = {c1}
  Urls = {u1, u2, u3}
  Serves <- MCServes
  Production = FALSE
  MaxTills = 2
  Jobs = {j1, j2}
  Apps = {1, 2, 3}
  StagingMode = FALSE
  LegacyAllowed = TRUE
  MaxPasswords = 3
  Callers = {k1, k2}
  MaxTokens = 4
  Id <- MCId
  Faults = {f1, f2}
  Details = {1, 2}
  Checks = {h1, h2}
  Starts <- MCStarts
SYMMETRY Alike
SPECIFICATION StoresSpec
INVARIANT RowsSound
INVARIANT AppsSound
INVARIANT AdminTold
INVARIANT BranchesAgree
INVARIANT FeedSound
CHECK_DEADLOCK FALSE
