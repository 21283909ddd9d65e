CONSTANTS
  None = None
  c1 = c1
  c2 = c2
  s1 = s1
  s2 = s2
  small = small
  large = large
  Companies = {c1, c2}
  Stores = {s1, s2}
  Plans = {small, large}
  Ceiling <- MCCeiling
  StoreCap <- MCCap
  Requests = {w1}
  StoreEdits <- MCEdits
  MaxTills = 2
  Budgets <- MCBudgets
  Jobs = {j1}
  Workers = {k1}
  Wizards <- MCWizards
  Branches <- MCBranches
SYMMETRY Alike
SPECIFICATION Spec
INVARIANT DeployedMeansTriggered
CHECK_DEADLOCK FALSE
