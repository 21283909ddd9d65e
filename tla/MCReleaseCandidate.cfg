SPECIFICATION CandidateSpec
CONSTANTS
  None = None
  demoStore = demoStore
  demoHo = demoHo
  t1 = t1
  t2 = t2
  x1 = x1
  x2 = x2
  Tags = {t1, t2}
  Digests = {x1, x2}
  Demos = {demoStore, demoHo}
  KindOf <- MCKindOf
  Previews = {p1}
  Approvals = {a1}
  Builds <- MCBuilds
  ByHand <- MCByHand
  MaxRepoints = 1
INVARIANT CandidateSound
PROPERTY NeverOlder
CHECK_DEADLOCK FALSE
