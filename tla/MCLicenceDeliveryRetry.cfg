CONSTANTS
  None = None
  s1 = s1
  p1 = p1
  Stores = {s1}
  Panels = {p1}
  Fleet <- StoreAndPanel
  Requests = {r1}
  Features = {ai}
  Stripped = {ai}
  PanelOnly = {ai}
  OfflineDays = 2
  GraceDays = 1
  Period = 1
  MaxLag = 2
  MaxChanges = 1
  MaxRequests = 1
  MaxFaults = 1
  MaxCrashes = 0
SPECIFICATION Spec
INVARIANT OkMeansDelivered
