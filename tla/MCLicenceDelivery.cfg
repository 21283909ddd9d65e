CONSTANTS
  None = None
  s1 = s1
  p1 = p1
  Stores = {s1}
  Panels = {}
  Fleet <- OneStore
  Requests = {r1}
  Features = {ai}
  Stripped = {ai}
  PanelOnly = {ai}
  OfflineDays = 2
  GraceDays = 1
  Period = 1
  MaxLag = 2
  MaxChanges = 1
  MaxRequests = 1
  MaxFaults = 1
  MaxCrashes = 1
SPECIFICATION Spec
INVARIANT TypeOK
PROPERTY NeverBack
PROPERTY DeliverySettles
