CONSTANTS
  None = None
  Unpriced = Unpriced
  Kept = Kept
  Gone = Gone
  c1 = c1
  c2 = c2
  p1 = p1
  p2 = p2
  Clients = {c1, c2}
  Plans = {p1, p2}
  Features <- MCFeatures
  PerCompany = {"multi_store"}
  HeadOffice = "multi_store"
  ListStore = 5
  ListTill = 3
  ListSetup = 6
  ListAddon <- MCListAddon
  MonthDays = 2
  YearDays = 4
  Forever = 30
  PlanEdits <- MCPlanEdits
  CompanyBodies <- MCCompanyBodies
  ClientBodies <- MCClientBodies
  NewClients <- MCNewClients
  InvoiceBodies <- MCInvoiceBodies
  MaxStores = 2
  LastDay = 4
  Warning = 1
  DueDays = 1
  Scenarios <- MCScenarios
  Quotes = {1}
  Configs <- MCConfigs
  Corrections <- MCCorrections
  MaxTills = 3
SPECIFICATION Spec
INVARIANT OfficeSound
INVARIANT ChargedOnce
PROPERTY PeriodsSettled
PROPERTY LinkedOnce
PROPERTY RenewalRaised
CHECK_DEADLOCK FALSE
