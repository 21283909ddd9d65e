CONSTANTS
  Companies = {"a", "b"}
  Tenants = {"store", "panel"}
  Panels = {"panel"}
  Owner <- MCOwner
  Registries <- MCCurrent
  Offered = {"stock_transfers"}
  Withdrawn = {}
  Wanted = {"stock_transfers"}
  Prices = {4900, 9900}
  MaxCuts = 0
  MaxBoots = 2
  MaxEdits = 4
SPECIFICATION Spec
PROPERTY AgreedPriceKept
CHECK_DEADLOCK FALSE
