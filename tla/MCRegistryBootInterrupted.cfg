CONSTANTS
  Companies = {"a", "b"}
  Tenants = {"store", "panel"}
  Panels = {"panel"}
  Owner <- MCOwner
  Registries <- MCInterrupted
  Offered = {"stock_transfers"}
  Withdrawn = {"whatsapp_cloud", "layby"}
  Wanted = {"stock_transfers", "layby"}
  Prices = {4900, 9900}
  MaxCuts = 0
  MaxBoots = 2
  MaxEdits = 0
SPECIFICATION Spec
PROPERTY BootKeeps
CHECK_DEADLOCK FALSE
