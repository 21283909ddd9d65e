CONSTANTS
  Companies = {"a", "b"}
  Tenants = {"store", "panel"}
  Panels = {"panel"}
  Owner <- MCOwner
  Registries <- MCRegistries
  Offered = {"stock_transfers", "layby"}
  Withdrawn = {"layby", "whatsapp_cloud"}
  Wanted = {"layby", "whatsapp_cloud"}
  Prices = {4900}
  MaxCuts = 2
  MaxBoots = 3
  MaxEdits = 1
SPECIFICATION Spec
INVARIANT RegistrySound
PROPERTY BootSafe
