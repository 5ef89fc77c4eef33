SPECIFICATION Spec
CONSTANTS
  Slots = {"network", "systemd"}
  Inventories <- MCInventories
  MockInventory <- MCMockInventory
  Messages = {"unavailable"}
  Collections <- MCCollections
  Bindings <- MCBindings
  MaxTime = 2
  MaxGeneration = 2
  MaxRevision = 6
  MaxBoundContainers = 2
  Sensitive = {"secret"}
  Unsafe = {"odd"}
  Marked = {}
PROPERTIES IdenticalRefreshKeepsRevision
CHECK_DEADLOCK FALSE
