CONSTANTS
  Containers <- TwoContainers
  Rank <- TwoRanks
  Statuses <- TwoStatuses
  Times = {1, 2, 3}
  MaxSafe = 2
  MaxEvents = 2
  MaxEpoch = 3
  MaxSequence = 3
SPECIFICATION Spec
INVARIANTS
  ResponseAccepted
  NewestMatchesInventory
PROPERTIES
  IdsAreFresh
