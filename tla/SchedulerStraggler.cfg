SPECIFICATION Spec
CONSTANTS
  network = network
  host = host
  Slots <- TwoSlots
  Rank <- TwoRank
  Interval <- TwoIntervals
  Network = network
  DisabledSlots = {}
  MaxConcurrent = 1
  Inventories = {"i1"}
  MockInventory = "mock"
  Stamps = {1}
  MockStamps = {1}
  Copies = {1, 2}
  Tails = {1}
  MaxGeneration = 3
INVARIANTS RetainedFromThisGeneration
