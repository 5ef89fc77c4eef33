SPECIFICATION FairSpec
CONSTANTS
  network = network
  host = host
  Slots <- TwoSlots
  Rank <- TwoRank
  Interval <- TwoIntervals
  Network = network
  DisabledSlots = {host}
  MaxConcurrent = 1
  Inventories = {"i1"}
  MockInventory = "mock"
  Stamps = {1, 2}
  MockStamps = {1}
  Copies = {1, 2}
  Tails = {1}
  MaxGeneration = 2
INVARIANTS CollectingBound SingleFlight MockHoldsNoHostEvidence NoLostClaim NetworkFreshIsCurrent
PROPERTIES RetentionWithinGeneration CollectingEnds
