CONSTANTS
  Openings <- FourOpenings
  MaxRev = 2
  MaxDisturbances = 1
  MaxAttempts = 2
  MaxWire = 1
SPECIFICATION FairSpec
CHECK_DEADLOCK FALSE
INVARIANTS
  PairIsOnePublication
  FindingsBelongToModel
PROPERTIES
  NoRollback
  ModelConverges
