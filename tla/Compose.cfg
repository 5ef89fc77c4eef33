CONSTANTS
  Files <- MCFiles
  BaseFiles <- MCBaseFiles
  Overrides <- MCOverrides
  Contents <- MCContents
  Holds <- MCHolds
  Snapshots <- MCSnapshots
  ScanRequests <- MCScanRequests
  PlanRequests <- MCPlanRequests
  BaseDir <- MCBaseDir
  Home <- MCHome
  Symlinks <- MCSymlinks
  Present <- MCPresent
  Letters = {"C", "D"}
  Dotted = {".", "..", ".ssh"}
  Secrets = {"s3cret"}
  MaxEdits = 2
SPECIFICATION Spec
CHECK_DEADLOCK FALSE
INVARIANTS
  BindingIsOneMoment
  CorrelationsPartition
  UnsafeBindsBlocked
  EditPlanIsExact
