SPECIFICATION HostsSpec
CONSTANTS
  Worlds <- MCWorlds
  Environments <- MCEnvironments
  Requests <- MCRequests
  Limits <- MCLimits
  Kernel <- MCKernel
  Options <- MCOptions
  Assignments <- MCAssignments
  Durations <- MCDurations
  Pythons <- MCPythons
  ServiceUnits <- MCServiceUnits
  Secrets <- MCSecrets
  MaxChanges = 3
CHECK_DEADLOCK FALSE
INVARIANTS
  HostShowsItself
  QuietIsComplete FilesReadAsChecked RemoteNeedsToken
