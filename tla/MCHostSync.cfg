SPECIFICATION MCSyncSpec
CONSTANTS
  Worker = {wa}
  Slug <- MCSlug
  Port = {1}
  Label <- MCLabel
  PlanPrefixed <- MCPlanPrefixed
  AutoRouteName <- MCAutoRouteName
  planningRouteName <- MCPlanningRouteName
  ExposeName <- MCExposeName
  Unresolvable <- MCUnresolvable
  AutoRouteGrace = 0
  MaxAutoRoutesPerWorker = 1
  ChanCap = 1
  MaxSaveFailures = 1
  MaxCalls = 3
  MaxFaults = 1
  OtherStream = {d}
  Command = {c}
INVARIANTS
  SyncTypeOK DriftIsSignalled
PROPERTIES
  DaemonCatchesUp
CHECK_DEADLOCK FALSE
