SPECIFICATION FairSyncSpec
CONSTANTS
  Worker = {wa}
  Slug <- MCSlug
  Port = {1}
  Label <- MCLabel
  PlanPrefixed <- MCPlanPrefixed
  AutoRouteName <- MCAutoRouteName
  planningRouteName <- MCPlanningRouteName
  ExposeName <- MCExposeName
  Unresolvable <- MCUnresolvable
  AutoRouteGrace = 0
  MaxAutoRoutesPerWorker = 1
  ChanCap = 1
  MaxSaveFailures = 0
  MaxCalls = 3
  MaxFaults = 0
  OtherStream = {d}
  Command = {}
PROPERTIES
  HostsCatchUp
CHECK_DEADLOCK FALSE
