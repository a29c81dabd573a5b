SPECIFICATION Spec
CONSTANTS
  Worker = {wa, wb}
  Slug <- MCSlug
  Port = {1, 2}
  Label <- MCLabel
  PlanPrefixed <- MCPlanPrefixed
  AutoRouteName <- MCAutoRouteName
  planningRouteName <- MCPlanningRouteName
  ExposeName <- MCExposeName
  AutoRouteGrace = 0
  MaxAutoRoutesPerWorker = 1
  ChanCap = 1
  MaxSaveFailures = 1
  MaxCalls = 4
INVARIANTS
  TypeOK KeysUnique ExposedKept
PROPERTIES
  IdKeepsTarget
SYMMETRY Symmetry
CHECK_DEADLOCK FALSE
