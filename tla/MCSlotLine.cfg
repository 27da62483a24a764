SPECIFICATION Spec
CONSTANTS
  r1 = r1
  r2 = r2
  r3 = r3
  r4 = r4
  NoModel = NoModel
  NoOverride = NoOverride
  FailuresThreshold = 1
  Cooldown = 1
  UnhealthyThreshold = 1
  HealthyThreshold = 1
  NumBackends = 1
  Models = {}
  Serves <- MCServes
  Requests = {r1, r2, r3, r4}
  Capacity <- MCCapacity
  RateMode <- MCRateMode
  Burst <- MCBurst
  Strategy = "model_affinity"
  Fallback = "none"
  HealthEnabled = FALSE
  CursorWrap = 1
  Kind <- MCKind
  ModelOf <- MCModelOf
  RoutingRetries = 0
  BackendRetries <- MCBackendRetries
INVARIANTS
  NoSlotIdleBesideQueue
PROPERTIES
  ImplementsSlotPool
