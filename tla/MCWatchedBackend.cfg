SPECIFICATION BusySpec
CONSTANTS
  r1 = r1
  r2 = r2
  NoModel = NoModel
  NoOverride = NoOverride
  FailuresThreshold = 2
  Cooldown = 2
  UnhealthyThreshold = 2
  HealthyThreshold = 2
  NumBackends = 1
  Models = {}
  Serves <- MCServes
  Requests = {r1, r2}
  Capacity <- MCCapacity
  RateMode <- MCRateMode
  Burst <- MCBurst
  Strategy = "round_robin"
  Fallback = "none"
  HealthEnabled = TRUE
  CursorWrap = 1
  Kind <- MCKind
  ModelOf <- MCModelOf
  RoutingRetries = 0
  BackendRetries <- MCNoOverride
INVARIANTS
  BreakerFollowsFaults
PROPERTIES
  RefusedOnlyByOpenBreakers
  SteadyFlagReopens
