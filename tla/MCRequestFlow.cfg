SPECIFICATION FairSpec
CONSTANTS
  r1 = r1
  r2 = r2
  m1 = m1
  NoModel = NoModel
  NoOverride = NoOverride
  FailuresThreshold = 2
  Cooldown = 1
  UnhealthyThreshold = 1
  HealthyThreshold = 1
  NumBackends = 2
  Models = {m1}
  Serves <- MCServes
  Requests = {r1, r2}
  Capacity <- MCCapacity
  RateMode <- MCRateMode
  Burst <- MCBurst
  Strategy = "model_affinity"
  Fallback = "round_robin"
  HealthEnabled = FALSE
  CursorWrap = 2
  Kind <- MCKind
  ModelOf <- MCModelOf
  RoutingRetries = 1
  BackendRetries <- MCBackendRetries
INVARIANTS
  TypeOK
  SlotAccounting
PROPERTIES
  GivesUpOnlyWhenExhausted
  RefusedOnlyByOpenBreakers
  RequestMovesOn
