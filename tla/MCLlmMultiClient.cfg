SPECIFICATION FairSpec
CONSTANTS
  p1 = p1
  p2 = p2
  m1 = m1
  c1 = c1
  c2 = c2
  Providers = {p1, p2}
  Models = {m1}
  Calls = {c1, c2}
  Serves <- MCServes
  Weight <- MCWeight
  CircuitBreakerThreshold = 1
  NoModel = NoModel
  NoProvider = NoProvider
INVARIANTS
  TypeOK
  DefaultsFollowEnabled
  OpenCircuitIsDisabled
  FailureOvershoot
  ExplicitModelStaysWithOwner
  DefaultCallTriesAllSteady
PROPERTIES
  HealthyProviderReturns
  CallsEnd
