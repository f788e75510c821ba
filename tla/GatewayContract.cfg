SPECIFICATION Spec
CONSTANTS
  c1 = c1
  c2 = c2
  Clients = {c1, c2}
  Scenarios <- MCScenarios
  MaxTransientRetries = 2
  Retention = 30
  SecretLike = {"cookie"}
INVARIANTS
  EffectsAreOnRecord
  ContractHolds
CHECK_DEADLOCK FALSE
