SPECIFICATION FairSpec
CONSTANTS
  c1 = c1
  c2 = c2
  operator = operator
  Operator = operator
  OperatorEnviron <- MCOperatorEnviron
  PackageName <- MCPackageName
  Callers = {c1, c2}
  Registry <- MCRegistry
  Package <- MCPackage
  Declared <- MCDeclared
  Mapped <- MCMapped
  Duration <- MCDuration
  Adapters <- MCAdapters
  Workloads <- MCWorkloads
  Outcomes <- MCOutcomes
  Environ <- MCEnviron
  ProxyEnviron <- MCEnviron
  ProxyConfig <- MCProxyConfig
  ApiKey = TRUE
  Quota = 2
  MaxFaults = 1
  MaxCommands = 1
  MaxBusy = 0
INVARIANTS
  FailoverKeepsItsWord
  EffectsAreAccounted
  OverrunIsBounded
  HeaderAuthIsCarried
PROPERTIES
  HistoryStands
  CallsEnd
CHECK_DEADLOCK FALSE
