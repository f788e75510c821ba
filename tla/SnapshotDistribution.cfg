SPECIFICATION Spec
CONSTANTS
  a = a
  b = b
  c = c
  p = p
  q = q
  Snapshots = {a, b, c}
  Version <- MCVersion
  Sources = {"dir"}
  Exporters = {"e"}
  Publishers = {p, q}
  DataPlanes = {"d"}
  None = None
  Torn = Torn
  MaxExports = 2
  MaxPublications = 3
INVARIANT DistributionHolds
PROPERTY ImplementsRegister
SYMMETRY Symmetry
CHECK_DEADLOCK FALSE
