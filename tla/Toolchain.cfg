SPECIFICATION Spec
CONSTANTS
  Shells = {s1, s2}
  Absent = Absent
  Damaged = Damaged
  Documents <- MCDocuments
  Captures <- MCCaptures
  Filters <- MCFilters
  Builds <- MCBuilds
  Built <- MCBuilt
  Fitting <- MCFitting
  MaxGenerations = 2
  MaxTests = 1
  MaxInterrupts = 1
  LargeObjectPropertyThreshold = 2
  LargeToolsetThreshold = 2
  ManyRequiredParametersThreshold = 2
SYMMETRY ShellSymmetry
INVARIANTS
  WritesAreConsented
  PackageHoldsTogether
CHECK_DEADLOCK FALSE
