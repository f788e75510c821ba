SPECIFICATION Spec
CONSTANTS
  Projects <- MCProjects
  Platform = "platform"
  Contents <- MCContents
  Empty = Empty
  InitialRows = Empty
  Keys <- MCKeys
  NoKey = NoKey
  None = None
  Requests <- ImportIds
  Operation <- ImportOperation
  IdempotencyKey <- ImportKey
  Project <- ImportProject
  Incoming <- ImportDocument
  Dangling <- MCDangling
  Exports = {}
  MaxFaults = 1
INVARIANT TypeOK
INVARIANT OneEffectPerKey
INVARIANT AtMostOnce
INVARIANT AcksAreDurable
INVARIANT RejectionHasNoEffect
PROPERTY OutcomesAreFinal
