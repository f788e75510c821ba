SPECIFICATION Spec
CONSTANTS
  Projects <- MCProjects
  Platform = "platform"
  Contents <- MCContents
  Empty = Empty
  InitialRows <- MCInitial
  Keys <- MCKeys
  NoKey = NoKey
  None = None
  Requests <- RetryIds
  Operation <- RetryOperation
  IdempotencyKey <- RetryKey
  Project <- RetryProject
  Incoming <- RetryDocument
  Dangling = {}
  Exports = {}
  MaxFaults = 1
PROPERTY CommittedPartitionRetryIsReplayed
