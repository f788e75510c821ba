SPECIFICATION FairSpec
CONSTANTS
  Projects <- MCProjects
  Platform = "platform"
  Contents <- MCContents
  Empty = Empty
  InitialRows <- MCInitial
  Keys <- MCKeys
  NoKey = NoKey
  None = None
  Requests <- PartitionIds
  Operation <- PartitionOperation
  IdempotencyKey <- PartitionKey
  Project <- PartitionProject
  Incoming <- PartitionDocument
  Dangling = {}
  Exports = {export1}
  MaxFaults = 1
INVARIANTS RegistryMatchesEvidence NoLostUpdate
PROPERTIES PartitionIsolation ImplementsLedger RetriesSettle
