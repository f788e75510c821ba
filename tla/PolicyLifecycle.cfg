SPECIFICATION Spec
CONSTANTS
  Requests <- LifecycleIds
  Ask <- LifecycleAsk
  Drafts <- MCDrafts
  Actors <- MCActors
  Keys <- MCKeys
  Words <- MCWords
  Objects <- MCObjects
  Needs <- MCNeeds
  UpdateOnly <- MCUpdateOnly
  InitialVersions <- MCVersions
  InitialDrafts <- NoDrafts
  None = None
  MaxChanges = 3
  MaxFaults = 1
INVARIANTS TypeOK GraphIsActivated
PROPERTY ReviewFreezes
