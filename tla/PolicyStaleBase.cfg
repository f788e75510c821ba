SPECIFICATION Spec
CONSTANTS
  Requests <- StaleIds
  Ask <- StaleAsk
  Drafts <- MCDrafts
  Actors <- MCActors
  Keys <- MCKeys
  Words <- MCWords
  Objects <- MCObjects
  Needs <- MCNeeds
  UpdateOnly <- MCUpdateOnly
  InitialVersions <- MCVersions
  InitialDrafts <- BothReviewed
  None = None
  MaxChanges = 2
  MaxFaults = 0
INVARIANT StaleDraftIsRejected
