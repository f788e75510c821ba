SPECIFICATION Spec
CONSTANTS
  Requests <- DuplicateIds
  Ask <- DuplicateAsk
  Drafts <- MCDrafts
  Actors <- MCActors
  Keys <- MCKeys
  Words <- MCWords
  Objects <- MCObjects
  Needs <- MCNeeds
  UpdateOnly <- MCUpdateOnly
  InitialVersions <- MCVersions
  InitialDrafts <- BothReviewed
  None = None
  MaxChanges = 2
  MaxFaults = 0
PROPERTY DuplicatePromotionIsReplayed
