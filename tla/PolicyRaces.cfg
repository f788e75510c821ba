SPECIFICATION FairSpec
CONSTANTS
  Requests <- RaceIds
  Ask <- RaceAsk
  Drafts <- MCDrafts
  Actors <- MCActors
  Keys <- MCKeys
  Words <- MCWords
  Objects <- MCObjects
  Needs <- MCNeeds
  UpdateOnly <- MCUpdateOnly
  InitialVersions <- MCVersions
  InitialDrafts <- BothReviewed
  None = None
  MaxChanges = 2
  MaxFaults = 1
INVARIANTS NewestIsActive LineageIsUnbroken PromotionsAreRecorded OneEffectPerKey AnswersAreTrue
PROPERTIES VersionsAreFinal ImplementsHistory RequestsAreAnswered
