SPECIFICATION FairSpec
CONSTANTS
  Requests = {"r1", "r2"}
  Reloads = {"c1", "c2"}
  Projects = {"p"}
  Project <- MCProject
  Quota = 1
  Versions <- MCVersions
  Candidates <- MCCandidates
  Policy <- MCPolicy
  Failures <- MCFailures
  None = None
  MaxLives = 2
  MaxFaults = 2
  MaxCalls = 2
INVARIANTS TypeOK SequenceNumbersIncrease QuotaHolds ServedIsAudited
PROPERTIES ImplementsGraph RequestsAreAnswered
CHECK_DEADLOCK FALSE
