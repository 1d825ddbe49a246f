SPECIFICATION FairSpec
CONSTANTS
  nneigh_start = 4
  nneigh_stop = 5
  nneigh_step = 2
  TimeLimits = {0, 5, 7200}
  ThreadCounts = {1, 2}
  initial_timeout = 25
  HeurWaits = {0, 10}
  secondary_limit = 180
INVARIANTS
  FailedMapsNothing
  FailureTriedAllSizes
  SuccessIsCorrect
  SpentSeedsAreLeft
PROPERTY MappingEnds
