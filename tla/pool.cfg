SPECIFICATION FFFairSpec
CONSTANTS
  Hung = {1}
  NumJobs = 5
  Factors <- AllFactors
INVARIANTS
  NoJobLost
  BoundedConcurrency
  VerdictSound
  FewLateStarts
PROPERTIES
  ImplementsBatch
  Terminates
  HungJobsDoNotStarve
