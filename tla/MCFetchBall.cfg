SPECIFICATION FairSpec
CONSTANTS
  MaxGeneration = 2
  MaxCrashes = 1
  MaxLost = 1
  AtomicPrecondition = TRUE
INVARIANTS
  ExecutedOnce
  ResultsAreEvidence
  OnlyLostJobsAreGone
PROPERTIES
  ImplementsLifecycle
  JobsEnd
  LostJobsAreGone
CHECK_DEADLOCK FALSE
