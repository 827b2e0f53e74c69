SPECIFICATION RuntimeFairSpec
CONSTANTS
  Tasks <- MCTasks
  Rank <- MCRank
  Interval <- MCInterval
  Phase <- MCPhase
  Lease = 1
  MaxSlow = 2
  MaxLate = 8
  MaxTosses = 1
  Faults = {"CANONICAL_TREE_AMBIGUOUS"}
  MaxCrashes = 1
  MaxLost = 1
  AtomicPrecondition = TRUE
INVARIANTS
  StandingFaultBlocks
PROPERTIES
  BlockedMeansNoWork
  NoBurst
  EveryTaskRuns
  SnoozesAgain
CHECK_DEADLOCK FALSE
