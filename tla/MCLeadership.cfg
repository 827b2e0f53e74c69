SPECIFICATION FairSpec
CONSTANTS
  d1 = d1
  d2 = d2
  Nobody = Nobody
  Dogs = {d1, d2}
  Founders = {d1}
  MaxWrites = 2
  MaxTransitions = 3
  MaxFaults = 1
  MaxRevision = 2
INVARIANTS
  GrantsAreEarned
PROPERTIES
  ImplementsTenure
  DeposedStandDown
  LeadershipResumes
CHECK_DEADLOCK FALSE
