SPECIFICATION FairSpec
CONSTANTS
  MaxGeneration = 2
  StartModes = {"REQUIRE_START", "DO_NOT_START"}
  MaxCrashes = 1
  MaxLost = 1
INVARIANTS
  DoneMeansHeard
PROPERTIES
  WakesSparingly
  RequestsAreAnswered
CHECK_DEADLOCK FALSE
