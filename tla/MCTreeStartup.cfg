\* One device, laid out, started, disturbed twice and started again.
SPECIFICATION StartupFairSpec
CONSTANTS
  Devices = {"pc"}
  MaxObjects = 7
  MaxTrouble = 2
  MaxDrift = 2
  MaxPasses = 2
  Reruns = FALSE
INVARIANT ServingIsWhole
PROPERTIES HealthyIsKept MapNamesWhatFits StartsAgain
CHECK_DEADLOCK FALSE
