SPECIFICATION Spec
CONSTANTS
  MaxGeneration = 2
  MaxCrashes = 1
  MaxLost = 2
  AtomicPrecondition = FALSE
INVARIANTS
  ExecutedOnce
CHECK_DEADLOCK FALSE
