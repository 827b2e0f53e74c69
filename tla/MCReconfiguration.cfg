CONSTANTS
  Dogs = {collie, kelpie}
  Nobody = nobody
  Last = 2
  MaxEpoch = 2
  MaxFaults = 2
SPECIFICATION Spec
SYMMETRY Symmetry
INVARIANTS
  MovedOnce
  ReceiptsAreTrue
PROPERTIES
  ImplementsRelocation
CHECK_DEADLOCK FALSE
