SPECIFICATION Spec
CONSTANTS
  d1 = d1
  d2 = d2
  Nobody = Nobody
  Dogs = {d1, d2}
  External = {"SCAN"}
  Shared = {"ROUTE"}
  MaxOperations = 2
  MaxEpoch = 2
  MaxFaults = 1
INVARIANTS
  CallsAreEvidenced
  ReceiptsAreReliable
  ResolvedIsQuiet
SYMMETRY Symmetry
CHECK_DEADLOCK FALSE
