SPECIFICATION FileSpec
CONSTANTS
  Object = "FETCH_BALL"
  Operations = {"job0", "job1"}
  Texts = {"result", "broken"}
  Unreadable = {"broken"}
  MaxVersion = 3
  AtomicPrecondition = TRUE
  Walks = {"reap"}
  Writes = {"store"}
  Plan <- MCPlan
  WritePlan <- MCWritePlan
  Attempts = 2
  Probes = 2
INVARIANTS
  SuccessIsRemote
  BodiesAreOwned
PROPERTIES
  WalkIsAtomic
  LateWritesRepeat
CHECK_DEADLOCK FALSE
