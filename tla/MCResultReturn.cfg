SPECIFICATION FairSpecReturn
CONSTANTS
  Object = "FETCH_BALL"
  Operations = {"job1"}
  Texts = {"nothing", "result"}
  MaxVersion = 5
  AtomicPrecondition = FALSE
  Walks = {"return", "publish"}
  Plan <- MCPlan
  Attempts = 2
  Probes = 2
INVARIANTS
  BodyBeforeName
  StoredIsRemote
PROPERTIES
  ReturnEnds
CHECK_DEADLOCK FALSE
