SPECIFICATION RetentionFairSpec
CONSTANTS
  ToyDays = 2
  BoneyardDays = 2
  MaxDeletes = 1
  Unreadable = FALSE
  MaxJobs = 1
  MaxFiles = 4
  MaxTime = 4
  MaxTrouble = 1
PROPERTIES
  DeletionsAreDue
  GarbageGoes
CHECK_DEADLOCK FALSE
