SPECIFICATION FairSpec
CONSTANTS
  j1 = j1
  j2 = j2
  w1 = w1
  w2 = w2
  Jobs = {j1, j2}
  Processes = {w1}
  Stoppable = {}
  Outcomes = {"scored", "error"}
  MaxAttempts = 2
  MaxFaults = 0
  NoJob = NoJob
  CreatedAt <- MCCreatedAt
PROPERTIES
  EveryJobFinishes
CHECK_DEADLOCK FALSE
