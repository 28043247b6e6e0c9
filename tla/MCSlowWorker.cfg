SPECIFICATION Spec
CONSTANTS
  j1 = j1
  j2 = j2
  w1 = w1
  w2 = w2
  Jobs = {j1, j2}
  Processes = {w1, w2}
  Stoppable = {}
  Outcomes = {"scored"}
  MaxAttempts = 2
  MaxFaults = 0
  NoJob = NoJob
  CreatedAt <- MCCreatedAt
INVARIANTS
  RetriedUntilExhausted
CHECK_DEADLOCK FALSE
