SPECIFICATION Spec
CONSTANTS
  j1 = j1
  j2 = j2
  w1 = w1
  w2 = w2
  Jobs = {j1, j2}
  Processes = {w1, w2}
  Stoppable = {w1, w2}
  Outcomes = {"scored", "error"}
  MaxAttempts = 2
  MaxFaults = 2
  NoJob = NoJob
  CreatedAt <- MCCreatedAt
INVARIANTS
  TypeOK
  OneWorkerPerAttempt
  StartsWithinBudget
  RunningIsRecoverable
  ResultIffSucceeded
  NoOrphanWithoutFault
  TerminalEventsMatchRow
  OnlyRecoveryIsUnaudited
  NoLostUpdate
SYMMETRY Symmetry
