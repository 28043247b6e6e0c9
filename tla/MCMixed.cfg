SPECIFICATION MixedSpec
CONSTANTS
  Jobs = {j1}
  Consumer = Consumer
  Processes = {Consumer, w1, w2}
  Stoppable = {w1}
  Outcomes = {"scored", "error"}
  MaxAttempts = 2
  MaxFaults = 2
  MaxStops = 1
  NoJob = NoJob
  CreatedAt <- MCCreatedAt
INVARIANTS
  MixedNoLostUpdate
  OneOutcomeRecorded
  StartedJobsAreHandled
PROPERTIES
  StartedJobsAreNotTaken
  WorkersFinishTheRest
CHECK_DEADLOCK FALSE
