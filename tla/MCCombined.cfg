SPECIFICATION FairSpec
CONSTANTS
  j1 = j1
  j2 = j2
  j3 = j3
  Jobs = {j1, j2, j3}
  Consumer = Consumer
  Processes = {Consumer}
  Outcomes = {"scored", "error"}
  MaxAttempts = 3
  MaxFaults = 2
  MaxStops = 1
  NoJob = NoJob
  CreatedAt <- MCCreatedAt
INVARIANTS
  JobsAreHandedOver
  GaugeCountsWaitingJobs
  ConsumerIsNeverRefused
PROPERTIES
  UndisturbedJobsFinish
  StopsEnd
CHECK_DEADLOCK FALSE
