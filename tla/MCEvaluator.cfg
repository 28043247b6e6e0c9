SPECIFICATION Spec
CONSTANTS
  StopWords <- MCStopWords
  Requests <- MCRequests
  NoRubric = NoRubric
  Nothing = Nothing
  AttemptLimits = {0, 1, 2, 3}
  Timeouts = {0, 2}
  Delay = 1
INVARIANTS
  TimeIsBounded
  AllAttemptsAreUsed
  NoCallSurvives
  DurationsAreObserved
  SignalsAlwaysCount
PROPERTIES
  ScoreEnds
CHECK_DEADLOCK FALSE
