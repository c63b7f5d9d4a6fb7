SPECIFICATION FairSpec
CONSTANTS
  Entries = {1, 2, 3}
  Canon = {1, 2}
  Metrics = {"faithfulness"}
  Scores = {80, 86, 90}
  Threshold <- MCThreshold
  Tolerance <- MCTolerance
  StructTolerance = 5
  ErrorThreshold = 40
  Attempts = 3
  NaN = NaN
  Absent = Absent
  Torn = Torn
  MaxRuns = 1
  Initial <- MCInitial
  MaxFaults = 1
CHECK_DEADLOCK FALSE
INVARIANTS
  ExitZeroMeansPassed
  RowTellsRun
  AnsweredIsLogged
PROPERTIES
  BaselineKept
  RunEnds
