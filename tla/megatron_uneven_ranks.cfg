SPECIFICATION Spec
CONSTANTS
  Total = 11
  MicroBatch = 1
  DataParallel = 2
  NumMicro = 1
  TrainIters = 7
  SaveSteps = 2
  EvalSteps = 4
  TotalLimit = 2
  Scores <- MCScores
  MaxCrashes = 0
INVARIANTS LastBatchDropped
CHECK_DEADLOCK FALSE
