SPECIFICATION FairSpec
CONSTANTS
  Total = 11
  MicroBatch = 2
  DataParallel = 2
  NumMicro = 1
  TrainIters = 7
  SaveSteps = 2
  EvalSteps = 4
  TotalLimit = 2
  Scores <- MCScores
  MaxCrashes = 3
INVARIANTS TypeOK LinkedIsComplete EpochsWhole KeepsBest
PROPERTIES LinkAdvances TrainingEnds
CHECK_DEADLOCK FALSE
