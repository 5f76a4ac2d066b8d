SPECIFICATION Spec
CONSTANTS
  Ranks = {main, other}
  Main = main
  NumWorkers = 1
  NumBuckets = 1
  NumSteps = 2
  StepsPerEpoch = 2
  MaxEpochs = 0
  GenerateEvery = 1
  EvalStrategy = "epoch"
  EvalEvery = 2
  EvalBatches = 1
  MaxResample = 0
  EvalOnStart = FALSE
  BatchOf <- MCBatchOf
  Fallible = {}
INVARIANTS CollectivesMatch
CHECK_DEADLOCK FALSE
