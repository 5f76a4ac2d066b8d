SPECIFICATION FairSpec
CONSTANTS
  Ranks = {main, other}
  Main = main
  NumWorkers = 2
  NumBuckets = 2
  NumSteps = 4
  StepsPerEpoch = 3
  MaxEpochs = 1
  GenerateEvery = 1
  EvalStrategy = "steps"
  EvalEvery = 2
  EvalBatches = 2
  MaxResample = 1
  EvalOnStart = FALSE
  BatchOf <- MCBatchOf
  Fallible = {"infer", "submit"}
INVARIANTS TypeOK RepliesMatch UniformAnswers TrainsOneRoundOld NoneUsesFailed CollectivesMatch
PROPERTIES FailureReachesAll TrainingEnds
CHECK_DEADLOCK FALSE
