SPECIFICATION FairSpec
CONSTANTS
  Workers = {w0, w1}
  Replicas = {r0, r1}
  Primary <- MCPrimary
  Settings <- MCSettings
  Spg = 2
  FirstVersion = 0
  TrainIters = 3
  w0 = w0
  w1 = w1
  r0 = r0
  r1 = r1
INVARIANTS TypeOK HoldsLatest AwakeWhenUsed TakeTurns EndsUnmerged
PROPERTIES TrainsProperly TrainingEnds
CHECK_DEADLOCK FALSE
