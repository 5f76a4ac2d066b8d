SPECIFICATION Spec
CONSTANTS
  Workers = {w0, w1}
  Replicas = {r0, r1}
  Primary <- MCPrimary
  Settings <- MCSeparate
  Spg = 2
  FirstVersion = 0
  TrainIters = 3
  w0 = w0
  w1 = w1
  r0 = r0
  r1 = r1
INVARIANTS CacheFresh
CHECK_DEADLOCK FALSE
