SPECIFICATION Spec
CONSTANTS
  Requests = {1, 2, 3, 4}
  Streams = {4}
  Config <- MCConfig
  Adapter <- MCAdapter
  Loop <- MCLoop
  Streaming <- MCStreaming
  MaxBatchSize = 2
  Strict = FALSE
  GenerateFails = TRUE
  LoopsClose = TRUE
  MaxChunks = 2
INVARIANTS NothingLost FirstComeFirstServed DiesOfClosedLoopOnly
CHECK_DEADLOCK FALSE
