SPECIFICATION Spec
CONSTANTS
  Requests = {1, 4, 6}
  Streams = {}
  Config <- MCConfig
  Adapter <- MCAdapter
  Loop <- MCLoop
  Streaming <- MCStreaming
  MaxBatchSize = 2
  Strict = FALSE
  GenerateFails = FALSE
  LoopsClose = FALSE
  MaxChunks = 2
INVARIANTS AnsweredAsAsked
CHECK_DEADLOCK FALSE
