SPECIFICATION FairSpec
CONSTANTS
  Requests = {4, 5, 7}
  Streams = {4, 5, 7}
  Config <- MCConfig
  Adapter <- MCAdapter
  Loop <- MCLoop
  Streaming <- MCStreaming
  MaxBatchSize = 2
  Strict = FALSE
  GenerateFails = TRUE
  LoopsClose = FALSE
  MaxChunks = 2
INVARIANTS AnsweredAsAsked StreamsWhole
PROPERTIES EveryCallEnds
CHECK_DEADLOCK FALSE
