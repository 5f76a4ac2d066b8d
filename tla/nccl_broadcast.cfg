SPECIFICATION FairSpec
CONSTANTS
  Receivers = {r1, r2}
  BucketSize = 2
  MaxSync = 2
  MaxWeights = 3
  Sizes = {1, 2, 3}
  Streams <- MCStreams
INVARIANTS NoTornRead InFlightUntouched NoReceiverLeftBehind
PROPERTIES SyncEnds ImplementsWeightStream
CHECK_DEADLOCK FALSE
