SPECIFICATION FairSpec
CONSTANTS
  Ranks = {r0, r1, r2}
  Driver = r0
  BucketSize = 2
  MaxSync = 2
  Timeouts = TRUE
  MaxWeights = 3
  Sizes = {0, 1, 2, 3}
  Streams <- MCStreams
INVARIANTS NoTornRead ReplyAfterAllCopied
PROPERTIES AdapterWhole TransferEnds ImplementsWeightStream
CHECK_DEADLOCK FALSE
