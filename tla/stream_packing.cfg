SPECIFICATION FairSpec
CONSTANTS
  Workers = {p, q, s}
  NumRanks = 2
  Jobs <- MCJobs
  PackingLength = 4
  Interval = 3
  Prefetch = 2
  Epochs = 2
INVARIANTS PacksWhole DeliveredInOrder
PROPERTIES FeedEnds
CHECK_DEADLOCK FALSE
