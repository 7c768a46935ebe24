SPECIFICATION Spec
CONSTANTS
  RING = 3
  SEED = 3
  FETCH = 3
  Listed = 1
  MaxCandles = 4
  MaxFaults = 0
PROPERTY FeedReadsNewest
