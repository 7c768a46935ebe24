SPECIFICATION PipeFairSpec
CONSTANTS
  RING = 3
  SEED = 3
  FETCH = 3
  Listed = 1
  MaxCandles = 5
  MaxFaults = 2
  Markets = {"up"}
  MaxSnapshots = 1
  MaxClosed = 1
  MaxClock = 4
  MaxAuditFaults = 2
CHECK_DEADLOCK FALSE
INVARIANT PublishedOnce
INVARIANT NoGaps
INVARIANT CounterfactualOnce
PROPERTY CompleteStays
PROPERTY EveryCandleArrives
PROPERTY EverySnapshotCompletes
