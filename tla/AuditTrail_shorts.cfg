SPECIFICATION AuditSpec
CONSTANTS
  Markets = {"up", "down"}
  MaxSnapshots = 1
  MaxClosed = 0
  MaxClock = 3
  MaxAuditFaults = 0
CHECK_DEADLOCK FALSE
INVARIANT JudgedOwnWay
