SPECIFICATION Spec
CONSTANTS
  Procs = {p1, p2}
  MayFail = {p2}
  Regimes = {choppy, ranging}
  NoRegime = none
  LOSS_MAGNITUDE_LOCK_HOURS = 1
  CONSECUTIVE_LOSS_LOCK_HOURS = 2
  DRAWDOWN_LOCK_HOURS = 2
  REGIME_UNCHANGED_EXTENSION_HOURS = 1
  REDIS_LOCK_TTL = 4
  HoursPerDay = 3
  MaxTime = 3
  MaxRows = 1
INVARIANT AutoReleaseNotEarly
INVARIANT LockFlagWithinLock
PROPERTY UnlockNeverPulledIn
