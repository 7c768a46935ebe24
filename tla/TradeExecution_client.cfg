SPECIFICATION Spec
CONSTANTS
  Signals = {s1}
  NoSignal = NoSignal
  Workers = {w1}
  MAX_RETRIES = 3
  MAX_TASK_RETRIES = 2
  Awaitable = FALSE
  MaxDispatches = 1
  MaxMishaps = 0
CHECK_DEADLOCK FALSE
INVARIANT OneEntryPerDispatch
