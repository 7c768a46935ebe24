SPECIFICATION StoreSpec
CONSTANTS
  Requests = {p1}
  PARAMS_TTL = 1
  Secret = secret
  Thresholds = {75, 80}
  Weights = {1, 2}
  DEFAULT_ALERT = 75
  DEFAULT_WEIGHT = 1
  MaxVersions = 3
  MaxOutages = 0
CHECK_DEADLOCK FALSE
PROPERTY WeightsLoaded
