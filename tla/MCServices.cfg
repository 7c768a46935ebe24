SPECIFICATION ServicesSpec
CONSTANTS
  r1 = r1
  r2 = r2
  w1 = w1
  w2 = w2
  Requests = {r1, r2}
  PARAMS_TTL = 2
  Secret = credentials
  Thresholds = {75, 80}
  Weights = {1}
  DEFAULT_ALERT = 75
  DEFAULT_WEIGHT = 1
  MaxVersions = 3
  MaxOutages = 1
  Levels = {1, 2}
  MaxFileTime = 3
  Assets = {btc, eth}
  Trades = {1, 2, 3}
  Correlated = {{btc, eth}}
  EQUITY = 10
  RISK = 2
  FEES = 1
  FIXED = 6
  HEAT = 3
  GROUP = 2
  Stops = {0, 5}
  MaxLost = 2
  TRADE_LIMIT = 2
  DELTA_HISTORY_SIZE = 2
  MaxTrades = 3
  MaxCycles = 2
  MaxMishaps = 1
  Workers = {w1, w2}
  Results <- SeriesResults
  Capital = 100
  MAGNITUDE = 4
  DAILY = 5
  DRAWDOWN = 10
  COUNT = 3
  WINDOW = 2
  PEAK_WINDOW = 2
  PEAK_TTL = 1
  LOCK = 1
  HoursOfDay = 2
  MaxHour = 3
  MaxClosed = 3
  Procs = {p1}
  MayFail = {}
  Regimes = {choppy}
  NoRegime = none
  LOSS_MAGNITUDE_LOCK_HOURS = 1
  CONSECUTIVE_LOSS_LOCK_HOURS = 2
  DRAWDOWN_LOCK_HOURS = 3
  REGIME_UNCHANGED_EXTENSION_HOURS = 1
  REDIS_LOCK_TTL = 4
  HoursPerDay = 3
  MaxTime = 3
  MaxRows = 2
SYMMETRY Symmetry
CHECK_DEADLOCK FALSE
INVARIANT CountedOnce
INVARIANT OneInForce
INVARIANT ParamsRecent
INVARIANT ServesLastValid
INVARIANT RiskCounted
INVARIANT EntriesWatched
INVARIANT SeriesComplete
INVARIANT FastPathAgrees
PROPERTY DrawdownSeen
