SPECIFICATION Spec
CONSTANTS
  btc = btc
  eth = eth
  none = none
  PERIOD = 2
  COOLDOWN = 4
  MaxTime = 6
  MaxMishaps = 1
  Symbols = {btc, eth}
  BTC = btc
  Inputs <- CycleInputs
  Settings <- CycleSettings
  Findings <- CycleFindings
  FilterLists <- CycleFilters
  NoAlert = none
  MaxCycles = 2
  Candles <- TestCandles
  RISK = 2
  REWARD = 3
  FUNDING = 2
  PAYMENT = 1
  SLIPPAGE = 20
  FEE = 25
  NoTrade = none
  MaxCandles = 5
  OUTCOME_WINDOW = 2
  ATR_PERIOD = 2
  SWING_LOOKBACK = 10
  FIB_LOOKBACK = 10
  OB_LOOKBACK = 4
  MAX_OBS = 2
  ATR_WINDOW = 3
  FIRST <- FirstCandle
  Shapes <- SeenShapes
  MaxSeen = 6
  WARMUP <- Warmup
  FAST = 2
  SLOW = 3
  TREND = 4
  RSI_PERIOD = 3
  RECENT = 4
  FLAG_MAX = 1
  BINS = 4
  SHARES = 12
  PROFILE_WINDOW = 3
  ProfileCandles <- RangedCandles
  T_MIN = 10
  T_MAX = 19
  MIN_ALERTS = 2
  MIN_SAMPLE_THRESHOLD = 3
  MIN_SAMPLE_WEIGHT = 2
  MIN_SAMPLE_REGIME = 3
  MIN_REGIME_SAMPLE = 2
  THRESHOLD_MAX_JUMP = 2
  LOWEST = 12
  HIGHEST = 19
  GRID <- Grid
  COORD_MAX_ITER = 3
  Labels <- Loaded
  Starts <- Params
  MaxSample = 4
  MIN_ROWS = 3
  Tried <- TriedThresholds
  DEFAULT = 12
  Audits <- AuditedTrades
  MaxAudits = 5
CHECK_DEADLOCK FALSE
INVARIANT BlindScoresAreCapped
INVARIANT ScoresOrdered
INVARIANT ProfileAccounts
INVARIANT ReadingsHold
INVARIANT LevelsOrdered
INVARIANT TestIsHonest
INVARIANT AdviceHelps
INVARIANT ComputationsAgree
PROPERTY NothingPastTheGuards
PROPERTY ThresholdsSettle
