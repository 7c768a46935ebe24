SPECIFICATION ExecutionFairSpec
CONSTANTS
  Signals = {s1}
  NoSignal = NoSignal
  Conns = {c1}
  Requests = {r1}
  MayRestart = TRUE
  w1 = w1
  Workers = {w1, w2}
  MAX_RETRIES = 2
  MAX_TASK_RETRIES = 1
  Awaitable = TRUE
  MaxDispatches = 2
  MaxMishaps = 2
  Symbols = {btc}
  Plans <- MCPlans
  Levels = {3, 4}
  Candles <- MCCandles
  Fundings = {1}
  InitialBalance = 1000
  FEE_RATE = 1
  GAIN = 10
  MaxFailures = 1
  MaxOrders = 3
CHECK_DEADLOCK FALSE
INVARIANT ExitsNeedEntry
INVARIANT ReportsAreBacked
INVARIANT JournalledOnce
INVARIANT FilledIsRecorded
INVARIANT OnlyCardsDispatched
INVARIANT UnconfirmedSkipStays
INVARIANT BalanceTrail
INVARIANT ResultBookedOnce
INVARIANT SettledWhenIdle
PROPERTY KeepsBook
PROPERTY NothingPassedOver
PROPERTY DispatchesReported
