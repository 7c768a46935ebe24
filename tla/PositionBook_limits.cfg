SPECIFICATION BookSpec
CONSTANTS
  Assets = {btc, eth}
  Trades = {1, 2}
  Correlated = {{btc, eth}}
  EQUITY = 10
  RISK = 2
  FEES = 1
  FIXED = 6
  HEAT = 3
  GROUP = 2
  Stops = {0, 5}
  MaxLost = 0
CHECK_DEADLOCK FALSE
PROPERTY DecisionsAllowed
