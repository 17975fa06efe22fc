SPECIFICATION MCSpec
CONSTANTS
  SYMBOL_COUNT = 2
  WINDOW = 2
  Prices = {1, 2, 3}
  Volumes = {0, 2}
  NaN = NaN
  Garbage = {0, 5, NaN}
  MaxTrades = 3
  MaxMinutes = 4
INVARIANTS
  TypeOK
  CandleMatchesTrades
  WindowMatchesTrades
  RowMatchesTrades
  QuietWindowAverage
CHECK_DEADLOCK FALSE
