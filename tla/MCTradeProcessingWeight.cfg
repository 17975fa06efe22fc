SPECIFICATION MCSpec
CONSTANTS
  SYMBOL_COUNT = 2
  WINDOW = 2
  Prices = {1, 2, 3}
  Volumes = {0, 2}
  NaN = NaN
  Garbage = {0, 5, NaN}
  MaxTrades = 2
  MaxMinutes = 2
INVARIANTS
  WeightedPriceOfInterval
CHECK_DEADLOCK FALSE
