SPECIFICATION FairSpec
CONSTANTS
  w1 = w1
  w2 = w2
  Writers = {w1, w2}
  wss = wss
  calculator = calculator
  main = main
  QUEUE_SIZE = 1
  MINUTES_PER_HOUR = 1
  PROGRAM_MAX_HOUR_LIMIT = 1
  MaxTrades = 1
  MaxBatch = 1
  MaxTicks = 0
  MaxHandlers = 1
  i1 = i1
  Interrupts = {i1}
  SpuriousWakeups = FALSE
  NoThread = NoThread
  NoItem = NoItem
INVARIANTS
  LossOnlyAtExit
PROPERTIES
  ExitReachesWriters
CHECK_DEADLOCK FALSE
