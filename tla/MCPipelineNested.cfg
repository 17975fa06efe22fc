SPECIFICATION FairSpec
CONSTANTS
  w1 = w1
  Writers = {w1}
  wss = wss
  calculator = calculator
  main = main
  QUEUE_SIZE = 1
  MINUTES_PER_HOUR = 1
  PROGRAM_MAX_HOUR_LIMIT = 2
  MaxTrades = 0
  MaxBatch = 1
  MaxTicks = 1
  MaxHandlers = 2
  i1 = i1
  Interrupts = {i1}
  SpuriousWakeups = FALSE
  NoThread = NoThread
  NoItem = NoItem
PROPERTIES
  InterruptOrdersExit
CHECK_DEADLOCK FALSE
