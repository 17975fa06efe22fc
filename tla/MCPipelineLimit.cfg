SPECIFICATION FairSpec
CONSTANTS
  w1 = w1
  Writers = {w1}
  wss = wss
  calculator = calculator
  main = main
  QUEUE_SIZE = 1
  MINUTES_PER_HOUR = 2
  PROGRAM_MAX_HOUR_LIMIT = 1
  MaxTrades = 2
  MaxBatch = 2
  MaxTicks = 2
  MaxHandlers = 1
  Interrupts = {}
  SpuriousWakeups = FALSE
  NoThread = NoThread
  NoItem = NoItem
INVARIANTS
  TypeOK
  MessagesUnbroken
PROPERTIES
  ExitReachesWriters
  EveryItemComputed
  ApiQueueSpec
  CalcQueueSpec
CHECK_DEADLOCK FALSE
