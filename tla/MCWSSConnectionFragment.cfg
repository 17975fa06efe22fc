SPECIFICATION Spec
CONSTANTS
  Objects <- MCObjects
  MaxObjects = 3
  MaxBatch = 2
  MaxReceives = 3
  MaxContexts = 2
INVARIANTS
  AllTradesAdded
CHECK_DEADLOCK FALSE
