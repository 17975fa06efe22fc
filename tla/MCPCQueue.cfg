SPECIFICATION MCSpec
CONSTANTS
  p1 = p1
  p2 = p2
  c1 = c1
  c2 = c2
  x = x
  Threads = {p1, p2, c1, c2, x}
  Producers = {p1, p2}
  Consumers = {c1, c2}
  Items <- MCItems
  QUEUE_SIZE = 2
  NoThread = NoThread
  NoItem = NoItem
  MaxAdds = 3
  MaxSpurious = 1
SYMMETRY Symmetry
INVARIANTS
  TypeOK
  MutualExclusion
  RingInv
  ItemsWritten
  NoStrandedItem
  NoStrandedSlot
PROPERTIES
  ImplementsBoundedQueue
