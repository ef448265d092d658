SPECIFICATION Spec
CONSTANTS
  t1 = t1
  t2 = t2
  NoOne = NoOne
  Threads <- MCThreads
  BoundaryLists <- MCBoundaryLists
  Values <- MCValues
  Batches <- MCBatches
  Unit = 2
  Zero <- MCZero
  Plus <- DoublePlus
  Less <- DoubleLess
  GreaterEqual <- DoubleGreaterEqual
  MaxUpdates = 2
PROPERTIES
  Linearizable
  OnlyResetLowers
