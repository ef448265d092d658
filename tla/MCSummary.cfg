SPECIFICATION Spec
CONSTANTS
  t1 = t1
  t2 = t2
  NoOne = NoOne
  Threads <- MCThreads
  Values <- MCValues
  Quantiles = 2
  MaxAge = 7
  AgeBuckets = 3
  MaxObservations = 2
  MaxTime = 10
INVARIANTS
  WindowBounds
  ScrapeConsistent
PROPERTIES
  NothingComesBack
  RotationEnds
