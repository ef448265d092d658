SPECIFICATION Spec
CONSTANTS
  t1 = t1
  t2 = t2
  counters = counters
  histograms = histograms
  a = a
  NoOne = NoOne
  registry = registry
  Threads <- MCThreads
  Families <- MCFamilies
  LabelSets <- MCLabelSets
  Atomic <- MCAtomic
  MaxValue = 1
INVARIANTS
  TypeOK
  NoDangling
  NoCircularWait
  ScrapeRegular
PROPERTIES
  SomeCallReturns
