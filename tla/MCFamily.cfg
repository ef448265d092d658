SPECIFICATION Spec
CONSTANTS
  t1 = t1
  t2 = t2
  a1 = a1
  a2 = a2
  a3 = a3
  NoOne = NoOne
  Foreign = Foreign
  Threads <- MCThreads
  LabelSets <- MCLabelSets
  LabelNames <- MCLabelNames
  ConstantNames <- MCConstantNames
  Addrs <- MCAddrs
INVARIANTS
  TypeOK
  Ownership
  NeverSeenInvalid
  CleanWhenFree
PROPERTIES
  Linearizable
