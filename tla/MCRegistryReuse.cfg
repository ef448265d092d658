SPECIFICATION Spec
CONSTANTS
  t1 = t1
  t2 = t2
  l1 = l1
  l2 = l2
  a1 = a1
  a2 = a2
  NoOne = NoOne
  Foreign = Foreign
  Threads <- MCThreads
  TypeOrder <- MCTypeOrder
  Names <- MCNames
  LabelSets <- MCLabelSets
  Addrs <- MCAddrs
  Rejected <- MCRejected
INVARIANTS
  RemoveErasesItsOwn
