SPECIFICATION Spec
CONSTANTS
  NaN = NaN
  Targets <- MCLooseTargets
  Values <- MCValues
  BufferSize = 3
  MaxInserts = 7
INVARIANTS
  TypeOK
  NothingLost
  KeepsMaximum
  QuantilesOrdered
