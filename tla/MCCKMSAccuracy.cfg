SPECIFICATION Spec
CONSTANTS
  NaN = NaN
  Targets <- MCTargets
  Values <- MCValues
  BufferSize = 500
  MaxInserts = 6
INVARIANTS
  Accurate
