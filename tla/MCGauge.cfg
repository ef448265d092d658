SPECIFICATION Spec
CONSTANTS
  t1 = t1
  t2 = t2
  Width = 3
  Threads <- MCThreads
  Numbers <- MCNumbers
  Operands <- MCNumbers
  Zero <- MCZero
  One <- MCOne
  MinusOne <- MCMinusOne
  Plus <- IntPlus
  Times <- IntTimes
  Less <- IntLess
INVARIANTS
  TypeOK
PROPERTIES
  Linearizable
  LockFree
