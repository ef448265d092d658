SPECIFICATION CounterSpec
CONSTANTS
  t1 = t1
  t2 = t2
  Threads <- MCThreads
  Numbers <- MCNumbers
  Operands <- MCOperands
  Zero <- MCZero
  One <- MCOne
  MinusOne <- MCMinusOne
  Plus <- FloatPlus
  Times <- FloatTimes
  Less <- FloatLess
INVARIANTS
  NeverNegative
PROPERTIES
  OnlyResetLowers
