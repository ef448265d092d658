SPECIFICATION Spec
CONSTANTS
  Letters <- MCLetters
  Digits <- MCDigits
  Inf <- MCInf
  Printed <- MCPrinted
  TypeOrder <- MCTypes
  Names <- MCNames
  Helps = {TRUE}
  LabelSets <- MCLabelSets
  Arguments <- MCArguments
  Values <- MCValues
  Less <- MCLess
  Estimate <- MCEstimate
  MaxFamilies = 2
  MaxMetrics = 2
  MaxUpdates = 2
INVARIANTS
  TypeOnce
  LabelNamesUnique
  SeriesUniqueIfApart
  HistogramsClosed
