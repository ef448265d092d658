SPECIFICATION StreamSpec
CONSTANTS
  Inf <- MCInf
  Printed <- MCPrinted
  Scrapes <- MCScrapes
  Locales = {"classic", "de_DE"}
  Precisions = {2, 6}
INVARIANTS
  StreamRestored
  OneFormat
  NothingMissing
  HistogramClosed
