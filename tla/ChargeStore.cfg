SPECIFICATION Spec
CONSTANTS
  NoRef = NoRef
  NoDays = NoDays
  FeeTypes <- MCFeeTypes
  Filing <- MCFiling
  WindowDays = 2
  Arrivals <- MCArrivals
  MaxLines = 5
  MaxDay = 4
INVARIANTS
  RefundsAreConserved
  AmbiguousRefundPaysNothing
  RefundsAreSpentInOrder
  OneCanonicalPerWindow
  ClaimableDays
PROPERTIES
  LaterLinesRewriteNothing
CHECK_DEADLOCK FALSE
