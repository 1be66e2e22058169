SPECIFICATION Spec
CONSTANTS
  NoRef = NoRef
  NoDays = NoDays
  NoDecision = NoDecision
  NoRequest = NoRequest
  FeeTypes <- MCFeeTypes
  Filing <- MCFiling
  ClaimBasis <- MCClaimBasis
  WindowDays = 1
  ReviewLines = {1}
  Arrivals <- MCFee
  FirstCharges <- MCFee
  TicksPerDay = 1
  Runs = {1, 2}
  Requests = {q1, q2}
  MaxTime = 1
SYMMETRY Symmetry
INVARIANTS
  HistoriesVerify
  HistoryStillCurrent
PROPERTIES
  SupersededStaysFrozen
  ImplementsHistory
CHECK_DEADLOCK FALSE
