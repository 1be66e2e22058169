SPECIFICATION Spec
CONSTANTS
  NoRef = NoRef
  NoDays = NoDays
  NoDecision = NoDecision
  NoRequest = NoRequest
  FeeTypes <- MCFeeTypes
  Filing <- MCFiling
  ClaimBasis <- MCClaimBasis
  WindowDays = 1
  ReviewLines = {1}
  Arrivals <- MCArrivals
  FirstCharges <- MCFirst
  TicksPerDay = 1
  Runs = {1}
  Requests = {q1, q2}
  MaxTime = 2
SYMMETRY Symmetry
INVARIANTS
  TypeOK
  HumanClaimsAreOwed
CHECK_DEADLOCK FALSE
