SPECIFICATION Spec
CONSTANTS
  NoRef = NoRef
  NoDays = NoDays
  NoDecision = NoDecision
  NoRequest = NoRequest
  FeeTypes <- MCFeeTypes
  Filing <- MCFiling
  ClaimBasis <- MCClaimBasis
  WindowDays = 1
  ReviewLines = {1}
  Arrivals <- MCOneRefund
  FirstCharges <- MCFee
  TicksPerDay = 1
  Runs = {1}
  Requests = {q1}
  MaxTime = 0
PROPERTIES
  ClaimMatchesStoreAtCommit
CHECK_DEADLOCK FALSE
