SPECIFICATION FairSpec
CONSTANTS
  NoRef = NoRef
  NoDays = NoDays
  NoDecision = NoDecision
  NoRequest = NoRequest
  FeeTypes <- MCFeeTypes
  Filing <- MCFiling
  ClaimBasis <- MCClaimBasis
  WindowDays = 1
  ReviewLines = {1}
  Arrivals <- MCFee
  FirstCharges <- MCFee
  TicksPerDay = 1
  Runs = {1}
  Requests = {q1, q2}
  MaxTime = 0
PROPERTIES
  RequestsEnd
CHECK_DEADLOCK FALSE
