SPECIFICATION Spec
CONSTANTS
  NoRef = NoRef
  NoDays = NoDays
  FeeTypes <- MCFeeTypes
  Filing <- MCFiling
  WindowDays = 2
  ClaimBasis <- MCClaimBasis
  Pods <- MCPods
  ScopeChecks <- MCScopeChecks
  RequiredChecks <- MCRequiredChecks
  DefectCategories <- MCDefectCategories
  LossOutcomes <- MCLossOutcomes
  Stores <- MCStores
  LateCharges <- MCLateCharges
  LateRows <- MCLateRows
  EditedChecks <- MCEditedChecks
  MaxFaults = 1
INVARIANTS
  PresentMeansARecordSpeaks
