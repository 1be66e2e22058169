SPECIFICATION Spec
CHECK_DEADLOCK FALSE
CONSTANTS
  Requests = {r1, r2, r3}
  Lines = {l1, l2}
  Sendable <- MCSendable
SYMMETRY Symmetry
INVARIANTS
  TypeOK
  RefusedStoresNothing
  RunsCoverTheirPast
  FinishedRequestsAreDecided
