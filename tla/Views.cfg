SPECIFICATION Spec
CHECK_DEADLOCK FALSE
CONSTANTS
  None = None
  Runs = {1, 2}
  Lines = {l1, l2}
  Decided = {"REVIEW"}
  Chosen = {"CLAIM", "REVIEW"}
  Pages = {p1, p2}
  MaxEvents = 2
SYMMETRY Symmetry
INVARIANTS
  JudgementStaysVisible
  ReloadGoesForward
  OfferMatchesAnswer
  PageAgreesWithItself
