SPECIFICATION Spec
CHECK_DEADLOCK FALSE
CONSTANTS
  None = None
  Runs = {r1, r2}
  Order <- MCOrder
  DecisionOf <- MCDecisionOf
  AmountOf <- MCAmountOf
  CurrencyOf <- MCCurrencyOf
  TokensOf <- MCTokensOf
  Texts <- MCTexts
  Leftover <- MCLeftover
  Budget = 1
  Timeout = 2
INVARIANTS
  TypeOK
  ModelTextIsBacked
  CallsAreAccountedFor
  FirstTextStays
  WaitsForOneAhead
  BudgetHolds
PROPERTY
  ExplanationsChangeNoDecision
SYMMETRY Symmetry
