CONSTANTS
  Ids = {a, b, c}
  NoId = NoId
  Amounts <- MCAmounts
  Kept = 2
  Budgets <- MCBudgets
  Generations = {g, h, k}
  Capacity = 2
  TTL = 2
  RPM = 1
  Minute = 2
  Cost = 1
  Credit = 1
  MaxInflight = 2
  MaxRecords = 3
  None = None
  MaxTokens = 1
  MaxPrice = 1
  Counts <- MCCounts
  MaxMultiplier = 105
  NoPrice = None
  AnyProvider = None
SPECIFICATION MCSpec
INVARIANTS ChargesAddUp AdjustedOnce OneResult OverdrawnByInflight GenerationsAreRemembered  RateHolds
