CONSTANTS
  MaxReconnects = 2
  ReconnectWindow = 3
  MaxAttempts = 5
  MaxTime = 8
SPECIFICATION BudgetSpec
INVARIANTS
  WithinBudget
  RefusedOnlyWhenSpent
