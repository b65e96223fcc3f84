CONSTANTS
  MaxLen = 4
  Input <- MCInput
  Budgets <- MCBudgets
  Cost <- MCCost
  Overhead = 1
  ErrorAge = 2
  TextAge = 3
SPECIFICATION BudgetSpec
CHECK_DEADLOCK FALSE
INVARIANTS
  TokensExact
  FitsOrNothingLeft
  ProtectedKeptWithoutErrors
