\* Concurrent requests of one visitor over three days, open at midnight too.
SPECIFICATION Spec
CONSTANTS
  None = None
  Requests = {q1, q2, q3, q4}
  Limit = 1
  Tokens = {3}
  MaxDays = 3
SYMMETRY AnyRequest
INVARIANTS
  TypeOK
  BudgetBounded
  UsedIsExact
  TokensAccounted
PROPERTIES
  ImplementsQuota
CHECK_DEADLOCK FALSE
