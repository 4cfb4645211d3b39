\* The limit of a day when a request was open at the midnight before it.
SPECIFICATION Spec
CONSTANTS
  None = None
  Requests = {q1, q2, q3}
  Limit = 1
  Tokens = {3}
  MaxDays = 2
SYMMETRY AnyRequest
INVARIANTS
  BudgetEnforced
CHECK_DEADLOCK FALSE
