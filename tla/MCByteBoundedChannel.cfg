SPECIFICATION Spec
CONSTANTS
  a = a
  b = b
  Sender = {a, b}
  Payload = {0, 1, 2, 4}
  item_capacity = 2
  max_queued_bytes = 3
  MaxHeld = 2
CHECK_DEADLOCK FALSE
INVARIANTS
  BudgetConserved
PROPERTY SendTerminates
