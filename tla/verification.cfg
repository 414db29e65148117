SPECIFICATION VerSpec
CONSTANTS
  Accounts = {clabe, pp}
  PayPal = {pp}
  Callers = {c1}
  Panels = {p1}
  MaxAttempts = 2
  MaxVerifications = 2
INVARIANTS VerTypeOK  AttemptsCapped
CHECK_DEADLOCK FALSE
