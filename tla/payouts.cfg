SPECIFICATION Spec
CONSTANTS
  Accounts = {clabe}
  PayPal = {}
  Callers = {c1}
  Panels = {p1}
  MaxAttempts = 1
  MaxVerifications = 1
  Requests = {w1, w2}
  Amounts = {1}
  Fee = 1
  DailyLimit = 1
  Sellers = {s1}
  Admins = {d1}
  MaxBalance = 2
  MaxSubmissions = 1
  MaxDeaths = 1
INVARIANTS TypeOK EndsOnce WithinDailyLimit
CHECK_DEADLOCK FALSE
