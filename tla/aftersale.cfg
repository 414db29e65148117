SPECIFICATION FairSpec
CONSTANTS
  Orders = {o1}
  Total = 10
  Net = 9
  RefundAmounts = {4, 10}
  RefundStatuses = {"COMPLETED"}
  Declared = {"SHIPPED", "DELIVERED", "RETURNED"}
  Handlers = {h1, h2}
  Jobs = {j1}
  Window = 2
  Holdback = 1
  MaxTime = 2
  MaxFaults = 1
INVARIANTS TypeOK ResolvedIsRepaid
PROPERTIES HoldbackRespected  SoldIsSettled
CHECK_DEADLOCK FALSE
