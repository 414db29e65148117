SPECIFICATION FairSpec
CONSTANTS
  Orders = {o1, o2}
  Total = 10
  Net = 9
  RefundAmounts = {10}
  RefundStatuses = {}
  Declared = {}
  Handlers = {h1}
  Jobs = {j1}
  Window = 1
  Holdback = 1
  MaxTime = 1
  MaxFaults = 0
PROPERTIES RefundedNotReleased
CHECK_DEADLOCK FALSE
