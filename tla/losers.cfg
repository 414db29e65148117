SPECIFICATION TwoRunningSpec
CONSTANTS
  Users = {1, 2, 3}
  Amounts = {20, 30}
  FeePercents = {10}
  Auctions = {a1, a2}
  Seller = 1
  Requests = {r1}
  Schedulers = {s1}
  Nobody = Nobody
  PanelTargets = {}
  SellerOps = {}
  RequireModeration = FALSE
  OpeningPrice = 10
  OpeningBalance = 30
  MinIncrement = 10
  SoftCloseWindow = 2
  Duration = 1
  MaxTime = 2
  MaxBids = 2
  MaxFaults = 0
PROPERTY LosersReleasedOnce
