SPECIFICATION FairSpec
CONSTANTS
  Users = {1, 2}
  Amounts = {20}
  FeePercents = {10}
  Auctions = {a1}
  Seller = 1
  Requests = {r1}
  Schedulers = {s1, s2}
  Nobody = Nobody
  PanelTargets = {"SUSPENDED"}
  SellerOps = {"publish"}
  RequireModeration = TRUE
  OpeningPrice = 10
  OpeningBalance = 40
  MinIncrement = 10
  SoftCloseWindow = 1
  Duration = 1
  MaxTime = 2
  MaxBids = 1
  MaxFaults = 1
INVARIANTS SoldOnce
PROPERTIES LockReleasedByOwner 
