SPECIFICATION Spec
CONSTANTS
  Users = {1, 2, 3}
  Amounts = {20, 30, 35, 40}
  FeePercents = {10}
  Auctions = {a1}
  Seller = 1
  Requests = {r1}
  Schedulers = {s1}
  Nobody = Nobody
  PanelTargets = {}
  SellerOps = {"publish", "update"}
  RequireModeration = FALSE
  OpeningPrice = 10
  OpeningBalance = 40
  MinIncrement = 10
  SoftCloseWindow = 1
  Duration = 2
  MaxTime = 2
  MaxBids = 3
  MaxFaults = 0
INVARIANTS TypeOK PriceIsTopBid BidsClimb
PROPERTIES LeadersStayCovered EndNeverMovesBack
