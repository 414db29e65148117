SPECIFICATION FairSpec
CONSTANTS
  Handlers = {h1, h2}
  Refusals = {"REJECTED"}
  MaxPasswords = 2
  MaxSubmissions = 1
  MaxPanel = 1
INVARIANTS TypeOK ResetEndsSessions SellerWasApproved
PROPERTIES PendingIsVerified
CHECK_DEADLOCK FALSE
