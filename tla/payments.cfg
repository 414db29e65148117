SPECIFICATION FairSpec
CONSTANTS
  References = {r1}
  Charges = {c1, c2}
  Providers = {"MERCADO_PAGO", "PAYPAL", "STRIPE", "HEY_BANCO"}
  Webhooks = {w1}
  Pollers = {p1}
  AmountKinds = {"asked", "other"}
  NoCharge = NoCharge
  MaxRefunds = 1
  MaxFailures = 1
  MaxCrashes = 1
INVARIANTS TypeOK CreditedOnce CreditedAsAsked SettledIsCredited
 
