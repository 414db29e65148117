SPECIFICATION Spec
CONSTANTS
  References = {r1}
  Charges = {c1, c2}
  Providers = {"MERCADO_PAGO"}
  Webhooks = {w1}
  Pollers = {p1}
  AmountKinds = {"asked", "other"}
  NoCharge = NoCharge
  MaxRefunds = 1
  MaxFailures = 0
  MaxCrashes = 0
INVARIANT NoChargeLost
