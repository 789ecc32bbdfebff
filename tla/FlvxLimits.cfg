SPECIFICATION MCSpec
CONSTANTS
  None = None
  Owners = {1, 2}
  Offers <- MCOffers
  Sequences = {1, 2}
  TTL = 2
  Kinds <- MCKinds
  Budgets <- MCBudgets
  Total = 3
  Ports = {1, 2}
  Devs = {1, 2}
  Slots = {1, 2}
  Unlimited = 9
  First <- MCFirst
  MaxLeases = 3
INVARIANTS
  NoRedirectIntoNothing
  RatesInForce
PROPERTIES
  AdmittedWithinBudget
  RatesEnd
CHECK_DEADLOCK FALSE
