SPECIFICATION Spec
CONSTANTS
  None = None
  Payments = {p1, p2}
  Captains = {c1, c2}
  Handlers = {w1, w2, w3}
  Sweepers = {w1, w2, w3}
  Amount <- MCAmount
  Charge <- MCCharge
  DefaultShare <- MCDefaultShare
  AgreedShare <- MCAgreedShare
  Ceiling <- MCCeiling
  OpeningDmc <- MCOpeningDmc
  UseTransactions = TRUE
  PromptAssignment = FALSE
  MaxCrashes = 1
  MaxFailures = 1
  Withdrawals = {}
  Fundings = {}
  MaxFunded = 0
INVARIANTS SettledFromHold
SYMMETRY MCSymmetry
CHECK_DEADLOCK FALSE
