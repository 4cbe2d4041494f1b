SPECIFICATION Spec
CONSTANTS
  None = None
  Payments = {p1, p2}
  Captains = {c1, c2}
  Handlers = {w1, w2}
  Sweepers = {w1, w2}
  Amount <- MCAmount
  Charge <- MCCharge
  DefaultShare <- MCDefaultShare
  AgreedShare <- MCAgreedShare
  Ceiling <- MCCeiling
  OpeningDmc <- MCOpeningDmc
  UseTransactions = TRUE
  PromptAssignment = TRUE
  MaxCrashes = 1
  MaxFailures = 0
  Withdrawals = {}
  Fundings = {}
  MaxFunded = 0
INVARIANTS NothingGivenUnheld
SYMMETRY MCSymmetry
CHECK_DEADLOCK FALSE
