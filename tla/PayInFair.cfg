SPECIFICATION FairSpec
CONSTANTS
  None = None
  Payments = {p1, p2}
  Captains = {c1, c2}
  Handlers = {w1, w2}
  Sweepers = {w1, w2}
  Amount <- MCAmount
  Charge <- MCCharge
  DefaultShare <- MCDefaultShare
  AgreedShare <- MCAgreedShare
  Ceiling <- MCCeiling
  OpeningDmc <- MCOpeningDmc
  UseTransactions = FALSE
  PromptAssignment = TRUE
  MaxCrashes = 0
  MaxFailures = 1
  Withdrawals = {3}
  Fundings = {2}
  MaxFunded = 2
INVARIANTS TypeOK BooksBalance HoldsMatchCarriers CommissionIsFunded
PROPERTIES EveryPayInEnds EndedIsFinal
CHECK_DEADLOCK FALSE
