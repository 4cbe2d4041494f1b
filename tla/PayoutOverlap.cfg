SPECIFICATION Spec
CONSTANTS
  None = None
  Payouts = {p1}
  Captains = {c1, c2}
  Handlers = {w1, w2}
  Sweepers = {w1, w2}
  Amount <- MCAmount
  Charge <- MCCharge
  DefaultShare <- MCDefaultShare
  AgreedShare <- MCAgreedShare
  Ceiling <- MCCeiling
  OpeningDmc <- MCOpeningDmc
  FallsShort = {}
  OpeningParty = 26
  Deployments = {FALSE}
  PromptRequests = FALSE
  MaxCrashes <- MCNoCrashes
INVARIANTS TypeOK MoneyConserved SettledOnce NoOverdraft
PROPERTIES LegalTransitions
SYMMETRY MCSymmetry
