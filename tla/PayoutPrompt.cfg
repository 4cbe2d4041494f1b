SPECIFICATION Spec
CONSTANTS
  None = None
  Payouts = {p1}
  Captains = {c1, c2}
  Handlers = {w1, w2}
  Sweepers = {w1, w2}
  Amount <- MCAmount
  Charge <- MCCharge
  DefaultShare <- MCDefaultShare
  AgreedShare <- MCAgreedShare
  Ceiling <- MCCeiling
  OpeningDmc <- MCOpeningDmc
  FallsShort = {}
  OpeningParty = 26
  Deployments = {TRUE, FALSE}
  PromptRequests = TRUE
  MaxCrashes <- MCCrashes
INVARIANTS HoldsMatchHolders ProofStands CompletedInFull MoneyConserved
PROPERTIES ExclusionIsPermanent KeepsTheEscrow
SYMMETRY MCSymmetry
CHECK_DEADLOCK FALSE
