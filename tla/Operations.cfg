SPECIFICATION MCSpec
CONSTANTS
  None = None
  Payouts = {p1}
  Captains = {c1, c2}
  Handlers = {h1}
  Sweepers = {s1}
  Amount <- MCAmount
  Charge <- MCCharge
  DefaultShare <- MCDefaultShare
  AgreedShare <- MCAgreedShare
  Ceiling <- MCCeiling
  OpeningDmc <- MCOpeningDmc
  FallsShort = {}
  OpeningParty = 26
  Deployments = {FALSE}
  PromptRequests = FALSE
  MaxCrashes <- MCNoCrashes
  ServedRequests = {r1, r2}
  Nothing = Nothing
  Sweeper = sweeper
  MaxAttempts = 3
  MaxReturns = 1
  MaxFaults = 1
  Codes = {k1, k2}
  SessionIds = {id1, id2}
  Readers = {reader}
  Admins = {x1, x2}
  NoSnapshot = NoSnapshot
  MaxVersion = 2
INVARIANTS ToldAsItEnded ExclusiveInTime OneSessionPerCode
PROPERTIES EveryPayoutComesToRest EndingIsTold StaleIsCleared StaleCacheDies NoLostUpdate
CHECK_DEADLOCK FALSE
