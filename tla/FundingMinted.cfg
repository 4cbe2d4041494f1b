SPECIFICATION DeskSpec
CONSTANTS
  None = None
  TopUps = {"top-up"}
  Deposits = {"deposit"}
  LimitPurchases = {"purchase"}
  Redemptions = {"redemption"}
  Parties = {"A", "B"}
  Captains = {"c"}
  Owner <- MCOwner
  Amount <- MCAmount
  LockPercentages = {50}
  Shares = {2}
  Claims = {2}
  Ceilings = {0}
  Grants = {2}
  Handlers = {h1, h2}
  MaxFunded = 2
  MaxCeiling = 4
  MaxRefused = 1
  MaxCrashes = 1
  Rows <- MCRows
  Requests = {q1, q2}
  Workers = {w1, w2}
  PromptRequests = TRUE
  OpeningPool = 0
  Commissions = {2}
  Earned <- MCEarned
  Source <- MCSource
  Amounts = {1, 3}
  Applications = {a1, a2}
  Nobody = nobody
  Admin = admin
INVARIANTS NothingMinted
SYMMETRY MCSymmetry
CHECK_DEADLOCK FALSE
