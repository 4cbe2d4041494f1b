SPECIFICATION FairSpec
CONSTANTS
  None = None
  Captains = {c1, c2}
  Requests = {r1}
  Sweepers = {s1}
  PromptRouting = TRUE
  MaxReassigned = 1
  MaxCrashes = 1
INVARIANTS RoutingTypeOK OneTurnEach HeldIsNotOffered
PROPERTIES RoutingMovesOn
CHECK_DEADLOCK FALSE
