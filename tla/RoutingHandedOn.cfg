SPECIFICATION Spec
CONSTANTS
  None = None
  Captains = {c1, c2}
  Requests = {r1}
  Sweepers = {s1}
  PromptRouting = TRUE
  MaxReassigned = 1
  MaxCrashes = 0
PROPERTIES OfferStands
CHECK_DEADLOCK FALSE
