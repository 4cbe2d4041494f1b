SPECIFICATION Spec
CONSTANTS
  Handlers = {r1, r2}
  Sweeper = sweeper
  MaxAttempts = 3
  MaxReturns = 1
  MaxFaults = 0
INVARIANTS DeliveredIsTheEnding
CHECK_DEADLOCK FALSE
