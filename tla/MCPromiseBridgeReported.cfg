SPECIFICATION Spec
CONSTANTS
  Contexts <- BothContexts
  MaxPromises = 2
  Unmade = Unmade
  Origin = Origin
INVARIANT DeliveredNotReported
CHECK_DEADLOCK FALSE
