SPECIFICATION SafeSpec
CONSTANTS
  Jobs = {j1, j2}
  NoJob = NoJob
  Nested = Nested
  Stuck = Stuck
  NoTask = NoTask
  Kinds = {"eval", "derefObject", "createObject", "getObject",
           "callMethod"}
  ResultValues = {"plain", "settledPromise", "throwingThen"}
  MaxCalls = 1
  MaxPromises = 1
  SpuriousWaits = {"J", "D"}
  MaxSpurious = 1
INVARIANTS OneHeapUser Settlement StackAccounted
CHECK_DEADLOCK FALSE
