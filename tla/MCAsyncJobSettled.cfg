SPECIFICATION Spec
CONSTANTS
  Jobs = {j1, j2}
  NoJob = NoJob
  Nested = Nested
  Stuck = Stuck
  NoTask = NoTask
  Kinds = {"eval"}
  ResultValues = {"plain", "settledPromise"}
  MaxCalls = 1
  MaxPromises = 0
  SpuriousWaits = {}
  MaxSpurious = 0
INVARIANTS NodeNeverWaits
CHECK_DEADLOCK FALSE
