SPECIFICATION Spec
CONSTANTS
  Jobs = {j1, j2}
  NoJob = NoJob
  Nested = Nested
  Stuck = Stuck
  NoTask = NoTask
  Kinds = {"eval", "runCallback", "resolvePromise", "catchPromise",
           "derefObject", "derefCallback", "setPropertyFunction",
           "setPropertyValue", "getProperty", "deleteProperty",
           "callMethod", "runGC"}
  ResultValues = {"plain"}
  MaxCalls = 1
  MaxPromises = 1
  SpuriousWaits = {}
  MaxSpurious = 0
INVARIANTS TypeOK OneHeapUser NoLostAnswer NoUseAfterDelete Settlement StackAccounted
PROPERTIES TurnsSpec PromisesSettle
