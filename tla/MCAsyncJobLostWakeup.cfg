SPECIFICATION Spec
CONSTANTS
  Jobs = {j1, j2}
  NoJob = NoJob
  Nested = Nested
  Stuck = Stuck
  NoTask = NoTask
  Kinds = {"createObject"}
  ResultValues = {"plain"}
  MaxCalls = 1
  MaxPromises = 0
  SpuriousWaits = {}
  MaxSpurious = 0
PROPERTIES PromisesSettle
CHECK_DEADLOCK FALSE
