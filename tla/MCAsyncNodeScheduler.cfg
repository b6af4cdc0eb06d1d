SPECIFICATION Spec
CONSTANTS
  Producers = {p1, p2}
  NoTask = NoTask
  MaxAdds = 4
  SpuriousWaits = {"await"}
  MaxSpurious = 2
INVARIANTS TypeOK NodeJobAlive NoLostSignal
PROPERTIES ExecutorSpec
