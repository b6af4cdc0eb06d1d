SPECIFICATION Spec
CONSTANTS
  Jobs = {j1, j2}
  NoJob = NoJob
  Producers = {p1, p2}
  Owner = Owner
  Worker = Worker
  Free = Free
  MaxAdds = 4
  MaxSpurious = 2
INVARIANTS TypeOK NoLostWakeup DestroyedUnused
PROPERTIES ExecutorSpec OwnerReturns
