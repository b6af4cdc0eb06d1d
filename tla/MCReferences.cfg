\* The system stops when every identifier has been used.
SPECIFICATION Spec
CONSTANTS
  Global = Global
  o1 = o1
  f1 = f1
  f2 = f2
  c1 = c1
  Objects = {o1}
  Functions = {f1, f2}
  Callbacks = {c1}
  None = None
  Supplies <- Small2
  MaxJobs = 2
CHECK_DEADLOCK FALSE
INVARIANTS TypeOK CallbackFound NothingKept HandlesResolve CountExact
PROPERTIES WeakOnce AllReleased
