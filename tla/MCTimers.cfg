\* The system stops when no call is under way and no timer is set.
SPECIFICATION Spec
CONSTANTS
  Contexts = {FALSE, TRUE}
  NoTable = NoTable
  MaxCalls <- Calls4and2
  MaxTimers <- Timers3and2
  MaxQueue = 2
CHECK_DEADLOCK FALSE
INVARIANTS TypeOK TableExact ClearedIsDisarmed EnabledHasTimers
PROPERTIES DisableStopsAll
