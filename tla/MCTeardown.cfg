SPECIFICATION Spec
CONSTANTS
  Scopes = {s1, s2, s3}
  Wrapper = Wrapper
  Nobody = Nobody
  MaxCalls = 3
INVARIANTS TypeOK SafeWhenSettled
PROPERTY TeardownReturns
CHECK_DEADLOCK FALSE
