SPECIFICATION BuildSpec
CONSTANTS
  Root = {binary, runtime}
  Meta = {manifest}
  MayFail = {"copy"}
  MaxKinds = 0
  MaxAttempts = 1
  MaxUpdates = 1
INVARIANT
  PreviousRestored
CHECK_DEADLOCK FALSE
