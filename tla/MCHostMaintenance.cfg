SPECIFICATION Spec
CONSTANTS
  Root = {binary, runtime}
  Meta = {manifest}
  Items = {map}
  MayFail <- Anything
  MaxKinds = 1
  MaxAttempts = 2
  MaxUpdates = 1
  EmptyTicks = 2
INVARIANTS
  RunsOneBuild
  UpdatesLoaded
  NotLeftDown
PROPERTIES
  StopHolds
  QuietEnough
