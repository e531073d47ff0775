SPECIFICATION Spec
CONSTANTS
  Collectors = {"old", "new", "flaky"}
  Unreliable = {"flaky"}
  Timings <- MCTimings
  Requests = {"r1", "r2"}
  MaxCollect = 2
  Horizon = 9
INVARIANTS
  TypeOK
  FreshEnough
  PollingKeepsFresh
  OldCollectorGone
  ServedOrFailed
