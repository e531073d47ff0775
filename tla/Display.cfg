SPECIFICATION Spec
CONSTANTS
  Sources = {1, 2}
  Inventories <- MCInventories
  MaxTasks = 3
  MaxItems = 3
  MaxDetailItems = 2
  DeviceHosts = 2
  DeviceGuests = 2
  DeviceTasks = 2
  DeviceAlerts = 2
  DeviceItems = 2
  Samples = 24
  Points = {0, 1, 2, 24, 25, 47, 70}
  MaxRounds = 2
INVARIANTS
  TypeOK
  MostUrgentShown
  SummaryOfEverything
  TrendSpansAll
