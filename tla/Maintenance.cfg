SPECIFICATION MaintenanceSpec
CONSTANTS
  \* Scheduler
  LastSource = 4
  PageSize = 2
  MaxPages = 1
  MaxRefreshes = 1
  \* Rollups, Telemetry
  HourLength = 2
  DayLength = 4
  LastMinute = 11
  EventTimes = {0, 1, 4}
  JobTimes = {2, 7, 11}
  Keeps <- SomeKeeps
  Capacity = 2
  BatchSize = 2
  MaxEvents = 2
INVARIANTS
  QuietAfterStop EventsAccounted
PROPERTIES
  RetentionAdvances NothingWaitsForEver
CHECK_DEADLOCK FALSE
