SPECIFICATION TelemetrySpec
CONSTANTS
  HourLength = 2
  DayLength = 4
  LastMinute = 11
  EventTimes = {0, 3, 4}
  JobTimes = {2, 7, 11}
  Keeps <- SomeKeeps
  Capacity = 2
  BatchSize = 2
  MaxEvents = 2
INVARIANTS SummaryExact
CHECK_DEADLOCK FALSE
