SPECIFICATION ServicesSpec
CONSTANTS
  \* Events, Alerts
  Listeners = {"alerts", "sse"}
  Dispatcher = "alerts"
  Retained = 1
  StreamCapacity = 1
  MaxSubscribers = 1
  MaxPublished = 2
  Hooks = {"h1"}
  Rules = {"r1"}
  Workers = {"w1"}
  QueueCapacity = 1
  MaxAttempts = 2
  MaxEdits = 2
  \* Caches, DiskCache
  Keys = {1, 2, 3}
  HostOf <- SomeHosts
  Names = {1, 2}
  Lookups = {"l1", "l2"}
  Sizes = {1, 2}
  MaxEntries = 2
  MaxBytes = 3
  MaxClock = 1
  MaxPuts = 3
INVARIANTS
  AlertsSound CachesSound
PROPERTIES
  StopJoins
CHECK_DEADLOCK FALSE
