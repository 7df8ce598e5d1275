\* Two states of the sensors, an alert, a lost WebSocket, a reply overwritten
\* by another thread, and a table of operators with a single slot.
\* A client that could not connect or log in stops for good: no deadlock check.
CONSTANTS
  LongFrom = 2
  MaxVersion = 1
  MaxAlerts = 1
  MaxDrops = 1
  MaxOperators = 1
  MaxRaces = 1
  Capacity = 2
SPECIFICATION FairSpec
INVARIANTS TypeOK ReaderIsRegistered GivesUpOnlyIfOvertaken AlertsArriveOnce
PROPERTIES CacheNeverOlder DashboardCatchesUp AlertsAreShown LoginSettles
CHECK_DEADLOCK FALSE
