\* The sensors outgrow the reply buffer while the operator is connected.
\* A client that could not connect or log in stops for good: no deadlock check.
CONSTANTS
  LongFrom = 1
  MaxVersion = 1
  MaxAlerts = 0
  MaxDrops = 0
  MaxOperators = 1
  MaxRaces = 0
  Capacity = 2
SPECIFICATION FairSpec
PROPERTIES DashboardShowsAll
CHECK_DEADLOCK FALSE
