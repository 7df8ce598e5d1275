\* One slot too few, a slow sensor, one restart of the server, one lost connection.
\* Sensors that have been interrupted have stopped: no deadlock check.
CONSTANTS
  Sensors = {s1, s2, s3}
  Invalid = {s3}
  Slow = {s2}
  MaxSensors = 2
  MaxCrashes = 1
  MaxFaults = 1
SPECIFICATION FairSpec
INVARIANTS TypeOK RegisteredWhileConnected LatestIsStored EndedNeverMeasured
PROPERTIES MeasuringGoesOn
CHECK_DEADLOCK FALSE
